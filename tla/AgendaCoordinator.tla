-------------------------- MODULE AgendaCoordinator --------------------------
(***************************************************************************)
(* Admission of agenda mutations for one event: the Durable Object of      *)
(* agenda-coordinator.ts and the callers of runExclusive in                *)
(* runtime/airtable.ts.                                                    *)
(*                                                                         *)
(* One step is one transaction of the object, one event it waits for, or   *)
(* one step of a caller between two requests.  Times are remaining times,  *)
(* which a tick brings down together, so equal deadlines stay equal.       *)
(***************************************************************************)
EXTENDS Integers, Sequences, FiniteSets, Functions

CONSTANTS
  Operation,     \* calls of runExclusive, each with its operation id
  NoOperation,
  Isolate,       \* isolates, each with one tail of calls for the event
  IsolateOf,     \* the isolate in which a call is made
  NoLease,       \* an absent lease key
  LeaseTime,     \* leaseDurationMs, in ticks
  Punctual,      \* operations whose caller, while alive, renews before its lease ends
  Resent         \* operations whose admission request arrives a second time

ASSUME CoordinatorAssumption ==
  /\ NoOperation \notin Operation
  /\ IsolateOf \in [Operation -> Isolate]
  /\ LeaseTime \in Nat \ {0}
  /\ Punctual \subseteq Operation
  /\ Resent \subseteq Operation

Lease == [operation : Operation, remaining : 0 .. LeaseTime]

ASSUME NoLeaseAssumption == NoLease \notin Lease

VARIABLES
  revision,  \* agenda:revision
  receipts,  \* agenda:operation:<id>, the revision each receipt records, or 0
  lease,     \* agenda:lease
  waiters,   \* #leaseWaiters: calls whose finish is registered
  call,      \* where each call is
  tail,      \* #tails: calls of each isolate, the running one first
  gone,      \* calls whose caller is lost while the object still handles them
  resend     \* admission requests that are still to arrive a second time

vars == <<revision, receipts, lease, waiters, call, tail, gone, resend>>

(* A POST is in the object's hands from "posting" to "waiting". *)
PostPC == {"posting", "blocked", "checking", "waiting"}

PC == PostPC \cup {"idle", "tail", "asking", "running", "releasing", "done", "failed"}

Call == [pc : PC,
         expected : Nat,                 \* the revision of its last GET
         seen : Lease \cup {NoLease},    \* the lease it was told to wait for
         threw : BOOLEAN]                 \* its operation or a renewal threw

TypeOK ==
  /\ revision \in Nat
  /\ receipts \in [Operation -> Nat]
  /\ lease \in Lease \cup {NoLease}
  /\ waiters \in SUBSET Operation
  /\ call \in [Operation -> Call]
  /\ tail \in [Isolate -> Seq(Operation)]
  /\ gone \in SUBSET Operation
  /\ resend \in SUBSET Operation

Init ==
  /\ revision = 0
  /\ receipts = [o \in Operation |-> 0]
  /\ lease = NoLease
  /\ waiters = {}
  /\ call = [o \in Operation |-> [pc |-> "idle", expected |-> 0, seen |-> NoLease,
                                  threw |-> FALSE]]
  /\ tail = [i \in Isolate |-> <<>>]
  /\ gone = {}
  /\ resend = Resent

-----------------------------------------------------------------------------
(* The operation whose lease is in force: an expired lease that is still   *)
(* stored counts as none.                                                  *)
Holder == IF lease # NoLease /\ lease.remaining > 0 THEN lease.operation ELSE NoOperation

LeaseFor(o) == [operation |-> o, remaining |-> LeaseTime]

At(o, pc) == call[o].pc = pc
Go(o, pc) == call' = [call EXCEPT ![o].pc = pc]

(* runExclusive returns or throws: the next call of the isolate may start. *)
End(o, pc) ==
  /\ Go(o, pc)
  /\ tail' = [tail EXCEPT ![IsolateOf[o]] = Tail(@)]

(* A call whose caller is lost has left its tail already. *)
Answer(o, pc) == Go(o, IF o \in gone THEN "failed" ELSE pc)

-----------------------------------------------------------------------------
(* Callers: runExclusive. *)

Begin(o) ==
  /\ At(o, "idle")
  /\ Go(o, "tail")
  /\ tail' = [tail EXCEPT ![IsolateOf[o]] = Append(@, o)]
  /\ UNCHANGED <<revision, receipts, lease, waiters, gone, resend>>

Start(o) ==
  /\ At(o, "tail")
  /\ Head(tail[IsolateOf[o]]) = o
  /\ Go(o, "asking")
  /\ UNCHANGED <<revision, receipts, lease, waiters, tail, gone, resend>>

AskRevision(o) ==
  /\ At(o, "asking")
  /\ call' = [call EXCEPT ![o].pc = "posting", ![o].expected = revision]
  /\ UNCHANGED <<revision, receipts, lease, waiters, tail, gone, resend>>

(* The interval, and the renewals the agenda engine asks for: a request    *)
(* that is answered with a conflict, or fails, makes the call throw.       *)
Renew(o) ==
  /\ At(o, "running")
  /\ \/ Holder = o /\ lease' = LeaseFor(o) /\ UNCHANGED call
     \/ /\ Holder # o \/ o \notin Punctual
        /\ call' = [call EXCEPT ![o].threw = TRUE]
        /\ UNCHANGED lease
  /\ UNCHANGED <<revision, receipts, waiters, tail, gone, resend>>

(* The operation returns or throws. *)
Finish(o) ==
  /\ At(o, "running")
  /\ \E threw \in {call[o].threw, TRUE} :
       call' = [call EXCEPT ![o].pc = "releasing", ![o].threw = threw]
  /\ UNCHANGED <<revision, receipts, lease, waiters, tail, gone, resend>>

Released(o) == End(o, IF call[o].threw THEN "failed" ELSE "done")

(* Mutant: DELETE does not compare the operation. *)
ReleaseAny(o) ==
  /\ At(o, "releasing")
  /\ lease' = NoLease
  /\ waiters' = {}
  /\ Released(o)
  /\ UNCHANGED <<revision, receipts, gone, resend>>

(* DELETE, and how the call ends. *)
Release(o) ==
  /\ At(o, "releasing")
  /\ \/ /\ lease # NoLease => lease.operation = o
        /\ lease' = NoLease
        /\ waiters' = {}
        /\ Released(o)
     \/ /\ lease # NoLease
        /\ lease.operation # o
        /\ End(o, "failed")
        /\ UNCHANGED <<lease, waiters>>
  /\ UNCHANGED <<revision, receipts, gone, resend>>

(* Losses.  A call whose caller is lost in a POST may be handled to its    *)
(* end for nobody; a DELETE whose answer is lost is a Release.             *)

Fail(Q) ==
  call' = [o \in Operation |-> IF o \in Q THEN [call[o] EXCEPT !.pc = "failed"] ELSE call[o]]

Posting == {o \in Operation : call[o].pc \in PostPC}

(* A fetch throws: runExclusive ends. *)
FetchFails(o) ==
  /\ call[o].pc \in PostPC \cup {"asking", "releasing"}
  /\ o \notin gone
  /\ tail' = [tail EXCEPT ![IsolateOf[o]] = Tail(@)]
  /\ \/ Fail({o}) /\ waiters' = waiters \ {o} /\ UNCHANGED gone
     \/ o \in Posting /\ gone' = gone \cup {o} /\ UNCHANGED <<waiters, call>>
  /\ UNCHANGED <<revision, receipts, lease, resend>>

(* An isolate is lost with all its calls. *)
LoseIsolate(i) ==
  /\ tail[i] # <<>>
  /\ tail' = [tail EXCEPT ![i] = <<>>]
  /\ \E kept \in SUBSET (Range(tail[i]) \cap Posting) :
       /\ Fail(Range(tail[i]) \ kept)
       /\ waiters' = waiters \ (Range(tail[i]) \ kept)
       /\ gone' = gone \cup kept
  /\ UNCHANGED <<revision, receipts, lease, resend>>

(* The object starts again: its storage stays, its waiters do not, and the *)
(* requests it had in hand fail.                                           *)
RestartObject ==
  /\ Posting # {}
  /\ waiters' = {}
  /\ Fail(Posting)
  /\ tail' = [i \in Isolate |-> IF tail[i] # <<>> /\ Head(tail[i]) \in Posting
                              THEN Tail(tail[i]) ELSE tail[i]]
  /\ UNCHANGED <<revision, receipts, lease, gone, resend>>

-----------------------------------------------------------------------------
(* The object: POST /mutations of an operation it has no receipt for. *)

Refuse(o) ==
  /\ At(o, "posting")
  /\ call[o].expected # revision
  /\ Answer(o, "asking")
  /\ UNCHANGED <<revision, receipts, lease, waiters, tail, gone, resend>>

Block(o) ==
  /\ At(o, "posting")
  /\ call[o].expected = revision
  /\ Holder # NoOperation
  /\ call' = [call EXCEPT ![o].pc = "blocked", ![o].seen = lease]
  /\ UNCHANGED <<revision, receipts, lease, waiters, tail, gone, resend>>

(* Mutant: the admission does not look at the lease. *)
AdmitAnyway(o) ==
  /\ At(o, "posting")
  /\ call[o].expected = revision
  /\ revision' = revision + 1
  /\ receipts' = [receipts EXCEPT ![o] = revision + 1]
  /\ lease' = LeaseFor(o)
  /\ Answer(o, "running")
  /\ UNCHANGED <<waiters, tail, gone, resend>>

(* Mutant: the admission trusts the revision the caller expects. *)
AdmitExpected(o) ==
  /\ At(o, "posting")
  /\ Holder = NoOperation
  /\ revision' = call[o].expected + 1
  /\ receipts' = [receipts EXCEPT ![o] = call[o].expected + 1]
  /\ lease' = LeaseFor(o)
  /\ Answer(o, "running")
  /\ UNCHANGED <<waiters, tail, gone, resend>>

Admit(o) ==
  /\ At(o, "posting")
  /\ call[o].expected = revision
  /\ Holder = NoOperation
  /\ revision' = revision + 1
  /\ receipts' = [receipts EXCEPT ![o] = revision + 1]
  /\ lease' = LeaseFor(o)
  /\ Answer(o, "running")
  /\ UNCHANGED <<waiters, tail, gone, resend>>

(* #waitForLease: register finish, read the lease again, sleep. *)

Resume(o) == call' = [call EXCEPT ![o].pc = "posting", ![o].seen = NoLease]

Register(o) ==
  /\ At(o, "blocked")
  /\ waiters' = waiters \cup {o}
  /\ Go(o, "checking")
  /\ UNCHANGED <<revision, receipts, lease, tail, gone, resend>>

(* Mutant: the lease is not read again after the waiter registered. *)
CheckNothing(o) ==
  /\ At(o, "checking")
  /\ IF o \in waiters
     THEN Go(o, "waiting") /\ UNCHANGED waiters
     ELSE Resume(o) /\ waiters' = waiters \ {o}
  /\ UNCHANGED <<revision, receipts, lease, tail, gone, resend>>

Check(o) ==
  /\ At(o, "checking")
  /\ IF o \in waiters /\ lease = call[o].seen
     THEN Go(o, "waiting") /\ UNCHANGED waiters
     ELSE Resume(o) /\ waiters' = waiters \ {o}
  /\ UNCHANGED <<revision, receipts, lease, tail, gone, resend>>

(* Mutant: a waiter has no timer: only a release wakes it. *)
TimerNeverFires(o) ==
  /\ o \in waiters
  /\ call[o].seen = NoLease
  /\ waiters' = waiters \ {o}
  /\ UNCHANGED <<revision, receipts, lease, call, tail, gone, resend>>

TimerFires(o) ==
  /\ o \in waiters
  /\ call[o].seen.remaining = 0
  /\ waiters' = waiters \ {o}
  /\ UNCHANGED <<revision, receipts, lease, call, tail, gone, resend>>

Wake(o) ==
  /\ At(o, "waiting")
  /\ o \notin waiters
  /\ Resume(o)
  /\ UNCHANGED <<revision, receipts, lease, waiters, tail, gone, resend>>

(* Mutant: a receipt is enough to get the lease back. *)
ReplayAlways(o) ==
  /\ o \in resend
  /\ receipts[o] # 0
  /\ resend' = resend \ {o}
  /\ IF Holder \in {o, NoOperation} THEN lease' = LeaseFor(o) ELSE UNCHANGED lease
  /\ UNCHANGED <<revision, receipts, waiters, call, tail, gone>>

(* POST /mutations again, by an operation that has a receipt: its live     *)
(* lease is renewed; without one, it gets the lease back if no operation   *)
(* was admitted since.                                                     *)
Replay(o) ==
  /\ o \in resend
  /\ receipts[o] # 0
  /\ resend' = resend \ {o}
  /\ \/ Holder = o /\ lease' = LeaseFor(o)
     \/ Holder = NoOperation /\ revision = receipts[o] /\ lease' = LeaseFor(o)
     \/ /\ Holder # o
        /\ Holder # NoOperation \/ revision # receipts[o]
        /\ UNCHANGED lease
  /\ UNCHANGED <<revision, receipts, waiters, call, tail, gone>>

(* Time passes.  The bound Punctual: the interval of 30 s and a lease of   *)
(* 120 s leave a caller that is alive several chances to renew; a caller   *)
(* that is not punctual stalls, or its renewals fail.                      *)
Lower(l) == IF l # NoLease /\ l.remaining > 0 THEN [l EXCEPT !.remaining = @ - 1] ELSE l

Tick ==
  /\ \/ Holder # NoOperation
     \/ \E o \in waiters : call[o].seen.remaining > 0
  /\ Holder \in Punctual /\ call[Holder].pc \in {"running", "releasing"}
       => lease.remaining > 1
  /\ lease' = Lower(lease)
  /\ call' = [o \in Operation |-> [call[o] EXCEPT !.seen = Lower(@)]]
  /\ UNCHANGED <<revision, receipts, waiters, tail, gone, resend>>

-----------------------------------------------------------------------------
CallerStep(o) == Start(o) \/ AskRevision(o) \/ Finish(o) \/ Release(o)
ObjectStep(o) == Refuse(o) \/ Block(o) \/ Admit(o) \/ Register(o) \/ Check(o)
                   \/ TimerFires(o) \/ Wake(o)

Next ==
  \/ \E o \in Operation : CallerStep(o) \/ ObjectStep(o) \/ Begin(o) \/ Renew(o)
                            \/ FetchFails(o) \/ Replay(o)
  \/ \E i \in Isolate : LoseIsolate(i)
  \/ RestartObject
  \/ Tick

Spec == Init /\ [][Next]_vars

(* The event loops run what they can run, an operation returns, and time   *)
(* passes; nobody has to call, to be lost or to send twice.                *)
FairSpec ==
  /\ Spec
  /\ WF_vars(Tick)
  /\ \A o \in Operation : WF_vars(CallerStep(o)) /\ WF_vars(ObjectStep(o))

-----------------------------------------------------------------------------
(* Of two agenda operations of an event that run together one has stalled   *)
(* past its lease; operations whose callers renew in time never do so,      *)
(* whatever isolates they are in, and whatever stalls or is lost around     *)
(* them (runExclusive).                                                     *)
OneAtATime ==
  \A o, p \in Operation : At(o, "running") /\ At(p, "running") /\ o # p =>
    \E q \in {o, p} : q \notin Punctual /\ Holder # q

(* The revision counts the admissions: every receipt records a revision of *)
(* its own, so an expected revision identifies one history of the event.   *)
ReceiptsNumberAdmissions ==
  /\ {receipts[o] : o \in Operation} \ {0} = 1 .. revision
  /\ \A o, p \in Operation : receipts[o] = receipts[p] /\ receipts[o] # 0 => o = p

(* A request sleeps only as long as there is a lease whose release will    *)
(* wake it, or its timer is due.                                           *)
SleepersWillWake ==
  \A o \in waiters : At(o, "waiting") => lease # NoLease \/ call[o].seen.remaining = 0

(* A lease in force ends when its holder asks for that or when it has run  *)
(* out, never through the late release of an operation that lost its own.  *)
LeaseEndsByHolder ==
  [][Holder # NoOperation /\ Holder' # Holder
       => At(Holder, "releasing") \/ (lease.remaining = 1 /\ lease' = Lower(lease))]_vars

(* The promise of AgendaLease, kept for every timing and whatever is lost. *)
Promise == INSTANCE AgendaLease WITH
  admitted <- {o \in Operation : receipts[o] # 0},
  latest <- IF revision = 0 THEN NoOperation
            ELSE CHOOSE o \in Operation : receipts[o] = revision,
  holder <- Holder

LeasePromise == Promise!LeaseSpec

(* Every call of runExclusive ends, though callers are lost while they     *)
(* hold the lease, wait for it, or are being admitted.                     *)
CallsEnd ==
  \A o \in Operation : At(o, "tail") ~> call[o].pc \in {"done", "failed"}
=============================================================================
