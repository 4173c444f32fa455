--------------------------- MODULE AgendaPublication ---------------------------
(***************************************************************************)
(* What an agenda operation does under its lease: the engine's mutate      *)
(* (features/agenda/engine.ts), the commit to D1, and afterPublish         *)
(* (runtime/airtable.ts), which hands a published revision to the program  *)
(* that the public sees (ProgramPublicationService).                       *)
(*                                                                         *)
(* The lease is that of AgendaLease, which AgendaCoordinator implements.   *)
(* An aggregate is read and compared-and-swapped by its version, so a read *)
(* and the swap that depends on it are one step where nothing but the      *)
(* version could tell them apart, and two steps everywhere else.           *)
(***************************************************************************)
EXTENDS AgendaLease, Integers, Sequences

CONSTANTS
  Kinds,        \* the kinds of mutation a call may be
  MaxLapses,    \* bound: leases and reservations that run out under a live operation
  MaxFaults,    \* bound: lost isolates and failed D1 calls
  MaxRollbacks  \* bound: rollbacks of the program

Kind == {"edit", "publish", "refresh", "restore"}

ASSUME PublicationAssumption ==
  /\ NoOperation \notin Operation
  /\ Kinds \in [Operation -> SUBSET Kind]
  /\ MaxLapses \in Nat
  /\ MaxFaults \in Nat
  /\ MaxRollbacks \in Nat

VARIABLES
  agenda,    \* the agenda aggregate of the event
  program,   \* the program publication state of the event
  job,       \* each call of mutate
  lapses, faults, rollbacks

vars == <<leaseVars, agenda, program, job, lapses, faults, rollbacks>>

(* A draft is known by the operations that edited it, its version by how   *)
(* many they are.  The last revision is the current one.                   *)
Revision == [source : Nat, by : Operation]
Agenda == [version : Nat, edits : Seq(Operation), revisions : Seq(Revision)]

(* live: reservationExpiresAt has not passed; parent 0: none was served;   *)
(* invalidated: the releases whose cache invalidation is in the outbox.    *)
Release == [agenda : Nat, lifecycle : {"pending", "served", "failed"},
            owner : Operation \cup {NoOperation}, live : BOOLEAN,
            parent : Nat, rollback : BOOLEAN]
Program == [version : Nat, served : Nat, pending : Nat, releases : Seq(Release),
            invalidated : SUBSET Nat]

Draft(a) == Len(a.edits)
Current(a) == Len(a.revisions)
Source(a) == a.revisions[Current(a)].source
ServedAgenda(p) == IF p.served = 0 THEN 0 ELSE p.releases[p.served].agenda

(* Where a call goes when the coordinator has renewed its lease. *)
NextPC ==
  [renewSwap |-> "swap", renewHand |-> "check", renewLatest |-> "latest",
   renewReserve |-> "reserve", renewComplete |-> "complete", renewServed |-> "return"]

ActivePC ==
  DOMAIN NextPC \cup {NextPC[pc] : pc \in DOMAIN NextPC} \cup {"load", "program", "failing"}

Reason == {"none", "stale", "blocked", "lease", "swap", "unserved", "reservation",
           "parent", "complete", "fault"}

Job == [pc : ActivePC \cup {"idle", "waiting", "ok", "failed", "lost"},
        kind : Kind,
        expected : Nat,      \* the draft version its caller has seen
        copy : Agenda,       \* the state it has loaded
        number : Nat,        \* the revision it hands off, or 0
        parent : Nat,        \* currentPublication.servedRevision
        served : Nat,        \* servedAgendaRevision
        release : Nat,       \* its pending release
        version : Nat,       \* the program's version when it read or reserved
        reason : Reason]     \* why it failed

NoAgenda == [version |-> 0, edits |-> <<>>, revisions |-> <<>>]
Idle == [pc |-> "idle", kind |-> "edit", expected |-> 0, copy |-> NoAgenda, number |-> 0,
         parent |-> 0, served |-> 0, release |-> 0, version |-> 0, reason |-> "none"]

TypeOK ==
  /\ LeaseTypeOK
  /\ agenda \in Agenda
  /\ program \in Program
  /\ job \in [Operation -> Job]
  /\ lapses \in 0 .. MaxLapses
  /\ faults \in 0 .. MaxFaults
  /\ rollbacks \in 0 .. MaxRollbacks

Init ==
  /\ LeaseInit
  /\ agenda = NoAgenda
  /\ program = [version |-> 0, served |-> 0, pending |-> 0, releases |-> <<>>,
                invalidated |-> {}]
  /\ job = [o \in Operation |-> Idle]
  /\ lapses = 0
  /\ faults = 0
  /\ rollbacks = 0

-----------------------------------------------------------------------------
At(o, pc) == job[o].pc = pc
Step(o, pc) == job' = [job EXCEPT ![o].pc = pc] /\ UNCHANGED leaseVars

(* runExclusive ends.  The release of the lease is part of this step: until *)
(* it happens nobody else is admitted, and it may run out before.           *)
End(o, pc, reason) ==
  /\ job' = [job EXCEPT ![o] = [Idle EXCEPT !.pc = pc, !.kind = job[o].kind,
                !.expected = job[o].expected, !.number = job[o].number, !.reason = reason]]
  /\ IF holder = o THEN Yield ELSE UNCHANGED leaseVars

(* An exception: after the reservation it is caught to fail the release. *)
Throw(o, reason) ==
  \/ /\ job[o].pc \in {"renewComplete", "complete"}
     /\ job' = [job EXCEPT ![o].pc = "failing", ![o].reason = reason]
     /\ UNCHANGED leaseVars
  \/ /\ job[o].pc \notin {"renewComplete", "complete"}
     /\ End(o, "failed", reason)

-----------------------------------------------------------------------------
(* AgendaEngine.mutate. *)

Begin(o) ==
  /\ At(o, "idle")
  /\ \E kind \in Kinds[o] :
       job' = [job EXCEPT ![o].pc = "waiting", ![o].kind = kind, ![o].expected = Draft(agenda)]
  /\ UNCHANGED <<leaseVars, agenda, program, lapses, faults, rollbacks>>

Admit(o) ==
  /\ At(o, "waiting")
  /\ Grant(o)
  /\ job' = [job EXCEPT ![o].pc = "load"]
  /\ UNCHANGED <<agenda, program, lapses, faults, rollbacks>>

(* The renewals before each write.  An edit has nothing to hand off. *)
Renew(o) ==
  /\ job[o].pc \in DOMAIN NextPC
  /\ \/ holder # o /\ Throw(o, "lease")
     \/ /\ holder = o
        /\ Step(o, IF At(o, "renewHand") /\ job[o].number = 0 THEN "return"
                                                              ELSE NextPC[job[o].pc])
  /\ UNCHANGED <<agenda, program, lapses, faults, rollbacks>>

(* What the operation finds in the state: nothing to change, or a change. *)
DraftIsPublished(a) == Current(a) > 0 /\ Source(a) = Draft(a)

Keeps(o, a) ==
  \/ job[o].kind = "publish" /\ DraftIsPublished(a)
  \/ job[o].kind \in {"refresh", "restore"} /\ Current(a) > 0

Changes(o, a) ==
  \/ job[o].kind = "edit"
  \/ job[o].kind = "publish" /\ ~DraftIsPublished(a)
  \/ job[o].kind = "refresh" /\ Current(a) > 0
  \/ job[o].kind = "restore" /\ Current(a) > 1

Changed(o, a) ==
  LET edits == IF job[o].kind \in {"edit", "restore"} THEN Append(a.edits, o) ELSE a.edits
      source == IF job[o].kind = "refresh" THEN Source(a) ELSE Len(edits)
  IN [version   |-> a.version + 1,
      edits     |-> edits,
      revisions |-> IF job[o].kind = "edit" THEN a.revisions
                    ELSE Append(a.revisions, [source |-> source, by |-> o])]

(* Mutant: the operation does not compare the version its caller has seen. *)
LoadAny(o) ==
  /\ At(o, "load")
  /\ \/ /\ Keeps(o, agenda)
        /\ job' = [job EXCEPT ![o].pc = "renewHand", ![o].number = Current(agenda)]
     \/ /\ Changes(o, agenda)
        /\ job' = [job EXCEPT ![o].pc = "renewSwap", ![o].copy = agenda]
  /\ UNCHANGED <<leaseVars, agenda, program, lapses, faults, rollbacks>>

(* Conflicts and warnings of the draft, which block a mutation, are data. *)
Load(o) ==
  /\ At(o, "load")
  /\ \/ /\ job[o].expected # Draft(agenda)
        /\ IF job[o].kind = "refresh" THEN Step(o, "renewHand") ELSE Throw(o, "stale")
     \/ /\ job[o].expected = Draft(agenda)
        /\ IF job[o].kind = "refresh"
           THEN Current(agenda) = 0 /\ Step(o, "renewHand")
           ELSE Throw(o, "blocked")
     \/ /\ job[o].expected = Draft(agenda)
        /\ \/ /\ Keeps(o, agenda)
              /\ job' = [job EXCEPT ![o].pc = "renewHand", ![o].number = Current(agenda)]
           \/ /\ Changes(o, agenda)
              /\ job' = [job EXCEPT ![o].pc = "renewSwap", ![o].copy = agenda]
        /\ UNCHANGED leaseVars
  /\ UNCHANGED <<agenda, program, lapses, faults, rollbacks>>

(* Mutant: the write trusts the lease. *)
SwapBlindly(o) ==
  /\ At(o, "swap")
  /\ agenda' = Changed(o, job[o].copy)
  /\ job' = [job EXCEPT ![o].pc = "renewHand", ![o].copy = NoAgenda,
                        ![o].number = IF job[o].kind = "edit" THEN 0 ELSE Current(agenda')]
  /\ UNCHANGED <<leaseVars, program, lapses, faults, rollbacks>>

Swap(o) ==
  /\ At(o, "swap")
  /\ \/ /\ agenda.version = job[o].copy.version
        /\ agenda' = Changed(o, job[o].copy)
        /\ job' = [job EXCEPT ![o].pc = "renewHand", ![o].copy = NoAgenda,
                              ![o].number = IF job[o].kind = "edit" THEN 0 ELSE Current(agenda')]
        /\ UNCHANGED leaseVars
     \/ /\ agenda.version # job[o].copy.version
        /\ Throw(o, "swap")
        /\ UNCHANGED agenda
  /\ UNCHANGED <<program, lapses, faults, rollbacks>>

(* With its lease gone, it succeeds if no timed renewal has noticed, and    *)
(* if the release finds no lease of another.                                *)
Return(o) ==
  /\ At(o, "return")
  /\ \/ holder \in {o, NoOperation} /\ End(o, "ok", "none")
     \/ holder # o /\ End(o, "failed", "lease")
  /\ UNCHANGED <<agenda, program, lapses, faults, rollbacks>>

-----------------------------------------------------------------------------
(* afterPublish. *)

Check(o) ==
  /\ At(o, "check")
  /\ Step(o, IF Current(agenda) = job[o].number THEN "program" ELSE "return")
  /\ UNCHANGED <<agenda, program, lapses, faults, rollbacks>>

ReadProgram(o) ==
  /\ At(o, "program")
  /\ \/ ServedAgenda(program) > job[o].number /\ Step(o, "return")
     \/ job[o].kind = "refresh" /\ program.served = 0 /\ Throw(o, "unserved")
     \/ /\ ServedAgenda(program) <= job[o].number
        /\ ~(job[o].kind = "refresh" /\ program.served = 0)
        /\ job' = [job EXCEPT ![o].pc = "renewLatest", ![o].parent = program.served,
                              ![o].served = ServedAgenda(program),
                              ![o].version = program.version]
        /\ UNCHANGED leaseVars
  /\ UNCHANGED <<agenda, program, lapses, faults, rollbacks>>

Latest(o) ==
  /\ At(o, "latest")
  /\ Step(o, IF Current(agenda) # job[o].number \/ job[o].served = job[o].number
             THEN "return" ELSE "renewReserve")
  /\ UNCHANGED <<agenda, program, lapses, faults, rollbacks>>

(* reserveRebuild: a live reservation of another operation stands; one     *)
(* that expired is taken over, if it is for the same release, or           *)
(* superseded.  Same data: trigger, projections and hashes.  Its compare-  *)
(* and-swap may fail if the state changed since the operation read it.     *)

Pending == program.releases[program.pending]
LiveReservation == program.pending # 0 /\ Pending.live

Reserved(o) ==
  /\ job' = [job EXCEPT ![o].pc = "renewComplete", ![o].release = program'.pending,
                        ![o].version = program'.version]
  /\ UNCHANGED leaseVars

Superseded ==
  IF program.pending = 0 THEN program.releases
  ELSE [program.releases EXCEPT ![program.pending] =
          [@ EXCEPT !.lifecycle = "failed", !.owner = NoOperation, !.live = FALSE]]

NewRelease(o) ==
  [agenda |-> job[o].number, lifecycle |-> "pending", owner |-> o, live |-> TRUE,
   parent |-> program.served, rollback |-> FALSE]

TakeOver(o) ==
  /\ Pending.agenda = job[o].number
  /\ Pending.parent = job[o].parent
  /\ program' = [program EXCEPT !.version = @ + 1,
                   !.releases[program.pending] = [@ EXCEPT !.owner = o, !.live = TRUE]]

NewReservation(o) ==
  program' = [program EXCEPT !.version = @ + 1, !.pending = Len(program.releases) + 1,
                             !.releases = Append(Superseded, NewRelease(o))]

(* Mutant: a pending release is left behind, not superseded. *)
ReserveBeside(o) ==
  /\ At(o, "reserve")
  /\ job[o].parent = program.served
  /\ program' = [program EXCEPT !.version = @ + 1, !.pending = Len(program.releases) + 1,
                                !.releases = Append(@, NewRelease(o))]
  /\ Reserved(o)
  /\ UNCHANGED <<agenda, lapses, faults, rollbacks>>

Reserve(o) ==
  /\ At(o, "reserve")
  /\ \/ /\ LiveReservation
        /\ Throw(o, "reservation")
        /\ UNCHANGED program
     \/ /\ ~LiveReservation
        /\ program.pending # 0
        /\ TakeOver(o)
        /\ Reserved(o)
     \/ /\ ~LiveReservation
        /\ job[o].parent = program.served
        /\ NewReservation(o)
        /\ Reserved(o)
     \/ /\ ~LiveReservation
        /\ job[o].parent # program.served \/ job[o].version # program.version
        /\ Throw(o, "parent")
        /\ UNCHANGED program
  /\ UNCHANGED <<agenda, lapses, faults, rollbacks>>

(* releaseForCompletion *)
Owns(o) ==
  /\ program.version = job[o].version
  /\ program.pending = job[o].release
  /\ Pending.owner = o

Settled(r, lifecycle) ==
  [r EXCEPT !.lifecycle = lifecycle, !.owner = NoOperation, !.live = FALSE]

(* Mutant: the release is found by its id, pending or not. *)
CompleteAnyRelease(o) ==
  /\ At(o, "complete")
  /\ program' = [program EXCEPT !.version = @ + 1, !.served = job[o].release, !.pending = 0,
                                !.releases[job[o].release] = Settled(@, "served")]
  /\ Step(o, "renewServed")
  /\ UNCHANGED <<agenda, lapses, faults, rollbacks>>

(* Mutant: the served release stays pending. *)
CompleteUnsettled(o) ==
  /\ At(o, "complete")
  /\ Owns(o)
  /\ Pending.live
  /\ program' = [program EXCEPT !.version = @ + 1, !.served = program.pending]
  /\ Step(o, "renewServed")
  /\ UNCHANGED <<agenda, lapses, faults, rollbacks>>

(* The composed cache port stages the invalidation of a pending release. *)
Invalidated(p, r) == {n \in {r} : p.releases[n].lifecycle = "pending"}

Complete(o) ==
  /\ At(o, "complete")
  /\ \/ /\ Owns(o)
        /\ Pending.live
        /\ program' = [program EXCEPT !.version = @ + 1, !.served = program.pending,
                         !.pending = 0,
                         !.releases[program.pending] = Settled(@, "served"),
                         !.invalidated = @ \cup Invalidated(program, program.pending)]
        /\ Step(o, "renewServed")
     \/ /\ ~(Owns(o) /\ Pending.live)
        /\ Throw(o, "complete")
        /\ UNCHANGED program
  /\ UNCHANGED <<agenda, lapses, faults, rollbacks>>

(* Mutant: the error that was caught is not thrown again. *)
FailQuietly(o) ==
  /\ At(o, "failing")
  /\ End(o, "ok", "none")
  /\ UNCHANGED <<agenda, program, lapses, faults, rollbacks>>

FailRebuild(o) ==
  /\ At(o, "failing")
  /\ \/ /\ Owns(o)
        /\ program' = [program EXCEPT !.version = @ + 1, !.pending = 0,
                         !.releases[program.pending] = Settled(@, "failed")]
     \/ ~Owns(o) /\ UNCHANGED program
  /\ End(o, "failed", job[o].reason)
  /\ UNCHANGED <<agenda, lapses, faults, rollbacks>>

-----------------------------------------------------------------------------
(* The organizer's rollback of the program, outside the agenda's lease.  It *)
(* asks for the invalidation after it has saved; whether that throws or not *)
(* nothing is undone.                                                       *)
RolledBack(t) ==
  [program EXCEPT !.version = @ + 1, !.served = Len(program.releases) + 1,
     !.releases = Append(@, [program.releases[t] EXCEPT
                               !.parent = program.served, !.rollback = TRUE])]

Rollback ==
  /\ rollbacks < MaxRollbacks
  /\ program.served # 0
  /\ program.pending = 0
  /\ \E t \in 1 .. Len(program.releases) :
       /\ program.releases[t].lifecycle = "served"
       /\ LET next == RolledBack(t)
          IN program' = [next EXCEPT !.invalidated = @ \cup Invalidated(next, next.served)]
  /\ rollbacks' = rollbacks + 1
  /\ UNCHANGED <<leaseVars, agenda, job, lapses, faults>>

(* Time.  The lease of a lost operation, and the reservation it left, run   *)
(* out; those of a live one only if it is slow.                             *)
Lapse(overtaken) ==
  IF overtaken THEN lapses < MaxLapses /\ lapses' = lapses + 1 ELSE UNCHANGED lapses

LeaseLapses ==
  /\ holder # NoOperation
  /\ Lapse(~At(holder, "lost"))
  /\ Yield
  /\ UNCHANGED <<agenda, program, job, faults, rollbacks>>

ReservationExpires ==
  /\ LiveReservation
  /\ Lapse(job[Pending.owner].pc \in ActivePC)
  /\ program' = [program EXCEPT !.releases[program.pending].live = FALSE]
  /\ UNCHANGED <<leaseVars, agenda, job, faults, rollbacks>>

(* An isolate is lost, or a D1 call throws, whether or not it was applied; *)
(* a reservation that throws is not failed, even if it was applied.        *)
Break(o) ==
  /\ faults < MaxFaults
  /\ faults' = faults + 1
  /\ job[o].pc \in ActivePC
  /\ \/ Step(o, "lost")
     \/ Throw(o, "fault")
     \/ At(o, "renewComplete") /\ End(o, "failed", "fault")
  /\ UNCHANGED <<agenda, program, lapses, rollbacks>>

-----------------------------------------------------------------------------
MutateStep(o) == Begin(o) \/ Admit(o) \/ Renew(o) \/ Load(o) \/ Swap(o) \/ Return(o)
HandOffStep(o) == Check(o) \/ ReadProgram(o) \/ Latest(o) \/ Reserve(o) \/ Complete(o)
                    \/ FailRebuild(o)

Next ==
  \/ \E o \in Operation : MutateStep(o) \/ HandOffStep(o) \/ Break(o)
  \/ Rollback \/ LeaseLapses \/ ReservationExpires

Spec == Init /\ [][Next]_vars

-----------------------------------------------------------------------------
(* With or without its lease, an operation never writes over what another  *)
(* one committed: edits and revisions are only added.  Nor is a release    *)
(* touched again once it is served or failed, and what is served moves to  *)
(* younger releases only.                                                  *)
Extends(s, t) == Len(s) <= Len(t) /\ SubSeq(t, 1, Len(s)) = s

ReleasesKept ==
  /\ program.served <= program'.served
  /\ \A r \in 1 .. Len(program.releases) :
       program.releases[r].lifecycle # "pending" =>
         r <= Len(program'.releases) /\ program'.releases[r] = program.releases[r]

HistoryOnlyGrows ==
  [][/\ Extends(agenda.edits, agenda'.edits)
     /\ Extends(agenda.revisions, agenda'.revisions)
     /\ ReleasesKept]_vars

(* A revision that was published is made of the draft version its caller   *)
(* had seen, however long the call waited for its lease.                   *)
PublishesWhatWasSeen ==
  \A n \in 1 .. Current(agenda) :
    LET revision == agenda.revisions[n] IN
      job[revision.by].kind = "publish" => revision.source = job[revision.by].expected

(* The public never gets an older agenda than it had, unless an organizer  *)
(* rolls the program back: not from a hand-off that was overtaken.         *)
ServedNeverOlder ==
  [][ServedAgenda(program') < ServedAgenda(program)
       => program'.releases[program'.served].rollback]_vars

(* A call that succeeds has shown its revision to the public, if it is     *)
(* still the current one and the program was not rolled back since.        *)
SuccessIsServed ==
  \A o \in Operation :
    At(o, "ok") /\ job[o].number # 0 /\ job[o].number = Current(agenda) =>
      \/ ServedAgenda(program) = job[o].number
      \/ program.served # 0 /\ program.releases[program.served].rollback

(* There is one pending release at most, it builds on what is served, and  *)
(* what is served was completed.                                           *)
OnePending ==
  /\ {r \in 1 .. Len(program.releases) : program.releases[r].lifecycle = "pending"}
       = {program.pending} \ {0}
  /\ program.pending # 0 => Pending.parent = program.served
  /\ program.served # 0 => program.releases[program.served].lifecycle = "served"

(* Operations that keep their lease are never in each other's way: without *)
(* a fault or a rollback no hand-off is refused, and no commit ever is.    *)
SerialOperationsConfirm ==
  lapses = 0 => \A o \in Operation :
    /\ job[o].reason \notin {"lease", "swap", "complete"}
    /\ job[o].reason \in {"reservation", "unserved"} => faults > 0
    /\ job[o].reason = "parent" => rollbacks > 0

(* What the public is served, by a publication or by a rollback, had its    *)
(* cache invalidation recorded.                                             *)
ServedIsInvalidated == program.served # 0 => program.served \in program.invalidated
=============================================================================
