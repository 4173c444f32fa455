----------------------- MODULE AgendaCoordinatorProofs -----------------------
(***************************************************************************)
(* Theorems about AgendaCoordinator, for any number of calls and isolates, *)
(* any lease time, and whatever is lost or sent twice.                     *)
(***************************************************************************)
EXTENDS AgendaCoordinator, FiniteSetTheorems, TLAPS

USE CoordinatorAssumption, NoLeaseAssumption

(* The part of TypeOK that the arguments below need. *)
Typed ==
  /\ revision \in Nat
  /\ receipts \in [Operation -> Nat]
  /\ lease \in Lease \cup {NoLease}
  /\ waiters \in SUBSET Operation
  /\ call \in [Operation -> Call]

(* What the assignments to call change. *)
LEMMA GoUpdates ==
  ASSUME call \in [Operation -> Call], NEW o \in Operation, NEW pc \in PC, Go(o, pc)
  PROVE  /\ call' \in [Operation -> Call]
         /\ call'[o].pc = pc
         /\ call'[o].seen = call[o].seen
         /\ \A p \in Operation \ {o} : call'[p] = call[p]
  BY DEF Call, Go

LEMMA AskUpdates ==
  ASSUME call \in [Operation -> Call], revision \in Nat, NEW o \in Operation, AskRevision(o)
  PROVE  /\ call' \in [Operation -> Call]
         /\ call'[o].pc = "posting"
         /\ \A p \in Operation \ {o} : call'[p] = call[p]
<1>1. "posting" \in PC
  BY DEF PC, PostPC
<1>2. call' = [call EXCEPT ![o] = [call[o] EXCEPT !.pc = "posting", !.expected = revision]]
  BY DEF AskRevision
<1>3. [call[o] EXCEPT !.pc = "posting", !.expected = revision] \in Call
  BY <1>1 DEF Call
<1> QED BY <1>2, <1>3 DEF Call

LEMMA SeenUpdates ==
  ASSUME call \in [Operation -> Call], NEW o \in Operation, NEW pc \in PC,
         NEW l \in Lease \cup {NoLease},
         call' = [call EXCEPT ![o].pc = pc, ![o].seen = l]
  PROVE  /\ call' \in [Operation -> Call]
         /\ call'[o].pc = pc
         /\ call'[o].seen = l
         /\ \A p \in Operation \ {o} : call'[p] = call[p]
<1>1. call' = [call EXCEPT ![o] = [call[o] EXCEPT !.pc = pc, !.seen = l]]
  OBVIOUS
<1>2. [call[o] EXCEPT !.pc = pc, !.seen = l] \in Call
  BY DEF Call
<1> QED BY <1>1, <1>2 DEF Call

LEMMA ResumeUpdates ==
  ASSUME call \in [Operation -> Call], NEW o \in Operation, Resume(o)
  PROVE  /\ call' \in [Operation -> Call]
         /\ call'[o].pc = "posting"
         /\ \A p \in Operation \ {o} : call'[p] = call[p]
  BY SeenUpdates DEF Resume, PC, PostPC

LEMMA BlockUpdates ==
  ASSUME call \in [Operation -> Call], lease \in Lease \cup {NoLease},
         NEW o \in Operation, Block(o)
  PROVE  /\ call' \in [Operation -> Call]
         /\ call'[o].pc = "blocked"
         /\ call'[o].seen = lease
         /\ \A p \in Operation \ {o} : call'[p] = call[p]
  BY SeenUpdates DEF Block, PC, PostPC

LEMMA RenewUpdates ==
  ASSUME call \in [Operation -> Call], NEW o \in Operation, Renew(o)
  PROVE  /\ call' \in [Operation -> Call]
         /\ \A p \in Operation : call'[p].pc = call[p].pc /\ call'[p].seen = call[p].seen
<1>1. CASE UNCHANGED call
  BY <1>1
<1>2. CASE call' = [call EXCEPT ![o].threw = TRUE]
  <2>1. call' = [call EXCEPT ![o] = [call[o] EXCEPT !.threw = TRUE]]
    BY <1>2
  <2>2. [call[o] EXCEPT !.threw = TRUE] \in Call
    BY DEF Call
  <2> QED BY <2>1, <2>2 DEF Call
<1> QED BY <1>1, <1>2 DEF Renew

LEMMA EndUpdates ==
  ASSUME call \in [Operation -> Call], NEW o \in Operation, NEW pc \in PC, End(o, pc)
  PROVE  Go(o, pc)
  BY DEF End

LEMMA AnswerUpdates ==
  ASSUME NEW o \in Operation, NEW pc \in PC, Answer(o, pc)
  PROVE  \E q \in {pc, "failed"} : Go(o, q) /\ q \in PC
  BY DEF Answer, PC

LEMMA ReleaseUpdates ==
  ASSUME NEW o \in Operation, Release(o)
  PROVE  \E q \in {"done", "failed"} : Go(o, q) /\ q \in PC
  BY DEF Release, Released, End, PC

LEMMA CheckUpdates ==
  ASSUME NEW o \in Operation, Check(o)
  PROVE  \/ Go(o, "waiting") /\ lease = call[o].seen /\ UNCHANGED waiters
         \/ Resume(o) /\ waiters' = waiters \ {o}
  BY DEF Check

LEMMA FinishUpdates ==
  ASSUME call \in [Operation -> Call], NEW o \in Operation, Finish(o)
  PROVE  /\ call' \in [Operation -> Call]
         /\ call'[o].pc = "releasing"
         /\ \A p \in Operation \ {o} : call'[p] = call[p]
<1>1. PICK threw \in {call[o].threw, TRUE} :
        call' = [call EXCEPT ![o].pc = "releasing", ![o].threw = threw]
  BY DEF Finish
<1>2. "releasing" \in PC /\ threw \in BOOLEAN
  BY DEF PC, Call
<1>3. call' = [call EXCEPT ![o] = [call[o] EXCEPT !.pc = "releasing", !.threw = threw]]
  BY <1>1
<1>4. [call[o] EXCEPT !.pc = "releasing", !.threw = threw] \in Call
  BY <1>2 DEF Call
<1> QED BY <1>3, <1>4 DEF Call

LEMMA FailUpdates ==
  ASSUME call \in [Operation -> Call], NEW Q, Fail(Q)
  PROVE  /\ call' \in [Operation -> Call]
         /\ \A p \in Operation : call'[p] = call[p] \/ call'[p].pc = "failed"
<1>1. \A p \in Operation :
        call'[p] = IF p \in Q THEN [call[p] EXCEPT !.pc = "failed"] ELSE call[p]
  BY DEF Fail
<1>2. "failed" \in PC
  BY DEF PC
<1>3. ASSUME NEW p \in Operation
      PROVE  call'[p] \in Call /\ (call'[p] = call[p] \/ call'[p].pc = "failed")
  BY <1>1, <1>2 DEF Call
<1>4. call' = [p \in Operation |-> call'[p]]
  BY DEF Fail
<1> QED BY <1>3, <1>4

Loss ==
  \/ \E o \in Operation : FetchFails(o)
  \/ \E i \in Isolate : LoseIsolate(i)
  \/ RestartObject

(* Whatever is lost, storage stays and calls that it touches have failed. *)
LEMMA LossUpdates ==
  ASSUME call \in [Operation -> Call], waiters \in SUBSET Operation, Loss
  PROVE  /\ UNCHANGED <<revision, receipts, lease>>
         /\ waiters' \subseteq waiters
         /\ call' \in [Operation -> Call]
         /\ \A p \in Operation : call'[p] = call[p] \/ call'[p].pc = "failed"
<1>1. UNCHANGED <<revision, receipts, lease>> /\ waiters' \subseteq waiters
  BY DEF Loss, FetchFails, LoseIsolate, RestartObject
<1>2. UNCHANGED call \/ \E Q : Fail(Q)
  BY DEF Loss, FetchFails, LoseIsolate, RestartObject
<1> QED BY <1>1, <1>2, FailUpdates

LEMMA LeaseForTyped ==
  ASSUME NEW o \in Operation
  PROVE  LeaseFor(o) \in Lease /\ LeaseFor(o) # NoLease
         /\ LeaseFor(o).operation = o /\ LeaseFor(o).remaining > 0
  BY DEF LeaseFor, Lease

LEMMA LowerTyped ==
  ASSUME NEW l \in Lease \cup {NoLease}
  PROVE  /\ Lower(l) \in Lease \cup {NoLease}
         /\ Lower(l) = NoLease <=> l = NoLease
         /\ l # NoLease => Lower(l).operation = l.operation
         /\ l # NoLease /\ l.remaining > 1 => Lower(l).remaining > 0
         /\ l # NoLease /\ l.remaining = 0 => Lower(l).remaining = 0
  BY DEF Lower, Lease

LEMMA HolderTyped ==
  ASSUME Typed
  PROVE  Holder \in Operation \cup {NoOperation}
  BY DEF Typed, Holder, Lease

LEMMA TickUpdates ==
  ASSUME call \in [Operation -> Call], Tick
  PROVE  /\ call' \in [Operation -> Call]
         /\ \A p \in Operation : /\ call'[p].pc = call[p].pc
                                 /\ call'[p].seen = Lower(call[p].seen)
<1>1. \A p \in Operation : call'[p] = [call[p] EXCEPT !.seen = Lower(call[p].seen)]
  BY DEF Tick
<1>2. ASSUME NEW p \in Operation
      PROVE  /\ call'[p] \in Call
             /\ call'[p].pc = call[p].pc
             /\ call'[p].seen = Lower(call[p].seen)
  <2>1. Lower(call[p].seen) \in Lease \cup {NoLease}
    BY LowerTyped DEF Call
  <2> DEFINE seen == Lower(call[p].seen)
  <2>2. call[p] \in Call /\ call'[p] = [call[p] EXCEPT !.seen = seen]
    BY <1>1
  <2> HIDE DEF seen
  <2>3. seen \in Lease \cup {NoLease} =>
          call'[p] \in Call /\ call'[p].pc = call[p].pc /\ call'[p].seen = seen
    BY <2>2 DEF Call
  <2> QED BY <2>1, <2>3 DEF seen
<1>3. call' = [p \in Operation |-> call'[p]]
  BY DEF Tick
<1> QED BY <1>2, <1>3

LEMMA TypedStep ==
  ASSUME Typed, [Next]_vars
  PROVE  Typed'
<1>0. /\ revision \in Nat /\ receipts \in [Operation -> Nat]
      /\ lease \in Lease \cup {NoLease} /\ waiters \in SUBSET Operation
      /\ call \in [Operation -> Call]
  BY DEF Typed
<1>1. ASSUME NEW o \in Operation, Begin(o) PROVE Typed'
  BY <1>0, <1>1, GoUpdates DEF Begin, Typed, PC
<1>2. ASSUME NEW o \in Operation, CallerStep(o) PROVE Typed'
  <2>1. CASE Start(o)
    BY <1>0, <2>1, GoUpdates DEF Start, Typed, PC
  <2>2. CASE AskRevision(o)
    <3>1. call' \in [Operation -> Call]
      BY <1>0, <2>2, AskUpdates
    <3> QED BY <1>0, <2>2, <3>1 DEF AskRevision, Typed
  <2>3. CASE Finish(o)
    <3>1. call' \in [Operation -> Call]
      BY <1>0, <2>3, FinishUpdates
    <3> QED BY <1>0, <2>3, <3>1 DEF Finish, Typed
  <2>4. CASE Release(o)
    <3>1. call' \in [Operation -> Call]
      BY <1>0, <2>4, ReleaseUpdates, GoUpdates
    <3> QED BY <1>0, <2>4, <3>1 DEF Release, Typed
  <2> QED BY <1>2, <2>1, <2>2, <2>3, <2>4 DEF CallerStep
<1>3. ASSUME NEW o \in Operation, ObjectStep(o) PROVE Typed'
  <2>1. CASE Refuse(o)
    <3>1. call' \in [Operation -> Call]
      BY <1>0, <2>1, AnswerUpdates, GoUpdates DEF Refuse, PC
    <3> QED BY <1>0, <2>1, <3>1 DEF Refuse, Typed
  <2>2. CASE Block(o)
    <3>1. call' \in [Operation -> Call]
      BY <1>0, <2>2, BlockUpdates
    <3> QED BY <1>0, <2>2, <3>1 DEF Block, Typed
  <2>3. CASE Admit(o)
    <3>1. call' \in [Operation -> Call]
      BY <1>0, <2>3, AnswerUpdates, GoUpdates DEF Admit, PC
    <3>2. lease' \in Lease
      BY <2>3, LeaseForTyped DEF Admit
    <3>3. revision' \in Nat /\ receipts' \in [Operation -> Nat] /\ waiters' = waiters
      BY <1>0, <2>3 DEF Admit
    <3> QED BY <1>0, <3>1, <3>2, <3>3 DEF Typed
  <2>4. CASE Register(o)
    <3>1. call' \in [Operation -> Call]
      BY <1>0, <2>4, GoUpdates DEF Register, PC, PostPC
    <3> QED BY <1>0, <2>4, <3>1 DEF Register, Typed
  <2>5. CASE Check(o)
    <3>1. "waiting" \in PC
      BY DEF PC, PostPC
    <3>2. call' \in [Operation -> Call] /\ waiters' \in SUBSET Operation
      BY <1>0, <2>5, <3>1, CheckUpdates, GoUpdates, ResumeUpdates
    <3> QED BY <1>0, <2>5, <3>2 DEF Check, Typed
  <2>6. CASE TimerFires(o)
    BY <1>0, <2>6 DEF TimerFires, Typed
  <2>7. CASE Wake(o)
    <3>1. call' \in [Operation -> Call]
      BY <1>0, <2>7, ResumeUpdates DEF Wake
    <3> QED BY <1>0, <2>7, <3>1 DEF Wake, Typed
  <2> QED BY <1>3, <2>1, <2>2, <2>3, <2>4, <2>5, <2>6, <2>7 DEF ObjectStep
<1>4. ASSUME NEW o \in Operation, Renew(o) PROVE Typed'
  <2>1. call' \in [Operation -> Call]
    BY <1>0, <1>4, RenewUpdates
  <2>2. lease' \in Lease \cup {NoLease}
    BY <1>0, <1>4, LeaseForTyped DEF Renew
  <2> QED BY <1>0, <1>4, <2>1, <2>2 DEF Renew, Typed
<1>5. CASE Loss
  BY <1>0, <1>5, LossUpdates DEF Typed
<1>6. ASSUME NEW o \in Operation, Replay(o) PROVE Typed'
  <2>1. lease' \in Lease \cup {NoLease}
    BY <1>0, <1>6, LeaseForTyped DEF Replay
  <2> QED BY <1>0, <1>6, <2>1 DEF Replay, Typed
<1>7. CASE Tick
  <2>1. call' \in [Operation -> Call]
    BY <1>0, <1>7, TickUpdates
  <2>2. lease' \in Lease \cup {NoLease}
    BY <1>0, <1>7, LowerTyped DEF Tick
  <2> QED BY <1>0, <1>7, <2>1, <2>2 DEF Tick, Typed
<1>8. CASE UNCHANGED vars
  BY <1>0, <1>8 DEF vars, Typed
<1> QED BY <1>1, <1>2, <1>3, <1>4, <1>5, <1>6, <1>7, <1>8 DEF Next, Loss

LEMMA TypedInit == Init => Typed
  BY DEF Init, Typed, Call, PC

(* The stored revision, receipts and lease, and what the calls remember,   *)
(* keep their types (agenda-coordinator.ts, runExclusive).                 *)
THEOREM AlwaysTyped == Spec => []Typed
  BY TypedInit, TypedStep, PTL DEF Spec

-----------------------------------------------------------------------------
(* Exclusion.  An operation whose caller renews in time holds the lease     *)
(* while it runs or is about to release, and a lease has one holder.       *)
Working == {"running", "releasing"}

WorkersHold == \A o \in Punctual : call[o].pc \in Working => Holder = o

LEMMA WorkersHoldStep ==
  ASSUME Typed, WorkersHold, [Next]_vars
  PROVE  WorkersHold'
<1>0. /\ revision \in Nat /\ lease \in Lease \cup {NoLease}
      /\ call \in [Operation -> Call] /\ waiters \in SUBSET Operation
  BY DEF Typed
<1>a. ASSUME UNCHANGED lease,
             NEW o \in Operation,
             call'[o].pc \in Working => call[o].pc \in Working,
             \A p \in Operation \ {o} : call'[p] = call[p]
      PROVE  WorkersHold'
  BY <1>a DEF Holder, WorkersHold
<1>1. ASSUME NEW o \in Operation, Begin(o) PROVE WorkersHold'
  BY <1>0, <1>a, <1>1, GoUpdates DEF Begin, Working, PC
<1>2. ASSUME NEW o \in Operation, CallerStep(o) PROVE WorkersHold'
  <2>1. CASE Start(o)
    BY <1>0, <1>a, <2>1, GoUpdates DEF Start, Working, PC
  <2>2. CASE AskRevision(o)
    <3>1. UNCHANGED lease
      BY <2>2 DEF AskRevision
    <3> QED BY <1>0, <1>a, <2>2, <3>1, AskUpdates DEF Working
  <2>3. CASE Finish(o)
    <3>1. UNCHANGED lease /\ call[o].pc = "running"
      BY <2>3 DEF Finish, At
    <3> QED BY <1>0, <1>a, <2>3, <3>1, FinishUpdates DEF Working
  <2>4. CASE Release(o)
    <3>1. call'[o].pc \notin Working /\ \A p \in Operation \ {o} : call'[p] = call[p]
      BY <1>0, <2>4, ReleaseUpdates, GoUpdates DEF Working
    <3>2. ASSUME NEW p \in Punctual, p # o, Holder = p
          PROVE  Holder' = p
      BY <1>0, <2>4, <3>2, CoordinatorAssumption DEF Release, Holder
    <3> QED BY <3>1, <3>2, CoordinatorAssumption DEF WorkersHold
  <2> QED BY <1>2, <2>1, <2>2, <2>3, <2>4 DEF CallerStep
<1>3. ASSUME NEW o \in Operation, ObjectStep(o) PROVE WorkersHold'
  <2>1. CASE Refuse(o)
    <3>1. call'[o].pc \notin Working /\ \A p \in Operation \ {o} : call'[p] = call[p]
      BY <1>0, <2>1, AnswerUpdates, GoUpdates DEF Refuse, Working, PC
    <3>2. UNCHANGED lease
      BY <2>1 DEF Refuse
    <3> QED BY <1>a, <3>1, <3>2
  <2>2. CASE Block(o)
    <3>1. UNCHANGED lease
      BY <2>2 DEF Block
    <3> QED BY <1>0, <1>a, <2>2, <3>1, BlockUpdates DEF Working
  <2>3. CASE Admit(o)
    <3>1. \A p \in Punctual : call[p].pc \notin Working
      BY <2>3, CoordinatorAssumption DEF Admit, WorkersHold
    <3>2. \A p \in Operation \ {o} : call'[p] = call[p]
      BY <1>0, <2>3, AnswerUpdates, GoUpdates DEF Admit, PC
    <3>3. Holder' = o
      BY <2>3, LeaseForTyped DEF Admit, Holder
    <3> QED BY <3>1, <3>2, <3>3, CoordinatorAssumption DEF WorkersHold
  <2>4. CASE Register(o)
    <3>1. UNCHANGED lease
      BY <2>4 DEF Register
    <3> QED BY <1>0, <1>a, <2>4, <3>1, GoUpdates DEF Register, PC, PostPC, Working
  <2>5. CASE Check(o)
    <3>1. UNCHANGED lease
      BY <2>5 DEF Check
    <3>2. "waiting" \in PC
      BY DEF PC, PostPC
    <3>3. call'[o].pc \notin Working /\ \A p \in Operation \ {o} : call'[p] = call[p]
      BY <1>0, <2>5, <3>2, CheckUpdates, GoUpdates, ResumeUpdates DEF Working
    <3> QED BY <1>a, <3>1, <3>3
  <2>6. CASE TimerFires(o)
    BY <1>a, <2>6 DEF TimerFires
  <2>7. CASE Wake(o)
    <3>1. UNCHANGED lease
      BY <2>7 DEF Wake
    <3> QED BY <1>0, <1>a, <2>7, <3>1, ResumeUpdates DEF Wake, Working
  <2> QED BY <1>3, <2>1, <2>2, <2>3, <2>4, <2>5, <2>6, <2>7 DEF ObjectStep
<1>4. ASSUME NEW o \in Operation, Renew(o) PROVE WorkersHold'
  <2>1. UNCHANGED lease \/ (Holder = o /\ Holder' = o)
    BY <1>4, LeaseForTyped DEF Renew, Holder
  <2>2. \A p \in Operation : call'[p].pc = call[p].pc
    BY <1>0, <1>4, RenewUpdates
  <2> QED BY <2>1, <2>2, CoordinatorAssumption DEF WorkersHold, Holder
<1>5. CASE Loss
  BY <1>0, <1>5, LossUpdates DEF WorkersHold, Working, Holder
<1>6. ASSUME NEW o \in Operation, Replay(o) PROVE WorkersHold'
  <2>1. \A p \in Operation : Holder = p => Holder' = p
    BY <1>6, LeaseForTyped DEF Replay, Holder
  <2>2. UNCHANGED call
    BY <1>6 DEF Replay
  <2> QED BY <2>1, <2>2, CoordinatorAssumption DEF WorkersHold
<1>7. CASE Tick
  <2>1. \A p \in Operation : call'[p].pc = call[p].pc
    BY <1>0, <1>7, TickUpdates
  <2>2. ASSUME NEW p \in Punctual, call[p].pc \in Working
        PROVE  Holder' = p
    <3>1. Holder = p /\ p # NoOperation
      BY <2>2, CoordinatorAssumption DEF WorkersHold
    <3>2. lease # NoLease /\ lease.operation = p /\ lease.remaining > 1
      BY <1>7, <2>2, <3>1 DEF Tick, Holder, Working
    <3> QED BY <1>0, <1>7, <3>2, LowerTyped DEF Tick, Holder
  <2> QED BY <2>1, <2>2, CoordinatorAssumption DEF WorkersHold
<1>8. CASE UNCHANGED vars
  BY <1>8 DEF vars, WorkersHold, Holder
<1> QED BY <1>1, <1>2, <1>3, <1>4, <1>5, <1>6, <1>7, <1>8 DEF Next, Loss

(* Operations whose callers renew in time never run together; one that     *)
(* runs beside another has lost its lease (runExclusive).                  *)
THEOREM Exclusion == Spec => []OneAtATime
<1>1. Init => WorkersHold
  BY CoordinatorAssumption DEF Init, WorkersHold, Working
<1>2. Typed /\ WorkersHold /\ [Next]_vars => WorkersHold'
  BY WorkersHoldStep
<1>3. WorkersHold => OneAtATime
  BY CoordinatorAssumption DEF WorkersHold, OneAtATime, At, Working
<1> QED BY <1>1, <1>2, <1>3, AlwaysTyped, PTL DEF Spec

-----------------------------------------------------------------------------
(* Waiters.  A call that has been told to wait remembers a lease. *)
Sleeping == {"blocked", "checking", "waiting"}

SeenIsLease == \A o \in Operation : call[o].pc \in Sleeping => call[o].seen # NoLease

SleepInv == SeenIsLease /\ SleepersWillWake

LEMMA SleepStep ==
  ASSUME Typed, SleepInv, [Next]_vars
  PROVE  SleepInv'
<1>0. /\ revision \in Nat /\ lease \in Lease \cup {NoLease}
      /\ call \in [Operation -> Call] /\ waiters \in SUBSET Operation
  BY DEF Typed
<1>a. ASSUME lease = NoLease \/ lease' # NoLease \/ waiters' = {},
             waiters' \subseteq waiters,
             NEW o \in Operation,
             call'[o].pc \in Sleeping => UNCHANGED call,
             \A p \in Operation \ {o} : call'[p] = call[p]
      PROVE  SleepInv'
  BY <1>0, <1>a DEF SleepInv, SeenIsLease, SleepersWillWake, At, Sleeping
<1>1. ASSUME NEW o \in Operation, Begin(o) PROVE SleepInv'
  BY <1>0, <1>a, <1>1, GoUpdates DEF Begin, Sleeping, PC
<1>2. ASSUME NEW o \in Operation, CallerStep(o) PROVE SleepInv'
  <2>1. CASE Start(o)
    BY <1>0, <1>a, <2>1, GoUpdates DEF Start, Sleeping, PC
  <2>2. CASE AskRevision(o)
    <3>1. UNCHANGED <<lease, waiters>>
      BY <2>2 DEF AskRevision
    <3> QED BY <1>0, <1>a, <2>2, <3>1, AskUpdates DEF Sleeping
  <2>3. CASE Finish(o)
    <3>1. UNCHANGED <<lease, waiters>>
      BY <2>3 DEF Finish
    <3> QED BY <1>0, <1>a, <2>3, <3>1, FinishUpdates DEF Sleeping
  <2>4. CASE Release(o)
    <3>1. waiters' = {} \/ UNCHANGED <<lease, waiters>>
      BY <2>4 DEF Release
    <3>2. call'[o].pc \notin Sleeping /\ \A p \in Operation \ {o} : call'[p] = call[p]
      BY <1>0, <2>4, ReleaseUpdates, GoUpdates DEF Sleeping
    <3> QED BY <1>0, <1>a, <3>1, <3>2
  <2> QED BY <1>2, <2>1, <2>2, <2>3, <2>4 DEF CallerStep
<1>3. ASSUME NEW o \in Operation, ObjectStep(o) PROVE SleepInv'
  <2>1. CASE Refuse(o)
    <3>1. call'[o].pc \notin Sleeping /\ \A p \in Operation \ {o} : call'[p] = call[p]
      BY <1>0, <2>1, AnswerUpdates, GoUpdates DEF Refuse, Sleeping, PC
    <3>2. UNCHANGED <<lease, waiters>>
      BY <2>1 DEF Refuse
    <3> QED BY <1>a, <3>1, <3>2
  <2>2. CASE Block(o)
    <3>1. lease # NoLease /\ UNCHANGED <<lease, waiters>>
      BY <2>2 DEF Block, Holder
    <3>2. /\ call'[o].pc = "blocked" /\ call'[o].seen = lease
          /\ \A p \in Operation \ {o} : call'[p] = call[p]
      BY <1>0, <2>2, BlockUpdates
    <3> QED BY <1>0, <3>1, <3>2 DEF SleepInv, SeenIsLease, SleepersWillWake, At
  <2>3. CASE Admit(o)
    <3>1. call'[o].pc \notin Sleeping /\ \A p \in Operation \ {o} : call'[p] = call[p]
      BY <1>0, <2>3, AnswerUpdates, GoUpdates DEF Admit, Sleeping, PC
    <3>2. lease' # NoLease /\ UNCHANGED waiters
      BY <2>3, LeaseForTyped DEF Admit
    <3> QED BY <1>a, <3>1, <3>2
  <2>4. CASE Register(o)
    <3>1. UNCHANGED lease /\ waiters' = waiters \cup {o} /\ call[o].pc = "blocked"
      BY <2>4 DEF Register, At
    <3>2. /\ call'[o].pc = "checking" /\ call'[o].seen = call[o].seen
          /\ \A p \in Operation \ {o} : call'[p] = call[p]
      BY <1>0, <2>4, GoUpdates DEF Register, PC, PostPC
    <3> QED BY <1>0, <3>1, <3>2
         DEF SleepInv, SeenIsLease, SleepersWillWake, At, Sleeping
  <2>5. CASE Check(o)
    <3>1. UNCHANGED lease /\ call[o].pc = "checking" /\ "waiting" \in PC
      BY <2>5 DEF Check, At, PC, PostPC
    <3>2. CASE Go(o, "waiting") /\ lease = call[o].seen /\ UNCHANGED waiters
      <4>1. /\ call'[o].pc = "waiting" /\ call'[o].seen = call[o].seen
            /\ \A p \in Operation \ {o} : call'[p] = call[p]
        BY <1>0, <3>1, <3>2, GoUpdates
      <4> QED BY <1>0, <3>1, <3>2, <4>1
           DEF SleepInv, SeenIsLease, SleepersWillWake, At, Sleeping
    <3>3. CASE Resume(o) /\ waiters' = waiters \ {o}
      BY <1>0, <1>a, <3>1, <3>3, ResumeUpdates DEF Sleeping
    <3> QED BY <2>5, <3>2, <3>3, CheckUpdates
  <2>6. CASE TimerFires(o)
    BY <1>0, <1>a, <2>6 DEF TimerFires
  <2>7. CASE Wake(o)
    <3>1. UNCHANGED <<lease, waiters>>
      BY <2>7 DEF Wake
    <3> QED BY <1>0, <1>a, <2>7, <3>1, ResumeUpdates DEF Wake, Sleeping
  <2> QED BY <1>3, <2>1, <2>2, <2>3, <2>4, <2>5, <2>6, <2>7 DEF ObjectStep
<1>4. ASSUME NEW o \in Operation, Renew(o) PROVE SleepInv'
  <2>1. \A p \in Operation : call'[p].pc = call[p].pc /\ call'[p].seen = call[p].seen
    BY <1>0, <1>4, RenewUpdates
  <2>2. (lease = NoLease \/ lease' # NoLease) /\ UNCHANGED waiters
    BY <1>4, LeaseForTyped DEF Renew
  <2> QED BY <1>0, <2>1, <2>2 DEF SleepInv, SeenIsLease, SleepersWillWake, At
<1>5. CASE Loss
  BY <1>0, <1>5, LossUpdates
     DEF SleepInv, SeenIsLease, SleepersWillWake, At, Sleeping
<1>6. ASSUME NEW o \in Operation, Replay(o) PROVE SleepInv'
  <2>1. (lease = NoLease \/ lease' # NoLease) /\ UNCHANGED <<waiters, call>>
    BY <1>6, LeaseForTyped DEF Replay
  <2> QED BY <2>1 DEF SleepInv, SeenIsLease, SleepersWillWake, At
<1>7. CASE Tick
  <2>1. \A p \in Operation : call'[p].pc = call[p].pc /\ call'[p].seen = Lower(call[p].seen)
    BY <1>0, <1>7, TickUpdates
  <2>2. \A p \in Operation : call[p].seen \in Lease \cup {NoLease}
    BY <1>0 DEF Call
  <2>3. UNCHANGED waiters /\ lease' = Lower(lease)
    BY <1>7 DEF Tick
  <2>4. SeenIsLease'
    BY <2>1, <2>2, LowerTyped DEF SleepInv, SeenIsLease
  <2>5. ASSUME NEW o \in waiters, At(o, "waiting")', call'[o].seen.remaining # 0
        PROVE  lease' # NoLease
    <3>1. o \in Operation /\ call[o].pc = "waiting"
      BY <1>0, <2>1, <2>5 DEF At
    <3>2. call[o].seen # NoLease
      BY <3>1 DEF SleepInv, SeenIsLease, Sleeping
    <3>3. call[o].seen.remaining # 0
      BY <2>1, <2>2, <2>5, <3>1, <3>2, LowerTyped
    <3>4. lease # NoLease
      BY <2>5, <3>1, <3>3 DEF SleepInv, SleepersWillWake, At
    <3> QED BY <1>0, <2>3, <3>4, LowerTyped
  <2> QED BY <2>3, <2>4, <2>5 DEF SleepInv, SleepersWillWake
<1>8. CASE UNCHANGED vars
  BY <1>8 DEF vars, SleepInv, SeenIsLease, SleepersWillWake, At
<1> QED BY <1>1, <1>2, <1>3, <1>4, <1>5, <1>6, <1>7, <1>8 DEF Next, Loss

(* A request never sleeps on a lease that nobody will release and no timer *)
(* of its own guards (#waitForLease, #notifyLeaseWaiters).                 *)
THEOREM WakeupsKept == Spec => []SleepersWillWake
<1>1. Init => SleepInv
  BY DEF Init, SleepInv, SeenIsLease, SleepersWillWake, Sleeping
<1>2. Typed /\ SleepInv /\ [Next]_vars => SleepInv'
  BY SleepStep
<1> QED BY <1>1, <1>2, AlwaysTyped, PTL DEF Spec, SleepInv

-----------------------------------------------------------------------------
(* Receipts.  Only an admission writes one, and only an operation that has *)
(* not been admitted posts.                                                *)
Unadmitted == {"idle", "tail", "asking"} \cup PostPC

Numbered ==
  /\ \A o \in Operation : receipts[o] <= revision
  /\ \A o, p \in Operation : receipts[o] = receipts[p] /\ receipts[o] # 0 => o = p
  /\ \A n \in 1 .. revision : \E o \in Operation : receipts[o] = n
  /\ \A o \in Operation : call[o].pc \in Unadmitted => receipts[o] = 0

LEMMA AdmitNumbers ==
  ASSUME Typed, Numbered, NEW o \in Operation, Admit(o)
  PROVE  /\ receipts[o] = 0
         /\ receipts' = [receipts EXCEPT ![o] = revision + 1]
         /\ revision' = revision + 1
         /\ Holder = NoOperation
         /\ Holder' = o
  BY LeaseForTyped DEF Admit, At, Numbered, Unadmitted, PostPC, Holder

LEMMA ReceiptsKept ==
  ASSUME [Next]_vars, ~ \E o \in Operation : Admit(o)
  PROVE  UNCHANGED <<revision, receipts>>
<1>1. ASSUME NEW o \in Operation, CallerStep(o) PROVE UNCHANGED <<revision, receipts>>
  BY <1>1 DEF CallerStep, Start, AskRevision, Finish, Release
<1>2. ASSUME NEW o \in Operation, ObjectStep(o) PROVE UNCHANGED <<revision, receipts>>
  BY <1>2 DEF ObjectStep, Refuse, Block, Register, Check, TimerFires, Wake
<1>3. ASSUME NEW o \in Operation, Begin(o) \/ Renew(o) \/ Replay(o)
      PROVE  UNCHANGED <<revision, receipts>>
  BY <1>3 DEF Begin, Renew, Replay
<1>5. CASE Loss
  BY <1>5 DEF Loss, FetchFails, LoseIsolate, RestartObject
<1>4. CASE Tick \/ UNCHANGED vars
  BY <1>4 DEF Tick, vars
<1> QED BY <1>1, <1>2, <1>3, <1>4, <1>5 DEF Next, Loss

LEMMA UnadmittedKept ==
  ASSUME Typed, [Next]_vars, ~ \E o \in Operation : Admit(o)
  PROVE  \A p \in Operation : call'[p].pc \in Unadmitted => call[p].pc \in Unadmitted
<1>0. /\ call \in [Operation -> Call] /\ waiters \in SUBSET Operation
      /\ revision \in Nat /\ lease \in Lease \cup {NoLease}
  BY DEF Typed
<1> DEFINE Kept == \A p \in Operation : call'[p].pc \in Unadmitted => call[p].pc \in Unadmitted
<1>a. ASSUME NEW o \in Operation, call[o].pc \in Unadmitted \/ call'[o].pc \notin Unadmitted,
             \A p \in Operation \ {o} : call'[p] = call[p]
      PROVE  Kept
  BY <1>a
<1> HIDE DEF Kept
<1>1. ASSUME NEW o \in Operation, CallerStep(o) PROVE Kept
  <2>1. CASE Start(o)
    BY <1>0, <1>a, <2>1, GoUpdates DEF Start, At, Unadmitted, PC
  <2>2. CASE AskRevision(o)
    <3>1. call[o].pc \in Unadmitted
      BY <2>2 DEF AskRevision, At, Unadmitted
    <3> QED BY <1>0, <1>a, <2>2, <3>1, AskUpdates
  <2>3. CASE Finish(o)
    <3>1. call'[o].pc \notin Unadmitted /\ \A p \in Operation \ {o} : call'[p] = call[p]
      BY <1>0, <2>3, FinishUpdates DEF Unadmitted, PostPC
    <3> QED BY <1>a, <3>1
  <2>4. CASE Release(o)
    <3>1. call'[o].pc \notin Unadmitted /\ \A p \in Operation \ {o} : call'[p] = call[p]
      BY <1>0, <2>4, ReleaseUpdates, GoUpdates DEF Unadmitted, PostPC
    <3> QED BY <1>a, <3>1
  <2> QED BY <1>1, <2>1, <2>2, <2>3, <2>4 DEF CallerStep
<1>2. ASSUME NEW o \in Operation, ObjectStep(o) PROVE Kept
  <2>1. CASE UNCHANGED call
    BY <2>1 DEF Kept
  <2>2. CASE ~UNCHANGED call
    <3>1. call[o].pc \in Unadmitted
      BY <1>2, <2>2 DEF ObjectStep, Refuse, Block, Register, Check, TimerFires, Wake, At,
                        Unadmitted, PostPC
    <3>2. "waiting" \in PC /\ "asking" \in PC /\ "checking" \in PC
      BY DEF PC, PostPC
    <3>3. \A p \in Operation \ {o} : call'[p] = call[p]
      <4>1. CASE Refuse(o)
        BY <1>0, <4>1, <3>2, AnswerUpdates, GoUpdates DEF Refuse
      <4>2. CASE Block(o)
        BY <1>0, <4>2, BlockUpdates
      <4>3. CASE Register(o)
        BY <1>0, <4>3, <3>2, GoUpdates DEF Register
      <4>4. CASE Check(o)
        BY <1>0, <4>4, <3>2, CheckUpdates, GoUpdates, ResumeUpdates
      <4>5. CASE Wake(o)
        BY <1>0, <4>5, ResumeUpdates DEF Wake
      <4>6. CASE TimerFires(o)
        BY <2>2, <4>6 DEF TimerFires
      <4> QED BY <1>2, <4>1, <4>2, <4>3, <4>4, <4>5, <4>6 DEF ObjectStep
    <3> QED BY <1>a, <3>1, <3>3
  <2> QED BY <2>1, <2>2
<1>3. ASSUME NEW o \in Operation, Begin(o) PROVE Kept
  BY <1>0, <1>a, <1>3, GoUpdates DEF Begin, At, Unadmitted, PC
<1>4. ASSUME NEW o \in Operation, Renew(o) PROVE Kept
  BY <1>0, <1>4, RenewUpdates DEF Kept
<1>5. CASE Loss
  BY <1>0, <1>5, LossUpdates DEF Kept, Unadmitted, PostPC
<1>6. ASSUME NEW o \in Operation, Replay(o) PROVE Kept
  BY <1>6 DEF Replay, Kept
<1>7. CASE Tick
  BY <1>0, <1>7, TickUpdates DEF Kept
<1>8. CASE UNCHANGED vars
  BY <1>8 DEF vars, Kept
<1> QED BY <1>1, <1>2, <1>3, <1>4, <1>5, <1>6, <1>7, <1>8 DEF Next, Loss, Kept

LEMMA NumberedStep ==
  ASSUME Typed, Numbered, [Next]_vars
  PROVE  Numbered'
<1>0. /\ revision \in Nat /\ receipts \in [Operation -> Nat]
      /\ call \in [Operation -> Call]
  BY DEF Typed
<1>1. ASSUME NEW o \in Operation, Admit(o) PROVE Numbered'
  <2>1. /\ receipts[o] = 0 /\ revision' = revision + 1
        /\ receipts' = [receipts EXCEPT ![o] = revision + 1]
    BY <1>1, AdmitNumbers
  <2>2. receipts'[o] = revision + 1 /\ \A p \in Operation \ {o} : receipts'[p] = receipts[p]
    BY <1>0, <2>1
  <2>3. \A p \in Operation : receipts'[p] <= revision'
    BY <1>0, <2>1, <2>2 DEF Numbered
  <2>4. \A p, q \in Operation : receipts'[p] = receipts'[q] /\ receipts'[p] # 0 => p = q
    BY <1>0, <2>2 DEF Numbered
  <2>5. \A n \in 1 .. revision' : \E p \in Operation : receipts'[p] = n
    <3>1. TAKE n \in 1 .. revision'
    <3>2. CASE n = revision + 1
      BY <2>2, <3>2
    <3>3. CASE n # revision + 1
      <4>1. n \in 1 .. revision
        BY <1>0, <2>1, <3>3
      <4>2. PICK p \in Operation : receipts[p] = n
        BY <4>1 DEF Numbered
      <4>3. p # o
        BY <2>1, <4>1, <4>2
      <4> QED BY <2>2, <4>2, <4>3
    <3> QED BY <3>2, <3>3
  <2>6. \A p \in Operation : call'[p].pc \in Unadmitted => receipts'[p] = 0
    <3>1. call'[o].pc \notin Unadmitted /\ \A p \in Operation \ {o} : call'[p] = call[p]
      BY <1>0, <1>1, AnswerUpdates, GoUpdates DEF Admit, PC, Unadmitted, PostPC
    <3> QED BY <2>2, <3>1 DEF Numbered
  <2> QED BY <2>3, <2>4, <2>5, <2>6 DEF Numbered
<1>2. CASE ~ \E o \in Operation : Admit(o)
  BY <1>2, ReceiptsKept, UnadmittedKept DEF Numbered
<1> QED BY <1>1, <1>2

LEMMA AlwaysNumbered == Spec => []Numbered
<1>1. Init => Numbered
  BY DEF Init, Numbered
<1>2. Typed /\ Numbered /\ [Next]_vars => Numbered'
  BY NumberedStep
<1> QED BY <1>1, <1>2, AlwaysTyped, PTL DEF Spec

(* The revision counts the admissions and each receipt has a number of its *)
(* own, whatever the callers' expected revisions were.                     *)
THEOREM ReceiptsNumber == Spec => []ReceiptsNumberAdmissions
<1>1. Typed /\ Numbered => ReceiptsNumberAdmissions
  <2> SUFFICES ASSUME Typed, Numbered PROVE ReceiptsNumberAdmissions
    OBVIOUS
  <2>0. revision \in Nat /\ receipts \in [Operation -> Nat]
    BY DEF Typed
  <2>1. ASSUME NEW n \in {receipts[o] : o \in Operation} \ {0} PROVE n \in 1 .. revision
    BY <2>0 DEF Numbered
  <2>2. ASSUME NEW n \in 1 .. revision PROVE n \in {receipts[o] : o \in Operation} \ {0}
    BY <2>0 DEF Numbered
  <2> QED BY <2>1, <2>2 DEF ReceiptsNumberAdmissions, Numbered
<1> QED BY <1>1, AlwaysTyped, AlwaysNumbered, PTL

-----------------------------------------------------------------------------
(* Refinement: every step is a step of AgendaLease or leaves what it sees. *)
LatestOf(rev, rec) ==
  IF rev = 0 THEN NoOperation ELSE CHOOSE o \in Operation : rec[o] = rev

LEMMA LatestIs ==
  ASSUME NEW rev \in Nat \ {0}, NEW rec \in [Operation -> Nat], NEW o \in Operation,
         rec[o] = rev, \A p \in Operation : rec[p] = rev => p = o
  PROVE  LatestOf(rev, rec) = o
  BY DEF LatestOf

LEMMA HolderStep ==
  ASSUME Typed, [Next]_vars
  PROVE  \/ Holder' \in {Holder, NoOperation}
         \/ \E o \in Operation : Admit(o)
         \/ \E o \in Operation : /\ Holder = NoOperation /\ Holder' = o
                                 /\ revision = receipts[o] /\ receipts[o] # 0
<1>0. lease \in Lease \cup {NoLease}
  BY DEF Typed
<1>1. CASE UNCHANGED lease \/ lease' = NoLease
  BY <1>1 DEF Holder
<1>2. ASSUME NEW o \in Operation, Renew(o) PROVE Holder' = Holder
  BY <1>2, LeaseForTyped DEF Renew, Holder
<1>3. ASSUME NEW o \in Operation, Replay(o)
      PROVE  \/ Holder' = Holder
             \/ /\ Holder = NoOperation /\ Holder' = o
                /\ revision = receipts[o] /\ receipts[o] # 0
  BY <1>3, LeaseForTyped DEF Replay, Holder
<1>4. CASE Tick
  BY <1>0, <1>4, LowerTyped DEF Tick, Holder, Lower
<1>5. ASSUME NEW o \in Operation, CallerStep(o) PROVE UNCHANGED lease \/ lease' = NoLease
  BY <1>5 DEF CallerStep, Start, AskRevision, Finish, Release
<1>6. ASSUME NEW o \in Operation, ObjectStep(o), ~Admit(o) PROVE UNCHANGED lease
  BY <1>6 DEF ObjectStep, Refuse, Block, Register, Check, TimerFires, Wake
<1>7. (Loss \/ \E o \in Operation : Begin(o)) => UNCHANGED lease
  BY DEF Begin, Loss, FetchFails, LoseIsolate, RestartObject
<1>8. CASE UNCHANGED vars
  BY <1>8, <1>1 DEF vars
<1> QED BY <1>1, <1>2, <1>3, <1>4, <1>5, <1>6, <1>7, <1>8 DEF Next, Loss

LEMMA PromiseStep ==
  ASSUME Typed, Typed', Numbered, [Next]_vars
  PROVE  [Promise!LeaseNext]_(Promise!leaseVars)
<1> DEFINE admitted == {o \in Operation : receipts[o] # 0}
           latest == LatestOf(revision, receipts)
<1>0. /\ revision \in Nat /\ receipts \in [Operation -> Nat]
      /\ revision' \in Nat /\ receipts' \in [Operation -> Nat]
      /\ Holder \in Operation \cup {NoOperation}
  BY HolderTyped DEF Typed
<1>1. ASSUME NEW o \in Operation, Admit(o)
      PROVE  Promise!Grant(o)
  <2>1. /\ receipts[o] = 0 /\ revision' = revision + 1
        /\ receipts' = [receipts EXCEPT ![o] = revision + 1]
        /\ Holder = NoOperation /\ Holder' = o
    BY <1>1, AdmitNumbers
  <2>2. receipts'[o] = revision + 1 /\ \A p \in Operation \ {o} : receipts'[p] = receipts[p]
    BY <1>0, <2>1
  <2>3. o \notin admitted /\ admitted' = admitted \cup {o}
    BY <1>0, <2>1, <2>2
  <2>4. \A p \in Operation : receipts'[p] = revision' => p = o
    BY <1>0, <2>1, <2>2 DEF Numbered
  <2>5. latest' = o
    <3>1. revision' \in Nat \ {0} /\ receipts'[o] = revision'
      BY <1>0, <2>1, <2>2
    <3>2. LatestOf(revision', receipts') = o
      BY <1>0, <2>4, <3>1, LatestIs
    <3> QED BY <3>2
  <2> QED BY <2>1, <2>3, <2>5 DEF Promise!Grant, LatestOf
<1>2. ASSUME ~ \E o \in Operation : Admit(o)
      PROVE  [Promise!LeaseNext]_(Promise!leaseVars)
  <2>1. UNCHANGED <<revision, receipts>>
    BY <1>2, ReceiptsKept
  <2>2. UNCHANGED <<admitted, latest>>
    BY <2>1
  <2>3. CASE Holder' = Holder
    BY <2>2, <2>3 DEF Promise!leaseVars, LatestOf
  <2>4. CASE Holder' = NoOperation /\ Holder # NoOperation
    BY <2>2, <2>4 DEF Promise!LeaseNext, Promise!Yield, LatestOf
  <2>5. ASSUME NEW o \in Operation, Holder = NoOperation, Holder' = o,
               revision = receipts[o], receipts[o] # 0
        PROVE  Promise!Regain(o)
    <3>1. latest = o
      BY <1>0, <2>5, LatestIs DEF Numbered
    <3> QED BY <2>2, <2>5, <3>1 DEF Promise!Regain, LatestOf
  <2> QED BY <1>2, <2>3, <2>4, <2>5, HolderStep DEF Promise!LeaseNext
<1> QED BY <1>1, <1>2 DEF Promise!LeaseNext

(* The coordinator keeps the promise of AgendaLease for every timing.      *)
THEOREM KeepsLeasePromise == Spec => LeasePromise
<1>1. Init => Promise!LeaseInit
  BY DEF Init, Promise!LeaseInit, Holder
<1>2. Typed /\ Typed' /\ Numbered /\ [Next]_vars => [Promise!LeaseNext]_(Promise!leaseVars)
  BY PromiseStep
<1> QED BY <1>1, <1>2, AlwaysTyped, AlwaysNumbered, PTL DEF Spec, LeasePromise, Promise!LeaseSpec

-----------------------------------------------------------------------------
(* How a lease ends: only a DELETE of its own operation, or the clock, takes *)
(* it away.                                                                  *)
LEMMA LeaseEnds ==
  ASSUME Typed, [Next]_vars, Holder # NoOperation, Holder' # Holder
  PROVE  At(Holder, "releasing") \/ (lease.remaining = 1 /\ lease' = Lower(lease))
<1>0. /\ lease \in Lease /\ lease.remaining \in Nat /\ lease.remaining > 0
      /\ Holder = lease.operation
  BY DEF Typed, Holder, Lease
<1>1. lease' # lease
  BY DEF Holder
<1>2. ASSUME NEW o \in Operation, Renew(o) \/ Replay(o)
      PROVE  FALSE
  <2>1. lease' = LeaseFor(o) /\ Holder = o
    BY <1>1, <1>2 DEF Renew, Replay
  <2>2. Holder' = o
    BY <2>1, LeaseForTyped DEF Holder
  <2> QED BY <2>1, <2>2
<1>3. ASSUME NEW o \in Operation, Admit(o)
      PROVE  FALSE
  BY <1>3 DEF Admit
<1>4. ASSUME NEW o \in Operation, Release(o)
      PROVE  At(Holder, "releasing")
  BY <1>0, <1>1, <1>4 DEF Release
<1>5. CASE Tick
  <2>1. lease' = Lower(lease)
    BY <1>5 DEF Tick
  <2>2. lease.remaining = 1
    <3>1. lease.remaining > 1 => Lower(lease) # NoLease /\ Lower(lease).remaining > 0
      BY <1>0, LowerTyped, NoLeaseAssumption
    <3>2. Lower(lease).operation = lease.operation
      BY <1>0, LowerTyped, NoLeaseAssumption
    <3>3. lease.remaining > 1 => Holder' = Holder
      BY <1>0, <2>1, <3>1, <3>2 DEF Holder
    <3> QED BY <1>0, <3>3
  <2> QED BY <2>1, <2>2
<1>6. ASSUME NEW o \in Operation,
             \/ Start(o) \/ AskRevision(o) \/ Finish(o) \/ Refuse(o) \/ Block(o) \/ Register(o)
             \/ Check(o) \/ TimerFires(o) \/ Wake(o) \/ Begin(o) \/ FetchFails(o)
      PROVE  FALSE
  BY <1>1, <1>6 DEF Start, AskRevision, Finish, Refuse, Block, Register, Check, TimerFires,
     Wake, Begin, FetchFails
<1>7. CASE (\E i \in Isolate : LoseIsolate(i)) \/ RestartObject \/ UNCHANGED vars
  BY <1>1, <1>7 DEF LoseIsolate, RestartObject, vars
<1> QED BY <1>2, <1>3, <1>4, <1>5, <1>6, <1>7 DEF Next, CallerStep, ObjectStep

(* The release of an operation that lost its own lease compares the lease   *)
(* it finds (DELETE of agenda-coordinator.ts), so it never ends another's.  *)
THEOREM LeaseEndsItself == Spec => LeaseEndsByHolder
<1>1. Typed /\ [Next]_vars =>
        [Holder # NoOperation /\ Holder' # Holder
           => At(Holder, "releasing") \/ (lease.remaining = 1 /\ lease' = Lower(lease))]_vars
  BY LeaseEnds
<1> QED BY <1>1, AlwaysTyped, PTL DEF Spec, LeaseEndsByHolder

-----------------------------------------------------------------------------
(* The tails.  A call that was begun is in the tail of its isolate until it  *)
(* ends, is lost with its isolate, or is left to the object by its caller;   *)
(* what has started and was not left is at the head.                         *)
StartedPC == PostPC \cup {"asking", "running", "releasing"}

TailFits(i) ==
  /\ tail[i] \in Seq(Operation)
  /\ \A k \in 1 .. Len(tail[i]) :
       /\ IsolateOf[tail[i][k]] = i
       /\ tail[i][k] \notin gone
       /\ \/ call[tail[i][k]].pc = "tail"
          \/ k = 1 /\ call[tail[i][k]].pc \in StartedPC
  /\ \A j, k \in 1 .. Len(tail[i]) : tail[i][j] = tail[i][k] => j = k

CallFits(o) ==
  LET queue == tail[IsolateOf[o]] IN
  /\ call[o].pc \in StartedPC /\ o \notin gone => Len(queue) > 0 /\ queue[1] = o
  /\ call[o].pc = "tail" => \E k \in 1 .. Len(queue) : queue[k] = o
  /\ o \in gone => call[o].pc \in PostPC \cup {"failed"}

TailInv ==
  /\ tail \in [Isolate -> Seq(Operation)]
  /\ gone \subseteq Operation
  /\ \A i \in Isolate : TailFits(i)
  /\ \A o \in Operation : CallFits(o)

(* Taking the head off a tail, and adding to its end. *)
LEMMA TailParts ==
  ASSUME NEW s \in Seq(Operation), Len(s) > 0
  PROVE  /\ Tail(s) \in Seq(Operation) /\ Len(Tail(s)) = Len(s) - 1 /\ Len(s) \in Nat
         /\ \A k \in 1 .. Len(Tail(s)) : Tail(s)[k] = s[k + 1] /\ k + 1 \in 1 .. Len(s)
         /\ Head(s) = s[1] /\ 1 \in 1 .. Len(s)
  OBVIOUS

LEMMA AppendParts ==
  ASSUME NEW s \in Seq(Operation), NEW o \in Operation
  PROVE  /\ Append(s, o) \in Seq(Operation) /\ Len(Append(s, o)) = Len(s) + 1 /\ Len(s) \in Nat
         /\ \A k \in 1 .. Len(s) : Append(s, o)[k] = s[k]
         /\ Append(s, o)[Len(s) + 1] = o
  OBVIOUS

LEMMA FitsBy ==
  ASSUME NEW j \in Isolate, NEW q \in Seq(Operation), tail'[j] = q,
         \A k \in 1 .. Len(q) :
           /\ IsolateOf[q[k]] = j /\ q[k] \notin gone'
           /\ call'[q[k]].pc = "tail" \/ (k = 1 /\ call'[q[k]].pc \in StartedPC),
         \A k, m \in 1 .. Len(q) : q[k] = q[m] => k = m
  PROVE  TailFits(j)'
  BY DEF TailFits

(* A call goes on where it is, or is answered for nobody. *)
LEMMA TailKept ==
  ASSUME TailInv, UNCHANGED <<tail, gone>>, NEW o \in Operation,
         \A p \in Operation \ {o} : call'[p].pc = call[p].pc,
         \/ call'[o].pc = call[o].pc
         \/ call[o].pc \in StartedPC /\ o \notin gone /\ call'[o].pc \in StartedPC
         \/ call[o].pc = "tail" /\ Head(tail[IsolateOf[o]]) = o /\ call'[o].pc = "asking"
         \/ call[o].pc \in PostPC /\ o \in gone /\ call'[o].pc \in PostPC \cup {"failed"}
  PROVE  TailInv'
<1>0. /\ "tail" \notin StartedPC /\ "failed" \notin StartedPC /\ "asking" \in StartedPC
      /\ PostPC \subseteq StartedPC /\ "tail" \notin PostPC
  BY DEF StartedPC, PostPC
<1>1. call[o].pc = "tail" => o \notin gone
  BY <1>0 DEF TailInv, CallFits
<1>2. ASSUME NEW i \in Isolate PROVE TailFits(i)'
  <2>1. TailFits(i) /\ tail[i] \in Seq(Operation)
    BY DEF TailInv
  <2>2. ASSUME NEW k \in 1 .. Len(tail[i])
        PROVE  \/ call'[tail[i][k]].pc = "tail"
               \/ k = 1 /\ call'[tail[i][k]].pc \in StartedPC
    <3>1. tail[i][k] \in Operation
      BY <2>1
    <3>2. CASE tail[i][k] # o \/ call'[o].pc = call[o].pc
      BY <2>1, <3>1, <3>2 DEF TailFits
    <3>3. CASE tail[i][k] = o /\ call[o].pc \in StartedPC /\ call'[o].pc \in StartedPC
      BY <1>0, <2>1, <3>3 DEF TailFits
    <3>4. CASE tail[i][k] = o /\ Head(tail[IsolateOf[o]]) = o /\ call'[o].pc = "asking"
      <4>1. IsolateOf[o] = i
        BY <2>1, <3>4 DEF TailFits
      <4>2. Len(tail[i]) > 0
        BY <2>1
      <4>3. tail[i][1] = o /\ 1 \in 1 .. Len(tail[i])
        BY <2>1, <3>4, <4>1, <4>2, TailParts
      <4>4. k = 1
        BY <2>1, <3>4, <4>3 DEF TailFits
      <4> QED BY <1>0, <3>4, <4>4
    <3>5. tail[i][k] \notin gone
      BY <2>1 DEF TailFits
    <3> QED BY <3>2, <3>3, <3>4, <3>5
  <2> QED BY <2>1, <2>2 DEF TailFits
<1>3. ASSUME NEW q \in Operation PROVE CallFits(q)'
  <2>1. CallFits(q) /\ CallFits(o)
    BY DEF TailInv
  <2>2. CASE q # o \/ call'[o].pc = call[o].pc
    BY <2>1, <2>2 DEF CallFits
  <2>3. CASE q = o /\ call[o].pc \in StartedPC /\ o \notin gone /\ call'[o].pc \in StartedPC
    BY <1>0, <2>1, <2>3 DEF CallFits
  <2>4. CASE /\ q = o /\ call[o].pc = "tail" /\ Head(tail[IsolateOf[o]]) = o
             /\ call'[o].pc = "asking"
    <3>1. IsolateOf[o] \in Isolate /\ tail[IsolateOf[o]] \in Seq(Operation)
      BY DEF TailInv
    <3>2. Len(tail[IsolateOf[o]]) > 0
      BY <2>1, <2>4, <3>1 DEF CallFits
    <3>3. tail[IsolateOf[o]][1] = o
      BY <2>4, <3>1, <3>2, TailParts
    <3> QED BY <1>1, <2>4, <3>2, <3>3 DEF CallFits
  <2>5. CASE q = o /\ o \in gone /\ call'[o].pc \in PostPC \cup {"failed"}
    BY <1>0, <2>5 DEF CallFits
  <2> QED BY <2>2, <2>3, <2>4, <2>5
<1> QED BY <1>2, <1>3 DEF TailInv

(* A call leaves its tail: it ends, or the object goes on for nobody. *)
LEMMA TailLeft ==
  ASSUME TailInv, NEW o \in Operation, call[o].pc \in StartedPC, o \notin gone,
         tail' = [tail EXCEPT ![IsolateOf[o]] = Tail(@)],
         \A p \in Operation \ {o} : call'[p].pc = call[p].pc,
         \/ call'[o].pc \in {"done", "failed"} /\ gone' = gone
         \/ call'[o].pc \in PostPC /\ gone' = gone \cup {o}
  PROVE  TailInv'
<1> DEFINE i == IsolateOf[o]
           s == tail[i]
<1>0. /\ "tail" \notin StartedPC /\ "failed" \notin StartedPC /\ "done" \notin StartedPC
      /\ PostPC \subseteq StartedPC /\ "tail" \notin PostPC
  BY DEF StartedPC, PostPC
<1>1. i \in Isolate /\ s \in Seq(Operation) /\ TailFits(i) /\ Len(s) > 0 /\ s[1] = o
  BY DEF TailInv, CallFits
<1>2. /\ Tail(s) \in Seq(Operation) /\ Len(Tail(s)) = Len(s) - 1 /\ Len(s) \in Nat
      /\ \A k \in 1 .. Len(Tail(s)) : Tail(s)[k] = s[k + 1] /\ k + 1 \in 1 .. Len(s)
      /\ 1 \in 1 .. Len(s)
  BY <1>1, TailParts
<1>3. tail'[i] = Tail(s) /\ \A j \in Isolate : j # i => tail'[j] = tail[j]
  BY <1>1 DEF TailInv
<1>4. tail' \in [Isolate -> Seq(Operation)] /\ gone' \subseteq Operation
  BY <1>1, <1>2 DEF TailInv
<1>5. \A p \in Operation : p # o => (p \in gone' <=> p \in gone)
  OBVIOUS
<1>6. ASSUME NEW j \in Isolate PROVE TailFits(j)'
  <2>1. CASE j # i
    <3>1. TailFits(j) /\ tail'[j] = tail[j] /\ tail[j] \in Seq(Operation)
      BY <1>3, <2>1 DEF TailInv
    <3>2. ASSUME NEW k \in 1 .. Len(tail[j])
          PROVE  tail[j][k] # o /\ tail[j][k] \in Operation
      BY <2>1, <3>1 DEF TailFits
    <3>3. ASSUME NEW k \in 1 .. Len(tail[j])
          PROVE  /\ IsolateOf[tail[j][k]] = j /\ tail[j][k] \notin gone'
                 /\ \/ call'[tail[j][k]].pc = "tail"
                    \/ k = 1 /\ call'[tail[j][k]].pc \in StartedPC
      <4>1. call'[tail[j][k]].pc = call[tail[j][k]].pc
        BY <3>2
      <4> QED BY <1>5, <3>1, <3>2, <4>1 DEF TailFits
    <3>4. \A k, m \in 1 .. Len(tail[j]) : tail[j][k] = tail[j][m] => k = m
      BY <3>1 DEF TailFits
    <3> QED BY <3>1, <3>3, <3>4, FitsBy
  <2>2. CASE j = i
    <3>1. ASSUME NEW k \in 1 .. Len(Tail(s))
          PROVE  /\ Tail(s)[k] = s[k + 1] /\ k + 1 \in 1 .. Len(s)
                 /\ s[k + 1] # o /\ s[k + 1] \in Operation
      <4>1. k + 1 # 1
        OBVIOUS
      <4> QED BY <1>1, <1>2, <4>1 DEF TailFits
    <3>2. ASSUME NEW k \in 1 .. Len(Tail(s))
          PROVE  /\ IsolateOf[Tail(s)[k]] = i /\ Tail(s)[k] \notin gone'
                 /\ call'[Tail(s)[k]].pc = "tail"
      <4>1. k + 1 # 1
        OBVIOUS
      <4> QED BY <1>1, <1>5, <3>1, <4>1 DEF TailFits
    <3>3. ASSUME NEW k \in 1 .. Len(Tail(s)), NEW m \in 1 .. Len(Tail(s)),
                 Tail(s)[k] = Tail(s)[m]
          PROVE  k = m
      <4>1. s[k + 1] = s[m + 1] /\ k + 1 \in 1 .. Len(s) /\ m + 1 \in 1 .. Len(s)
        BY <3>1, <3>3
      <4>2. k + 1 = m + 1
        BY <1>1, <4>1 DEF TailFits
      <4> QED BY <4>2
    <3>4. tail'[j] = Tail(s) /\ Tail(s) \in Seq(Operation)
      BY <1>2, <1>3, <2>2
    <3> HIDE DEF s
    <3>5. \A k, m \in 1 .. Len(Tail(s)) : Tail(s)[k] = Tail(s)[m] => k = m
      BY <3>3
    <3> QED BY <2>2, <3>2, <3>4, <3>5, FitsBy
  <2> QED BY <2>1, <2>2
<1>7. ASSUME NEW q \in Operation PROVE CallFits(q)'
  <2>1. CallFits(q)
    BY DEF TailInv
  <2>2. CASE q = o
    BY <1>0, <2>2 DEF CallFits
  <2>3. CASE q # o /\ IsolateOf[q] # i
    <3>1. tail'[IsolateOf[q]] = tail[IsolateOf[q]]
      BY <1>3, <2>3
    <3> QED BY <1>5, <2>1, <2>3, <3>1 DEF CallFits
  <2>4. CASE q # o /\ IsolateOf[q] = i
    <3>1. ~(call'[q].pc \in StartedPC /\ q \notin gone')
      BY <1>1, <1>5, <2>1, <2>4 DEF CallFits
    <3>2. ASSUME call'[q].pc = "tail" PROVE \E k \in 1 .. Len(Tail(s)) : Tail(s)[k] = q
      <4>1. PICK k \in 1 .. Len(s) : s[k] = q
        BY <2>1, <2>4, <3>2 DEF CallFits
      <4>2. k # 1
        BY <1>1, <2>4, <4>1
      <4>3. k - 1 \in 1 .. Len(Tail(s)) /\ (k - 1) + 1 = k
        BY <1>2, <4>1, <4>2
      <4>4. Tail(s)[k - 1] = q
        BY <1>2, <4>1, <4>3
      <4> QED BY <4>3, <4>4
    <3>3. q \in gone' => call'[q].pc \in PostPC \cup {"failed"}
      BY <1>5, <2>1, <2>4 DEF CallFits
    <3> QED BY <1>3, <2>4, <3>1, <3>2, <3>3 DEF CallFits
  <2> QED BY <2>2, <2>3, <2>4
<1> QED BY <1>4, <1>6, <1>7 DEF TailInv

LEMMA TailBegun ==
  ASSUME TailInv, call \in [Operation -> Call], NEW o \in Operation, Begin(o)
  PROVE  TailInv'
<1> DEFINE i == IsolateOf[o]
           s == tail[i]
<1>0. "tail" \notin StartedPC /\ "idle" \notin StartedPC /\ "idle" \notin PostPC
  BY DEF StartedPC, PostPC
<1>1. i \in Isolate /\ s \in Seq(Operation) /\ TailFits(i) /\ CallFits(o)
  BY DEF TailInv
<1>2. /\ Append(s, o) \in Seq(Operation) /\ Len(Append(s, o)) = Len(s) + 1 /\ Len(s) \in Nat
      /\ \A k \in 1 .. Len(s) : Append(s, o)[k] = s[k]
      /\ Append(s, o)[Len(s) + 1] = o
  BY <1>1, AppendParts
<1>3. /\ tail'[i] = Append(s, o) /\ \A j \in Isolate : j # i => tail'[j] = tail[j]
      /\ gone' = gone /\ call[o].pc = "idle"
  BY <1>1 DEF Begin, TailInv, At
<1>4. call'[o].pc = "tail" /\ \A p \in Operation : p # o => call'[p].pc = call[p].pc
  BY GoUpdates DEF Begin, PC
<1>5. tail' \in [Isolate -> Seq(Operation)]
  BY <1>1, <1>2 DEF Begin, TailInv
<1>6. o \notin gone
  BY <1>0, <1>1, <1>3 DEF CallFits
<1>7. ASSUME NEW j \in Isolate PROVE TailFits(j)'
  <2>1. TailFits(j) /\ tail[j] \in Seq(Operation)
    BY DEF TailInv
  <2>2. \A k \in 1 .. Len(tail[j]) : tail[j][k] # o /\ tail[j][k] \in Operation
    BY <1>0, <1>3, <2>1 DEF TailFits
  <2>3. CASE j # i
    BY <1>3, <1>4, <2>1, <2>2, <2>3 DEF TailFits
  <2>4. CASE j = i
    <3>1. ASSUME NEW k \in 1 .. Len(Append(s, o))
          PROVE  \/ k \in 1 .. Len(s) /\ Append(s, o)[k] = s[k]
                 \/ k = Len(s) + 1 /\ Append(s, o)[k] = o
      BY <1>2
    <3>2. ASSUME NEW k \in 1 .. Len(Append(s, o))
          PROVE  /\ IsolateOf[Append(s, o)[k]] = i /\ Append(s, o)[k] \notin gone'
                 /\ \/ call'[Append(s, o)[k]].pc = "tail"
                    \/ k = 1 /\ call'[Append(s, o)[k]].pc \in StartedPC
      <4>1. CASE k \in 1 .. Len(s) /\ Append(s, o)[k] = s[k]
        BY <1>3, <1>4, <2>1, <2>2, <2>4, <4>1 DEF TailFits
      <4>2. CASE Append(s, o)[k] = o
        BY <1>3, <1>4, <1>6, <4>2
      <4> QED BY <3>1, <4>1, <4>2
    <3>3. ASSUME NEW k \in 1 .. Len(Append(s, o)), NEW m \in 1 .. Len(Append(s, o)),
                 Append(s, o)[k] = Append(s, o)[m]
          PROVE  k = m
      <4>1. CASE k \in 1 .. Len(s) /\ m \in 1 .. Len(s)
        <5>1. s[k] = s[m]
          BY <1>2, <3>3, <4>1
        <5> QED BY <2>1, <2>4, <4>1, <5>1 DEF TailFits
      <4>2. CASE k \notin 1 .. Len(s) \/ m \notin 1 .. Len(s)
        BY <2>2, <2>4, <3>1, <3>3, <4>2
      <4> QED BY <4>1, <4>2
    <3>4. tail'[j] = Append(s, o) /\ Append(s, o) \in Seq(Operation)
      BY <1>2, <1>3, <2>4
    <3>. DEFINE q == Append(s, o)
    <3>. HIDE DEF q
    <3>5. tail'[j] = q /\ q \in Seq(Operation)
      BY <3>4 DEF q
    <3>6. \A k \in 1 .. Len(q) : /\ IsolateOf[q[k]] = i /\ q[k] \notin gone'
                                 /\ \/ call'[q[k]].pc = "tail"
                                    \/ k = 1 /\ call'[q[k]].pc \in StartedPC
      BY <3>2 DEF q
    <3>7. \A k, m \in 1 .. Len(q) : q[k] = q[m] => k = m
      BY <3>3 DEF q
    <3> QED BY <2>4, <3>5, <3>6, <3>7 DEF TailFits
  <2> QED BY <2>3, <2>4
<1>8. ASSUME NEW q \in Operation PROVE CallFits(q)'
  <2>1. CallFits(q) /\ IsolateOf[q] \in Isolate
    BY DEF TailInv
  <2>2. CASE q = o
    <3>1. Len(s) + 1 \in 1 .. Len(Append(s, o))
      BY <1>2
    <3> QED BY <1>0, <1>2, <1>3, <1>4, <1>6, <2>2, <3>1 DEF CallFits
  <2>3. CASE q # o /\ IsolateOf[q] # i
    BY <1>3, <1>4, <2>1, <2>3 DEF CallFits
  <2>4. CASE q # o /\ IsolateOf[q] = i
    <3>1. Len(s) > 0 => 1 \in 1 .. Len(s)
      BY <1>2
    <3>2. call[q].pc \in StartedPC /\ q \notin gone =>
            Len(Append(s, o)) > 0 /\ Append(s, o)[1] = q
      BY <1>2, <2>1, <2>4, <3>1 DEF CallFits
    <3>3. call[q].pc = "tail" => \E k \in 1 .. Len(Append(s, o)) : Append(s, o)[k] = q
      <4>1. \A k \in 1 .. Len(s) : k \in 1 .. Len(Append(s, o))
        BY <1>2
      <4> QED BY <1>2, <2>1, <2>4, <4>1 DEF CallFits
    <3> QED BY <1>3, <1>4, <2>1, <2>4, <3>2, <3>3 DEF CallFits
  <2> QED BY <2>2, <2>3, <2>4
<1> QED BY <1>3, <1>5, <1>7, <1>8 DEF TailInv

(* Nothing that the tails speak of changes. *)
LEMMA TailSame ==
  ASSUME TailInv, UNCHANGED <<tail, gone>>,
         \A p \in Operation : call'[p].pc = call[p].pc
  PROVE  TailInv'
<1>1. ASSUME NEW i \in Isolate PROVE TailFits(i)'
  <2>1. TailFits(i)
    BY DEF TailInv
  <2>2. \A k \in 1 .. Len(tail[i]) : tail[i][k] \in Operation
    BY <2>1 DEF TailFits
  <2> QED BY <2>1, <2>2 DEF TailFits
<1>2. ASSUME NEW q \in Operation PROVE CallFits(q)'
  BY DEF TailInv, CallFits
<1> QED BY <1>1, <1>2 DEF TailInv

(* Which calls fail. *)
LEMMA FailExactly ==
  ASSUME call \in [Operation -> Call], NEW Q, Fail(Q), NEW p \in Operation
  PROVE  /\ p \in Q => call'[p].pc = "failed"
         /\ p \notin Q => call'[p].pc = call[p].pc
  BY DEF Fail, Call

(* An isolate is lost: its tail is gone with it, and no other is touched. *)
LEMMA TailLost ==
  ASSUME TailInv, call \in [Operation -> Call], NEW i \in Isolate, LoseIsolate(i)
  PROVE  TailInv'
<1> DEFINE L == Range(tail[i])
<1>0. /\ "tail" \notin StartedPC /\ "failed" \notin StartedPC /\ PostPC \subseteq StartedPC
  BY DEF StartedPC, PostPC
<1>1. PICK kept \in SUBSET (L \cap Posting) :
        Fail(L \ kept) /\ gone' = gone \cup kept
  BY DEF LoseIsolate
<1>2. TailFits(i) /\ tail[i] \in Seq(Operation) /\ tail \in [Isolate -> Seq(Operation)]
  BY DEF TailInv
<1>3. tail'[i] = <<>> /\ \A j \in Isolate : j # i => tail'[j] = tail[j]
  BY <1>2 DEF LoseIsolate
<1>4. \A q : q \in L <=> \E k \in 1 .. Len(tail[i]) : tail[i][k] = q
  BY <1>2 DEF Range
<1>5. \A q \in L : q \in Operation /\ IsolateOf[q] = i
  BY <1>2, <1>4 DEF TailFits
<1>6. tail' \in [Isolate -> Seq(Operation)] /\ gone' \subseteq Operation
  BY <1>1, <1>2, <1>5 DEF LoseIsolate, TailInv
<1>7. ASSUME NEW q \in Operation
      PROVE  /\ q \in L \ kept => call'[q].pc = "failed"
             /\ q \in kept => call'[q].pc = call[q].pc /\ call[q].pc \in PostPC
             /\ q \notin L => call'[q].pc = call[q].pc /\ (q \in gone' <=> q \in gone)
  BY <1>1, FailExactly DEF Posting
<1> HIDE DEF L
<1>8. ASSUME NEW j \in Isolate PROVE TailFits(j)'
  <2>1. CASE j = i
    <3>1. <<>> \in Seq(Operation) /\ Len(<<>>) = 0
      OBVIOUS
    <3>2. tail'[j] = <<>>
      BY <1>3, <2>1
    <3>3. \A k \in 1 .. Len(<<>>) : FALSE
      BY <3>1
    <3> QED BY <3>1, <3>2, <3>3 DEF TailFits
  <2>2. CASE j # i
    <3>1. TailFits(j) /\ tail[j] \in Seq(Operation)
      BY DEF TailInv
    <3>2. ASSUME NEW k \in 1 .. Len(tail[j])
          PROVE  /\ IsolateOf[tail[j][k]] = j /\ tail[j][k] \notin gone'
                 /\ call'[tail[j][k]].pc = "tail" \/ (k = 1 /\ call'[tail[j][k]].pc \in StartedPC)
      <4>1. tail[j][k] \in Operation /\ IsolateOf[tail[j][k]] = j
        BY <3>1 DEF TailFits
      <4>2. tail[j][k] \notin L
        BY <1>5, <2>2, <4>1
      <4> QED BY <1>7, <3>1, <4>1, <4>2 DEF TailFits
    <3>3. \A k, m \in 1 .. Len(tail[j]) : tail[j][k] = tail[j][m] => k = m
      BY <3>1 DEF TailFits
    <3>4. tail'[j] = tail[j]
      BY <1>3, <2>2
    <3> QED BY <3>1, <3>2, <3>3, <3>4, FitsBy
  <2> QED BY <2>1, <2>2
<1>9. ASSUME NEW q \in Operation PROVE CallFits(q)'
  <2>1. CallFits(q) /\ IsolateOf[q] \in Isolate
    BY DEF TailInv
  <2>2. CASE q \in L \ kept
    BY <1>0, <1>7, <2>2 DEF CallFits
  <2>3. CASE q \in kept
    <3>1. q \in gone' /\ call'[q].pc \in PostPC
      BY <1>1, <1>7, <2>3
    <3> QED BY <1>0, <3>1 DEF CallFits
  <2>4. CASE q \notin L /\ IsolateOf[q] # i
    BY <1>3, <1>7, <2>1, <2>4 DEF CallFits
  <2>5. CASE q \notin L /\ IsolateOf[q] = i
    <3>1. Len(tail[i]) > 0 => tail[i][1] \in L
      <4>1. Len(tail[i]) > 0 => 1 \in 1 .. Len(tail[i])
        BY <1>2
      <4> QED BY <1>4, <4>1
    <3>2. ~(call[q].pc \in StartedPC /\ q \notin gone) /\ call[q].pc # "tail"
      BY <1>4, <2>1, <2>5, <3>1 DEF CallFits
    <3> QED BY <1>7, <2>1, <2>5, <3>2 DEF CallFits
  <2> QED BY <1>1, <2>2, <2>3, <2>4, <2>5
<1> QED BY <1>6, <1>8, <1>9 DEF TailInv

(* The object starts again: the heads whose POST it had in hand fail. *)
LEMMA TailRestarted ==
  ASSUME TailInv, call \in [Operation -> Call], RestartObject
  PROVE  TailInv'
<1>0. /\ "tail" \notin StartedPC /\ "failed" \notin StartedPC /\ PostPC \subseteq StartedPC
      /\ "tail" \notin PostPC
  BY DEF StartedPC, PostPC
<1>1. /\ Fail(Posting) /\ gone' = gone
      /\ \A j \in Isolate : tail'[j] = IF tail[j] # <<>> /\ Head(tail[j]) \in Posting
                                       THEN Tail(tail[j]) ELSE tail[j]
  BY DEF RestartObject
<1>2. ASSUME NEW q \in Operation
      PROVE  /\ call[q].pc \in PostPC => call'[q].pc = "failed"
             /\ call[q].pc \notin PostPC => call'[q].pc = call[q].pc
  BY <1>1, FailExactly DEF Posting
<1>3. ASSUME NEW j \in Isolate
      PROVE  \/ /\ tail'[j] = tail[j]
                /\ Len(tail[j]) > 0 => call[tail[j][1]].pc \notin PostPC
             \/ /\ tail'[j] = Tail(tail[j]) /\ Len(tail[j]) > 0
                /\ call[tail[j][1]].pc \in PostPC
  <2>1. tail[j] \in Seq(Operation)
    BY DEF TailInv
  <2>2. Len(tail[j]) > 0 => Head(tail[j]) = tail[j][1] /\ tail[j][1] \in Operation
    BY <2>1
  <2>3. tail[j] # <<>> <=> Len(tail[j]) > 0
    BY <2>1
  <2> QED BY <1>1, <2>2, <2>3 DEF Posting
<1>4. ASSUME NEW j \in Isolate PROVE TailFits(j)' /\ tail'[j] \in Seq(Operation)
  <2>1. TailFits(j) /\ tail[j] \in Seq(Operation)
    BY DEF TailInv
  <2>2. ASSUME NEW k \in 1 .. Len(tail[j])
        PROVE  tail[j][k] \in Operation
    BY <2>1
  <2>3. CASE tail'[j] = tail[j] /\ (Len(tail[j]) > 0 => call[tail[j][1]].pc \notin PostPC)
    <3>1. ASSUME NEW k \in 1 .. Len(tail[j])
          PROVE  /\ IsolateOf[tail[j][k]] = j /\ tail[j][k] \notin gone'
                 /\ call'[tail[j][k]].pc = "tail" \/ (k = 1 /\ call'[tail[j][k]].pc \in StartedPC)
      <4>1. Len(tail[j]) > 0
        BY <2>1
      <4>2. call[tail[j][k]].pc \notin PostPC
        BY <1>0, <2>1, <2>3, <4>1 DEF TailFits
      <4> QED BY <1>1, <1>2, <2>1, <2>2, <4>2 DEF TailFits
    <3>2. \A k, m \in 1 .. Len(tail[j]) : tail[j][k] = tail[j][m] => k = m
      BY <2>1 DEF TailFits
    <3> QED BY <2>1, <2>3, <3>1, <3>2, FitsBy
  <2>4. CASE tail'[j] = Tail(tail[j]) /\ Len(tail[j]) > 0
    <3> DEFINE s == tail[j]
               t == Tail(tail[j])
    <3>1. /\ t \in Seq(Operation) /\ Len(t) = Len(s) - 1 /\ Len(s) \in Nat
          /\ \A k \in 1 .. Len(t) : t[k] = s[k + 1] /\ k + 1 \in 1 .. Len(s)
      BY <2>1, <2>4, TailParts
    <3>2. ASSUME NEW k \in 1 .. Len(t)
          PROVE  IsolateOf[t[k]] = j /\ t[k] \notin gone' /\ call'[t[k]].pc = "tail"
      <4>1. t[k] = s[k + 1] /\ k + 1 \in 1 .. Len(s) /\ k + 1 # 1
        BY <3>1
      <4>2. call[s[k + 1]].pc = "tail" /\ s[k + 1] \notin gone /\ IsolateOf[s[k + 1]] = j
        BY <2>1, <4>1 DEF TailFits
      <4> QED BY <1>0, <1>1, <1>2, <2>2, <4>1, <4>2
    <3>3. ASSUME NEW k \in 1 .. Len(t), NEW m \in 1 .. Len(t), t[k] = t[m]
          PROVE  k = m
      <4>1. s[k + 1] = s[m + 1] /\ k + 1 \in 1 .. Len(s) /\ m + 1 \in 1 .. Len(s)
        BY <3>1, <3>3
      <4>2. k + 1 = m + 1
        BY <2>1, <4>1 DEF TailFits
      <4> QED BY <3>1, <4>2
    <3>4. tail'[j] = t
      BY <2>4
    <3> HIDE DEF t, s
    <3> QED BY <3>1, <3>2, <3>3, <3>4, FitsBy
  <2> QED BY <1>3, <2>3, <2>4
<1>5. tail' \in [Isolate -> Seq(Operation)]
  BY <1>4 DEF RestartObject
<1>6. ASSUME NEW q \in Operation PROVE CallFits(q)'
  <2>1. CallFits(q) /\ IsolateOf[q] \in Isolate
    BY DEF TailInv
  <2> DEFINE j == IsolateOf[q]
  <2>2. CASE call[q].pc \in PostPC
    BY <1>0, <1>2, <2>2 DEF CallFits
  <2>3. CASE call[q].pc \notin PostPC /\ tail'[j] = tail[j]
    BY <1>1, <1>2, <2>1, <2>3 DEF CallFits
  <2>4. CASE /\ call[q].pc \notin PostPC
             /\ tail'[j] = Tail(tail[j]) /\ Len(tail[j]) > 0
             /\ call[tail[j][1]].pc \in PostPC
    <3>1. tail[j][1] # q
      BY <2>4
    <3>2. ~(call[q].pc \in StartedPC /\ q \notin gone)
      BY <2>1, <3>1 DEF CallFits
    <3>3. ASSUME call[q].pc = "tail" PROVE \E k \in 1 .. Len(tail'[j]) : tail'[j][k] = q
      <4>1. PICK k \in 1 .. Len(tail[j]) : tail[j][k] = q
        BY <2>1, <3>3 DEF CallFits
      <4>2. k # 1
        BY <3>1, <4>1
      <4>3. /\ Len(Tail(tail[j])) = Len(tail[j]) - 1 /\ Len(tail[j]) \in Nat
            /\ \A n \in 1 .. Len(Tail(tail[j])) : Tail(tail[j])[n] = tail[j][n + 1]
        <5>1. tail[j] \in Seq(Operation)
          BY <2>1 DEF TailInv
        <5> QED BY <2>4, <5>1, TailParts
      <4>4. k - 1 \in 1 .. Len(Tail(tail[j])) /\ (k - 1) + 1 = k
        BY <4>2, <4>3
      <4>5. Tail(tail[j])[k - 1] = q
        BY <4>1, <4>3, <4>4
      <4> QED BY <2>4, <4>4, <4>5
    <3> QED BY <1>1, <1>2, <2>1, <2>4, <3>2, <3>3 DEF CallFits
  <2> QED BY <1>3, <2>1, <2>2, <2>3, <2>4
<1> QED BY <1>1, <1>4, <1>5, <1>6 DEF TailInv

(* The object answers a POST, or goes on with it: the caller is told, unless *)
(* it has left.                                                              *)
LEMMA PostMoves ==
  ASSUME TailInv, UNCHANGED <<tail, gone>>, NEW o \in Operation, call[o].pc \in PostPC,
         \A p \in Operation \ {o} : call'[p] = call[p],
         \/ call'[o].pc \in PostPC
         \/ o \notin gone /\ call'[o].pc \in StartedPC
         \/ o \in gone /\ call'[o].pc = "failed"
  PROVE  TailInv'
<1>1. PostPC \subseteq StartedPC
  BY DEF StartedPC
<1> QED BY <1>1, TailKept

LEMMA TailStep ==
  ASSUME Typed, TailInv, [Next]_vars
  PROVE  TailInv'
<1>0. call \in [Operation -> Call] /\ lease \in Lease \cup {NoLease} /\ revision \in Nat
      /\ waiters \in SUBSET Operation
  BY DEF Typed
<1>1. /\ PostPC \subseteq PC /\ StartedPC \subseteq PC /\ PostPC \subseteq StartedPC
      /\ {"done", "failed", "tail"} \subseteq PC
      /\ {"posting", "blocked", "checking", "waiting"} = PostPC
      /\ {"asking", "running", "releasing"} \subseteq StartedPC
  BY DEF PC, StartedPC, PostPC
<1>2. \A o \in Operation : call[o].pc \in {"asking", "running", "releasing"} => o \notin gone
  BY DEF TailInv, CallFits, PostPC
<1>3. ASSUME NEW o \in Operation, Begin(o) PROVE TailInv'
  BY <1>0, <1>3, TailBegun
<1>4. ASSUME NEW o \in Operation, Start(o) PROVE TailInv'
  <2>1. call'[o].pc = "asking" /\ \A p \in Operation \ {o} : call'[p] = call[p]
    BY <1>0, <1>1, <1>4, GoUpdates DEF Start
  <2> QED BY <1>4, <2>1, TailKept DEF Start, At
<1>5. ASSUME NEW o \in Operation, AskRevision(o) PROVE TailInv'
  <2>1. call'[o].pc = "posting" /\ \A p \in Operation \ {o} : call'[p] = call[p]
    BY <1>0, <1>5, AskUpdates
  <2>2. call[o].pc = "asking" /\ UNCHANGED <<tail, gone>>
    BY <1>5 DEF AskRevision, At
  <2>3. call[o].pc \in StartedPC /\ o \notin gone /\ call'[o].pc \in StartedPC
    BY <1>1, <1>2, <2>1, <2>2
  <2> QED BY <2>1, <2>2, <2>3, TailKept
<1>6. ASSUME NEW o \in Operation, Finish(o) PROVE TailInv'
  <2>1. call'[o].pc = "releasing" /\ \A p \in Operation \ {o} : call'[p] = call[p]
    BY <1>0, <1>6, FinishUpdates
  <2>2. call[o].pc = "running" /\ UNCHANGED <<tail, gone>>
    BY <1>6 DEF Finish, At
  <2>3. call[o].pc \in StartedPC /\ o \notin gone /\ call'[o].pc \in StartedPC
    BY <1>1, <1>2, <2>1, <2>2
  <2> QED BY <2>1, <2>2, <2>3, TailKept
<1>7. ASSUME NEW o \in Operation, Release(o) PROVE TailInv'
  <2>1. PICK q \in {"done", "failed"} : Go(o, q)
    BY <1>7, ReleaseUpdates
  <2>2. call'[o].pc = q /\ \A p \in Operation \ {o} : call'[p] = call[p]
    BY <1>0, <1>1, <2>1, GoUpdates
  <2>3. call[o].pc = "releasing" /\ UNCHANGED gone
        /\ tail' = [tail EXCEPT ![IsolateOf[o]] = Tail(@)]
    BY <1>7 DEF Release, Released, End, At
  <2>4. call[o].pc \in StartedPC /\ o \notin gone
    BY <1>1, <1>2, <2>3
  <2> QED BY <2>2, <2>3, <2>4, TailLeft
<1>8. ASSUME NEW o \in Operation, FetchFails(o) PROVE TailInv'
  <2>1. /\ call[o].pc \in StartedPC /\ o \notin gone
        /\ tail' = [tail EXCEPT ![IsolateOf[o]] = Tail(@)]
    BY <1>1, <1>8 DEF FetchFails
  <2>2. CASE Fail({o}) /\ UNCHANGED gone
    <3>1. call'[o].pc = "failed" /\ \A p \in Operation \ {o} : call'[p].pc = call[p].pc
      BY <1>0, <2>2, FailExactly
    <3> QED BY <2>1, <2>2, <3>1, TailLeft
  <2>3. CASE o \in Posting /\ gone' = gone \cup {o} /\ UNCHANGED call
    BY <2>1, <2>3, TailLeft DEF Posting
  <2> QED BY <1>8, <2>2, <2>3 DEF FetchFails
<1>9. CASE (\E i \in Isolate : LoseIsolate(i)) \/ RestartObject
  BY <1>0, <1>9, TailLost, TailRestarted
<1>10. ASSUME NEW o \in Operation, Refuse(o) PROVE TailInv'
  <2>1. Go(o, IF o \in gone THEN "failed" ELSE "asking") /\ call[o].pc = "posting"
        /\ UNCHANGED <<tail, gone>>
    BY <1>10 DEF Refuse, Answer, At
  <2>2. /\ call'[o].pc = IF o \in gone THEN "failed" ELSE "asking"
        /\ \A p \in Operation \ {o} : call'[p] = call[p]
    BY <1>0, <1>1, <2>1, GoUpdates
  <2> QED BY <1>1, <2>1, <2>2, PostMoves
<1>11. ASSUME NEW o \in Operation, Admit(o) PROVE TailInv'
  <2>1. Go(o, IF o \in gone THEN "failed" ELSE "running") /\ call[o].pc = "posting"
        /\ UNCHANGED <<tail, gone>>
    BY <1>11 DEF Admit, Answer, At
  <2>2. /\ call'[o].pc = IF o \in gone THEN "failed" ELSE "running"
        /\ \A p \in Operation \ {o} : call'[p] = call[p]
    BY <1>0, <1>1, <2>1, GoUpdates
  <2> QED BY <1>1, <2>1, <2>2, PostMoves
<1>12. ASSUME NEW o \in Operation, Block(o) PROVE TailInv'
  <2>1. call'[o].pc = "blocked" /\ \A p \in Operation \ {o} : call'[p] = call[p]
    BY <1>0, <1>12, BlockUpdates
  <2>2. call[o].pc = "posting" /\ UNCHANGED <<tail, gone>>
    BY <1>12 DEF Block, At
  <2> QED BY <1>1, <2>1, <2>2, PostMoves
<1>13. ASSUME NEW o \in Operation, Register(o) PROVE TailInv'
  <2>1. call'[o].pc = "checking" /\ \A p \in Operation \ {o} : call'[p] = call[p]
    BY <1>0, <1>1, <1>13, GoUpdates DEF Register
  <2>2. call[o].pc = "blocked" /\ UNCHANGED <<tail, gone>>
    BY <1>13 DEF Register, At
  <2> QED BY <1>1, <2>1, <2>2, PostMoves
<1>14. ASSUME NEW o \in Operation, Check(o) PROVE TailInv'
  <2>1. call[o].pc = "checking" /\ UNCHANGED <<tail, gone>>
    BY <1>14 DEF Check, At
  <2>2. call'[o].pc \in PostPC /\ \A p \in Operation \ {o} : call'[p] = call[p]
    <3>1. CASE Go(o, "waiting")
      BY <1>0, <1>1, <3>1, GoUpdates
    <3>2. CASE Resume(o)
      BY <1>0, <1>1, <3>2, ResumeUpdates
    <3> QED BY <1>14, <3>1, <3>2, CheckUpdates
  <2> QED BY <1>1, <2>1, <2>2, PostMoves
<1>15. ASSUME NEW o \in Operation, Wake(o) PROVE TailInv'
  <2>1. call'[o].pc = "posting" /\ \A p \in Operation \ {o} : call'[p] = call[p]
    BY <1>0, <1>15, ResumeUpdates DEF Wake
  <2>2. call[o].pc = "waiting" /\ UNCHANGED <<tail, gone>>
    BY <1>15 DEF Wake, At
  <2> QED BY <1>1, <2>1, <2>2, PostMoves
<1>16. ASSUME NEW o \in Operation, Renew(o) PROVE TailInv'
  BY <1>0, <1>16, RenewUpdates, TailSame DEF Renew
<1>17. ASSUME NEW o \in Operation, TimerFires(o) \/ Replay(o) PROVE TailInv'
  BY <1>17, TailSame DEF TimerFires, Replay
<1>18. CASE Tick
  BY <1>0, <1>18, TickUpdates, TailSame DEF Tick
<1>19. CASE UNCHANGED vars
  BY <1>19, TailSame DEF vars
<1> QED BY <1>3, <1>4, <1>5, <1>6, <1>7, <1>8, <1>9, <1>10, <1>11, <1>12, <1>13, <1>14,
   <1>15, <1>16, <1>17, <1>18, <1>19 DEF Next, CallerStep, ObjectStep

LEMMA TailInit == Init => TailInv
<1> SUFFICES ASSUME Init PROVE TailInv
  OBVIOUS
<1>1. "idle" \notin StartedPC
  BY DEF StartedPC, PostPC
<1>2. tail \in [Isolate -> Seq(Operation)] /\ gone = {}
      /\ \A o \in Operation : call[o].pc = "idle"
  BY DEF Init
<1>3. ASSUME NEW i \in Isolate PROVE TailFits(i)
  <2>1. tail[i] = <<>>
    BY DEF Init
  <2> QED BY <2>1 DEF TailFits
<1>4. ASSUME NEW o \in Operation PROVE CallFits(o)
  BY <1>1, <1>2 DEF CallFits
<1> QED BY <1>2, <1>3, <1>4 DEF TailInv

ResendTyped == resend \in SUBSET Operation

LEMMA ResendStep ==
  ASSUME ResendTyped, [Next]_vars
  PROVE  ResendTyped'
<1>1. resend' \subseteq resend
  BY DEF Next, CallerStep, ObjectStep, Begin, Start, AskRevision, Finish, Release, Refuse,
     Block, Admit, Register, Check, TimerFires, Wake, Renew, FetchFails, Replay, LoseIsolate,
     RestartObject, Tick, vars
<1> QED BY <1>1 DEF ResendTyped

(* Every variable keeps its type: an isolate's tail holds its calls in the  *)
(* order in which runExclusive was called (#tails of runtime/airtable.ts).  *)
THEOREM TypeCorrect == Spec => []TypeOK
<1>1. Init => ResendTyped
  BY DEF Init, ResendTyped
<1>2. Typed /\ TailInv /\ ResendTyped => TypeOK
  BY DEF Typed, TailInv, ResendTyped, TypeOK
<1> QED BY <1>1, <1>2, TypedInit, TypedStep, TailInit, TailStep, ResendStep, PTL DEF Spec

(* The calls of one isolate run one after another, whatever leases they     *)
(* lose: only a call whose caller has given up is still in the object's     *)
(* hands while the next one works (runExclusive waits for the tail).        *)
OnePerIsolate ==
  \A o, p \in Operation :
    /\ IsolateOf[o] = IsolateOf[p] /\ o # p
    /\ call[o].pc \in StartedPC /\ call[p].pc \in StartedPC
    => \E q \in {o, p} : q \in gone /\ call[q].pc \in PostPC

(* No timing, loss or restart lets two calls of one isolate past the tail   *)
(* of runExclusive at once.                                                 *)
THEOREM TailsSerialise == Spec => []OnePerIsolate
<1>1. TailInv => OnePerIsolate
  <2> SUFFICES ASSUME TailInv, NEW o \in Operation, NEW p \in Operation,
                      IsolateOf[o] = IsolateOf[p], o # p,
                      call[o].pc \in StartedPC, call[p].pc \in StartedPC
               PROVE  \E q \in {o, p} : q \in gone /\ call[q].pc \in PostPC
    BY DEF OnePerIsolate
  <2>1. CallFits(o) /\ CallFits(p)
    BY DEF TailInv
  <2>2. o \in gone \/ p \in gone
    BY <2>1 DEF CallFits
  <2>3. "failed" \notin StartedPC
    BY DEF StartedPC, PostPC
  <2> QED BY <2>1, <2>2, <2>3 DEF CallFits
<1> QED BY <1>1, TypedInit, TypedStep, TailInit, TailStep, PTL DEF Spec
-----------------------------------------------------------------------------
(***************************************************************************)
(* The leases of idempotency keys (IdempotencyLeases, through INSTANCE:    *)
(* it declares names of AgendaCoordinator).  What it assumes of its        *)
(* constants is a hypothesis of every lemma here.                          *)
(***************************************************************************)
CONSTANTS Calls, NoCall, PrintOf, MaxLapses, MaxFaults, MaxDoubts
VARIABLES record, request, effects, outlived, leaseFaults, doubts

Leases == INSTANCE IdempotencyLeases WITH
  call <- request, lapses <- outlived, faults <- leaseFaults

LeaseBounds ==
  /\ IsFiniteSet(Calls) /\ NoCall \notin Calls
  /\ MaxLapses \in Nat /\ MaxFaults \in Nat /\ MaxDoubts \in Nat

USE DEF LeaseBounds

-----------------------------------------------------------------------------
(* What moving one call does. *)
LEMMA BecomeEffect ==
  ASSUME LeaseBounds,
         Leases!TypeOK, NEW c \in Calls, NEW pc, NEW v, Leases!Become(c, pc, v)
  PROVE  /\ request'[c].pc = pc /\ request'[c].value = v
         /\ \A d \in Calls : d # c => request'[d] = request[d]
BY DEF Leases!Become, Leases!TypeOK

LEMMA BecomeType ==
  ASSUME LeaseBounds,
         Leases!TypeOK, NEW c \in Calls, NEW v \in Nat,
         NEW pc \in {"new", "answered", "conflict", "failed"} \cup Leases!RunningPC,
         Leases!Become(c, pc, v)
  PROVE  request' \in [Calls -> Leases!Call]
BY DEF Leases!Become, Leases!TypeOK, Leases!Call

LEMMA StoredType ==
  ASSUME LeaseBounds,
         Leases!TypeOK, NEW c \in Calls
  PROVE  Leases!Stored(c) \in Leases!Record
BY DEF Leases!TypeOK, Leases!Record, Leases!Call, Leases!Stored

LEMMA RecordTypes ==
  ASSUME LeaseBounds
  PROVE  /\ Leases!NoRecord \in Leases!Record
         /\ \A c \in Calls : Leases!Leased(c) \in Leases!Record
BY DEF Leases!NoRecord, Leases!Record, Leases!Leased

LEMMA InitType ==
  ASSUME LeaseBounds
  PROVE  Leases!Init => Leases!TypeOK
BY RecordTypes DEF Leases!Init, Leases!TypeOK, Leases!Call

LEMMA StepType ==
  ASSUME LeaseBounds,
         Leases!TypeOK, NEW c \in Calls, Leases!Step(c)
  PROVE  Leases!TypeOK'
<1>. USE DEF Leases!Keep, Leases!GoTo, Leases!RunningPC, Leases!HolderPC
<1>1. CASE Leases!Select(c)
  <2>1. record.response \in Nat
    BY DEF Leases!TypeOK, Leases!Record
  <2>. QED
    BY <1>1, <2>1, BecomeType DEF Leases!Select, Leases!TypeOK
<1>2. CASE Leases!Delete(c)
  BY <1>2, BecomeType, RecordTypes DEF Leases!Delete, Leases!TypeOK
<1>3. CASE Leases!Insert(c)
  BY <1>3, BecomeType, RecordTypes DEF Leases!Insert, Leases!TypeOK
<1>4. CASE Leases!Operate(c)
  BY <1>4, BecomeType DEF Leases!Operate, Leases!TypeOK
<1>5. CASE Leases!Complete(c)
  <2>1. request[c].value \in Nat
    BY DEF Leases!TypeOK, Leases!Call
  <2>. QED
    BY <1>5, <2>1, BecomeType, StoredType DEF Leases!Complete, Leases!TypeOK
<1>6. CASE Leases!Release(c)
  BY <1>6, BecomeType, RecordTypes DEF Leases!Release, Leases!TypeOK
<1>7. CASE Leases!Poll(c)
  <2>1. record.response \in Nat
    BY DEF Leases!TypeOK, Leases!Record
  <2>. QED
    BY <1>7, <2>1, BecomeType DEF Leases!Poll, Leases!TypeOK
<1>8. CASE Leases!GiveUp(c)
  BY <1>8, BecomeType DEF Leases!GiveUp, Leases!TypeOK
<1>. QED
  BY <1>1, <1>2, <1>3, <1>4, <1>5, <1>6, <1>7, <1>8 DEF Leases!Step

LEMMA FaultType ==
  ASSUME LeaseBounds,
         Leases!TypeOK, NEW c \in Calls, Leases!Fault(c)
  PROVE  Leases!TypeOK'
<1>. USE DEF Leases!GoTo, Leases!RunningPC, Leases!HolderPC
<1>1. CASE Leases!InsertDoubted(c)
  BY <1>1, BecomeType, RecordTypes DEF Leases!InsertDoubted, Leases!TypeOK
<1>2. CASE Leases!CompleteDoubted(c)
  BY <1>2, BecomeType, StoredType DEF Leases!CompleteDoubted, Leases!TypeOK
<1>3. CASE Leases!OperationThrows(c)
  BY <1>3, BecomeType DEF Leases!OperationThrows, Leases!TypeOK
<1>4. CASE Leases!StatementFails(c)
  <2>1. PICK pc \in {"select", "release", "failed"} : Leases!Become(c, pc, 0)
    BY <1>4 DEF Leases!StatementFails
  <2>. QED
    BY <1>4, <2>1, BecomeType DEF Leases!StatementFails, Leases!TypeOK
<1>5. CASE Leases!LoseIsolate(c)
  BY <1>5, BecomeType DEF Leases!LoseIsolate, Leases!TypeOK
<1>. QED
  BY <1>1, <1>2, <1>3, <1>4, <1>5 DEF Leases!Fault

LEMMA LapseType ==
  ASSUME LeaseBounds,
         Leases!TypeOK, Leases!Abandoned \/ Leases!Outlived
  PROVE  Leases!TypeOK'
<1>1. [record EXCEPT !.expired = TRUE] \in Leases!Record
  BY DEF Leases!TypeOK, Leases!Record
<1>2. record' \in Leases!Record /\ UNCHANGED <<request, effects, leaseFaults, doubts>>
  BY <1>1 DEF Leases!Abandoned, Leases!Outlived, Leases!Expires
<1>3. outlived' \in 0 .. MaxLapses
  BY DEF Leases!Abandoned, Leases!Outlived, Leases!TypeOK
<1>. QED
  BY <1>2, <1>3 DEF Leases!TypeOK

LEMMA NextType ==
  ASSUME LeaseBounds
  PROVE  Leases!TypeOK /\ [Leases!Next]_(Leases!vars) => Leases!TypeOK'
<1>. SUFFICES ASSUME Leases!TypeOK, [Leases!Next]_(Leases!vars) PROVE  Leases!TypeOK'
  OBVIOUS
<1>1. CASE \E c \in Calls : Leases!Request(c)
  BY <1>1, BecomeType
     DEF Leases!Request, Leases!GoTo, Leases!Keep, Leases!TypeOK, Leases!RunningPC, Leases!HolderPC
<1>2. CASE \E c \in Calls : Leases!Step(c)
  BY <1>2, StepType
<1>3. CASE \E c \in Calls : Leases!Fault(c)
  BY <1>3, FaultType
<1>4. CASE Leases!Abandoned \/ Leases!Outlived
  BY <1>4, LapseType
<1>5. CASE UNCHANGED Leases!vars
  BY <1>5 DEF Leases!vars, Leases!TypeOK
<1>. QED
  BY <1>1, <1>2, <1>3, <1>4, <1>5 DEF Leases!Next

(* Every variable keeps its type (TypeOK): the row is one of the three that *)
(* begin tells apart, and what a call holds or was answered is a response.  *)
THEOREM LeasesTypeCorrect ==
  ASSUME LeaseBounds
  PROVE  Leases!Spec => []Leases!TypeOK
<1>1. Leases!Init => Leases!TypeOK
  BY InitType
<1>2. Leases!TypeOK /\ [Leases!Next]_(Leases!vars) => Leases!TypeOK'
  BY NextType
<1>. QED
  BY <1>1, <1>2, PTL DEF Leases!Spec

-----------------------------------------------------------------------------
(* A completed row is nobody's to complete, and in nobody's way: its lease *)
(* does not run out, and only a completion in doubt leaves its holder with  *)
(* something to release.                                                   *)
Settled ==
  /\ record.state = "none" => record = Leases!NoRecord
  /\ record.state = "completed" =>
       /\ ~record.expired
       /\ \A c \in Calls : Leases!Holds(c) => request[c].pc \notin {"operate", "complete"}
  /\ record.state = "completed" /\ doubts = 0 =>
       \A c \in Calls : Leases!Holds(c) => ~Leases!At(c, "release")

LEMMA InitSettled ==
  ASSUME LeaseBounds
  PROVE  Leases!Init => Settled
BY DEF Leases!Init, Settled, Leases!NoRecord

LEMMA StepSettled ==
  ASSUME LeaseBounds,
         Leases!TypeOK, Settled, NEW c \in Calls, Leases!Step(c)
  PROVE  Settled'
<1>. USE DEF Leases!Keep, Leases!GoTo
<1>1. CASE Leases!Select(c)
  BY <1>1, BecomeEffect DEF Leases!Select, Settled, Leases!Holds, Leases!At
<1>2. CASE Leases!Delete(c)
  BY <1>2, BecomeEffect DEF Leases!Delete, Settled, Leases!Holds, Leases!At, Leases!NoRecord
<1>3. CASE Leases!Insert(c)
  BY <1>3, BecomeEffect DEF Leases!Insert, Settled, Leases!Holds, Leases!At, Leases!Leased
<1>4. CASE Leases!Operate(c)
  BY <1>4, BecomeEffect DEF Leases!Operate, Settled, Leases!Holds, Leases!At
<1>5. CASE Leases!Complete(c)
  <2>1. CASE Leases!Holds(c)
    <3>1. record' = Leases!Stored(c) /\ Leases!Become(c, "answered", request[c].value)
      BY <1>5, <2>1 DEF Leases!Complete
    <3>2. record'.state = "completed" /\ record'.lease = c /\ ~record'.expired
      BY <2>1, <3>1 DEF Leases!Stored, Leases!TypeOK, Leases!Record, Leases!Holds
    <3>3. request'[c].pc = "answered"
      BY <3>1, BecomeEffect
    <3>. QED
      BY <3>2, <3>3 DEF Settled, Leases!Holds, Leases!At
  <2>2. CASE ~Leases!Holds(c)
    BY <1>5, <2>2, BecomeEffect DEF Leases!Complete, Settled, Leases!Holds, Leases!At
  <2>. QED
    BY <2>1, <2>2
<1>6. CASE Leases!Release(c)
  BY <1>6, BecomeEffect DEF Leases!Release, Settled, Leases!Holds, Leases!At, Leases!NoRecord
<1>7. CASE Leases!Poll(c)
  BY <1>7, BecomeEffect DEF Leases!Poll, Settled, Leases!Holds, Leases!At
<1>8. CASE Leases!GiveUp(c)
  BY <1>8, BecomeEffect DEF Leases!GiveUp, Settled, Leases!Holds, Leases!At
<1>. QED
  BY <1>1, <1>2, <1>3, <1>4, <1>5, <1>6, <1>7, <1>8 DEF Leases!Step

LEMMA FaultSettled ==
  ASSUME LeaseBounds,
         Leases!TypeOK, Settled, NEW c \in Calls, Leases!Fault(c)
  PROVE  Settled'
<1>. USE DEF Leases!GoTo
<1>1. CASE Leases!InsertDoubted(c)
  BY <1>1, BecomeEffect DEF Leases!InsertDoubted, Settled, Leases!Holds, Leases!At, Leases!Leased
<1>2. CASE Leases!CompleteDoubted(c)
  <2>1. record'.state = "completed" /\ record'.lease = c /\ ~record'.expired
    BY <1>2 DEF Leases!CompleteDoubted, Leases!Stored, Leases!TypeOK, Leases!Record, Leases!Holds
  <2>2. request'[c].pc = "release"
    BY <1>2, BecomeEffect DEF Leases!CompleteDoubted
  <2>3. doubts' # 0
    BY <1>2 DEF Leases!CompleteDoubted, Leases!TypeOK
  <2>. QED
    BY <2>1, <2>2, <2>3 DEF Settled, Leases!Holds, Leases!At
<1>3. CASE Leases!OperationThrows(c)
  BY <1>3, BecomeEffect DEF Leases!OperationThrows, Settled, Leases!Holds, Leases!At
<1>4. CASE Leases!StatementFails(c)
  <2>1. PICK pc \in {"select", "release", "failed"} :
          Leases!Become(c, pc, 0) /\ (pc = "release" => Leases!At(c, "complete"))
    BY <1>4 DEF Leases!StatementFails, Leases!At
  <2>. QED
    BY <1>4, <2>1, BecomeEffect DEF Leases!StatementFails, Settled, Leases!Holds, Leases!At
<1>5. CASE Leases!LoseIsolate(c)
  BY <1>5, BecomeEffect DEF Leases!LoseIsolate, Settled, Leases!Holds, Leases!At
<1>. QED
  BY <1>1, <1>2, <1>3, <1>4, <1>5 DEF Leases!Fault

LEMMA LapseEffect ==
  ASSUME LeaseBounds,
         Leases!TypeOK, Leases!Abandoned \/ Leases!Outlived
  PROVE  /\ record.state = "processing" /\ ~record.expired
         /\ record'.state = "processing" /\ record'.expired
         /\ record'.lease = record.lease
         /\ UNCHANGED <<request, effects, leaseFaults, doubts>>
<1>1. record \in Leases!Record /\ record' = [record EXCEPT !.expired = TRUE]
  BY DEF Leases!TypeOK, Leases!Abandoned, Leases!Outlived, Leases!Expires
<1>2. record'.state = record.state /\ record'.expired /\ record'.lease = record.lease
  BY <1>1 DEF Leases!Record
<1>. QED
  BY <1>2 DEF Leases!Abandoned, Leases!Outlived, Leases!Expires

LEMMA NextSettled ==
  ASSUME LeaseBounds
  PROVE  Leases!TypeOK /\ Settled /\ [Leases!Next]_(Leases!vars) => Settled'
<1>. SUFFICES ASSUME Leases!TypeOK, Settled, [Leases!Next]_(Leases!vars) PROVE Settled'
  OBVIOUS
<1>1. CASE \E c \in Calls : Leases!Request(c)
  BY <1>1, BecomeEffect
     DEF Leases!Request, Leases!GoTo, Leases!Keep, Settled, Leases!Holds, Leases!At
<1>2. CASE \E c \in Calls : Leases!Step(c)
  BY <1>2, StepSettled
<1>3. CASE \E c \in Calls : Leases!Fault(c)
  BY <1>3, FaultSettled
<1>4. CASE Leases!Abandoned \/ Leases!Outlived
  BY <1>4, LapseEffect DEF Settled
<1>5. CASE UNCHANGED Leases!vars
  BY <1>5 DEF Leases!vars, Settled, Leases!Holds, Leases!At
<1>. QED
  BY <1>1, <1>2, <1>3, <1>4, <1>5 DEF Leases!Next

-----------------------------------------------------------------------------
(* Answers: who was answered finds its answer in the row. *)
LEMMA StepAnswers ==
  ASSUME LeaseBounds,
         Leases!TypeOK, Settled, Leases!AnswersAreStored, NEW c \in Calls, Leases!Step(c)
  PROVE  Leases!AnswersAreStored'
<1>. USE DEF Leases!Keep, Leases!GoTo, Leases!AnswersAreStored
<1>. SUFFICES ASSUME doubts' = 0, NEW d \in Calls, Leases!At(d, "answered")'
              PROVE  (/\ record.state = "completed" /\ Leases!SamePayload(d)
                      /\ record.response = request[d].value)'
  OBVIOUS
<1>0. doubts = 0
  BY DEF Leases!Step, Leases!Select, Leases!Delete, Leases!Insert, Leases!Operate, Leases!Complete,
     Leases!Release, Leases!Poll, Leases!GiveUp
<1>1. CASE Leases!Select(c)
  BY <1>0, <1>1, BecomeEffect DEF Leases!Select, Leases!SamePayload, Leases!At
<1>2. CASE Leases!Delete(c)
  BY <1>0, <1>2, BecomeEffect DEF Leases!Delete, Settled, Leases!SamePayload, Leases!At
<1>3. CASE Leases!Insert(c)
  BY <1>0, <1>3, BecomeEffect DEF Leases!Insert, Leases!SamePayload, Leases!At
<1>4. CASE Leases!Operate(c)
  BY <1>0, <1>4, BecomeEffect DEF Leases!Operate, Leases!SamePayload, Leases!At
<1>5. CASE Leases!Complete(c)
  <2>1. CASE Leases!Holds(c)
    <3>1. record' = Leases!Stored(c) /\ Leases!Become(c, "answered", request[c].value)
      BY <1>5, <2>1 DEF Leases!Complete
    <3>2. record'.state = "completed" /\ record'.lease = c /\ record'.response = request[c].value
      BY <2>1, <3>1 DEF Leases!Stored, Leases!TypeOK, Leases!Record, Leases!Holds
    <3>3. request'[c].value = request[c].value
      BY <3>1, BecomeEffect
    <3>4. d = c
      BY <1>0, <1>5, <2>1, <3>1, BecomeEffect DEF Leases!Complete, Settled, Leases!At
    <3>. QED
      BY <3>2, <3>3, <3>4 DEF Leases!SamePayload
  <2>2. CASE ~Leases!Holds(c)
    BY <1>0, <1>5, <2>2, BecomeEffect DEF Leases!Complete, Leases!SamePayload, Leases!At
  <2>. QED
    BY <2>1, <2>2
<1>6. CASE Leases!Release(c)
  BY <1>0, <1>6, BecomeEffect
     DEF Leases!Release, Settled, Leases!SamePayload, Leases!Holds, Leases!At
<1>7. CASE Leases!Poll(c)
  BY <1>0, <1>7, BecomeEffect DEF Leases!Poll, Leases!SamePayload, Leases!At
<1>8. CASE Leases!GiveUp(c)
  BY <1>0, <1>8, BecomeEffect DEF Leases!GiveUp, Leases!SamePayload, Leases!At
<1>. QED
  BY <1>1, <1>2, <1>3, <1>4, <1>5, <1>6, <1>7, <1>8 DEF Leases!Step

LEMMA FaultAnswers ==
  ASSUME LeaseBounds,
         Leases!TypeOK, Leases!AnswersAreStored, NEW c \in Calls, Leases!Fault(c)
  PROVE  Leases!AnswersAreStored'
<1>. USE DEF Leases!GoTo, Leases!AnswersAreStored
<1>. SUFFICES ASSUME doubts' = 0, NEW d \in Calls, Leases!At(d, "answered")'
              PROVE  (/\ record.state = "completed" /\ Leases!SamePayload(d)
                      /\ record.response = request[d].value)'
  OBVIOUS
<1>1. CASE Leases!InsertDoubted(c) \/ Leases!CompleteDoubted(c)
  BY <1>1 DEF Leases!InsertDoubted, Leases!CompleteDoubted, Leases!TypeOK
<1>2. CASE Leases!OperationThrows(c)
  BY <1>2, BecomeEffect DEF Leases!OperationThrows, Leases!SamePayload, Leases!At
<1>3. CASE Leases!StatementFails(c)
  <2>1. PICK pc \in {"select", "release", "failed"} : Leases!Become(c, pc, 0)
    BY <1>3 DEF Leases!StatementFails
  <2>. QED
    BY <1>3, <2>1, BecomeEffect DEF Leases!StatementFails, Leases!SamePayload, Leases!At
<1>4. CASE Leases!LoseIsolate(c)
  BY <1>4, BecomeEffect DEF Leases!LoseIsolate, Leases!SamePayload, Leases!At
<1>. QED
  BY <1>1, <1>2, <1>3, <1>4 DEF Leases!Fault

LEMMA NextAnswers ==
  ASSUME LeaseBounds
  PROVE  Leases!TypeOK /\ Settled /\ Leases!AnswersAreStored
         /\ [Leases!Next]_(Leases!vars) => Leases!AnswersAreStored'
<1>. SUFFICES ASSUME Leases!TypeOK, Settled, Leases!AnswersAreStored,
                      [Leases!Next]_(Leases!vars)
             PROVE  Leases!AnswersAreStored'
  OBVIOUS
<1>1. CASE \E c \in Calls : Leases!Request(c)
  BY <1>1, BecomeEffect
     DEF Leases!Request, Leases!GoTo, Leases!Keep, Leases!AnswersAreStored, Leases!SamePayload,
         Leases!At
<1>2. CASE \E c \in Calls : Leases!Step(c)
  BY <1>2, StepAnswers
<1>3. CASE \E c \in Calls : Leases!Fault(c)
  BY <1>3, FaultAnswers
<1>4. CASE Leases!Abandoned \/ Leases!Outlived
  BY <1>4, LapseEffect DEF Leases!AnswersAreStored, Leases!At
<1>5. CASE UNCHANGED Leases!vars
  BY <1>5 DEF Leases!vars, Leases!AnswersAreStored, Leases!SamePayload, Leases!At
<1>. QED
  BY <1>1, <1>2, <1>3, <1>4, <1>5 DEF Leases!Next

(* Unless a completion was in doubt, the row keeps the answer of everyone  *)
(* who was given one (AnswersAreStored): neither a late completion nor a    *)
(* late release changes it (complete, release, waitForCompletion).          *)
THEOREM AnswersStored ==
  ASSUME LeaseBounds
  PROVE  Leases!Spec => []Leases!AnswersAreStored
<1>1. Leases!Init => Leases!AnswersAreStored
  BY DEF Leases!Init, Leases!AnswersAreStored, Leases!At
<1>2. Leases!Init => Leases!TypeOK /\ Settled
  BY InitType, InitSettled
<1>3. Leases!TypeOK /\ Settled /\ Leases!AnswersAreStored /\ [Leases!Next]_(Leases!vars)
        => Leases!TypeOK' /\ Settled' /\ Leases!AnswersAreStored'
  BY NextType, NextSettled, NextAnswers
<1>. QED
  BY <1>1, <1>2, <1>3, PTL DEF Leases!Spec

-----------------------------------------------------------------------------
(* Effects: an effect is paid for by the key that was free, a lease that   *)
(* was outlived, a fault or a doubt.  Calls about to operate have paid.    *)
Operating == {c \in Calls : Leases!At(c, "operate")}

(* Taken: whoever finds the row has to leave it alone, for good. *)
Taken ==
  \/ /\ record.state = "processing" /\ ~record.expired
     /\ \E c \in Calls : Leases!Holds(c) /\ request[c].pc \in {"operate", "complete"}
  \/ /\ record.state = "completed"
     /\ \A c \in Calls : Leases!Holds(c) => ~Leases!At(c, "release")
Free == IF Taken THEN 0 ELSE 1

Budget == effects + Cardinality(Operating) + Free <= 1 + outlived + leaseFaults + doubts

LEMMA OperatingType ==
  ASSUME LeaseBounds
  PROVE  Operating \in SUBSET Calls /\ IsFiniteSet(Operating) /\ Cardinality(Operating) \in Nat
BY FS_Subset, FS_CardinalityType DEF Operating

LEMMA OperatingKept ==
  ASSUME LeaseBounds,
         Leases!TypeOK, NEW c \in Calls, NEW pc, NEW v, Leases!Become(c, pc, v),
         pc # "operate", ~Leases!At(c, "operate")
  PROVE  Operating' = Operating
BY BecomeEffect DEF Operating, Leases!At

LEMMA OperatingGrows ==
  ASSUME LeaseBounds,
         Leases!TypeOK, NEW c \in Calls, NEW v, Leases!Become(c, "operate", v),
         ~Leases!At(c, "operate")
  PROVE  Cardinality(Operating') = Cardinality(Operating) + 1
<1>1. Operating' = Operating \cup {c} /\ c \notin Operating
  BY BecomeEffect DEF Operating, Leases!At
<1>. QED
  BY <1>1, OperatingType, FS_AddElement

LEMMA OperatingShrinks ==
  ASSUME LeaseBounds,
         Leases!TypeOK, NEW c \in Calls, NEW pc, NEW v, Leases!Become(c, pc, v),
         pc # "operate", Leases!At(c, "operate")
  PROVE  Cardinality(Operating') = Cardinality(Operating) - 1
<1>1. Operating' = Operating \ {c} /\ c \in Operating
  BY BecomeEffect DEF Operating, Leases!At
<1>. QED
  BY <1>1, OperatingType, FS_RemoveElement

(* A call that is not at work and does not come to be leaves Taken as it is. *)
LEMMA TakenKept ==
  ASSUME LeaseBounds,
         Leases!TypeOK, NEW c \in Calls, NEW pc, NEW v, Leases!Become(c, pc, v), UNCHANGED record,
         request[c].pc \notin Leases!HolderPC, pc \notin Leases!HolderPC
  PROVE  Taken' = Taken
BY BecomeEffect DEF Taken, Leases!Holds, Leases!At, Leases!HolderPC

LEMMA BudgetNumbers ==
  ASSUME LeaseBounds,
         Leases!TypeOK
  PROVE  /\ effects \in Nat /\ outlived \in Nat /\ leaseFaults \in Nat /\ doubts \in Nat
         /\ Cardinality(Operating) \in Nat
         /\ Free \in {0, 1}
BY OperatingType DEF Leases!TypeOK, Free

LEMMA StepBudget ==
  ASSUME LeaseBounds,
         Leases!TypeOK, Leases!TypeOK', Settled, Budget, NEW c \in Calls, Leases!Step(c)
  PROVE  Budget'
<1>. USE DEF Leases!Keep, Leases!GoTo
<1>0. /\ effects \in Nat /\ outlived \in Nat /\ leaseFaults \in Nat /\ doubts \in Nat
      /\ Cardinality(Operating) \in Nat /\ Free \in {0, 1} /\ Free' \in {0, 1}
  BY BudgetNumbers DEF Free
<1>1. CASE Leases!Select(c) \/ Leases!Poll(c) \/ Leases!GiveUp(c)
  <2>1. Operating' = Operating
    BY <1>1, OperatingKept DEF Leases!Select, Leases!Poll, Leases!GiveUp, Leases!At
  <2>2. Taken' = Taken
    BY <1>1, TakenKept DEF Leases!Select, Leases!Poll, Leases!GiveUp, Leases!At, Leases!HolderPC
  <2>. QED
    BY <1>1, <2>1, <2>2 DEF Budget, Free, Leases!Select, Leases!Poll, Leases!GiveUp
<1>2. CASE Leases!Delete(c)
  <2>1. Operating' = Operating
    BY <1>2, OperatingKept DEF Leases!Delete, Leases!At
  <2>2. CASE record.expired
    <3>1. Free = 1
      BY <2>2 DEF Free, Taken, Settled
    <3>. QED
      BY <1>0, <1>2, <2>1, <3>1 DEF Budget, Leases!Delete
  <2>3. CASE ~record.expired
    <3>1. Taken' = Taken
      BY <1>2, <2>3, TakenKept DEF Leases!Delete, Leases!At, Leases!HolderPC
    <3>. QED
      BY <1>2, <2>1, <3>1 DEF Budget, Free, Leases!Delete
  <2>. QED
    BY <2>2, <2>3
<1>3. CASE Leases!Insert(c)
  <2>1. CASE record.state = "none"
    <3>1. record' = Leases!Leased(c) /\ Leases!Become(c, "operate", 0) /\ ~Leases!At(c, "operate")
      BY <1>3, <2>1 DEF Leases!Insert, Leases!At
    <3>2. Free = 1
      BY <2>1 DEF Free, Taken
    <3>3. Free' = 0
      BY <3>1, BecomeEffect DEF Free, Taken, Leases!Leased, Leases!Holds
    <3>4. Cardinality(Operating') = Cardinality(Operating) + 1
      BY <3>1, OperatingGrows
    <3>. QED
      BY <1>0, <1>3, <3>2, <3>3, <3>4 DEF Budget, Leases!Insert
  <2>2. CASE record.state # "none"
    <3>1. Operating' = Operating
      BY <1>3, <2>2, OperatingKept DEF Leases!Insert, Leases!At
    <3>2. Taken' = Taken
      BY <1>3, <2>2, TakenKept DEF Leases!Insert, Leases!At, Leases!HolderPC
    <3>. QED
      BY <1>3, <3>1, <3>2 DEF Budget, Free, Leases!Insert
  <2>. QED
    BY <2>1, <2>2
<1>4. CASE Leases!Operate(c)
  <2>1. Cardinality(Operating') = Cardinality(Operating) - 1
    BY <1>4, OperatingShrinks DEF Leases!Operate
  <2>2. Taken' = Taken
    BY <1>4, BecomeEffect DEF Leases!Operate, Taken, Leases!Holds, Leases!At
  <2>. QED
    BY <1>0, <1>4, <2>1, <2>2 DEF Budget, Free, Leases!Operate
<1>5. CASE Leases!Complete(c)
  <2>1. Operating' = Operating
    BY <1>5, OperatingKept DEF Leases!Complete, Leases!At
  <2>2. CASE Leases!Holds(c)
    <3>1. record' = Leases!Stored(c) /\ Leases!Become(c, "answered", request[c].value)
      BY <1>5, <2>2 DEF Leases!Complete
    <3>2. record'.state = "completed" /\ record'.lease = c
      BY <2>2, <3>1 DEF Leases!Stored, Leases!TypeOK, Leases!Record, Leases!Holds
    <3>3. Free' = 0
      BY <3>1, <3>2, BecomeEffect DEF Free, Taken, Leases!Holds, Leases!At
    <3>. QED
      BY <1>0, <1>5, <2>1, <3>3 DEF Budget, Leases!Complete
  <2>3. CASE ~Leases!Holds(c)
    <3>1. Taken' = Taken
      BY <1>5, <2>3, BecomeEffect DEF Leases!Complete, Taken, Leases!Holds, Leases!At
    <3>. QED
      BY <1>5, <2>1, <3>1 DEF Budget, Free, Leases!Complete
  <2>. QED
    BY <2>2, <2>3
<1>6. CASE Leases!Release(c)
  <2>1. Operating' = Operating
    BY <1>6, OperatingKept DEF Leases!Release, Leases!At
  <2>2. CASE Leases!Holds(c)
    <3>1. Free = 1
      BY <1>6, <2>2 DEF Free, Taken, Leases!Release, Leases!Holds, Leases!At
    <3>. QED
      BY <1>0, <1>6, <2>1, <3>1 DEF Budget, Leases!Release
  <2>3. CASE ~Leases!Holds(c)
    <3>1. Taken' = Taken
      BY <1>6, <2>3, BecomeEffect DEF Leases!Release, Taken, Leases!Holds, Leases!At
    <3>. QED
      BY <1>6, <2>1, <3>1 DEF Budget, Free, Leases!Release
  <2>. QED
    BY <2>2, <2>3
<1>. QED
  BY <1>1, <1>2, <1>3, <1>4, <1>5, <1>6 DEF Leases!Step

LEMMA FaultBudget ==
  ASSUME LeaseBounds,
         Leases!TypeOK, Leases!TypeOK', Budget, NEW c \in Calls, Leases!Fault(c)
  PROVE  Budget'
<1>. USE DEF Leases!GoTo
<1>0. /\ effects \in Nat /\ outlived \in Nat /\ leaseFaults \in Nat /\ doubts \in Nat
      /\ Cardinality(Operating) \in Nat /\ Free \in {0, 1} /\ Free' \in {0, 1}
  BY BudgetNumbers DEF Free
<1>1. PICK pc \in {"select", "release", "failed"}, v \in {0} : Leases!Become(c, pc, v)
  BY DEF Leases!Fault, Leases!InsertDoubted, Leases!CompleteDoubted, Leases!OperationThrows,
     Leases!StatementFails, Leases!LoseIsolate
<1>2. Cardinality(Operating') \in Nat /\ Cardinality(Operating') <= Cardinality(Operating)
  <2>1. CASE Leases!At(c, "operate")
    <3>1. Cardinality(Operating') = Cardinality(Operating) - 1 /\ c \in Operating
      BY <1>1, <2>1, OperatingShrinks DEF Operating
    <3>2. Cardinality(Operating) # 0
      BY <3>1, OperatingType, FS_EmptySet
    <3>. QED
      BY <1>0, <3>1, <3>2
  <2>2. CASE ~Leases!At(c, "operate")
    BY <1>0, <1>1, <2>2, OperatingKept
  <2>. QED
    BY <2>1, <2>2
<1>3. effects' = effects /\ outlived' = outlived
  BY DEF Leases!Fault, Leases!InsertDoubted, Leases!CompleteDoubted, Leases!OperationThrows,
     Leases!StatementFails, Leases!LoseIsolate
<1>4. \/ leaseFaults' = leaseFaults + 1 /\ doubts' = doubts
      \/ leaseFaults' = leaseFaults /\ doubts' = doubts + 1
  BY DEF Leases!Fault, Leases!InsertDoubted, Leases!CompleteDoubted, Leases!OperationThrows,
     Leases!StatementFails, Leases!LoseIsolate
<1>. QED
  BY <1>0, <1>2, <1>3, <1>4 DEF Budget

LEMMA LapseBudget ==
  ASSUME LeaseBounds,
         Leases!TypeOK, Budget, Leases!Abandoned \/ Leases!Outlived
  PROVE  Budget'
<1>0. /\ effects \in Nat /\ outlived \in Nat /\ leaseFaults \in Nat /\ doubts \in Nat
      /\ Cardinality(Operating) \in Nat /\ Free \in {0, 1} /\ Free' \in {0, 1}
  BY BudgetNumbers DEF Free
<1>1. UNCHANGED <<request, effects, leaseFaults, doubts>> /\ record.state = "processing"
  BY LapseEffect
<1>2. Operating' = Operating
  BY <1>1 DEF Operating, Leases!At
<1>3. CASE Leases!Abandoned
  <2>1. Free = 1
    BY <1>1, <1>3 DEF Leases!Abandoned, Leases!AtWork, Free, Taken, Leases!HolderPC
  <2>. QED
    BY <1>0, <1>1, <1>2, <1>3, <2>1 DEF Budget, Leases!Abandoned
<1>4. CASE Leases!Outlived
  BY <1>0, <1>1, <1>2, <1>4 DEF Budget, Leases!Outlived
<1>. QED
  BY <1>3, <1>4

LEMMA InitBudget ==
  ASSUME LeaseBounds
  PROVE  Leases!Init => Budget
<1>. SUFFICES ASSUME Leases!Init PROVE Budget
  OBVIOUS
<1>1. Operating = {}
  BY DEF Leases!Init, Operating, Leases!At
<1>2. Cardinality(Operating) = 0
  BY <1>1, FS_EmptySet
<1>3. Free = 1
  BY DEF Leases!Init, Free, Taken, Leases!NoRecord
<1>. QED
  BY <1>2, <1>3 DEF Leases!Init, Budget

LEMMA NextBudget ==
  ASSUME LeaseBounds
  PROVE  Leases!TypeOK /\ Settled /\ Budget /\ [Leases!Next]_(Leases!vars) => Budget'
<1>. SUFFICES ASSUME Leases!TypeOK, Settled, Budget, [Leases!Next]_(Leases!vars) PROVE Budget'
  OBVIOUS
<1>0. Leases!TypeOK'
  BY NextType
<1>1. CASE \E c \in Calls : Leases!Request(c)
  <2>1. PICK c \in Calls : Leases!Request(c)
    BY <1>1
  <2>2. Operating' = Operating
    BY <2>1, OperatingKept DEF Leases!Request, Leases!GoTo, Leases!At
  <2>3. Taken' = Taken
    BY <2>1, TakenKept DEF Leases!Request, Leases!GoTo, Leases!At, Leases!HolderPC
  <2>. QED
    BY <2>1, <2>2, <2>3 DEF Budget, Free, Leases!Request, Leases!Keep
<1>2. CASE \E c \in Calls : Leases!Step(c)
  BY <1>0, <1>2, StepBudget
<1>3. CASE \E c \in Calls : Leases!Fault(c)
  BY <1>0, <1>3, FaultBudget
<1>4. CASE Leases!Abandoned \/ Leases!Outlived
  BY <1>4, LapseBudget
<1>5. CASE UNCHANGED Leases!vars
  <2>1. Operating' = Operating /\ Free' = Free
    BY <1>5 DEF Leases!vars, Operating, Free, Taken, Leases!Holds, Leases!At
  <2>. QED
    BY <1>5, <2>1 DEF Leases!vars, Budget
<1>. QED
  BY <1>1, <1>2, <1>3, <1>4, <1>5 DEF Leases!Next

(* The operation takes effect once for the key, and once more at most for  *)
(* every lease that was outlived, every fault and every doubt (ActsOnce),   *)
(* for any number of calls: begin's SELECT, DELETE and INSERT, complete and *)
(* release never let a second call in on a key that is taken.               *)
THEOREM EffectsBounded ==
  ASSUME LeaseBounds
  PROVE  Leases!Spec => []Leases!ActsOnce
<1>1. Leases!Init => Leases!TypeOK /\ Settled /\ Budget
  BY InitType, InitSettled, InitBudget
<1>2. Leases!TypeOK /\ Settled /\ Budget /\ [Leases!Next]_(Leases!vars) => Leases!TypeOK'
      /\ Settled' /\ Budget'
  BY NextType, NextSettled, NextBudget
<1>3. Leases!TypeOK /\ Budget => Leases!ActsOnce
  BY BudgetNumbers DEF Budget, Leases!ActsOnce
<1>. QED
  BY <1>1, <1>2, <1>3, PTL DEF Leases!Spec

=============================================================================
