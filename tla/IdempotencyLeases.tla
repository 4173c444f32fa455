--------------------------- MODULE IdempotencyLeases --------------------------
(***************************************************************************)
(* One idempotency key.  Calls with the key share a row of                 *)
(* idempotency_records: the call whose INSERT succeeds holds a lease, runs *)
(* the operation and stores its answer; the others wait for the answer, or *)
(* are refused because their payload is another one.  A lease that ran out *)
(* is taken over while its holder may still be at work.  One step is one   *)
(* D1 statement or the operation.                                          *)
(***************************************************************************)
EXTENDS Integers, FiniteSets

CONSTANTS
  Calls,      \* requests with this key
  NoCall,     \* no lease
  PrintOf,    \* request_digest, by call
  MaxLapses,  \* bound: leases that run out while their holder is at work
  MaxFaults,  \* bound: operations that throw, statements that fail, isolates lost
  MaxDoubts   \* bound: statements that are applied and reported to have failed

ASSUME CallAssumption == IsFiniteSet(Calls) /\ NoCall \notin Calls
ASSUME BoundAssumption == MaxLapses \in Nat /\ MaxFaults \in Nat /\ MaxDoubts \in Nat

VARIABLES
  record,    \* the row, with whether its lease has expired
  call,      \* where each call is; the value it holds or was answered
  effects,   \* times the operation took effect (history)
  lapses, faults, doubts

vars == <<record, call, effects, lapses, faults, doubts>>

Record == [state : {"none", "processing", "completed"}, lease : Calls \cup {NoCall},
           response : Nat, expired : BOOLEAN]
NoRecord == [state |-> "none", lease |-> NoCall, response |-> 0, expired |-> FALSE]
HolderPC == {"operate", "complete", "release"}
RunningPC == {"select", "delete", "insert", "waiting"} \cup HolderPC
Call == [pc : {"new", "answered", "conflict", "failed"} \cup RunningPC, value : Nat]

TypeOK ==
  /\ record \in Record
  /\ call \in [Calls -> Call]
  /\ effects \in Nat
  /\ lapses \in 0 .. MaxLapses /\ faults \in 0 .. MaxFaults /\ doubts \in 0 .. MaxDoubts

Init ==
  /\ record = NoRecord
  /\ call = [c \in Calls |-> [pc |-> "new", value |-> 0]]
  /\ effects = 0 /\ lapses = 0 /\ faults = 0 /\ doubts = 0

At(c, pc) == call[c].pc = pc
Become(c, pc, value) == call' = [call EXCEPT ![c] = [pc |-> pc, value |-> value]]
GoTo(c, pc) == Become(c, pc, 0)
Keep == UNCHANGED <<effects, lapses, faults, doubts>>

(* Mutant: the row is taken for one's own by its payload, not by its lease. *)
HoldsByPrint(c) == record.state # "none" /\ PrintOf[record.lease] = PrintOf[c]

(* The WHERE clause of complete and release.  A lease has one payload. *)
Holds(c) == record.lease = c

SamePayload(c) == PrintOf[record.lease] = PrintOf[c]

-----------------------------------------------------------------------------
(* A client sends its request; one that got no answer sends it again. *)
Request(c) ==
  /\ call[c].pc \in {"new", "failed"}
  /\ GoTo(c, "select")
  /\ UNCHANGED record /\ Keep

(* Mutant: a row that is being processed is waited for, whatever its age. *)
SelectAgeless(c) ==
  /\ At(c, "select")
  /\ \/ record.state = "none" /\ GoTo(c, "insert")
     \/ /\ record.state # "none"
        /\ \/ ~SamePayload(c) /\ GoTo(c, "conflict")
           \/ SamePayload(c) /\ record.state = "processing" /\ GoTo(c, "waiting")
           \/ SamePayload(c) /\ record.state = "completed" /\ Become(c, "answered", record.response)
  /\ UNCHANGED record /\ Keep

(* begin reads the row: nobody has it, its lease is over, or it counts. *)
Select(c) ==
  /\ At(c, "select")
  /\ \/ record.state = "none" /\ GoTo(c, "insert")
     \/ record.expired /\ GoTo(c, "delete")
     \/ /\ record.state # "none" /\ ~record.expired
        /\ \/ ~SamePayload(c) /\ GoTo(c, "conflict")
           \/ SamePayload(c) /\ record.state = "processing" /\ GoTo(c, "waiting")
           \/ SamePayload(c) /\ record.state = "completed" /\ Become(c, "answered", record.response)
  /\ UNCHANGED record /\ Keep

(* Mutant: the row that was read is deleted, whatever became of it. *)
DeleteBlindly(c) ==
  /\ At(c, "delete")
  /\ record' = NoRecord
  /\ GoTo(c, "insert") /\ Keep

(* The DELETE compares expires_at with the time begin has read.  A row that *)
(* ran out since then the code deletes only after another look; that look   *)
(* is left out.                                                             *)
Delete(c) ==
  /\ At(c, "delete")
  /\ record' = IF record.expired THEN NoRecord ELSE record
  /\ GoTo(c, "insert") /\ Keep

Leased(c) == [state |-> "processing", lease |-> c, response |-> 0, expired |-> FALSE]

(* The primary key admits one row.  Any failure leads back to begin. *)
Insert(c) ==
  /\ At(c, "insert")
  /\ \/ record.state = "none" /\ record' = Leased(c) /\ GoTo(c, "operate")
     \/ record.state # "none" /\ UNCHANGED record /\ GoTo(c, "select")
  /\ Keep

InsertDoubted(c) ==
  /\ At(c, "insert") /\ record.state = "none" /\ doubts < MaxDoubts
  /\ record' = Leased(c) /\ GoTo(c, "select")
  /\ doubts' = doubts + 1
  /\ UNCHANGED <<effects, lapses, faults>>

-----------------------------------------------------------------------------
Operate(c) ==
  /\ At(c, "operate")
  /\ effects' = effects + 1
  /\ Become(c, "complete", effects')
  /\ UNCHANGED <<record, lapses, faults, doubts>>

(* The lease is compared, not its expiry: a holder that is late completes  *)
(* if nobody has taken the row.                                            *)
Stored(c) == [record EXCEPT !.state = "completed", !.response = call[c].value, !.expired = FALSE]

Complete(c) ==
  /\ At(c, "complete")
  /\ \/ Holds(c) /\ record' = Stored(c) /\ Become(c, "answered", call[c].value)
     \/ ~Holds(c) /\ UNCHANGED record /\ GoTo(c, "release")
  /\ Keep

CompleteDoubted(c) ==
  /\ At(c, "complete") /\ Holds(c) /\ doubts < MaxDoubts
  /\ record' = Stored(c) /\ GoTo(c, "release")
  /\ doubts' = doubts + 1
  /\ UNCHANGED <<effects, lapses, faults>>

(* After an operation that threw or a completion that failed. *)
Release(c) ==
  /\ At(c, "release")
  /\ record' = IF Holds(c) THEN NoRecord ELSE record
  /\ GoTo(c, "failed") /\ Keep

(* waitForCompletion: the row is read until it has an answer ... *)
Poll(c) ==
  /\ At(c, "waiting")
  /\ \/ record.state = "none" /\ GoTo(c, "failed")
     \/ /\ record.state # "none"
        /\ \/ ~SamePayload(c) /\ GoTo(c, "conflict")
           \/ SamePayload(c) /\ record.state = "completed" /\ Become(c, "answered", record.response)
  /\ UNCHANGED record /\ Keep

(* ... at most a hundred times, which is shorter than a lease. *)
GiveUp(c) ==
  /\ At(c, "waiting") /\ record.state = "processing" /\ SamePayload(c)
  /\ GoTo(c, "failed")
  /\ UNCHANGED record /\ Keep

-----------------------------------------------------------------------------
(* The operation throws before it took effect. *)
OperationThrows(c) ==
  /\ At(c, "operate") /\ faults < MaxFaults
  /\ faults' = faults + 1
  /\ GoTo(c, "release")
  /\ UNCHANGED <<record, effects, lapses, doubts>>

(* A statement fails and changes nothing. *)
StatementFails(c) ==
  /\ call[c].pc \in RunningPC \ {"operate"} /\ faults < MaxFaults
  /\ faults' = faults + 1
  /\ GoTo(c, CASE At(c, "insert") -> "select" [] At(c, "complete") -> "release" [] OTHER -> "failed")
  /\ UNCHANGED <<record, effects, lapses, doubts>>

(* The isolate of the call is lost, or the client no longer hears from it. *)
LoseIsolate(c) ==
  /\ call[c].pc \in RunningPC /\ faults < MaxFaults
  /\ faults' = faults + 1
  /\ GoTo(c, "failed")
  /\ UNCHANGED <<record, effects, lapses, doubts>>

(* Thirty seconds pass: with nobody at work under the lease, or with. *)
AtWork == \E c \in Calls : Holds(c) /\ call[c].pc \in HolderPC
Expires ==
  /\ record.state = "processing" /\ ~record.expired
  /\ record' = [record EXCEPT !.expired = TRUE]
  /\ UNCHANGED <<call, effects, faults, doubts>>

Abandoned == ~AtWork /\ Expires /\ UNCHANGED lapses
Outlived == AtWork /\ lapses < MaxLapses /\ Expires /\ lapses' = lapses + 1

Step(c) ==
  \/ Select(c) \/ Delete(c) \/ Insert(c) \/ Operate(c) \/ Complete(c) \/ Release(c)
  \/ Poll(c) \/ GiveUp(c)

Fault(c) ==
  \/ InsertDoubted(c) \/ CompleteDoubted(c)
  \/ OperationThrows(c) \/ StatementFails(c) \/ LoseIsolate(c)

Next ==
  \/ \E c \in Calls : Request(c) \/ Step(c) \/ Fault(c)
  \/ Abandoned \/ Outlived

Spec == Init /\ [][Next]_vars

(* Isolates run on, an abandoned lease runs out, a client whose request     *)
(* failed sends it again.                                                   *)
Fairness ==
  /\ \A c \in Calls : WF_vars(Step(c)) /\ WF_vars(At(c, "failed") /\ Request(c))
  /\ WF_vars(Abandoned)

FairSpec == Spec /\ Fairness

-----------------------------------------------------------------------------
Ended(c) == call[c].pc \in {"answered", "conflict"}

(* The operation takes effect once for the key, and once more at most for  *)
(* every lease that its holder outlived and every completion that a fault  *)
(* prevented: two calls that find the key free, or its lease over, never   *)
(* both run it (begin's DELETE and INSERT, release).                       *)
ActsOnce == effects <= 1 + lapses + faults + doubts

(* Who is answered is given what the row stores for this payload, for good: *)
(* neither a holder that completes late nor one that releases late changes  *)
(* it, so all calls have one answer.  A completion that was applied and     *)
(* reported to have failed is released, and this no longer holds (complete, *)
(* release, waitForCompletion; setup.md:126).                               *)
AnswersAreStored ==
  doubts = 0 => \A c \in Calls : At(c, "answered") =>
    record.state = "completed" /\ SamePayload(c) /\ record.response = call[c].value

(* A client that repeats its request is answered or refused at last,        *)
(* whatever was lost: no fault leaves a row that no call takes over.        *)
RequestsEnd == \A c \in Calls : At(c, "select") ~> Ended(c)
=============================================================================
