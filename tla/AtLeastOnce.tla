------------------------------ MODULE AtLeastOnce ------------------------------
(***************************************************************************)
(* What the outbox promises the code that publishes a job, whatever the    *)
(* queue, the isolates and the clock do: a job is tried under numbered     *)
(* claims, each claim spends at most one side effect, a job is reported    *)
(* delivered only after an effect, unless the reason for it has lapsed     *)
(* before, and it ends once.                                               *)
(***************************************************************************)
EXTENDS Integers

CONSTANT Jobs

VARIABLES
  phase,      \* "none", "open", "delivered" or "dead"
  claims,     \* claims granted
  superseded, \* jobs that no longer have a reason
  effects     \* side effects performed

vars == <<phase, claims, superseded, effects>>

Init ==
  /\ phase = [j \in Jobs |-> "none"]
  /\ claims = [j \in Jobs |-> 0]
  /\ superseded = {}
  /\ effects = [j \in Jobs |-> 0]

Submit(j) ==
  /\ phase[j] = "none"
  /\ phase' = [phase EXCEPT ![j] = "open"]
  /\ UNCHANGED <<claims, superseded, effects>>

Claim(j) ==
  /\ phase[j] = "open"
  /\ claims' = [claims EXCEPT ![j] = @ + 1]
  /\ UNCHANGED <<phase, superseded, effects>>

Lapse(j) ==
  /\ superseded' = superseded \cup {j}
  /\ UNCHANGED <<phase, claims, effects>>

(* An isolate that is overtaken may still perform the effect of its claim, *)
(* even after the job ended.                                               *)
Perform(j) ==
  /\ effects[j] < claims[j]
  /\ effects' = [effects EXCEPT ![j] = @ + 1]
  /\ UNCHANGED <<phase, claims, superseded>>

Deliver(j) ==
  /\ phase[j] = "open"
  /\ effects[j] > 0 \/ j \in superseded
  /\ phase' = [phase EXCEPT ![j] = "delivered"]
  /\ UNCHANGED <<claims, superseded, effects>>

GiveUp(j) ==
  /\ phase[j] = "open"
  /\ claims[j] > 0
  /\ phase' = [phase EXCEPT ![j] = "dead"]
  /\ UNCHANGED <<claims, superseded, effects>>

Next ==
  \E j \in Jobs :
    Submit(j) \/ Claim(j) \/ Lapse(j) \/ Perform(j) \/ Deliver(j) \/ GiveUp(j)

Spec == Init /\ [][Next]_vars
=============================================================================
