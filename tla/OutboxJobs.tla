------------------------------ MODULE OutboxJobs ------------------------------
(***************************************************************************)
(* The row of the D1 table outbox_jobs and the conditional UPDATEs that    *)
(* D1OutboxJobRepository runs on it.  A row is a value; a module that owns *)
(* rows keeps them in a variable and uses the operators below as the       *)
(* guards and the new values of its actions.  Time is a natural number of  *)
(* ticks, the same for every isolate.                                      *)
(***************************************************************************)
EXTENDS Integers

CONSTANTS
  Workers,      \* consumer isolates; a worker is also its lease_owner
  NoWorker,     \* lease_owner IS NULL
  Lease,        \* DEFAULT_LEASE_MS
  BaseDelay,    \* DEFAULT_BASE_RETRY_DELAY_MS
  MaxDelay,     \* DEFAULT_MAX_RETRY_DELAY_MS
  MaxAttempts   \* DEFAULT_MAX_ATTEMPTS

ASSUME NoWorkerAssumption == NoWorker \notin Workers
ASSUME TimingAssumption ==
  /\ Lease \in Nat \ {0}
  /\ BaseDelay \in Nat \ {0}
  /\ MaxDelay \in Nat
  /\ BaseDelay <= MaxDelay
ASSUME AttemptsAssumption == MaxAttempts \in Nat \ {0}

(* lease_expires_at IS NULL: time 0 is never later than the reader's now, so *)
(* "NULL or <= now" is "<= now".                                             *)
NoLease == 0

OpenStates == {"pending", "queued", "processing"}
TerminalStates == {"delivered", "failed", "dead-letter"}

(* "absent" stands for a row that was not inserted yet. *)
Row == [state : OpenStates \cup TerminalStates \cup {"absent"},
        attempts : Nat,
        availableAt : Nat,
        owner : Workers \cup {NoWorker},
        leaseUntil : Nat]

AbsentRow == [state |-> "absent", attempts |-> 0, availableAt |-> 0,
              owner |-> NoWorker, leaseUntil |-> NoLease]

PendingRow(now) == [AbsentRow EXCEPT !.state = "pending", !.availableAt = now]

(* Mutant: a leased row is taken for a finished one. *)
LeasedIsCompleted(row, now) ==
  CASE row.state = "absent" -> "missing"
    [] row.state \in {"delivered", "failed"} -> "completed"
    [] row.state = "dead-letter" -> "dead_lettered"
    [] row.state \in {"pending", "queued"} /\ row.availableAt > now -> "not_due"
    [] row.state = "processing" /\ row.leaseUntil > now -> "completed"
    [] OTHER -> "try"

(* What claim() returns on the strength of its SELECT alone; "try" goes on *)
(* to the conditional UPDATE.                                              *)
ReadOutcome(row, now) ==
  CASE row.state = "absent" -> "missing"
    [] row.state \in {"delivered", "failed"} -> "completed"
    [] row.state = "dead-letter" -> "dead_lettered"
    [] row.state \in {"pending", "queued"} /\ row.availableAt > now -> "not_due"
    [] row.state = "processing" /\ row.leaseUntil > now -> "busy"
    [] OTHER -> "try"

(* Mutants of the WHERE clause: without the schedule, without the lease, and *)
(* without the states it claims from.                                        *)
ClaimableEarly(row, now) ==
  \/ row.state \in {"pending", "queued"}
  \/ row.state = "processing" /\ row.leaseUntil <= now

ClaimableLeased(row, now) ==
  \/ row.state \in {"pending", "queued"} /\ row.availableAt <= now
  \/ row.state = "processing"

ClaimableSettled(row, now) ==
  \/ row.state # "processing" /\ row.availableAt <= now
  \/ row.state = "processing" /\ row.leaseUntil <= now

(* The WHERE clause of the claiming UPDATE. *)
Claimable(row, now) ==
  \/ row.state \in {"pending", "queued"} /\ row.availableAt <= now
  \/ row.state = "processing" /\ row.leaseUntil <= now

(* Its SET clause.  The lease runs from the caller's now, not from the time *)
(* of the UPDATE.                                                           *)
Claimed(row, w, now) ==
  [row EXCEPT !.state = "processing", !.attempts = @ + 1,
              !.owner = w, !.leaseUntil = now + Lease]

(* The fence of markDelivered, markRetry and markFailed. *)
HeldBy(row, w, attempt) ==
  row.state = "processing" /\ row.attempts = attempt /\ row.owner = w

Released(row, state) ==
  [row EXCEPT !.state = state, !.owner = NoWorker, !.leaseUntil = NoLease]

(* retryDelayMs without a Retry-After: base * 2 ^ (attempt - 1), capped. *)
Backoff(attempt) ==
  IF BaseDelay * 2 ^ (attempt - 1) \in BaseDelay .. MaxDelay
    THEN BaseDelay * 2 ^ (attempt - 1)
    ELSE MaxDelay

(* retryDelayMs with whatever Retry-After the failing adapter reported. *)
RetryDelays(attempt) == Backoff(attempt) .. MaxDelay
=============================================================================
