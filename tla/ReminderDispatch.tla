---------------------------- MODULE ReminderDispatch ---------------------------
(***************************************************************************)
(* The reminders of one event.  A run (executeReminderRun) goes through    *)
(* the candidates of its audience: it inserts a dispatch for each, writes  *)
(* a row of the outbox, wakes the queue and marks the dispatch queued.     *)
(* The consumer sends the mail and records what became of it in the        *)
(* dispatch.  Dispatches are read and written whole, and no UPDATE         *)
(* compares anything: what orders the two writers is the table of          *)
(* transitions.  Cron also wakes rows that are still pending.              *)
(*                                                                         *)
(* The key of a dispatch names the trigger, so that one instance is about  *)
(* one kind of run: the hourly ones, of which there is one at a time, or   *)
(* those of organizers, which may overlap.  Within a cadence window the    *)
(* key of a candidate stays the same from run to run.  The row of the run  *)
(* itself, its state and its counters, is left out: no step of this module *)
(* reads it.  One step is one statement, queue call or provider call.      *)
(***************************************************************************)
EXTENDS Integers, FiniteSets

CONSTANTS
  Executors,    \* calls of executeReminderRun that may overlap
  Candidates,   \* recipients and subjects, in one cadence window
  Unfit,        \* candidates without an address, or not eligible
  NoCandidate,
  MaxAttempts,  \* DEFAULT_MAX_ATTEMPTS
  MaxClaims,    \* claims after which the queue's max_retries are spent
  MaxFaults     \* bound: statements and calls that fail, processes that are lost

ASSUME CandidateAssumption ==
  IsFiniteSet(Candidates) /\ Unfit \subseteq Candidates /\ NoCandidate \notin Candidates
ASSUME LimitAssumption ==
  /\ MaxAttempts \in Nat \ {0} /\ MaxClaims \in Nat /\ MaxAttempts <= MaxClaims
  /\ MaxFaults \in Nat

VARIABLES
  dispatch,  \* status of the dispatch of each candidate
  row,       \* its job in the outbox
  message,   \* candidates whose job has a message in the queue
  executor,  \* where each run is, and the dispatch it works on
  sweep,     \* the rows that cron still has to wake
  worker,    \* where the isolate with a candidate's job is
  mailed,    \* candidates whose mail the provider accepted (history)
  contended, \* dispatches taken up after a failed enqueue, or by two runs (history)
  faults

vars == <<dispatch, row, message, executor, sweep, worker, mailed, contended, faults>>

(* "unqueued" is failed with the failure's stage "enqueue" and without a *)
(* provider's message id: what the code calls recoverable.               *)
Statuses == {"none", "candidate", "eligible", "skipped", "queued", "unqueued",
             "provider_accepted", "failed"}
Row == [state : {"none", "pending", "queued", "processing", "delivered", "failed"},
        attempts : 0 .. MaxClaims]
OnePC == {"insert", "decide", "row", "read", "send", "mark", "queued", "failed"}
Executor == [pc : {"idle", "next"} \cup OnePC, todo : SUBSET Candidates,
             on : Candidates \cup {NoCandidate}]
Sweep == [todo : SUBSET Candidates, on : Candidates \cup {NoCandidate}]
WorkerPC == {"idle", "send", "accept", "accepted", "settle", "retry", "fail", "failed", "giveUp"}

Idle == [pc |-> "idle", todo |-> {}, on |-> NoCandidate]
NoSweep == [todo |-> {}, on |-> NoCandidate]

TypeOK ==
  /\ dispatch \in [Candidates -> Statuses]
  /\ row \in [Candidates -> Row]
  /\ message \subseteq Candidates
  /\ executor \in [Executors -> Executor]
  /\ sweep \in Sweep
  /\ worker \in [Candidates -> WorkerPC]
  /\ mailed \subseteq Candidates /\ contended \subseteq Candidates
  /\ faults \in 0 .. MaxFaults

Init ==
  /\ dispatch = [c \in Candidates |-> "none"]
  /\ row = [c \in Candidates |-> [state |-> "none", attempts |-> 0]]
  /\ message = {} /\ mailed = {} /\ contended = {} /\ faults = 0
  /\ executor = [e \in Executors |-> Idle]
  /\ sweep = NoSweep
  /\ worker = [c \in Candidates |-> "idle"]

WriteDispatch(c, status) == dispatch' = [dispatch EXCEPT ![c] = status]
RowState(c, state) == row' = [row EXCEPT ![c].state = state]
Fault == faults < MaxFaults /\ faults' = faults + 1

-----------------------------------------------------------------------------
(* A run. *)

At(e, pc, c) == executor[e].pc = pc /\ executor[e].on = c
GoOn(e, pc) == executor' = [executor EXCEPT ![e].pc = pc]
Skip(e, c) ==
  executor' = [executor EXCEPT ![e] =
                 [pc |-> "next", todo |-> executor[e].todo \ {c}, on |-> NoCandidate]]
Hold(e, pc, c) ==
  executor' = [executor EXCEPT ![e] = [pc |-> pc, todo |-> executor[e].todo, on |-> c]]

OnlyRuns == UNCHANGED <<sweep, worker, mailed>>

(* A run lists its candidates.  Its audience is the same within the window. *)
Start(e) ==
  /\ executor[e] = Idle
  /\ executor' = [executor EXCEPT ![e] =
                    [pc |-> "next", todo |-> Candidates, on |-> NoCandidate]]
  /\ UNCHANGED <<dispatch, row, message, contended, faults>> /\ OnlyRuns

(* Mutant: a dispatch that is eligible is taken for one that was queued. *)
RecoverableFresh(status) == status \in {"candidate", "unqueued"}

(* What a run takes up of an earlier one, or of another. *)
Recoverable(status) == status \in {"candidate", "eligible", "unqueued"}

TakeUp(e, c) ==
  IF Recoverable(dispatch[c])
    THEN /\ Hold(e, IF dispatch[c] = "candidate" THEN "decide" ELSE "row", c)
         /\ contended' =
              IF dispatch[c] = "unqueued" \/ \E f \in Executors \ {e} : executor[f].on = c
                THEN contended \cup {c} ELSE contended
    ELSE Skip(e, c) /\ UNCHANGED contended

Find(e) ==
  /\ executor[e].pc = "next"
  /\ \E c \in executor[e].todo :
       \/ dispatch[c] # "none" /\ TakeUp(e, c)
       \/ dispatch[c] = "none" /\ Hold(e, "insert", c) /\ UNCHANGED contended
  /\ UNCHANGED <<dispatch, row, message, faults>> /\ OnlyRuns

(* The key is unique; a second INSERT fails and its run looks again. *)
Insert(e, c) ==
  /\ At(e, "insert", c)
  /\ \/ dispatch[c] = "none" /\ WriteDispatch(c, "candidate")
        /\ Hold(e, "decide", c) /\ UNCHANGED contended
     \/ dispatch[c] # "none" /\ TakeUp(e, c) /\ UNCHANGED dispatch
  /\ UNCHANGED <<row, message, faults>> /\ OnlyRuns

Decide(e, c) ==
  /\ At(e, "decide", c)
  /\ \/ c \in Unfit /\ WriteDispatch(c, "skipped") /\ Skip(e, c)
     \/ c \notin Unfit /\ WriteDispatch(c, "eligible") /\ Hold(e, "row", c)
  /\ UNCHANGED <<row, message, contended, faults>> /\ OnlyRuns

(* enqueue: INSERT .. ON CONFLICT DO NOTHING, and a look at what is there. *)
InsertRow(e, c) ==
  /\ At(e, "row", c)
  /\ row' = IF row[c].state = "none" THEN [row EXCEPT ![c].state = "pending"] ELSE row
  /\ GoOn(e, "read")
  /\ UNCHANGED <<dispatch, message, contended, faults>> /\ OnlyRuns

ReadRow(e, c) ==
  /\ At(e, "read", c)
  /\ GoOn(e, IF row[c].state = "pending" THEN "send" ELSE "queued")
  /\ UNCHANGED <<dispatch, row, message, contended, faults>> /\ OnlyRuns

Send(e, c) ==
  /\ At(e, "send", c)
  /\ message' = message \cup {c}
  /\ GoOn(e, "mark")
  /\ UNCHANGED <<dispatch, row, contended, faults>> /\ OnlyRuns

(* The UPDATE that marks a row, in enqueue and in the sweep. *)
MarkRow(c) == IF row[c].state = "pending" THEN RowState(c, "queued") ELSE UNCHANGED row

Mark(e, c) ==
  /\ At(e, "mark", c)
  /\ MarkRow(c)
  /\ GoOn(e, "queued")
  /\ UNCHANGED <<dispatch, message, contended, faults>> /\ OnlyRuns

(* The copy is written back, whatever became of the dispatch meanwhile. *)
WriteQueued(e, c) ==
  /\ At(e, "queued", c)
  /\ WriteDispatch(c, "queued")
  /\ Skip(e, c)
  /\ UNCHANGED <<row, message, contended, faults>> /\ OnlyRuns

(* A failure of enqueue, or of the write after it, is caught and recorded. *)
EnqueueFails(e, c) ==
  /\ executor[e].on = c /\ executor[e].pc \in {"row", "read", "send", "mark", "queued"}
  /\ Fault
  /\ GoOn(e, "failed")
  /\ UNCHANGED <<dispatch, row, message, contended>> /\ OnlyRuns

WriteUnqueued(e, c) ==
  /\ At(e, "failed", c)
  /\ WriteDispatch(c, "unqueued")
  /\ Skip(e, c)
  /\ UNCHANGED <<row, message, contended, faults>> /\ OnlyRuns

Finish(e) ==
  /\ executor[e].pc = "next" /\ executor[e].todo = {}
  /\ executor' = [executor EXCEPT ![e] = Idle]
  /\ UNCHANGED <<dispatch, row, message, contended, faults>> /\ OnlyRuns

(* Any other failure ends the call, and its process may be lost. *)
LoseExecutor(e) ==
  /\ executor[e].pc # "idle"
  /\ Fault
  /\ executor' = [executor EXCEPT ![e] = Idle]
  /\ UNCHANGED <<dispatch, row, message, contended>> /\ OnlyRuns

ExecutorStep(e) ==
  \/ Find(e) \/ Finish(e)
  \/ \E c \in Candidates :
       \/ Insert(e, c) \/ Decide(e, c) \/ InsertRow(e, c) \/ ReadRow(e, c)
       \/ Send(e, c) \/ Mark(e, c) \/ WriteQueued(e, c) \/ WriteUnqueued(e, c)

-----------------------------------------------------------------------------
(* requeuePending, every hour.  What fails is left to the next hour. *)

OnlySweep == UNCHANGED <<dispatch, executor, worker, mailed, contended>>

SweepSelect ==
  /\ sweep = NoSweep
  /\ sweep' = [sweep EXCEPT !.todo = {c \in Candidates : row[c].state = "pending"}]
  /\ UNCHANGED <<row, message, faults>> /\ OnlySweep

SweepSend ==
  /\ sweep.on = NoCandidate
  /\ \E c \in sweep.todo :
       /\ message' = message \cup {c}
       /\ sweep' = [sweep EXCEPT !.on = c]
  /\ UNCHANGED <<row, faults>> /\ OnlySweep

SweepMark ==
  /\ sweep.on # NoCandidate
  /\ MarkRow(sweep.on)
  /\ sweep' = [todo |-> sweep.todo \ {sweep.on}, on |-> NoCandidate]
  /\ UNCHANGED <<message, faults>> /\ OnlySweep

SweepFails ==
  /\ sweep # NoSweep
  /\ Fault
  /\ sweep' = NoSweep
  /\ UNCHANGED <<row, message>> /\ OnlySweep

SweepStep == SweepSelect \/ SweepSend \/ SweepMark

-----------------------------------------------------------------------------
(* The consumer.  Isolates that outlive their lease are the subject of      *)
(* OutboxConsumer: here a row that is being processed is claimed again once *)
(* nobody works on it.                                                      *)

OnlyWorkers == UNCHANGED <<executor, sweep, contended>>
Become(c, pc) == worker' = [worker EXCEPT ![c] = pc]

Receive(c) ==
  /\ c \in message /\ worker[c] = "idle" /\ row[c].attempts < MaxClaims
  /\ row[c].state \in {"pending", "queued", "processing"}
  /\ row' = [row EXCEPT ![c] = [state |-> "processing", attempts |-> @.attempts + 1]]
  /\ Become(c, "send")
  /\ UNCHANGED <<dispatch, message, mailed, faults>> /\ OnlyWorkers

(* A message whose row has ended is acknowledged; one that was retried too *)
(* often goes to the dead-letter queue.                                    *)
Dismiss(c) ==
  /\ c \in message /\ worker[c] = "idle"
  /\ row[c].state \in {"delivered", "failed"} \/ row[c].attempts = MaxClaims
  /\ message' = message \ {c}
  /\ UNCHANGED <<dispatch, row, worker, mailed, faults>> /\ OnlyWorkers

Exhausted(c) == row[c].attempts >= MaxAttempts
FailRetryably(c) == Become(c, IF Exhausted(c) THEN "fail" ELSE "retry")

(* The provider acts once for a key, however often it is called with it. *)
Deliver(c) ==
  /\ worker[c] = "send"
  /\ \/ mailed' = mailed \cup {c} /\ Become(c, "accept")
     \/ UNCHANGED mailed /\ (FailRetryably(c) \/ Become(c, "fail"))
  /\ UNCHANGED <<dispatch, row, message, faults>> /\ OnlyWorkers

(* Mutant: a dispatch that was not marked queued yet accepts a report. *)
ValidTransitionEarly(from, to) ==
  \/ from \in {"eligible", "queued"} /\ to \in {"provider_accepted", "failed"}
  \/ from = "unqueued" /\ to \in {"provider_accepted", "failed"}
  \/ from = "provider_accepted" /\ to = "failed"
  \/ from = to

(* validTransition for the two statuses the consumer reports. *)
ValidTransition(from, to) ==
  \/ from = "queued" /\ to \in {"provider_accepted", "failed"}
  \/ from = "unqueued" /\ to \in {"provider_accepted", "failed"}
  \/ from = "provider_accepted" /\ to = "failed"
  \/ from = to

(* recordReminderDispatchStatus reads the dispatch and throws a conflict *)
(* when the transition is not in the table.                              *)
ReadDispatch(c) ==
  /\ \/ /\ worker[c] = "accept"
        /\ IF ValidTransition(dispatch[c], "provider_accepted")
             THEN Become(c, "accepted") ELSE FailRetryably(c)
     \/ /\ worker[c] = "fail"
        /\ Become(c, IF ValidTransition(dispatch[c], "failed") THEN "failed" ELSE "idle")
  /\ UNCHANGED <<dispatch, row, message, mailed, faults>> /\ OnlyWorkers

RecordStatus(c) ==
  /\ \/ worker[c] = "accepted" /\ WriteDispatch(c, "provider_accepted") /\ Become(c, "settle")
     \/ worker[c] = "failed" /\ WriteDispatch(c, "failed") /\ Become(c, "giveUp")
  /\ UNCHANGED <<row, message, mailed, faults>> /\ OnlyWorkers

(* markDelivered, markRetry and markFailed. *)
Settle(c) ==
  /\ \/ worker[c] = "settle" /\ RowState(c, "delivered")
     \/ worker[c] = "retry" /\ RowState(c, "queued")
     \/ worker[c] = "giveUp" /\ RowState(c, "failed")
  /\ Become(c, "idle")
  /\ UNCHANGED <<dispatch, message, mailed, faults>> /\ OnlyWorkers

(* A record or a settlement that fails after the provider acted counts as a *)
(* failure of the attempt.                                                  *)
RecordFails(c) ==
  /\ worker[c] \in {"accept", "accepted", "settle"}
  /\ Fault
  /\ FailRetryably(c)
  /\ UNCHANGED <<dispatch, row, message, mailed>> /\ OnlyWorkers

(* The isolate is lost, or cannot persist the end of its attempt. *)
LoseWorker(c) ==
  /\ worker[c] # "idle"
  /\ Fault
  /\ Become(c, "idle")
  /\ UNCHANGED <<dispatch, row, message, mailed>> /\ OnlyWorkers

WorkerStep(c) ==
  Receive(c) \/ Dismiss(c) \/ Deliver(c) \/ ReadDispatch(c) \/ RecordStatus(c) \/ Settle(c)

Next ==
  \/ \E e \in Executors :
       \/ Start(e) \/ ExecutorStep(e) \/ LoseExecutor(e)
       \/ \E c \in Candidates : EnqueueFails(e, c)
  \/ SweepStep \/ SweepFails
  \/ \E c \in Candidates : WorkerStep(c) \/ RecordFails(c) \/ LoseWorker(c)

Spec == Init /\ [][Next]_vars

(* Runs are repeated, by cron every hour or by an organizer; a run, cron *)
(* and an isolate that are not lost go on; the queue delivers.           *)
FairSpec ==
  /\ Spec
  /\ WF_vars(\E e \in Executors : Start(e))
  /\ \A e \in Executors : WF_vars(ExecutorStep(e))
  /\ WF_vars(SweepStep)
  /\ \A c \in Candidates : WF_vars(WorkerStep(c))

-----------------------------------------------------------------------------
(* What the outbox did with a reminder and what its dispatch says agree    *)
(* once the row has ended: the consumer records before it settles, and the *)
(* table of transitions makes it wait for the run that still holds a copy  *)
(* of the dispatch.  A dispatch that a run took up after a failed enqueue, *)
(* or that two runs held, is excluded: there the late copy may overwrite   *)
(* the record.                                                             *)
EndIsRecorded ==
  \A c \in Candidates \ contended :
    /\ row[c].state = "delivered" => dispatch[c] = "provider_accepted"
    /\ row[c].state = "failed" => dispatch[c] = "failed"

(* Wherever runs, sweeps and isolates were lost, a candidate who is fit to *)
(* be reminded is reminded by the runs that follow, unless the row failed  *)
(* or its attempts are used up: by failures of the provider, or by the     *)
(* isolates that were lost with them.                                      *)
RemindersAreSent ==
  \A c \in Candidates \ Unfit :
    <>(c \in mailed \/ row[c].state = "failed" \/ Exhausted(c))
=============================================================================
