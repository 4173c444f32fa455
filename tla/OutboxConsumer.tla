---------------------------- MODULE OutboxConsumer ----------------------------
(***************************************************************************)
(* Generic side-effect delivery: a publisher inserts an outbox row and     *)
(* sends a wake-up message, Cloudflare Queue redelivers the message until  *)
(* it is acknowledged or its retries run out, and consumer isolates claim  *)
(* the row under a lease, call the provider, record the delivery status of *)
(* the communication and settle the row.                                   *)
(*                                                                         *)
(* One step is one D1 statement, one queue call or one provider call, so   *)
(* an isolate may stop, stall or be overtaken between any two of them.     *)
(***************************************************************************)
EXTENDS OutboxJobs, FiniteSets

CONSTANTS
  Jobs,          \* deduplicated jobs (tenant, topic, deduplication key)
  MaxRetries,    \* max_retries of the queue consumer
  MaxPublishes,  \* bound: API calls that publish one job
  MaxFaults,     \* bound: isolates lost with a message, messages delivered twice
  MaxClock,      \* bound: the last tick
  MaxClaimTime,  \* longest time between reading the clock and the claiming UPDATE
  MaxRunTime     \* bound: longest time one message is in an isolate's hands

ASSUME JobsAssumption == Jobs # {}
ASSUME BoundsAssumption ==
  /\ MaxRetries \in Nat /\ MaxPublishes \in Nat /\ MaxFaults \in Nat
  /\ MaxClock \in Nat /\ MaxClaimTime \in Nat /\ MaxRunTime \in Nat

VARIABLES
  clock,      \* the time every isolate reads
  row,        \* outbox_jobs
  queue,      \* messages in Cloudflare Queue
  dlq,        \* jobs one of whose messages reached the dead-letter queue
  worker,     \* what each isolate is doing
  publisher,  \* where the API call that publishes the job is
  published,  \* how many API calls published the job
  status,     \* delivery status of the job's communication, "none" if it has no target
  superseded, \* jobs whose reason has lapsed: mails of an amended decision
  effects,    \* provider calls that took effect (history)
  faults      \* isolates lost and messages duplicated so far

vars == <<clock, row, queue, dlq, worker, publisher, published, status, superseded,
          effects, faults>>

Message == [job : Jobs, tries : 0 .. MaxRetries, due : Nat]

(* Before the row is the isolate's, and after. *)
ClaimingPC == {"read", "claim"}
RunningPC == {"fence", "dispatch", "recordDelivered", "markDelivered",
              "recordFailed", "markFailed", "markRetry"}

Worker == [pc : ClaimingPC \cup RunningPC \cup {"idle", "settle"},
           job : Jobs,
           tries : 0 .. MaxRetries,  \* deliveries of the message before this one
           now : Nat,                \* the time process() read when it began
           attempt : Nat,            \* attemptCount of the job returned by claim()
           retryable : BOOLEAN,      \* of the failure being handled
           action : {"ack", "retry"},
           delay : Nat]

TypeOK ==
  /\ clock \in Nat
  /\ row \in [Jobs -> Row]
  /\ queue \in SUBSET Message
  /\ dlq \in SUBSET Jobs
  /\ worker \in [Workers -> Worker]
  /\ publisher \in [Jobs -> {"idle", "read", "send", "mark"}]
  /\ published \in [Jobs -> Nat]
  /\ status \in [Jobs -> {"queued", "delivered", "failed", "none"}]
  /\ superseded \in SUBSET Jobs
  /\ effects \in [Jobs -> Nat]
  /\ faults \in Nat

Idle == [pc |-> "idle", job |-> CHOOSE j \in Jobs : TRUE, tries |-> 0, now |-> 0,
         attempt |-> 0, retryable |-> TRUE, action |-> "ack", delay |-> 0]

Init ==
  /\ clock = 0
  /\ row = [j \in Jobs |-> AbsentRow]
  /\ queue = {}
  /\ dlq = {}
  /\ worker = [w \in Workers |-> Idle]
  /\ publisher = [j \in Jobs |-> "idle"]
  /\ published = [j \in Jobs |-> 0]
  /\ status \in [Jobs -> {"queued", "none"}]
  /\ superseded = {}
  /\ effects = [j \in Jobs |-> 0]
  /\ faults = 0

-----------------------------------------------------------------------------
(* The publisher: enqueueCommunicationDeliveryOutbox.                        *)

(* INSERT ... ON CONFLICT keeps the state and the schedule of an old row. *)
Insert(j) ==
  /\ publisher[j] = "idle"
  /\ published[j] < MaxPublishes
  /\ published' = [published EXCEPT ![j] = @ + 1]
  /\ row' = IF row[j].state = "absent"
              THEN [row EXCEPT ![j] = PendingRow(clock)]
              ELSE row
  /\ publisher' = [publisher EXCEPT ![j] = "read"]
  /\ UNCHANGED <<clock, queue, dlq, worker, status, superseded, effects, faults>>

ReadState(j) ==
  /\ publisher[j] = "read"
  /\ publisher' = [publisher EXCEPT
                     ![j] = IF row[j].state = "pending" THEN "send" ELSE "idle"]
  /\ UNCHANGED <<clock, row, queue, dlq, worker, published, status,
                 superseded, effects, faults>>

Send(j) ==
  /\ publisher[j] = "send"
  /\ queue' = queue \cup {[job |-> j, tries |-> 0, due |-> clock]}
  /\ publisher' = [publisher EXCEPT ![j] = "mark"]
  /\ UNCHANGED <<clock, row, dlq, worker, published, status, superseded, effects, faults>>

MarkQueued(j) ==
  /\ publisher[j] = "mark"
  /\ row' = IF row[j].state = "pending"
              THEN [row EXCEPT ![j].state = "queued"]
              ELSE row
  /\ publisher' = [publisher EXCEPT ![j] = "idle"]
  /\ UNCHANGED <<clock, queue, dlq, worker, published, status,
                 superseded, effects, faults>>

(* The call fails or its isolate is lost before the message is accepted, or *)
(* before the row is marked.                                                *)
PublishFails(j) ==
  /\ publisher[j] \in {"read", "send", "mark"}
  /\ publisher' = [publisher EXCEPT ![j] = "idle"]
  /\ UNCHANGED <<clock, row, queue, dlq, worker, published, status,
                 superseded, effects, faults>>

-----------------------------------------------------------------------------
(* The consumer: OutboxConsumer.process and consumeOutboxQueue.              *)

Enter(w, pc) == worker' = [worker EXCEPT ![w].pc = pc]

(* process() returned; what it knew of the row is gone. *)
Settle(w, action, delay) ==
  worker' = [worker EXCEPT
               ![w] = [Idle EXCEPT !.pc = "settle", !.job = worker[w].job, !.tries = worker[w].tries,
                                   !.action = action, !.delay = delay]]

(* retryForMessage: the delay grows with the deliveries of the message. *)
RetryMessage(w) == Settle(w, "retry", Backoff(worker[w].tries + 1))

(* max(1000, retryAt - now): at least BaseDelay. *)
DelayUntil(time) == IF time - clock < BaseDelay THEN BaseDelay ELSE time - clock

(* The catch of process(): a failure that cannot be retried, or one on the *)
(* last attempt, is terminal.                                              *)
Fail(w, retryable) ==
  worker' = [worker EXCEPT
               ![w].retryable = retryable,
               ![w].pc = IF ~retryable \/ worker[w].attempt >= MaxAttempts
                           THEN "recordFailed" ELSE "markRetry"]

(* The queue delivers at least once: it may keep a copy. *)
Receive(w) ==
  /\ worker[w].pc = "idle"
  /\ \E m \in queue :
       /\ m.due <= clock
       /\ \/ queue' = queue \ {m} /\ faults' = faults
          \/ queue' = queue /\ faults < MaxFaults /\ faults' = faults + 1
       /\ worker' = [worker EXCEPT
                       ![w] = [Idle EXCEPT !.pc = "read", !.job = m.job,
                                           !.tries = m.tries, !.now = clock]]
  /\ UNCHANGED <<clock, row, dlq, publisher, published, status, superseded, effects>>

(* The SELECT of claim() and the outcomes that need no UPDATE. *)
ReadRow(w) ==
  LET me == worker[w]
      r == row[me.job]
      outcome == ReadOutcome(r, me.now)
  IN
  /\ me.pc = "read"
  /\ \/ /\ outcome = "completed"
        /\ Settle(w, "ack", 0)
     \/ /\ outcome \in {"missing", "dead_lettered"}
        /\ RetryMessage(w)
     \/ /\ outcome = "not_due"
        /\ Settle(w, "retry", DelayUntil(r.availableAt))
     \/ /\ outcome = "busy"
        /\ Settle(w, "retry", DelayUntil(r.leaseUntil))
     \/ /\ outcome = "try"
        /\ worker' = [worker EXCEPT ![w].pc = "claim", ![w].attempt = r.attempts + 1]
  /\ UNCHANGED <<clock, row, queue, dlq, publisher, published, status,
                 superseded, effects, faults>>

(* The conditional UPDATE of claim().  The attempt the isolate goes on with *)
(* is the one it computed from its SELECT.                                  *)
ClaimRow(w) ==
  LET me == worker[w]
      r == row[me.job]
  IN
  /\ me.pc = "claim"
  /\ \/ /\ Claimable(r, me.now)
        /\ row' = [row EXCEPT ![me.job] = Claimed(r, w, me.now)]
        /\ Enter(w, "fence")
     \/ /\ ~Claimable(r, me.now)
        /\ row' = row
        /\ Settle(w, "retry", DelayUntil(me.now + Lease))
  /\ UNCHANGED <<clock, queue, dlq, publisher, published, status,
                 superseded, effects, faults>>

(* claim() throws: D1 could not be read or written. *)
ClaimFails(w) ==
  /\ worker[w].pc \in ClaimingPC
  /\ RetryMessage(w)
  /\ UNCHANGED <<clock, row, queue, dlq, publisher, published, status,
                 superseded, effects, faults>>

(* dispatch() first reads the decision that a mail tells of.  When that was *)
(* amended it returns with nothing sent, and process() goes on as it does   *)
(* after a delivery; a mail whose fence is malformed is rejected for good.  *)
ReadFence(w) ==
  /\ worker[w].pc = "fence"
  /\ \/ Enter(w, IF worker[w].job \in superseded THEN "recordDelivered" ELSE "dispatch")
     \/ \E retryable \in BOOLEAN : Fail(w, retryable)
  /\ UNCHANGED <<clock, row, queue, dlq, publisher, published, status, superseded,
                 effects, faults>>

(* The rest of dispatch() calls the provider, which answers, fails before   *)
(* or after it acted (a lost response), or rejects the request for good.    *)
Dispatch(w) ==
  LET j == worker[w].job IN
  /\ worker[w].pc = "dispatch"
  /\ \/ /\ effects' = [effects EXCEPT ![j] = @ + 1]
        /\ Enter(w, "recordDelivered") \/ Fail(w, TRUE)
     \/ /\ effects' = effects
        /\ \E retryable \in BOOLEAN : Fail(w, retryable)
  /\ UNCHANGED <<clock, row, queue, dlq, publisher, published, status,
                 superseded, faults>>

(* recordCommunicationStatus returns at once for a job without a target. *)
Report(j, s) == status' = IF status[j] = "none" THEN status ELSE [status EXCEPT ![j] = s]

(* recordDeliveryStatus("delivered"), or D1 fails under it. *)
RecordDelivered(w) ==
  /\ worker[w].pc = "recordDelivered"
  /\ \/ Report(worker[w].job, "delivered") /\ Enter(w, "markDelivered")
     \/ status' = status /\ Fail(w, TRUE)
  /\ UNCHANGED <<clock, row, queue, dlq, publisher, published,
                 superseded, effects, faults>>

(* markDelivered, markFailed and markRetry throw if the row is no longer the *)
(* isolate's, or if D1 fails.                                                *)
MarkDelivered(w) ==
  LET me == worker[w]
      r == row[me.job]
  IN
  /\ me.pc = "markDelivered"
  /\ \/ /\ HeldBy(r, w, me.attempt)
        /\ row' = [row EXCEPT ![me.job] = Released(r, "delivered")]
        /\ Settle(w, "ack", 0)
     \/ row' = row /\ Fail(w, TRUE)
  /\ UNCHANGED <<clock, queue, dlq, publisher, published, status,
                 superseded, effects, faults>>

(* Mutant: a failure overwrites a terminal status. *)
RecordFailedAnyway(w) ==
  /\ worker[w].pc = "recordFailed"
  /\ Report(worker[w].job, "failed")
  /\ Enter(w, "markFailed")
  /\ UNCHANGED <<clock, row, queue, dlq, publisher, published,
                 superseded, effects, faults>>

(* recordDeliveryStatus("failed") refuses to leave a terminal status, and   *)
(* its exception skips markFailed.                                          *)
RecordFailed(w) ==
  LET j == worker[w].job IN
  /\ worker[w].pc = "recordFailed"
  /\ \/ /\ status[j] # "delivered"
        /\ Report(j, "failed")
        /\ Enter(w, "markFailed")
     \/ /\ status' = status
        /\ RetryMessage(w)
  /\ UNCHANGED <<clock, row, queue, dlq, publisher, published,
                 superseded, effects, faults>>

MarkFailed(w) ==
  LET me == worker[w]
      r == row[me.job]
  IN
  /\ me.pc = "markFailed"
  /\ \/ /\ HeldBy(r, w, me.attempt)
        /\ row' = [row EXCEPT ![me.job] =
                     Released(r, IF me.retryable THEN "dead-letter" ELSE "failed")]
        /\ IF me.retryable THEN RetryMessage(w) ELSE Settle(w, "ack", 0)
     \/ row' = row /\ RetryMessage(w)
  /\ UNCHANGED <<clock, queue, dlq, publisher, published, status,
                 superseded, effects, faults>>

MarkRetry(w) ==
  LET me == worker[w]
      r == row[me.job]
  IN
  /\ me.pc = "markRetry"
  /\ \/ /\ HeldBy(r, w, me.attempt)
        /\ \E d \in RetryDelays(me.attempt) :
             /\ row' = [row EXCEPT
                          ![me.job] = [Released(r, "queued") EXCEPT !.availableAt = clock + d]]
             /\ Settle(w, "retry", d)
     \/ row' = row /\ RetryMessage(w)
  /\ UNCHANGED <<clock, queue, dlq, publisher, published, status,
                 superseded, effects, faults>>

(* Mutant: no dead-letter queue is configured. *)
GiveBackOrDrop(j, tries, due) ==
  /\ queue' = IF tries < MaxRetries
                THEN queue \cup {[job |-> j, tries |-> tries + 1, due |-> due]}
                ELSE queue
  /\ dlq' = dlq

(* The queue takes a message back: to be delivered again, or to the        *)
(* dead-letter queue once its retries are used up.                         *)
GiveBack(j, tries, due) ==
  IF tries < MaxRetries
    THEN /\ queue' = queue \cup {[job |-> j, tries |-> tries + 1, due |-> due]}
         /\ dlq' = dlq
    ELSE /\ dlq' = dlq \cup {j}
         /\ queue' = queue

(* message.ack() or message.retry(). *)
SettleMessage(w) ==
  LET me == worker[w] IN
  /\ me.pc = "settle"
  /\ IF me.action = "ack"
       THEN UNCHANGED <<queue, dlq>>
       ELSE GiveBack(me.job, me.tries, clock + me.delay)
  /\ worker' = [worker EXCEPT ![w] = Idle]
  /\ UNCHANGED <<clock, row, publisher, published, status, superseded, effects, faults>>

(* The isolate is lost; its message is not acknowledged. *)
Crash(w) ==
  /\ worker[w].pc # "idle"
  /\ faults < MaxFaults
  /\ faults' = faults + 1
  /\ GiveBack(worker[w].job, worker[w].tries, clock)
  /\ worker' = [worker EXCEPT ![w] = Idle]
  /\ UNCHANGED <<clock, row, publisher, published, status, superseded, effects>>

-----------------------------------------------------------------------------
(* Time is bounded by MaxClock, and not spent while nobody waits for it; an *)
(* isolate hands its verdict to the queue at once.                          *)
TimeMatters ==
  \/ \E m \in queue : m.due > clock
  \/ \E w \in Workers : worker[w].pc # "idle"

Tick ==
  /\ clock < MaxClock
  /\ TimeMatters
  /\ \A w \in Workers :
       /\ worker[w].pc \in ClaimingPC => clock < worker[w].now + MaxClaimTime
       /\ worker[w].pc \in RunningPC => clock < worker[w].now + MaxRunTime
       /\ worker[w].pc # "settle"
  /\ clock' = clock + 1
  /\ UNCHANGED <<row, queue, dlq, worker, publisher, published, status,
                 superseded, effects, faults>>

(* evaluation_decisions is written again; its fence never matches again. *)
Supersede(j) ==
  /\ status[j] = "none" /\ j \notin superseded
  /\ superseded' = superseded \cup {j}
  /\ UNCHANGED <<clock, row, queue, dlq, worker, publisher, published, status, effects, faults>>

PublishStep(j) ==
  Insert(j) \/ ReadState(j) \/ Send(j) \/ MarkQueued(j) \/ PublishFails(j)

ConsumeStep(w) ==
  \/ ReadRow(w) \/ ClaimRow(w) \/ ClaimFails(w) \/ ReadFence(w) \/ Dispatch(w)
  \/ RecordDelivered(w) \/ MarkDelivered(w)
  \/ RecordFailed(w) \/ MarkFailed(w) \/ MarkRetry(w)
  \/ SettleMessage(w)

Next ==
  \/ \E j \in Jobs : PublishStep(j) \/ Supersede(j)
  \/ \E w \in Workers : Receive(w) \/ ConsumeStep(w) \/ Crash(w)
  \/ Tick

Spec == Init /\ [][Next]_vars

(* A running isolate runs on, the queue delivers what is due, time passes. *)
(* Nothing is assumed of the API calls that publish.                       *)
Fairness ==
  /\ \A w \in Workers : WF_vars(Receive(w)) /\ WF_vars(ConsumeStep(w))
  /\ WF_vars(Tick)

FairSpec == Spec /\ Fairness
-----------------------------------------------------------------------------
(* Properties *)

Running(w, j) == worker[w].pc \in RunningPC /\ worker[w].job = j

(* Claims of one job carry different attempt numbers, and the isolate that  *)
(* owns a row knows the row's number, so it can settle what it claimed.     *)
(* D1OutboxJobRepository.claim computes the number from a SELECT that other *)
(* isolates may overtake before its UPDATE.                                 *)
ClaimsNumbered ==
  \A w \in Workers : \A j \in Jobs : Running(w, j) =>
    /\ worker[w].attempt <= row[j].attempts
    /\ row[j].owner = w => worker[w].attempt = row[j].attempts
    /\ \A v \in Workers \ {w} : Running(v, j) => worker[v].attempt # worker[w].attempt

(* Of two isolates at work on one job one has outlived its lease, counted   *)
(* from the time it read when it began: "Claiming is conditional to prevent *)
(* duplicate sends" (OutboxJobRepository).                                  *)
LeaseExclusion ==
  \A v, w \in Workers : \A j \in Jobs : Running(v, j) /\ Running(w, j) /\ v # w =>
    \E u \in {v, w} : clock >= worker[u].now + Lease

(* Whatever overtaken isolates report, a communication says delivered only *)
(* after the provider acted, and a row that has ended does not leave it     *)
(* behind: OutboxConsumer.process records the status before it settles.  A  *)
(* row without a communication says delivered after the provider acted too, *)
(* or once the decision its mail tells of was amended.                      *)
EndIsReported ==
  \A j \in Jobs :
    /\ status[j] = "delivered" => effects[j] > 0
    /\ row[j].state = "delivered" =>
         \/ status[j] = "delivered"
         \/ status[j] = "none" /\ (effects[j] > 0 \/ j \in superseded)
    /\ row[j].state \in {"failed", "dead-letter"} => status[j] # "queued"

(* A row that is queued or processing still has a wake-up: in the queue, in *)
(* an isolate's hands, or in the dead-letter queue for an operator.         *)
NoLostWakeup ==
  \A j \in Jobs : row[j].state \in {"queued", "processing"} =>
    \/ \E m \in queue : m.job = j
    \/ \E w \in Workers : worker[w].pc # "idle" /\ worker[w].job = j
    \/ j \in dlq

(* A settled row is never written again: a duplicate, late or repeated      *)
(* message is "an idempotent wake-up, not the durable record"               *)
(* (ARCHITECTURE.md).                                                       *)
SettledForever ==
  [][\A j \in Jobs : row[j].state \in TerminalStates => row'[j] = row[j]]_vars

(* A job whose message the queue accepted ends, or its message is in the    *)
(* dead-letter queue.                                                       *)
QueuedJobsEnd ==
  \A j \in Jobs :
    row[j].state = "queued" ~> (row[j].state \in TerminalStates \/ j \in dlq)

(* The outbox implements the promise of AtLeastOnce. *)
Promise == INSTANCE AtLeastOnce WITH
  phase <- [j \in Jobs |->
              CASE row[j].state = "absent" -> "none"
                [] row[j].state \in OpenStates -> "open"
                [] row[j].state = "delivered" -> "delivered"
                [] row[j].state \in {"failed", "dead-letter"} -> "dead"],
  claims <- [j \in Jobs |-> row[j].attempts]

PromiseSpec == Promise!Spec
=============================================================================
