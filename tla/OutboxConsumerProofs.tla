-------------------------- MODULE OutboxConsumerProofs --------------------------
(***************************************************************************)
(* Theorems about OutboxConsumer, for every value of its constants.        *)
(***************************************************************************)
EXTENDS OutboxConsumer, FiniteSetTheorems, TLAPS

-----------------------------------------------------------------------------
(* The values the actions compute.                                           *)

(* A retry delay is at least the base delay, so a rescheduled row is never  *)
(* due at the time of its rescheduling.                                     *)
LEMMA BackoffType ==
  ASSUME NEW n \in Nat
  PROVE  /\ Backoff(n) \in Nat \ {0}
         /\ \A d \in RetryDelays(n) : d \in Nat \ {0}
BY TimingAssumption DEF Backoff, RetryDelays

LEMMA IdleType == Idle \in Worker
BY JobsAssumption, BoundsAssumption DEF Idle, Worker, ClaimingPC, RunningPC

LEMMA DelayType ==
  ASSUME clock \in Nat, NEW time \in Nat
  PROVE  DelayUntil(time) \in Nat
BY TimingAssumption DEF DelayUntil

LEMMA SettleType ==
  ASSUME TypeOK, NEW w \in Workers, NEW action \in {"ack", "retry"}, NEW delay \in Nat,
         Settle(w, action, delay)
  PROVE  worker' \in [Workers -> Worker]
<1>1. worker[w] \in Worker
  BY DEF TypeOK
<1>2. [Idle EXCEPT !.pc = "settle", !.job = worker[w].job, !.tries = worker[w].tries,
                   !.action = action, !.delay = delay] \in Worker
  BY <1>1, IdleType DEF Worker, ClaimingPC, RunningPC
<1>. QED
  BY <1>2 DEF Settle, TypeOK

LEMMA RetryMessageType ==
  ASSUME TypeOK, NEW w \in Workers, RetryMessage(w)
  PROVE  worker' \in [Workers -> Worker]
<1>1. worker[w].tries + 1 \in Nat
  BY BoundsAssumption DEF TypeOK, Worker
<1>. QED
  BY <1>1, SettleType, BackoffType DEF RetryMessage

LEMMA EnterType ==
  ASSUME TypeOK, NEW w \in Workers,
         NEW pc \in ClaimingPC \cup RunningPC \cup {"idle", "settle"},
         Enter(w, pc)
  PROVE  worker' \in [Workers -> Worker]
BY DEF Enter, TypeOK, Worker

LEMMA FailType ==
  ASSUME TypeOK, NEW w \in Workers, NEW retryable \in BOOLEAN, Fail(w, retryable)
  PROVE  worker' \in [Workers -> Worker]
<1>. DEFINE next == IF ~retryable \/ worker[w].attempt >= MaxAttempts
                     THEN "recordFailed" ELSE "markRetry"
<1>1. worker[w] \in Worker
  BY DEF TypeOK
<1>2. [worker[w] EXCEPT !.retryable = retryable, !.pc = next] \in Worker
  BY <1>1 DEF Worker, RunningPC
<1>3. worker' = [worker EXCEPT ![w] = [worker[w] EXCEPT !.retryable = retryable, !.pc = next]]
  BY DEF Fail, TypeOK
<1>. QED
  BY <1>2, <1>3 DEF TypeOK

LEMMA GiveBackType ==
  ASSUME TypeOK, NEW j \in Jobs, NEW tries \in 0 .. MaxRetries, NEW due \in Nat,
         GiveBack(j, tries, due)
  PROVE  queue' \in SUBSET Message /\ dlq' \in SUBSET Jobs
<1>1. CASE tries < MaxRetries
  <2>1. [job |-> j, tries |-> tries + 1, due |-> due] \in Message
    BY <1>1, BoundsAssumption DEF Message
  <2>. QED
    BY <1>1, <2>1 DEF GiveBack, TypeOK
<1>2. CASE ~(tries < MaxRetries)
  BY <1>2 DEF GiveBack, TypeOK
<1>. QED
  BY <1>1, <1>2

-----------------------------------------------------------------------------
(* Type correctness.                                                         *)

LEMMA RowType ==
  ASSUME NEW r \in Row, NEW w \in Workers, NEW now \in Nat
  PROVE  /\ Claimed(r, w, now) \in Row
         /\ \A s \in OpenStates \cup TerminalStates : Released(r, s) \in Row
<1>1. r.attempts + 1 \in Nat /\ now + Lease \in Nat
  BY TimingAssumption DEF Row
<1>2. Claimed(r, w, now) \in Row
  BY <1>1 DEF Row, Claimed, OpenStates
<1>3. ASSUME NEW s \in OpenStates \cup TerminalStates PROVE Released(r, s) \in Row
  BY DEF Row, Released, NoLease
<1>. QED
  BY <1>2, <1>3

LEMMA PublishType ==
  ASSUME TypeOK, NEW j \in Jobs, PublishStep(j)
  PROVE  TypeOK'
<1>1. CASE Insert(j)
  <2>1. PendingRow(clock) \in Row
    BY DEF PendingRow, AbsentRow, Row, OpenStates, NoLease, TypeOK
  <2>. QED
    BY <1>1, <2>1 DEF Insert, TypeOK
<1>2. CASE ReadState(j)
  BY <1>2 DEF ReadState, TypeOK
<1>3. CASE Send(j)
  <2>1. [job |-> j, tries |-> 0, due |-> clock] \in Message
    BY BoundsAssumption DEF Message, TypeOK
  <2>. QED
    BY <1>3, <2>1 DEF Send, TypeOK
<1>4. CASE MarkQueued(j)
  <2>1. [row[j] EXCEPT !.state = "queued"] \in Row
    BY DEF Row, OpenStates, TypeOK
  <2>2. row' \in [Jobs -> Row]
    BY <1>4, <2>1 DEF MarkQueued, TypeOK
  <2>. QED
    BY <1>4, <2>2 DEF MarkQueued, TypeOK
<1>5. CASE PublishFails(j)
  BY <1>5 DEF PublishFails, TypeOK
<1>. QED
  BY <1>1, <1>2, <1>3, <1>4, <1>5 DEF PublishStep

LEMMA ReceiveType ==
  ASSUME TypeOK, NEW w \in Workers, Receive(w)
  PROVE  TypeOK'
<1>1. PICK m \in queue :
        /\ (queue' = queue \ {m} /\ faults' = faults) \/ (queue' = queue /\ faults' = faults + 1)
        /\ worker' = [worker EXCEPT ![w] = [Idle EXCEPT !.pc = "read", !.job = m.job,
                                                       !.tries = m.tries, !.now = clock]]
  BY DEF Receive
<1>2. [Idle EXCEPT !.pc = "read", !.job = m.job, !.tries = m.tries, !.now = clock] \in Worker
  BY IdleType DEF Worker, ClaimingPC, Message, TypeOK
<1>3. worker' \in [Workers -> Worker]
  BY <1>1, <1>2 DEF TypeOK
<1>. QED
  BY <1>1, <1>3 DEF Receive, TypeOK

LEMMA ConsumeType ==
  ASSUME TypeOK, NEW w \in Workers, ConsumeStep(w)
  PROVE  TypeOK'
<1>. DEFINE me == worker[w]
            r == row[me.job]
<1>0. me \in Worker /\ r \in Row
  BY DEF TypeOK, Worker
<1>1. CASE ReadRow(w)
  <2>1. worker' \in [Workers -> Worker]
    <3>1. CASE Settle(w, "ack", 0)
      BY <3>1, SettleType
    <3>2. CASE RetryMessage(w)
      BY <3>2, RetryMessageType
    <3>3. ASSUME NEW time \in {r.availableAt, r.leaseUntil}, Settle(w, "retry", DelayUntil(time))
          PROVE  worker' \in [Workers -> Worker]
      <4>1. time \in Nat /\ clock \in Nat
        BY <1>0 DEF Row, TypeOK
      <4>. QED
        BY <4>1, <3>3, DelayType, SettleType
    <3>4. CASE worker' = [worker EXCEPT ![w].pc = "claim", ![w].attempt = r.attempts + 1]
      <4>1. [me EXCEPT !.pc = "claim", !.attempt = r.attempts + 1] \in Worker
        <5>1. r.attempts + 1 \in Nat
          BY <1>0 DEF Row
        <5>. QED
          BY <1>0, <5>1 DEF Worker, ClaimingPC
      <4>2. worker' = [worker EXCEPT ![w] = [me EXCEPT !.pc = "claim", !.attempt = r.attempts + 1]]
        BY <3>4 DEF TypeOK
      <4>. QED
        BY <4>1, <4>2 DEF TypeOK
    <3>. QED
      BY <1>1, <3>1, <3>2, <3>3, <3>4 DEF ReadRow
  <2>. QED
    BY <1>1, <2>1 DEF ReadRow, TypeOK
<1>2. CASE ClaimRow(w)
  <2>1. worker' \in [Workers -> Worker]
    <3>1. CASE Enter(w, "fence")
      BY <3>1, EnterType DEF RunningPC
    <3>2. CASE Settle(w, "retry", DelayUntil(me.now + Lease))
      <4>1. me.now + Lease \in Nat /\ clock \in Nat
        BY <1>0, TimingAssumption DEF Worker, TypeOK
      <4>. QED
        BY <3>2, <4>1, DelayType, SettleType
    <3>. QED
      BY <1>2, <3>1, <3>2 DEF ClaimRow
  <2>2. Claimed(r, w, me.now) \in Row
    BY <1>0, RowType DEF Worker
  <2>3. row' \in [Jobs -> Row]
    BY <1>0, <1>2, <2>2 DEF ClaimRow, TypeOK
  <2>. QED
    BY <1>2, <2>1, <2>3 DEF ClaimRow, TypeOK
<1>3. CASE ClaimFails(w)
  BY <1>3, RetryMessageType DEF ClaimFails, TypeOK
<1>3a. CASE ReadFence(w)
  <2>1. worker' \in [Workers -> Worker]
    <3>1. CASE Enter(w, IF me.job \in superseded THEN "recordDelivered" ELSE "dispatch")
      BY <3>1, EnterType DEF RunningPC
    <3>2. ASSUME NEW retryable \in BOOLEAN, Fail(w, retryable)
          PROVE  worker' \in [Workers -> Worker]
      BY <3>2, FailType
    <3>. QED
      BY <1>3a, <3>1, <3>2 DEF ReadFence
  <2>. QED
    BY <1>3a, <2>1 DEF ReadFence, TypeOK
<1>4. CASE Dispatch(w)
  <2>1. worker' \in [Workers -> Worker]
    <3>1. CASE Enter(w, "recordDelivered")
      BY <3>1, EnterType DEF RunningPC
    <3>2. ASSUME NEW retryable \in BOOLEAN, Fail(w, retryable)
          PROVE  worker' \in [Workers -> Worker]
      BY <3>2, FailType
    <3>. QED
      BY <1>4, <3>1, <3>2 DEF Dispatch
  <2>2. effects' \in [Jobs -> Nat]
    <3>1. me.job \in Jobs
      BY <1>0 DEF Worker
    <3>2. effects[me.job] + 1 \in Nat
      BY <3>1 DEF TypeOK
    <3>3. effects' = [effects EXCEPT ![me.job] = effects[me.job] + 1] \/ effects' = effects
      BY <1>4 DEF Dispatch
    <3>. QED
      BY <3>2, <3>3 DEF TypeOK
  <2>. QED
    BY <1>4, <2>1, <2>2 DEF Dispatch, TypeOK
<1>5. CASE RecordDelivered(w)
  <2>1. worker' \in [Workers -> Worker]
    <3>1. CASE Enter(w, "markDelivered")
      BY <3>1, EnterType DEF RunningPC
    <3>2. CASE Fail(w, TRUE)
      BY <3>2, FailType
    <3>. QED
      BY <1>5, <3>1, <3>2 DEF RecordDelivered
  <2>. QED
    BY <1>5, <2>1 DEF RecordDelivered, Report, TypeOK
<1>6. CASE MarkDelivered(w)
  <2>1. worker' \in [Workers -> Worker]
    <3>1. CASE Settle(w, "ack", 0)
      BY <3>1, SettleType
    <3>2. CASE Fail(w, TRUE)
      BY <3>2, FailType
    <3>. QED
      BY <1>6, <3>1, <3>2 DEF MarkDelivered
  <2>2. Released(r, "delivered") \in Row
    BY <1>0, RowType DEF TerminalStates, TypeOK
  <2>3. row' \in [Jobs -> Row]
    BY <1>6, <2>2 DEF MarkDelivered, TypeOK
  <2>. QED
    BY <1>6, <2>1, <2>3 DEF MarkDelivered, TypeOK
<1>7. CASE RecordFailed(w)
  <2>1. worker' \in [Workers -> Worker]
    <3>1. CASE Enter(w, "markFailed")
      BY <3>1, EnterType DEF RunningPC
    <3>2. CASE RetryMessage(w)
      BY <3>2, RetryMessageType
    <3>. QED
      BY <1>7, <3>1, <3>2 DEF RecordFailed
  <2>. QED
    BY <1>7, <2>1 DEF RecordFailed, Report, TypeOK
<1>8. CASE MarkFailed(w)
  <2>1. worker' \in [Workers -> Worker]
    <3>1. CASE RetryMessage(w)
      BY <3>1, RetryMessageType
    <3>2. CASE Settle(w, "ack", 0)
      BY <3>2, SettleType
    <3>. QED
      BY <1>8, <3>1, <3>2 DEF MarkFailed
  <2>2. \A s \in {"dead-letter", "failed"} : Released(r, s) \in Row
    BY <1>0, RowType DEF TerminalStates, TypeOK
  <2>3. row' \in [Jobs -> Row]
    BY <1>8, <2>2 DEF MarkFailed, TypeOK
  <2>. QED
    BY <1>8, <2>1, <2>3 DEF MarkFailed, TypeOK
<1>9. CASE MarkRetry(w)
  <2>1. ASSUME HeldBy(r, w, me.attempt), NEW d \in RetryDelays(me.attempt),
               row' = [row EXCEPT ![me.job] = [Released(r, "queued") EXCEPT !.availableAt = clock + d]],
               Settle(w, "retry", d)
        PROVE  TypeOK'
    <3>2. d \in Nat
      BY <1>0, BackoffType DEF Worker
    <3>3. Released(r, "queued") \in Row
      BY <1>0, RowType DEF OpenStates, TypeOK
    <3>4. [Released(r, "queued") EXCEPT !.availableAt = clock + d] \in Row
      BY <3>2, <3>3 DEF Row, TypeOK
    <3>5. row' \in [Jobs -> Row]
      BY <2>1, <3>4 DEF TypeOK
    <3>6. worker' \in [Workers -> Worker]
      BY <2>1, <3>2, SettleType
    <3>. QED
      BY <1>9, <3>5, <3>6 DEF MarkRetry, TypeOK
  <2>2. CASE row' = row /\ RetryMessage(w)
    BY <1>9, <2>2, RetryMessageType DEF MarkRetry, TypeOK
  <2>. QED
    BY <1>9, <2>1, <2>2 DEF MarkRetry
<1>10. CASE SettleMessage(w)
  <2>1. queue' \in SUBSET Message /\ dlq' \in SUBSET Jobs
    <3>1. CASE me.action = "ack"
      BY <1>10, <3>1 DEF SettleMessage, TypeOK
    <3>2. CASE me.action # "ack"
      <4>1. clock + me.delay \in Nat
        BY <1>0 DEF Worker, TypeOK
      <4>2. me.job \in Jobs /\ me.tries \in 0 .. MaxRetries
        BY <1>0 DEF Worker
      <4>. QED
        BY <1>10, <3>2, <4>1, <4>2, GiveBackType DEF SettleMessage
    <3>. QED
      BY <3>1, <3>2
  <2>2. worker' \in [Workers -> Worker]
    BY <1>10, IdleType DEF SettleMessage, TypeOK
  <2>. QED
    BY <1>10, <2>1, <2>2 DEF SettleMessage, TypeOK
<1>. QED
  BY <1>1, <1>2, <1>3, <1>3a, <1>4, <1>5, <1>6, <1>7, <1>8, <1>9, <1>10 DEF ConsumeStep

LEMMA CrashType ==
  ASSUME TypeOK, NEW w \in Workers, Crash(w)
  PROVE  TypeOK'
<1>1. worker[w].job \in Jobs /\ worker[w].tries \in 0 .. MaxRetries /\ clock \in Nat
  BY DEF TypeOK, Worker
<1>2. queue' \in SUBSET Message /\ dlq' \in SUBSET Jobs
  BY <1>1, GiveBackType DEF Crash
<1>3. worker' \in [Workers -> Worker]
  BY IdleType DEF Crash, TypeOK
<1>. QED
  BY <1>2, <1>3 DEF Crash, TypeOK

(* Every variable keeps its type: a row keeps a known state and a natural  *)
(* number of attempts, a message never exceeds its retries, whatever the   *)
(* constants of the repository and of the queue are.                       *)
THEOREM TypeCorrect == Spec => []TypeOK
<1>1. Init => TypeOK
  BY IdleType DEF Init, TypeOK, AbsentRow, Row, NoLease
<1>2. TypeOK /\ [Next]_vars => TypeOK'
  <2>. SUFFICES ASSUME TypeOK, [Next]_vars PROVE TypeOK'
    OBVIOUS
  <2>1. ASSUME NEW j \in Jobs, PublishStep(j) PROVE TypeOK'
    BY <2>1, PublishType
  <2>2. ASSUME NEW w \in Workers, Receive(w) PROVE TypeOK'
    BY <2>2, ReceiveType
  <2>3. ASSUME NEW w \in Workers, ConsumeStep(w) PROVE TypeOK'
    BY <2>3, ConsumeType
  <2>4. ASSUME NEW w \in Workers, Crash(w) PROVE TypeOK'
    BY <2>4, CrashType
  <2>5. CASE Tick
    BY <2>5 DEF Tick, TypeOK
  <2>6. CASE (\E k \in Jobs : Supersede(k)) \/ UNCHANGED vars
    BY <2>6 DEF Supersede, vars, TypeOK
  <2>. QED
    BY <2>1, <2>2, <2>3, <2>4, <2>5, <2>6 DEF Next
<1>. QED
  BY <1>1, <1>2, PTL DEF Spec

-----------------------------------------------------------------------------
(* What a step does to the isolate that takes it, and to no other.           *)

OthersKeep(w) == \A v \in Workers \ {w} : worker'[v] = worker[v]

LEMMA EnterEffect ==
  ASSUME TypeOK, NEW w \in Workers, NEW pc, Enter(w, pc)
  PROVE  /\ worker'[w].pc = pc
         /\ worker'[w].job = worker[w].job
         /\ worker'[w].now = worker[w].now
         /\ worker'[w].attempt = worker[w].attempt
         /\ OthersKeep(w)
<1>1. worker[w] \in Worker
  BY DEF TypeOK
<1>2. worker'[w] = [worker[w] EXCEPT !.pc = pc] /\ OthersKeep(w)
  BY DEF Enter, TypeOK, OthersKeep
<1>. QED
  BY <1>1, <1>2 DEF Worker

LEMMA SettleEffect ==
  ASSUME TypeOK, NEW w \in Workers, NEW action, NEW delay, Settle(w, action, delay)
  PROVE  /\ worker'[w].pc = "settle"
         /\ worker'[w].job = worker[w].job
         /\ worker'[w].action = action
         /\ OthersKeep(w)
BY DEF Settle, TypeOK, OthersKeep, Idle, Worker

LEMMA RetryMessageEffect ==
  ASSUME TypeOK, NEW w \in Workers, RetryMessage(w)
  PROVE  /\ worker'[w].pc = "settle"
         /\ worker'[w].job = worker[w].job
         /\ worker'[w].action = "retry"
         /\ OthersKeep(w)
BY SettleEffect DEF RetryMessage

LEMMA FailEffect ==
  ASSUME TypeOK, NEW w \in Workers, NEW retryable, Fail(w, retryable)
  PROVE  /\ worker'[w].pc \in {"recordFailed", "markRetry"}
         /\ worker'[w].job = worker[w].job
         /\ worker'[w].now = worker[w].now
         /\ worker'[w].attempt = worker[w].attempt
         /\ OthersKeep(w)
BY DEF Fail, TypeOK, OthersKeep, Worker

-----------------------------------------------------------------------------
(* What a step does to the row of its job, and to no other.                  *)

RowsKeep(j) == \A k \in Jobs \ {j} : row'[k] = row[k]

LEMMA ReleasedFields ==
  ASSUME NEW r \in Row, NEW s
  PROVE  /\ Released(r, s).state = s
         /\ Released(r, s).attempts = r.attempts
         /\ Released(r, s).availableAt = r.availableAt
         /\ Released(r, s).owner = NoWorker
BY DEF Released, Row

LEMMA ClaimRowEffect ==
  ASSUME TypeOK, NEW w \in Workers, ClaimRow(w)
  PROVE  LET j == worker[w].job IN
         /\ worker[w].pc = "claim"
         /\ RowsKeep(j)
         /\ worker'[w].job = j
         /\ OthersKeep(w)
         /\ \/ /\ row' = row
               /\ worker'[w].pc = "settle" /\ worker'[w].action = "retry"
            \/ /\ Claimable(row[j], worker[w].now)
               /\ row'[j].state = "processing"
               /\ row'[j].attempts = row[j].attempts + 1
               /\ row'[j].owner = w
               /\ row'[j].leaseUntil = worker[w].now + Lease
               /\ worker'[w].pc = "fence"
               /\ worker'[w].now = worker[w].now
               /\ worker'[w].attempt = worker[w].attempt
<1>. DEFINE j == worker[w].job
<1>0. j \in Jobs /\ row[j] \in Row
  BY DEF TypeOK, Worker
<1>1. CASE /\ Claimable(row[j], worker[w].now)
           /\ row' = [row EXCEPT ![j] = Claimed(row[j], w, worker[w].now)]
           /\ Enter(w, "fence")
  <2>1. row'[j] = Claimed(row[j], w, worker[w].now) /\ RowsKeep(j)
    BY <1>0, <1>1 DEF TypeOK, RowsKeep
  <2>2. /\ row'[j].state = "processing"
        /\ row'[j].attempts = row[j].attempts + 1
        /\ row'[j].owner = w
        /\ row'[j].leaseUntil = worker[w].now + Lease
    BY <1>0, <2>1 DEF Claimed, Row
  <2>. QED
    BY <1>1, <2>1, <2>2, EnterEffect DEF ClaimRow
<1>2. CASE row' = row /\ Settle(w, "retry", DelayUntil(worker[w].now + Lease))
  BY <1>2, SettleEffect DEF ClaimRow, RowsKeep
<1>. QED
  BY <1>1, <1>2 DEF ClaimRow

LEMMA ReadFenceEffect ==
  ASSUME TypeOK, NEW w \in Workers, ReadFence(w)
  PROVE  /\ worker[w].pc = "fence"
         /\ worker'[w].pc \in {"recordDelivered", "dispatch", "recordFailed", "markRetry"}
         /\ worker'[w].pc = "recordDelivered" => worker[w].job \in superseded
         /\ worker'[w].job = worker[w].job
         /\ worker'[w].now = worker[w].now
         /\ worker'[w].attempt = worker[w].attempt
         /\ OthersKeep(w)
<1>1. CASE Enter(w, IF worker[w].job \in superseded THEN "recordDelivered" ELSE "dispatch")
  BY <1>1, EnterEffect DEF ReadFence
<1>2. ASSUME NEW retryable \in BOOLEAN, Fail(w, retryable)
      PROVE  /\ worker'[w].pc \in {"recordFailed", "markRetry"}
             /\ worker'[w].job = worker[w].job
             /\ worker'[w].now = worker[w].now
             /\ worker'[w].attempt = worker[w].attempt
             /\ OthersKeep(w)
  BY <1>2, FailEffect
<1>. QED
  BY <1>1, <1>2 DEF ReadFence

LEMMA MarkDeliveredEffect ==
  ASSUME TypeOK, NEW w \in Workers, MarkDelivered(w)
  PROVE  LET j == worker[w].job IN
         /\ worker[w].pc = "markDelivered"
         /\ RowsKeep(j)
         /\ worker'[w].job = j
         /\ OthersKeep(w)
         /\ \/ /\ HeldBy(row[j], w, worker[w].attempt)
               /\ row'[j].state = "delivered"
               /\ row'[j].attempts = row[j].attempts
               /\ row'[j].owner = NoWorker
               /\ worker'[w].pc = "settle"
            \/ /\ row' = row
               /\ worker'[w].pc \in {"recordFailed", "markRetry"}
               /\ worker'[w].now = worker[w].now
               /\ worker'[w].attempt = worker[w].attempt
<1>. DEFINE j == worker[w].job
<1>0. j \in Jobs /\ row[j] \in Row
  BY DEF TypeOK, Worker
<1>1. CASE /\ HeldBy(row[j], w, worker[w].attempt)
           /\ row' = [row EXCEPT ![j] = Released(row[j], "delivered")]
           /\ Settle(w, "ack", 0)
  <2>1. row'[j] = Released(row[j], "delivered") /\ RowsKeep(j)
    BY <1>0, <1>1 DEF TypeOK, RowsKeep
  <2>. QED
    BY <1>0, <1>1, <2>1, ReleasedFields, SettleEffect DEF MarkDelivered
<1>2. CASE row' = row /\ Fail(w, TRUE)
  BY <1>2, FailEffect DEF MarkDelivered, RowsKeep
<1>. QED
  BY <1>1, <1>2 DEF MarkDelivered

LEMMA MarkFailedEffect ==
  ASSUME TypeOK, NEW w \in Workers, MarkFailed(w)
  PROVE  LET j == worker[w].job IN
         /\ worker[w].pc = "markFailed"
         /\ RowsKeep(j)
         /\ worker'[w].pc = "settle"
         /\ worker'[w].job = j
         /\ OthersKeep(w)
         /\ \/ /\ HeldBy(row[j], w, worker[w].attempt)
               /\ row'[j].state \in {"failed", "dead-letter"}
               /\ row'[j].attempts = row[j].attempts
               /\ row'[j].owner = NoWorker
            \/ /\ row' = row
               /\ worker'[w].action = "retry"
<1>. DEFINE j == worker[w].job
            s == IF worker[w].retryable THEN "dead-letter" ELSE "failed"
<1>0. j \in Jobs /\ row[j] \in Row
  BY DEF TypeOK, Worker
<1>1. CASE /\ HeldBy(row[j], w, worker[w].attempt)
           /\ row' = [row EXCEPT ![j] = Released(row[j], s)]
           /\ RetryMessage(w) \/ Settle(w, "ack", 0)
  <2>2. row'[j] = Released(row[j], s) /\ RowsKeep(j)
    BY <1>0, <1>1 DEF TypeOK, RowsKeep
  <2>3. /\ row'[j].state \in {"failed", "dead-letter"}
        /\ row'[j].attempts = row[j].attempts
        /\ row'[j].owner = NoWorker
    BY <1>0, <2>2, ReleasedFields
  <2>. QED
    BY <1>1, <2>2, <2>3, SettleEffect, RetryMessageEffect DEF MarkFailed
<1>2. CASE row' = row /\ RetryMessage(w)
  BY <1>2, RetryMessageEffect DEF MarkFailed, RowsKeep
<1>. QED
  BY <1>1, <1>2 DEF MarkFailed

LEMMA MarkRetryEffect ==
  ASSUME TypeOK, NEW w \in Workers, MarkRetry(w)
  PROVE  LET j == worker[w].job IN
         /\ worker[w].pc = "markRetry"
         /\ RowsKeep(j)
         /\ worker'[w].pc = "settle"
         /\ worker'[w].job = j
         /\ worker'[w].action = "retry"
         /\ OthersKeep(w)
         /\ \/ /\ HeldBy(row[j], w, worker[w].attempt)
               /\ row'[j].state = "queued"
               /\ row'[j].attempts = row[j].attempts
               /\ row'[j].owner = NoWorker
               /\ row'[j].availableAt > clock
            \/ row' = row
<1>. DEFINE j == worker[w].job
<1>0. j \in Jobs /\ row[j] \in Row /\ worker[w].attempt \in Nat /\ clock \in Nat
  BY DEF TypeOK, Worker
<1>1. CASE /\ HeldBy(row[j], w, worker[w].attempt)
           /\ \E d \in RetryDelays(worker[w].attempt) :
                /\ row' = [row EXCEPT ![j] =
                             [Released(row[j], "queued") EXCEPT !.availableAt = clock + d]]
                /\ Settle(w, "retry", d)
  <2>1. PICK d \in RetryDelays(worker[w].attempt) :
          /\ row' = [row EXCEPT ![j] = [Released(row[j], "queued") EXCEPT !.availableAt = clock + d]]
          /\ Settle(w, "retry", d)
    BY <1>1
  <2>2. d \in Nat \ {0}
    BY <1>0, BackoffType
  <2>3. /\ row'[j] = [Released(row[j], "queued") EXCEPT !.availableAt = clock + d]
        /\ RowsKeep(j)
    BY <1>0, <2>1 DEF TypeOK, RowsKeep
  <2>4. /\ row'[j].state = "queued"
        /\ row'[j].attempts = row[j].attempts
        /\ row'[j].owner = NoWorker
        /\ row'[j].availableAt = clock + d
    BY <1>0, <2>3 DEF Released, Row
  <2>. QED
    BY <1>0, <1>1, <2>1, <2>2, <2>3, <2>4, SettleEffect DEF MarkRetry
<1>2. CASE row' = row /\ RetryMessage(w)
  BY <1>2, RetryMessageEffect DEF MarkRetry, RowsKeep
<1>. QED
  BY <1>1, <1>2 DEF MarkRetry

LEMMA PublishEffect ==
  ASSUME TypeOK, NEW j \in Jobs, PublishStep(j)
  PROVE  /\ UNCHANGED <<clock, worker, status, superseded, effects, dlq>>
         /\ RowsKeep(j)
         /\ \/ row' = row
            \/ /\ row[j].state = "absent"
               /\ row'[j].state = "pending"
               /\ row'[j].attempts = 0
               /\ row'[j].owner = NoWorker
            \/ /\ row[j].state = "pending"
               /\ publisher[j] = "mark"
               /\ row'[j] = [row[j] EXCEPT !.state = "queued"]
<1>0. row[j] \in Row
  BY DEF TypeOK
<1>1. CASE Insert(j)
  BY <1>0, <1>1 DEF Insert, PendingRow, AbsentRow, TypeOK, RowsKeep
<1>2. CASE MarkQueued(j)
  BY <1>0, <1>2 DEF MarkQueued, TypeOK, RowsKeep
<1>3. CASE ReadState(j) \/ Send(j) \/ PublishFails(j)
  BY <1>3 DEF ReadState, Send, PublishFails, RowsKeep
<1>. QED
  BY <1>1, <1>2, <1>3 DEF PublishStep

-----------------------------------------------------------------------------
(* What is reported of a job.                                                *)

(* What a delivery may be reported for. *)
Earned(j) == effects[j] > 0 \/ j \in superseded

(* Where there is a communication, it was told. *)
Told == {"delivered", "none"}

(* The status never lags behind the row because an isolate about to settle a *)
(* row has recorded the outcome, and a recorded outcome stays recorded.      *)
ReportInv ==
  /\ \A j \in superseded : status[j] = "none"
  /\ \A j \in Jobs : row[j].state = "delivered" => Earned(j) /\ status[j] \in Told
  /\ \A j \in Jobs : status[j] = "delivered" => Earned(j)
  /\ \A j \in Jobs : row[j].state \in {"failed", "dead-letter"} => status[j] # "queued"
  /\ \A w \in Workers :
       /\ worker[w].pc = "recordDelivered" => Earned(worker[w].job)
       /\ worker[w].pc = "markDelivered" =>
            Earned(worker[w].job) /\ status[worker[w].job] \in Told
       /\ worker[w].pc = "markFailed" => status[worker[w].job] # "queued"

(* The isolates that do not take the step keep their part. *)
LEMMA ReportOthers ==
  ASSUME TypeOK, ReportInv, NEW w \in Workers, OthersKeep(w),
         \A j \in Jobs : /\ Earned(j) => Earned(j)'
                         /\ status[j] \in Told => status'[j] \in Told
                         /\ status[j] # "queued" => status'[j] # "queued"
  PROVE  \A v \in Workers \ {w} :
           /\ worker'[v].pc = "recordDelivered" => Earned(worker[v].job)'
           /\ worker'[v].pc = "markDelivered" =>
                Earned(worker[v].job)' /\ status'[worker'[v].job] \in Told
           /\ worker'[v].pc = "markFailed" => status'[worker'[v].job] # "queued"
<1>. SUFFICES ASSUME NEW v \in Workers \ {w}
              PROVE /\ worker[v].pc \in {"recordDelivered", "markDelivered"} =>
                         effects'[worker[v].job] > 0 \/ worker[v].job \in superseded'
                    /\ worker[v].pc = "markDelivered" => status'[worker[v].job] \in Told
                    /\ worker[v].pc = "markFailed" => status'[worker[v].job] # "queued"
  BY DEF OthersKeep, Earned
<1>1. worker[v].job \in Jobs
  BY DEF TypeOK, Worker
<1>. QED
  BY <1>1 DEF ReportInv, Earned

LEMMA ReportConsume ==
  ASSUME TypeOK, ReportInv, NEW w \in Workers, ConsumeStep(w)
  PROVE  ReportInv'
<1>. DEFINE j == worker[w].job
<1>0. j \in Jobs /\ effects \in [Jobs -> Nat] /\ worker[w] \in Worker
  BY DEF TypeOK, Worker
(* An isolate that only turns away or gives up disturbs nothing. *)
<1>a. ASSUME UNCHANGED <<row, status, superseded, effects>>, OthersKeep(w),
             worker'[w].pc \in {"settle", "claim", "dispatch", "recordFailed", "markRetry", "idle"}
      PROVE  ReportInv'
  BY <1>a DEF ReportInv, Earned, OthersKeep
<1>1. CASE ReadRow(w)
  <2>1. worker'[w].pc \in {"settle", "claim"} /\ OthersKeep(w)
    <3>1. CASE worker' = [worker EXCEPT ![w].pc = "claim", ![w].attempt = row[j].attempts + 1]
      BY <1>0, <3>1 DEF TypeOK, Worker, OthersKeep
    <3>. QED
      BY <1>1, <3>1, SettleEffect, RetryMessageEffect DEF ReadRow
  <2>2. UNCHANGED <<row, status, superseded, effects>>
    BY <1>1 DEF ReadRow
  <2>. QED
    BY <1>a, <2>1, <2>2
<1>2. CASE ClaimRow(w)
  <2>1. UNCHANGED <<status, superseded, effects>>
    BY <1>2 DEF ClaimRow
  <2>. QED
    BY <1>2, <2>1, ClaimRowEffect DEF ReportInv, Earned, RowsKeep, OthersKeep
<1>3. CASE ClaimFails(w)
  <2>1. UNCHANGED <<row, status, superseded, effects>>
    BY <1>3 DEF ClaimFails
  <2>. QED
    BY <1>3, <1>a, <2>1, RetryMessageEffect DEF ClaimFails
<1>3a. CASE ReadFence(w)
  <2>1. UNCHANGED <<row, status, superseded, effects>>
    BY <1>3a DEF ReadFence
  <2>2. /\ worker'[w].pc \in {"recordDelivered", "dispatch", "recordFailed", "markRetry"}
        /\ worker'[w].pc = "recordDelivered" => j \in superseded
        /\ worker'[w].job = j /\ OthersKeep(w)
    BY <1>3a, ReadFenceEffect
  <2>. QED
    BY <1>0, <2>1, <2>2, ReportOthers DEF ReportInv, Earned
<1>4. CASE Dispatch(w)
  <2>1. UNCHANGED <<row, status, superseded>>
    BY <1>4 DEF Dispatch
  <2>2. effects' = [effects EXCEPT ![j] = effects[j] + 1] \/ effects' = effects
    BY <1>4 DEF Dispatch
  <2>3. \A k \in Jobs : Earned(k) => Earned(k)'
    BY <1>0, <2>1, <2>2 DEF Earned
  <2>4. OthersKeep(w) /\ worker'[w].job = j
    BY <1>4, EnterEffect, FailEffect DEF Dispatch
  <2>5. worker'[w].pc \in {"recordDelivered", "recordFailed", "markRetry"}
    BY <1>4, EnterEffect, FailEffect DEF Dispatch
  <2>6. worker'[w].pc = "recordDelivered" => effects'[j] > 0
    <3>1. CASE effects' = [effects EXCEPT ![j] = effects[j] + 1]
      BY <1>0, <3>1
    <3>2. CASE \E retryable \in BOOLEAN : Fail(w, retryable)
      BY <3>2, FailEffect
    <3>. QED
      BY <1>4, <3>1, <3>2 DEF Dispatch
  <2>. QED
    BY <2>1, <2>3, <2>4, <2>5, <2>6, ReportOthers DEF ReportInv, Earned
<1>5. CASE RecordDelivered(w)
  <2>1. CASE Report(j, "delivered") /\ Enter(w, "markDelivered")
    <3>1. UNCHANGED <<row, superseded, effects>> /\ Earned(j)
      BY <1>5 DEF RecordDelivered, ReportInv
    <3>2. /\ \A k \in Jobs : status'[k] = IF k = j THEN status'[j] ELSE status[k]
          /\ status'[j] \in Told /\ (status[j] = "none" => status'[j] = "none")
      BY <1>0, <2>1 DEF TypeOK, Report, Told
    <3>3. OthersKeep(w) /\ worker'[w].pc = "markDelivered" /\ worker'[w].job = j
      BY <2>1, EnterEffect
    <3>4. /\ \A k \in superseded : status'[k] = "none"
          /\ \A k \in Jobs : status[k] \in Told => status'[k] \in Told
      BY <3>2 DEF ReportInv, TypeOK, Told
    <3>. QED
      BY <1>0, <3>1, <3>2, <3>3, <3>4, ReportOthers DEF ReportInv, Earned, Told
  <2>2. CASE status' = status /\ Fail(w, TRUE)
    BY <1>5, <1>a, <2>2, FailEffect DEF RecordDelivered
  <2>. QED
    BY <1>5, <2>1, <2>2 DEF RecordDelivered
<1>6. CASE MarkDelivered(w)
  <2>1. UNCHANGED <<status, superseded, effects>> /\ Earned(j) /\ status[j] \in Told
    BY <1>6 DEF MarkDelivered, ReportInv
  <2>. QED
    BY <1>6, <2>1, MarkDeliveredEffect DEF ReportInv, Earned, RowsKeep, OthersKeep
<1>7. CASE RecordFailed(w)
  <2>1. CASE status' = status /\ RetryMessage(w)
    BY <1>7, <1>a, <2>1, RetryMessageEffect DEF RecordFailed
  <2>2. CASE /\ status[j] # "delivered"
             /\ Report(j, "failed")
             /\ Enter(w, "markFailed")
    <3>1. UNCHANGED <<row, superseded, effects>>
      BY <1>7 DEF RecordFailed
    <3>2. /\ \A k \in Jobs : status'[k] = IF k = j THEN status'[j] ELSE status[k]
          /\ status'[j] \in {"failed", "none"} /\ (status[j] = "none" <=> status'[j] = "none")
      BY <1>0, <2>2 DEF TypeOK, Report
    <3>3. OthersKeep(w) /\ worker'[w].pc = "markFailed" /\ worker'[w].job = j
      BY <2>2, EnterEffect
    <3>4. /\ \A k \in superseded : status'[k] = "none"
          /\ \A k \in Jobs : status[k] \in Told => status'[k] \in Told
      BY <2>2, <3>2 DEF ReportInv, TypeOK, Told
    <3>. QED
      BY <1>0, <2>2, <3>1, <3>2, <3>3, <3>4, ReportOthers DEF ReportInv, Earned, Told
  <2>. QED
    BY <1>7, <2>1, <2>2 DEF RecordFailed
<1>8. CASE MarkFailed(w)
  <2>1. UNCHANGED <<status, superseded, effects>> /\ status[j] # "queued"
    BY <1>8 DEF MarkFailed, ReportInv
  <2>. QED
    BY <1>8, <2>1, MarkFailedEffect DEF ReportInv, Earned, RowsKeep, OthersKeep
<1>9. CASE MarkRetry(w)
  <2>1. UNCHANGED <<status, superseded, effects>>
    BY <1>9 DEF MarkRetry
  <2>. QED
    BY <1>9, <2>1, MarkRetryEffect DEF ReportInv, Earned, RowsKeep, OthersKeep
<1>10. CASE SettleMessage(w)
  <2>1. worker'[w].pc = "idle" /\ OthersKeep(w)
    BY <1>10 DEF SettleMessage, OthersKeep, TypeOK, Idle
  <2>. QED
    BY <1>10, <1>a, <2>1 DEF SettleMessage
<1>. QED
  BY <1>1, <1>2, <1>3, <1>3a, <1>4, <1>5, <1>6, <1>7, <1>8, <1>9, <1>10 DEF ConsumeStep

LEMMA ReportStep == TypeOK /\ ReportInv /\ [Next]_vars => ReportInv'
<1>. SUFFICES ASSUME TypeOK, ReportInv, [Next]_vars PROVE ReportInv'
  OBVIOUS
<1>1. ASSUME NEW j \in Jobs, PublishStep(j) PROVE ReportInv'
  <2>1. \A k \in Jobs : row'[k].state = row[k].state \/ row'[k].state \in {"pending", "queued"}
    <3>1. row[j] \in Row
      BY DEF TypeOK
    <3>2. [row[j] EXCEPT !.state = "queued"].state = "queued"
      BY <3>1 DEF Row
    <3>3. row'[j].state = row[j].state \/ row'[j].state \in {"pending", "queued"}
      BY <1>1, <3>2, PublishEffect
    <3>4. RowsKeep(j)
      BY <1>1, PublishEffect
    <3>. QED
      BY <3>3, <3>4 DEF RowsKeep
  <2>2. UNCHANGED <<worker, status, superseded, effects>>
    BY <1>1, PublishEffect
  <2>. QED
    BY <2>1, <2>2 DEF ReportInv, Earned
<1>2. ASSUME NEW w \in Workers, Receive(w) PROVE ReportInv'
  <2>1. worker'[w].pc = "read" /\ OthersKeep(w)
    BY <1>2 DEF Receive, OthersKeep, TypeOK, Idle
  <2>. QED
    BY <1>2, <2>1 DEF Receive, ReportInv, Earned, OthersKeep
<1>3. ASSUME NEW w \in Workers, ConsumeStep(w) PROVE ReportInv'
  BY <1>3, ReportConsume
<1>4. ASSUME NEW w \in Workers, Crash(w) PROVE ReportInv'
  <2>1. worker'[w].pc = "idle" /\ OthersKeep(w)
    BY <1>4 DEF Crash, OthersKeep, TypeOK, Idle
  <2>. QED
    BY <1>4, <2>1 DEF Crash, ReportInv, Earned, OthersKeep
<1>5. CASE Tick
  BY <1>5 DEF Tick, ReportInv, Earned
<1>6. CASE (\E k \in Jobs : Supersede(k)) \/ UNCHANGED vars
  BY <1>6 DEF Supersede, vars, ReportInv, Earned, TypeOK
<1>. QED
  BY <1>1, <1>2, <1>3, <1>4, <1>5, <1>6 DEF Next

LEMMA ReportCorrect == Spec => []ReportInv
<1>1. Init => ReportInv
  BY DEF Init, ReportInv, AbsentRow, Idle
<1>. QED
  BY <1>1, ReportStep, TypeCorrect, PTL DEF Spec

(* A communication that says delivered stands for a provider that acted; a   *)
(* row that says so has told its communication or, if it has none, stands    *)
(* for a provider that acted or for a mail that dispatch() left out because  *)
(* its decision was amended; a row that is given up never leaves its         *)
(* communication queued.  Overtaken isolates change nothing of this.         *)
THEOREM EndReported == Spec => []EndIsReported
<1>1. ReportInv => EndIsReported
  BY DEF ReportInv, Earned, Told, EndIsReported
<1>. QED
  BY <1>1, ReportCorrect, PTL

-----------------------------------------------------------------------------
(* Settled rows.                                                             *)

(* A step writes a row only from a state in which the row is open. *)
LEMMA RowWritten ==
  ASSUME TypeOK, [Next]_vars, NEW j \in Jobs, row'[j] # row[j]
  PROVE  row[j].state \notin TerminalStates
<1>1. ASSUME NEW k \in Jobs, PublishStep(k) PROVE row[j].state \notin TerminalStates
  BY <1>1, PublishEffect DEF RowsKeep, TerminalStates
<1>2. ASSUME NEW w \in Workers, ConsumeStep(w) PROVE row[j].state \notin TerminalStates
  <2>1. CASE ClaimRow(w)
    BY <2>1, ClaimRowEffect DEF RowsKeep, Claimable, TerminalStates
  <2>2. CASE MarkDelivered(w)
    BY <2>2, MarkDeliveredEffect DEF RowsKeep, HeldBy, TerminalStates
  <2>3. CASE MarkFailed(w)
    BY <2>3, MarkFailedEffect DEF RowsKeep, HeldBy, TerminalStates
  <2>4. CASE MarkRetry(w)
    BY <2>4, MarkRetryEffect DEF RowsKeep, HeldBy, TerminalStates
  <2>5. row' # row
    OBVIOUS
  <2>. QED
    BY <1>2, <2>1, <2>2, <2>3, <2>4, <2>5
    DEF ConsumeStep, ReadRow, ClaimFails, ReadFence, Dispatch, RecordDelivered, RecordFailed, SettleMessage
<1>3. ASSUME NEW w \in Workers, Receive(w) \/ Crash(w) PROVE FALSE
  BY <1>3 DEF Receive, Crash
<1>4. CASE Tick \/ (\E k \in Jobs : Supersede(k)) \/ UNCHANGED vars
  BY <1>4 DEF Tick, Supersede, vars
<1>. QED
  BY <1>1, <1>2, <1>3, <1>4 DEF Next

(* No publication, duplicate, late or repeated message and no overtaken       *)
(* isolate writes a row that has ended.                                      *)
THEOREM SettledRowsStay == Spec => SettledForever
<1>1. TypeOK /\ [Next]_vars =>
        [\A j \in Jobs : row[j].state \in TerminalStates => row'[j] = row[j]]_vars
  BY RowWritten
<1>. QED
  BY <1>1, TypeCorrect, PTL DEF Spec, SettledForever

-----------------------------------------------------------------------------
(* Wake-ups.                                                                 *)

HasWakeup(j) ==
  \/ \E m \in queue : m.job = j
  \/ \E w \in Workers : worker[w].pc # "idle" /\ worker[w].job = j
  \/ j \in dlq

(* A wake-up is used up by an acknowledgement only, and only a settled row's *)
(* message is acknowledged; a publisher marks a row whose message it sent.   *)
WakeInv ==
  /\ \A w \in Workers : worker[w].pc = "settle" /\ worker[w].action = "ack" =>
       row[worker[w].job].state \in TerminalStates
  /\ \A j \in Jobs : row[j].state \in {"queued", "processing"} => HasWakeup(j)
  /\ \A j \in Jobs : publisher[j] = "mark" => row[j].state \in TerminalStates \/ HasWakeup(j)

(* The queue keeps a message it takes back, or the dead-letter queue has it. *)
LEMMA GiveBackKeeps ==
  ASSUME NEW j, NEW tries, NEW due, GiveBack(j, tries, due)
  PROVE  /\ queue \subseteq queue' /\ dlq \subseteq dlq'
         /\ (\E m \in queue' : m.job = j) \/ j \in dlq'
<1>. DEFINE m == [job |-> j, tries |-> tries + 1, due |-> due]
<1>1. CASE tries < MaxRetries
  <2>1. queue' = queue \cup {m} /\ dlq' = dlq
    BY <1>1 DEF GiveBack
  <2>2. m \in queue' /\ m.job = j
    BY <2>1
  <2>. QED
    BY <2>1, <2>2
<1>2. CASE ~(tries < MaxRetries)
  BY <1>2 DEF GiveBack
<1>. QED
  BY <1>1, <1>2

(* An isolate that takes a step of process() keeps its message. *)
LEMMA StaysBusy ==
  ASSUME TypeOK, NEW w \in Workers, ConsumeStep(w), ~SettleMessage(w)
  PROVE  worker'[w].pc # "idle" /\ worker'[w].job = worker[w].job /\ OthersKeep(w)
<1>1. CASE ReadRow(w)
  <2>1. CASE worker' = [worker EXCEPT ![w].pc = "claim",
                                     ![w].attempt = row[worker[w].job].attempts + 1]
    BY <2>1 DEF TypeOK, Worker, OthersKeep
  <2>. QED
    BY <1>1, <2>1, SettleEffect, RetryMessageEffect DEF ReadRow
<1>2. CASE ClaimRow(w) \/ MarkDelivered(w) \/ MarkFailed(w) \/ MarkRetry(w)
  BY <1>2, ClaimRowEffect, MarkDeliveredEffect, MarkFailedEffect, MarkRetryEffect
<1>3. CASE ClaimFails(w)
  BY <1>3, RetryMessageEffect DEF ClaimFails
<1>4. ASSUME Enter(w, "recordDelivered") \/ Enter(w, "markDelivered")
      PROVE  worker'[w].pc # "idle" /\ worker'[w].job = worker[w].job /\ OthersKeep(w)
  BY <1>4, EnterEffect
<1>5. ASSUME NEW retryable \in BOOLEAN, Fail(w, retryable)
      PROVE  worker'[w].pc # "idle" /\ worker'[w].job = worker[w].job /\ OthersKeep(w)
  BY <1>5, FailEffect
<1>6. CASE RecordFailed(w)
  BY <1>6, EnterEffect, RetryMessageEffect DEF RecordFailed
<1>7. CASE ReadFence(w)
  BY <1>7, ReadFenceEffect
<1>. QED
  BY <1>1, <1>2, <1>3, <1>4, <1>5, <1>6, <1>7 DEF ConsumeStep, Dispatch, RecordDelivered

(* Only the isolate that steps changes, and it turns to acknowledge only when *)
(* the row is settled.                                                       *)
LEMMA TurnsToAck ==
  ASSUME TypeOK, [Next]_vars, NEW w \in Workers, worker'[w] # worker[w],
         worker'[w].pc = "settle", worker'[w].action = "ack"
  PROVE  row'[worker'[w].job].state \in TerminalStates
<1>0. worker[w].job \in Jobs
  BY DEF TypeOK, Worker
<1>1. ASSUME NEW v \in Workers, Receive(v) PROVE FALSE
  <2>1. worker'[v].pc = "read" /\ OthersKeep(v)
    BY <1>1 DEF Receive, OthersKeep, TypeOK, Idle
  <2>. QED
    BY <2>1 DEF OthersKeep
<1>2. ASSUME NEW v \in Workers, Crash(v) \/ SettleMessage(v) PROVE FALSE
  <2>1. worker'[v].pc = "idle" /\ OthersKeep(v)
    BY <1>2 DEF Crash, SettleMessage, OthersKeep, TypeOK, Idle
  <2>. QED
    BY <2>1 DEF OthersKeep
<1>3. ASSUME NEW v \in Workers, ConsumeStep(v), ~SettleMessage(v)
      PROVE  row'[worker'[w].job].state \in TerminalStates
  <2>1. v = w /\ worker'[w].job = worker[w].job
    BY <1>3, StaysBusy DEF OthersKeep
  <2>2. CASE ReadRow(w)
    <3>1. row' = row
      BY <2>2 DEF ReadRow
    <3>2. ReadOutcome(row[worker[w].job], worker[w].now) = "completed"
      <4>1. CASE worker' = [worker EXCEPT ![w].pc = "claim",
                                         ![w].attempt = row[worker[w].job].attempts + 1]
        BY <4>1 DEF TypeOK, Worker
      <4>. QED
        BY <2>2, <4>1, SettleEffect, RetryMessageEffect DEF ReadRow
    <3>3. row[worker[w].job].state \in TerminalStates
      BY <3>2 DEF ReadOutcome, TerminalStates
    <3>. QED
      BY <2>1, <3>1, <3>3
  <2>3. CASE ClaimRow(w) \/ MarkDelivered(w) \/ MarkFailed(w) \/ MarkRetry(w)
    BY <2>1, <2>3, ClaimRowEffect, MarkDeliveredEffect, MarkFailedEffect, MarkRetryEffect
    DEF TerminalStates
  <2>4. CASE ClaimFails(w)
    BY <2>4, RetryMessageEffect DEF ClaimFails
  <2>5. ASSUME Enter(w, "recordDelivered") \/ Enter(w, "markDelivered") PROVE FALSE
    BY <2>5, EnterEffect
  <2>6. ASSUME NEW retryable \in BOOLEAN, Fail(w, retryable) PROVE FALSE
    BY <2>6, FailEffect
  <2>7. CASE RecordFailed(w)
    BY <2>7, EnterEffect, RetryMessageEffect DEF RecordFailed
  <2>8. CASE ReadFence(w)
    BY <2>1, <2>8, ReadFenceEffect
  <2>. QED
    BY <1>3, <2>1, <2>2, <2>3, <2>4, <2>5, <2>6, <2>7, <2>8
    DEF ConsumeStep, Dispatch, RecordDelivered
<1>4. ASSUME NEW j \in Jobs, PublishStep(j) PROVE FALSE
  BY <1>4, PublishEffect
<1>5. CASE Tick \/ (\E k \in Jobs : Supersede(k)) \/ UNCHANGED vars
  BY <1>5 DEF Tick, Supersede, vars
<1>. QED
  BY <1>1, <1>2, <1>3, <1>4, <1>5 DEF Next

LEMMA TurnsToMark ==
  ASSUME TypeOK, [Next]_vars, NEW j \in Jobs, publisher[j] # "mark", publisher'[j] = "mark"
  PROVE  Send(j)
<1>1. ASSUME NEW k \in Jobs, PublishStep(k) PROVE Send(j)
  BY <1>1 DEF PublishStep, Insert, ReadState, Send, MarkQueued, PublishFails, TypeOK
<1>2. ASSUME NEW w \in Workers, Receive(w) \/ ConsumeStep(w) \/ Crash(w) PROVE FALSE
  BY <1>2 DEF Receive, ConsumeStep, Crash, ReadRow, ClaimRow, ClaimFails, ReadFence, Dispatch,
              RecordDelivered, MarkDelivered, RecordFailed, MarkFailed, MarkRetry, SettleMessage
<1>3. CASE Tick \/ (\E k \in Jobs : Supersede(k)) \/ UNCHANGED vars
  BY <1>3 DEF Tick, Supersede, vars
<1>. QED
  BY <1>1, <1>2, <1>3 DEF Next

(* A row becomes queued or processing by a publisher that sent the message, *)
(* or in the hands of an isolate.                                           *)
LEMMA RowWrittenAwake ==
  ASSUME TypeOK, WakeInv, [Next]_vars, NEW j \in Jobs, row'[j] # row[j],
         row'[j].state \in {"queued", "processing"}
  PROVE  HasWakeup(j)
<1>0. row[j].state \notin TerminalStates /\ row[j] \in Row
  BY RowWritten DEF TypeOK
<1>1. ASSUME NEW k \in Jobs, PublishStep(k) PROVE HasWakeup(j)
  <2>1. k = j /\ publisher[j] = "mark"
    BY <1>1, PublishEffect DEF RowsKeep
  <2>. QED
    BY <1>0, <2>1 DEF WakeInv
<1>2. ASSUME NEW w \in Workers, ConsumeStep(w) PROVE HasWakeup(j)
  <2>1. CASE ClaimRow(w)
    BY <2>1, ClaimRowEffect DEF RowsKeep, HasWakeup
  <2>2. CASE MarkDelivered(w)
    BY <2>2, MarkDeliveredEffect DEF RowsKeep, HasWakeup
  <2>3. CASE MarkFailed(w)
    BY <2>3, MarkFailedEffect DEF RowsKeep, HasWakeup
  <2>4. CASE MarkRetry(w)
    BY <2>4, MarkRetryEffect DEF RowsKeep, HasWakeup
  <2>. QED
    BY <1>2, <2>1, <2>2, <2>3, <2>4
    DEF ConsumeStep, ReadRow, ClaimFails, ReadFence, Dispatch, RecordDelivered, RecordFailed, SettleMessage
<1>3. ASSUME NEW w \in Workers, Receive(w) \/ Crash(w) PROVE FALSE
  BY <1>3 DEF Receive, Crash
<1>4. CASE Tick \/ (\E k \in Jobs : Supersede(k)) \/ UNCHANGED vars
  BY <1>4 DEF Tick, Supersede, vars
<1>. QED
  BY <1>1, <1>2, <1>3, <1>4 DEF Next

(* Every step keeps a wake-up that is not acknowledged. *)
LEMMA WakeupKept ==
  ASSUME TypeOK, [Next]_vars, NEW j \in Jobs, HasWakeup(j), ~HasWakeup(j)'
  PROVE  \E w \in Workers : /\ worker[w].pc = "settle" /\ worker[w].action = "ack"
                            /\ worker[w].job = j
                            /\ row' = row
<1>1. ASSUME NEW k \in Jobs, PublishStep(k) PROVE FALSE
  <2>1. worker' = worker /\ dlq' = dlq
    BY <1>1, PublishEffect
  <2>2. queue \subseteq queue'
    BY <1>1 DEF PublishStep, Insert, ReadState, Send, MarkQueued, PublishFails
  <2>. QED
    BY <2>1, <2>2 DEF HasWakeup
<1>2. ASSUME NEW w \in Workers, Receive(w) PROVE FALSE
  <2>1. PICK m \in queue :
          /\ queue' = queue \ {m} \/ queue' = queue
          /\ worker' = [worker EXCEPT ![w] = [Idle EXCEPT !.pc = "read", !.job = m.job,
                                                         !.tries = m.tries, !.now = clock]]
    BY <1>2 DEF Receive
  <2>2. worker'[w].pc = "read" /\ worker'[w].job = m.job /\ OthersKeep(w)
    BY <2>1 DEF TypeOK, OthersKeep, Idle
  <2>3. worker[w].pc = "idle" /\ dlq' = dlq
    BY <1>2 DEF Receive
  <2>. QED
    BY <2>1, <2>2, <2>3 DEF HasWakeup, OthersKeep
<1>3. ASSUME NEW w \in Workers, ConsumeStep(w), ~SettleMessage(w) PROVE FALSE
  <2>1. queue' = queue /\ dlq' = dlq
    BY <1>3 DEF ConsumeStep, ReadRow, ClaimRow, ClaimFails, ReadFence, Dispatch, RecordDelivered,
                MarkDelivered, RecordFailed, MarkFailed, MarkRetry
  <2>2. worker'[w].pc # "idle" /\ worker'[w].job = worker[w].job /\ OthersKeep(w)
    BY <1>3, StaysBusy
  <2>. QED
    BY <2>1, <2>2 DEF HasWakeup, OthersKeep
<1>4. ASSUME NEW w \in Workers, SettleMessage(w)
      PROVE  /\ worker[w].pc = "settle" /\ worker[w].action = "ack"
             /\ worker[w].job = j
             /\ row' = row
  <2>1. worker[w].pc = "settle" /\ row' = row /\ OthersKeep(w)
    BY <1>4 DEF SettleMessage, OthersKeep, TypeOK
  <2>2. CASE worker[w].action = "ack"
    BY <1>4, <2>1, <2>2 DEF SettleMessage, HasWakeup, OthersKeep
  <2>3. CASE worker[w].action # "ack"
    <3>1. GiveBack(worker[w].job, worker[w].tries, clock + worker[w].delay)
      BY <1>4, <2>3 DEF SettleMessage
    <3>. QED
      BY <2>1, <3>1, GiveBackKeeps DEF HasWakeup, OthersKeep
  <2>. QED
    BY <2>2, <2>3
<1>5. ASSUME NEW w \in Workers, Crash(w) PROVE FALSE
  <2>1. OthersKeep(w) /\ GiveBack(worker[w].job, worker[w].tries, clock)
    BY <1>5 DEF Crash, OthersKeep, TypeOK
  <2>. QED
    BY <2>1, GiveBackKeeps DEF HasWakeup, OthersKeep
<1>6. CASE Tick \/ (\E k \in Jobs : Supersede(k)) \/ UNCHANGED vars
  BY <1>6 DEF Tick, Supersede, vars, HasWakeup
<1>. QED
  BY <1>1, <1>2, <1>3, <1>4, <1>5, <1>6 DEF Next

LEMMA WakeStep == TypeOK /\ WakeInv /\ [Next]_vars => WakeInv'
<1>. SUFFICES ASSUME TypeOK, WakeInv, [Next]_vars PROVE WakeInv'
  OBVIOUS
(* Who turns to acknowledge has just seen or made the row settled. *)
<1>1. ASSUME NEW w \in Workers, worker'[w].pc = "settle", worker'[w].action = "ack"
      PROVE  row'[worker'[w].job].state \in TerminalStates
  <2>1. worker[w].job \in Jobs
    BY DEF TypeOK, Worker
  <2>2. CASE worker'[w] = worker[w]
    BY <1>1, <2>1, <2>2, RowWritten DEF WakeInv
  <2>3. CASE worker'[w] # worker[w]
    BY <1>1, <2>1, <2>3, TurnsToAck
  <2>. QED
    BY <2>2, <2>3
<1>2. ASSUME NEW j \in Jobs, HasWakeup(j)
      PROVE  HasWakeup(j)' \/ row'[j].state \in TerminalStates
  BY <1>2, WakeupKept DEF WakeInv
<1>3. ASSUME NEW j \in Jobs, row'[j].state \in {"queued", "processing"}
      PROVE  HasWakeup(j)'
  <2>1. CASE row'[j] = row[j]
    BY <1>2, <1>3, <2>1 DEF WakeInv, TerminalStates
  <2>2. CASE row'[j] # row[j]
    <3>1. HasWakeup(j)
      BY <1>3, <2>2, RowWrittenAwake DEF WakeInv
    <3>. QED
      BY <1>2, <1>3, <3>1 DEF TerminalStates
  <2>. QED
    BY <2>1, <2>2
<1>4. ASSUME NEW j \in Jobs, publisher'[j] = "mark"
      PROVE  row'[j].state \in TerminalStates \/ HasWakeup(j)'
  <2>1. CASE publisher[j] = "mark"
    BY <1>2, <2>1, RowWritten DEF WakeInv
  <2>2. CASE publisher[j] # "mark"
    <3>1. Send(j)
      BY <1>4, <2>2, TurnsToMark
    <3>2. \E m \in queue' : m.job = j
      <4>. DEFINE m == [job |-> j, tries |-> 0, due |-> clock]
      <4>1. m \in queue' /\ m.job = j
        BY <3>1 DEF Send
      <4>. QED
        BY <4>1
    <3>. QED
      BY <3>2 DEF HasWakeup
  <2>. QED
    BY <2>1, <2>2
<1>. QED
  BY <1>1, <1>3, <1>4 DEF WakeInv

(* A row that is queued or being processed is never forgotten by the queue:  *)
(* its message is waiting, in hand, or in the dead-letter queue.             *)
THEOREM WakeupNotLost == Spec => []NoLostWakeup
<1>1. Init => WakeInv
  BY DEF Init, WakeInv, AbsentRow, Idle
<1>2. WakeInv => NoLostWakeup
  BY DEF WakeInv, NoLostWakeup, HasWakeup
<1>. QED
  BY <1>1, <1>2, WakeStep, TypeCorrect, PTL DEF Spec
-----------------------------------------------------------------------------
(* The five things a step of process() can do to its isolate and its row.    *)

(* It is done with the row, and has not written it. *)
Leaves(w) == row' = row /\ worker'[w].pc \in {"settle", "idle"}

(* It has read a row that it will try to claim. *)
Tries(w) ==
  LET j == worker[w].job IN
  /\ row' = row
  /\ ReadOutcome(row[j], worker[w].now) = "try"
  /\ worker[w].pc = "read" /\ worker'[w].pc = "claim"
  /\ worker'[w].job = j /\ worker'[w].now = worker[w].now
  /\ worker'[w].attempt = row[j].attempts + 1

(* It claims the row. *)
Claims(w) ==
  LET j == worker[w].job IN
  /\ worker[w].pc = "claim" /\ worker'[w].pc = "fence"
  /\ worker'[w].job = j /\ worker'[w].now = worker[w].now
  /\ worker'[w].attempt = worker[w].attempt
  /\ Claimable(row[j], worker[w].now)
  /\ row'[j].state = "processing" /\ row'[j].owner = w
  /\ row'[j].attempts = row[j].attempts + 1
  /\ row'[j].leaseUntil = worker[w].now + Lease

(* It goes on with the row it has claimed. *)
GoesOn(w) ==
  /\ row' = row
  /\ worker[w].pc \in RunningPC /\ worker'[w].pc \in RunningPC \ {"fence"}
  /\ worker'[w].pc = "dispatch" => worker[w].pc = "fence"
  /\ worker'[w].job = worker[w].job /\ worker'[w].now = worker[w].now
  /\ worker'[w].attempt = worker[w].attempt

(* It settles the row, which is still its own. *)
Releases(w) ==
  LET j == worker[w].job IN
  /\ worker[w].pc \in RunningPC /\ worker'[w].pc = "settle"
  /\ HeldBy(row[j], w, worker[w].attempt)
  /\ \/ row'[j].state \in TerminalStates
     \/ row'[j].state = "queued" /\ row'[j].availableAt > clock
  /\ row'[j].attempts = row[j].attempts /\ row'[j].owner = NoWorker

LEMMA ConsumeShapes ==
  ASSUME TypeOK, NEW w \in Workers, ConsumeStep(w)
  PROVE  /\ clock' = clock
         /\ OthersKeep(w)
         /\ RowsKeep(worker[w].job)
         /\ Leaves(w) \/ Tries(w) \/ Claims(w) \/ GoesOn(w) \/ Releases(w)
<1>. DEFINE j == worker[w].job
            Done == /\ OthersKeep(w) /\ RowsKeep(j)
                    /\ Leaves(w) \/ Tries(w) \/ Claims(w) \/ GoesOn(w) \/ Releases(w)
<1>a. clock' = clock
  BY DEF ConsumeStep, ReadRow, ClaimRow, ClaimFails, ReadFence, Dispatch, RecordDelivered, MarkDelivered,
         RecordFailed, MarkFailed, MarkRetry, SettleMessage
<1>b. ASSUME row' = row, NEW action, NEW delay, Settle(w, action, delay) PROVE Done
  BY <1>b, SettleEffect DEF Leaves, RowsKeep
<1>c. ASSUME row' = row, RetryMessage(w) PROVE Done
  BY <1>c, RetryMessageEffect DEF Leaves, RowsKeep
<1>d. ASSUME row' = row, worker[w].pc \in RunningPC, NEW retryable, Fail(w, retryable)
      PROVE  Done
  BY <1>d, FailEffect DEF GoesOn, RowsKeep, RunningPC
<1>e. ASSUME row' = row, worker[w].pc \in RunningPC, NEW pc \in RunningPC \ {"fence", "dispatch"},
             Enter(w, pc)
      PROVE  Done
  BY <1>e, EnterEffect DEF GoesOn, RowsKeep
<1>1. CASE ReadRow(w)
  <2>1. CASE /\ ReadOutcome(row[j], worker[w].now) = "try"
             /\ worker' = [worker EXCEPT ![w].pc = "claim", ![w].attempt = row[j].attempts + 1]
    <3>1. worker[w] \in Worker
      BY DEF TypeOK
    <3>2. /\ worker'[w] = [worker[w] EXCEPT !.pc = "claim", !.attempt = row[j].attempts + 1]
          /\ OthersKeep(w)
      BY <2>1 DEF TypeOK, OthersKeep
    <3>3. /\ worker'[w].pc = "claim" /\ worker'[w].job = j
          /\ worker'[w].now = worker[w].now /\ worker'[w].attempt = row[j].attempts + 1
      BY <3>1, <3>2 DEF Worker
    <3>. QED
      BY <1>1, <2>1, <3>2, <3>3 DEF ReadRow, Tries, RowsKeep
  <2>. QED
    BY <1>1, <1>b, <1>c, <2>1 DEF ReadRow
<1>2. CASE ClaimRow(w)
  <2>1. OthersKeep(w) /\ RowsKeep(j)
    BY <1>2, ClaimRowEffect
  <2>2. Leaves(w) \/ Claims(w)
    BY <1>2, ClaimRowEffect DEF Leaves, Claims
  <2>. QED
    BY <1>a, <2>1, <2>2
<1>3. CASE ClaimFails(w)
  BY <1>3, <1>c DEF ClaimFails
<1>3a. CASE ReadFence(w)
  <2>1. row' = row
    BY <1>3a DEF ReadFence
  <2>2. OthersKeep(w) /\ GoesOn(w)
    BY <1>3a, <2>1, ReadFenceEffect DEF GoesOn, RunningPC
  <2>. QED
    BY <1>a, <2>1, <2>2 DEF RowsKeep
<1>4. CASE Dispatch(w)
  BY <1>4, <1>d, <1>e DEF Dispatch, RunningPC
<1>5. CASE RecordDelivered(w)
  BY <1>5, <1>d, <1>e DEF RecordDelivered, RunningPC
<1>6. CASE MarkDelivered(w)
  <2>1. OthersKeep(w) /\ RowsKeep(j)
    BY <1>6, MarkDeliveredEffect
  <2>2. Releases(w) \/ GoesOn(w)
    BY <1>6, MarkDeliveredEffect DEF Releases, GoesOn, RunningPC, TerminalStates
  <2>. QED
    BY <1>a, <2>1, <2>2
<1>7. CASE RecordFailed(w)
  BY <1>7, <1>c, <1>e DEF RecordFailed, RunningPC
<1>8. CASE MarkFailed(w)
  <2>1. OthersKeep(w) /\ RowsKeep(j)
    BY <1>8, MarkFailedEffect
  <2>2. Releases(w) \/ Leaves(w)
    BY <1>8, MarkFailedEffect DEF Releases, Leaves, RunningPC, TerminalStates
  <2>. QED
    BY <1>a, <2>1, <2>2
<1>9. CASE MarkRetry(w)
  <2>1. OthersKeep(w) /\ RowsKeep(j)
    BY <1>9, MarkRetryEffect
  <2>2. Releases(w) \/ Leaves(w)
    BY <1>9, MarkRetryEffect DEF Releases, Leaves, RunningPC
  <2>. QED
    BY <1>a, <2>1, <2>2
<1>10. CASE SettleMessage(w)
  <2>1. worker'[w].pc = "idle" /\ OthersKeep(w)
    BY <1>10 DEF SettleMessage, OthersKeep, TypeOK, Idle
  <2>. QED
    BY <1>10, <2>1 DEF SettleMessage, Leaves, RowsKeep
<1>. QED
  BY <1>a, <1>1, <1>2, <1>3, <1>3a, <1>4, <1>5, <1>6, <1>7, <1>8, <1>9, <1>10 DEF ConsumeStep

(* The other steps: an isolate begins or is lost, and no row is written. *)
LEMMA ReceiveEffect ==
  ASSUME TypeOK, NEW w \in Workers, Receive(w)
  PROVE  /\ clock' = clock /\ row' = row
         /\ superseded' = superseded /\ effects' = effects
         /\ OthersKeep(w)
         /\ worker[w].pc = "idle" /\ worker'[w].pc = "read" /\ worker'[w].now = clock
  BY DEF Receive, OthersKeep, TypeOK, Idle

LEMMA CrashEffect ==
  ASSUME TypeOK, NEW w \in Workers, Crash(w)
  PROVE  /\ clock' = clock /\ row' = row
         /\ superseded' = superseded /\ effects' = effects
         /\ OthersKeep(w)
         /\ worker'[w].pc = "idle" /\ worker'[w].now = 0
  BY DEF Crash, OthersKeep, TypeOK, Idle

-----------------------------------------------------------------------------
(* The lease.                                                                *)

(* An isolate at work still holds the lease it took, or has outlived it. *)
HoldsLease(w) ==
  LET me == worker[w]
      r == row[me.job]
  IN
  /\ me.pc \in ClaimingPC \cup RunningPC => me.now <= clock
  /\ me.pc \in RunningPC =>
       \/ r.state = "processing" /\ r.owner = w /\ r.leaseUntil = me.now + Lease
       \/ clock >= me.now + Lease

LeaseInv == \A w \in Workers : HoldsLease(w)

LEMMA LeaseConsume ==
  ASSUME TypeOK, LeaseInv, NEW w \in Workers, ConsumeStep(w)
  PROVE  LeaseInv'
<1>. DEFINE j == worker[w].job
<1>0. /\ j \in Jobs /\ clock \in Nat /\ worker[w].now \in Nat /\ row[j] \in Row
      /\ HoldsLease(w)
  BY DEF TypeOK, Worker, LeaseInv
<1>1. /\ clock' = clock /\ OthersKeep(w) /\ RowsKeep(j)
      /\ Leaves(w) \/ Tries(w) \/ Claims(w) \/ GoesOn(w) \/ Releases(w)
  BY ConsumeShapes
<1>2. HoldsLease(w)'
  <2>1. CASE Leaves(w)
    BY <2>1 DEF Leaves, HoldsLease, ClaimingPC, RunningPC
  <2>2. CASE Tries(w)
    BY <1>0, <1>1, <2>2 DEF Tries, HoldsLease, ClaimingPC, RunningPC
  <2>3. CASE Claims(w)
    BY <1>0, <1>1, <2>3 DEF Claims, HoldsLease, ClaimingPC
  <2>4. CASE GoesOn(w)
    BY <1>0, <1>1, <2>4 DEF GoesOn, HoldsLease
  <2>5. CASE Releases(w)
    BY <2>5 DEF Releases, HoldsLease, ClaimingPC, RunningPC
  <2>. QED
    BY <1>1, <2>1, <2>2, <2>3, <2>4, <2>5
<1>3. ASSUME NEW v \in Workers \ {w} PROVE HoldsLease(v)'
  <2>1. /\ worker'[v] = worker[v] /\ HoldsLease(v)
        /\ worker[v].job \in Jobs /\ worker[v].now \in Nat
    BY <1>1 DEF OthersKeep, LeaseInv, TypeOK, Worker
  <2>2. CASE row'[worker[v].job] = row[worker[v].job]
    BY <1>1, <2>1, <2>2 DEF HoldsLease
  <2>3. CASE worker[v].job = j /\ (Claims(w) \/ Releases(w))
    <3>1. CASE Claims(w)
      <4>1. worker[w].now <= clock /\ Claimable(row[j], worker[w].now)
        BY <1>0, <3>1 DEF Claims, HoldsLease, ClaimingPC
      <4>2. ASSUME row[j].state = "processing", row[j].leaseUntil = worker[v].now + Lease
            PROVE  clock >= worker[v].now + Lease
        BY <1>0, <2>1, <4>1, <4>2, TimingAssumption DEF Claimable
      <4>. QED
        BY <1>1, <2>1, <2>3, <4>2 DEF HoldsLease
    <3>2. CASE Releases(w)
      <4>1. row[j].owner # v
        BY <3>2 DEF Releases, HeldBy
      <4>. QED
        BY <1>1, <2>1, <2>3, <4>1 DEF HoldsLease
    <3>. QED
      BY <2>3, <3>1, <3>2
  <2>4. worker[v].job # j => row'[worker[v].job] = row[worker[v].job]
    BY <1>1, <2>1 DEF RowsKeep
  <2>5. Leaves(w) \/ Tries(w) \/ GoesOn(w) => row' = row
    BY DEF Leaves, Tries, GoesOn
  <2>. QED
    BY <1>1, <2>2, <2>3, <2>4, <2>5
<1>. QED
  BY <1>2, <1>3 DEF LeaseInv

LEMMA LeaseStep == TypeOK /\ LeaseInv /\ [Next]_vars => LeaseInv'
<1>. SUFFICES ASSUME TypeOK, LeaseInv, [Next]_vars PROVE LeaseInv'
  OBVIOUS
<1>0. \A w \in Workers : /\ worker[w].job \in Jobs /\ worker[w].now \in Nat
                         /\ row[worker[w].job] \in Row /\ HoldsLease(w)
  BY DEF TypeOK, Worker, LeaseInv
<1>1. ASSUME NEW j \in Jobs, PublishStep(j) PROVE LeaseInv'
  <2>1. clock' = clock /\ worker' = worker /\ RowsKeep(j)
        /\ (row' = row \/ row[j].state \in {"absent", "pending"})
    BY <1>1, PublishEffect
  <2>2. ASSUME NEW w \in Workers PROVE HoldsLease(w)'
    <3>1. row[worker[w].job].state = "processing" => row'[worker[w].job] = row[worker[w].job]
      BY <1>0, <2>1 DEF RowsKeep
    <3>. QED
      BY <1>0, <2>1, <3>1 DEF HoldsLease
  <2>. QED
    BY <2>2 DEF LeaseInv
<1>2. ASSUME NEW w \in Workers, Receive(w) \/ Crash(w) PROVE LeaseInv'
  <2>1. /\ clock' = clock /\ row' = row /\ OthersKeep(w)
        /\ worker'[w].pc \in {"read", "idle"} /\ worker'[w].now <= clock
    BY <1>2, ReceiveEffect, CrashEffect DEF TypeOK
  <2>2. HoldsLease(w)'
    BY <2>1 DEF HoldsLease, ClaimingPC, RunningPC
  <2>3. \A v \in Workers \ {w} : HoldsLease(v)'
    BY <1>0, <2>1 DEF HoldsLease, OthersKeep
  <2>. QED
    BY <2>2, <2>3 DEF LeaseInv
<1>3. ASSUME NEW w \in Workers, ConsumeStep(w) PROVE LeaseInv'
  BY <1>3, LeaseConsume
<1>4. CASE Tick
  <2>1. clock \in Nat /\ clock' = clock + 1 /\ UNCHANGED <<row, worker>>
    BY <1>4 DEF Tick, TypeOK
  <2>2. ASSUME NEW w \in Workers PROVE HoldsLease(w)'
    BY <1>0, <2>1, TimingAssumption DEF HoldsLease
  <2>. QED
    BY <2>2 DEF LeaseInv
<1>5. CASE (\E k \in Jobs : Supersede(k)) \/ UNCHANGED vars
  BY <1>5 DEF Supersede, vars, LeaseInv, HoldsLease
<1>. QED
  BY <1>1, <1>2, <1>3, <1>4, <1>5 DEF Next

(* Two isolates that are both at work on one job are never both inside their *)
(* lease, however many isolates there are and however the queue duplicates   *)
(* their messages.                                                           *)
THEOREM LeaseExcludes == Spec => []LeaseExclusion
<1>1. Init => LeaseInv
  <2>1. Idle.pc \notin ClaimingPC \cup RunningPC
    BY DEF Idle, ClaimingPC, RunningPC
  <2>2. Init => \A w \in Workers : worker[w] = Idle
    BY DEF Init
  <2>. QED
    BY <2>1, <2>2 DEF LeaseInv, HoldsLease
<1>2. LeaseInv => LeaseExclusion
  BY DEF LeaseInv, HoldsLease, LeaseExclusion, Running
<1>. QED
  BY <1>1, <1>2, LeaseStep, TypeCorrect, PTL DEF Spec

-----------------------------------------------------------------------------
(* The attempt numbers.                                                      *)

(* The number an isolate computed from its SELECT is the next one as long as *)
(* its UPDATE can still succeed, and after the UPDATE it is the row's while  *)
(* the row is the isolate's.                                                 *)
KnowsNumber(w) ==
  LET me == worker[w]
      r == row[me.job]
  IN
  /\ me.pc \in ClaimingPC => me.now <= clock /\ clock <= me.now + MaxClaimTime
  /\ me.pc = "claim" =>
       /\ r.state # "absent"
       /\ me.attempt <= r.attempts + 1
       /\ Claimable(r, me.now) => me.attempt = r.attempts + 1
  /\ me.pc \in RunningPC =>
       /\ r.state # "absent"
       /\ me.attempt <= r.attempts
       /\ r.owner = w => me.attempt = r.attempts

NumbersDiffer ==
  \A v, w \in Workers :
    /\ v # w
    /\ worker[v].pc \in RunningPC /\ worker[w].pc \in RunningPC
    /\ worker[v].job = worker[w].job
    => worker[v].attempt # worker[w].attempt

NumberInv == (\A w \in Workers : KnowsNumber(w)) /\ NumbersDiffer

(* An overtaken isolate at its UPDATE: the row is leased past the clock it   *)
(* read, not due before it, or settled, so the UPDATE will fail.             *)
LEMMA NotClaimable ==
  ASSUME NEW r \in Row, NEW now \in Nat,
         \/ r.state = "processing" /\ r.leaseUntil > now
         \/ r.state \in TerminalStates
         \/ r.state = "queued" /\ r.availableAt > now
  PROVE  ~Claimable(r, now)
BY DEF Claimable, TerminalStates, Row

LEMMA NumberConsume ==
  ASSUME MaxClaimTime < Lease, TypeOK, TypeOK', NumberInv, NEW w \in Workers, ConsumeStep(w)
  PROVE  NumberInv'
<1>. DEFINE j == worker[w].job
<1>0. /\ j \in Jobs /\ clock \in Nat /\ row[j] \in Row /\ row'[j] \in Row
      /\ worker[w].now \in Nat /\ worker[w].attempt \in Nat
      /\ KnowsNumber(w)
  BY DEF TypeOK, Worker, NumberInv
<1>1. /\ clock' = clock /\ OthersKeep(w) /\ RowsKeep(j)
      /\ Leaves(w) \/ Tries(w) \/ Claims(w) \/ GoesOn(w) \/ Releases(w)
  BY ConsumeShapes
<1>a. Claims(w) => worker[w].attempt = row[j].attempts + 1
  BY <1>0 DEF Claims, KnowsNumber
<1>2. KnowsNumber(w)'
  <2>1. CASE Leaves(w)
    BY <2>1 DEF Leaves, KnowsNumber, ClaimingPC, RunningPC
  <2>2. CASE Tries(w)
    <3>1. row[j].state # "absent" /\ row[j].attempts \in Nat
      BY <1>0, <2>2 DEF Tries, ReadOutcome, Row
    <3>. QED
      BY <1>0, <1>1, <2>2, <3>1 DEF Tries, KnowsNumber, ClaimingPC, RunningPC
  <2>3. CASE Claims(w)
    BY <1>0, <1>1, <1>a, <2>3 DEF Claims, KnowsNumber, ClaimingPC
  <2>4. CASE GoesOn(w)
    BY <1>0, <1>1, <2>4 DEF GoesOn, KnowsNumber, ClaimingPC, RunningPC
  <2>5. CASE Releases(w)
    BY <2>5 DEF Releases, KnowsNumber, ClaimingPC, RunningPC
  <2>. QED
    BY <1>1, <2>1, <2>2, <2>3, <2>4, <2>5
<1>3. ASSUME NEW v \in Workers \ {w} PROVE KnowsNumber(v)'
  <2>1. /\ worker'[v] = worker[v] /\ KnowsNumber(v)
        /\ worker[v].job \in Jobs /\ worker[v].now \in Nat /\ worker[v].attempt \in Nat
    BY <1>1 DEF OthersKeep, NumberInv, TypeOK, Worker
  <2>2. CASE row'[worker[v].job] = row[worker[v].job]
    BY <1>1, <2>1, <2>2 DEF KnowsNumber
  <2>3. CASE worker[v].job = j /\ (Claims(w) \/ Releases(w))
    <3>1. /\ row[j].attempts \in Nat
          /\ row'[j].state # "absent" /\ row'[j].owner # v
          /\ row'[j].attempts \in {row[j].attempts, row[j].attempts + 1}
      BY <1>0, <2>3, NoWorkerAssumption DEF Claims, Releases, TerminalStates, Row
    <3>2. worker[v].pc = "claim" => ~Claimable(row'[j], worker[v].now)
      <4>. SUFFICES ASSUME worker[v].pc = "claim" PROVE ~Claimable(row'[j], worker[v].now)
        OBVIOUS
      <4>1. worker[v].now <= clock
        BY <2>1 DEF KnowsNumber, ClaimingPC
      <4>2. CASE Claims(w)
        <5>1. clock <= worker[w].now + MaxClaimTime
          BY <1>0, <4>2 DEF Claims, KnowsNumber, ClaimingPC
        <5>2. row'[j].state = "processing" /\ row'[j].leaseUntil > worker[v].now
          BY <1>0, <2>1, <4>1, <4>2, <5>1, TimingAssumption, BoundsAssumption DEF Claims
        <5>. QED
          BY <1>0, <2>1, <5>2, NotClaimable
      <4>3. CASE Releases(w)
        <5>1. \/ row'[j].state \in TerminalStates
              \/ row'[j].state = "queued" /\ row'[j].availableAt > worker[v].now
          BY <1>0, <2>1, <4>1, <4>3 DEF Releases, Row
        <5>. QED
          BY <1>0, <2>1, <5>1, NotClaimable
      <4>. QED
        BY <2>3, <4>2, <4>3
    <3>. QED
      BY <1>1, <2>1, <2>3, <3>1, <3>2 DEF KnowsNumber
  <2>4. worker[v].job # j => row'[worker[v].job] = row[worker[v].job]
    BY <1>1, <2>1 DEF RowsKeep
  <2>5. Leaves(w) \/ Tries(w) \/ GoesOn(w) => row' = row
    BY DEF Leaves, Tries, GoesOn
  <2>. QED
    BY <1>1, <2>2, <2>3, <2>4, <2>5
<1>4. NumbersDiffer'
  <2>1. ASSUME NEW v \in Workers \ {w},
               worker'[v].pc \in RunningPC, worker'[w].pc \in RunningPC,
               worker'[v].job = worker'[w].job
        PROVE  worker'[v].attempt # worker'[w].attempt
    <3>1. /\ worker'[v] = worker[v] /\ KnowsNumber(v) /\ worker[v].attempt \in Nat
          /\ worker'[w].job = j /\ worker'[w].attempt = worker[w].attempt
      BY <1>1, <2>1 DEF OthersKeep, NumberInv, TypeOK, Worker,
                        Leaves, Tries, Claims, GoesOn, Releases, RunningPC
    <3>2. CASE Claims(w)
      BY <1>0, <1>a, <2>1, <3>1, <3>2 DEF KnowsNumber, Row
    <3>3. CASE worker[w].pc \in RunningPC
      BY <2>1, <3>1, <3>3 DEF NumberInv, NumbersDiffer
    <3>. QED
      BY <1>1, <2>1, <3>2, <3>3 DEF Leaves, Tries, GoesOn, Releases, RunningPC
  <2>2. ASSUME NEW u \in Workers \ {w}, NEW v \in Workers \ {w}, u # v,
               worker'[u].pc \in RunningPC, worker'[v].pc \in RunningPC,
               worker'[u].job = worker'[v].job
        PROVE  worker'[u].attempt # worker'[v].attempt
    BY <1>1, <2>2 DEF OthersKeep, NumberInv, NumbersDiffer
  <2>. QED
    BY <2>1, <2>2 DEF NumbersDiffer
<1>. QED
  BY <1>2, <1>3, <1>4 DEF NumberInv

LEMMA NumberStep ==
  ASSUME MaxClaimTime < Lease
  PROVE  TypeOK /\ TypeOK' /\ NumberInv /\ [Next]_vars => NumberInv'
<1>. SUFFICES ASSUME TypeOK, TypeOK', NumberInv, [Next]_vars PROVE NumberInv'
  OBVIOUS
<1>0. \A w \in Workers : /\ worker[w].job \in Jobs /\ worker[w].now \in Nat
                         /\ row[worker[w].job] \in Row /\ KnowsNumber(w)
  BY DEF TypeOK, Worker, NumberInv
<1>1. ASSUME NEW j \in Jobs, PublishStep(j) PROVE NumberInv'
  <2>1. /\ clock' = clock /\ worker' = worker /\ RowsKeep(j)
        /\ \/ row' = row
           \/ row[j].state = "absent"
           \/ row[j].state = "pending" /\ row'[j] = [row[j] EXCEPT !.state = "queued"]
    BY <1>1, PublishEffect
  <2>2. ASSUME NEW w \in Workers PROVE KnowsNumber(w)'
    <3>. DEFINE r == row[worker[w].job]
    <3>1. CASE row'[worker[w].job] = r
      BY <1>0, <2>1, <3>1 DEF KnowsNumber
    <3>2. CASE worker[w].job = j /\ r.state = "absent"
      BY <1>0, <2>1, <3>2 DEF KnowsNumber, RunningPC, ClaimingPC
    <3>3. CASE /\ worker[w].job = j /\ r.state = "pending"
               /\ row'[j] = [row[j] EXCEPT !.state = "queued"]
      <4>1. /\ row'[j].state = "queued" /\ row'[j].attempts = row[j].attempts
            /\ row'[j].owner = row[j].owner /\ row'[j].availableAt = row[j].availableAt
        BY <1>0, <3>3 DEF Row
      <4>2. Claimable(row'[j], worker[w].now) <=> Claimable(row[j], worker[w].now)
        BY <3>3, <4>1 DEF Claimable
      <4>. QED
        BY <1>0, <2>1, <3>3, <4>1, <4>2 DEF KnowsNumber
    <3>. QED
      BY <1>0, <2>1, <3>1, <3>2, <3>3 DEF RowsKeep
  <2>. QED
    BY <2>1, <2>2 DEF NumberInv, NumbersDiffer
<1>2. ASSUME NEW w \in Workers, Receive(w) \/ Crash(w) PROVE NumberInv'
  <2>1. /\ clock' = clock /\ row' = row /\ OthersKeep(w)
        /\ \/ worker'[w].pc = "read" /\ worker'[w].now = clock
           \/ worker'[w].pc = "idle"
    BY <1>2, ReceiveEffect, CrashEffect
  <2>2. KnowsNumber(w)'
    <3>1. clock <= clock + MaxClaimTime /\ clock <= clock
      BY BoundsAssumption DEF TypeOK
    <3>. QED
      BY <2>1, <3>1 DEF KnowsNumber, ClaimingPC, RunningPC
  <2>3. \A v \in Workers \ {w} : KnowsNumber(v)'
    BY <1>0, <2>1 DEF KnowsNumber, OthersKeep
  <2>4. NumbersDiffer'
    BY <2>1 DEF NumberInv, NumbersDiffer, OthersKeep, RunningPC
  <2>. QED
    BY <2>2, <2>3, <2>4 DEF NumberInv
<1>3. ASSUME NEW w \in Workers, ConsumeStep(w) PROVE NumberInv'
  BY <1>3, NumberConsume
<1>4. CASE Tick
  <2>1. /\ clock \in Nat /\ clock' = clock + 1 /\ UNCHANGED <<row, worker>>
        /\ \A w \in Workers : worker[w].pc \in ClaimingPC => clock < worker[w].now + MaxClaimTime
    BY <1>4 DEF Tick, TypeOK
  <2>2. ASSUME NEW w \in Workers PROVE KnowsNumber(w)'
    BY <1>0, <2>1, BoundsAssumption DEF KnowsNumber
  <2>. QED
    BY <2>1, <2>2 DEF NumberInv, NumbersDiffer
<1>5. CASE (\E k \in Jobs : Supersede(k)) \/ UNCHANGED vars
  BY <1>5 DEF Supersede, vars, NumberInv, NumbersDiffer, KnowsNumber
<1>. QED
  BY <1>1, <1>2, <1>3, <1>4, <1>5 DEF Next

(* If the claiming UPDATE follows the read of the clock by less than a       *)
(* lease, no two claims of a job carry one number, and the isolate that owns *)
(* a row always knows the number it must settle it with.                     *)
THEOREM NumbersAgree ==
  ASSUME MaxClaimTime < Lease
  PROVE  Spec => []ClaimsNumbered
<1>1. Init => NumberInv
  BY DEF Init, NumberInv, NumbersDiffer, KnowsNumber, Idle, ClaimingPC, RunningPC
<1>2. NumberInv => ClaimsNumbered
  BY DEF NumberInv, NumbersDiffer, KnowsNumber, ClaimsNumbered, Running
<1>3. TypeOK /\ TypeOK' /\ NumberInv /\ [Next]_vars => NumberInv'
  BY NumberStep
<1>. QED
  BY <1>1, <1>2, <1>3, TypeCorrect, PTL DEF Spec

-----------------------------------------------------------------------------
(* The promise of AtLeastOnce.                                               *)

(* The phase of a job, as Promise reads it from the row. *)
PhaseOf(r) ==
  CASE r.state = "absent" -> "none"
    [] r.state \in OpenStates -> "open"
    [] r.state = "delivered" -> "delivered"
    [] r.state \in {"failed", "dead-letter"} -> "dead"

(* Claims that have not been spent on a provider call yet. *)
BeforeProvider == {"fence", "dispatch"}
Unspent(j) == {w \in Workers : worker[w].pc \in BeforeProvider /\ worker[w].job = j}

(* An isolate does not come to hold an unspent claim. *)
NoNewClaim(w) ==
  worker'[w].pc \in BeforeProvider =>
    worker[w].pc \in BeforeProvider /\ worker'[w].job = worker[w].job

(* Each effect was paid for by a claim of its own. *)
SpendInv ==
  \A j \in Jobs :
    /\ row[j].state = "absent" => row[j].attempts = 0
    /\ row[j].state = "processing" => row[j].attempts > 0
    /\ IsFiniteSet(Unspent(j))
    /\ Cardinality(Unspent(j)) + effects[j] <= row[j].attempts

LEMMA UnspentShrinks ==
  ASSUME NEW w \in Workers, OthersKeep(w), NoNewClaim(w),
         NEW j \in Jobs, IsFiniteSet(Unspent(j))
  PROVE  /\ IsFiniteSet(Unspent(j)') /\ IsFiniteSet(Unspent(j))
         /\ Cardinality(Unspent(j)') \in Nat /\ Cardinality(Unspent(j)) \in Nat
         /\ Cardinality(Unspent(j)') <= Cardinality(Unspent(j))
<1>1. Unspent(j)' \in SUBSET Unspent(j)
  BY DEF Unspent, NoNewClaim, OthersKeep
<1>2. IsFiniteSet(Unspent(j)') /\ Cardinality(Unspent(j)') <= Cardinality(Unspent(j))
  BY <1>1, FS_Subset
<1>. QED
  BY <1>2, FS_CardinalityType

(* A step that claims nothing and spends nothing. *)
LEMMA SpendKept ==
  ASSUME TypeOK, TypeOK', SpendInv, NEW w \in Workers, OthersKeep(w),
         NoNewClaim(w), effects' = effects,
         \A j \in Jobs : /\ row'[j].attempts = row[j].attempts
                         /\ row'[j].state = row[j].state
                            \/ row'[j].state \in TerminalStates \cup {"queued"}
  PROVE  SpendInv'
<1>. SUFFICES ASSUME NEW j \in Jobs
              PROVE  /\ row'[j].state = "absent" => row'[j].attempts = 0
                     /\ row'[j].state = "processing" => row'[j].attempts > 0
                     /\ IsFiniteSet(Unspent(j)')
                     /\ Cardinality(Unspent(j)') + effects'[j] <= row'[j].attempts
  BY DEF SpendInv
<1>1. /\ IsFiniteSet(Unspent(j)') /\ Cardinality(Unspent(j)') \in Nat
      /\ Cardinality(Unspent(j)) \in Nat
      /\ Cardinality(Unspent(j)') <= Cardinality(Unspent(j))
  BY UnspentShrinks DEF SpendInv
<1>2. effects[j] \in Nat /\ row[j].attempts \in Nat
  BY DEF TypeOK, Row
<1>3. row'[j].attempts = row[j].attempts /\ effects'[j] = effects[j]
  OBVIOUS
<1>4. Cardinality(Unspent(j)) + effects[j] <= row[j].attempts
  BY DEF SpendInv
<1>5. Cardinality(Unspent(j)') + effects'[j] <= row'[j].attempts
  BY <1>1, <1>2, <1>3, <1>4
<1>. QED
  BY <1>1, <1>5 DEF SpendInv, TerminalStates

LEMMA SpendClaim ==
  ASSUME TypeOK, TypeOK', SpendInv, NEW w \in Workers, ClaimRow(w)
  PROVE  SpendInv'
<1>. DEFINE j == worker[w].job
<1>0. /\ j \in Jobs /\ effects' = effects /\ OthersKeep(w) /\ RowsKeep(j)
      /\ worker[w].pc = "claim" /\ worker'[w].job = j
  BY ClaimRowEffect DEF ClaimRow, TypeOK, Worker
<1>1. CASE row' = row /\ worker'[w].pc = "settle"
  BY <1>0, <1>1, SpendKept DEF NoNewClaim, BeforeProvider
<1>2. CASE /\ row'[j].state = "processing" /\ row'[j].attempts = row[j].attempts + 1
           /\ worker'[w].pc = "fence"
  <2>1. w \notin Unspent(j) /\ Unspent(j)' = Unspent(j) \cup {w}
    BY <1>0, <1>2 DEF Unspent, BeforeProvider, OthersKeep
  <2>2. /\ IsFiniteSet(Unspent(j)') /\ Cardinality(Unspent(j)) \in Nat
        /\ Cardinality(Unspent(j)') = Cardinality(Unspent(j)) + 1
    BY <1>0, <2>1, FS_AddElement, FS_CardinalityType DEF SpendInv
  <2>3. /\ effects[j] \in Nat /\ row[j].attempts \in Nat /\ effects'[j] = effects[j]
        /\ Cardinality(Unspent(j)) + effects[j] <= row[j].attempts
    BY <1>0 DEF TypeOK, Row, SpendInv
  <2>4. /\ row'[j].attempts > 0
        /\ Cardinality(Unspent(j)') + effects'[j] <= row'[j].attempts
    BY <1>2, <2>2, <2>3
  <2>5. \A k \in Jobs \ {j} : row'[k] = row[k] /\ Unspent(k)' = Unspent(k)
    BY <1>0 DEF Unspent, OthersKeep, RowsKeep
  <2>. QED
    BY <1>0, <1>2, <2>2, <2>4, <2>5 DEF SpendInv
<1>. QED
  BY <1>1, <1>2, ClaimRowEffect

LEMMA DispatchEffect ==
  ASSUME TypeOK, NEW w \in Workers, Dispatch(w)
  PROVE  /\ row' = row /\ OthersKeep(w)
         /\ worker[w].pc = "dispatch" /\ worker'[w].pc \notin BeforeProvider
         /\ \/ effects' = effects
            \/ effects' = [effects EXCEPT ![worker[w].job] = @ + 1]
<1>1. worker'[w].pc \notin BeforeProvider /\ OthersKeep(w)
  <2>1. CASE Enter(w, "recordDelivered")
    BY <2>1, EnterEffect DEF BeforeProvider
  <2>2. ASSUME NEW retryable \in BOOLEAN, Fail(w, retryable)
        PROVE  worker'[w].pc \notin BeforeProvider /\ OthersKeep(w)
    BY <2>2, FailEffect DEF BeforeProvider
  <2>. QED
    BY <2>1, <2>2 DEF Dispatch
<1>. QED
  BY <1>1 DEF Dispatch

LEMMA SpendDispatch ==
  ASSUME TypeOK, TypeOK', SpendInv, NEW w \in Workers, Dispatch(w)
  PROVE  /\ SpendInv'
         /\ effects[worker[w].job] < row[worker[w].job].attempts
<1>. PICK j \in Jobs : j = worker[w].job
  BY DEF TypeOK, Worker
<1>0. effects[j] \in Nat /\ row[j].attempts \in Nat
  BY DEF TypeOK, Row
<1>1. /\ row' = row /\ OthersKeep(w)
      /\ worker[w].pc = "dispatch" /\ worker'[w].pc \notin BeforeProvider
      /\ effects' = effects \/ effects' = [effects EXCEPT ![j] = @ + 1]
  BY DispatchEffect
<1>2. w \in Unspent(j) /\ Unspent(j)' = Unspent(j) \ {w}
  <2>1. w \in Unspent(j) /\ w \notin Unspent(j)'
    BY <1>1 DEF Unspent, BeforeProvider
  <2>2. \A v \in Workers \ {w} : v \in Unspent(j)' <=> v \in Unspent(j)
    BY <1>1 DEF Unspent, OthersKeep
  <2>3. Unspent(j)' \subseteq Workers /\ Unspent(j) \subseteq Workers
    BY DEF Unspent
  <2>. QED
    BY <2>1, <2>2, <2>3
<1>3. /\ IsFiniteSet(Unspent(j)') /\ Cardinality(Unspent(j)') \in Nat
      /\ Cardinality(Unspent(j)) \in Nat
      /\ Cardinality(Unspent(j)') = Cardinality(Unspent(j)) - 1
      /\ Cardinality(Unspent(j)) + effects[j] <= row[j].attempts
  BY <1>0, <1>2, FS_RemoveElement, FS_CardinalityType DEF SpendInv
<1>4. effects[j] < row[j].attempts
  BY <1>0, <1>3
<1>5. CASE effects' = effects
  BY <1>1, <1>4, <1>5, SpendKept DEF NoNewClaim
<1>6. CASE effects' = [effects EXCEPT ![j] = @ + 1]
  <2>1. effects'[j] = effects[j] + 1 /\ \A k \in Jobs \ {j} : effects'[k] = effects[k]
    BY <1>0, <1>6 DEF TypeOK
  <2>2. Cardinality(Unspent(j)') + effects'[j] <= row'[j].attempts
    BY <1>0, <1>1, <1>3, <2>1
  <2>3. \A k \in Jobs \ {j} : Unspent(k)' = Unspent(k)
    BY <1>1 DEF Unspent, OthersKeep
  <2>. QED
    BY <1>1, <1>3, <1>4, <2>1, <2>2, <2>3 DEF SpendInv
<1>. QED
  BY <1>1, <1>5, <1>6

LEMMA SpendConsume ==
  ASSUME TypeOK, TypeOK', SpendInv, NEW w \in Workers, ConsumeStep(w)
  PROVE  SpendInv'
<1>1. CASE ClaimRow(w)
  BY <1>1, SpendClaim
<1>2. CASE Dispatch(w)
  BY <1>2, SpendDispatch
<1>3. CASE ~ClaimRow(w) /\ ~Dispatch(w)
  <2>1. effects' = effects
    BY <1>3 DEF ConsumeStep, ReadRow, ClaimFails, ReadFence, RecordDelivered, MarkDelivered,
                RecordFailed, MarkFailed, MarkRetry, SettleMessage
  <2>2. /\ OthersKeep(w) /\ RowsKeep(worker[w].job)
        /\ Leaves(w) \/ Tries(w) \/ Claims(w) \/ GoesOn(w) \/ Releases(w)
    BY ConsumeShapes
  <2>3. ~Claims(w)
    <3>1. ClaimFails(w) => worker'[w].pc = "settle"
      BY RetryMessageEffect DEF ClaimFails
    <3>. QED
      BY <1>3, <3>1 DEF Claims, ConsumeStep, ReadRow, ReadFence, RecordDelivered,
                        MarkDelivered, RecordFailed, MarkFailed, MarkRetry, SettleMessage
  <2>4. NoNewClaim(w)
    BY <2>2, <2>3 DEF Leaves, Tries, GoesOn, Releases, NoNewClaim, BeforeProvider
  <2>5. \A j \in Jobs : /\ row'[j].attempts = row[j].attempts
                        /\ row'[j].state = row[j].state
                           \/ row'[j].state \in TerminalStates \cup {"queued"}
    BY <2>2, <2>3 DEF Leaves, Tries, GoesOn, Releases, RowsKeep
  <2>. QED
    BY <2>1, <2>2, <2>4, <2>5, SpendKept
<1>. QED
  BY <1>1, <1>2, <1>3

LEMMA SpendStep == TypeOK /\ TypeOK' /\ SpendInv /\ [Next]_vars => SpendInv'
<1>. SUFFICES ASSUME TypeOK, TypeOK', SpendInv, [Next]_vars PROVE SpendInv'
  OBVIOUS
<1>1. ASSUME NEW j \in Jobs, PublishStep(j) PROVE SpendInv'
  <2>1. /\ effects' = effects /\ worker' = worker /\ RowsKeep(j)
        /\ \/ row' = row
           \/ /\ row[j].state = "absent" /\ row'[j].state = "pending"
              /\ row'[j].attempts = 0
           \/ row'[j] = [row[j] EXCEPT !.state = "queued"]
    BY <1>1, PublishEffect
  <2>2. row[j] \in Row /\ SpendInv
    BY DEF TypeOK
  <2>3. /\ row'[j].attempts = row[j].attempts
        /\ row'[j].state = row[j].state \/ row'[j].state \in {"pending", "queued"}
    BY <2>1, <2>2 DEF Row, SpendInv
  <2>4. \A k \in Jobs : Unspent(k)' = Unspent(k)
    BY <2>1 DEF Unspent
  <2>5. \A k \in Jobs : /\ row'[k].attempts = row[k].attempts
                        /\ row'[k].state = row[k].state \/ row'[k].state \in {"pending", "queued"}
    BY <2>1, <2>3 DEF RowsKeep
  <2>. QED
    BY <2>1, <2>4, <2>5 DEF SpendInv
<1>2. ASSUME NEW w \in Workers, Receive(w) \/ Crash(w) PROVE SpendInv'
  <2>1. /\ row' = row /\ effects' = effects /\ OthersKeep(w) /\ NoNewClaim(w)
    BY <1>2, ReceiveEffect, CrashEffect DEF NoNewClaim, BeforeProvider
  <2>. QED
    BY <2>1, SpendKept
<1>3. ASSUME NEW w \in Workers, ConsumeStep(w) PROVE SpendInv'
  BY <1>3, SpendConsume
<1>4. CASE Tick \/ (\E k \in Jobs : Supersede(k)) \/ UNCHANGED vars
  <2>1. UNCHANGED <<row, worker, effects>>
    BY <1>4 DEF Tick, Supersede, vars
  <2>2. \A k \in Jobs : Unspent(k)' = Unspent(k)
    BY <2>1 DEF Unspent
  <2>. QED
    BY <2>1, <2>2 DEF SpendInv
<1>. QED
  BY <1>1, <1>2, <1>3, <1>4 DEF Next

(* The abstract variables. *)
Phase == [j \in Jobs |-> PhaseOf(row[j])]
Granted == [j \in Jobs |-> row[j].attempts]

LEMMA PromiseVars ==
  /\ Promise!vars = <<Phase, Granted, superseded, effects>>
  /\ Promise!vars' = <<Phase', Granted', superseded', effects'>>
BY DEF Promise!vars, Phase, Granted, PhaseOf

(* A step that writes one row moves the abstract variables at its job only. *)
LEMMA OneRow ==
  ASSUME NEW j \in Jobs, RowsKeep(j)
  PROVE  /\ Phase' = [Phase EXCEPT ![j] = PhaseOf(row'[j])]
         /\ Granted' = [Granted EXCEPT ![j] = row'[j].attempts]
         /\ Phase[j] = PhaseOf(row[j])
         /\ Granted[j] = row[j].attempts
<1>1. /\ Phase' = [k \in Jobs |-> PhaseOf(row'[k])]
      /\ Granted' = [k \in Jobs |-> row'[k].attempts]
  BY DEF Phase, Granted, PhaseOf
<1>2. \A k \in Jobs \ {j} : row'[k] = row[k]
  BY DEF RowsKeep
<1>. QED
  BY <1>1, <1>2 DEF Phase, Granted

LEMMA PromiseSubmit ==
  ASSUME NEW j \in Jobs, RowsKeep(j), UNCHANGED <<superseded, effects>>,
         PhaseOf(row[j]) = "none", PhaseOf(row'[j]) = "open",
         row'[j].attempts = row[j].attempts
  PROVE  Promise!Submit(j)
BY OneRow DEF Promise!Submit, Phase, Granted, PhaseOf

LEMMA PromiseClaim ==
  ASSUME NEW j \in Jobs, RowsKeep(j), UNCHANGED <<superseded, effects>>,
         PhaseOf(row[j]) = "open", PhaseOf(row'[j]) = "open",
         row'[j].attempts = row[j].attempts + 1
  PROVE  Promise!Claim(j)
<1>1. Phase' = Phase
  BY OneRow DEF Phase
<1>2. Phase[j] = "open" /\ Granted' = [Granted EXCEPT ![j] = Granted[j] + 1]
  BY OneRow
<1>. QED
  BY <1>1, <1>2 DEF Promise!Claim, Phase, Granted, PhaseOf

LEMMA PromisePerform ==
  ASSUME NEW j \in Jobs, row' = row, superseded' = superseded, effects' = [effects EXCEPT ![j] = @ + 1],
         effects[j] < row[j].attempts
  PROVE  Promise!Perform(j)
BY DEF Promise!Perform, Phase, Granted, PhaseOf

LEMMA PromiseDeliver ==
  ASSUME NEW j \in Jobs, RowsKeep(j), UNCHANGED <<superseded, effects>>,
         PhaseOf(row[j]) = "open", PhaseOf(row'[j]) = "delivered",
         row'[j].attempts = row[j].attempts, Earned(j)
  PROVE  Promise!Deliver(j)
BY OneRow DEF Promise!Deliver, Earned, Phase, Granted, PhaseOf

LEMMA PromiseGiveUp ==
  ASSUME NEW j \in Jobs, RowsKeep(j), UNCHANGED <<superseded, effects>>,
         PhaseOf(row[j]) = "open", PhaseOf(row'[j]) = "dead",
         row'[j].attempts = row[j].attempts, row[j].attempts > 0
  PROVE  Promise!GiveUp(j)
BY OneRow DEF Promise!GiveUp, Phase, Granted, PhaseOf

LEMMA PromiseLapse ==
  ASSUME NEW j \in Jobs, Supersede(j)
  PROVE  Promise!Lapse(j)
BY DEF Supersede, Promise!Lapse, Phase, Granted, PhaseOf

LEMMA PromiseStutter ==
  ASSUME NEW j \in Jobs, RowsKeep(j), UNCHANGED <<superseded, effects>>,
         PhaseOf(row'[j]) = PhaseOf(row[j]), row'[j].attempts = row[j].attempts
  PROVE  UNCHANGED Promise!vars
<1>1. Phase' = Phase /\ Granted' = Granted
  BY OneRow DEF Phase, Granted
<1>. QED
  BY <1>1, PromiseVars

LEMMA PromiseConsume ==
  ASSUME TypeOK, SpendInv, TypeOK', ReportInv, NEW w \in Workers, ConsumeStep(w)
  PROVE  [Promise!Next]_(Promise!vars)
<1>. PICK j \in Jobs : j = worker[w].job
  BY DEF TypeOK, Worker
<1>0. row[j] \in Row
  BY DEF TypeOK
<1>s. superseded' = superseded
  BY DEF ConsumeStep, ReadRow, ClaimRow, ClaimFails, ReadFence, Dispatch, RecordDelivered,
         MarkDelivered, RecordFailed, MarkFailed, MarkRetry, SettleMessage
<1>a. ASSUME row' = row, effects' = effects PROVE UNCHANGED Promise!vars
  BY <1>s, <1>a, PromiseStutter DEF RowsKeep
<1>b. ASSUME HeldBy(row[j], w, worker[w].attempt)
      PROVE  PhaseOf(row[j]) = "open" /\ row[j].attempts > 0
  BY <1>b DEF HeldBy, PhaseOf, OpenStates, SpendInv
<1>1. CASE ClaimRow(w)
  <2>1. effects' = effects /\ RowsKeep(j)
    BY <1>1, ClaimRowEffect DEF ClaimRow
  <2>2. CASE /\ Claimable(row[j], worker[w].now) /\ row'[j].state = "processing"
             /\ row'[j].attempts = row[j].attempts + 1
    <3>1. PhaseOf(row[j]) = "open" /\ PhaseOf(row'[j]) = "open"
      BY <2>2 DEF PhaseOf, Claimable, OpenStates
    <3>. QED
      BY <1>s, <2>1, <2>2, <3>1, PromiseClaim DEF Promise!Next
  <2>. QED
    BY <1>1, <1>a, <2>1, <2>2, ClaimRowEffect
<1>2. CASE Dispatch(w)
  <2>1. row' = row /\ effects[j] < row[j].attempts
    BY <1>2, DispatchEffect, SpendDispatch
  <2>2. CASE effects' = [effects EXCEPT ![j] = @ + 1]
    BY <1>s, <2>1, <2>2, PromisePerform DEF Promise!Next
  <2>. QED
    BY <1>2, <1>a, <2>1, <2>2, DispatchEffect
<1>3. CASE MarkDelivered(w)
  <2>1. effects' = effects /\ RowsKeep(j) /\ Earned(j)
    BY <1>3, MarkDeliveredEffect DEF MarkDelivered, ReportInv
  <2>2. CASE /\ HeldBy(row[j], w, worker[w].attempt)
             /\ row'[j].state = "delivered" /\ row'[j].attempts = row[j].attempts
    <3>1. PhaseOf(row'[j]) = "delivered"
      BY <2>2 DEF PhaseOf, OpenStates
    <3>. QED
      BY <1>s, <1>b, <2>1, <2>2, <3>1, PromiseDeliver DEF Promise!Next
  <2>. QED
    BY <1>3, <1>a, <2>1, <2>2, MarkDeliveredEffect
<1>4. CASE MarkFailed(w)
  <2>1. effects' = effects /\ RowsKeep(j)
    BY <1>4, MarkFailedEffect DEF MarkFailed
  <2>2. CASE /\ HeldBy(row[j], w, worker[w].attempt)
             /\ row'[j].state \in {"failed", "dead-letter"}
             /\ row'[j].attempts = row[j].attempts
    <3>1. PhaseOf(row'[j]) = "dead"
      BY <2>2 DEF PhaseOf, OpenStates
    <3>. QED
      BY <1>s, <1>b, <2>1, <2>2, <3>1, PromiseGiveUp DEF Promise!Next
  <2>. QED
    BY <1>4, <1>a, <2>1, <2>2, MarkFailedEffect
<1>5. CASE MarkRetry(w)
  <2>1. effects' = effects /\ RowsKeep(j)
    BY <1>5, MarkRetryEffect DEF MarkRetry
  <2>2. CASE /\ HeldBy(row[j], w, worker[w].attempt)
             /\ row'[j].state = "queued" /\ row'[j].attempts = row[j].attempts
    <3>1. PhaseOf(row'[j]) = "open"
      BY <2>2 DEF PhaseOf, OpenStates
    <3>. QED
      BY <1>s, <1>b, <2>1, <2>2, <3>1, PromiseStutter
  <2>. QED
    BY <1>5, <1>a, <2>1, <2>2, MarkRetryEffect
<1>6. CASE /\ ~ClaimRow(w) /\ ~Dispatch(w) /\ ~MarkDelivered(w)
           /\ ~MarkFailed(w) /\ ~MarkRetry(w)
  <2>1. row' = row /\ effects' = effects
    BY <1>6 DEF ConsumeStep, ReadRow, ClaimFails, ReadFence, RecordDelivered, RecordFailed, SettleMessage
  <2>. QED
    BY <1>a, <2>1
<1>. QED
  BY <1>1, <1>2, <1>3, <1>4, <1>5, <1>6

LEMMA PromiseStep ==
  TypeOK /\ TypeOK' /\ SpendInv /\ ReportInv /\ [Next]_vars => [Promise!Next]_(Promise!vars)
<1>. SUFFICES ASSUME TypeOK, TypeOK', SpendInv, ReportInv, [Next]_vars
              PROVE  [Promise!Next]_(Promise!vars)
  OBVIOUS
<1>1. ASSUME NEW j \in Jobs, PublishStep(j) PROVE [Promise!Next]_(Promise!vars)
  <2>1. row[j] \in Row /\ UNCHANGED <<superseded, effects>> /\ RowsKeep(j)
    BY <1>1, PublishEffect DEF TypeOK
  <2>2. CASE row[j].state = "absent" /\ row'[j].state = "pending" /\ row'[j].attempts = 0
    <3>1. PhaseOf(row[j]) = "none" /\ PhaseOf(row'[j]) = "open"
      BY <2>2 DEF PhaseOf, OpenStates
    <3>2. row'[j].attempts = row[j].attempts
      BY <2>2 DEF SpendInv
    <3>. QED
      BY <2>1, <3>1, <3>2, PromiseSubmit DEF Promise!Next
  <2>3. CASE row[j].state = "pending" /\ row'[j] = [row[j] EXCEPT !.state = "queued"]
    <3>1. row'[j].state = "queued" /\ row'[j].attempts = row[j].attempts
      BY <2>1, <2>3 DEF Row
    <3>2. PhaseOf(row[j]) = "open" /\ PhaseOf(row'[j]) = "open"
      BY <2>3, <3>1 DEF PhaseOf, OpenStates
    <3>. QED
      BY <2>1, <3>1, <3>2, PromiseStutter
  <2>4. CASE row' = row
    BY <2>1, <2>4, PromiseStutter
  <2>. QED
    BY <1>1, <2>2, <2>3, <2>4, PublishEffect
<1>2. ASSUME NEW w \in Workers, ConsumeStep(w) PROVE [Promise!Next]_(Promise!vars)
  BY <1>2, PromiseConsume
<1>3. ASSUME UNCHANGED <<row, superseded, effects>> PROVE UNCHANGED Promise!vars
  BY <1>3, PromiseVars DEF Phase, Granted, PhaseOf
<1>4. ASSUME NEW w \in Workers, Receive(w) \/ Crash(w)
      PROVE  UNCHANGED <<row, superseded, effects>>
  BY <1>4, ReceiveEffect, CrashEffect
<1>5. CASE Tick \/ UNCHANGED vars
  BY <1>3, <1>5 DEF Tick, vars
<1>6. ASSUME NEW j \in Jobs, Supersede(j) PROVE [Promise!Next]_(Promise!vars)
  BY <1>6, PromiseLapse DEF Promise!Next
<1>. QED
  BY <1>1, <1>2, <1>3, <1>4, <1>5, <1>6 DEF Next

(* The outbox implements AtLeastOnce, with any number of isolates: a provider *)
(* call is paid for by a claim of its own, a job is delivered only after an  *)
(* effect or once its decision was amended, given up only after a claim, and *)
(* it ends once.                                                             *)
THEOREM KeepsPromise == Spec => PromiseSpec
<1>1. Init => Promise!Init
  <2>1. AbsentRow.state = "absent" /\ AbsentRow.attempts = 0
    BY DEF AbsentRow
  <2>2. Init => \A j \in Jobs : row[j] = AbsentRow
    BY DEF Init
  <2>3. Init => Phase = [j \in Jobs |-> "none"] /\ Granted = [j \in Jobs |-> 0]
    <3>1. PhaseOf(AbsentRow) = "none"
      BY <2>1 DEF PhaseOf, OpenStates
    <3>. QED
      BY <2>1, <2>2, <3>1 DEF Phase, Granted
  <2>. QED
    BY <2>3 DEF Init, Promise!Init, Phase, Granted, PhaseOf
<1>2. Init => SpendInv
  <2>1. Idle.pc = "idle"
    BY DEF Idle
  <2>2. ASSUME Init, NEW j \in Jobs PROVE Unspent(j) = {}
    BY <2>1, <2>2 DEF Init, Unspent, BeforeProvider
  <2>3. ASSUME Init, NEW j \in Jobs
        PROVE  row[j].state = "absent" /\ row[j].attempts = 0 /\ effects[j] = 0
    BY <2>3 DEF Init, AbsentRow
  <2>. QED
    BY <2>2, <2>3, FS_EmptySet DEF SpendInv
<1>. QED
  BY <1>1, <1>2, TypeCorrect, ReportCorrect, SpendStep, PromiseStep, PTL
  DEF Spec, PromiseSpec, Promise!Spec
=============================================================================
