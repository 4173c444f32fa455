--------------------------- MODULE EvaluationExport ---------------------------
(***************************************************************************)
(* Evaluation result exports.  A request commits an export run and its     *)
(* reports outbox row in one D1 batch and publishes a wake-up; a consumer  *)
(* isolate claims the row, then the run, generates the file, writes it to  *)
(* R2 under a key that carries its attempt, completes the run and settles  *)
(* the row; a cron sweep takes back rows whose run has not ended.  The run *)
(* and the row are fenced separately, and R2 is not part of any            *)
(* transaction.                                                            *)
(*                                                                         *)
(* The queue is abstracted to the set of runs that have a wake-up in it:   *)
(* it may deliver one early, twice, or drop it to the dead-letter queue    *)
(* when the consumer gives it back (OutboxConsumer has the queue in full). *)
(***************************************************************************)
EXTENDS OutboxJobs, FiniteSets

CONSTANTS
  Runs,             \* export runs, one per tenant and idempotency key
  Requests,         \* API calls under way
  Sweeps,           \* cron invocations under way
  ProcessAttempts,  \* the literal 5 of the reports adapter
  MaxRequests,      \* bound: API calls in a behaviour
  MaxFaults,        \* bound: failing D1 and R2 calls and lost isolates
  MaxClock,         \* bound: the last tick
  MaxClaimTime,     \* longest time between reading the clock and the claiming UPDATE
  MaxRunTime        \* bound: longest time an isolate works on one message

ASSUME RunsAssumption == Runs # {}
ASSUME BoundsAssumption ==
  /\ ProcessAttempts \in Nat \ {0}
  /\ MaxRequests \in Nat /\ MaxFaults \in Nat /\ MaxClock \in Nat
  /\ MaxClaimTime \in Nat /\ MaxRunTime \in Nat

VARIABLES
  clock,
  run,        \* evaluation_export_runs
  row,        \* outbox_jobs with topic 'reports'
  artifacts,  \* keys of the files in R2, per run
  wake,       \* runs with a message in the queue
  worker,     \* consumer isolates
  publisher,  \* API calls and sweeps, at their stage of publishing
  requests,   \* API calls so far
  faults      \* infrastructure failures so far

vars == <<clock, run, row, artifacts, wake, worker, publisher, requests, faults>>

Ended == {"ready", "failed"}

NoAttempt == 0   \* processor_attempt or artifact_key IS NULL

Run == [status : {"absent", "queued", "running"} \cup Ended,
        attempt : Nat,    \* processor_attempt
        artifact : Nat]   \* artifact_key, which is the run and an attempt

WorkingPC == {"claimRun", "generate", "put", "completeReady", "completeFailed",
              "failProcessing", "markDelivered", "markFailed", "markRetry"}

Worker == [pc : WorkingPC \cup {"idle", "read", "claim"},
           run : Runs, now : Nat, attempt : Nat]

(* What a sweep saw of a run and its row. *)
Snapshot == [run : Run, row : Row]

Publishers == Requests \cup Sweeps

Publisher == [pc : {"idle", "persisted", "select", "recover", "pending", "send", "mark"},
              run : Runs,
              created : BOOLEAN,            \* this call inserted the run
              time : Nat,                   \* recoveryTime of a sweep
              todo : SUBSET Runs,           \* runs a sweep still has to recover
              seen : [Runs -> Snapshot]]

TypeOK ==
  /\ clock \in Nat
  /\ run \in [Runs -> Run]
  /\ row \in [Runs -> Row]
  /\ artifacts \in [Runs -> SUBSET Nat]
  /\ wake \in SUBSET Runs
  /\ worker \in [Workers -> Worker]
  /\ publisher \in [Publishers -> Publisher]
  /\ requests \in Nat
  /\ faults \in Nat

AbsentRun == [status |-> "absent", attempt |-> NoAttempt, artifact |-> NoAttempt]

AnyRun == CHOOSE r \in Runs : TRUE

IdleWorker == [pc |-> "idle", run |-> AnyRun, now |-> 0, attempt |-> 0]

IdlePublisher == [pc |-> "idle", run |-> AnyRun, created |-> FALSE, time |-> 0, todo |-> {},
                  seen |-> [r \in Runs |-> [run |-> AbsentRun, row |-> AbsentRow]]]

Init ==
  /\ clock = 0
  /\ run = [r \in Runs |-> AbsentRun]
  /\ row = [r \in Runs |-> AbsentRow]
  /\ artifacts = [r \in Runs |-> {}]
  /\ wake = {}
  /\ worker = [w \in Workers |-> IdleWorker]
  /\ publisher = [p \in Publishers |-> IdlePublisher]
  /\ requests = 0
  /\ faults = 0

Fault == faults < MaxFaults /\ faults' = faults + 1
NoFault == faults' = faults

-----------------------------------------------------------------------------
(* EvaluationExportCoordinator.request and the store's create.               *)

(* The batch inserts the run and its row together, or neither. *)
Create(p, r) ==
  /\ publisher[p].pc = "idle"
  /\ requests < MaxRequests
  /\ requests' = requests + 1
  /\ LET created == run[r].status = "absent" IN
       /\ run' = IF created THEN [run EXCEPT ![r].status = "queued"] ELSE run
       /\ row' = IF created THEN [row EXCEPT ![r] = PendingRow(clock)] ELSE row
       /\ publisher' = [publisher EXCEPT
                          ![p].pc = "persisted", ![p].run = r, ![p].created = created]
  /\ UNCHANGED <<clock, artifacts, wake, worker, faults>>

(* The SELECT after the batch: a new run is published, and so is an old one *)
(* that is still queued.                                                    *)
ReadPersisted(p) ==
  LET me == publisher[p] IN
  /\ me.pc = "persisted"
  /\ publisher' = [publisher EXCEPT
                     ![p].pc = IF me.created \/ run[me.run].status = "queued"
                                 THEN "pending" ELSE "idle"]
  /\ UNCHANGED <<clock, run, row, artifacts, wake, worker, requests, faults>>

-----------------------------------------------------------------------------
(* CloudflareEvaluationExportQueue.enqueue, called by requests and sweeps.   *)

(* A request returns; a sweep goes on with the next run it selected. *)
AfterPublish(p) ==
  IF publisher[p].todo = {} THEN IdlePublisher ELSE [publisher[p] EXCEPT !.pc = "recover"]

ReadPending(p) ==
  LET me == publisher[p] IN
  /\ me.pc = "pending"
  /\ publisher' = [publisher EXCEPT
                     ![p] = IF row[me.run].state = "pending"
                              THEN [me EXCEPT !.pc = "send"] ELSE AfterPublish(p)]
  /\ UNCHANGED <<clock, run, row, artifacts, wake, worker, requests, faults>>

SendWake(p) ==
  /\ publisher[p].pc = "send"
  /\ wake' = wake \cup {publisher[p].run}
  /\ publisher' = [publisher EXCEPT ![p].pc = "mark"]
  /\ UNCHANGED <<clock, run, row, artifacts, worker, requests, faults>>

MarkQueued(p) ==
  LET r == publisher[p].run IN
  /\ publisher[p].pc = "mark"
  /\ row' = IF row[r].state = "pending" THEN [row EXCEPT ![r].state = "queued"] ELSE row
  /\ publisher' = [publisher EXCEPT ![p] = AfterPublish(p)]
  /\ UNCHANGED <<clock, run, artifacts, wake, worker, requests, faults>>

(* A D1 or queue call throws.  The request fails; a sweep logs it and goes on. *)
PublishFails(p) ==
  /\ publisher[p].pc \in {"pending", "send", "mark"}
  /\ Fault
  /\ publisher' = [publisher EXCEPT ![p] = AfterPublish(p)]
  /\ UNCHANGED <<clock, run, row, artifacts, wake, worker, requests>>

(* The isolate of a request or of a sweep is lost. *)
PublisherCrash(p) ==
  /\ publisher[p].pc # "idle"
  /\ Fault
  /\ publisher' = [publisher EXCEPT ![p] = IdlePublisher]
  /\ UNCHANGED <<clock, run, row, artifacts, wake, worker, requests>>

-----------------------------------------------------------------------------
(* dispatchPendingEvaluationExportJobs                                       *)

(* Cron passes the time it was scheduled for. *)
StartSweep(s) ==
  /\ publisher[s].pc = "idle"
  /\ publisher' = [publisher EXCEPT ![s].pc = "select", ![s].time = clock]
  /\ UNCHANGED <<clock, run, row, artifacts, wake, worker, requests, faults>>

(* Mutant: only rows the consumer would still claim. *)
RecoverableOpen(r, time) ==
  /\ run[r].status \in {"queued", "running"}
  /\ row[r].availableAt <= time
  /\ \/ row[r].state \in {"pending", "queued"}
     \/ row[r].state = "processing" /\ row[r].leaseUntil <= time

Recoverable(r, time) ==
  /\ run[r].status \in {"queued", "running"}
  /\ row[r].availableAt <= time
  /\ \/ row[r].state \in {"pending", "queued", "failed", "dead-letter"}
     \/ row[r].state = "processing" /\ row[r].leaseUntil <= time
     \/ row[r].state = "delivered" /\ run[r].status = "running"

Select(s) ==
  LET found == {r \in Runs : Recoverable(r, publisher[s].time)} IN
  /\ publisher[s].pc = "select"
  /\ publisher' = [publisher EXCEPT
       ![s] = IF found = {} THEN IdlePublisher
              ELSE [publisher[s] EXCEPT
                      !.pc = "recover", !.todo = found,
                      !.seen = [r \in Runs |-> IF r \in found
                                  THEN [run |-> run[r], row |-> row[r]]
                                  ELSE publisher[s].seen[r]]]]
  /\ UNCHANGED <<clock, run, row, artifacts, wake, worker, requests, faults>>

SameRow(r, seen) ==
  /\ row[r].state = seen.row.state
  /\ row[r].attempts = seen.row.attempts
  /\ row[r].owner = seen.row.owner
  /\ row[r].leaseUntil = seen.row.leaseUntil

(* Mutant: the run is not compared. *)
SameRunAssumed(r, seen) == run[r].status # "absent" /\ seen.run.status # "absent"

SameRun(r, seen) ==
  /\ run[r].status = seen.run.status
  /\ run[r].attempt = seen.run.attempt

Requeued(x) == [x EXCEPT !.status = "queued", !.attempt = NoAttempt]

(* One batch: the run goes back to queued if it and its row are as they were *)
(* selected; the row goes back to pending if it is.                          *)
Recover(s, r) ==
  LET me == publisher[s]
      seen == me.seen[r]
  IN
  /\ me.pc = "recover"
  /\ r \in me.todo
  /\ run' = IF SameRun(r, seen) /\ SameRow(r, seen)
              THEN [run EXCEPT ![r] = Requeued(@)]
              ELSE run
  /\ row' = IF SameRow(r, seen)
              THEN [row EXCEPT ![r] = [Released(@, "pending") EXCEPT !.availableAt = me.time]]
              ELSE row
  /\ LET rest == [me EXCEPT !.todo = @ \ {r}, !.run = r] IN
       publisher' = [publisher EXCEPT
                       ![s] = IF SameRow(r, seen) THEN [rest EXCEPT !.pc = "pending"]
                              ELSE IF rest.todo = {} THEN IdlePublisher ELSE rest]
  /\ UNCHANGED <<clock, artifacts, wake, worker, requests, faults>>

-----------------------------------------------------------------------------
(* The consumer with the reports adapter.                                    *)

Enter(w, pc) == worker' = [worker EXCEPT ![w].pc = pc]

(* Settling the message: acknowledged, or given back and perhaps dropped. *)
Ack(w) ==
  /\ worker' = [worker EXCEPT ![w] = IdleWorker]
  /\ wake' = wake

GiveBack(w) ==
  /\ worker' = [worker EXCEPT ![w] = IdleWorker]
  /\ wake' \in {wake, wake \cup {worker[w].run}}

(* The catch of process(); the status recorder ignores reports. *)
Retry(w) == Enter(w, IF worker[w].attempt >= MaxAttempts THEN "markFailed" ELSE "markRetry")

(* The catch of the reports adapter. *)
Throw(w) ==
  IF worker[w].attempt < ProcessAttempts THEN Retry(w) ELSE Enter(w, "failProcessing")

(* A message of the run arrives; the queue may deliver it once more. *)
Receive(w, r) ==
  /\ worker[w].pc = "idle"
  /\ r \in wake
  /\ \/ wake' = wake \ {r} /\ NoFault
     \/ wake' = wake /\ Fault
  /\ worker' = [worker EXCEPT ![w] = [pc |-> "read", run |-> r, now |-> clock, attempt |-> 0]]
  /\ UNCHANGED <<clock, run, row, artifacts, publisher, requests>>

ReadRow(w) ==
  LET me == worker[w]
      outcome == ReadOutcome(row[me.run], me.now)
  IN
  /\ me.pc = "read"
  /\ \/ outcome = "completed" /\ Ack(w)
     \/ outcome \in {"dead_lettered", "not_due", "busy"} /\ GiveBack(w)
     \/ /\ outcome = "try"
        /\ worker' = [worker EXCEPT ![w].pc = "claim", ![w].attempt = row[me.run].attempts + 1]
        /\ wake' = wake
  /\ UNCHANGED <<clock, run, row, artifacts, publisher, requests, faults>>

ClaimRow(w) ==
  LET me == worker[w]
      r == row[me.run]
  IN
  /\ me.pc = "claim"
  /\ \/ /\ Claimable(r, me.now)
        /\ row' = [row EXCEPT ![me.run] = Claimed(r, w, me.now)]
        /\ Enter(w, "claimRun")
        /\ wake' = wake
     \/ /\ ~Claimable(r, me.now)
        /\ row' = row
        /\ GiveBack(w)
  /\ UNCHANGED <<clock, run, artifacts, publisher, requests, faults>>

(* The store's claim takes a queued run, or one an earlier attempt left. *)
RunIsFree(w) ==
  LET x == run[worker[w].run] IN
  x.status = "queued" \/ (x.status = "running" /\ x.attempt < worker[w].attempt)

TakeRun(w) ==
  run' = [run EXCEPT ![worker[w].run].status = "running",
                     ![worker[w].run].attempt = worker[w].attempt]

(* A run that is not the isolate's to work on ends process(). *)
ClaimRun(w) ==
  /\ worker[w].pc = "claimRun"
  /\ \/ RunIsFree(w) /\ TakeRun(w) /\ Enter(w, "generate")
     \/ ~RunIsFree(w) /\ run' = run /\ Enter(w, "markDelivered")
  /\ UNCHANGED <<clock, row, artifacts, wake, publisher, requests, faults>>

(* The generator answers, refuses for good, or fails in another way. *)
Generate(w) ==
  /\ worker[w].pc = "generate"
  /\ Enter(w, "put") \/ Enter(w, "completeFailed") \/ Throw(w)
  /\ UNCHANGED <<clock, run, row, artifacts, wake, publisher, requests, faults>>

(* The key of the file of an attempt; mutant: one key per run. *)
ArtifactKeyOfRun(attempt) == IF attempt = NoAttempt THEN NoAttempt ELSE 1
ArtifactKey(attempt) == attempt

PutArtifact(w) ==
  LET me == worker[w] IN
  /\ me.pc = "put"
  /\ artifacts' = [artifacts EXCEPT ![me.run] = @ \cup {ArtifactKey(me.attempt)}]
  /\ Enter(w, "completeReady")
  /\ UNCHANGED <<clock, run, row, wake, publisher, requests, faults>>

(* The fence of completeReady and completeFailed. *)
RunHeldBy(r, attempt) == run[r].status = "running" /\ run[r].attempt = attempt

EndRun(r, attempt, status, artifact) ==
  run' = IF RunHeldBy(r, attempt)
           THEN [run EXCEPT ![r].status = status, ![r].artifact = artifact]
           ELSE run

(* process() does not look at what completeReady returns. *)
CompleteReady(w) ==
  LET me == worker[w] IN
  /\ me.pc = "completeReady"
  /\ EndRun(me.run, me.attempt, "ready", ArtifactKey(me.attempt))
  /\ Enter(w, "markDelivered")
  /\ UNCHANGED <<clock, row, artifacts, wake, publisher, requests, faults>>

CompleteFailed(w) ==
  LET me == worker[w] IN
  /\ me.pc = "completeFailed"
  /\ EndRun(me.run, me.attempt, "failed", NoAttempt)
  /\ Enter(w, "markDelivered")
  /\ UNCHANGED <<clock, row, artifacts, wake, publisher, requests, faults>>

(* Mutant: the row is settled whether or not the run ended. *)
FailProcessingQuietly(w) ==
  LET me == worker[w] IN
  /\ me.pc = "failProcessing"
  /\ EndRun(me.run, me.attempt, "failed", NoAttempt)
  /\ Enter(w, "markDelivered")
  /\ UNCHANGED <<clock, row, artifacts, wake, publisher, requests, faults>>

(* The last attempt ends the run, or reports the failure if it cannot. *)
FailProcessing(w) ==
  LET me == worker[w] IN
  /\ me.pc = "failProcessing"
  /\ EndRun(me.run, me.attempt, "failed", NoAttempt)
  /\ IF RunHeldBy(me.run, me.attempt) THEN Enter(w, "markDelivered") ELSE Retry(w)
  /\ UNCHANGED <<clock, row, artifacts, wake, publisher, requests, faults>>

(* A D1 or R2 call of the adapter throws, or its answer is lost after it   *)
(* was applied.                                                            *)
ProcessFails(w) ==
  LET me == worker[w]
      unchanged == run' = run /\ artifacts' = artifacts
  IN
  /\ Fault
  /\ \/ /\ me.pc \in {"claimRun", "put", "completeReady", "completeFailed"}
        /\ unchanged
        /\ Throw(w)
     \/ /\ me.pc = "claimRun"
        /\ RunIsFree(w)
        /\ TakeRun(w)
        /\ artifacts' = artifacts
        /\ Throw(w)
     \/ /\ me.pc = "put"
        /\ artifacts' = [artifacts EXCEPT ![me.run] = @ \cup {ArtifactKey(me.attempt)}]
        /\ run' = run
        /\ Throw(w)
     \/ /\ me.pc = "completeReady"
        /\ EndRun(me.run, me.attempt, "ready", ArtifactKey(me.attempt))
        /\ artifacts' = artifacts
        /\ Throw(w)
     \/ /\ me.pc = "failProcessing"
        /\ unchanged
        /\ Retry(w)
  /\ UNCHANGED <<clock, row, wake, publisher, requests>>

MarkDelivered(w) ==
  LET me == worker[w]
      r == row[me.run]
  IN
  /\ me.pc = "markDelivered"
  /\ \/ /\ HeldBy(r, w, me.attempt)
        /\ row' = [row EXCEPT ![me.run] = Released(r, "delivered")]
        /\ Ack(w)
     \/ /\ ~HeldBy(r, w, me.attempt)
        /\ row' = row
        /\ Retry(w)
        /\ wake' = wake
  /\ UNCHANGED <<clock, run, artifacts, publisher, requests, faults>>

MarkFailed(w) ==
  LET me == worker[w]
      r == row[me.run]
  IN
  /\ me.pc = "markFailed"
  /\ row' = IF HeldBy(r, w, me.attempt)
              THEN [row EXCEPT ![me.run] = Released(r, "dead-letter")] ELSE row
  /\ GiveBack(w)
  /\ UNCHANGED <<clock, run, artifacts, publisher, requests, faults>>

MarkRetry(w) ==
  LET me == worker[w]
      r == row[me.run]
  IN
  /\ me.pc = "markRetry"
  /\ row' = IF HeldBy(r, w, me.attempt)
              THEN [row EXCEPT ![me.run] = [Released(r, "queued") EXCEPT
                                              !.availableAt = clock + Backoff(me.attempt)]]
              ELSE row
  /\ GiveBack(w)
  /\ UNCHANGED <<clock, run, artifacts, publisher, requests, faults>>

(* The isolate is lost, or a D1 call of the outbox repository throws. *)
Crash(w) ==
  /\ worker[w].pc # "idle"
  /\ Fault
  /\ GiveBack(w)
  /\ UNCHANGED <<clock, run, row, artifacts, publisher, requests>>

-----------------------------------------------------------------------------
(* Time passes while an unfinished run has to wait for it, or under a step. *)
TimeMatters ==
  \/ \E r \in Runs : /\ run[r].status \in {"queued", "running"}
                     /\ row[r].availableAt > clock \/ row[r].leaseUntil > clock
  \/ \E w \in Workers : worker[w].pc # "idle"

Tick ==
  /\ clock < MaxClock
  /\ TimeMatters
  /\ \A w \in Workers :
       /\ worker[w].pc \in {"read", "claim"} => clock < worker[w].now + MaxClaimTime
       /\ worker[w].pc \in WorkingPC => clock < worker[w].now + MaxRunTime
  /\ clock' = clock + 1
  /\ UNCHANGED <<run, row, artifacts, wake, worker, publisher, requests, faults>>

RequestStep(p) == ReadPersisted(p) \/ ReadPending(p) \/ SendWake(p) \/ MarkQueued(p)

SweepStep(s) ==
  \/ Select(s) \/ (\E r \in Runs : Recover(s, r))
  \/ ReadPending(s) \/ SendWake(s) \/ MarkQueued(s)

WorkStep(w) ==
  \/ ReadRow(w) \/ ClaimRow(w) \/ ClaimRun(w) \/ Generate(w) \/ PutArtifact(w)
  \/ CompleteReady(w) \/ CompleteFailed(w) \/ FailProcessing(w)
  \/ MarkDelivered(w) \/ MarkFailed(w) \/ MarkRetry(w)

Next ==
  \/ \E p \in Requests : RequestStep(p) \/ \E r \in Runs : Create(p, r)
  \/ \E s \in Sweeps : SweepStep(s) \/ StartSweep(s)
  \/ \E p \in Publishers : PublishFails(p) \/ PublisherCrash(p)
  \/ \E w \in Workers :
       \/ \E r \in Runs : Receive(w, r)
       \/ WorkStep(w) \/ ProcessFails(w) \/ Crash(w)
  \/ Tick

Spec == Init /\ [][Next]_vars

(* Cron comes again and again and a started sweep runs on; the queue         *)
(* delivers; isolates run on; time passes, however many messages come and go *)
(* (SF).  Nothing is assumed of API calls.                                   *)
Fairness ==
  /\ \A s \in Sweeps : WF_vars(StartSweep(s)) /\ WF_vars(SweepStep(s))
  /\ \A w \in Workers : /\ WF_vars(WorkStep(w))
                        /\ WF_vars(\E r \in Runs : Receive(w, r))
  /\ SF_vars(Tick)

FairSpec == Spec /\ Fairness

-----------------------------------------------------------------------------
(* Properties *)

Working(w, r) == worker[w].pc \in WorkingPC /\ worker[w].run = r

(* The outbox row says delivered only when the run has ended: no export is  *)
(* left unfinished by a row that the consumer acknowledges as completed.    *)
DeliveredHasEnded ==
  \A r \in Runs : row[r].state = "delivered" => run[r].status \in Ended

(* A download of a ready run finds its file, and nobody is about to write   *)
(* it again: completeReady runs after the file was written, and the key     *)
(* carries the attempt of the isolate that completed the run.               *)
ReadyFileIsFinal ==
  \A r \in Runs : run[r].status = "ready" =>
    /\ run[r].artifact \in artifacts[r]
    /\ \A w \in Workers : Working(w, r) /\ worker[w].pc \in {"generate", "put"}
                             => ArtifactKey(worker[w].attempt) # run[r].artifact

(* A run ends once: neither an overtaken isolate nor a sweep that selected  *)
(* it earlier reopens or rewrites it.                                       *)
EndedForever ==
  [][\A r \in Runs : run[r].status \in Ended => run'[r] = run[r]]_vars

(* Every requested export ends, whatever is lost between D1, the queue and  *)
(* R2: the sweep takes back what nobody works on.                           *)
RequestedRunsEnd ==
  \A r \in Runs : run[r].status = "queued" ~> run[r].status \in Ended
=============================================================================
