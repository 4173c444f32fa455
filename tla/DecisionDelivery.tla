--------------------------- MODULE DecisionDelivery ---------------------------
(***************************************************************************)
(* What a decision on one submission sets in motion.  recordDecision       *)
(* commits the decision and a work row in one batch; consumer isolates     *)
(* replay the work (audience of the participants, mail to them, session)   *)
(* and deliver the mails, each fenced by the version of the decision,      *)
(* while the organizer may amend the decision and edit the session.  One   *)
(* step is one D1 statement or batch, one queue call or one provider call. *)
(***************************************************************************)
EXTENDS Integers, Sequences, FiniteSets

CONSTANTS
  Workers,       \* consumer isolates
  NoWorker,      \* lease_owner IS NULL
  MaxDecisions,  \* bound: the decision and its amendments
  MaxAttempts,   \* claims of one row before a failure is terminal
  MaxEdits,      \* bound: edits of the session by the organizer
  MaxFaults      \* bound: failures, and isolates, leases, publications and messages lost

ASSUME BoundsAssumption ==
  /\ NoWorker \notin Workers
  /\ MaxDecisions \in Nat \ {0} /\ MaxAttempts \in Nat \ {0}
  /\ MaxEdits \in Nat /\ MaxFaults \in Nat

Versions == 1 .. MaxDecisions
Topics == {"work", "mail"}
Statuses == {"accepted", "rejected"}   \* a waitlisted one is treated like a rejected one

VARIABLES
  decision,   \* statuses decided so far; the version is their number
  row,        \* outbox_jobs, by topic and decision version
  messages,   \* <<topic, version>> of the messages in Cloudflare Queue
  dlq,        \* those that the queue moved to the dead-letter queue
  audience,   \* version whose audience the participants are in
  session,    \* the session of the submission
  worker,     \* what each isolate is doing
  publisher,  \* versions whose recordDecision has yet to publish
  sweep,      \* the row the cron trigger has sent a message for
  mailed,     \* versions whose mail was sent (history)
  edits, faults

vars == <<decision, row, messages, dlq, audience, session, worker, publisher, sweep,
          mailed, edits, faults>>

GivenUp == {"failed", "dead-letter"}
Row == [state : {"absent", "pending", "queued", "processing", "delivered"} \cup GivenUp,
        owner : Workers \cup {NoWorker}, expired : BOOLEAN, attempts : Nat]
Absent == [state |-> "absent", owner |-> NoWorker, expired |-> FALSE, attempts |-> 0]
Session == [status : {"none"} \cup Statuses, version : Nat]
Worker == [pc : {"idle", "audience", "stage", "fence", "send", "markQueued",
                 "readSession", "writeSession", "retry", "reject", "settle",
                 "readFence", "provider"},
           topic : Topics, version : Versions, seen : Session]
NoSession == [status |-> "none", version |-> 0]
NoWork == [pc |-> "idle", topic |-> "work", version |-> 1, seen |-> NoSession]
NoSweep == [version |-> 0, row |-> Absent]

TypeOK ==
  /\ decision \in Seq(Statuses) /\ Len(decision) <= MaxDecisions
  /\ row \in [Topics -> [Versions -> Row]]
  /\ messages \subseteq Topics \X Versions /\ dlq \subseteq Topics \X Versions
  /\ audience \in 0 .. MaxDecisions
  /\ session \in Session
  /\ worker \in [Workers -> Worker]
  /\ publisher \subseteq Versions
  /\ sweep \in [version : 0 .. MaxDecisions, row : Row]
  /\ mailed \subseteq Versions
  /\ edits \in 0 .. MaxEdits /\ faults \in 0 .. MaxFaults

Init ==
  /\ decision = <<>> /\ messages = {} /\ dlq = {} /\ audience = 0 /\ publisher = {} /\ mailed = {}
  /\ row = [t \in Topics |-> [v \in Versions |-> Absent]]
  /\ session = NoSession
  /\ worker = [w \in Workers |-> NoWork]
  /\ sweep = NoSweep /\ edits = 0 /\ faults = 0

(* Mutant: an amended decision still counts as current. *)
CurrentEver(v) == v <= Len(decision)

(* The fence: the decision has this version (and so this status). *)
Current(v) == v = Len(decision)

SetRow(t, v, r) == row' = [row EXCEPT ![t] = [row[t] EXCEPT ![v] = r]]
GoTo(w, pc) == worker' = [worker EXCEPT ![w].pc = pc, ![w].seen = NoSession]
At(w, pc) == worker[w].pc = pc

-----------------------------------------------------------------------------
(* putDecision: the decision, its history and the work row in one batch. *)
Decide(status) ==
  /\ Len(decision) < MaxDecisions
  /\ decision' = Append(decision, status)
  /\ SetRow("work", Len(decision'), [Absent EXCEPT !.state = "pending"])
  /\ publisher' = publisher \cup {Len(decision')}
  /\ UNCHANGED <<messages, dlq, audience, session, worker, sweep, mailed, edits, faults>>

(* publishEvaluationDecisionJob: the message, then the state (a consumer *)
(* that is quicker leaves nothing to mark).                              *)
PublishWork(v) ==
  /\ v \in publisher
  /\ publisher' = publisher \ {v}
  /\ IF row["work"][v].state \in {"pending", "queued"}
       THEN /\ messages' = messages \cup {<<"work", v>>}
            /\ SetRow("work", v, [row["work"][v] EXCEPT !.state = "queued"])
       ELSE UNCHANGED <<messages, row>>
  /\ UNCHANGED <<decision, dlq, audience, session, worker, sweep, mailed, edits, faults>>

(* The request ends between its batch and the publication. *)
PublicationLost(v) ==
  /\ v \in publisher /\ faults < MaxFaults
  /\ publisher' = publisher \ {v}
  /\ faults' = faults + 1
  /\ UNCHANGED <<decision, row, messages, dlq, audience, session, worker,
                 sweep, mailed, edits>>

(* The cron trigger selects a row and sends its message ... *)
Stranded(r) == r.state = "pending" \/ (r.state = "processing" /\ r.expired)

SweepSend(v) ==
  /\ sweep = NoSweep /\ Stranded(row["work"][v]) /\ v \notin publisher
  /\ sweep' = [version |-> v, row |-> row["work"][v]]
  /\ messages' = messages \cup {<<"work", v>>}
  /\ UNCHANGED <<decision, row, dlq, audience, session, worker, publisher,
                 mailed, edits, faults>>

(* ... and gives it back to the queue if nobody claimed it meanwhile. *)
Unchanged(v) == row["work"][v] = sweep.row

SweepMark ==
  /\ sweep # NoSweep
  /\ IF Unchanged(sweep.version)
       THEN SetRow("work", sweep.version,
              [sweep.row EXCEPT !.state = "queued", !.owner = NoWorker, !.expired = FALSE])
       ELSE UNCHANGED row
  /\ sweep' = NoSweep
  /\ UNCHANGED <<decision, messages, dlq, audience, session, worker, publisher,
                 mailed, edits, faults>>

-----------------------------------------------------------------------------
(* The consumer's claim, as OutboxConsumer has it in full: a message stays *)
(* in the queue until its row is settled or its retries are used up, a     *)
(* claim until its lease is over.                                          *)

Claimable(r) == r.state \in {"pending", "queued"} \/ (r.state = "processing" /\ r.expired)

Claim(w, t, v) ==
  /\ At(w, "idle") /\ <<t, v>> \in messages /\ Claimable(row[t][v])
  /\ SetRow(t, v, [state |-> "processing", owner |-> w, expired |-> FALSE,
                   attempts |-> row[t][v].attempts + 1])
  /\ worker' = [worker EXCEPT ![w] = [NoWork EXCEPT
       !.pc = IF t = "work" THEN "audience" ELSE "readFence", !.topic = t, !.version = v]]
  /\ UNCHANGED <<decision, messages, dlq, audience, session, publisher,
                 sweep, mailed, edits, faults>>

(* A message whose row is delivered or failed is acknowledged. *)
Acknowledge(t, v) ==
  /\ <<t, v>> \in messages /\ row[t][v].state \in {"delivered", "failed"}
  /\ messages' = messages \ {<<t, v>>}
  /\ UNCHANGED <<decision, row, dlq, audience, session, worker, publisher,
                 sweep, mailed, edits, faults>>

(* A message is redelivered until its retries are used up, and then goes to *)
(* the dead-letter queue: always if its row is there, else after faults.    *)
DeadLetter(t, v) ==
  /\ <<t, v>> \in messages
  /\ \/ row[t][v].state = "dead-letter" /\ UNCHANGED faults
     \/ row[t][v].state # "dead-letter" /\ faults < MaxFaults /\ faults' = faults + 1
  /\ messages' = messages \ {<<t, v>>}
  /\ dlq' = dlq \cup {<<t, v>>}
  /\ UNCHANGED <<decision, row, audience, session, worker, publisher, sweep, mailed, edits>>

(* An isolate is lost; or it outlives its lease and goes on. *)
Lose(w) ==
  /\ ~At(w, "idle") /\ faults < MaxFaults
  /\ faults' = faults + 1
  /\ worker' = [worker EXCEPT ![w] = NoWork]
  /\ UNCHANGED <<decision, row, messages, dlq, audience, session, publisher,
                 sweep, mailed, edits>>

AtWork(t, v) ==
  LET w == row[t][v].owner
  IN w # NoWorker /\ ~At(w, "idle") /\ worker[w].topic = t /\ worker[w].version = v

LeaseEnds(t, v) ==
  /\ row[t][v].state = "processing" /\ ~row[t][v].expired
  /\ SetRow(t, v, [row[t][v] EXCEPT !.expired = TRUE])
  /\ UNCHANGED <<decision, messages, dlq, audience, session, worker, publisher,
                 sweep, mailed, edits>>

Abandoned(t, v) == ~AtWork(t, v) /\ LeaseEnds(t, v) /\ UNCHANGED faults
Overtaken(t, v) ==
  AtWork(t, v) /\ faults < MaxFaults /\ LeaseEnds(t, v) /\ faults' = faults + 1

-----------------------------------------------------------------------------
(* replayPersistedDecisionWork and the handlers it calls. *)

Version(w) == worker[w].version

(* Every statement of the batch has the fence; then it is read once more.  *)
(* The read before, of a superseded decision that has nothing left to do,  *)
(* finds nothing that this one does not.                                   *)
SetAudience(w) ==
  /\ At(w, "audience")
  /\ audience' = IF Current(Version(w)) THEN Version(w) ELSE audience
  /\ GoTo(w, IF Current(Version(w)) THEN "stage" ELSE "settle")
  /\ UNCHANGED <<decision, row, messages, dlq, session, publisher,
                 sweep, mailed, edits, faults>>

(* Mutant: a mail that was staged before is taken for sent. *)
StageOnce(w) ==
  LET v == Version(w) IN
  /\ At(w, "stage")
  /\ IF Current(v) /\ row["mail"][v].state = "absent"
       THEN SetRow("mail", v, [Absent EXCEPT !.state = "pending"]) /\ GoTo(w, "fence")
       ELSE GoTo(w, "readSession") /\ UNCHANGED row
  /\ UNCHANGED <<decision, messages, dlq, audience, session, publisher,
                 sweep, mailed, edits, faults>>

(* stageCloudflareOutbox: insert unless it exists or the fence fails, then *)
(* its state; only a pending row is published.                             *)
Stage(w) ==
  LET v == Version(w) IN
  /\ At(w, "stage")
  /\ IF Current(v) /\ row["mail"][v].state = "absent"
       THEN SetRow("mail", v, [Absent EXCEPT !.state = "pending"])
       ELSE UNCHANGED row
  /\ GoTo(w, IF row'["mail"][v].state = "pending" THEN "fence" ELSE "readSession")
  /\ UNCHANGED <<decision, messages, dlq, audience, session, publisher,
                 sweep, mailed, edits, faults>>

Fence(w) ==
  /\ At(w, "fence")
  /\ GoTo(w, IF Current(Version(w)) THEN "send" ELSE "readSession")
  /\ UNCHANGED <<decision, row, messages, dlq, audience, session, publisher,
                 sweep, mailed, edits, faults>>

Send(w) ==
  /\ At(w, "send")
  /\ messages' = messages \cup {<<"mail", Version(w)>>}
  /\ GoTo(w, "markQueued")
  /\ UNCHANGED <<decision, row, dlq, audience, session, publisher,
                 sweep, mailed, edits, faults>>

MarkQueued(w) ==
  LET r == row["mail"][Version(w)] IN
  /\ At(w, "markQueued")
  /\ SetRow("mail", Version(w), IF r.state = "pending" THEN [r EXCEPT !.state = "queued"] ELSE r)
  /\ GoTo(w, "readSession")
  /\ UNCHANGED <<decision, messages, dlq, audience, session, publisher,
                 sweep, mailed, edits, faults>>

Status(w) == decision[Version(w)]

(* upsertAcceptedSession and reconcileDecisionSessionStatus: what is as it *)
(* should be is left alone; a session that does not exist is only created. *)
Agrees(w, s) == s.status = Status(w) \/ (Status(w) = "rejected" /\ s.status = "none")

ReadSession(w) ==
  /\ At(w, "readSession")
  /\ worker' = [worker EXCEPT ![w].seen = session,
       ![w].pc = CASE ~Current(Version(w)) -> "retry"
                   [] Current(Version(w)) /\ Agrees(w, session) -> "settle"
                   [] OTHER -> "writeSession"]
  /\ UNCHANGED <<decision, row, messages, dlq, audience, session, publisher,
                 sweep, mailed, edits, faults>>

(* Mutant: the commit compares the version and forgets the fence. *)
WritableUnfenced(w) == session.version = worker[w].seen.version

Writable(w) == session.version = worker[w].seen.version /\ Current(Version(w))

(* One batch.  An acceptance reads again after a conflict (three times); a *)
(* rejection leaves it to the next attempt of the job.                     *)
WriteSession(w) ==
  /\ At(w, "writeSession")
  /\ IF Writable(w)
       THEN /\ session' = [status |-> Status(w), version |-> session.version + 1]
            /\ GoTo(w, "settle")
       ELSE /\ UNCHANGED session
            /\ GoTo(w, IF Status(w) = "accepted" THEN "readSession" ELSE "retry")
  /\ UNCHANGED <<decision, row, messages, dlq, audience, publisher,
                 sweep, mailed, edits, faults>>

-----------------------------------------------------------------------------
(* The mail: the fence is read, then the provider is called. *)
ReadFence(w) ==
  /\ At(w, "readFence")
  /\ GoTo(w, IF Current(Version(w)) THEN "provider" ELSE "settle")
  /\ UNCHANGED <<decision, row, messages, dlq, audience, session, publisher,
                 sweep, mailed, edits, faults>>

CallProvider(w) ==
  /\ At(w, "provider")
  /\ mailed' = mailed \cup {Version(w)}
  /\ GoTo(w, "settle")
  /\ UNCHANGED <<decision, row, messages, dlq, audience, session, publisher,
                 sweep, edits, faults>>

(* A handler, the provider or D1 fails, before its effect or after it; what *)
(* fails for good does so before markDelivered.                             *)
Throw(w, retryable) ==
  /\ worker[w].pc \notin {"idle", "retry", "reject"} /\ faults < MaxFaults
  /\ ~retryable => ~At(w, "settle")
  /\ faults' = faults + 1
  /\ GoTo(w, IF retryable THEN "retry" ELSE "reject")
  /\ UNCHANGED <<decision, row, messages, dlq, audience, session, publisher, sweep, mailed, edits>>

(* The catch of process(): what cannot be retried, or was on its last      *)
(* attempt, is given up.                                                   *)
Outcome(w, r) ==
  CASE At(w, "settle") -> "delivered"
    [] At(w, "reject") -> "failed"
    [] At(w, "retry")  -> IF r.attempts >= MaxAttempts THEN "dead-letter" ELSE "queued"

(* markDelivered, markFailed and markRetry, fenced by the owner and the    *)
(* attempt (an isolate that was overtaken has neither).                    *)
Settle(w) ==
  LET t == worker[w].topic  v == Version(w)  r == row[t][v] IN
  /\ worker[w].pc \in {"settle", "retry", "reject"}
  /\ IF r.state = "processing" /\ r.owner = w
       THEN SetRow(t, v, [r EXCEPT !.owner = NoWorker, !.expired = FALSE, !.state = Outcome(w, r)])
       ELSE UNCHANGED row
  /\ worker' = [worker EXCEPT ![w] = NoWork]
  /\ UNCHANGED <<decision, messages, dlq, audience, session, publisher, sweep,
                 mailed, edits, faults>>

(* The organizer edits the content of the session. *)
EditSession ==
  /\ session.status # "none" /\ edits < MaxEdits
  /\ session' = [session EXCEPT !.version = @ + 1]
  /\ edits' = edits + 1
  /\ UNCHANGED <<decision, row, messages, dlq, audience, worker, publisher,
                 sweep, mailed, faults>>

Step(w) ==
  \/ SetAudience(w) \/ Stage(w) \/ Fence(w) \/ Send(w) \/ MarkQueued(w)
  \/ ReadSession(w) \/ WriteSession(w) \/ ReadFence(w) \/ CallProvider(w) \/ Settle(w)

Next ==
  \/ \E s \in Statuses : Decide(s)
  \/ \E v \in Versions : PublishWork(v) \/ PublicationLost(v) \/ SweepSend(v)
  \/ SweepMark
  \/ \E w \in Workers : Step(w) \/ Lose(w) \/ \E retryable \in BOOLEAN : Throw(w, retryable)
  \/ \E t \in Topics, v \in Versions :
       \/ Acknowledge(t, v) \/ DeadLetter(t, v) \/ Abandoned(t, v) \/ Overtaken(t, v)
       \/ \E w \in Workers : Claim(w, t, v)
  \/ EditSession

Spec == Init /\ [][Next]_vars

(* Isolates run on, the cron trigger keeps firing, a lease ends, a message  *)
(* is delivered until it is acknowledged.  Nobody must decide or edit.      *)
Fairness ==
  /\ WF_vars(\E v \in Versions : PublishWork(v))
  /\ WF_vars(\E v \in Versions : SweepSend(v)) /\ WF_vars(SweepMark)
  /\ \A w \in Workers : WF_vars(Step(w))
  /\ WF_vars(\E t \in Topics, v \in Versions : Acknowledge(t, v) \/ Abandoned(t, v))
  /\ WF_vars(\E t \in Topics, v \in Versions, w \in Workers : Claim(w, t, v))

FairSpec == Spec /\ Fairness

-----------------------------------------------------------------------------
Last == Len(decision)
SessionAgrees == IF session.status = "none" THEN decision[Last] = "rejected"
                 ELSE session.status = decision[Last]

(* Once the work of the latest decision is delivered, the participants are  *)
(* in its audience, its mail is staged and the session has its status, and  *)
(* this stays so: the work of an earlier decision that was overtaken, or is *)
(* repeated after a crash, changes none of them (runDecisionWork, and the   *)
(* decision fence of the audience batch and of the session commit).         *)
DeliveredIsProjected ==
  Last > 0 /\ row["work"][Last].state = "delivered" =>
    audience = Last /\ row["mail"][Last].state # "absent" /\ SessionAgrees

(* The audience never goes back to that of an earlier decision.             *)
AudienceNeverOlder == [][audience' >= audience]_vars

(* The row of the latest decision was given up (an exhausted or a refused   *)
(* job), or its message is only in the dead-letter queue and the row is in a *)
(* state from which no sweep takes it.                                      *)
Dropped(t, states) ==
  \/ row[t][Last].state \in GivenUp
  \/ row[t][Last].state \in states /\ <<t, Last>> \in dlq \ messages

(* The latest decision takes effect and its mail is delivered, whichever    *)
(* requests and isolates were lost on the way.  The exceptions are those of *)
(* the code: a job that failed for good or too often, and a message that    *)
(* went to the dead-letter queue; the cron sweep still recovers the work    *)
(* row that is pending or was left processing, never one that is queued,    *)
(* and nothing recovers a mail (dispatchPendingEvaluationDecisionJobs).     *)
LatestTakesEffect ==
  <>[](Last > 0 =>
         \/ Dropped("work", {"queued"})
         \/ /\ row["work"][Last].state = "delivered"
            /\ \/ Dropped("mail", {"queued", "processing"})
               \/ row["mail"][Last].state = "delivered" /\ Last \in mailed)
=============================================================================
