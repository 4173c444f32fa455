------------------------- MODULE CommunicationDelivery -------------------------
(***************************************************************************)
(* One communication send.  An API call creates it and puts each           *)
(* recipient's delivery in the outbox; another call retries what failed;   *)
(* consumer isolates record what became of each job.  All of them read the *)
(* whole send, change one delivery of their copy and write all of it back  *)
(* with saveSend, which guards on the updated_at it has read itself.       *)
(*                                                                         *)
(* The outbox is reduced to the state of each job: one isolate works on a  *)
(* job at a time, and a lost wake-up is not modelled (OutboxConsumer has   *)
(* both in full).                                                          *)
(***************************************************************************)
EXTENDS Integers, Sequences, FiniteSets

CONSTANTS
  Recipients,
  Calls,        \* API calls: sendGroup, sendTransactional, retryFailed
  Workers,      \* consumer isolates
  MaxAttempts,  \* DEFAULT_MAX_ATTEMPTS of the outbox
  MaxCalls,     \* bound: API calls in a behaviour
  MaxClaims,    \* bound: claims of one job
  MaxFaults     \* bound: lost isolates and failing enqueues

ASSUME WritersAssumption == Calls \cap Workers = {}
ASSUME RecipientsAssumption == Recipients # {}  \* a send to nobody is refused
ASSUME BoundsAssumption ==
  MaxAttempts \in Nat \ {0} /\ MaxCalls \in Nat /\ MaxClaims \in Nat /\ MaxFaults \in Nat

VARIABLES
  created,   \* the send is in D1
  version,   \* communication_sends.updated_at
  status,    \* communication_deliveries.status
  events,    \* communication_delivery_history, by ordinal
  job,       \* state of the outbox row of each recipient
  claims,    \* its attempt_count
  writer,    \* calls and isolates under way
  calls,     \* API calls so far
  faults     \* lost isolates and failing enqueues so far

vars == <<created, version, status, events, job, claims, writer, calls, faults>>

Status == {"queued", "delivered", "failed"}

(* A pending row has no message in the queue.  An open one has: it is queued, *)
(* or processing under a lease that ran out, or pending for a moment.         *)
Job == {"none", "pending", "open", "claimed", "delivered", "dead"}

Writers == Calls \cup Workers

Parts == {"deliveries", "history"}

Writer == [pc : {"idle", "create", "dispatch", "read", "next", "version", "save", "mark"},
           todo : SUBSET Recipients,          \* recipients a call still has to enqueue
           target : Recipients,               \* the delivery being changed
           outcome : Status,                  \* what the isolate reports of it
           unread : SUBSET Parts,             \* parts of the send still to be read
           status : [Recipients -> Status],   \* the copy of the send
           events : [Recipients -> Seq(Status)],
           version : Nat]                     \* the updated_at that saveSend read

TypeOK ==
  /\ created \in BOOLEAN
  /\ version \in Nat
  /\ status \in [Recipients -> Status]
  /\ events \in [Recipients -> Seq(Status)]
  /\ job \in [Recipients -> Job]
  /\ claims \in [Recipients -> Nat]
  /\ writer \in [Writers -> Writer]
  /\ calls \in Nat
  /\ faults \in Nat

Idle == [pc |-> "idle", todo |-> {}, target |-> CHOOSE r \in Recipients : TRUE,
         outcome |-> "queued", unread |-> {},
         status |-> [r \in Recipients |-> "queued"], events |-> [r \in Recipients |-> <<>>],
         version |-> 0]

Init ==
  /\ created = FALSE
  /\ version = 0
  /\ status = [r \in Recipients |-> "queued"]
  /\ events = [r \in Recipients |-> <<>>]
  /\ job = [r \in Recipients |-> "none"]
  /\ claims = [r \in Recipients |-> 0]
  /\ writer = [p \in Writers |-> Idle]
  /\ calls = 0
  /\ faults = 0

Fault == faults < MaxFaults /\ faults' = faults + 1
NoFault == faults' = faults

Become(p, w) == writer' = [writer EXCEPT ![p] = w]

-----------------------------------------------------------------------------
(* Reading and writing a send: D1CommunicationRepository.                    *)

(* getSend reads the parts of a send in one Promise.all. *)
ReadPart(p, part) ==
  LET me == writer[p] IN
  /\ me.pc = "read"
  /\ part \in me.unread
  /\ Become(p, [me EXCEPT !.unread = @ \ {part},
                          !.status = IF part = "deliveries" THEN status ELSE @,
                          !.events = IF part = "history" THEN events ELSE @])
  /\ UNCHANGED <<created, version, status, events, job, claims, calls, faults>>

(* The copy with a new status and history entry for one recipient, on its way *)
(* to saveSend: applyDeliveryResult and the end of recordDeliveryStatus.      *)
Changed(me, r, s) ==
  [me EXCEPT !.pc = "version", !.target = r,
             !.status[r] = s, !.events[r] = Append(@, s)]

ReadVersion(p) ==
  /\ writer[p].pc = "version"
  /\ Become(p, [writer[p] EXCEPT !.pc = "save", !.version = version])
  /\ UNCHANGED <<created, version, status, events, job, claims, calls, faults>>

(* Mutant: an entry that has its ordinal is replaced. *)
HistoryReplaced(me) == me.target \in Recipients

(* A new history entry keeps its ordinal to itself: the primary key is       *)
(* (send, recipient, ordinal), and ON CONFLICT (id) forgives only entries    *)
(* that are already there.                                                   *)
HistoryFits(me) == Len(me.events[me.target]) = Len(events[me.target]) + 1

Saved(me) == me.version = version /\ HistoryFits(me)

(* The batch writes the status of every delivery in the copy. *)
Write(me) ==
  /\ version' = version + 1
  /\ status' = me.status
  /\ events' = [events EXCEPT ![me.target] = me.events[me.target]]

-----------------------------------------------------------------------------
(* API calls                                                                 *)

StartSend(c) ==
  /\ writer[c].pc = "idle"
  /\ ~created
  /\ calls < MaxCalls
  /\ calls' = calls + 1
  /\ Become(c, [Idle EXCEPT !.pc = "create"])
  /\ UNCHANGED <<created, version, status, events, job, claims, faults>>

(* createSend: one insert wins, and a call that finds the send returns it. *)
Create(c) ==
  LET queued == [r \in Recipients |-> <<"queued">>] IN
  /\ writer[c].pc = "create"
  /\ IF created
       THEN /\ Become(c, Idle)
            /\ UNCHANGED <<created, version, events>>
       ELSE /\ created' = TRUE
            /\ version' = version + 1
            /\ events' = queued
            /\ Become(c, [Idle EXCEPT !.pc = "next", !.todo = Recipients, !.events = queued])
  /\ UNCHANGED <<status, job, claims, calls, faults>>

StartRetry(c) ==
  /\ writer[c].pc = "idle"
  /\ created
  /\ calls < MaxCalls
  /\ calls' = calls + 1
  /\ Become(c, [Idle EXCEPT !.pc = "read", !.unread = Parts])
  /\ UNCHANGED <<created, version, status, events, job, claims, faults>>

(* retryFailed delivers to the recipients that its copy says failed. *)
Retry(c) ==
  LET me == writer[c]
      failed == {r \in Recipients : me.status[r] = "failed"}
  IN
  /\ c \in Calls
  /\ me.pc = "read"
  /\ me.unread = {}
  /\ Become(c, IF failed = {} THEN Idle ELSE [me EXCEPT !.pc = "next", !.todo = failed])
  /\ UNCHANGED <<created, version, status, events, job, claims, calls, faults>>

(* What is left of a job by an adapter that does not return. *)
HalfEnqueued(r) == IF job[r] \in {"none", "pending"} THEN {job[r], "pending", "open"} ELSE {job[r]}

(* One round of deliverSend: the adapter publishes a job that is still       *)
(* pending and leaves any other as it is; the delivery is queued, or failed  *)
(* if a call of the adapter fails, before or after the queue took the job.   *)
Enqueue(c, r) ==
  LET me == writer[c]
      rest == [me EXCEPT !.todo = @ \ {r}]
  IN
  /\ me.pc = "next"
  /\ r \in me.todo
  /\ \/ /\ NoFault
        /\ job' = IF job[r] \in {"none", "pending"} THEN [job EXCEPT ![r] = "open"] ELSE job
        /\ Become(c, Changed(rest, r, "queued"))
     \/ /\ Fault
        /\ \E j \in HalfEnqueued(r) : job' = [job EXCEPT ![r] = j]
        /\ Become(c, Changed(rest, r, "failed"))
  /\ UNCHANGED <<created, version, status, events, claims, calls>>

(* A conflict ends the call, whatever is left to do. *)
SaveRound(c) ==
  LET me == writer[c] IN
  /\ c \in Calls
  /\ me.pc = "save"
  /\ IF Saved(me)
       THEN /\ Write(me)
            /\ Become(c, IF me.todo = {} THEN Idle ELSE [me EXCEPT !.pc = "next"])
       ELSE /\ UNCHANGED <<version, status, events>>
            /\ Become(c, Idle)
  /\ UNCHANGED <<created, job, claims, calls, faults>>

LoseCall(c) ==
  /\ writer[c].pc # "idle"
  /\ Fault
  /\ Become(c, Idle)
  /\ \/ job' = job
     \/ /\ writer[c].pc = "next"
        /\ \E r \in writer[c].todo : \E j \in HalfEnqueued(r) : job' = [job EXCEPT ![r] = j]
  /\ UNCHANGED <<created, version, status, events, claims, calls>>

-----------------------------------------------------------------------------
(* Consumer isolates                                                         *)

Claim(w, r) ==
  /\ writer[w].pc = "idle"
  /\ job[r] = "open"
  /\ claims[r] < MaxClaims
  /\ job' = [job EXCEPT ![r] = "claimed"]
  /\ claims' = [claims EXCEPT ![r] = @ + 1]
  /\ Become(w, [Idle EXCEPT !.pc = "dispatch", !.target = r])
  /\ UNCHANGED <<created, version, status, events, calls, faults>>

(* recordCommunicationStatus begins. *)
Report(w, outcome) ==
  /\ Become(w, [Idle EXCEPT !.pc = "read", !.target = writer[w].target,
                            !.outcome = outcome, !.unread = Parts])
  /\ job' = job

(* The isolate leaves the job to be claimed again: markRetry, or a lease that *)
(* runs out.                                                                  *)
LeaveJob(w) ==
  /\ Become(w, Idle)
  /\ job' = [job EXCEPT ![writer[w].target] = "open"]

Fail(w, retryable) ==
  IF ~retryable \/ claims[writer[w].target] >= MaxAttempts
    THEN Report(w, "failed")
    ELSE LeaveJob(w)

(* A throw while a failure is being recorded leaves process() at once. *)
Throw(w) == IF writer[w].outcome = "failed" THEN LeaveJob(w) ELSE Fail(w, TRUE)

Dispatch(w) ==
  /\ writer[w].pc = "dispatch"
  /\ Report(w, "delivered") \/ \E retryable \in BOOLEAN : Fail(w, retryable)
  /\ UNCHANGED <<created, version, status, events, claims, calls, faults>>

(* recordDeliveryStatus with the send it read.  A status that is there already *)
(* is written again if the provider's message id or reason is a new one.       *)
Record(w) ==
  LET me == writer[w]
      r == me.target
      refused == me.status[r] = "delivered" /\ me.outcome # "delivered"
  IN
  /\ w \in Workers
  /\ me.pc = "read"
  /\ me.unread = {}
  /\ \/ /\ refused
        /\ Throw(w)
     \/ /\ me.status[r] = me.outcome
        /\ Become(w, [me EXCEPT !.pc = "mark"])
        /\ job' = job
     \/ /\ ~refused
        /\ Become(w, Changed(me, r, me.outcome))
        /\ job' = job
  /\ UNCHANGED <<created, version, status, events, claims, calls, faults>>

(* Mutant: a conflict is taken for a report. *)
SaveReportOnce(w) ==
  LET me == writer[w] IN
  /\ w \in Workers
  /\ me.pc = "save"
  /\ IF Saved(me) THEN Write(me) ELSE UNCHANGED <<version, status, events>>
  /\ Become(w, [me EXCEPT !.pc = "mark"])
  /\ UNCHANGED <<created, job, claims, calls, faults>>

(* The batch is applied or refused, or D1 fails before or after applying it. *)
SaveReport(w) ==
  LET me == writer[w]
      unchanged == UNCHANGED <<version, status, events>>
  IN
  /\ w \in Workers
  /\ me.pc = "save"
  /\ \/ /\ Saved(me)
        /\ Write(me)
        /\ NoFault
        /\ Become(w, [me EXCEPT !.pc = "mark"])
        /\ job' = job
     \/ /\ ~Saved(me)
        /\ unchanged
        /\ NoFault
        /\ Throw(w)
     \/ /\ unchanged \/ (Saved(me) /\ Write(me))
        /\ Fault
        /\ Throw(w)
  /\ UNCHANGED <<created, claims, calls>>

(* markDelivered or markFailed. *)
Mark(w) ==
  LET me == writer[w] IN
  /\ me.pc = "mark"
  /\ job' = [job EXCEPT ![me.target] = IF me.outcome = "delivered" THEN "delivered" ELSE "dead"]
  /\ Become(w, Idle)
  /\ UNCHANGED <<created, version, status, events, claims, calls, faults>>

LoseWorker(w) ==
  /\ writer[w].pc # "idle"
  /\ Fault
  /\ LeaveJob(w)
  /\ UNCHANGED <<created, version, status, events, claims, calls>>

-----------------------------------------------------------------------------
CallStep(c) ==
  \/ StartSend(c) \/ Create(c) \/ StartRetry(c) \/ Retry(c)
  \/ (\E r \in Recipients : Enqueue(c, r)) \/ SaveRound(c) \/ LoseCall(c)

WorkerStep(w) ==
  \/ (\E r \in Recipients : Claim(w, r)) \/ Dispatch(w) \/ Record(w)
  \/ SaveReport(w) \/ Mark(w) \/ LoseWorker(w)

Next ==
  \/ \E c \in Calls : CallStep(c)
  \/ \E w \in Workers : WorkerStep(w)
  \/ \E p \in Writers : ReadVersion(p) \/ \E part \in Parts : ReadPart(p, part)

Spec == Init /\ [][Next]_vars
-----------------------------------------------------------------------------
(* Properties *)

(* The history of a delivery only grows, whoever writes with a stale copy of *)
(* the send: what was reported of a recipient can be audited.                *)
HistoryKept ==
  [][\A r \in Recipients :
       /\ Len(events[r]) <= Len(events'[r])
       /\ SubSeq(events'[r], 1, Len(events[r])) = events[r]]_vars

(* A settled job was reported: the history of its delivery holds the outcome *)
(* before the row says delivered or dead.                                    *)
SettledIsReported ==
  \A r \in Recipients :
    /\ job[r] = "delivered" => \E i \in DOMAIN events[r] : events[r][i] = "delivered"
    /\ job[r] = "dead" => \E i \in DOMAIN events[r] : events[r][i] = "failed"

(* What the send says of a delivery is in the history of that delivery: a   *)
(* save that writes all statuses of its copy, and the history of one of them *)
(* only, brings no status that nobody reported, however old or torn (parts   *)
(* read at different times) the copy is.                                     *)
StatusIsRecorded ==
  \A r \in Recipients :
    status[r] # "queued" => \E i \in DOMAIN events[r] : events[r][i] = status[r]
=============================================================================
