------------------------- MODULE EvaluationExportProofs -------------------------
(***************************************************************************)
(* Theorems about EvaluationExport, for any runs, isolates, requests and   *)
(* sweeps and any bounds.                                                  *)
(***************************************************************************)
EXTENDS EvaluationExport, TLAPS

-----------------------------------------------------------------------------
(* What the actions assign has its type. *)
WorkerPC == WorkingPC \cup {"idle", "read", "claim"}

LEMMA AnyRunType == AnyRun \in Runs
BY RunsAssumption DEF AnyRun

LEMMA IdleTypes ==
  /\ IdleWorker \in Worker /\ IdlePublisher \in Publisher
  /\ AbsentRun \in Run /\ AbsentRow \in Row
<1>1. AbsentRun \in Run /\ AbsentRow \in Row
  BY DEF AbsentRun, Run, NoAttempt, AbsentRow, Row, NoLease
<1>2. IdleWorker \in Worker
  BY AnyRunType DEF IdleWorker, Worker
<1>3. [r \in Runs |-> [run |-> AbsentRun, row |-> AbsentRow]] \in [Runs -> Snapshot]
  BY <1>1 DEF Snapshot
<1>4. IdlePublisher \in Publisher
  BY <1>3, AnyRunType DEF IdlePublisher, Publisher
<1>. QED
  BY <1>1, <1>2, <1>4

LEMMA BackoffType ==
  ASSUME NEW n \in Nat
  PROVE  Backoff(n) \in Nat
BY TimingAssumption DEF Backoff

LEMMA WorkerParts ==
  ASSUME TypeOK, NEW w \in Workers
  PROVE  /\ worker[w] \in Worker /\ worker[w].pc \in WorkerPC /\ worker[w].run \in Runs
         /\ worker[w].now \in Nat /\ worker[w].attempt \in Nat
         /\ row[worker[w].run] \in Row /\ run[worker[w].run] \in Run
         /\ artifacts[worker[w].run] \in SUBSET Nat
BY DEF TypeOK, Worker, WorkerPC

LEMMA RowParts ==
  ASSUME TypeOK, NEW r \in Runs
  PROVE  /\ row[r] \in Row /\ row[r].attempts \in Nat /\ row[r].availableAt \in Nat
         /\ row[r].leaseUntil \in Nat /\ row[r].owner \in Workers \cup {NoWorker}
         /\ run[r] \in Run /\ run[r].attempt \in Nat /\ run[r].artifact \in Nat
         /\ run[r].status \in {"absent", "queued", "running"} \cup Ended
BY DEF TypeOK, Row, Run

LEMMA ReleasedFields ==
  ASSUME NEW x \in Row, NEW s \in OpenStates \cup TerminalStates
  PROVE  /\ Released(x, s) \in Row
         /\ Released(x, s).state = s /\ Released(x, s).attempts = x.attempts
         /\ Released(x, s).availableAt = x.availableAt
         /\ Released(x, s).owner = NoWorker
BY DEF Released, Row, NoLease

LEMMA ClaimedFields ==
  ASSUME NEW x \in Row, NEW w \in Workers, NEW now \in Nat
  PROVE  /\ Claimed(x, w, now) \in Row
         /\ Claimed(x, w, now).state = "processing" /\ Claimed(x, w, now).owner = w
         /\ Claimed(x, w, now).attempts = x.attempts + 1
         /\ Claimed(x, w, now).leaseUntil = now + Lease
<1>1. now + Lease \in Nat /\ x.attempts + 1 \in Nat
  BY TimingAssumption DEF Row
<1>2. "processing" \in OpenStates
  BY DEF OpenStates
<1>. QED
  BY <1>1, <1>2 DEF Claimed, Row

-----------------------------------------------------------------------------
(* What a step of an isolate does: it leaves the message, and perhaps      *)
(* releases the row first; it reads the row, claims it, takes the run, ends *)
(* the run, or goes on.                                                    *)
OthersKeep(w) == \A v \in Workers \ {w} : worker'[v] = worker[v]
RowsKeep(r) == \A q \in Runs \ {r} : row'[q] = row[q]
RunsKeep(r) == \A q \in Runs \ {r} : run'[q] = run[q]
SameWork(w) ==
  /\ worker'[w].run = worker[w].run /\ worker'[w].now = worker[w].now
  /\ worker'[w].attempt = worker[w].attempt

FailPC == {"failProcessing", "markFailed", "markRetry"}

Releases(w) ==
  LET r == worker[w].run IN
  /\ worker[w].pc \in WorkingPC
  /\ HeldBy(row[r], w, worker[w].attempt)
  /\ RowsKeep(r)
  /\ row'[r].attempts = row[r].attempts
  /\ \/ row'[r].state \in {"queued", "dead-letter"}
     \/ row'[r].state = "delivered" /\ worker[w].pc = "markDelivered"

Leaves(w) ==
  /\ worker'[w] = IdleWorker
  /\ UNCHANGED <<run, artifacts>>
  /\ row' = row \/ Releases(w)

Reads(w) ==
  /\ worker[w].pc = "read" /\ worker'[w].pc = "claim"
  /\ worker'[w].run = worker[w].run /\ worker'[w].now = worker[w].now
  /\ worker'[w].attempt = row[worker[w].run].attempts + 1
  /\ UNCHANGED <<run, row, artifacts>>

Claims(w) ==
  LET r == worker[w].run IN
  /\ worker[w].pc = "claim" /\ worker'[w].pc = "claimRun" /\ SameWork(w)
  /\ Claimable(row[r], worker[w].now)
  /\ RowsKeep(r)
  /\ row'[r].state = "processing" /\ row'[r].owner = w
  /\ row'[r].attempts = row[r].attempts + 1
  /\ row'[r].leaseUntil = worker[w].now + Lease
  /\ UNCHANGED <<run, artifacts>>

Takes(w) ==
  LET r == worker[w].run IN
  /\ worker[w].pc = "claimRun" /\ RunIsFree(w)
  /\ worker'[w].pc \in {"generate"} \cup FailPC /\ SameWork(w)
  /\ RunsKeep(r)
  /\ run'[r].status = "running" /\ run'[r].attempt = worker[w].attempt
  /\ UNCHANGED <<row, artifacts>>

Ends(w) ==
  LET r == worker[w].run IN
  /\ worker[w].pc \in {"completeReady", "completeFailed", "failProcessing"}
  /\ RunHeldBy(r, worker[w].attempt)
  /\ worker'[w].pc \in {"markDelivered"} \cup FailPC /\ SameWork(w)
  /\ RunsKeep(r)
  /\ run'[r].status \in Ended /\ run'[r].attempt = run[r].attempt
  /\ run'[r].status = "ready" =>
       worker[w].pc = "completeReady" /\ run'[r].artifact = ArtifactKey(worker[w].attempt)
  /\ UNCHANGED <<row, artifacts>>

Moves(w) ==
  LET r == worker[w].run IN
  /\ worker[w].pc \in WorkingPC /\ SameWork(w)
  /\ UNCHANGED <<run, row>>
  /\ \A q \in Runs : artifacts[q] \subseteq artifacts'[q]
  /\ \/ worker'[w].pc \in FailPC
     \/ worker[w].pc = "claimRun" /\ ~RunIsFree(w) /\ worker'[w].pc = "markDelivered"
     \/ worker[w].pc = "generate" /\ worker'[w].pc \in {"put", "completeFailed"}
     \/ /\ worker[w].pc = "put" /\ worker'[w].pc = "completeReady"
        /\ ArtifactKey(worker[w].attempt) \in artifacts'[r]
     \/ /\ worker[w].pc \in {"completeReady", "completeFailed"}
        /\ ~RunHeldBy(r, worker[w].attempt) /\ worker'[w].pc = "markDelivered"

WorkShape(w) ==
  Leaves(w) \/ Reads(w) \/ Claims(w) \/ Takes(w) \/ Ends(w) \/ Moves(w)

Typed ==
  /\ run' \in [Runs -> Run] /\ row' \in [Runs -> Row]
  /\ artifacts' \in [Runs -> SUBSET Nat]
  /\ wake' \in SUBSET Runs /\ worker' \in [Workers -> Worker]

LEMMA EnterEffect ==
  ASSUME TypeOK, NEW w \in Workers, NEW pc \in WorkerPC, Enter(w, pc)
  PROVE  /\ worker' \in [Workers -> Worker] /\ worker'[w].pc = pc
         /\ SameWork(w) /\ OthersKeep(w)
<1>1. worker[w] \in Worker
  BY DEF TypeOK
<1>2. [worker[w] EXCEPT !.pc = pc] \in Worker
  BY <1>1 DEF Worker, WorkerPC
<1>3. worker' = [worker EXCEPT ![w] = [worker[w] EXCEPT !.pc = pc]]
  BY DEF Enter, TypeOK
<1>. QED
  BY <1>1, <1>2, <1>3 DEF SameWork, OthersKeep, TypeOK, Worker

LEMMA IdleEffect ==
  ASSUME TypeOK, NEW w \in Workers, worker' = [worker EXCEPT ![w] = IdleWorker]
  PROVE  /\ worker' \in [Workers -> Worker] /\ worker'[w] = IdleWorker /\ OthersKeep(w)
BY IdleTypes DEF TypeOK, OthersKeep

LEMMA AckEffect ==
  ASSUME TypeOK, NEW w \in Workers, Ack(w) \/ GiveBack(w)
  PROVE  /\ worker' \in [Workers -> Worker] /\ worker'[w] = IdleWorker /\ OthersKeep(w)
         /\ wake' \in SUBSET Runs
BY IdleEffect, WorkerParts DEF Ack, GiveBack, TypeOK

LEMMA ThrowEffect ==
  ASSUME TypeOK, NEW w \in Workers, Throw(w) \/ Retry(w)
  PROVE  /\ worker' \in [Workers -> Worker] /\ worker'[w].pc \in FailPC
         /\ SameWork(w) /\ OthersKeep(w)
<1>1. \E pc \in FailPC : Enter(w, pc)
  BY DEF Throw, Retry, FailPC
<1>2. FailPC \subseteq WorkerPC
  BY DEF FailPC, WorkerPC, WorkingPC
<1>. QED
  BY <1>1, <1>2, EnterEffect

LEMMA TakeRunEffect ==
  ASSUME TypeOK, NEW w \in Workers, TakeRun(w)
  PROVE  LET r == worker[w].run IN
         /\ run' \in [Runs -> Run] /\ RunsKeep(r)
         /\ run'[r].status = "running" /\ run'[r].attempt = worker[w].attempt
<1>. DEFINE r == worker[w].run
            v == [run[r] EXCEPT !.status = "running", !.attempt = worker[w].attempt]
<1>1. r \in Runs /\ run[r] \in Run /\ worker[w].attempt \in Nat
  BY WorkerParts
<1>2. v \in Run /\ v.status = "running" /\ v.attempt = worker[w].attempt
  BY <1>1 DEF Run
<1>3. run' = [run EXCEPT ![r] = v]
  BY <1>1 DEF TakeRun, TypeOK
<1>. HIDE DEF v
<1>. QED
  BY <1>1, <1>2, <1>3 DEF TypeOK, RunsKeep

LEMMA EndRunEffect ==
  ASSUME TypeOK, NEW r \in Runs, NEW attempt \in Nat, NEW artifact \in Nat, NEW status \in Ended,
         EndRun(r, attempt, status, artifact)
  PROVE  /\ run' \in [Runs -> Run] /\ RunsKeep(r)
         /\ ~RunHeldBy(r, attempt) => run' = run
         /\ RunHeldBy(r, attempt) => /\ run'[r].status = status /\ run'[r].artifact = artifact
                                     /\ run'[r].attempt = run[r].attempt
<1>. DEFINE v == [run[r] EXCEPT !.status = status, !.artifact = artifact]
<1>1. run[r] \in Run
  BY DEF TypeOK
<1>2. /\ v \in Run /\ v.status = status /\ v.artifact = artifact /\ v.attempt = run[r].attempt
  BY <1>1 DEF Run
<1>3. RunHeldBy(r, attempt) => run' = [run EXCEPT ![r] = v]
  BY <1>1 DEF EndRun, TypeOK
<1>4. ~RunHeldBy(r, attempt) => run' = run
  BY DEF EndRun
<1>. HIDE DEF v
<1>. QED
  BY <1>2, <1>3, <1>4 DEF TypeOK, RunsKeep

LEMMA PutEffect ==
  ASSUME TypeOK, NEW w \in Workers,
         artifacts' = [artifacts EXCEPT ![worker[w].run] = @ \cup {ArtifactKey(worker[w].attempt)}]
  PROVE  /\ artifacts' \in [Runs -> SUBSET Nat]
         /\ ArtifactKey(worker[w].attempt) \in artifacts'[worker[w].run]
         /\ \A q \in Runs : artifacts[q] \subseteq artifacts'[q]
BY WorkerParts DEF TypeOK, ArtifactKey

LEMMA MarkEffect ==
  ASSUME TypeOK, NEW w \in Workers, NEW s \in {"delivered", "dead-letter", "queued"},
         NEW x \in Row, x.state = s, x.attempts = row[worker[w].run].attempts,
         HeldBy(row[worker[w].run], w, worker[w].attempt), worker[w].pc \in WorkingPC,
         s = "delivered" => worker[w].pc = "markDelivered",
         row' = [row EXCEPT ![worker[w].run] = x]
  PROVE  row' \in [Runs -> Row] /\ Releases(w)
BY WorkerParts DEF TypeOK, Releases, RowsKeep

LEMMA ReadRowShape ==
  ASSUME TypeOK, NEW w \in Workers, ReadRow(w)
  PROVE  WorkShape(w) /\ OthersKeep(w) /\ Typed
<1>. DEFINE n == row[worker[w].run].attempts + 1
            v == [worker[w] EXCEPT !.pc = "claim", !.attempt = n]
<1>0. UNCHANGED <<run, row, artifacts>> /\ worker[w].pc = "read"
  BY DEF ReadRow
<1>1. CASE Ack(w) \/ GiveBack(w)
  BY <1>0, <1>1, AckEffect DEF WorkShape, Leaves, Typed, TypeOK
<1>2. CASE worker' = [worker EXCEPT ![w].pc = "claim", ![w].attempt = n] /\ wake' = wake
  <2>1. worker[w] \in Worker /\ n \in Nat
    BY WorkerParts DEF Row
  <2>2. /\ v \in Worker /\ v.pc = "claim" /\ v.run = worker[w].run /\ v.now = worker[w].now
        /\ v.attempt = n
    BY <2>1 DEF Worker
  <2>3. worker' = [worker EXCEPT ![w] = v]
    BY <1>2 DEF TypeOK
  <2>. HIDE DEF v
  <2>4. worker'[w] = v /\ worker' \in [Workers -> Worker] /\ OthersKeep(w)
    BY <2>2, <2>3 DEF TypeOK, OthersKeep
  <2>5. Reads(w)
    BY <1>0, <2>2, <2>4 DEF Reads
  <2>. QED
    BY <1>0, <1>2, <2>4, <2>5 DEF WorkShape, Typed, TypeOK
<1>. QED
  BY <1>1, <1>2 DEF ReadRow

LEMMA ClaimRowShape ==
  ASSUME TypeOK, NEW w \in Workers, ClaimRow(w)
  PROVE  WorkShape(w) /\ OthersKeep(w) /\ Typed
<1>. DEFINE r == worker[w].run
            x == Claimed(row[r], w, worker[w].now)
<1>0. UNCHANGED <<run, artifacts>> /\ worker[w].pc = "claim"
  BY DEF ClaimRow
<1>1. CASE row' = row /\ GiveBack(w)
  BY <1>0, <1>1, AckEffect DEF WorkShape, Leaves, Typed, TypeOK
<1>2. CASE /\ Claimable(row[r], worker[w].now) /\ row' = [row EXCEPT ![r] = x]
           /\ Enter(w, "claimRun") /\ wake' = wake
  <2>1. r \in Runs /\ row[r] \in Row /\ worker[w].now \in Nat
    BY WorkerParts
  <2>2. /\ x \in Row /\ x.state = "processing" /\ x.owner = w
        /\ x.attempts = row[r].attempts + 1 /\ x.leaseUntil = worker[w].now + Lease
    BY <2>1, ClaimedFields
  <2>. HIDE DEF x
  <2>3. row' \in [Runs -> Row] /\ row'[r] = x /\ RowsKeep(r)
    BY <1>2, <2>1, <2>2 DEF TypeOK, RowsKeep
  <2>4. /\ worker' \in [Workers -> Worker] /\ worker'[w].pc = "claimRun" /\ SameWork(w)
        /\ OthersKeep(w)
    BY <1>2, EnterEffect DEF WorkerPC, WorkingPC
  <2>5. Claims(w)
    BY <1>0, <1>2, <2>2, <2>3, <2>4 DEF Claims
  <2>. QED
    BY <1>0, <1>2, <2>3, <2>4, <2>5 DEF WorkShape, Typed, TypeOK
<1>. QED
  BY <1>1, <1>2 DEF ClaimRow

LEMMA ClaimRunShape ==
  ASSUME TypeOK, NEW w \in Workers, ClaimRun(w)
  PROVE  WorkShape(w) /\ OthersKeep(w) /\ Typed
<1>0. UNCHANGED <<row, artifacts, wake>> /\ worker[w].pc = "claimRun" /\ worker[w].pc \in WorkingPC
  BY DEF ClaimRun, WorkingPC
<1>1. CASE RunIsFree(w) /\ TakeRun(w) /\ Enter(w, "generate")
  <2>1. /\ worker' \in [Workers -> Worker] /\ worker'[w].pc = "generate" /\ SameWork(w)
        /\ OthersKeep(w)
    BY <1>1, EnterEffect DEF WorkerPC, WorkingPC
  <2>2. Takes(w) /\ run' \in [Runs -> Run]
    BY <1>0, <1>1, <2>1, TakeRunEffect DEF Takes
  <2>. QED
    BY <1>0, <2>1, <2>2 DEF WorkShape, Typed, TypeOK
<1>2. CASE ~RunIsFree(w) /\ run' = run /\ Enter(w, "markDelivered")
  <2>1. /\ worker' \in [Workers -> Worker] /\ worker'[w].pc = "markDelivered" /\ SameWork(w)
        /\ OthersKeep(w)
    BY <1>2, EnterEffect DEF WorkerPC, WorkingPC
  <2>2. Moves(w)
    BY <1>0, <1>2, <2>1 DEF Moves
  <2>. QED
    BY <1>0, <1>2, <2>1, <2>2 DEF WorkShape, Typed, TypeOK
<1>. QED
  BY <1>1, <1>2 DEF ClaimRun

LEMMA GenerateShape ==
  ASSUME TypeOK, NEW w \in Workers, Generate(w)
  PROVE  WorkShape(w) /\ OthersKeep(w) /\ Typed
<1>0. /\ UNCHANGED <<run, row, artifacts, wake>> /\ worker[w].pc = "generate"
      /\ worker[w].pc \in WorkingPC
  BY DEF Generate, WorkingPC
<1>1. CASE Throw(w)
  BY <1>0, <1>1, ThrowEffect DEF WorkShape, Moves, Typed, TypeOK
<1>2. CASE Enter(w, "put") \/ Enter(w, "completeFailed")
  <2>1. /\ worker' \in [Workers -> Worker] /\ worker'[w].pc \in {"put", "completeFailed"}
        /\ SameWork(w) /\ OthersKeep(w)
    BY <1>2, EnterEffect DEF WorkerPC, WorkingPC
  <2>. QED
    BY <1>0, <2>1 DEF WorkShape, Moves, Typed, TypeOK
<1>. QED
  BY <1>1, <1>2 DEF Generate

LEMMA PutShape ==
  ASSUME TypeOK, NEW w \in Workers, PutArtifact(w)
  PROVE  WorkShape(w) /\ OthersKeep(w) /\ Typed
<1>0. UNCHANGED <<run, row, wake>> /\ worker[w].pc = "put" /\ worker[w].pc \in WorkingPC
  BY DEF PutArtifact, WorkingPC
<1>1. /\ worker' \in [Workers -> Worker] /\ worker'[w].pc = "completeReady"
      /\ SameWork(w) /\ OthersKeep(w)
  BY EnterEffect DEF PutArtifact, WorkerPC, WorkingPC
<1>2. /\ artifacts' \in [Runs -> SUBSET Nat]
      /\ ArtifactKey(worker[w].attempt) \in artifacts'[worker[w].run]
      /\ \A q \in Runs : artifacts[q] \subseteq artifacts'[q]
  BY PutEffect DEF PutArtifact
<1>. QED
  BY <1>0, <1>1, <1>2 DEF WorkShape, Moves, Typed, TypeOK

(* A run is ended by who holds it; else the statement changes nothing.      *)
LEMMA EndRunShape ==
  ASSUME TypeOK, NEW w \in Workers, NEW status \in Ended, NEW artifact \in Nat,
         EndRun(worker[w].run, worker[w].attempt, status, artifact),
         worker[w].pc \in {"completeReady", "completeFailed", "failProcessing"},
         status = "ready" =>
           worker[w].pc = "completeReady" /\ artifact = ArtifactKey(worker[w].attempt),
         worker' \in [Workers -> Worker], SameWork(w), OthersKeep(w),
         \/ worker'[w].pc \in FailPC
         \/ /\ worker'[w].pc = "markDelivered"
            /\ worker[w].pc = "failProcessing" => RunHeldBy(worker[w].run, worker[w].attempt),
         UNCHANGED <<row, artifacts, wake>>
  PROVE  WorkShape(w) /\ Typed
<1>. DEFINE r == worker[w].run
<1>0. r \in Runs /\ worker[w].attempt \in Nat /\ worker[w].pc \in WorkingPC
  BY WorkerParts DEF WorkingPC
<1>1. /\ run' \in [Runs -> Run] /\ RunsKeep(r)
      /\ ~RunHeldBy(r, worker[w].attempt) => run' = run
      /\ RunHeldBy(r, worker[w].attempt) => /\ run'[r].status = status /\ run'[r].artifact = artifact
                                            /\ run'[r].attempt = run[r].attempt
  BY <1>0, EndRunEffect
<1>2. CASE RunHeldBy(r, worker[w].attempt)
  <2>1. Ends(w)
    BY <1>1, <1>2 DEF Ends
  <2>. QED
    BY <1>1, <2>1 DEF WorkShape, Typed, TypeOK
<1>3. CASE ~RunHeldBy(r, worker[w].attempt)
  <2>1. Moves(w)
    BY <1>0, <1>1, <1>3 DEF Moves
  <2>. QED
    BY <1>1, <2>1 DEF WorkShape, Typed, TypeOK
<1>. QED
  BY <1>2, <1>3

LEMMA CompleteShape ==
  ASSUME TypeOK, NEW w \in Workers, CompleteReady(w) \/ CompleteFailed(w) \/ FailProcessing(w)
  PROVE  WorkShape(w) /\ OthersKeep(w) /\ Typed
<1>0. UNCHANGED <<row, artifacts, wake>> /\ worker[w].attempt \in Nat
  BY WorkerParts DEF CompleteReady, CompleteFailed, FailProcessing
<1>1. Enter(w, "markDelivered") => /\ worker' \in [Workers -> Worker]
                                   /\ worker'[w].pc = "markDelivered"
                                   /\ SameWork(w) /\ OthersKeep(w)
  BY EnterEffect DEF WorkerPC, WorkingPC
<1>2. "ready" \in Ended /\ "failed" \in Ended /\ NoAttempt \in Nat
      /\ ArtifactKey(worker[w].attempt) \in Nat
  BY <1>0 DEF Ended, NoAttempt, ArtifactKey
<1>3. CASE CompleteReady(w)
  BY <1>0, <1>1, <1>2, <1>3, EndRunShape DEF CompleteReady
<1>4. CASE CompleteFailed(w)
  BY <1>0, <1>1, <1>2, <1>4, EndRunShape DEF CompleteFailed
<1>5. CASE FailProcessing(w)
  BY <1>0, <1>1, <1>2, <1>5, EndRunShape, ThrowEffect DEF FailProcessing
<1>. QED
  BY <1>3, <1>4, <1>5

LEMMA ProcessFailsShape ==
  ASSUME TypeOK, NEW w \in Workers, ProcessFails(w)
  PROVE  WorkShape(w) /\ OthersKeep(w) /\ Typed
<1>0. /\ UNCHANGED <<row, wake>> /\ worker[w].attempt \in Nat /\ "ready" \in Ended
      /\ ArtifactKey(worker[w].attempt) \in Nat
  BY WorkerParts DEF ProcessFails, Ended, ArtifactKey
<1>1. /\ worker' \in [Workers -> Worker] /\ worker'[w].pc \in FailPC
      /\ SameWork(w) /\ OthersKeep(w)
  BY ThrowEffect DEF ProcessFails
<1>2. worker[w].pc \in {"claimRun", "put", "completeReady", "completeFailed", "failProcessing"}
  BY DEF ProcessFails
<1>3. worker[w].pc \in WorkingPC
  BY <1>2 DEF WorkingPC
<1>4. CASE run' = run /\ artifacts' = artifacts
  BY <1>0, <1>1, <1>3, <1>4 DEF WorkShape, Moves, Typed, TypeOK
<1>5. CASE worker[w].pc = "claimRun" /\ RunIsFree(w) /\ TakeRun(w) /\ artifacts' = artifacts
  BY <1>0, <1>1, <1>5, TakeRunEffect DEF WorkShape, Takes, Typed, TypeOK
<1>6. CASE /\ worker[w].pc = "put" /\ run' = run
           /\ artifacts' = [artifacts EXCEPT ![worker[w].run] = @ \cup {ArtifactKey(worker[w].attempt)}]
  BY <1>0, <1>1, <1>3, <1>6, PutEffect DEF WorkShape, Moves, Typed, TypeOK
<1>7. CASE /\ worker[w].pc = "completeReady" /\ artifacts' = artifacts
           /\ EndRun(worker[w].run, worker[w].attempt, "ready", ArtifactKey(worker[w].attempt))
  BY <1>0, <1>1, <1>7, EndRunShape
<1>. QED
  BY <1>4, <1>5, <1>6, <1>7 DEF ProcessFails

LEMMA MarkShape ==
  ASSUME TypeOK, NEW w \in Workers, MarkDelivered(w) \/ MarkFailed(w) \/ MarkRetry(w)
  PROVE  WorkShape(w) /\ OthersKeep(w) /\ Typed
<1>. DEFINE r == worker[w].run
            held == HeldBy(row[r], w, worker[w].attempt)
            delivered == Released(row[r], "delivered")
            dead == Released(row[r], "dead-letter")
            queued == Released(row[r], "queued")
            again == [queued EXCEPT !.availableAt = clock + Backoff(worker[w].attempt)]
<1>0. /\ UNCHANGED <<run, artifacts>> /\ r \in Runs /\ row[r] \in Row
      /\ worker[w].attempt \in Nat /\ worker[w].pc \in WorkingPC
  BY WorkerParts DEF MarkDelivered, MarkFailed, MarkRetry, WorkingPC
<1>1. /\ delivered \in Row /\ delivered.state = "delivered" /\ delivered.attempts = row[r].attempts
      /\ dead \in Row /\ dead.state = "dead-letter" /\ dead.attempts = row[r].attempts
      /\ queued \in Row /\ queued.state = "queued" /\ queued.attempts = row[r].attempts
  BY <1>0, ReleasedFields DEF OpenStates, TerminalStates
<1>2. clock + Backoff(worker[w].attempt) \in Nat
  BY <1>0, BackoffType DEF TypeOK
<1>3. again \in Row /\ again.state = "queued" /\ again.attempts = row[r].attempts
  BY <1>1, <1>2 DEF Row
<1>. HIDE DEF delivered, dead, queued, again
<1>4. CASE MarkDelivered(w)
  <2>1. CASE held /\ row' = [row EXCEPT ![r] = delivered] /\ Ack(w)
    <3>1. row' \in [Runs -> Row] /\ Releases(w)
      BY <1>0, <1>1, <1>4, <2>1, MarkEffect DEF MarkDelivered
    <3>. QED
      BY <1>0, <2>1, <3>1, AckEffect DEF WorkShape, Leaves, Typed, TypeOK
  <2>2. CASE row' = row /\ Retry(w) /\ wake' = wake
    BY <1>0, <2>2, ThrowEffect DEF WorkShape, Moves, Typed, TypeOK
  <2>. QED
    BY <1>4, <2>1, <2>2 DEF MarkDelivered, delivered
<1>5. CASE MarkFailed(w)
  <2>1. CASE held /\ row' = [row EXCEPT ![r] = dead]
    <3>1. row' \in [Runs -> Row] /\ Releases(w)
      BY <1>0, <1>1, <2>1, MarkEffect
    <3>. QED
      BY <1>0, <1>5, <3>1, AckEffect DEF MarkFailed, WorkShape, Leaves, Typed, TypeOK
  <2>2. CASE row' = row
    BY <1>0, <1>5, <2>2, AckEffect DEF MarkFailed, WorkShape, Leaves, Typed, TypeOK
  <2>. QED
    BY <1>5, <2>1, <2>2 DEF MarkFailed, dead
<1>6. CASE MarkRetry(w)
  <2>1. CASE held /\ row' = [row EXCEPT ![r] = again]
    <3>1. row' \in [Runs -> Row] /\ Releases(w)
      BY <1>0, <1>3, <2>1, MarkEffect
    <3>. QED
      BY <1>0, <1>6, <3>1, AckEffect DEF MarkRetry, WorkShape, Leaves, Typed, TypeOK
  <2>2. CASE row' = row
    BY <1>0, <1>6, <2>2, AckEffect DEF MarkRetry, WorkShape, Leaves, Typed, TypeOK
  <2>. QED
    BY <1>6, <2>1, <2>2 DEF MarkRetry, again, queued
<1>. QED
  BY <1>4, <1>5, <1>6

LEMMA WorkerShape ==
  ASSUME TypeOK, NEW w \in Workers, WorkStep(w) \/ ProcessFails(w) \/ Crash(w)
  PROVE  /\ WorkShape(w) /\ OthersKeep(w) /\ Typed
         /\ UNCHANGED <<clock, publisher, requests>>
<1>1. UNCHANGED <<clock, publisher, requests>>
  BY DEF WorkStep, ProcessFails, Crash, ReadRow, ClaimRow, ClaimRun, Generate, PutArtifact,
         CompleteReady, CompleteFailed, FailProcessing, MarkDelivered, MarkFailed, MarkRetry
<1>2. CASE Crash(w)
  BY <1>1, <1>2, AckEffect DEF Crash, WorkShape, Leaves, Typed, TypeOK
<1>. QED
  BY <1>1, <1>2, ReadRowShape, ClaimRowShape, ClaimRunShape, GenerateShape, PutShape,
     CompleteShape, ProcessFailsShape, MarkShape DEF WorkStep

-----------------------------------------------------------------------------
(* What a step of a request or of a sweep does: it inserts a run with its  *)
(* row, marks a pending row, takes back a row that is as it was selected,   *)
(* or changes neither.                                                     *)
PublisherPC == {"idle", "persisted", "select", "recover", "pending", "send", "mark"}

OtherPublishersKeep(p) == \A q \in Publishers \ {p} : publisher'[q] = publisher[q]

(* What it has still to recover was selected before, or is now. *)
Sees(p) ==
  /\ publisher'[p].time \in {publisher[p].time, clock, 0}
  /\ \A r \in publisher'[p].todo :
       \/ r \in publisher[p].todo /\ publisher'[p].seen[r] = publisher[p].seen[r]
       \/ /\ Recoverable(r, publisher[p].time)
          /\ publisher'[p].seen[r].run = run[r] /\ publisher'[p].seen[r].row = row[r]
          /\ publisher'[p].time = publisher[p].time

Inserts(r) ==
  /\ run[r].status = "absent"
  /\ RunsKeep(r) /\ run'[r].status = "queued"
  /\ run'[r].attempt = run[r].attempt
  /\ RowsKeep(r) /\ row'[r] = PendingRow(clock)

Marks(r) ==
  /\ row[r].state = "pending"
  /\ run' = run
  /\ RowsKeep(r) /\ row'[r].state = "queued" /\ row'[r].attempts = row[r].attempts

TakesBack(p, r) ==
  LET seen == publisher[p].seen[r] IN
  /\ r \in publisher[p].todo
  /\ SameRow(r, seen)
  /\ RowsKeep(r) /\ row'[r].state = "pending" /\ row'[r].attempts = row[r].attempts
  /\ RunsKeep(r)
  /\ \/ run'[r] = run[r]
     \/ SameRun(r, seen) /\ run'[r].status = "queued" /\ run'[r].attempt = 0

PublishShape(p) ==
  \/ UNCHANGED <<run, row>>
  \/ \E r \in Runs : Inserts(r) \/ Marks(r) \/ TakesBack(p, r)

TypedPublish ==
  /\ run' \in [Runs -> Run] /\ row' \in [Runs -> Row]
  /\ wake' \in SUBSET Runs /\ publisher' \in [Publishers -> Publisher]

LEMMA PublisherParts ==
  ASSUME NEW x \in Publisher
  PROVE  /\ x.pc \in PublisherPC /\ x.run \in Runs /\ x.time \in Nat /\ x.todo \in SUBSET Runs
         /\ x.seen \in [Runs -> Snapshot]
BY DEF Publisher, PublisherPC

(* A publisher's new state, if it has no more to do and knows nothing new. *)
LEMMA BecomeEffect ==
  ASSUME TypeOK, NEW p \in Publishers, NEW x \in Publisher,
         publisher' = [publisher EXCEPT ![p] = x],
         x.time \in {publisher[p].time, clock, 0},
         x.todo = {} \/ (x.todo \subseteq publisher[p].todo /\ x.seen = publisher[p].seen)
  PROVE  /\ publisher' \in [Publishers -> Publisher]
         /\ OtherPublishersKeep(p) /\ Sees(p)
BY DEF TypeOK, OtherPublishersKeep, Sees

LEMMA AfterPublishEffect ==
  ASSUME TypeOK, NEW p \in Publishers, NEW x, x = AfterPublish(p) \/ x = IdlePublisher
  PROVE  /\ x \in Publisher /\ x.time \in {publisher[p].time, 0}
         /\ x.todo = {} \/ (x.todo \subseteq publisher[p].todo /\ x.seen = publisher[p].seen)
<1>1. publisher[p] \in Publisher
  BY DEF TypeOK
<1>2. CASE x = IdlePublisher
  BY <1>2, IdleTypes DEF IdlePublisher
<1>3. CASE x = [publisher[p] EXCEPT !.pc = "recover"]
  BY <1>1, <1>3 DEF Publisher
<1>. QED
  BY <1>2, <1>3 DEF AfterPublish

LEMMA CreateShape ==
  ASSUME TypeOK, NEW p \in Publishers, NEW r \in Runs, Create(p, r)
  PROVE  PublishShape(p) /\ OtherPublishersKeep(p) /\ Sees(p) /\ TypedPublish
<1>. DEFINE created == run[r].status = "absent"
            x == [publisher[p] EXCEPT !.pc = "persisted", !.run = r, !.created = created]
            v == [run[r] EXCEPT !.status = "queued"]
<1>0. publisher[p] \in Publisher /\ run[r] \in Run
  BY DEF TypeOK
<1>1. x \in Publisher /\ x.time = publisher[p].time /\ x.todo = publisher[p].todo
      /\ x.seen = publisher[p].seen
  BY <1>0 DEF Publisher
<1>2. publisher' = [publisher EXCEPT ![p] = x] /\ wake' = wake
  BY DEF Create, TypeOK
<1>. HIDE DEF x
<1>3. /\ publisher' \in [Publishers -> Publisher]
      /\ OtherPublishersKeep(p) /\ Sees(p)
  BY <1>1, <1>2, BecomeEffect
<1>4. CASE created
  <2>1. v \in Run /\ v.status = "queued" /\ v.attempt = run[r].attempt
    BY <1>0 DEF Run
  <2>2. run' = [run EXCEPT ![r] = v] /\ row' = [row EXCEPT ![r] = PendingRow(clock)]
    BY <1>4 DEF Create, TypeOK
  <2>3. PendingRow(clock) \in Row
    BY IdleTypes DEF PendingRow, Row, OpenStates, TypeOK
  <2>. HIDE DEF v
  <2>4. Inserts(r) /\ run' \in [Runs -> Run] /\ row' \in [Runs -> Row]
    BY <1>4, <2>1, <2>2, <2>3 DEF Inserts, TypeOK, RunsKeep, RowsKeep
  <2>. QED
    BY <1>2, <1>3, <2>4 DEF PublishShape, TypedPublish, TypeOK
<1>5. CASE ~created
  BY <1>2, <1>3, <1>5 DEF Create, PublishShape, TypedPublish, TypeOK
<1>. QED
  BY <1>4, <1>5

(* The steps that change neither a run nor a row, or only mark one. *)
LEMMA EnqueueShape ==
  ASSUME TypeOK, NEW p \in Publishers,
         \/ ReadPersisted(p) \/ ReadPending(p) \/ SendWake(p) \/ MarkQueued(p)
         \/ PublishFails(p) \/ PublisherCrash(p) \/ StartSweep(p)
  PROVE  PublishShape(p) /\ OtherPublishersKeep(p) /\ Sees(p) /\ TypedPublish
<1>0. publisher[p] \in Publisher /\ publisher[p].run \in Runs
  BY PublisherParts DEF TypeOK
<1>1. \A pc \in PublisherPC : LET x == [publisher[p] EXCEPT !.pc = pc] IN
        /\ x \in Publisher /\ x.time = publisher[p].time /\ x.todo = publisher[p].todo
        /\ x.seen = publisher[p].seen
  BY <1>0 DEF Publisher, PublisherPC
<1>2. \A pc \in PublisherPC :
        publisher' = [publisher EXCEPT ![p].pc = pc] =>
          /\ publisher' \in [Publishers -> Publisher] /\ OtherPublishersKeep(p) /\ Sees(p)
  <2>. SUFFICES ASSUME NEW pc \in PublisherPC, publisher' = [publisher EXCEPT ![p].pc = pc]
                PROVE  publisher' \in [Publishers -> Publisher] /\ OtherPublishersKeep(p) /\ Sees(p)
    OBVIOUS
  <2>1. publisher' = [publisher EXCEPT ![p] = [publisher[p] EXCEPT !.pc = pc]]
    BY DEF TypeOK
  <2>. QED
    BY <1>1, <2>1, BecomeEffect
<1>3. \A x : (x = AfterPublish(p) \/ x = IdlePublisher) /\ publisher' = [publisher EXCEPT ![p] = x] =>
        publisher' \in [Publishers -> Publisher] /\ OtherPublishersKeep(p) /\ Sees(p)
  BY AfterPublishEffect, BecomeEffect
<1>4. CASE ReadPersisted(p) \/ ReadPending(p) \/ SendWake(p) \/ PublishFails(p) \/ PublisherCrash(p)
  <2>1. UNCHANGED <<run, row>> /\ wake' \in SUBSET Runs
    BY <1>0, <1>4 DEF ReadPersisted, ReadPending, SendWake, PublishFails, PublisherCrash, TypeOK
  <2>2. publisher' \in [Publishers -> Publisher] /\ OtherPublishersKeep(p) /\ Sees(p)
    <3>1. CASE ReadPersisted(p)
      BY <1>2, <3>1 DEF ReadPersisted, PublisherPC
    <3>2. CASE ReadPending(p)
      <4>1. CASE publisher' = [publisher EXCEPT ![p] = [publisher[p] EXCEPT !.pc = "send"]]
        BY <1>1, <4>1, BecomeEffect DEF PublisherPC
      <4>. QED
        BY <1>3, <3>2, <4>1 DEF ReadPending
    <3>3. CASE SendWake(p)
      BY <1>2, <3>3 DEF SendWake, PublisherPC
    <3>4. CASE PublishFails(p) \/ PublisherCrash(p)
      BY <1>3, <3>4 DEF PublishFails, PublisherCrash
    <3>. QED
      BY <1>4, <3>1, <3>2, <3>3, <3>4
  <2>. QED
    BY <2>1, <2>2 DEF PublishShape, TypedPublish, TypeOK
<1>5. CASE MarkQueued(p)
  <2>. DEFINE r == publisher[p].run  v == [row[r] EXCEPT !.state = "queued"]
  <2>1. publisher' \in [Publishers -> Publisher] /\ OtherPublishersKeep(p) /\ Sees(p)
    BY <1>3, <1>5 DEF MarkQueued
  <2>2. UNCHANGED <<run, wake>>
    BY <1>5 DEF MarkQueued
  <2>3. CASE row[r].state = "pending"
    <3>1. row' = [row EXCEPT ![r] = v]
      BY <1>5, <2>3 DEF MarkQueued, TypeOK
    <3>2. v \in Row /\ v.state = "queued" /\ v.attempts = row[r].attempts
      BY <1>0, RowParts DEF Row, OpenStates
    <3>. HIDE DEF v
    <3>3. Marks(r) /\ row' \in [Runs -> Row]
      BY <1>0, <2>2, <2>3, <3>1, <3>2 DEF Marks, RowsKeep, TypeOK
    <3>. QED
      BY <1>0, <2>1, <2>2, <3>3 DEF PublishShape, TypedPublish, TypeOK
  <2>4. CASE row[r].state # "pending"
    BY <1>5, <2>1, <2>2, <2>4 DEF MarkQueued, PublishShape, TypedPublish, TypeOK
  <2>. QED
    BY <2>3, <2>4
<1>6. CASE StartSweep(p)
  <2>. DEFINE x == [publisher[p] EXCEPT !.pc = "select", !.time = clock]
  <2>1. publisher' = [publisher EXCEPT ![p] = x] /\ UNCHANGED <<run, row, wake>>
    BY <1>6 DEF StartSweep, TypeOK
  <2>2. /\ x \in Publisher /\ x.time = clock /\ x.todo = publisher[p].todo
        /\ x.seen = publisher[p].seen
    BY <1>0 DEF Publisher, TypeOK
  <2>. HIDE DEF x
  <2>3. publisher' \in [Publishers -> Publisher] /\ OtherPublishersKeep(p) /\ Sees(p)
    BY <2>1, <2>2, BecomeEffect
  <2>. QED
    BY <2>1, <2>3 DEF PublishShape, TypedPublish, TypeOK
<1>. QED
  BY <1>4, <1>5, <1>6

LEMMA SelectShape ==
  ASSUME TypeOK, NEW s \in Publishers, Select(s)
  PROVE  PublishShape(s) /\ OtherPublishersKeep(s) /\ Sees(s) /\ TypedPublish
<1>. DEFINE found == {r \in Runs : Recoverable(r, publisher[s].time)}
            view == [r \in Runs |-> IF r \in found THEN [run |-> run[r], row |-> row[r]]
                                                   ELSE publisher[s].seen[r]]
            x == [publisher[s] EXCEPT !.pc = "recover", !.todo = found, !.seen = view]
<1>0. publisher[s] \in Publisher /\ UNCHANGED <<run, row, wake>>
  BY DEF TypeOK, Select
<1>1. CASE publisher' = [publisher EXCEPT ![s] = IdlePublisher]
  BY <1>0, <1>1, AfterPublishEffect, BecomeEffect DEF PublishShape, TypedPublish, TypeOK
<1>2. CASE publisher' = [publisher EXCEPT ![s] = x]
  <2>1. view \in [Runs -> Snapshot]
    <3>1. publisher[s].seen \in [Runs -> Snapshot]
      BY <1>0, PublisherParts
    <3>2. \A r \in Runs : [run |-> run[r], row |-> row[r]] \in Snapshot
      BY DEF TypeOK, Snapshot
    <3>. QED
      BY <3>1, <3>2
  <2>2. \A r \in found : view[r].run = run[r] /\ view[r].row = row[r]
    OBVIOUS
  <2>3. found \subseteq Runs /\ \A r \in found : Recoverable(r, publisher[s].time)
    OBVIOUS
  <2>. HIDE DEF view, found
  <2>4. /\ x \in Publisher /\ x.time = publisher[s].time /\ x.todo = found /\ x.seen = view
    BY <1>0, <2>1, <2>3 DEF Publisher
  <2>. HIDE DEF x
  <2>5. /\ publisher' \in [Publishers -> Publisher] /\ publisher'[s] = x
        /\ OtherPublishersKeep(s)
    BY <1>2, <2>4 DEF TypeOK, OtherPublishersKeep
  <2>6. Sees(s)
    BY <2>2, <2>3, <2>4, <2>5 DEF Sees
  <2>. QED
    BY <1>0, <2>5, <2>6 DEF PublishShape, TypedPublish, TypeOK
<1>3. publisher' = [publisher EXCEPT ![s] = IdlePublisher] \/ publisher' = [publisher EXCEPT ![s] = x]
  <2>1. publisher' = [publisher EXCEPT ![s] = IF found = {} THEN IdlePublisher ELSE x]
    BY <1>0 DEF Select, TypeOK, Publisher
  <2>. QED
    BY <2>1
<1>. QED
  BY <1>1, <1>2, <1>3

LEMMA RecoverShape ==
  ASSUME TypeOK, NEW s \in Publishers, NEW r \in Runs, Recover(s, r)
  PROVE  PublishShape(s) /\ OtherPublishersKeep(s) /\ Sees(s) /\ TypedPublish
<1>. DEFINE me == publisher[s]
            seen == me.seen[r]
            v == [Released(row[r], "pending") EXCEPT !.availableAt = me.time]
            q == Requeued(run[r])
            rest == [me EXCEPT !.todo = @ \ {r}, !.run = r]
            next == [rest EXCEPT !.pc = "pending"]
<1>0. me \in Publisher /\ me.time \in Nat /\ r \in me.todo /\ wake' = wake
  BY PublisherParts DEF TypeOK, Recover
<1>1. /\ rest \in Publisher /\ rest.time = me.time /\ rest.todo \subseteq me.todo /\ rest.seen = me.seen
      /\ next \in Publisher /\ next.time = me.time /\ next.todo \subseteq me.todo /\ next.seen = me.seen
  BY <1>0 DEF Publisher
<1>2. \E x \in {next, IdlePublisher, rest} : publisher' = [publisher EXCEPT ![s] = x]
  BY DEF Recover
<1>3. IdlePublisher \in Publisher /\ IdlePublisher.time = 0 /\ IdlePublisher.todo = {}
  BY IdleTypes DEF IdlePublisher
<1>4. publisher' \in [Publishers -> Publisher] /\ OtherPublishersKeep(s) /\ Sees(s)
  <2>1. PICK x \in {next, IdlePublisher, rest} : publisher' = [publisher EXCEPT ![s] = x]
    BY <1>2
  <2>. HIDE DEF next, rest
  <2>2. x \in Publisher /\ x.time \in {me.time, 0}
        /\ (x.todo = {} \/ (x.todo \subseteq me.todo /\ x.seen = me.seen))
    BY <1>1, <1>3, <2>1
  <2>. QED
    BY <2>1, <2>2, BecomeEffect
<1>5. /\ v \in Row /\ v.state = "pending" /\ v.attempts = row[r].attempts
  <2>1. row[r] \in Row /\ "pending" \in OpenStates
    BY DEF TypeOK, OpenStates
  <2>2. /\ Released(row[r], "pending") \in Row
        /\ Released(row[r], "pending").state = "pending"
        /\ Released(row[r], "pending").attempts = row[r].attempts
    BY <2>1, ReleasedFields
  <2>. HIDE DEF me
  <2>. QED
    BY <1>0, <2>2 DEF Row
<1>6. q \in Run /\ q.status = "queued" /\ q.attempt = 0
  BY RowParts DEF Requeued, Run, NoAttempt
<1>7. CASE SameRow(r, seen)
  <2>1. row' = [row EXCEPT ![r] = v]
    BY <1>7 DEF Recover, TypeOK
  <2>2. run' = (IF SameRun(r, seen) THEN [run EXCEPT ![r] = q] ELSE run)
    BY <1>7 DEF Recover, TypeOK
  <2>. HIDE DEF v, q
  <2>3. row' \in [Runs -> Row] /\ row'[r] = v /\ RowsKeep(r)
    BY <1>5, <2>1 DEF TypeOK, RowsKeep
  <2>4. /\ run' \in [Runs -> Run] /\ RunsKeep(r)
        /\ run'[r] = run[r] \/ (SameRun(r, seen) /\ run'[r] = q)
    BY <1>6, <2>2 DEF TypeOK, RunsKeep
  <2>5. TakesBack(s, r)
    BY <1>0, <1>5, <1>6, <1>7, <2>3, <2>4 DEF TakesBack
  <2>. QED
    BY <1>0, <1>4, <2>3, <2>4, <2>5 DEF PublishShape, TypedPublish, TypeOK
<1>8. CASE ~SameRow(r, seen)
  <2>1. UNCHANGED <<run, row>>
    BY <1>8 DEF Recover
  <2>. QED
    BY <1>0, <1>4, <2>1 DEF PublishShape, TypedPublish, TypeOK
<1>. QED
  BY <1>7, <1>8

(* All the steps of requests and sweeps. *)
PublisherNext(p) ==
  \/ RequestStep(p) \/ SweepStep(p) \/ StartSweep(p) \/ PublishFails(p) \/ PublisherCrash(p)
  \/ \E r \in Runs : Create(p, r)

LEMMA PublisherShape ==
  ASSUME TypeOK, NEW p \in Publishers, PublisherNext(p)
  PROVE  /\ PublishShape(p) /\ OtherPublishersKeep(p) /\ Sees(p) /\ TypedPublish
         /\ UNCHANGED <<clock, worker, artifacts>>
<1>1. UNCHANGED <<clock, worker, artifacts>>
  BY DEF PublisherNext, RequestStep, SweepStep, ReadPersisted, ReadPending, SendWake, MarkQueued,
         Select, Recover, StartSweep, PublishFails, PublisherCrash, Create
<1>. QED
  BY <1>1, CreateShape, EnqueueShape, SelectShape, RecoverShape
  DEF PublisherNext, RequestStep, SweepStep

(* A message arrives. *)
LEMMA ReceiveEffect ==
  ASSUME TypeOK, NEW w \in Workers, NEW r \in Runs, Receive(w, r)
  PROVE  /\ UNCHANGED <<clock, run, row, artifacts, publisher, requests>>
         /\ wake' \in SUBSET Runs /\ worker' \in [Workers -> Worker] /\ OthersKeep(w)
         /\ worker'[w].pc = "read" /\ worker'[w].now = clock
<1>1. [pc |-> "read", run |-> r, now |-> clock, attempt |-> 0] \in Worker
  BY DEF Worker, TypeOK
<1>. QED
  BY <1>1 DEF Receive, TypeOK, OthersKeep

(* A step of the specification is one of these. *)
LEMMA NextSplit ==
  ASSUME [Next]_vars
  PROVE  \/ \E w \in Workers : WorkStep(w) \/ ProcessFails(w) \/ Crash(w)
         \/ \E w \in Workers, r \in Runs : Receive(w, r)
         \/ \E p \in Publishers : PublisherNext(p)
         \/ Tick
         \/ UNCHANGED vars
BY DEF Next, PublisherNext, Publishers

LEMMA CountersType ==
  ASSUME TypeOK, [Next]_vars
  PROVE  requests' \in Nat /\ faults' \in Nat
<1>1. requests' \in {requests, requests + 1}
  BY DEF Next, vars, RequestStep, SweepStep, WorkStep, Tick, Create, ReadPersisted, ReadPending,
     SendWake, MarkQueued, PublishFails, PublisherCrash, StartSweep, Select, Recover, Receive,
     ReadRow, ClaimRow, ClaimRun, Generate, PutArtifact, CompleteReady, CompleteFailed,
     FailProcessing, ProcessFails, MarkDelivered, MarkFailed, MarkRetry, Crash
<1>2. faults' \in {faults, faults + 1}
  BY DEF Next, vars, RequestStep, SweepStep, WorkStep, Tick, Create, ReadPersisted, ReadPending,
     SendWake, MarkQueued, PublishFails, PublisherCrash, StartSweep, Select, Recover, Receive,
     ReadRow, ClaimRow, ClaimRun, Generate, PutArtifact, CompleteReady, CompleteFailed,
     FailProcessing, ProcessFails, MarkDelivered, MarkFailed, MarkRetry, Crash, Fault, NoFault
<1>. QED
  BY <1>1, <1>2 DEF TypeOK

LEMMA NextType == TypeOK /\ [Next]_vars => TypeOK'
<1>. SUFFICES ASSUME TypeOK, [Next]_vars PROVE TypeOK'
  OBVIOUS
<1>0. requests' \in Nat /\ faults' \in Nat
  BY CountersType
<1>1. CASE \E w \in Workers : WorkStep(w) \/ ProcessFails(w) \/ Crash(w)
  <2>1. Typed /\ UNCHANGED <<clock, publisher>>
    BY <1>1, WorkerShape
  <2>. QED
    BY <1>0, <2>1 DEF Typed, TypeOK
<1>2. CASE \E w \in Workers, r \in Runs : Receive(w, r)
  <2>1. /\ UNCHANGED <<clock, run, row, artifacts, publisher>>
        /\ wake' \in SUBSET Runs /\ worker' \in [Workers -> Worker]
    BY <1>2, ReceiveEffect
  <2>. QED
    BY <1>0, <2>1 DEF TypeOK
<1>3. CASE \E p \in Publishers : PublisherNext(p)
  <2>1. TypedPublish /\ UNCHANGED <<clock, worker, artifacts>>
    BY <1>3, PublisherShape
  <2>. QED
    BY <1>0, <2>1 DEF TypedPublish, TypeOK
<1>4. CASE Tick
  BY <1>0, <1>4 DEF Tick, TypeOK
<1>5. CASE UNCHANGED vars
  BY <1>5 DEF vars, TypeOK
<1>. QED
  BY <1>1, <1>2, <1>3, <1>4, <1>5, NextSplit

LEMMA InitType == Init => TypeOK
BY IdleTypes DEF Init, TypeOK

(* Every variable keeps its type (TypeOK): a row and its run, the isolates'  *)
(* copies and what a sweep saw are records the code can be in.             *)
THEOREM TypeCorrect == Spec => []TypeOK
BY InitType, NextType, PTL DEF Spec

-----------------------------------------------------------------------------
(* A row exists with its run, and its number grows with every claim.  What  *)
(* an isolate that has claimed the row may go by while the row still holds  *)
(* its claim: no other isolate at work on the run has its number, the run   *)
(* is not taken under it, then it is, and in the end the run has ended.     *)
Numbered(w) ==
  LET r == worker[w].run IN
  /\ worker[w].pc \in WorkingPC => worker[w].attempt <= row[r].attempts
  /\ worker[w].pc = "claim" => worker[w].attempt <= row[r].attempts + 1

Fenced(w) ==
  worker[w].pc \in WorkingPC /\ HeldBy(row[worker[w].run], w, worker[w].attempt)

NumberedLast(w) ==
  \A v \in Workers \ {w} :
    Working(v, worker[w].run) => worker[v].attempt < worker[w].attempt

RunFollows(w) ==
  LET r == worker[w].run IN
  /\ worker[w].pc = "claimRun" => run[r].attempt < worker[w].attempt
  /\ worker[w].pc \in {"generate", "put", "completeReady", "completeFailed"} =>
       RunHeldBy(r, worker[w].attempt)
  /\ worker[w].pc = "markDelivered" => run[r].status \in Ended

RunKnown(r) ==
  /\ run[r].status = "absent" => row[r] = AbsentRow
  /\ run[r].attempt <= row[r].attempts
  /\ row[r].state = "delivered" => run[r].status \in Ended

SawOpen(p) ==
  \A r \in publisher[p].todo :
    /\ publisher[p].seen[r].run.status \in {"queued", "running"}
    /\ publisher[p].seen[r].row.state # "absent"

FenceInv ==
  /\ \A r \in Runs : RunKnown(r)
  /\ \A w \in Workers : Numbered(w) /\ (Fenced(w) => NumberedLast(w) /\ RunFollows(w))
  /\ \A p \in Publishers : SawOpen(p)

LEMMA WorkRows ==
  ASSUME NEW w \in Workers, WorkShape(w), NEW q \in Runs
  PROVE  \/ row'[q] = row[q]
         \/ q = worker[w].run /\ (Claims(w) \/ (Leaves(w) /\ Releases(w)))
<1>1. CASE Leaves(w)
  BY <1>1 DEF Leaves, Releases, RowsKeep
<1>2. CASE Claims(w)
  BY <1>2 DEF Claims, RowsKeep
<1>3. CASE row' = row
  BY <1>3
<1>. QED
  BY <1>1, <1>2, <1>3 DEF WorkShape, Reads, Takes, Ends, Moves

LEMMA WorkRuns ==
  ASSUME NEW w \in Workers, WorkShape(w), NEW q \in Runs
  PROVE  \/ run'[q] = run[q]
         \/ q = worker[w].run /\ (Takes(w) \/ Ends(w))
<1>1. CASE Takes(w) \/ Ends(w)
  BY <1>1 DEF Takes, Ends, RunsKeep
<1>2. CASE run' = run
  BY <1>2
<1>. QED
  BY <1>1, <1>2 DEF WorkShape, Leaves, Reads, Claims, Moves

LEMMA WorkGoesOn ==
  ASSUME NEW w \in Workers, WorkShape(w), worker'[w].pc \in WorkingPC
  PROVE  /\ SameWork(w)
         /\ \/ Claims(w) /\ worker[w].pc = "claim"
            \/ (Takes(w) \/ Ends(w) \/ Moves(w)) /\ worker[w].pc \in WorkingPC
<1>1. ~Leaves(w) /\ ~Reads(w)
  BY DEF Leaves, Reads, IdleWorker, WorkingPC
<1>. QED
  BY <1>1 DEF WorkShape, Claims, Takes, Ends, Moves, WorkingPC

LEMMA AttemptsGrow ==
  ASSUME TypeOK, row' \in [Runs -> Row], \A r \in Runs : RunKnown(r),
         \/ \E w \in Workers : WorkShape(w)
         \/ \E p \in Publishers : PublishShape(p),
         NEW q \in Runs
  PROVE  row'[q].attempts \in Nat /\ row[q].attempts <= row'[q].attempts
<1>. SUFFICES row[q].attempts <= row'[q].attempts
  BY DEF Row
<1>0. row[q].attempts \in Nat
  BY RowParts
<1>1. CASE row'[q] = row[q]
  BY <1>0, <1>1
<1>2. ASSUME NEW w \in Workers, WorkShape(w) PROVE row[q].attempts <= row'[q].attempts
  <2>1. CASE Claims(w) /\ q = worker[w].run
    BY <1>0, <2>1 DEF Claims
  <2>2. CASE Releases(w) /\ q = worker[w].run
    BY <1>0, <2>2 DEF Releases
  <2>. QED
    BY <1>1, <1>2, <2>1, <2>2, WorkRows
<1>3. ASSUME NEW r \in Runs, Inserts(r) PROVE row[q].attempts <= row'[q].attempts
  <2>1. row[r].attempts = 0 /\ row'[r].attempts = 0
    BY <1>3 DEF Inserts, RunKnown, AbsentRow, PendingRow
  <2>. QED
    BY <1>0, <1>1, <1>3, <2>1 DEF Inserts, RowsKeep
<1>4. ASSUME NEW r \in Runs, NEW p \in Publishers, Marks(r) \/ TakesBack(p, r)
      PROVE  row[q].attempts <= row'[q].attempts
  BY <1>0, <1>1, <1>4 DEF Marks, TakesBack, RowsKeep
<1>. QED
  BY <1>1, <1>2, <1>3, <1>4 DEF PublishShape

LEMMA WorkKnown ==
  ASSUME TypeOK, FenceInv, NEW w \in Workers, WorkShape(w), NEW q \in Runs
  PROVE  RunKnown(q)'
<1>. DEFINE r == worker[w].run
<1>0. /\ r \in Runs /\ row[r].attempts \in Nat /\ run[r].attempt \in Nat
      /\ worker[w].attempt \in Nat /\ RunKnown(q) /\ RunKnown(r) /\ Numbered(w)
      /\ Fenced(w) => RunFollows(w)
  BY WorkerParts, RowParts DEF FenceInv
<1>1. row[r].state = "processing" => run[r].status # "absent"
  BY <1>0 DEF RunKnown, AbsentRow
<1>2. CASE q # r
  <2>1. row'[q] = row[q] /\ run'[q] = run[q]
    BY <1>2 DEF WorkShape, Leaves, Releases, Reads, Claims, Takes, Ends, Moves, RowsKeep, RunsKeep
  <2>. QED
    BY <1>0, <2>1 DEF RunKnown
<1>3. CASE q = r
  <2>1. CASE UNCHANGED <<run, row>>
    BY <1>0, <2>1 DEF RunKnown
  <2>2. CASE Leaves(w) /\ Releases(w)
    <3>1. row'[r].state = "delivered" => run[r].status \in Ended
      BY <1>0, <2>2 DEF Releases, Fenced, RunFollows
    <3>. QED
      BY <1>0, <1>1, <1>3, <2>2, <3>1 DEF Leaves, Releases, RunKnown, HeldBy
  <2>3. CASE Claims(w)
    <3>1. run[r].status # "absent"
      BY <1>0, <2>3 DEF Claims, Claimable, RunKnown, AbsentRow
    <3>. QED
      BY <1>0, <1>3, <2>3, <3>1 DEF Claims, RunKnown
  <2>4. CASE Takes(w)
    <3>1. run[r].status \notin Ended /\ worker[w].attempt <= row[r].attempts
      BY <1>0, <2>4 DEF Takes, RunIsFree, Ended, Numbered, WorkingPC
    <3>. QED
      BY <1>0, <1>3, <2>4, <3>1 DEF Takes, RunKnown
  <2>5. CASE Ends(w)
    BY <1>0, <1>3, <2>5 DEF Ends, RunKnown, Ended
  <2>. QED
    BY <2>1, <2>2, <2>3, <2>4, <2>5 DEF WorkShape, Leaves, Reads, Moves
<1>. QED
  BY <1>2, <1>3

LEMMA WorkNumbered ==
  ASSUME TypeOK, FenceInv, row' \in [Runs -> Row],
         NEW w \in Workers, WorkShape(w), OthersKeep(w), NEW v \in Workers
  PROVE  Numbered(v)'
<1>. DEFINE q == worker[v].run
            r == worker[w].run
<1>0. /\ q \in Runs /\ worker[v].attempt \in Nat /\ Numbered(v) /\ Numbered(w)
      /\ row[q].attempts \in Nat
      /\ r \in Runs /\ worker[w].attempt \in Nat /\ row[r].attempts \in Nat
  BY WorkerParts, RowParts DEF FenceInv
<1>1. /\ row'[q].attempts \in Nat /\ row[q].attempts <= row'[q].attempts
      /\ row'[r].attempts \in Nat /\ row[r].attempts <= row'[r].attempts
  BY <1>0, AttemptsGrow DEF FenceInv
<1>2. CASE v # w
  <2>1. worker'[v] = worker[v]
    BY <1>2 DEF OthersKeep
  <2>. QED
    BY <1>0, <1>1, <2>1 DEF Numbered
<1>3. CASE v = w /\ Leaves(w)
  BY <1>3 DEF Leaves, IdleWorker, Numbered, WorkingPC
<1>4. CASE v = w /\ Reads(w)
  BY <1>0, <1>4 DEF Reads, Numbered, WorkingPC
<1>5. CASE v = w /\ Claims(w)
  BY <1>0, <1>1, <1>5 DEF Claims, SameWork, Numbered, WorkingPC
<1>6. CASE v = w /\ (Takes(w) \/ Ends(w) \/ Moves(w))
  <2>1. /\ worker[w].pc \in WorkingPC /\ worker'[w].pc # "claim" /\ row' = row
        /\ worker'[w].run = r /\ worker'[w].attempt = worker[w].attempt
    BY <1>6 DEF Takes, Ends, Moves, SameWork, WorkingPC, FailPC
  <2>. QED
    BY <1>0, <1>6, <2>1 DEF Numbered
<1>. QED
  BY <1>2, <1>3, <1>4, <1>5, <1>6 DEF WorkShape

(* The step of the isolate itself. *)
LEMMA WorkFence ==
  ASSUME TypeOK, FenceInv, NEW w \in Workers, WorkShape(w), OthersKeep(w), Fenced(w)'
  PROVE  NumberedLast(w)' /\ RunFollows(w)'
<1>. DEFINE r == worker[w].run
<1>0. /\ r \in Runs /\ row[r].attempts \in Nat /\ run[r].attempt \in Nat
      /\ worker[w].attempt \in Nat /\ RunKnown(r)
      /\ Fenced(w) => NumberedLast(w) /\ RunFollows(w)
  BY WorkerParts, RowParts DEF FenceInv
<1>1. \A v \in Workers : worker[v].attempt \in Nat /\ Numbered(v)
  BY WorkerParts DEF FenceInv
<1>2. CASE Leaves(w) \/ Reads(w)
  BY <1>2 DEF Fenced, Leaves, Reads, IdleWorker, WorkingPC
<1>3. CASE Claims(w)
  <2>1. NumberedLast(w)'
    <3>1. \A v \in Workers \ {w} : Working(v, r) => worker[v].attempt < row[r].attempts + 1
      BY <1>0, <1>1 DEF Working, Numbered
    <3>2. worker'[w].run = r /\ worker'[w].attempt = row[r].attempts + 1
      BY <1>3 DEF Claims, SameWork, Fenced, HeldBy
    <3>3. \A v \in Workers \ {w} : worker'[v] = worker[v]
      BY DEF OthersKeep
    <3>. QED
      BY <3>1, <3>2, <3>3 DEF NumberedLast, Working
  <2>2. RunFollows(w)'
    <3>1. /\ worker'[w].pc = "claimRun" /\ worker'[w].run = r /\ run' = run
          /\ worker'[w].attempt = row[r].attempts + 1
      BY <1>3 DEF Claims, SameWork, Fenced, HeldBy
    <3>2. run[r].attempt <= row[r].attempts
      BY <1>0 DEF RunKnown
    <3>. QED
      BY <1>0, <3>1, <3>2 DEF RunFollows
  <2>. QED
    BY <2>1, <2>2
<1>4. CASE Takes(w) \/ Ends(w) \/ Moves(w)
  <2>1. /\ row' = row /\ worker[w].pc \in WorkingPC
        /\ worker'[w].run = r /\ worker'[w].attempt = worker[w].attempt
    BY <1>4 DEF Takes, Ends, Moves, SameWork, WorkingPC
  <2>2. Fenced(w) /\ NumberedLast(w) /\ RunFollows(w)
    BY <1>0, <2>1 DEF Fenced
  <2>3. NumberedLast(w)'
    BY <2>1, <2>2 DEF NumberedLast, Working, OthersKeep
  <2>4. RunFollows(w)'
    <3>1. CASE Takes(w)
      BY <2>1, <3>1 DEF Takes, RunFollows, RunHeldBy, FailPC
    <3>2. CASE Ends(w)
      BY <2>1, <3>2 DEF Ends, RunFollows, FailPC
    <3>3. CASE Moves(w)
      <4>1. run[r].status # "absent" /\ run[r] \in Run
        BY <1>0, <2>2, RowParts DEF RunKnown, AbsentRow, Fenced, HeldBy
      <4>2. run' = run
        BY <3>3 DEF Moves
      <4>3. CASE worker'[w].pc \in FailPC
        BY <4>3 DEF RunFollows, FailPC
      <4>4. CASE worker[w].pc = "claimRun" /\ ~RunIsFree(w) /\ worker'[w].pc = "markDelivered"
        BY <2>1, <2>2, <4>1, <4>2, <4>4 DEF RunFollows, RunIsFree, Run, Ended
      <4>. QED
        BY <2>1, <2>2, <3>3, <4>2, <4>3, <4>4 DEF Moves, RunFollows, RunHeldBy
    <3>. QED
      BY <1>4, <3>1, <3>2, <3>3
  <2>. QED
    BY <2>3, <2>4
<1>. QED
  BY <1>2, <1>3, <1>4 DEF WorkShape

(* The step of another isolate: it neither has nor gets the number. *)
LEMMA WorkFenceOthers ==
  ASSUME TypeOK, FenceInv, NEW w \in Workers, WorkShape(w), OthersKeep(w),
         NEW v \in Workers, v # w, Fenced(v)'
  PROVE  NumberedLast(v)' /\ RunFollows(v)'
<1>. DEFINE r == worker[w].run
            q == worker[v].run
<1>0. /\ r \in Runs /\ q \in Runs /\ worker[w].attempt \in Nat /\ worker[v].attempt \in Nat
      /\ run[q].attempt \in Nat
  BY WorkerParts, RowParts
<1>1. worker'[v] = worker[v]
  BY DEF OthersKeep
<1>2. row'[q] = row[q] /\ (Claims(w) => q # r)
  <2>1. row'[q].state = "processing" /\ row'[q].owner = v
    BY <1>1 DEF Fenced, HeldBy
  <2>. QED
    BY <1>0, <2>1, WorkRows DEF Releases, Claims
<1>3. Fenced(v) /\ NumberedLast(v) /\ RunFollows(v)
  <2>1. Fenced(v)
    BY <1>1, <1>2 DEF Fenced
  <2>. QED
    BY <2>1 DEF FenceInv
<1>4. NumberedLast(v)'
  <2>1. ASSUME NEW u \in Workers \ {v}, Working(u, q)' PROVE worker'[u].attempt < worker[v].attempt
    <3>1. CASE u # w
      BY <1>1, <1>3, <2>1, <3>1 DEF OthersKeep, NumberedLast, Working
    <3>2. CASE u = w
      <4>1. Working(w, q) /\ worker'[w].attempt = worker[w].attempt
        BY <1>1, <1>2, <2>1, <3>2, WorkGoesOn DEF Working, SameWork
      <4>. QED
        BY <1>3, <2>1, <3>2, <4>1 DEF NumberedLast
    <3>. QED
      BY <3>1, <3>2
  <2>. QED
    BY <1>1, <2>1 DEF NumberedLast
<1>5. RunFollows(v)'
  <2>1. CASE run'[q] = run[q]
    BY <1>1, <1>3, <2>1 DEF RunFollows, RunHeldBy
  <2>2. CASE r = q /\ (Takes(w) \/ Ends(w))
    <3>1. Working(w, q)
      BY <2>2 DEF Takes, Ends, Working, WorkingPC
    <3>2. worker[w].attempt < worker[v].attempt
      BY <1>3, <3>1 DEF NumberedLast
    <3>3. CASE Takes(w)
      BY <1>0, <1>1, <1>3, <2>2, <3>2, <3>3
      DEF Takes, RunIsFree, RunFollows, RunHeldBy, Ended
    <3>4. CASE Ends(w)
      BY <1>0, <1>1, <1>3, <2>2, <3>2, <3>4 DEF Ends, RunFollows, RunHeldBy
    <3>. QED
      BY <2>2, <3>3, <3>4
  <2>. QED
    BY <1>0, <2>1, <2>2, WorkRuns
<1>. QED
  BY <1>4, <1>5

(* The step of a request or of a sweep. *)
LEMMA PublisherKnown ==
  ASSUME TypeOK, FenceInv, NEW p \in Publishers, PublishShape(p), NEW q \in Runs
  PROVE  RunKnown(q)'
<1>0. /\ RunKnown(q) /\ SawOpen(p) /\ row[q].attempts \in Nat /\ run[q].attempt \in Nat
  BY RowParts DEF FenceInv
<1>1. CASE run'[q] = run[q] /\ row'[q] = row[q]
  BY <1>0, <1>1 DEF RunKnown
<1>2. CASE Inserts(q)
  BY <1>0, <1>2 DEF Inserts, RunKnown, PendingRow, AbsentRow
<1>3. CASE Marks(q)
  BY <1>0, <1>3 DEF Marks, RunKnown, AbsentRow
<1>4. CASE TakesBack(p, q)
  <2>1. row[q].state # "absent" /\ run[q].status # "absent"
    BY <1>0, <1>4 DEF TakesBack, SawOpen, SameRow, RunKnown, AbsentRow
  <2>. QED
    BY <1>0, <1>4, <2>1 DEF TakesBack, RunKnown
<1>. QED
  BY <1>1, <1>2, <1>3, <1>4 DEF PublishShape, Inserts, Marks, TakesBack, RowsKeep, RunsKeep

LEMMA PublisherFence ==
  ASSUME TypeOK, FenceInv, NEW p \in Publishers, PublishShape(p), worker' = worker,
         NEW v \in Workers, Fenced(v)'
  PROVE  NumberedLast(v)' /\ RunFollows(v)'
<1>. DEFINE q == worker[v].run
<1>0. q \in Runs
  BY WorkerParts
<1>1. row'[q].state = "processing"
  BY DEF Fenced, HeldBy
<1>2. row'[q] = row[q] /\ run'[q] = run[q]
  BY <1>0, <1>1 DEF PublishShape, Inserts, Marks, TakesBack, RowsKeep, RunsKeep, PendingRow,
                    AbsentRow
<1>3. NumberedLast(v) /\ RunFollows(v)
  BY <1>2 DEF FenceInv, Fenced
<1>. QED
  BY <1>2, <1>3 DEF NumberedLast, Working, RunFollows, RunHeldBy

LEMMA PublisherSaw ==
  ASSUME TypeOK, FenceInv, NEW p \in Publishers, OtherPublishersKeep(p), Sees(p),
         NEW s \in Publishers
  PROVE  SawOpen(s)'
<1>0. SawOpen(s)
  BY DEF FenceInv
<1>1. CASE s # p
  BY <1>0, <1>1 DEF OtherPublishersKeep, SawOpen
<1>2. CASE s = p
  <2>1. SUFFICES ASSUME NEW r \in publisher'[p].todo
                 PROVE  /\ publisher'[p].seen[r].run.status \in {"queued", "running"}
                        /\ publisher'[p].seen[r].row.state # "absent"
    BY <1>2 DEF SawOpen
  <2>2. CASE r \in publisher[p].todo /\ publisher'[p].seen[r] = publisher[p].seen[r]
    BY <1>0, <1>2, <2>2 DEF SawOpen
  <2>3. CASE /\ Recoverable(r, publisher[p].time)
             /\ publisher'[p].seen[r].run = run[r] /\ publisher'[p].seen[r].row = row[r]
    BY <2>3 DEF Recoverable
  <2>. QED
    BY <2>1, <2>2, <2>3 DEF Sees
<1>. QED
  BY <1>1, <1>2

LEMMA FenceKept ==
  ASSUME UNCHANGED <<run, row, publisher>>, FenceInv,
         NEW u \in Workers, OthersKeep(u), worker'[u] = worker[u] \/ worker'[u].pc = "read"
  PROVE  FenceInv'
<1>1. (\A r \in Runs : RunKnown(r))' /\ (\A p \in Publishers : SawOpen(p))'
  BY DEF FenceInv, RunKnown, SawOpen
<1>2. ASSUME NEW w \in Workers
      PROVE  Numbered(w)' /\ (Fenced(w)' => NumberedLast(w)' /\ RunFollows(w)')
  <2>1. CASE worker'[w].pc = "read"
    BY <2>1 DEF Numbered, Fenced, WorkingPC
  <2>2. CASE worker'[w] = worker[w]
    <3>1. Numbered(w)'
      BY <2>2 DEF FenceInv, Numbered
    <3>2. ASSUME Fenced(w)' PROVE NumberedLast(w)' /\ RunFollows(w)'
      <4>1. NumberedLast(w) /\ RunFollows(w)
        BY <2>2, <3>2 DEF FenceInv, Fenced
      <4>2. \A v \in Workers : worker'[v].pc \in WorkingPC => worker'[v] = worker[v]
        BY DEF OthersKeep, WorkingPC
      <4>3. NumberedLast(w)'
        BY <2>2, <4>1, <4>2 DEF NumberedLast, Working
      <4>4. RunFollows(w)'
        BY <2>2, <4>1 DEF RunFollows, RunHeldBy
      <4>. QED
        BY <4>3, <4>4
    <3>. QED
      BY <3>1, <3>2
  <2>. QED
    BY <2>1, <2>2 DEF OthersKeep
<1>. QED
  BY <1>1, <1>2 DEF FenceInv

LEMMA NextFence == TypeOK /\ FenceInv /\ [Next]_vars => FenceInv'
<1>. SUFFICES ASSUME TypeOK, FenceInv, [Next]_vars PROVE FenceInv'
  OBVIOUS
<1>1. ASSUME NEW w \in Workers, WorkStep(w) \/ ProcessFails(w) \/ Crash(w) PROVE FenceInv'
  <2>1. WorkShape(w) /\ OthersKeep(w) /\ row' \in [Runs -> Row] /\ publisher' = publisher
    BY <1>1, WorkerShape DEF Typed
  <2>2. \A r \in Runs : RunKnown(r)'
    BY <2>1, WorkKnown
  <2>3. \A v \in Workers : Numbered(v)'
    BY <2>1, WorkNumbered
  <2>4. \A v \in Workers : Fenced(v)' => NumberedLast(v)' /\ RunFollows(v)'
    BY <2>1, WorkFence, WorkFenceOthers
  <2>5. \A p \in Publishers : SawOpen(p)'
    BY <2>1 DEF FenceInv, SawOpen
  <2>. QED
    BY <2>2, <2>3, <2>4, <2>5 DEF FenceInv
<1>2. ASSUME NEW w \in Workers, NEW r \in Runs, Receive(w, r) PROVE FenceInv'
  BY <1>2, ReceiveEffect, FenceKept
<1>3. ASSUME NEW p \in Publishers, PublisherNext(p) PROVE FenceInv'
  <2>1. /\ PublishShape(p) /\ OtherPublishersKeep(p) /\ Sees(p) /\ row' \in [Runs -> Row]
        /\ worker' = worker
    BY <1>3, PublisherShape DEF TypedPublish
  <2>2. \A r \in Runs : RunKnown(r)'
    BY <2>1, PublisherKnown
  <2>3. ASSUME NEW v \in Workers PROVE Numbered(v)'
    <3>1. worker[v].run \in Runs /\ worker[v].attempt \in Nat /\ Numbered(v)
          /\ row[worker[v].run].attempts \in Nat
      BY WorkerParts, RowParts DEF FenceInv
    <3>2. /\ row'[worker[v].run].attempts \in Nat
          /\ row[worker[v].run].attempts <= row'[worker[v].run].attempts
      BY <2>1, <3>1, AttemptsGrow DEF FenceInv
    <3>. QED
      BY <2>1, <3>1, <3>2 DEF Numbered
  <2>4. \A v \in Workers : Fenced(v)' => NumberedLast(v)' /\ RunFollows(v)'
    BY <2>1, PublisherFence
  <2>5. \A s \in Publishers : SawOpen(s)'
    BY <2>1, PublisherSaw
  <2>. QED
    BY <2>2, <2>3, <2>4, <2>5 DEF FenceInv
<1>4. CASE Tick
  BY <1>4 DEF Tick, FenceInv, RunKnown, Numbered, Fenced, NumberedLast, Working, RunFollows,
              RunHeldBy, SawOpen
<1>5. CASE UNCHANGED vars
  BY <1>5 DEF vars, FenceInv, RunKnown, Numbered, Fenced, NumberedLast, Working, RunFollows,
              RunHeldBy, SawOpen
<1>. QED
  BY <1>1, <1>2, <1>3, <1>4, <1>5, NextSplit

LEMMA InitFence == Init => FenceInv
<1>. SUFFICES ASSUME Init PROVE FenceInv
  OBVIOUS
<1>1. \A r \in Runs : RunKnown(r)
  BY DEF Init, RunKnown, AbsentRun, AbsentRow, NoAttempt
<1>2. \A w \in Workers : Numbered(w) /\ ~Fenced(w)
  BY DEF Init, Numbered, Fenced, IdleWorker, WorkingPC
<1>3. \A p \in Publishers : SawOpen(p)
  BY DEF Init, SawOpen, IdlePublisher
<1>. QED
  BY <1>1, <1>2, <1>3 DEF FenceInv

LEMMA FenceHolds == Spec => [](TypeOK /\ FenceInv)
BY InitType, NextType, InitFence, NextFence, PTL DEF Spec

(* The row of an export says delivered only when its run has ended          *)
(* (DeliveredHasEnded): markDelivered is fenced by the claim of the row, the *)
(* end of the run by the attempt that the claim drew, and while the row      *)
(* holds the claim the run is nobody else's.                                *)
THEOREM DeliveredEnded == Spec => []DeliveredHasEnded
<1>1. FenceInv => DeliveredHasEnded
  BY DEF FenceInv, RunKnown, DeliveredHasEnded
<1>. QED
  BY <1>1, FenceHolds, PTL

LEMMA EndedStays ==
  TypeOK /\ FenceInv /\ [Next]_vars =>
    [\A r \in Runs : run[r].status \in Ended => run'[r] = run[r]]_vars
<1>. SUFFICES ASSUME TypeOK, FenceInv, [Next]_vars, NEW r \in Runs, run[r].status \in Ended
              PROVE  run'[r] = run[r]
  OBVIOUS
<1>1. ASSUME NEW w \in Workers, WorkStep(w) \/ ProcessFails(w) \/ Crash(w) PROVE run'[r] = run[r]
  <2>1. WorkShape(w)
    BY <1>1, WorkerShape
  <2>2. r = worker[w].run => ~Takes(w) /\ ~Ends(w)
    BY DEF Takes, Ends, RunIsFree, RunHeldBy, Ended
  <2>. QED
    BY <2>1, <2>2, WorkRuns
<1>2. ASSUME NEW w \in Workers, NEW q \in Runs, Receive(w, q) PROVE run'[r] = run[r]
  BY <1>2 DEF Receive
<1>3. ASSUME NEW p \in Publishers, PublisherNext(p) PROVE run'[r] = run[r]
  <2>1. PublishShape(p)
    BY <1>3, PublisherShape
  <2>2. ~Inserts(r)
    BY DEF Inserts, Ended
  <2>3. TakesBack(p, r) => run'[r] = run[r]
    BY DEF TakesBack, SameRun, FenceInv, SawOpen, Ended
  <2>. QED
    BY <2>1, <2>2, <2>3 DEF PublishShape, Inserts, Marks, TakesBack, RunsKeep
<1>4. CASE Tick \/ UNCHANGED vars
  BY <1>4 DEF Tick, vars
<1>. QED
  BY <1>1, <1>2, <1>3, <1>4, NextSplit

(* A run ends once (EndedForever): the claim takes queued runs and those of *)
(* an earlier attempt, the completion is fenced by the attempt, and the      *)
(* sweep requeues a run only if it still is what was selected, which had     *)
(* not ended.                                                               *)
THEOREM EndsOnce == Spec => EndedForever
BY FenceHolds, EndedStays, PTL DEF EndedForever, Spec

-----------------------------------------------------------------------------
(* Until its lease ends an isolate has the row, and nobody else can claim   *)
(* it.  Two isolates that have read the same number read it within twice    *)
(* the time of a claim, so only one of them claims while both are at work.  *)
Punctual(w) ==
  /\ worker[w].pc # "idle" => worker[w].now <= clock
  /\ worker[w].pc \in {"read", "claim"} => clock <= worker[w].now + MaxClaimTime

Leased(w) ==
  LET r == worker[w].run IN
  worker[w].pc \in WorkingPC /\ clock < worker[w].now + Lease =>
    /\ row[r].state = "processing" /\ row[r].owner = w
    /\ row[r].leaseUntil = worker[w].now + Lease

SameNumber(w, v) ==
  /\ v # w /\ worker[v].run = worker[w].run /\ worker[v].attempt = worker[w].attempt

Apart(w, v) ==
  worker[w].pc \in WorkingPC /\ SameNumber(w, v) =>
    /\ worker[v].pc \notin WorkingPC
    /\ worker[v].pc = "claim" => worker[v].now <= worker[w].now + MaxClaimTime

SawLate(p) ==
  /\ publisher[p].time <= clock
  /\ \A r \in publisher[p].todo :
       publisher[p].seen[r].row.state = "processing" =>
         publisher[p].seen[r].row.leaseUntil <= clock

LeaseInv ==
  /\ \A w \in Workers : Punctual(w) /\ Leased(w)
  /\ \A w, v \in Workers : Apart(w, v)
  /\ \A p \in Publishers : SawLate(p)

SafeInv == TypeOK /\ FenceInv /\ LeaseInv

LEMMA TimesType ==
  ASSUME TypeOK, NEW w \in Workers
  PROVE  /\ clock \in Nat /\ worker[w].now \in Nat /\ worker[w].attempt \in Nat
         /\ worker[w].run \in Runs /\ Lease \in Nat /\ MaxClaimTime \in Nat
         /\ row[worker[w].run].attempts \in Nat /\ row[worker[w].run].leaseUntil \in Nat
BY WorkerParts, RowParts, TimingAssumption, BoundsAssumption DEF TypeOK

(* An isolate cannot claim what another one still has on lease. *)
LEMMA NoClaimUnderLease ==
  ASSUME SafeInv, NEW w \in Workers, NEW v \in Workers,
         worker[v].pc \in WorkingPC, worker[v].run = worker[w].run,
         clock < worker[v].now + Lease, worker[w].pc = "claim"
  PROVE  ~Claimable(row[worker[w].run], worker[w].now)
<1>. DEFINE r == worker[w].run
<1>1. row[r].state = "processing" /\ row[r].leaseUntil = worker[v].now + Lease
  BY DEF SafeInv, LeaseInv, Leased
<1>2. worker[w].now <= clock
  BY DEF SafeInv, LeaseInv, Punctual
<1>3. clock \in Nat /\ worker[w].now \in Nat /\ worker[v].now \in Nat /\ Lease \in Nat
  BY TimesType DEF SafeInv
<1>. QED
  BY <1>1, <1>2, <1>3 DEF Claimable

(* Nor can two that have read the same number both have claimed. *)
LEMMA NoSecondClaim ==
  ASSUME 2 * MaxClaimTime < Lease, SafeInv, NEW w \in Workers, NEW v \in Workers, w # v,
         worker[v].pc \in WorkingPC, SameNumber(v, w), worker[w].pc = "claim"
  PROVE  ~Claimable(row[worker[w].run], worker[w].now)
<1>1. worker[w].now <= worker[v].now + MaxClaimTime
  BY DEF SafeInv, LeaseInv, Apart
<1>2. clock <= worker[w].now + MaxClaimTime
  BY DEF SafeInv, LeaseInv, Punctual
<1>3. /\ clock \in Nat /\ worker[w].now \in Nat /\ worker[v].now \in Nat /\ Lease \in Nat
      /\ MaxClaimTime \in Nat
  BY TimesType DEF SafeInv
<1>4. clock < worker[v].now + Lease
  BY <1>1, <1>2, <1>3
<1>. QED
  BY <1>4, NoClaimUnderLease DEF SameNumber

LEMMA WorkLeased ==
  ASSUME SafeInv, NEW w \in Workers, WorkShape(w), OthersKeep(w), clock' = clock,
         NEW v \in Workers
  PROVE  Leased(v)'
<1>1. CASE v = w
  <2>1. SUFFICES ASSUME worker'[w].pc \in WorkingPC, clock < worker'[w].now + Lease
                 PROVE  Leased(w)'
    BY <1>1 DEF Leased
  <2>2. CASE Claims(w)
    BY <2>2 DEF Claims, SameWork, Leased
  <2>3. CASE (Takes(w) \/ Ends(w) \/ Moves(w)) /\ worker[w].pc \in WorkingPC
    <3>1. row' = row /\ SameWork(w)
      BY <2>3 DEF Takes, Ends, Moves
    <3>. QED
      BY <2>1, <2>3, <3>1 DEF SafeInv, LeaseInv, Leased, SameWork
  <2>. QED
    BY <1>1, <2>1, <2>2, <2>3, WorkGoesOn
<1>2. CASE v # w
  <2>. DEFINE q == worker[v].run
  <2>0. worker'[v] = worker[v] /\ q \in Runs
    BY <1>2, TimesType DEF OthersKeep, SafeInv
  <2>1. SUFFICES ASSUME worker[v].pc \in WorkingPC, clock < worker[v].now + Lease
                 PROVE  row'[q] = row[q]
    BY <2>0 DEF SafeInv, LeaseInv, Leased
  <2>2. row[q].owner = v
    BY <2>1 DEF SafeInv, LeaseInv, Leased
  <2>3. ~(q = worker[w].run /\ Claims(w))
    BY <2>1, NoClaimUnderLease DEF Claims
  <2>4. ~(q = worker[w].run /\ Releases(w))
    BY <1>2, <2>2 DEF Releases, HeldBy
  <2>. QED
    BY <2>0, <2>3, <2>4, WorkRows
<1>. QED
  BY <1>1, <1>2

LEMMA WorkPunctual ==
  ASSUME SafeInv, NEW w \in Workers, WorkShape(w), OthersKeep(w), clock' = clock,
         NEW v \in Workers
  PROVE  Punctual(v)'
<1>0. Punctual(v) /\ Punctual(w)
  BY DEF SafeInv, LeaseInv
<1>1. CASE v # w \/ Leaves(w)
  BY <1>0, <1>1 DEF OthersKeep, Leaves, IdleWorker, Punctual
<1>2. CASE v = w /\ Reads(w)
  BY <1>0, <1>2 DEF Reads, Punctual
<1>3. CASE v = w /\ worker'[w].pc \in WorkingPC
  <2>1. worker[w].pc # "idle" /\ worker'[w].now = worker[w].now
    BY <1>3, WorkGoesOn DEF SameWork, WorkingPC
  <2>. QED
    BY <1>0, <1>3, <2>1 DEF Punctual, WorkingPC
<1>. QED
  BY <1>1, <1>2, <1>3
  DEF WorkShape, Claims, Takes, Ends, Moves, FailPC, WorkingPC

LEMMA WorkApart ==
  ASSUME 2 * MaxClaimTime < Lease, SafeInv, NEW w \in Workers, WorkShape(w), OthersKeep(w),
         NEW u \in Workers, NEW v \in Workers
  PROVE  Apart(u, v)'
<1>1. SUFFICES ASSUME u # v, worker'[u].pc \in WorkingPC,
                      worker'[v].run = worker'[u].run, worker'[v].attempt = worker'[u].attempt
               PROVE  /\ worker'[v].pc \notin WorkingPC
                      /\ worker'[v].pc = "claim" => worker'[v].now <= worker'[u].now + MaxClaimTime
  BY DEF Apart, SameNumber
<1>2. CASE u # w /\ v # w
  <2>1. worker'[u] = worker[u] /\ worker'[v] = worker[v] /\ Apart(u, v)
    BY <1>2 DEF OthersKeep, SafeInv, LeaseInv
  <2>. QED
    BY <1>1, <2>1 DEF Apart, SameNumber
<1>3. CASE u = w
  <2>0. worker'[v] = worker[v] /\ SameWork(w) /\ v # w
    BY <1>1, <1>3, WorkGoesOn DEF OthersKeep
  <2>1. SameNumber(w, v) /\ SameNumber(v, w)
    BY <1>1, <1>3, <2>0 DEF SameNumber, SameWork
  <2>2. CASE worker[w].pc \in WorkingPC
    BY <1>1, <1>3, <2>0, <2>1, <2>2 DEF SafeInv, LeaseInv, Apart, SameWork
  <2>3. CASE Claims(w) /\ worker[w].pc = "claim"
    <3>1. worker[v].pc \notin WorkingPC
      BY <2>1, <2>0, <2>3, NoSecondClaim DEF Claims
    <3>2. ASSUME worker[v].pc = "claim" PROVE worker[v].now <= worker[w].now + MaxClaimTime
      <4>1. worker[v].now <= clock /\ clock <= worker[w].now + MaxClaimTime
        BY <2>3, <3>2 DEF SafeInv, LeaseInv, Punctual
      <4>2. /\ clock \in Nat /\ worker[w].now \in Nat /\ worker[v].now \in Nat
            /\ MaxClaimTime \in Nat
        BY TimesType DEF SafeInv
      <4>. QED
        BY <4>1, <4>2
    <3>. QED
      BY <1>3, <2>0, <3>1, <3>2 DEF SameWork
  <2>. QED
    BY <1>1, <1>3, <2>2, <2>3, WorkGoesOn
<1>4. CASE v = w
  <2>0. worker'[u] = worker[u] /\ u # w
    BY <1>1, <1>4 DEF OthersKeep
  <2>1. CASE Leaves(w)
    BY <1>4, <2>1 DEF Leaves, IdleWorker, WorkingPC
  <2>2. CASE Reads(w)
    <3>1. /\ worker[w].run = worker[u].run
          /\ worker[u].attempt = row[worker[u].run].attempts + 1
      BY <1>1, <1>4, <2>0, <2>2 DEF Reads
    <3>2. worker[u].attempt <= row[worker[u].run].attempts
      BY <1>1, <2>0 DEF SafeInv, FenceInv, Numbered
    <3>3. row[worker[u].run].attempts \in Nat
      BY TimesType DEF SafeInv
    <3>. QED
      BY <3>1, <3>2, <3>3
  <2>3. CASE worker'[w].pc \in WorkingPC
    <3>1. SameNumber(u, w) /\ SameWork(w)
      BY <1>1, <1>4, <2>0, <2>3, WorkGoesOn DEF SameNumber, SameWork
    <3>2. worker[w].pc \notin WorkingPC
      BY <1>1, <2>0, <3>1 DEF SafeInv, LeaseInv, Apart
    <3>3. Claims(w) /\ worker[w].pc = "claim"
      BY <2>3, <3>2, WorkGoesOn
    <3>. QED
      BY <1>1, <2>0, <3>1, <3>3, NoSecondClaim DEF Claims
  <2>. QED
    BY <2>1, <2>2, <2>3 DEF WorkShape, Claims, Takes, Ends, Moves, FailPC, WorkingPC
<1>. QED
  BY <1>2, <1>3, <1>4

LEMMA PublisherLeased ==
  ASSUME SafeInv, NEW p \in Publishers, PublishShape(p), UNCHANGED <<clock, worker>>,
         NEW v \in Workers
  PROVE  Leased(v)'
<1>. DEFINE q == worker[v].run
<1>0. q \in Runs
  BY TimesType DEF SafeInv
<1>1. SUFFICES ASSUME worker[v].pc \in WorkingPC, clock < worker[v].now + Lease
               PROVE  row'[q] = row[q]
  BY DEF SafeInv, LeaseInv, Leased
<1>2. row[q].state = "processing" /\ row[q].leaseUntil = worker[v].now + Lease
  BY <1>1 DEF SafeInv, LeaseInv, Leased
<1>3. ~Inserts(q)
  BY <1>0, <1>2 DEF Inserts, SafeInv, FenceInv, RunKnown, AbsentRow
<1>4. ~Marks(q)
  BY <1>2 DEF Marks
<1>5. ~TakesBack(p, q)
  <2>1. SUFFICES ASSUME TakesBack(p, q) PROVE FALSE
    OBVIOUS
  <2>2. row[q].leaseUntil <= clock
    BY <1>2, <2>1 DEF TakesBack, SameRow, SafeInv, LeaseInv, SawLate
  <2>3. clock \in Nat /\ worker[v].now \in Nat /\ Lease \in Nat
    BY TimesType DEF SafeInv
  <2>. QED
    BY <1>1, <1>2, <2>2, <2>3
<1>. QED
  BY <1>0, <1>3, <1>4, <1>5 DEF PublishShape, Inserts, Marks, TakesBack, RowsKeep

LEMMA PublisherSawLate ==
  ASSUME SafeInv, NEW p \in Publishers, OtherPublishersKeep(p), Sees(p), clock' = clock,
         publisher' \in [Publishers -> Publisher],
         NEW s \in Publishers
  PROVE  SawLate(s)'
<1>0. SawLate(s) /\ clock \in Nat
  BY DEF SafeInv, LeaseInv, TypeOK
<1>1. CASE s # p
  BY <1>0, <1>1 DEF OtherPublishersKeep, SawLate
<1>2. CASE s = p
  <2>1. publisher'[p].time <= clock
    BY <1>0, <1>2 DEF Sees, SawLate
  <2>2. ASSUME NEW r \in publisher'[p].todo, publisher'[p].seen[r].row.state = "processing"
        PROVE  publisher'[p].seen[r].row.leaseUntil <= clock
    <3>1. CASE r \in publisher[p].todo /\ publisher'[p].seen[r] = publisher[p].seen[r]
      BY <1>0, <1>2, <2>2, <3>1 DEF SawLate
    <3>2. CASE Recoverable(r, publisher[p].time) /\ publisher'[p].seen[r].row = row[r]
      <4>0. publisher[p] \in Publisher /\ r \in Runs
        BY <2>2, PublisherParts DEF SafeInv, TypeOK
      <4>1. row[r].leaseUntil <= publisher[p].time /\ publisher[p].time <= clock
        BY <1>0, <1>2, <2>2, <3>2 DEF Recoverable, SawLate
      <4>2. r \in Runs /\ publisher[p].time \in Nat
        BY <4>0, PublisherParts DEF SafeInv, TypeOK
      <4>3. row[r].leaseUntil \in Nat
        BY <4>2, RowParts DEF SafeInv
      <4>. QED
        BY <1>0, <3>2, <4>1, <4>2, <4>3
    <3>. QED
      BY <2>2, <3>1, <3>2 DEF Sees
  <2>. QED
    BY <1>2, <2>1, <2>2 DEF SawLate
<1>. QED
  BY <1>1, <1>2

LEMMA TickLease ==
  ASSUME SafeInv, Tick
  PROVE  LeaseInv'
<1>0. clock \in Nat /\ clock' = clock + 1 /\ UNCHANGED <<row, worker, publisher>>
  BY DEF SafeInv, TypeOK, Tick
<1>1. ASSUME NEW w \in Workers PROVE Punctual(w)' /\ Leased(w)'
  <2>1. Punctual(w) /\ Leased(w)
    BY DEF SafeInv, LeaseInv
  <2>2. worker[w].now \in Nat /\ Lease \in Nat /\ MaxClaimTime \in Nat
    BY TimesType DEF SafeInv
  <2>3. worker[w].pc \in {"read", "claim"} => clock < worker[w].now + MaxClaimTime
    BY DEF Tick
  <2>4. Punctual(w)'
    BY <1>0, <2>1, <2>2, <2>3 DEF Punctual
  <2>5. Leased(w)'
    BY <1>0, <2>1, <2>2 DEF Leased
  <2>. QED
    BY <2>4, <2>5
<1>2. ASSUME NEW w \in Workers, NEW v \in Workers PROVE Apart(w, v)'
  BY <1>0 DEF SafeInv, LeaseInv, Apart, SameNumber
<1>3. ASSUME NEW p \in Publishers PROVE SawLate(p)'
  <2>1. SawLate(p)
    BY DEF SafeInv, LeaseInv
  <2>2. publisher[p].time \in Nat
    BY PublisherParts DEF SafeInv, TypeOK
  <2>3. ASSUME NEW r \in publisher[p].todo PROVE publisher[p].seen[r].row.leaseUntil \in Nat
    BY <2>3 DEF SafeInv, TypeOK, Publisher, Snapshot, Row
  <2>. QED
    BY <1>0, <2>1, <2>2, <2>3 DEF SawLate
<1>. QED
  BY <1>1, <1>2, <1>3 DEF LeaseInv

LEMMA ReceiveLease ==
  ASSUME SafeInv, NEW w \in Workers, NEW r \in Runs, Receive(w, r)
  PROVE  LeaseInv'
<1>0. /\ UNCHANGED <<clock, row, publisher>> /\ OthersKeep(w)
      /\ worker'[w].pc = "read" /\ worker'[w].now = clock
      /\ clock \in Nat /\ MaxClaimTime \in Nat
  BY ReceiveEffect, BoundsAssumption DEF SafeInv, TypeOK
<1>1. ASSUME NEW v \in Workers PROVE Punctual(v)' /\ Leased(v)'
  <2>1. CASE v = w
    BY <1>0, <2>1 DEF Punctual, Leased, WorkingPC
  <2>2. CASE v # w
    BY <1>0, <2>2 DEF SafeInv, LeaseInv, Punctual, Leased, OthersKeep
  <2>. QED
    BY <2>1, <2>2
<1>2. ASSUME NEW u \in Workers, NEW v \in Workers PROVE Apart(u, v)'
  <2>1. CASE u = w \/ v = w
    BY <1>0, <2>1 DEF Apart, WorkingPC
  <2>2. CASE u # w /\ v # w
    BY <1>0, <2>2 DEF SafeInv, LeaseInv, Apart, SameNumber, OthersKeep
  <2>. QED
    BY <2>1, <2>2
<1>3. ASSUME NEW p \in Publishers PROVE SawLate(p)'
  BY <1>0 DEF SafeInv, LeaseInv, SawLate
<1>. QED
  BY <1>1, <1>2, <1>3 DEF LeaseInv

LEMMA NextLease ==
  ASSUME 2 * MaxClaimTime < Lease
  PROVE  SafeInv /\ [Next]_vars => SafeInv'
<1>. SUFFICES ASSUME SafeInv, [Next]_vars PROVE LeaseInv'
  BY NextType, NextFence DEF SafeInv
<1>1. ASSUME NEW w \in Workers, WorkStep(w) \/ ProcessFails(w) \/ Crash(w) PROVE LeaseInv'
  <2>1. WorkShape(w) /\ OthersKeep(w) /\ UNCHANGED <<clock, publisher>>
    BY <1>1, WorkerShape DEF SafeInv
  <2>2. \A v \in Workers : Punctual(v)' /\ Leased(v)'
    BY <2>1, WorkPunctual, WorkLeased
  <2>3. \A u, v \in Workers : Apart(u, v)'
    BY <2>1, WorkApart
  <2>4. \A p \in Publishers : SawLate(p)'
    BY <2>1 DEF SafeInv, LeaseInv, SawLate
  <2>. QED
    BY <2>2, <2>3, <2>4 DEF LeaseInv
<1>2. ASSUME NEW w \in Workers, NEW r \in Runs, Receive(w, r) PROVE LeaseInv'
  BY <1>2, ReceiveLease
<1>3. ASSUME NEW p \in Publishers, PublisherNext(p) PROVE LeaseInv'
  <2>1. /\ PublishShape(p) /\ OtherPublishersKeep(p) /\ Sees(p)
        /\ publisher' \in [Publishers -> Publisher] /\ UNCHANGED <<clock, worker>>
    BY <1>3, PublisherShape DEF SafeInv, TypedPublish
  <2>2. \A v \in Workers : Leased(v)'
    BY <2>1, PublisherLeased
  <2>3. (\A v \in Workers : Punctual(v)') /\ (\A u, v \in Workers : Apart(u, v)')
    BY <2>1 DEF SafeInv, LeaseInv, Punctual, Apart, SameNumber
  <2>4. \A s \in Publishers : SawLate(s)'
    BY <2>1, PublisherSawLate
  <2>. QED
    BY <2>2, <2>3, <2>4 DEF LeaseInv
<1>4. CASE Tick
  BY <1>4, TickLease
<1>5. CASE UNCHANGED vars
  BY <1>5 DEF vars, SafeInv, LeaseInv, Punctual, Leased, Apart, SameNumber, SawLate
<1>. QED
  BY <1>1, <1>2, <1>3, <1>4, <1>5, NextSplit DEF SafeInv

LEMMA InitLease == Init => LeaseInv
BY DEF Init, LeaseInv, Punctual, Leased, Apart, SawLate, IdleWorker, IdlePublisher, WorkingPC

-----------------------------------------------------------------------------
(* The file of an attempt is there before the attempt completes the run.    *)
Written(w) ==
  worker[w].pc = "completeReady" =>
    ArtifactKey(worker[w].attempt) \in artifacts[worker[w].run]

FileFinal(r) ==
  run[r].status = "ready" =>
    /\ run[r].artifact \in artifacts[r]
    /\ \A w \in Workers : Working(w, r) /\ worker[w].pc \in {"generate", "put"}
                            => ArtifactKey(worker[w].attempt) # run[r].artifact

FileInv ==
  /\ \A w \in Workers : Written(w)
  /\ \A r \in Runs : FileFinal(r)

(* What an isolate does to the files. *)
LEMMA FilesGrow ==
  ASSUME NEW w \in Workers, WorkShape(w), NEW r \in Runs
  PROVE  artifacts[r] \subseteq artifacts'[r]
BY DEF WorkShape, Leaves, Reads, Claims, Takes, Ends, Moves

LEMMA WorkWritten ==
  ASSUME SafeInv, FileInv, NEW w \in Workers, WorkShape(w), OthersKeep(w), NEW v \in Workers
  PROVE  Written(v)'
<1>0. worker[v].run \in Runs /\ Written(v)
  BY TimesType DEF SafeInv, FileInv
<1>1. CASE v # w
  BY <1>0, <1>1, FilesGrow DEF OthersKeep, Written
<1>2. CASE v = w /\ worker'[w].pc = "completeReady"
  <2>1. Moves(w) /\ SameWork(w) /\ worker[w].pc = "put"
    BY <1>2 DEF WorkShape, Leaves, Reads, Claims, Takes, Ends, Moves, IdleWorker, FailPC
  <2>. QED
    BY <1>2, <2>1 DEF Moves, SameWork, Written, FailPC
<1>. QED
  BY <1>1, <1>2 DEF Written

(* A run that is ready was so before, or is completed by this isolate. *)
LEMMA WorkReady ==
  ASSUME SafeInv, NEW w \in Workers, WorkShape(w), NEW r \in Runs, run'[r].status = "ready"
  PROVE  \/ run'[r] = run[r] /\ run[r].status = "ready"
         \/ /\ worker[w].run = r /\ worker[w].pc = "completeReady" /\ Ends(w)
            /\ run'[r].artifact = ArtifactKey(worker[w].attempt)
<1>1. CASE run'[r] = run[r]
  BY <1>1
<1>2. CASE r = worker[w].run /\ Takes(w)
  BY <1>2 DEF Takes
<1>3. CASE r = worker[w].run /\ Ends(w)
  BY <1>3 DEF Ends
<1>. QED
  BY <1>1, <1>2, <1>3, WorkRuns

LEMMA WorkFinal ==
  ASSUME SafeInv, FileInv, NEW w \in Workers, WorkShape(w), OthersKeep(w), NEW r \in Runs
  PROVE  FileFinal(r)'
<1>1. SUFFICES ASSUME run'[r].status = "ready"
               PROVE  /\ run'[r].artifact \in artifacts'[r]
                      /\ \A v \in Workers :
                           Working(v, r)' /\ worker'[v].pc \in {"generate", "put"}
                             => ArtifactKey(worker'[v].attempt) # run'[r].artifact
  BY DEF FileFinal
<1>2. CASE run'[r] = run[r] /\ run[r].status = "ready"
  <2>1. FileFinal(r) /\ artifacts[r] \subseteq artifacts'[r]
    BY FilesGrow DEF FileInv
  <2>2. ASSUME NEW v \in Workers, Working(v, r)', worker'[v].pc \in {"generate", "put"}
        PROVE  Working(v, r) /\ worker[v].pc \in {"generate", "put"}
               /\ worker'[v].attempt = worker[v].attempt
    <3>1. CASE v # w
      BY <2>2, <3>1 DEF OthersKeep, Working
    <3>2. CASE v = w
      <4>1. SameWork(w) /\ worker'[w].run = r
        BY <2>2, <3>2, WorkGoesOn DEF Working
      <4>2. worker[w].run = r
        BY <4>1 DEF SameWork
      <4>3. ~Takes(w)
        BY <1>2, <4>2 DEF Takes, RunIsFree
      <4>4. Moves(w)
        BY <2>2, <3>2, <4>3 DEF WorkShape, Leaves, Reads, Claims, Ends, IdleWorker, FailPC
      <4>. QED
        BY <2>2, <3>2, <4>1, <4>2, <4>4 DEF Moves, SameWork, Working, FailPC
    <3>. QED
      BY <3>1, <3>2
  <2>. QED
    BY <1>2, <2>1, <2>2 DEF FileFinal
<1>3. CASE /\ worker[w].run = r /\ worker[w].pc = "completeReady" /\ Ends(w)
           /\ run'[r].artifact = ArtifactKey(worker[w].attempt)
  <2>1. run'[r].artifact \in artifacts'[r]
    BY <1>3, FilesGrow DEF FileInv, Written
  <2>2. ASSUME NEW v \in Workers, Working(v, r)', worker'[v].pc \in {"generate", "put"}
        PROVE  worker'[v].attempt # worker[w].attempt
    <3>1. v # w
      BY <1>3, <2>2 DEF Ends, FailPC
    <3>2. worker'[v] = worker[v]
      BY <3>1 DEF OthersKeep
    <3>. QED
      BY <1>3, <2>2, <3>1, <3>2 DEF SafeInv, LeaseInv, Apart, SameNumber, Working, WorkingPC
  <2>. QED
    BY <1>3, <2>1, <2>2 DEF ArtifactKey
<1>. QED
  BY <1>1, <1>2, <1>3, WorkReady

LEMMA NextFile ==
  ASSUME 2 * MaxClaimTime < Lease
  PROVE  SafeInv /\ FileInv /\ [Next]_vars => FileInv'
<1>. SUFFICES ASSUME SafeInv, FileInv, [Next]_vars PROVE FileInv'
  OBVIOUS
<1>1. ASSUME NEW w \in Workers, WorkStep(w) \/ ProcessFails(w) \/ Crash(w) PROVE FileInv'
  <2>1. WorkShape(w) /\ OthersKeep(w)
    BY <1>1, WorkerShape DEF SafeInv
  <2>2. (\A v \in Workers : Written(v)') /\ (\A r \in Runs : FileFinal(r)')
    BY <2>1, WorkWritten, WorkFinal
  <2>. QED
    BY <2>2 DEF FileInv
<1>2. ASSUME NEW w \in Workers, NEW r \in Runs, Receive(w, r) PROVE FileInv'
  <2>1. UNCHANGED <<run, artifacts>> /\ OthersKeep(w) /\ worker'[w].pc = "read"
    BY <1>2, ReceiveEffect DEF SafeInv
  <2>2. \A v \in Workers : worker'[v].pc \in WorkingPC => worker'[v] = worker[v]
    BY <2>1 DEF OthersKeep, WorkingPC
  <2>3. \A v \in Workers : Written(v)'
    BY <2>1, <2>2 DEF FileInv, Written, WorkingPC
  <2>4. \A q \in Runs : FileFinal(q)'
    BY <2>1, <2>2 DEF FileInv, FileFinal, Working
  <2>. QED
    BY <2>3, <2>4 DEF FileInv
<1>3. ASSUME NEW p \in Publishers, PublisherNext(p) PROVE FileInv'
  <2>1. PublishShape(p) /\ UNCHANGED <<worker, artifacts>>
    BY <1>3, PublisherShape DEF SafeInv
  <2>2. \A r \in Runs : run'[r] = run[r] \/ run'[r].status = "queued"
    BY <2>1 DEF PublishShape, Inserts, Marks, TakesBack, RunsKeep
  <2>3. \A v \in Workers : Written(v)'
    BY <2>1 DEF FileInv, Written
  <2>4. \A q \in Runs : FileFinal(q)'
    BY <2>1, <2>2 DEF FileInv, FileFinal, Working
  <2>. QED
    BY <2>3, <2>4 DEF FileInv
<1>4. CASE Tick
  BY <1>4 DEF Tick, FileInv, Written, FileFinal, Working
<1>5. CASE UNCHANGED vars
  BY <1>5 DEF vars, FileInv, Written, FileFinal, Working
<1>. QED
  BY <1>1, <1>2, <1>3, <1>4, <1>5, NextSplit DEF SafeInv

(* What a download of a ready run finds is final (ReadyFileIsFinal): the    *)
(* file was written before completeReady, and no isolate that still          *)
(* generates or writes has the attempt of the one that completed the run.   *)
(* It takes that an isolate claims the row soon after it has read the clock: *)
(* claim() draws the number in a SELECT of its own, and two isolates that    *)
(* drew the same one must not both find the row free.                        *)
THEOREM FileIsFinal ==
  ASSUME 2 * MaxClaimTime < Lease
  PROVE  Spec => []ReadyFileIsFinal
<1>1. Init => SafeInv /\ FileInv
  <2>1. Init => FileInv
    BY DEF Init, FileInv, Written, FileFinal, IdleWorker, AbsentRun
  <2>. QED
    BY <2>1, InitType, InitFence, InitLease DEF SafeInv
<1>2. SafeInv /\ FileInv /\ [Next]_vars => SafeInv' /\ FileInv'
  BY NextLease, NextFile
<1>3. FileInv => ReadyFileIsFinal
  BY DEF FileInv, FileFinal, ReadyFileIsFinal
<1>. QED
  BY <1>1, <1>2, <1>3, PTL DEF Spec
=============================================================================
