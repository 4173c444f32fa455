------------------------ MODULE DecisionDeliveryProofs ------------------------
(***************************************************************************)
(* Theorems about DecisionDelivery, for any number of decisions, isolates, *)
(* edits and faults.                                                       *)
(***************************************************************************)
EXTENDS DecisionDelivery, TLAPS

USE BoundsAssumption

(* What the assignments to rows and workers change. *)
LEMMA RowSet ==
  ASSUME row \in [Topics -> [Versions -> Row]], NEW t \in Topics, NEW v, NEW r \in Row,
         SetRow(t, v, r)
  PROVE  /\ row' \in [Topics -> [Versions -> Row]]
         /\ v \in Versions => row'[t][v] = r
         /\ \A u \in Topics, x \in Versions : u # t \/ x # v => row'[u][x] = row[u][x]
<1>. DEFINE f == [row[t] EXCEPT ![v] = r]
<1>1. /\ f \in [Versions -> Row]
      /\ v \in Versions => f[v] = r
      /\ \A x \in Versions : x # v => f[x] = row[t][x]
  OBVIOUS
<1>2. row' = [row EXCEPT ![t] = f]
  BY DEF SetRow
<1>. HIDE DEF f
<1>. QED
  BY <1>1, <1>2

LEMMA WorkerSet ==
  ASSUME worker \in [Workers -> Worker], NEW w \in Workers, NEW r \in Worker,
         worker' = [worker EXCEPT ![w] = r]
  PROVE  /\ worker' \in [Workers -> Worker] /\ worker'[w] = r
         /\ \A x \in Workers : x # w => worker'[x] = worker[x]
  OBVIOUS

PC == {"idle", "audience", "stage", "fence", "send", "markQueued", "readSession",
       "writeSession", "retry", "reject", "settle", "readFence", "provider"}

LEMMA WorkerParts ==
  /\ NoSession \in Session /\ Absent \in Row /\ NoWork \in Worker /\ 1 \in Versions
  /\ \A x \in Worker : /\ x.pc \in PC /\ x.topic \in Topics /\ x.version \in Versions
                      /\ x.seen \in Session
  /\ \A p \in PC, t \in Topics, v \in Versions, z \in Session :
       [pc |-> p, topic |-> t, version |-> v, seen |-> z] \in Worker
<1>1. NoSession \in Session /\ Absent \in Row /\ 1 \in Versions
  BY DEF NoSession, Session, Absent, Row, Versions
<1>2. NoWork \in Worker
  BY <1>1 DEF NoWork, Worker, Topics
<1>. QED
  BY <1>1, <1>2 DEF Worker, PC

LEMMA GoToSets ==
  ASSUME worker \in [Workers -> Worker], NEW w \in Workers, NEW pc \in PC, GoTo(w, pc)
  PROVE  /\ worker' \in [Workers -> Worker]
         /\ worker'[w].pc = pc /\ worker'[w].topic = worker[w].topic
         /\ worker'[w].version = worker[w].version
         /\ \A x \in Workers : x # w => worker'[x] = worker[x]
<1>. DEFINE r == [worker[w] EXCEPT !.pc = pc, !.seen = NoSession]
<1>1. worker' = [worker EXCEPT ![w] = r]
  BY DEF GoTo
<1>2. worker[w] \in Worker /\ NoSession \in Session
  BY WorkerParts
<1>3. r \in Worker /\ r.pc = pc /\ r.topic = worker[w].topic /\ r.version = worker[w].version
  <2>. DEFINE s == [worker[w] EXCEPT !.pc = pc]
  <2>1. s \in Worker /\ s.pc = pc /\ s.topic = worker[w].topic /\ s.version = worker[w].version
    BY <1>2 DEF Worker, PC
  <2>2. r = [s EXCEPT !.seen = NoSession]
    BY <1>2 DEF Worker
  <2>. HIDE DEF s, r
  <2>. QED
    BY <1>2, <2>1, <2>2 DEF Worker
<1>. HIDE DEF r
<1>. QED
  BY <1>1, <1>3, WorkerSet

LEMMA SessionParts ==
  ASSUME NEW s \in Session
  PROVE  s.status \in {"none"} \cup Statuses /\ s.version \in Nat
  BY DEF Session

States == {"absent", "pending", "queued", "processing", "delivered"} \cup GivenUp

LEMMA RowState ==
  ASSUME NEW r \in Row, NEW z \in States
  PROVE  /\ r.state \in States
         /\ [r EXCEPT !.state = z] \in Row /\ [r EXCEPT !.state = z].state = z
  BY DEF Row, States, GivenUp

LEMMA RowExpired ==
  ASSUME NEW r \in Row
  PROVE  [r EXCEPT !.expired = TRUE] \in Row /\ [r EXCEPT !.expired = TRUE].state = r.state
  BY DEF Row

LEMMA RowFreed ==
  ASSUME NEW r \in Row, NEW z \in States
  PROVE  LET q == [r EXCEPT !.owner = NoWorker, !.expired = FALSE, !.state = z]
         IN q \in Row /\ q.state = z
<1>. DEFINE a == [r EXCEPT !.owner = NoWorker]
            b == [a EXCEPT !.expired = FALSE]
            q == [b EXCEPT !.state = z]
<1>1. a \in Row
  BY DEF Row
<1>. HIDE DEF a
<1>2. b \in Row
  BY <1>1 DEF Row
<1>. HIDE DEF b
<1>3. q \in Row /\ q.state = z
  BY <1>2, RowState
<1>4. q = [r EXCEPT !.owner = NoWorker, !.expired = FALSE, !.state = z]
  BY DEF q, a, b, Row
<1>. QED
  BY <1>3, <1>4

LEMMA RowSwept ==
  ASSUME NEW r \in Row, NEW z \in States
  PROVE  [r EXCEPT !.state = z, !.owner = NoWorker, !.expired = FALSE] \in Row
<1>1. [r EXCEPT !.state = z, !.owner = NoWorker, !.expired = FALSE]
        = [r EXCEPT !.owner = NoWorker, !.expired = FALSE, !.state = z]
  BY DEF Row
<1>. QED
  BY <1>1, RowFreed

LEMMA RowClaimed ==
  ASSUME NEW r \in Row, NEW w \in Workers
  PROVE  [state |-> "processing", owner |-> w, expired |-> FALSE,
          attempts |-> r.attempts + 1] \in Row
  BY DEF Row

(* An isolate's own steps that leave the rows alone. *)
Quiet(w) ==
  SetAudience(w) \/ Fence(w) \/ Send(w) \/ ReadSession(w) \/ WriteSession(w)
    \/ ReadFence(w) \/ CallProvider(w)

LEMMA ReadSessionSets ==
  ASSUME TypeOK, NEW w \in Workers, ReadSession(w)
  PROVE  /\ worker' \in [Workers -> Worker]
         /\ worker'[w].pc = (CASE ~Current(Version(w)) -> "retry"
                               [] Current(Version(w)) /\ Agrees(w, session) -> "settle"
                               [] OTHER -> "writeSession")
         /\ worker'[w].topic = worker[w].topic
         /\ worker'[w].version = worker[w].version
         /\ \A x \in Workers : x # w => worker'[x] = worker[x]
<1>. DEFINE p == CASE ~Current(Version(w)) -> "retry"
                   [] Current(Version(w)) /\ Agrees(w, session) -> "settle"
                   [] OTHER -> "writeSession"
            r == [worker[w] EXCEPT !.seen = session, !.pc = p]
<1>1. worker' = [worker EXCEPT ![w] = r]
  BY DEF ReadSession
<1>2. p \in PC
  BY DEF PC
<1>3. worker \in [Workers -> Worker] /\ session \in Session
  BY DEF TypeOK
<1>. HIDE DEF p
<1>4. r \in Worker /\ r.pc = p /\ r.topic = worker[w].topic /\ r.version = worker[w].version
  BY <1>2, <1>3 DEF Worker, PC
<1>. HIDE DEF r
<1>5. /\ worker' \in [Workers -> Worker] /\ worker'[w].pc = p
      /\ worker'[w].topic = worker[w].topic /\ worker'[w].version = worker[w].version
      /\ \A x \in Workers : x # w => worker'[x] = worker[x]
  BY <1>1, <1>3, <1>4, WorkerSet
<1>. QED
  BY <1>5 DEF p

LEMMA QuietTyped ==
  ASSUME TypeOK, NEW w \in Workers, Quiet(w)
  PROVE  TypeOK'
<1>0. /\ worker \in [Workers -> Worker] /\ session \in Session
      /\ Version(w) \in Versions /\ decision \in Seq(Statuses)
  BY WorkerParts DEF TypeOK, Version
<1>1. CASE SetAudience(w)
  <2>1. worker' \in [Workers -> Worker]
    BY <1>0, <1>1, GoToSets DEF SetAudience, PC
  <2>2. audience' \in 0 .. MaxDecisions
    BY <1>0, <1>1 DEF SetAudience, TypeOK, Versions
  <2>. QED
    BY <1>1, <2>1, <2>2 DEF SetAudience, TypeOK
<1>2. CASE Fence(w) \/ ReadFence(w)
  <2>1. worker' \in [Workers -> Worker]
    BY <1>0, <1>2, GoToSets DEF Fence, ReadFence, PC
  <2>. QED
    BY <1>2, <2>1 DEF Fence, ReadFence, TypeOK
<1>3. CASE Send(w)
  <2>1. worker' \in [Workers -> Worker]
    BY <1>0, <1>3, GoToSets DEF Send, PC
  <2>2. messages' \subseteq Topics \X Versions
    BY <1>0, <1>3 DEF Send, TypeOK, Topics
  <2>. QED
    BY <1>3, <2>1, <2>2 DEF Send, TypeOK
<1>4. CASE ReadSession(w)
  BY <1>4, ReadSessionSets DEF ReadSession, TypeOK
<1>5. CASE WriteSession(w)
  <2>1. worker' \in [Workers -> Worker]
    BY <1>0, <1>5, GoToSets DEF WriteSession, PC
  <2>2. Writable(w) => Status(w) \in Statuses
    BY <1>0 DEF Writable, Current, Status, Version, Versions
  <2>3. session' \in Session
    BY <1>0, <1>5, <2>2, SessionParts DEF WriteSession, Session
  <2>. QED
    BY <1>5, <2>1, <2>3 DEF WriteSession, TypeOK
<1>6. CASE CallProvider(w)
  <2>1. worker' \in [Workers -> Worker]
    BY <1>0, <1>6, GoToSets DEF CallProvider, PC
  <2>2. mailed' \subseteq Versions
    BY <1>0, <1>6 DEF CallProvider, TypeOK
  <2>. QED
    BY <1>6, <2>1, <2>2 DEF CallProvider, TypeOK
<1>. QED
  BY <1>1, <1>2, <1>3, <1>4, <1>5, <1>6 DEF Quiet

(* The steps that write a row. *)
LEMMA DecideTyped ==
  ASSUME TypeOK, NEW s \in Statuses, Decide(s)
  PROVE  TypeOK' /\ Len(decision') = Len(decision) + 1 /\ Len(decision') \in Versions
         /\ decision'[Len(decision')] = s
         /\ \A v \in 1 .. Len(decision) : decision'[v] = decision[v]
<1>1. /\ decision \in Seq(Statuses) /\ row \in [Topics -> [Versions -> Row]]
      /\ Len(decision) <= MaxDecisions
  BY DEF TypeOK
<1>2. decision' = Append(decision, s) /\ Len(decision) < MaxDecisions
  BY DEF Decide
<1>3. /\ decision' \in Seq(Statuses) /\ Len(decision') = Len(decision) + 1
      /\ decision'[Len(decision')] = s
      /\ \A v \in 1 .. Len(decision) : decision'[v] = decision[v]
  BY <1>1, <1>2
<1>4. Len(decision') \in Versions
  BY <1>1, <1>2, <1>3 DEF Versions
<1>5. [Absent EXCEPT !.state = "pending"] \in Row
  BY WorkerParts, RowState DEF States
<1>6. row' \in [Topics -> [Versions -> Row]]
  BY <1>1, <1>5, RowSet DEF Decide, Topics
<1>7. publisher' \subseteq Versions
  BY <1>4 DEF Decide, TypeOK
<1>. QED
  BY <1>1, <1>2, <1>3, <1>4, <1>6, <1>7 DEF Decide, TypeOK

LEMMA PublishTyped ==
  ASSUME TypeOK, NEW v \in Versions, PublishWork(v)
  PROVE  TypeOK'
<1>1. row \in [Topics -> [Versions -> Row]] /\ "work" \in Topics
  BY DEF TypeOK, Topics
<1>0. row["work"][v] \in Row /\ "queued" \in States
  BY <1>1 DEF States
<1>2. [row["work"][v] EXCEPT !.state = "queued"] \in Row
  BY <1>0, RowState
<1>3. row' \in [Topics -> [Versions -> Row]]
  BY <1>1, <1>2, RowSet DEF PublishWork
<1>4. messages' \subseteq Topics \X Versions /\ publisher' \subseteq Versions
  BY <1>1 DEF PublishWork, TypeOK
<1>. QED
  BY <1>3, <1>4 DEF PublishWork, TypeOK

LEMMA SweepTyped ==
  ASSUME TypeOK, SweepMark \/ \E v \in Versions : SweepSend(v)
  PROVE  TypeOK'
<1>0. /\ row \in [Topics -> [Versions -> Row]] /\ "work" \in Topics
      /\ sweep \in [version : 0 .. MaxDecisions, row : Row]
      /\ NoSweep \in [version : 0 .. MaxDecisions, row : Row]
  BY WorkerParts DEF TypeOK, Topics, NoSweep
<1>1. CASE SweepMark
  <2>1. /\ sweep.row \in Row
        /\ [sweep.row EXCEPT !.state = "queued", !.owner = NoWorker, !.expired = FALSE] \in Row
    BY <1>0, RowSwept DEF States
  <2>2. row' \in [Topics -> [Versions -> Row]]
    BY <1>0, <1>1, <2>1, RowSet DEF SweepMark
  <2>. QED
    BY <1>0, <1>1, <2>2 DEF SweepMark, TypeOK
<1>2. ASSUME NEW v \in Versions, SweepSend(v)
      PROVE  TypeOK'
  <2>1. v \in 0 .. MaxDecisions
    BY DEF Versions
  <2>2. sweep' \in [version : 0 .. MaxDecisions, row : Row]
    BY <1>0, <1>2, <2>1 DEF SweepSend
  <2>3. messages' \subseteq Topics \X Versions
    BY <1>0, <1>2 DEF SweepSend, TypeOK
  <2>. QED
    BY <1>2, <2>2, <2>3 DEF SweepSend, TypeOK
<1>. QED
  BY <1>1, <1>2

LEMMA ClaimTyped ==
  ASSUME TypeOK, NEW w \in Workers, NEW t \in Topics, NEW v \in Versions, Claim(w, t, v)
  PROVE  /\ TypeOK' /\ row'[t][v].state = "processing"
         /\ worker'[w].pc = (IF t = "work" THEN "audience" ELSE "readFence")
         /\ worker'[w].topic = t /\ worker'[w].version = v
         /\ \A x \in Workers : x # w => worker'[x] = worker[x]
         /\ \A u \in Topics, x \in Versions : u # t \/ x # v => row'[u][x] = row[u][x]
<1>. DEFINE p == IF t = "work" THEN "audience" ELSE "readFence"
            n == [NoWork EXCEPT !.pc = p, !.topic = t, !.version = v]
            r == [state |-> "processing", owner |-> w, expired |-> FALSE,
                  attempts |-> row[t][v].attempts + 1]
<1>1. row \in [Topics -> [Versions -> Row]] /\ worker \in [Workers -> Worker]
  BY DEF TypeOK
<1>2. SetRow(t, v, r) /\ worker' = [worker EXCEPT ![w] = n]
  BY DEF Claim
<1>3. row[t][v] \in Row /\ r \in Row /\ r.state = "processing"
  BY <1>1, RowClaimed
<1>4. n \in Worker /\ n.pc = p /\ n.topic = t /\ n.version = v
  <2>1. p \in PC /\ NoSession \in Session
    BY WorkerParts DEF PC
  <2>. HIDE DEF p
  <2>2. n.pc = p /\ n.topic = t /\ n.version = v
    BY DEF NoWork
  <2>3. \A x \in Worker : [x EXCEPT !.pc = p, !.topic = t, !.version = v] \in Worker
    BY <2>1 DEF Worker, PC
  <2>4. n \in Worker
    BY <2>3, WorkerParts
  <2>. QED
    BY <2>2, <2>4
<1>5. UNCHANGED <<decision, messages, dlq, audience, session, publisher, sweep, mailed, edits,
                 faults>>
  BY DEF Claim
<1>. HIDE DEF n, r, p
<1>6. /\ row' \in [Topics -> [Versions -> Row]] /\ row'[t][v] = r
      /\ \A u \in Topics, x \in Versions : u # t \/ x # v => row'[u][x] = row[u][x]
  BY <1>1, <1>2, <1>3, RowSet
<1>7. /\ worker' \in [Workers -> Worker] /\ worker'[w] = n
      /\ \A x \in Workers : x # w => worker'[x] = worker[x]
  BY <1>1, <1>2, <1>4, WorkerSet
<1>8. TypeOK'
  BY <1>5, <1>6, <1>7 DEF TypeOK
<1>. QED
  BY <1>3, <1>4, <1>6, <1>7, <1>8 DEF p

LEMMA LeaseTyped ==
  ASSUME TypeOK, NEW t \in Topics, NEW v \in Versions, Abandoned(t, v) \/ Overtaken(t, v)
  PROVE  /\ TypeOK' /\ row'[t][v].state = "processing" /\ row[t][v].state = "processing"
         /\ \A u \in Topics, x \in Versions : u # t \/ x # v => row'[u][x] = row[u][x]
<1>1. row \in [Topics -> [Versions -> Row]] /\ row[t][v] \in Row
  BY DEF TypeOK
<1>2. LeaseEnds(t, v)
  BY DEF Abandoned, Overtaken
<1>. DEFINE r == [row[t][v] EXCEPT !.expired = TRUE]
<1>3. r \in Row /\ r.state = row[t][v].state
  BY <1>1, RowExpired
<1>4. SetRow(t, v, r) /\ row[t][v].state = "processing"
  BY <1>2 DEF LeaseEnds
<1>. HIDE DEF r
<1>5. /\ row' \in [Topics -> [Versions -> Row]] /\ row'[t][v] = r
      /\ \A u \in Topics, x \in Versions : u # t \/ x # v => row'[u][x] = row[u][x]
  BY <1>1, <1>3, <1>4, RowSet
<1>6. faults' \in 0 .. MaxFaults
  BY DEF Abandoned, Overtaken, TypeOK
<1>. QED
  BY <1>2, <1>3, <1>4, <1>5, <1>6 DEF LeaseEnds, TypeOK

LEMMA StageTyped ==
  ASSUME TypeOK, NEW w \in Workers, Stage(w)
  PROVE  /\ TypeOK'
         /\ worker'[w].pc \in {"fence", "readSession"}
         /\ worker'[w].topic = worker[w].topic /\ worker'[w].version = worker[w].version
         /\ \A x \in Workers : x # w => worker'[x] = worker[x]
         /\ row'["work"] = row["work"]
         /\ \A x \in Versions : row["mail"][x].state # "absent" => row'["mail"][x] = row["mail"][x]
         /\ Current(Version(w)) => row'["mail"][Version(w)].state # "absent"
<1>. DEFINE v == Version(w)  r == [Absent EXCEPT !.state = "pending"]
<1>1. /\ row \in [Topics -> [Versions -> Row]] /\ worker \in [Workers -> Worker]
      /\ v \in Versions /\ "mail" \in Topics
  BY WorkerParts DEF TypeOK, Version, Topics
<1>2. r \in Row /\ r.state = "pending"
  BY WorkerParts, RowState DEF States
<1>3. \/ Current(v) /\ row["mail"][v].state = "absent" /\ SetRow("mail", v, r)
      \/ ~(Current(v) /\ row["mail"][v].state = "absent") /\ row' = row
  BY DEF Stage
<1>4. \E p \in {"fence", "readSession"} : GoTo(w, p) /\ p \in PC
  BY DEF Stage, PC
<1>5. /\ worker' \in [Workers -> Worker] /\ worker'[w].pc \in {"fence", "readSession"}
      /\ worker'[w].topic = worker[w].topic /\ worker'[w].version = worker[w].version
      /\ \A x \in Workers : x # w => worker'[x] = worker[x]
  BY <1>1, <1>4, GoToSets
<1>6. UNCHANGED <<decision, messages, dlq, audience, session, publisher, sweep, mailed, edits,
                 faults>>
  BY DEF Stage
<1>. HIDE DEF v, r
<1>7. /\ row' \in [Topics -> [Versions -> Row]]
      /\ \A x \in Versions : row["mail"][x].state # "absent" => row'["mail"][x] = row["mail"][x]
      /\ Current(v) => row'["mail"][v].state # "absent"
      /\ row'["work"] = row["work"]
  <2>1. CASE ~(Current(v) /\ row["mail"][v].state = "absent") /\ row' = row
    BY <1>1, <2>1
  <2>2. CASE SetRow("mail", v, r) /\ row["mail"][v].state = "absent"
    <3>1. /\ row' \in [Topics -> [Versions -> Row]] /\ row'["mail"][v] = r
          /\ \A u \in Topics, x \in Versions : u # "mail" \/ x # v => row'[u][x] = row[u][x]
      BY <1>1, <1>2, <2>2, RowSet
    <3>2. row'["work"] = row["work"]
      BY <1>1, <2>2 DEF SetRow, Topics
    <3>. QED
      BY <1>1, <1>2, <2>2, <3>1, <3>2
  <2>. QED
    BY <1>3, <2>1, <2>2
<1>8. TypeOK'
  BY <1>5, <1>6, <1>7 DEF TypeOK
<1>. QED
  BY <1>5, <1>7, <1>8 DEF v

LEMMA MarkTyped ==
  ASSUME TypeOK, NEW w \in Workers, MarkQueued(w)
  PROVE  /\ TypeOK'
         /\ worker'[w].pc = "readSession"
         /\ worker'[w].topic = worker[w].topic /\ worker'[w].version = worker[w].version
         /\ \A x \in Workers : x # w => worker'[x] = worker[x]
         /\ row'["work"] = row["work"]
         /\ \A x \in Versions : row["mail"][x].state # "absent" => row'["mail"][x].state # "absent"
<1>. DEFINE v == Version(w)  r == row["mail"][v]
            q == IF r.state = "pending" THEN [r EXCEPT !.state = "queued"] ELSE r
<1>1. /\ row \in [Topics -> [Versions -> Row]] /\ worker \in [Workers -> Worker]
      /\ v \in Versions /\ "mail" \in Topics
  BY WorkerParts DEF TypeOK, Version, Topics
<1>2. r \in Row /\ q \in Row /\ (r.state # "absent" => q.state # "absent")
  <2>1. r \in Row /\ "queued" \in States
    BY <1>1 DEF States
  <2>. HIDE DEF r
  <2>. QED
    BY <2>1, RowState
<1>3. SetRow("mail", v, q) /\ GoTo(w, "readSession")
  BY DEF MarkQueued
<1>4. UNCHANGED <<decision, messages, dlq, audience, session, publisher, sweep, mailed, edits,
                 faults>>
  BY DEF MarkQueued
<1>5. /\ worker' \in [Workers -> Worker] /\ worker'[w].pc = "readSession"
      /\ worker'[w].topic = worker[w].topic /\ worker'[w].version = worker[w].version
      /\ \A x \in Workers : x # w => worker'[x] = worker[x]
  BY <1>1, <1>3, GoToSets DEF PC
<1>. HIDE DEF v, q
<1>6. /\ row' \in [Topics -> [Versions -> Row]] /\ row'["mail"][v] = q
      /\ \A u \in Topics, x \in Versions : u # "mail" \/ x # v => row'[u][x] = row[u][x]
  BY <1>1, <1>2, <1>3, RowSet
<1>7. row'["work"] = row["work"]
  BY <1>1, <1>3 DEF SetRow, Topics
<1>8. TypeOK'
  BY <1>4, <1>5, <1>6 DEF TypeOK
<1>. QED
  BY <1>1, <1>2, <1>5, <1>6, <1>7, <1>8

LEMMA SettleTyped ==
  ASSUME TypeOK, NEW w \in Workers, Settle(w)
  PROVE  /\ TypeOK'
         /\ worker'[w].pc = "idle"
         /\ \A x \in Workers : x # w => worker'[x] = worker[x]
         /\ \A t \in Topics, v \in Versions :
              \/ row'[t][v] = row[t][v]
              \/ /\ t = worker[w].topic /\ v = Version(w)
                 /\ row[t][v].state = "processing"
                 /\ row'[t][v].state # "absent"
                 /\ row'[t][v].state = "delivered" => At(w, "settle")
<1>. DEFINE t == worker[w].topic  v == Version(w)  r == row[t][v]
            z == Outcome(w, r)
            q == [r EXCEPT !.owner = NoWorker, !.expired = FALSE, !.state = z]
<1>1. /\ row \in [Topics -> [Versions -> Row]] /\ worker \in [Workers -> Worker]
      /\ t \in Topics /\ v \in Versions
  BY WorkerParts DEF TypeOK, Version
<1>0. /\ z \in {"delivered", "queued"} \cup GivenUp
      /\ z = "delivered" => At(w, "settle")
  BY DEF Settle, Outcome, At, GivenUp
<1>2. r \in Row /\ q \in Row /\ q.state = z
  <2>1. r \in Row /\ z \in States
    BY <1>0, <1>1 DEF States
  <2>. HIDE DEF r, z
  <2>. QED
    BY <2>1, RowFreed
<1>3. \/ r.state = "processing" /\ SetRow(t, v, q)
      \/ row' = row
  BY DEF Settle
<1>4. /\ worker' = [worker EXCEPT ![w] = NoWork]
      /\ UNCHANGED <<decision, messages, dlq, audience, session, publisher, sweep, mailed, edits,
                 faults>>
  BY DEF Settle
<1>5. /\ worker' \in [Workers -> Worker] /\ worker'[w] = NoWork
      /\ \A x \in Workers : x # w => worker'[x] = worker[x]
  BY <1>1, <1>4, WorkerSet, WorkerParts
<1>. HIDE DEF t, v, z, q
<1>6. /\ row' \in [Topics -> [Versions -> Row]]
      /\ \A u \in Topics, x \in Versions :
           \/ row'[u][x] = row[u][x]
           \/ u = t /\ x = v /\ row[u][x].state = "processing" /\ row'[u][x].state = z
  BY <1>1, <1>2, <1>3, RowSet
<1>7. TypeOK'
  BY <1>4, <1>5, <1>6 DEF TypeOK
<1>. QED
  BY <1>0, <1>5, <1>6, <1>7 DEF t, v, NoWork, GivenUp

LEMMA ThrowTyped ==
  ASSUME TypeOK, NEW w \in Workers, NEW retryable \in BOOLEAN, Throw(w, retryable)
  PROVE  /\ TypeOK' /\ ~At(w, "idle")
         /\ worker'[w].pc \in {"retry", "reject"}
         /\ worker'[w].topic = worker[w].topic /\ worker'[w].version = worker[w].version
         /\ \A x \in Workers : x # w => worker'[x] = worker[x]
<1>1. \E p \in {"retry", "reject"} : GoTo(w, p) /\ p \in PC
  BY DEF Throw, PC
<1>2. /\ worker' \in [Workers -> Worker] /\ worker'[w].pc \in {"retry", "reject"}
      /\ worker'[w].topic = worker[w].topic /\ worker'[w].version = worker[w].version
      /\ \A x \in Workers : x # w => worker'[x] = worker[x]
  BY <1>1, GoToSets DEF TypeOK
<1>3. /\ UNCHANGED <<decision, row, messages, dlq, audience, session, publisher, sweep, mailed,
                     edits>>
      /\ faults' \in 0 .. MaxFaults /\ ~At(w, "idle")
  BY DEF Throw, TypeOK, At
<1>4. TypeOK'
  BY <1>2, <1>3 DEF TypeOK
<1>. QED
  BY <1>2, <1>3, <1>4

LEMMA NextTyped ==
  ASSUME TypeOK, [Next]_vars
  PROVE  TypeOK'
<1>1. CASE \E s \in Statuses : Decide(s)
  BY <1>1, DecideTyped
<1>2. CASE \E v \in Versions : PublishWork(v)
  BY <1>2, PublishTyped
<1>3. CASE SweepMark \/ \E v \in Versions : SweepSend(v)
  BY <1>3, SweepTyped
<1>4. CASE \E v \in Versions : PublicationLost(v)
  BY <1>4 DEF PublicationLost, TypeOK
<1>5. CASE \E w \in Workers : Step(w)
  BY <1>5, QuietTyped, StageTyped, MarkTyped, SettleTyped DEF Step, Quiet
<1>6. ASSUME NEW w \in Workers, Lose(w)
      PROVE  TypeOK'
  <2>1. worker' \in [Workers -> Worker]
    BY <1>6, WorkerSet, WorkerParts DEF Lose, TypeOK
  <2>. QED
    BY <1>6, <2>1 DEF Lose, TypeOK
<1>7. CASE \E t \in Topics, v \in Versions : Acknowledge(t, v)
  BY <1>7 DEF Acknowledge, TypeOK
<1>8. CASE \E t \in Topics, v \in Versions : Abandoned(t, v) \/ Overtaken(t, v)
  BY <1>8, LeaseTyped
<1>9. CASE \E t \in Topics, v \in Versions, w \in Workers : Claim(w, t, v)
  BY <1>9, ClaimTyped
<1>10. CASE EditSession
  <2>1. session \in Session /\ edits \in Nat /\ edits < MaxEdits
    BY <1>10 DEF EditSession, TypeOK
  <2>2. session' \in Session
    BY <1>10, <2>1 DEF EditSession, Session
  <2>3. edits' \in 0 .. MaxEdits
    BY <1>10, <2>1 DEF EditSession
  <2>. QED
    BY <1>10, <2>2, <2>3 DEF EditSession, TypeOK
<1>11. CASE UNCHANGED vars
  BY <1>11 DEF vars, TypeOK
<1>12. CASE \E w \in Workers, retryable \in BOOLEAN : Throw(w, retryable)
  BY <1>12, ThrowTyped
<1>13. CASE \E t \in Topics, v \in Versions : DeadLetter(t, v)
  BY <1>13 DEF DeadLetter, TypeOK
<1>. QED
  BY <1>1, <1>2, <1>3, <1>4, <1>5, <1>6, <1>7, <1>8, <1>9, <1>10, <1>11, <1>12, <1>13 DEF Next

LEMMA InitTyped == Init => TypeOK
<1>1. <<>> \in Seq(Statuses) /\ Len(<<>>) = 0
  OBVIOUS
<1>2. NoSweep \in [version : 0 .. MaxDecisions, row : Row]
  BY WorkerParts DEF NoSweep
<1>. QED
  BY <1>1, <1>2, WorkerParts DEF Init, TypeOK

(* Every variable keeps its type (TypeOK).  In particular the version whose *)
(* status a session is written with always names a decision that was made   *)
(* (upsertAcceptedSession, reconcileDecisionSessionStatus).                 *)
THEOREM TypeCorrect == Spec => []TypeOK
  BY InitTyped, NextTyped, PTL DEF Spec

-----------------------------------------------------------------------------
(* What is true of the latest decision.  No row, message or isolate knows a *)
(* version that was not decided; an isolate that replays the latest one has *)
(* projected what its position says, and nobody undoes it, since every      *)
(* statement of another one is fenced.                                      *)
Known ==
  /\ \A v \in Versions : row["work"][v].state # "absent" => v <= Last
  /\ \A t \in Topics, v \in Versions : <<t, v>> \in messages => v <= Last
  /\ sweep.version <= Last /\ audience <= Last

AfterStage == {"fence", "send", "markQueued", "readSession", "writeSession", "settle"}
AfterAudience == AfterStage \cup {"stage"}

OnTrack(w) ==
  /\ ~At(w, "idle") => Version(w) <= Last
  /\ worker[w].pc \in {"readFence", "provider"} => worker[w].topic = "mail"
  /\ worker[w].topic = "work" /\ Version(w) = Last =>
       /\ worker[w].pc \in AfterAudience => audience = Last
       /\ worker[w].pc \in AfterStage => row["mail"][Last].state # "absent"
       /\ At(w, "settle") => SessionAgrees

ProjectionInv ==
  TypeOK /\ Known /\ (\A w \in Workers : OnTrack(w)) /\ DeliveredIsProjected

(* A step that makes no decision, and keeps what was projected. *)
LEMMA Kept ==
  ASSUME ProjectionInv, TypeOK', decision' = decision,
         audience' = audience \/ audience' = Last,
         \A v \in Versions :
           /\ row["mail"][v].state # "absent" => row'["mail"][v].state # "absent"
           /\ row'["work"][v].state # "absent" => v <= Last,
         \A t \in Topics, v \in Versions : <<t, v>> \in messages' => v <= Last,
         sweep'.version <= Last,
         Last > 0 /\ SessionAgrees => SessionAgrees',
         \A w \in Workers : worker'[w] = worker[w] \/ OnTrack(w)',
         Last > 0 /\ row'["work"][Last].state = "delivered" =>
           \/ row["work"][Last].state = "delivered"
           \/ audience' = Last /\ row'["mail"][Last].state # "absent" /\ SessionAgrees'
  PROVE  ProjectionInv'
<1>1. /\ Last \in Nat /\ Last <= MaxDecisions /\ Last' = Last
      /\ (Last > 0 => Last \in Versions) /\ audience \in Nat
  BY DEF ProjectionInv, TypeOK, Last, Versions
<1>2. Known'
  BY <1>1 DEF ProjectionInv, Known
<1>3. DeliveredIsProjected'
  BY <1>1 DEF ProjectionInv, DeliveredIsProjected
<1>4. ASSUME NEW w \in Workers, worker'[w] = worker[w]
      PROVE  OnTrack(w)'
  <2>1. OnTrack(w) /\ Version(w) \in Versions /\ Version(w)' = Version(w)
    BY <1>4, WorkerParts DEF ProjectionInv, TypeOK, Version
  <2>2. Version(w) = Last => Last > 0
    BY <2>1 DEF Versions
  <2>. QED
    BY <1>1, <1>4, <2>1, <2>2 DEF OnTrack, At
<1>. QED
  BY <1>2, <1>3, <1>4 DEF ProjectionInv

(* A step of an isolate that touches neither rows, messages nor session. *)
LEMMA MovedKept ==
  ASSUME ProjectionInv, TypeOK', UNCHANGED <<decision, row, messages, session, sweep>>,
         audience' = audience \/ audience' = Last,
         \A w \in Workers : worker'[w] = worker[w] \/ OnTrack(w)'
  PROVE  ProjectionInv'
<1>1. SessionAgrees' = SessionAgrees
  BY DEF SessionAgrees, Last
<1>. QED
  BY <1>1, Kept DEF ProjectionInv, Known

LEMMA DecideKept ==
  ASSUME ProjectionInv, NEW s \in Statuses, Decide(s)
  PROVE  ProjectionInv'
<1>1. /\ TypeOK' /\ Last' = Last + 1 /\ Last \in Nat /\ Last' \in Versions
      /\ row \in [Topics -> [Versions -> Row]] /\ audience \in Nat
  <2>1. TypeOK
    BY DEF ProjectionInv
  <2>2. Last \in Nat /\ row \in [Topics -> [Versions -> Row]] /\ audience \in Nat
    BY <2>1 DEF TypeOK, Last
  <2>. QED
    BY <2>1, <2>2, DecideTyped DEF Last
<1>2. /\ UNCHANGED <<messages, audience, session, worker, sweep>>
      /\ SetRow("work", Last', [Absent EXCEPT !.state = "pending"])
  BY DEF Decide, Last
<1>3. /\ [Absent EXCEPT !.state = "pending"] \in Row
      /\ [Absent EXCEPT !.state = "pending"].state = "pending"
  BY WorkerParts, RowState DEF States
<1>4. /\ row'["work"][Last'].state = "pending"
      /\ \A v \in Versions : v # Last' => row'["work"][v] = row["work"][v]
  <2>. DEFINE r == [Absent EXCEPT !.state = "pending"]  n == Last'
  <2>1. r \in Row /\ r.state = "pending" /\ SetRow("work", n, r) /\ n \in Versions
    BY <1>1, <1>2, <1>3
  <2>. HIDE DEF r, n
  <2>2. /\ row'["work"][n].state = "pending"
        /\ \A v \in Versions : v # n => row'["work"][v] = row["work"][v]
    BY <1>1, <2>1, RowSet DEF Topics
  <2>. QED
    BY <2>2 DEF n
<1>5. sweep.version \in Nat
  BY DEF ProjectionInv, TypeOK
<1>6. Known'
  <2>1. Known /\ \A v \in Versions : v \in Nat
    BY DEF ProjectionInv, Versions
  <2>2. \A v \in Versions : row'["work"][v].state # "absent" => v <= Last'
    BY <1>1, <1>4, <2>1 DEF Known
  <2>3. \A t \in Topics, v \in Versions : <<t, v>> \in messages' => v <= Last'
    <3>1. \A t \in Topics, v \in Versions : <<t, v>> \in messages => v <= Last
      BY <2>1 DEF Known
    <3>. QED
      BY <1>1, <1>2, <2>1, <3>1
  <2>4. sweep'.version <= Last' /\ audience' <= Last'
    BY <1>1, <1>2, <1>5, <2>1 DEF Known
  <2>. QED
    BY <2>2, <2>3, <2>4 DEF Known
<1>7. DeliveredIsProjected'
  BY <1>1, <1>4 DEF DeliveredIsProjected
<1>8. ASSUME NEW w \in Workers
      PROVE  OnTrack(w)'
  <2>1. OnTrack(w) /\ Version(w) \in Versions /\ worker'[w] = worker[w] /\ Version(w)' = Version(w)
    BY <1>2, WorkerParts DEF ProjectionInv, TypeOK, Version
  <2>2. Version(w) \in Nat
    BY <2>1 DEF Versions
  <2>3. ~At(w, "idle") => Version(w) < Last'
    BY <1>1, <2>1, <2>2 DEF OnTrack
  <2>. QED
    BY <1>1, <2>1, <2>2, <2>3 DEF OnTrack, At, AfterAudience, AfterStage
<1>. QED
  BY <1>1, <1>6, <1>7, <1>8 DEF ProjectionInv

LEMMA PublishKept ==
  ASSUME ProjectionInv, NEW v \in Versions, PublishWork(v)
  PROVE  ProjectionInv'
<1>1. TypeOK' /\ row \in [Topics -> [Versions -> Row]] /\ row["work"][v] \in Row
  BY PublishTyped DEF ProjectionInv, TypeOK, Topics
<1>2. UNCHANGED <<decision, audience, session, worker, sweep>>
  BY DEF PublishWork
<1>3. SessionAgrees' = SessionAgrees
  BY <1>2 DEF SessionAgrees, Last
<1>4. CASE row["work"][v].state \in {"pending", "queued"}
  <2>. DEFINE r == [row["work"][v] EXCEPT !.state = "queued"]
  <2>1. r \in Row /\ r.state = "queued"
    BY <1>1, RowState DEF States
  <2>2. SetRow("work", v, r) /\ messages' = messages \cup {<<"work", v>>}
    BY <1>4 DEF PublishWork
  <2>. HIDE DEF r
  <2>3. /\ row'["work"][v].state = "queued"
        /\ \A u \in Topics, x \in Versions : u # "work" \/ x # v => row'[u][x] = row[u][x]
    BY <1>1, <2>1, <2>2, RowSet DEF Topics
  <2>5. v <= Last
    BY <1>4 DEF ProjectionInv, Known
  <2>4. /\ \A x \in Versions :
             /\ row'["mail"][x] = row["mail"][x]
             /\ row'["work"][x].state # "absent" => x <= Last
        /\ \A x \in Versions :
             row'["work"][x].state = "delivered" => row'["work"][x] = row["work"][x]
    BY <1>4, <2>3, <2>5 DEF Topics, ProjectionInv, Known
  <2>6. \A t \in Topics, x \in Versions : <<t, x>> \in messages' => x <= Last
    BY <2>2, <2>5 DEF ProjectionInv, Known
  <2>7. Last > 0 => Last \in Versions
    BY DEF ProjectionInv, TypeOK, Last, Versions
  <2>. QED
    BY <1>1, <1>2, <1>3, <2>4, <2>6, <2>7, Kept DEF ProjectionInv, Known
<1>5. CASE row["work"][v].state \notin {"pending", "queued"}
  BY <1>1, <1>2, <1>5, MovedKept DEF PublishWork
<1>. QED
  BY <1>4, <1>5

LEMMA SweepKept ==
  ASSUME ProjectionInv, SweepMark \/ \E v \in Versions : SweepSend(v)
  PROVE  ProjectionInv'
<1>1. TypeOK' /\ row \in [Topics -> [Versions -> Row]] /\ sweep.row \in Row /\ Last \in Nat
  BY SweepTyped DEF ProjectionInv, TypeOK, Last
<1>2. UNCHANGED <<decision, audience, session, worker>>
  BY DEF SweepMark, SweepSend
<1>3. SessionAgrees' = SessionAgrees
  BY <1>2 DEF SessionAgrees, Last
<1>4. ASSUME NEW v \in Versions, SweepSend(v)
      PROVE  ProjectionInv'
  <2>1. v <= Last
    BY <1>4 DEF SweepSend, Stranded, ProjectionInv, Known
  <2>2. /\ \A t \in Topics, x \in Versions : <<t, x>> \in messages' => x <= Last
        /\ sweep'.version <= Last /\ row' = row
    BY <1>4, <2>1 DEF SweepSend, ProjectionInv, Known
  <2>. QED
    BY <1>1, <1>2, <1>3, <2>2, Kept DEF ProjectionInv, Known
<1>5. CASE SweepMark
  <2>. DEFINE v == sweep.version
              r == [sweep.row EXCEPT !.state = "queued", !.owner = NoWorker, !.expired = FALSE]
  <2>1. r \in Row /\ r.state = "queued"
    <3>1. r \in Row
      BY <1>1, RowSwept DEF States
    <3>2. r.state = "queued"
      BY <1>1 DEF Row
    <3>. QED
      BY <3>1, <3>2
  <2>2. (SetRow("work", v, r) /\ row["work"][v] = sweep.row) \/ row' = row
    BY <1>5 DEF SweepMark, Unchanged
  <2>3. messages' = messages /\ sweep' = NoSweep /\ NoSweep.version = 0
    BY <1>5 DEF SweepMark, NoSweep
  <2>4. v <= Last
    BY DEF ProjectionInv, Known
  <2>. HIDE DEF r, v
  <2>5. CASE row' = row
    BY <1>1, <1>2, <1>3, <2>3, <2>5, Kept DEF ProjectionInv, Known
  <2>6. CASE SetRow("work", v, r)
    <3>1. /\ v \in Versions => row'["work"][v].state = "queued"
          /\ \A u \in Topics, x \in Versions : u # "work" \/ x # v => row'[u][x] = row[u][x]
      BY <1>1, <2>1, <2>6, RowSet DEF Topics
    <3>2. /\ \A x \in Versions :
               /\ row'["mail"][x] = row["mail"][x]
               /\ row'["work"][x].state # "absent" => x <= Last
               /\ row'["work"][x].state = "delivered" => row'["work"][x] = row["work"][x]
      BY <2>4, <3>1 DEF Topics, ProjectionInv, Known
    <3>3. Last > 0 => Last \in Versions
      BY DEF ProjectionInv, TypeOK, Last, Versions
    <3>. QED
      BY <1>1, <1>2, <1>3, <2>3, <3>2, <3>3, Kept DEF ProjectionInv, Known
  <2>. QED
    BY <2>2, <2>5, <2>6
<1>. QED
  BY <1>4, <1>5

LEMMA ClaimKept ==
  ASSUME ProjectionInv, NEW w \in Workers, NEW t \in Topics, NEW v \in Versions, Claim(w, t, v)
  PROVE  ProjectionInv'
<1>1. /\ TypeOK' /\ row'[t][v].state = "processing"
      /\ worker'[w].pc = (IF t = "work" THEN "audience" ELSE "readFence")
      /\ worker'[w].topic = t /\ worker'[w].version = v
      /\ \A x \in Workers : x # w => worker'[x] = worker[x]
      /\ \A u \in Topics, x \in Versions : u # t \/ x # v => row'[u][x] = row[u][x]
  BY ClaimTyped DEF ProjectionInv
<1>2. UNCHANGED <<decision, messages, audience, session, sweep>>
  BY DEF Claim
<1>3. v <= Last /\ Last \in Nat /\ (Last > 0 => Last \in Versions)
  BY DEF Claim, ProjectionInv, Known, TypeOK, Last, Versions
<1>4. \A x \in Versions :
        /\ row["mail"][x].state # "absent" => row'["mail"][x].state # "absent"
        /\ row'["work"][x].state # "absent" => x <= Last
        /\ row'["work"][x].state = "delivered" => row'["work"][x] = row["work"][x]
  BY <1>1, <1>3 DEF Topics, ProjectionInv, Known
<1>5. OnTrack(w)'
  BY <1>1, <1>2, <1>3 DEF OnTrack, At, Version, Last, Topics, AfterAudience, AfterStage
<1>6. SessionAgrees' = SessionAgrees
  BY <1>2 DEF SessionAgrees, Last
<1>. QED
  BY <1>1, <1>2, <1>3, <1>4, <1>5, <1>6, Kept DEF ProjectionInv, Known

LEMMA LeaseKept ==
  ASSUME ProjectionInv, NEW t \in Topics, NEW v \in Versions, Abandoned(t, v) \/ Overtaken(t, v)
  PROVE  ProjectionInv'
<1>1. /\ TypeOK' /\ row'[t][v].state = "processing" /\ row[t][v].state = "processing"
      /\ \A u \in Topics, x \in Versions : u # t \/ x # v => row'[u][x] = row[u][x]
  BY LeaseTyped DEF ProjectionInv
<1>2. UNCHANGED <<decision, messages, audience, session, sweep, worker>>
  BY DEF Abandoned, Overtaken, LeaseEnds
<1>3. Last > 0 => Last \in Versions
  BY DEF ProjectionInv, TypeOK, Last, Versions
<1>4. \A x \in Versions :
        /\ row["mail"][x].state # "absent" => row'["mail"][x].state # "absent"
        /\ row'["work"][x].state # "absent" => x <= Last
        /\ row'["work"][x].state = "delivered" => row'["work"][x] = row["work"][x]
  BY <1>1 DEF Topics, ProjectionInv, Known
<1>5. SessionAgrees' = SessionAgrees
  BY <1>2 DEF SessionAgrees, Last
<1>. QED
  BY <1>1, <1>2, <1>3, <1>4, <1>5, Kept DEF ProjectionInv, Known

(* What a step of an isolate finds. *)
LEMMA AtStep ==
  ASSUME ProjectionInv, NEW w \in Workers, ~At(w, "idle")
  PROVE  /\ OnTrack(w) /\ Version(w) \in Versions /\ Version(w) <= Last
         /\ Last \in Nat /\ Last \in Versions /\ Last > 0
         /\ (Current(Version(w)) <=> Version(w) = Last)
         /\ Status(w) \in Statuses /\ (Version(w) = Last => Status(w) = decision[Last])
<1>1. OnTrack(w) /\ Version(w) \in Versions
  BY WorkerParts DEF ProjectionInv, TypeOK, Version
<1>2. Version(w) <= Last
  BY <1>1 DEF OnTrack
<1>3. decision \in Seq(Statuses) /\ Last \in Nat /\ Last <= MaxDecisions
  BY DEF ProjectionInv, TypeOK, Last
<1>4. Last \in Versions /\ Last > 0 /\ Version(w) \in 1 .. Last
  BY <1>1, <1>2, <1>3 DEF Versions
<1>5. Status(w) \in Statuses
  BY <1>3, <1>4 DEF Status, Last
<1>. QED
  BY <1>1, <1>2, <1>3, <1>4, <1>5 DEF Current, Last, Status

LEMMA QuietKept ==
  ASSUME ProjectionInv, NEW w \in Workers, Quiet(w)
  PROVE  ProjectionInv'
<1>1. TypeOK' /\ worker \in [Workers -> Worker]
  BY QuietTyped DEF ProjectionInv, TypeOK
<1>2. ~At(w, "idle")
  BY DEF Quiet, SetAudience, Fence, Send, ReadSession, WriteSession, ReadFence, CallProvider, At
<1>3. /\ OnTrack(w) /\ Version(w) \in Versions /\ Version(w) <= Last
      /\ Last \in Nat /\ Last \in Versions /\ Last > 0
      /\ (Current(Version(w)) <=> Version(w) = Last)
      /\ Status(w) \in Statuses /\ (Version(w) = Last => Status(w) = decision[Last])
  BY <1>2, AtStep
<1>. DEFINE Moved == /\ worker'[w].topic = worker[w].topic /\ Version(w)' = Version(w)
                     /\ \A x \in Workers : x # w => worker'[x] = worker[x]
<1>4. CASE SetAudience(w)
  <2>1. /\ worker'[w].pc = (IF Current(Version(w)) THEN "stage" ELSE "settle") /\ Moved
    BY <1>1, <1>4, GoToSets DEF SetAudience, PC, Version
  <2>2. /\ UNCHANGED <<decision, row, messages, session, sweep>> /\ Last' = Last
        /\ audience' = (IF Current(Version(w)) THEN Version(w) ELSE audience)
    BY <1>4 DEF SetAudience, Last
  <2>3. OnTrack(w)'
    BY <1>2, <1>3, <2>1, <2>2 DEF OnTrack, At, AfterAudience, AfterStage
  <2>. QED
    BY <1>1, <1>3, <2>1, <2>2, <2>3, MovedKept
<1>5. CASE Fence(w)
  <2>1. worker'[w].pc = (IF Current(Version(w)) THEN "send" ELSE "readSession") /\ Moved
    BY <1>1, <1>5, GoToSets DEF Fence, PC, Version
  <2>2. /\ UNCHANGED <<decision, row, messages, session, sweep, audience>> /\ Last' = Last
        /\ worker[w].pc = "fence"
    BY <1>5 DEF Fence, Last, At
  <2>3. OnTrack(w)'
    BY <1>2, <1>3, <2>1, <2>2 DEF OnTrack, At, AfterAudience, AfterStage
  <2>. QED
    BY <1>1, <2>1, <2>2, <2>3, MovedKept
<1>6. CASE ReadFence(w) \/ CallProvider(w)
  <2>1. worker'[w].pc \in {"provider", "settle"} /\ Moved
    BY <1>1, <1>6, GoToSets DEF ReadFence, CallProvider, PC, Version
  <2>2. /\ UNCHANGED <<decision, row, messages, session, sweep, audience>> /\ Last' = Last
        /\ worker[w].topic = "mail"
    BY <1>3, <1>6 DEF ReadFence, CallProvider, Last, At, OnTrack
  <2>3. OnTrack(w)'
    BY <1>2, <1>3, <2>1, <2>2 DEF OnTrack, At, AfterAudience, AfterStage
  <2>. QED
    BY <1>1, <2>1, <2>2, <2>3, MovedKept
<1>7. CASE Send(w)
  <2>1. worker'[w].pc = "markQueued" /\ Moved
    BY <1>1, <1>7, GoToSets DEF Send, PC, Version
  <2>2. /\ UNCHANGED <<decision, row, session, sweep, audience>> /\ Last' = Last
        /\ worker[w].pc = "send" /\ messages' = messages \cup {<<"mail", Version(w)>>}
    BY <1>7 DEF Send, Last, At
  <2>3. OnTrack(w)'
    BY <1>2, <1>3, <2>1, <2>2 DEF OnTrack, At, AfterAudience, AfterStage
  <2>4. \A t \in Topics, v \in Versions : <<t, v>> \in messages' => v <= Last
    BY <1>3, <2>2 DEF ProjectionInv, Known
  <2>5. SessionAgrees' = SessionAgrees
    BY <2>2 DEF SessionAgrees, Last
  <2>. QED
    BY <1>1, <2>1, <2>2, <2>3, <2>4, <2>5, Kept DEF ProjectionInv, Known
<1>8. CASE ReadSession(w)
  <2>1. /\ worker'[w].pc = (CASE ~Current(Version(w)) -> "retry"
                               [] Current(Version(w)) /\ Agrees(w, session) -> "settle"
                               [] OTHER -> "writeSession")
        /\ Moved
    BY <1>8, ReadSessionSets DEF ProjectionInv, Version
  <2>2. /\ UNCHANGED <<decision, row, messages, session, sweep, audience>> /\ Last' = Last
        /\ worker[w].pc = "readSession"
    BY <1>8 DEF ReadSession, Last, At
  <2>3. Version(w) = Last /\ Agrees(w, session) => SessionAgrees'
    BY <1>3, <2>2 DEF Agrees, SessionAgrees, Statuses
  <2>4. OnTrack(w)'
    BY <1>2, <1>3, <2>1, <2>2, <2>3 DEF OnTrack, At, AfterAudience, AfterStage
  <2>. QED
    BY <1>1, <2>1, <2>2, <2>4, MovedKept
<1>9. CASE WriteSession(w)
  <2>. DEFINE p == IF Writable(w) THEN "settle"
                   ELSE IF Status(w) = "accepted" THEN "readSession" ELSE "retry"
  <2>0. GoTo(w, p) /\ p \in PC
    BY <1>9 DEF WriteSession, PC
  <2>1. worker'[w].pc = p /\ Moved
    <3>. HIDE DEF p
    <3>. QED
      BY <1>1, <2>0, GoToSets DEF Version
  <2>2. /\ UNCHANGED <<decision, row, messages, sweep, audience>> /\ Last' = Last
        /\ worker[w].pc = "writeSession"
    BY <1>9 DEF WriteSession, Last, At
  <2>3. Writable(w) => Version(w) = Last /\ session'.status = decision[Last]
    BY <1>3, <1>9 DEF WriteSession, Writable
  <2>4. ~Writable(w) => session' = session
    BY <1>9 DEF WriteSession
  <2>5. /\ Writable(w) => SessionAgrees'
        /\ SessionAgrees => SessionAgrees'
    BY <1>3, <2>2, <2>3, <2>4 DEF SessionAgrees, Statuses
  <2>6. OnTrack(w)'
    BY <1>2, <1>3, <2>1, <2>2, <2>5 DEF OnTrack, At, AfterAudience, AfterStage
  <2>. QED
    BY <1>1, <2>1, <2>2, <2>5, <2>6, Kept DEF ProjectionInv, Known
<1>. QED
  BY <1>4, <1>5, <1>6, <1>7, <1>8, <1>9 DEF Quiet

LEMMA StageKept ==
  ASSUME ProjectionInv, NEW w \in Workers, Stage(w)
  PROVE  ProjectionInv'
<1>1. /\ TypeOK' /\ worker'[w].pc \in {"fence", "readSession"}
      /\ worker'[w].topic = worker[w].topic /\ Version(w)' = Version(w)
      /\ \A x \in Workers : x # w => worker'[x] = worker[x]
      /\ row'["work"] = row["work"]
      /\ \A x \in Versions : row["mail"][x].state # "absent" => row'["mail"][x] = row["mail"][x]
      /\ Current(Version(w)) => row'["mail"][Version(w)].state # "absent"
  BY StageTyped DEF ProjectionInv, Version
<1>2. /\ UNCHANGED <<decision, messages, session, sweep, audience>> /\ Last' = Last
      /\ worker[w].pc = "stage" /\ ~At(w, "idle")
  BY DEF Stage, Last, At
<1>3. /\ OnTrack(w) /\ Version(w) <= Last /\ Last \in Versions
      /\ (Current(Version(w)) <=> Version(w) = Last)
  BY <1>2, AtStep
<1>4. OnTrack(w)'
  BY <1>1, <1>2, <1>3 DEF OnTrack, At, AfterAudience, AfterStage
<1>5. SessionAgrees' = SessionAgrees
  BY <1>2 DEF SessionAgrees
<1>. QED
  BY <1>1, <1>2, <1>4, <1>5, Kept DEF ProjectionInv, Known

LEMMA MarkKept ==
  ASSUME ProjectionInv, NEW w \in Workers, MarkQueued(w)
  PROVE  ProjectionInv'
<1>1. /\ TypeOK' /\ worker'[w].pc = "readSession"
      /\ worker'[w].topic = worker[w].topic /\ Version(w)' = Version(w)
      /\ \A x \in Workers : x # w => worker'[x] = worker[x]
      /\ row'["work"] = row["work"]
      /\ \A x \in Versions : row["mail"][x].state # "absent" => row'["mail"][x].state # "absent"
  BY MarkTyped DEF ProjectionInv, Version
<1>2. /\ UNCHANGED <<decision, messages, session, sweep, audience>> /\ Last' = Last
      /\ worker[w].pc = "markQueued" /\ ~At(w, "idle")
  BY DEF MarkQueued, Last, At
<1>3. OnTrack(w) /\ Version(w) <= Last /\ Last \in Versions
  BY <1>2, AtStep
<1>4. OnTrack(w)'
  BY <1>1, <1>2, <1>3 DEF OnTrack, At, AfterAudience, AfterStage
<1>5. SessionAgrees' = SessionAgrees
  BY <1>2 DEF SessionAgrees
<1>. QED
  BY <1>1, <1>2, <1>4, <1>5, Kept DEF ProjectionInv, Known

LEMMA SettleKept ==
  ASSUME ProjectionInv, NEW w \in Workers, Settle(w)
  PROVE  ProjectionInv'
<1>1. /\ TypeOK' /\ worker'[w].pc = "idle"
      /\ \A x \in Workers : x # w => worker'[x] = worker[x]
      /\ \A t \in Topics, v \in Versions :
           \/ row'[t][v] = row[t][v]
           \/ /\ t = worker[w].topic /\ v = Version(w)
              /\ row[t][v].state = "processing"
              /\ row'[t][v].state # "absent"
              /\ row'[t][v].state = "delivered" => At(w, "settle")
  BY SettleTyped DEF ProjectionInv
<1>2. /\ UNCHANGED <<decision, messages, session, sweep, audience>> /\ Last' = Last
      /\ ~At(w, "idle")
  BY DEF Settle, Last, At
<1>3. OnTrack(w) /\ Version(w) <= Last /\ Last \in Versions
  BY <1>2, AtStep
<1>4. worker'[w] = NoWork
  BY DEF Settle, ProjectionInv, TypeOK
<1>5. OnTrack(w)'
  BY <1>3, <1>4 DEF OnTrack, At, NoWork, AfterAudience, AfterStage
<1>6. SessionAgrees' = SessionAgrees
  BY <1>2 DEF SessionAgrees
<1>7. \A v \in Versions :
        /\ row["mail"][v].state # "absent" => row'["mail"][v].state # "absent"
        /\ row'["work"][v].state # "absent" => v <= Last
  BY <1>1, <1>3 DEF ProjectionInv, Known, Topics
<1>8. row'["work"][Last].state = "delivered" =>
        \/ row["work"][Last].state = "delivered"
        \/ audience' = Last /\ row'["mail"][Last].state # "absent" /\ SessionAgrees'
  <2>1. SUFFICES ASSUME row'["work"][Last].state = "delivered",
                        row'["work"][Last] # row["work"][Last]
                 PROVE  audience' = Last /\ row'["mail"][Last].state # "absent" /\ SessionAgrees'
    OBVIOUS
  <2>2. worker[w].topic = "work" /\ Version(w) = Last /\ At(w, "settle")
    BY <1>1, <1>3, <2>1 DEF Topics
  <2>3. audience = Last /\ row["mail"][Last].state # "absent" /\ SessionAgrees
    BY <1>3, <2>2 DEF OnTrack, At, AfterAudience, AfterStage
  <2>. QED
    BY <1>2, <1>3, <1>6, <1>7, <2>3
<1>. QED
  BY <1>1, <1>2, <1>5, <1>6, <1>7, <1>8, Kept DEF ProjectionInv, Known

LEMMA ProjectionKept ==
  ASSUME ProjectionInv, [Next]_vars
  PROVE  ProjectionInv'
<1>1. CASE \E s \in Statuses : Decide(s)
  BY <1>1, DecideKept
<1>2. CASE \E v \in Versions : PublishWork(v)
  BY <1>2, PublishKept
<1>3. CASE SweepMark \/ \E v \in Versions : SweepSend(v)
  BY <1>3, SweepKept
<1>4. CASE (\E v \in Versions : PublicationLost(v)) \/ UNCHANGED vars
  BY <1>4, NextTyped, MovedKept DEF PublicationLost, ProjectionInv, vars
<1>5. CASE \E w \in Workers : Step(w)
  BY <1>5, QuietKept, StageKept, MarkKept, SettleKept DEF Step, Quiet
<1>6. ASSUME NEW w \in Workers, Lose(w)
      PROVE  ProjectionInv'
  <2>1. /\ UNCHANGED <<decision, row, messages, session, sweep, audience>>
        /\ worker'[w] = NoWork /\ \A x \in Workers : x # w => worker'[x] = worker[x]
    BY <1>6 DEF Lose, ProjectionInv, TypeOK
  <2>2. OnTrack(w)'
    BY <2>1 DEF OnTrack, At, NoWork, AfterAudience, AfterStage
  <2>. QED
    BY <2>1, <2>2, NextTyped, MovedKept DEF ProjectionInv
<1>11. ASSUME NEW w \in Workers, NEW retryable \in BOOLEAN, Throw(w, retryable)
       PROVE  ProjectionInv'
  <2>1. /\ TypeOK' /\ ~At(w, "idle")
        /\ worker'[w].pc \in {"retry", "reject"}
        /\ worker'[w].topic = worker[w].topic /\ worker'[w].version = worker[w].version
        /\ \A x \in Workers : x # w => worker'[x] = worker[x]
    BY <1>11, ThrowTyped DEF ProjectionInv
  <2>2. UNCHANGED <<decision, row, messages, session, sweep, audience>>
    BY <1>11 DEF Throw
  <2>3. OnTrack(w)'
    BY <2>1, <2>2 DEF ProjectionInv, OnTrack, At, Version, Last, AfterAudience, AfterStage
  <2>. QED
    BY <2>1, <2>2, <2>3, MovedKept
<1>7. CASE \E t \in Topics, v \in Versions : Acknowledge(t, v) \/ DeadLetter(t, v)
  <2>1. /\ UNCHANGED <<decision, row, session, sweep, audience, worker>>
        /\ messages' \subseteq messages
    BY <1>7 DEF Acknowledge, DeadLetter
  <2>2. SessionAgrees' = SessionAgrees /\ TypeOK'
    BY <2>1, NextTyped DEF ProjectionInv, SessionAgrees, Last
  <2>. QED
    BY <2>1, <2>2, Kept DEF ProjectionInv, Known
<1>8. CASE \E t \in Topics, v \in Versions : Abandoned(t, v) \/ Overtaken(t, v)
  BY <1>8, LeaseKept
<1>9. CASE \E t \in Topics, v \in Versions, w \in Workers : Claim(w, t, v)
  BY <1>9, ClaimKept
<1>10. CASE EditSession
  <2>1. /\ UNCHANGED <<decision, row, messages, sweep, audience, worker>>
        /\ session'.status = session.status
    BY <1>10 DEF EditSession, ProjectionInv, TypeOK, Session
  <2>2. SessionAgrees' = SessionAgrees /\ TypeOK'
    BY <2>1, NextTyped DEF ProjectionInv, SessionAgrees, Last
  <2>. QED
    BY <2>1, <2>2, Kept DEF ProjectionInv, Known
<1>. QED
  BY <1>1, <1>2, <1>3, <1>4, <1>5, <1>6, <1>7, <1>8, <1>9, <1>10, <1>11 DEF Next

LEMMA ProjectionInit == Init => ProjectionInv
<1>. SUFFICES ASSUME Init PROVE ProjectionInv
  OBVIOUS
<1>1. TypeOK /\ Last = 0
  BY InitTyped DEF Init, Last
<1>2. Known
  BY <1>1 DEF Init, Known, NoSweep, Topics, Absent
<1>3. ASSUME NEW w \in Workers
      PROVE  OnTrack(w)
  BY DEF Init, OnTrack, At, NoWork, AfterAudience, AfterStage
<1>. QED
  BY <1>1, <1>2, <1>3 DEF ProjectionInv, DeliveredIsProjected

(* Once the work of the latest decision is delivered, audience, mail and    *)
(* session are those of that decision, whatever overtaken, repeated or lost *)
(* replays of it and of earlier ones still do (DeliveredIsProjected; the    *)
(* fences of replayPersistedDecisionWork and of its batches).               *)
THEOREM Projected == Spec => []DeliveredIsProjected
<1>1. ProjectionInv => DeliveredIsProjected
  BY DEF ProjectionInv
<1>. QED
  BY <1>1, ProjectionInit, ProjectionKept, PTL DEF Spec

(* The audience of the participants never returns to that of an earlier     *)
(* decision (AudienceNeverOlder; setAudience's fenced batch).               *)
THEOREM AudienceAdvances == Spec => AudienceNeverOlder
<1>1. ProjectionInv /\ [Next]_vars => [audience' >= audience]_vars
  <2>1. SUFFICES ASSUME ProjectionInv, [Next]_vars, audience' # audience
                 PROVE  audience' >= audience
    BY DEF ProjectionInv, TypeOK, vars
  <2>2. PICK w \in Workers : SetAudience(w)
    <3>1. ASSUME NEW w \in Workers, Step(w)
          PROVE  SetAudience(w)
      BY <2>1, <3>1 DEF Step, Stage, Fence, Send, MarkQueued, ReadSession, WriteSession,
         ReadFence, CallProvider, Settle
    <3>2. ~\E w \in Workers : Lose(w) \/ \E retryable \in BOOLEAN : Throw(w, retryable)
      BY <2>1 DEF Lose, Throw
    <3>3. ~\E v \in Versions :
             PublishWork(v) \/ PublicationLost(v) \/ SweepSend(v)
      BY <2>1 DEF PublishWork, PublicationLost, SweepSend
    <3>4. ASSUME NEW t \in Topics, NEW v \in Versions
          PROVE  ~(Acknowledge(t, v) \/ DeadLetter(t, v) \/ Abandoned(t, v) \/ Overtaken(t, v))
      BY <2>1 DEF Acknowledge, DeadLetter, Abandoned, Overtaken, LeaseEnds
    <3>6. ASSUME NEW t \in Topics, NEW v \in Versions, NEW w \in Workers
          PROVE  ~Claim(w, t, v)
      BY <2>1 DEF Claim
    <3>5. ~(SweepMark \/ EditSession \/ UNCHANGED vars \/ \E s \in Statuses : Decide(s))
      BY <2>1 DEF SweepMark, EditSession, vars, Decide
    <3>. QED
      BY <2>1, <3>1, <3>2, <3>3, <3>4, <3>5, <3>6 DEF Next
  <2>3. audience' = Last
    BY <2>1, <2>2 DEF SetAudience, Current, Last
  <2>. QED
    BY <2>1, <2>3 DEF ProjectionInv, Known, TypeOK, Last
<1>. QED
  BY <1>1, ProjectionInit, ProjectionKept, PTL DEF Spec, AudienceNeverOlder

=============================================================================
