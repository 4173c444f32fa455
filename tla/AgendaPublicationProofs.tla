------------------------ MODULE AgendaPublicationProofs ------------------------
(***************************************************************************)
(* Theorems about AgendaPublication, for every value of its constants: any *)
(* number of operations, lapses, faults and rollbacks.                     *)
(***************************************************************************)
EXTENDS AgendaPublication, SequenceTheorems, TLAPS

-----------------------------------------------------------------------------
(* What a step does to the call that takes it, and to no other.              *)

OthersKeep(o) == \A p \in Operation \ {o} : job'[p] = job[p]

LEMMA NoAgendaType == NoAgenda \in Agenda /\ Current(NoAgenda) = 0
BY EmptySeq DEF NoAgenda, Agenda, Current

LEMMA IdleType == Idle \in Job
BY NoAgendaType DEF Idle, Job, Kind, Reason

LEMMA ActiveKnown ==
  /\ DOMAIN NextPC = {"renewSwap", "renewHand", "renewLatest",
                      "renewReserve", "renewComplete", "renewServed"}
  /\ NextPC["renewSwap"] = "swap" /\ NextPC["renewHand"] = "check"
  /\ NextPC["renewLatest"] = "latest" /\ NextPC["renewReserve"] = "reserve"
  /\ NextPC["renewComplete"] = "complete" /\ NextPC["renewServed"] = "return"
  /\ ActivePC = {"renewSwap", "renewHand", "renewLatest", "renewReserve",
                 "renewComplete", "renewServed", "swap", "check", "latest", "reserve",
                 "complete", "return", "load", "program", "failing"}
<1>1. DOMAIN NextPC = {"renewSwap", "renewHand", "renewLatest",
                       "renewReserve", "renewComplete", "renewServed"}
  BY DEF NextPC
<1>2. /\ NextPC["renewSwap"] = "swap" /\ NextPC["renewHand"] = "check"
      /\ NextPC["renewLatest"] = "latest" /\ NextPC["renewReserve"] = "reserve"
      /\ NextPC["renewComplete"] = "complete" /\ NextPC["renewServed"] = "return"
  BY DEF NextPC
<1>. QED
  BY <1>1, <1>2 DEF ActivePC

LEMMA SetJob ==
  ASSUME job \in [Operation -> Job], NEW o \in Operation, NEW v \in Job,
         job' = [job EXCEPT ![o] = v]
  PROVE  job' \in [Operation -> Job] /\ job'[o] = v /\ OthersKeep(o)
BY DEF OthersKeep

(* It keeps what it was asked for and what it hands off. *)
Remembers(o) ==
  /\ job'[o].kind = job[o].kind
  /\ job'[o].expected = job[o].expected
  /\ job'[o].number = job[o].number

(* It moves on, with all it knows. *)
Moves(o, pc) ==
  /\ Remembers(o)
  /\ job'[o].pc = pc
  /\ job'[o].copy = job[o].copy
  /\ job'[o].parent = job[o].parent
  /\ job'[o].served = job[o].served
  /\ job'[o].release = job[o].release
  /\ job'[o].version = job[o].version
  /\ job'[o].reason = job[o].reason

(* It ends with an exception, or catches it to fail its release. *)
Fails(o, reason) ==
  /\ Remembers(o)
  /\ job'[o].reason = reason
  /\ \/ /\ job[o].pc \notin {"renewComplete", "complete"}
        /\ job'[o].pc = "failed"
     \/ /\ job[o].pc \in {"renewComplete", "complete"}
        /\ job'[o].pc = "failing"
        /\ job'[o].release = job[o].release

LEMMA StepEffect ==
  ASSUME TypeOK, NEW o \in Operation,
         NEW pc \in ActivePC \cup {"idle", "waiting", "ok", "failed", "lost"}, Step(o, pc)
  PROVE  job' \in [Operation -> Job] /\ OthersKeep(o) /\ Moves(o, pc)
<1>1. job[o] \in Job /\ job \in [Operation -> Job]
  BY DEF TypeOK
<1>. DEFINE v == [job[o] EXCEPT !.pc = pc]
<1>2. v \in Job
  BY <1>1 DEF Job
<1>3. job' = [job EXCEPT ![o] = v]
  BY <1>1 DEF Step
<1>4. job' \in [Operation -> Job] /\ job'[o] = v /\ OthersKeep(o)
  BY <1>1, <1>2, <1>3, SetJob
<1>. QED
  BY <1>1, <1>4 DEF Moves, Remembers, Job

LEMMA EndEffect ==
  ASSUME TypeOK, NEW o \in Operation, NEW pc \in {"ok", "failed"}, NEW reason \in Reason,
         End(o, pc, reason)
  PROVE  /\ job' \in [Operation -> Job]
         /\ OthersKeep(o)
         /\ Remembers(o)
         /\ job'[o].pc = pc /\ job'[o].reason = reason
<1>1. job[o] \in Job /\ job \in [Operation -> Job]
  BY DEF TypeOK
<1>. DEFINE v == [Idle EXCEPT !.pc = pc, !.kind = job[o].kind,
                !.expected = job[o].expected, !.number = job[o].number, !.reason = reason]
<1>2. v \in Job
  BY <1>1, IdleType DEF Job
<1>3. /\ v.pc = pc /\ v.reason = reason /\ v.kind = job[o].kind
      /\ v.expected = job[o].expected /\ v.number = job[o].number
  BY DEF Idle
<1>4. job' = [job EXCEPT ![o] = v]
  BY DEF End
<1>. HIDE DEF v
<1>. QED
  BY <1>1, <1>2, <1>3, <1>4, SetJob DEF Remembers

LEMMA ThrowEffect ==
  ASSUME TypeOK, NEW o \in Operation, NEW reason \in Reason, Throw(o, reason)
  PROVE  job' \in [Operation -> Job] /\ OthersKeep(o) /\ Fails(o, reason)
<1>1. job[o] \in Job /\ job \in [Operation -> Job]
  BY DEF TypeOK
<1>2. CASE End(o, "failed", reason) /\ job[o].pc \notin {"renewComplete", "complete"}
  BY <1>2, EndEffect DEF Fails
<1>3. CASE /\ job[o].pc \in {"renewComplete", "complete"}
           /\ job' = [job EXCEPT ![o].pc = "failing", ![o].reason = reason]
  <2>. DEFINE v == [job[o] EXCEPT !.pc = "failing", !.reason = reason]
  <2>1. v \in Job
    BY <1>1, ActiveKnown DEF Job
  <2>2. /\ v.pc = "failing" /\ v.reason = reason /\ v.kind = job[o].kind
        /\ v.expected = job[o].expected /\ v.number = job[o].number /\ v.release = job[o].release
    BY <1>1 DEF Job
  <2>3. job' = [job EXCEPT ![o] = v]
    BY <1>1, <1>3
  <2>. HIDE DEF v
  <2>. QED
    BY <1>1, <1>3, <2>1, <2>2, <2>3, SetJob DEF Fails, Remembers
<1>. QED
  BY <1>2, <1>3 DEF Throw

-----------------------------------------------------------------------------
(* The actions, one by one.                                                  *)

Quiet == UNCHANGED <<agenda, program>>

LEMMA BeginEffect ==
  ASSUME TypeOK, NEW o \in Operation, Begin(o)
  PROVE  /\ job' \in [Operation -> Job] /\ OthersKeep(o) /\ Quiet
         /\ job[o].pc = "idle" /\ job'[o].pc = "waiting"
         /\ job'[o].number = job[o].number /\ job'[o].reason = job[o].reason
<1>1. job[o] \in Job /\ job \in [Operation -> Job] /\ Draft(agenda) \in Nat
  BY LenProperties DEF TypeOK, Agenda, Draft
<1>2. PICK kind \in Kinds[o] :
        job' = [job EXCEPT ![o].pc = "waiting", ![o].kind = kind, ![o].expected = Draft(agenda)]
  BY DEF Begin
<1>3. kind \in Kind
  BY PublicationAssumption
<1>. DEFINE v == [job[o] EXCEPT !.pc = "waiting", !.kind = kind, !.expected = Draft(agenda)]
<1>4. v \in Job
  BY <1>1, <1>3 DEF Job
<1>5. v.pc = "waiting" /\ v.number = job[o].number /\ v.reason = job[o].reason
  BY <1>1 DEF Job
<1>6. job' = [job EXCEPT ![o] = v]
  BY <1>1, <1>2
<1>. HIDE DEF v
<1>. QED
  BY <1>1, <1>4, <1>5, <1>6, SetJob DEF Begin, At, Quiet

LEMMA AdmitEffect ==
  ASSUME TypeOK, NEW o \in Operation, Admit(o)
  PROVE  /\ job' \in [Operation -> Job] /\ OthersKeep(o) /\ Quiet
         /\ job[o].pc = "waiting" /\ Moves(o, "load")
<1>1. job[o] \in Job /\ job \in [Operation -> Job]
  BY DEF TypeOK
<1>. DEFINE v == [job[o] EXCEPT !.pc = "load"]
<1>2. v \in Job
  BY <1>1, ActiveKnown DEF Job
<1>3. job' = [job EXCEPT ![o] = v]
  BY <1>1 DEF Admit
<1>4. job' \in [Operation -> Job] /\ job'[o] = v /\ OthersKeep(o)
  BY <1>1, <1>2, <1>3, SetJob
<1>. QED
  BY <1>1, <1>4 DEF Moves, Remembers, Job, Admit, At, Quiet

LEMMA RenewEffect ==
  ASSUME TypeOK, NEW o \in Operation, Renew(o)
  PROVE  /\ job' \in [Operation -> Job] /\ OthersKeep(o) /\ Quiet
         /\ job[o].pc \in DOMAIN NextPC
         /\ \/ holder # o /\ Fails(o, "lease")
            \/ holder = o /\ job[o].pc = "renewHand" /\ job[o].number = 0 /\ Moves(o, "return")
            \/ /\ holder = o /\ ~(job[o].pc = "renewHand" /\ job[o].number = 0)
               /\ Moves(o, NextPC[job[o].pc])
<1>0. job[o].pc \in DOMAIN NextPC /\ Quiet
  BY DEF Renew, Quiet
<1>1. CASE holder # o /\ Throw(o, "lease")
  <2>1. "lease" \in Reason
    BY DEF Reason
  <2>. QED
    BY <1>0, <1>1, <2>1, ThrowEffect
<1>2. CASE holder = o /\ job[o].pc = "renewHand" /\ job[o].number = 0 /\ Step(o, "return")
  BY <1>0, <1>2, ActiveKnown, StepEffect
<1>3. CASE /\ holder = o /\ ~(job[o].pc = "renewHand" /\ job[o].number = 0)
           /\ Step(o, NextPC[job[o].pc])
  <2>1. NextPC[job[o].pc] \in ActivePC
    BY <1>0, ActiveKnown
  <2>. QED
    BY <1>0, <1>3, <2>1, StepEffect
<1>. QED
  BY <1>1, <1>2, <1>3 DEF Renew, At

LEMMA LoadEffect ==
  ASSUME TypeOK, NEW o \in Operation, Load(o)
  PROVE  /\ job' \in [Operation -> Job] /\ OthersKeep(o) /\ Quiet
         /\ job[o].pc = "load"
         /\ \/ Moves(o, "renewHand")
            \/ \E reason \in {"stale", "blocked"} : Fails(o, reason)
            \/ /\ Keeps(o, agenda)
               /\ job'[o].pc = "renewHand"
               /\ job'[o].number = Current(agenda)
               /\ job'[o].kind = job[o].kind /\ job'[o].expected = job[o].expected
               /\ job'[o].reason = job[o].reason
            \/ /\ Changes(o, agenda)
               /\ job'[o].pc = "renewSwap"
               /\ job[o].expected = Draft(agenda)
               /\ Remembers(o)
               /\ job'[o].copy = agenda
               /\ job'[o].reason = job[o].reason
<1>1. /\ job[o] \in Job /\ job \in [Operation -> Job] /\ Current(agenda) \in Nat
      /\ agenda \in Agenda
  BY LenProperties DEF TypeOK, Agenda, Current
<1>2. CASE Step(o, "renewHand")
  BY <1>2, StepEffect, ActiveKnown DEF Load, Quiet, At
<1>3. CASE Throw(o, "stale") \/ Throw(o, "blocked")
  BY <1>3, ThrowEffect DEF Load, Quiet, At, Reason
<1>4. CASE /\ Keeps(o, agenda)
           /\ job' = [job EXCEPT ![o].pc = "renewHand", ![o].number = Current(agenda)]
  <2>. DEFINE v == [job[o] EXCEPT !.pc = "renewHand", !.number = Current(agenda)]
  <2>1. v \in Job
    BY <1>1, ActiveKnown DEF Job
  <2>2. /\ v.pc = "renewHand" /\ v.number = Current(agenda) /\ v.kind = job[o].kind
        /\ v.expected = job[o].expected /\ v.reason = job[o].reason
    BY <1>1 DEF Job
  <2>3. job' = [job EXCEPT ![o] = v]
    BY <1>1, <1>4
  <2>. HIDE DEF v
  <2>. QED
    BY <1>1, <1>4, <2>1, <2>2, <2>3, SetJob DEF Load, Quiet, At
<1>5. CASE /\ Changes(o, agenda) /\ job[o].expected = Draft(agenda)
           /\ job' = [job EXCEPT ![o].pc = "renewSwap", ![o].copy = agenda]
  <2>. DEFINE v == [job[o] EXCEPT !.pc = "renewSwap", !.copy = agenda]
  <2>1. v \in Job
    BY <1>1, ActiveKnown DEF Job
  <2>2. /\ v.pc = "renewSwap" /\ v.number = job[o].number /\ v.kind = job[o].kind
        /\ v.expected = job[o].expected /\ v.reason = job[o].reason /\ v.copy = agenda
    BY <1>1 DEF Job
  <2>3. job' = [job EXCEPT ![o] = v]
    BY <1>1, <1>5
  <2>. HIDE DEF v
  <2>. QED
    BY <1>1, <1>5, <2>1, <2>2, <2>3, SetJob DEF Load, Quiet, At, Remembers
<1>. QED
  BY <1>2, <1>3, <1>4, <1>5 DEF Load

-----------------------------------------------------------------------------
(* What a change makes of an aggregate.                                      *)

LEMMA ExtendsSelf ==
  ASSUME NEW S, NEW s \in Seq(S)
  PROVE  Extends(s, s)
BY LenProperties, SubSeqFull DEF Extends

LEMMA ExtendsAppend ==
  ASSUME NEW S, NEW s \in Seq(S), NEW x \in S
  PROVE  Extends(s, Append(s, x))
<1>. DEFINE t == Append(s, x)
            u == SubSeq(t, 1, Len(s))
<1>1. /\ t \in Seq(S) /\ Len(t) = Len(s) + 1 /\ Len(s) \in Nat
      /\ \A i \in 1 .. Len(s) : t[i] = s[i]
  BY AppendProperties, LenProperties
<1>2. \A i \in 1 .. Len(s) : t[i] \in S
  BY <1>1, ElementOfSeq
<1>. HIDE DEF t
<1>3. /\ u \in Seq(S)
      /\ Len(u) = IF 1 <= Len(s) THEN Len(s) - 1 + 1 ELSE 0
      /\ \A i \in 1 .. Len(s) - 1 + 1 : u[i] = t[1 + i - 1]
  BY <1>1, <1>2, SubSeqProperties
<1>4. Len(u) = Len(s) /\ \A i \in 1 .. Len(s) : u[i] = s[i]
  BY <1>1, <1>3
<1>. HIDE DEF u
<1>5. u = s
  BY <1>3, <1>4, SeqEqual
<1>. QED
  BY <1>1, <1>5 DEF Extends, u, t

LEMMA ChangedEffect ==
  ASSUME NEW o \in Operation, job[o] \in Job, NEW a \in Agenda, Changes(o, a)
  PROVE  LET b == Changed(o, a) IN
         /\ b \in Agenda
         /\ b.version = a.version + 1
         /\ Extends(a.edits, b.edits)
         /\ Extends(a.revisions, b.revisions)
         /\ \/ /\ job[o].kind = "edit"
               /\ b.revisions = a.revisions
            \/ /\ job[o].kind # "edit"
               /\ Current(b) = Current(a) + 1
               /\ \A n \in 1 .. Current(a) : b.revisions[n] = a.revisions[n]
               /\ b.revisions[Current(b)].by = o
               /\ job[o].kind = "publish" => b.revisions[Current(b)].source = Draft(a)
<1>. DEFINE edits == IF job[o].kind \in {"edit", "restore"} THEN Append(a.edits, o) ELSE a.edits
            source == IF job[o].kind = "refresh" THEN Source(a) ELSE Len(edits)
            revision == [source |-> source, by |-> o]
            b == Changed(o, a)
<1>1. /\ a.version \in Nat /\ a.edits \in Seq(Operation) /\ a.revisions \in Seq(Revision)
      /\ job[o].kind \in Kind
  BY DEF Agenda, Job
<1>2. edits \in Seq(Operation) /\ Extends(a.edits, edits)
  BY <1>1, AppendProperties, ExtendsSelf, ExtendsAppend
<1>3. source \in Nat
  <2>1. CASE job[o].kind = "refresh"
    <3>1. Len(a.revisions) \in Nat /\ Len(a.revisions) > 0
      BY <1>1, <2>1, LenProperties DEF Changes, Current
    <3>2. a.revisions[Len(a.revisions)] \in Revision
      BY <1>1, <3>1, ElementOfSeq
    <3>. QED
      BY <2>1, <3>2 DEF Source, Current, Revision
  <2>2. CASE job[o].kind # "refresh"
    BY <1>2, <2>2, LenProperties
  <2>. QED
    BY <2>1, <2>2
<1>4. revision \in Revision
  BY <1>3 DEF Revision
<1>5. /\ b.version = a.version + 1
      /\ b.edits = edits
      /\ b.revisions = IF job[o].kind = "edit" THEN a.revisions ELSE Append(a.revisions, revision)
      /\ b = [version |-> b.version, edits |-> b.edits, revisions |-> b.revisions]
  BY DEF Changed
<1>6. revision.by = o /\ (job[o].kind = "publish" => revision.source = Len(a.edits))
  OBVIOUS
<1>. HIDE DEF b, edits, revision
<1>7. /\ b.revisions \in Seq(Revision) /\ Extends(a.revisions, b.revisions)
  BY <1>1, <1>4, <1>5, AppendProperties, ExtendsSelf, ExtendsAppend
<1>8. b \in Agenda
  <2>1. b.version \in Nat /\ b.edits \in Seq(Operation) /\ b.revisions \in Seq(Revision)
    BY <1>1, <1>2, <1>5, <1>7
  <2>2. [version |-> b.version, edits |-> b.edits, revisions |-> b.revisions] \in Agenda
    BY <2>1 DEF Agenda
  <2>. QED
    BY <1>5, <2>2
<1>9. CASE job[o].kind # "edit"
  <2>1. /\ Len(b.revisions) = Len(a.revisions) + 1
        /\ \A n \in 1 .. Len(a.revisions) : b.revisions[n] = a.revisions[n]
        /\ b.revisions[Len(a.revisions) + 1] = revision
    BY <1>1, <1>4, <1>5, <1>9, AppendProperties
  <2>. QED
    BY <1>2, <1>5, <1>6, <1>7, <1>8, <1>9, <2>1 DEF Current, Draft, b
<1>10. CASE job[o].kind = "edit"
  BY <1>2, <1>5, <1>7, <1>8, <1>10 DEF b
<1>. QED
  BY <1>9, <1>10

(* The compare-and-swap. *)
LEMMA SwapEffect ==
  ASSUME TypeOK, NEW o \in Operation, Changes(o, job[o].copy), Swap(o)
  PROVE  /\ job' \in [Operation -> Job] /\ OthersKeep(o)
         /\ agenda' \in Agenda /\ program' = program
         /\ job[o].pc = "swap"
         /\ \/ /\ agenda.version # job[o].copy.version
               /\ agenda' = agenda
               /\ Fails(o, "swap")
            \/ /\ agenda.version = job[o].copy.version
               /\ agenda' = Changed(o, job[o].copy)
               /\ job'[o].pc = "renewHand"
               /\ job'[o].kind = job[o].kind /\ job'[o].expected = job[o].expected
               /\ job'[o].reason = job[o].reason
               /\ job'[o].number = IF job[o].kind = "edit" THEN 0 ELSE Current(agenda')
<1>1. /\ job[o] \in Job /\ job \in [Operation -> Job] /\ job[o].copy \in Agenda
      /\ agenda \in Agenda
  BY DEF TypeOK, Job
<1>2. CASE agenda.version # job[o].copy.version /\ Throw(o, "swap") /\ agenda' = agenda
  <2>1. "swap" \in Reason
    BY DEF Reason
  <2>. QED
    BY <1>1, <1>2, <2>1, ThrowEffect DEF Swap, At
<1>3. CASE /\ agenda.version = job[o].copy.version
           /\ agenda' = Changed(o, job[o].copy)
           /\ job' = [job EXCEPT ![o].pc = "renewHand", ![o].copy = NoAgenda,
                         ![o].number = IF job[o].kind = "edit" THEN 0 ELSE Current(agenda')]
  <2>. DEFINE number == IF job[o].kind = "edit" THEN 0 ELSE Current(agenda')
              v == [job[o] EXCEPT !.pc = "renewHand", !.copy = NoAgenda, !.number = number]
  <2>1. agenda' \in Agenda
    BY <1>1, <1>3, ChangedEffect
  <2>2. number \in Nat
    BY <2>1, LenProperties DEF Agenda, Current
  <2>3. job' = [job EXCEPT ![o] = v]
    BY <1>1, <1>3
  <2>4. number = IF job[o].kind = "edit" THEN 0 ELSE Current(agenda')
    OBVIOUS
  <2>. HIDE DEF number
  <2>5. v \in Job
    BY <1>1, <2>2, NoAgendaType, ActiveKnown DEF Job
  <2>6. /\ v.pc = "renewHand" /\ v.number = number /\ v.kind = job[o].kind
        /\ v.expected = job[o].expected /\ v.reason = job[o].reason
    BY <1>1 DEF Job
  <2>. HIDE DEF v
  <2>7. job' \in [Operation -> Job] /\ job'[o] = v /\ OthersKeep(o)
    BY <1>1, <2>3, <2>5, SetJob
  <2>. QED
    BY <1>3, <2>1, <2>4, <2>6, <2>7 DEF Swap, At
<1>. QED
  BY <1>2, <1>3 DEF Swap

LEMMA ReturnEffect ==
  ASSUME TypeOK, NEW o \in Operation, Return(o)
  PROVE  /\ job' \in [Operation -> Job] /\ OthersKeep(o) /\ Quiet
         /\ job[o].pc = "return" /\ Remembers(o)
         /\ \/ /\ job'[o].pc = "ok" /\ job'[o].reason = "none"
            \/ /\ holder # o /\ job'[o].pc = "failed" /\ job'[o].reason = "lease"
<1>1. "none" \in Reason /\ "lease" \in Reason
  BY DEF Reason
<1>2. Quiet /\ job[o].pc = "return"
  BY DEF Return, Quiet, At
<1>3. CASE End(o, "ok", "none")
  BY <1>1, <1>2, <1>3, EndEffect
<1>4. CASE holder # o /\ End(o, "failed", "lease")
  BY <1>1, <1>2, <1>4, EndEffect
<1>. QED
  BY <1>3, <1>4 DEF Return

LEMMA CheckEffect ==
  ASSUME TypeOK, NEW o \in Operation, Check(o)
  PROVE  /\ job' \in [Operation -> Job] /\ OthersKeep(o) /\ Quiet
         /\ job[o].pc = "check"
         /\ \/ Moves(o, "program")
            \/ Current(agenda) # job[o].number /\ Moves(o, "return")
<1>1. Quiet /\ job[o].pc = "check"
  BY DEF Check, Quiet, At
<1>2. CASE Step(o, "program")
  BY <1>1, <1>2, StepEffect, ActiveKnown
<1>3. CASE Current(agenda) # job[o].number /\ Step(o, "return")
  BY <1>1, <1>3, StepEffect, ActiveKnown
<1>. QED
  BY <1>2, <1>3 DEF Check

LEMMA ServedAgendaType ==
  ASSUME program \in Program, program.served <= Len(program.releases)
  PROVE  ServedAgenda(program) \in Nat
<1>1. program.served \in Nat /\ program.releases \in Seq(Release)
  BY DEF Program
<1>2. CASE program.served # 0
  <2>1. program.served \in 1 .. Len(program.releases)
    BY <1>1, <1>2, LenProperties
  <2>2. program.releases[program.served] \in Release
    BY <1>1, <2>1, ElementOfSeq
  <2>. QED
    BY <1>2, <2>2 DEF ServedAgenda, Release
<1>. QED
  BY <1>2 DEF ServedAgenda

LEMMA ReadProgramEffect ==
  ASSUME TypeOK, program.served <= Len(program.releases), NEW o \in Operation, ReadProgram(o)
  PROVE  /\ job' \in [Operation -> Job] /\ OthersKeep(o) /\ Quiet
         /\ job[o].pc = "program"
         /\ \/ ServedAgenda(program) > job[o].number /\ Moves(o, "return")
            \/ job[o].kind = "refresh" /\ program.served = 0 /\ Fails(o, "unserved")
            \/ /\ ServedAgenda(program) <= job[o].number
               /\ Remembers(o)
               /\ job'[o].pc = "renewLatest" /\ job'[o].reason = job[o].reason
               /\ job'[o].parent = program.served
               /\ job'[o].served = ServedAgenda(program)
               /\ job'[o].version = program.version
<1>1. /\ job[o] \in Job /\ job \in [Operation -> Job] /\ ServedAgenda(program) \in Nat
      /\ program.served \in Nat /\ program.version \in Nat
  BY ServedAgendaType DEF TypeOK, Program
<1>2. Quiet /\ job[o].pc = "program"
  BY DEF ReadProgram, Quiet, At
<1>3. CASE ServedAgenda(program) > job[o].number /\ Step(o, "return")
  BY <1>2, <1>3, StepEffect, ActiveKnown
<1>4. CASE job[o].kind = "refresh" /\ program.served = 0 /\ Throw(o, "unserved")
  <2>1. "unserved" \in Reason
    BY DEF Reason
  <2>. QED
    BY <1>2, <1>4, <2>1, ThrowEffect
<1>5. CASE /\ ServedAgenda(program) <= job[o].number
           /\ job' = [job EXCEPT ![o].pc = "renewLatest", ![o].parent = program.served,
                                 ![o].served = ServedAgenda(program),
                                 ![o].version = program.version]
  <2>. DEFINE v == [job[o] EXCEPT !.pc = "renewLatest", !.parent = program.served,
                                  !.served = ServedAgenda(program), !.version = program.version]
  <2>1. v \in Job
    BY <1>1, ActiveKnown DEF Job
  <2>2. /\ v.pc = "renewLatest" /\ v.number = job[o].number /\ v.kind = job[o].kind
        /\ v.expected = job[o].expected /\ v.reason = job[o].reason
        /\ v.parent = program.served /\ v.served = ServedAgenda(program)
        /\ v.version = program.version
    BY <1>1 DEF Job
  <2>3. job' = [job EXCEPT ![o] = v]
    BY <1>1, <1>5
  <2>. HIDE DEF v
  <2>. QED
    BY <1>1, <1>2, <1>5, <2>1, <2>2, <2>3, SetJob DEF Remembers
<1>. QED
  BY <1>3, <1>4, <1>5 DEF ReadProgram

LEMMA LatestEffect ==
  ASSUME TypeOK, NEW o \in Operation, Latest(o)
  PROVE  /\ job' \in [Operation -> Job] /\ OthersKeep(o) /\ Quiet
         /\ job[o].pc = "latest"
         /\ \/ /\ Current(agenda) # job[o].number \/ job[o].served = job[o].number
               /\ Moves(o, "return")
            \/ /\ Current(agenda) = job[o].number /\ job[o].served # job[o].number
               /\ Moves(o, "renewReserve")
<1>1. Quiet /\ job[o].pc = "latest"
  BY DEF Latest, Quiet, At
<1>2. CASE /\ Current(agenda) # job[o].number \/ job[o].served = job[o].number
           /\ Step(o, "return")
  BY <1>1, <1>2, StepEffect, ActiveKnown
<1>3. CASE /\ Current(agenda) = job[o].number /\ job[o].served # job[o].number
           /\ Step(o, "renewReserve")
  BY <1>1, <1>3, StepEffect, ActiveKnown
<1>. QED
  BY <1>2, <1>3 DEF Latest

LEMMA BreakEffect ==
  ASSUME TypeOK, NEW o \in Operation, Break(o)
  PROVE  /\ job' \in [Operation -> Job] /\ OthersKeep(o) /\ Quiet
         /\ job[o].pc \in ActivePC
         /\ \/ Moves(o, "lost")
            \/ Fails(o, "fault")
            \/ Remembers(o) /\ job'[o].pc = "failed" /\ job'[o].reason = "fault"
<1>1. Quiet /\ job[o].pc \in ActivePC /\ "fault" \in Reason
  BY DEF Break, Quiet, Reason
<1>2. CASE Step(o, "lost")
  BY <1>1, <1>2, StepEffect
<1>3. CASE Throw(o, "fault")
  BY <1>1, <1>3, ThrowEffect
<1>4. CASE End(o, "failed", "fault")
  BY <1>1, <1>4, EndEffect
<1>. QED
  BY <1>2, <1>3, <1>4 DEF Break

-----------------------------------------------------------------------------
(* The writes of the program.  Each adds releases or rewrites the pending    *)
(* one, which keeps its agenda.                                              *)

KeepsReleases ==
  /\ Len(program.releases) <= Len(program'.releases)
  /\ \A r \in 1 .. Len(program.releases) :
       /\ program'.releases[r].agenda = program.releases[r].agenda
       /\ r # program.pending => program'.releases[r] = program.releases[r]

(* A rewrite of the pending release. *)
LEMMA PendingWritten ==
  ASSUME program \in Program, program.pending \in 1 .. Len(program.releases),
         NEW v \in Release, v.agenda = Pending.agenda,
         program'.releases = [program.releases EXCEPT ![program.pending] = v]
  PROVE  /\ program'.releases \in Seq(Release)
         /\ Len(program'.releases) = Len(program.releases)
         /\ program'.releases[program.pending] = v
         /\ KeepsReleases
<1>1. program.releases \in Seq(Release) /\ Len(program.releases) \in Nat
  BY LenProperties DEF Program
<1>2. /\ program'.releases \in Seq(Release)
      /\ Len(program'.releases) = Len(program.releases)
      /\ \A r \in 1 .. Len(program.releases) :
           program'.releases[r] = IF r = program.pending THEN v ELSE program.releases[r]
  BY <1>1, ExceptSeq
<1>. QED
  BY <1>1, <1>2 DEF KeepsReleases, Pending

LEMMA PendingType ==
  ASSUME program \in Program, program.pending \in 1 .. Len(program.releases)
  PROVE  Pending \in Release
BY ElementOfSeq DEF Program, Pending

LEMMA TakeOverEffect ==
  ASSUME program \in Program, program.pending \in 1 .. Len(program.releases),
         NEW o \in Operation, TakeOver(o)
  PROVE  /\ program' \in Program /\ KeepsReleases
         /\ program'.version = program.version + 1
         /\ program'.served = program.served /\ program'.pending = program.pending
         /\ Len(program'.releases) = Len(program.releases)
         /\ LET r == program'.releases[program.pending] IN
            /\ r.lifecycle = Pending.lifecycle /\ r.parent = Pending.parent
            /\ r.rollback = Pending.rollback
            /\ r.owner = o /\ r.live = TRUE
<1>. DEFINE v == [Pending EXCEPT !.owner = o, !.live = TRUE]
            releases == [program.releases EXCEPT ![program.pending] = v]
<1>1. Pending \in Release
  BY PendingType
<1>2. /\ v \in Release /\ v.agenda = Pending.agenda
      /\ v.lifecycle = Pending.lifecycle /\ v.parent = Pending.parent
      /\ v.rollback = Pending.rollback /\ v.owner = o /\ v.live = TRUE
  BY <1>1 DEF Release
<1>3. program' = [program EXCEPT !.version = @ + 1, !.releases = releases]
  BY DEF TakeOver, Pending, Program
<1>. HIDE DEF v, releases
<1>4. /\ program'.version = program.version + 1 /\ program'.releases = releases
      /\ program'.served = program.served /\ program'.pending = program.pending
      /\ program'.invalidated = program.invalidated
      /\ program' = [version |-> program'.version, served |-> program'.served,
                     pending |-> program'.pending, releases |-> program'.releases,
                     invalidated |-> program'.invalidated]
  BY <1>3 DEF Program
<1>5. /\ program'.releases \in Seq(Release)
      /\ Len(program'.releases) = Len(program.releases)
      /\ program'.releases[program.pending] = v
      /\ KeepsReleases
  BY <1>2, <1>4, PendingWritten DEF releases
<1>6. program' \in Program
  BY <1>4, <1>5 DEF Program
<1>. QED
  BY <1>2, <1>4, <1>5, <1>6

(* A rewrite of the whole state. *)
LEMMA ProgramFields ==
  ASSUME program \in Program, NEW served \in Nat, NEW pending \in Nat,
         NEW releases, NEW invalidated \in SUBSET Nat,
         program' = [program EXCEPT !.version = @ + 1, !.served = served, !.pending = pending,
                                    !.releases = releases, !.invalidated = invalidated]
  PROVE  /\ program'.version = program.version + 1
         /\ program'.served = served /\ program'.pending = pending
         /\ program'.releases = releases
         /\ releases \in Seq(Release) => program' \in Program
<1>1. /\ program'.version = program.version + 1
      /\ program'.served = served /\ program'.pending = pending
      /\ program'.releases = releases /\ program'.invalidated = invalidated
      /\ program' = [version |-> program'.version, served |-> program'.served,
                     pending |-> program'.pending, releases |-> program'.releases,
                     invalidated |-> program'.invalidated]
  BY DEF Program
<1>2. ASSUME releases \in Seq(Release) PROVE program' \in Program
  BY <1>1, <1>2 DEF Program
<1>. QED
  BY <1>1, <1>2

LEMMA SettledType ==
  ASSUME NEW r \in Release, NEW lifecycle \in {"served", "failed"}
  PROVE  LET t == Settled(r, lifecycle) IN
         /\ t \in Release /\ t.agenda = r.agenda /\ t.lifecycle = lifecycle
         /\ t.parent = r.parent /\ t.rollback = r.rollback
BY DEF Settled, Release

LEMMA SupersededEffect ==
  ASSUME program \in Program, program.pending <= Len(program.releases)
  PROVE  /\ Superseded \in Seq(Release)
         /\ Len(Superseded) = Len(program.releases)
         /\ \A r \in 1 .. Len(program.releases) :
              /\ Superseded[r].agenda = program.releases[r].agenda
              /\ r = program.pending => Superseded[r].lifecycle = "failed"
              /\ r # program.pending => Superseded[r] = program.releases[r]
<1>1. program.releases \in Seq(Release) /\ Len(program.releases) \in Nat /\ program.pending \in Nat
  BY LenProperties DEF Program
<1>2. CASE program.pending = 0
  BY <1>1, <1>2 DEF Superseded
<1>3. CASE program.pending # 0
  <2>. DEFINE old == program.releases[program.pending]
              v == [old EXCEPT !.lifecycle = "failed", !.owner = NoOperation, !.live = FALSE]
  <2>1. program.pending \in 1 .. Len(program.releases)
    BY <1>1, <1>3
  <2>2. old \in Release
    BY <1>1, <2>1, ElementOfSeq
  <2>3. v \in Release /\ v.agenda = old.agenda /\ v.lifecycle = "failed"
    BY <2>2 DEF Release
  <2>4. Superseded = [program.releases EXCEPT ![program.pending] = v]
    BY <1>3 DEF Superseded
  <2>. HIDE DEF v
  <2>. QED
    BY <1>1, <2>1, <2>3, <2>4, ExceptSeq
<1>. QED
  BY <1>2, <1>3

LEMMA NewReservationEffect ==
  ASSUME TypeOK, program.pending <= Len(program.releases), NEW o \in Operation,
         NewReservation(o)
  PROVE  LET n == Len(program.releases) + 1
             r == program'.releases[n]
         IN
         /\ program' \in Program /\ KeepsReleases
         /\ program'.version = program.version + 1
         /\ program'.served = program.served /\ program'.pending = n
         /\ Len(program'.releases) = n
         /\ program.pending # 0 => program'.releases[program.pending].lifecycle = "failed"
         /\ r.agenda = job[o].number /\ r.lifecycle = "pending"
         /\ r.parent = program.served /\ ~r.rollback
         /\ r.owner = o /\ r.live = TRUE
<1>. DEFINE n == Len(program.releases) + 1
            v == NewRelease(o)
            releases == Append(Superseded, v)
<1>1. /\ program \in Program /\ program.releases \in Seq(Release)
      /\ Len(program.releases) \in Nat /\ program.pending \in Nat /\ program.served \in Nat
      /\ program.invalidated \in SUBSET Nat /\ job[o] \in Job
  BY LenProperties DEF TypeOK, Program
<1>2. /\ v \in Release /\ v.agenda = job[o].number /\ v.lifecycle = "pending"
      /\ v.parent = program.served /\ ~v.rollback /\ v.owner = o /\ v.live = TRUE
  BY <1>1 DEF NewRelease, Release, Job
<1>3. /\ Superseded \in Seq(Release)
      /\ Len(Superseded) = Len(program.releases)
      /\ \A r \in 1 .. Len(program.releases) :
           /\ Superseded[r].agenda = program.releases[r].agenda
           /\ r = program.pending => Superseded[r].lifecycle = "failed"
           /\ r # program.pending => Superseded[r] = program.releases[r]
  BY <1>1, SupersededEffect
<1>. HIDE DEF v
<1>4. /\ releases \in Seq(Release) /\ Len(releases) = n
      /\ \A r \in 1 .. Len(program.releases) : releases[r] = Superseded[r]
      /\ releases[n] = v
  BY <1>2, <1>3, AppendProperties
<1>5. program' = [program EXCEPT !.version = @ + 1, !.served = program.served, !.pending = n,
                                 !.releases = releases, !.invalidated = program.invalidated]
  BY <1>1 DEF NewReservation, Program, v
<1>a. n \in Nat
  BY <1>1
<1>. HIDE DEF releases, n
<1>6. /\ program' \in Program /\ program'.releases = releases
      /\ program'.version = program.version + 1
      /\ program'.served = program.served /\ program'.pending = n
  <2>1. /\ program'.version = program.version + 1
        /\ program'.served = program.served /\ program'.pending = n
        /\ program'.releases = releases
        /\ releases \in Seq(Release) => program' \in Program
    <3>1. program \in Program /\ program.served \in Nat /\ program.invalidated \in SUBSET Nat
      BY <1>1
    <3>. QED
      BY <3>1, <1>a, <1>5, ProgramFields
  <2>. QED
    BY <2>1, <1>4
<1>. USE DEF n
<1>7. KeepsReleases
  <2>1. ASSUME NEW r \in 1 .. Len(program.releases)
        PROVE  /\ program'.releases[r].agenda = program.releases[r].agenda
               /\ r # program.pending => program'.releases[r] = program.releases[r]
    <3>1. program'.releases[r] = Superseded[r]
      BY <1>4, <1>6
    <3>. QED
      BY <1>3, <3>1
  <2>2. Len(program.releases) <= Len(program'.releases)
    BY <1>1, <1>4, <1>6
  <2>. QED
    BY <2>1, <2>2 DEF KeepsReleases
<1>8. program.pending # 0 => program'.releases[program.pending].lifecycle = "failed"
  BY <1>1, <1>3, <1>4, <1>6
<1>. QED
  BY <1>2, <1>4, <1>6, <1>7, <1>8

LEMMA InvalidatedType ==
  ASSUME NEW p, NEW r \in Nat
  PROVE  Invalidated(p, r) \in SUBSET Nat
BY DEF Invalidated

LEMMA CompleteEffect ==
  ASSUME TypeOK, program.pending \in 1 .. Len(program.releases), NEW o \in Operation,
         Complete(o), Owns(o) /\ Pending.live
  PROVE  /\ program' \in Program /\ KeepsReleases
         /\ program'.version = program.version + 1
         /\ program'.served = program.pending /\ program'.pending = 0
         /\ Len(program'.releases) = Len(program.releases)
         /\ LET r == program'.releases[program.pending] IN
            r.lifecycle = "served" /\ r.rollback = Pending.rollback
<1>. DEFINE v == Settled(Pending, "served")
            releases == [program.releases EXCEPT ![program.pending] = v]
            invalidated == program.invalidated \cup Invalidated(program, program.pending)
<1>1. program \in Program /\ program.pending \in Nat /\ Pending \in Release
  BY PendingType DEF TypeOK, Program
<1>2. invalidated \in SUBSET Nat
  BY <1>1, InvalidatedType DEF Program
<1>3. /\ v \in Release /\ v.agenda = Pending.agenda
      /\ v.lifecycle = "served" /\ v.rollback = Pending.rollback
  BY <1>1, SettledType
<1>4. program' = [program EXCEPT !.version = @ + 1, !.served = program.pending, !.pending = 0,
                                 !.releases = releases, !.invalidated = invalidated]
  BY <1>1 DEF Complete, Pending, Program
<1>. HIDE DEF v, invalidated, releases
<1>5. /\ program'.version = program.version + 1 /\ program'.releases = releases
      /\ program'.served = program.pending /\ program'.pending = 0
      /\ releases \in Seq(Release) => program' \in Program
  BY <1>1, <1>2, <1>4, ProgramFields
<1>6. /\ releases \in Seq(Release)
      /\ Len(program'.releases) = Len(program.releases)
      /\ program'.releases[program.pending] = v
      /\ KeepsReleases
  BY <1>1, <1>3, <1>5, PendingWritten DEF releases
<1>. QED
  BY <1>3, <1>5, <1>6

LEMMA FailEffect ==
  ASSUME TypeOK, program.pending \in 1 .. Len(program.releases), NEW o \in Operation,
         FailRebuild(o), Owns(o)
  PROVE  /\ program' \in Program /\ KeepsReleases
         /\ program'.version = program.version + 1
         /\ program'.served = program.served /\ program'.pending = 0
         /\ Len(program'.releases) = Len(program.releases)
         /\ program'.releases[program.pending].lifecycle = "failed"
<1>. DEFINE v == Settled(Pending, "failed")
            releases == [program.releases EXCEPT ![program.pending] = v]
<1>1. /\ program \in Program /\ program.pending \in Nat /\ Pending \in Release
      /\ program.served \in Nat /\ program.invalidated \in SUBSET Nat
  BY PendingType DEF TypeOK, Program
<1>2. /\ v \in Release /\ v.agenda = Pending.agenda /\ v.lifecycle = "failed"
  BY <1>1, SettledType
<1>3. program' = [program EXCEPT !.version = @ + 1, !.served = program.served, !.pending = 0,
                                 !.releases = releases, !.invalidated = program.invalidated]
  BY <1>1 DEF FailRebuild, Pending, Program
<1>. HIDE DEF v, releases
<1>4. /\ program'.version = program.version + 1 /\ program'.releases = releases
      /\ program'.served = program.served /\ program'.pending = 0
      /\ releases \in Seq(Release) => program' \in Program
  BY <1>1, <1>3, ProgramFields
<1>5. /\ releases \in Seq(Release)
      /\ Len(program'.releases) = Len(program.releases)
      /\ program'.releases[program.pending] = v
      /\ KeepsReleases
  BY <1>1, <1>2, <1>4, PendingWritten DEF releases
<1>. QED
  BY <1>2, <1>4, <1>5

LEMMA RollbackEffect ==
  ASSUME TypeOK, Rollback
  PROVE  LET n == Len(program.releases) + 1
             r == program'.releases[n]
         IN
         /\ program' \in Program /\ KeepsReleases
         /\ program'.served = n /\ program'.pending = program.pending
         /\ Len(program'.releases) = n
         /\ r.lifecycle = "served" /\ r.rollback = TRUE
         /\ \E t \in 1 .. Len(program.releases) : r.agenda = program.releases[t].agenda
<1>1. /\ program \in Program /\ program.releases \in Seq(Release)
      /\ Len(program.releases) \in Nat /\ program.pending \in Nat /\ program.served \in Nat
      /\ program.invalidated \in SUBSET Nat
  BY LenProperties DEF TypeOK, Program
<1>2. PICK t \in 1 .. Len(program.releases) :
        /\ program.releases[t].lifecycle = "served"
        /\ program' = [RolledBack(t) EXCEPT
                         !.invalidated = @ \cup Invalidated(RolledBack(t), RolledBack(t).served)]
  BY DEF Rollback
<1>. DEFINE n == Len(program.releases) + 1
            v == [program.releases[t] EXCEPT !.parent = program.served, !.rollback = TRUE]
            releases == Append(program.releases, v)
            next == RolledBack(t)
            invalidated == program.invalidated \cup Invalidated(next, next.served)
<1>3. program.releases[t] \in Release
  BY <1>1, ElementOfSeq
<1>4. /\ v \in Release /\ v.agenda = program.releases[t].agenda
      /\ v.lifecycle = "served" /\ v.rollback = TRUE
  BY <1>1, <1>2, <1>3 DEF Release
<1>. HIDE DEF v
<1>5. /\ releases \in Seq(Release) /\ Len(releases) = n
      /\ \A r \in 1 .. Len(program.releases) : releases[r] = program.releases[r]
      /\ releases[n] = v
  BY <1>1, <1>4, AppendProperties
<1>6. next = [program EXCEPT !.version = @ + 1, !.served = n, !.releases = releases]
  BY DEF RolledBack, v
<1>7. n \in Nat /\ next.served = n /\ next.invalidated = program.invalidated
  BY <1>1, <1>6 DEF Program
<1>8. invalidated \in SUBSET Nat
  BY <1>1, <1>7, InvalidatedType
<1>. HIDE DEF next, n, releases
<1>9. program' = [next EXCEPT !.invalidated = invalidated]
  BY <1>2, <1>7 DEF next
<1>. HIDE DEF invalidated
<1>10. program' = [program EXCEPT !.version = @ + 1, !.served = n, !.pending = program.pending,
                                  !.releases = releases, !.invalidated = invalidated]
  BY <1>1, <1>6, <1>9 DEF Program
<1>11. /\ program'.served = n /\ program'.pending = program.pending
       /\ program'.releases = releases
       /\ releases \in Seq(Release) => program' \in Program
  <2>1. program \in Program /\ program.pending \in Nat
    BY <1>1
  <2>. QED
    BY <2>1, <1>7, <1>8, <1>10, ProgramFields
<1>12. KeepsReleases
  BY <1>1, <1>5, <1>11 DEF KeepsReleases, n
<1>. QED
  BY <1>2, <1>4, <1>5, <1>11, <1>12 DEF n

LEMMA ExpireEffect ==
  ASSUME TypeOK, program.pending \in 1 .. Len(program.releases), ReservationExpires
  PROVE  /\ program' \in Program /\ KeepsReleases
         /\ program'.version = program.version
         /\ program'.served = program.served /\ program'.pending = program.pending
         /\ Len(program'.releases) = Len(program.releases)
         /\ LET r == program'.releases[program.pending] IN
            /\ r.lifecycle = Pending.lifecycle /\ r.parent = Pending.parent
            /\ r.rollback = Pending.rollback
            /\ r.owner = Pending.owner /\ r.live = FALSE
<1>. DEFINE v == [Pending EXCEPT !.live = FALSE]
            releases == [program.releases EXCEPT ![program.pending] = v]
<1>1. program \in Program /\ Pending \in Release
  BY PendingType DEF TypeOK
<1>2. /\ v \in Release /\ v.agenda = Pending.agenda
      /\ v.lifecycle = Pending.lifecycle /\ v.parent = Pending.parent
      /\ v.rollback = Pending.rollback /\ v.owner = Pending.owner /\ v.live = FALSE
  BY <1>1 DEF Release
<1>3. program' = [program EXCEPT !.releases = releases]
  BY <1>1 DEF ReservationExpires, Pending, Program
<1>. HIDE DEF v, releases
<1>4. /\ program'.version = program.version /\ program'.releases = releases
      /\ program'.served = program.served /\ program'.pending = program.pending
      /\ program'.invalidated = program.invalidated
      /\ program' = [version |-> program'.version, served |-> program'.served,
                     pending |-> program'.pending, releases |-> program'.releases,
                     invalidated |-> program'.invalidated]
  BY <1>1, <1>3 DEF Program
<1>5. /\ program'.releases \in Seq(Release)
      /\ Len(program'.releases) = Len(program.releases)
      /\ program'.releases[program.pending] = v
      /\ KeepsReleases
  BY <1>1, <1>2, <1>4, PendingWritten DEF releases
<1>6. program' \in Program
  BY <1>1, <1>4, <1>5 DEF Program
<1>. QED
  BY <1>2, <1>4, <1>5, <1>6

-----------------------------------------------------------------------------
(* The actions that write the program.                                       *)

(* Swap writes what Load found, so a change is made of an aggregate it suits. *)
EditingPC == {"renewSwap", "swap"}

ChangeFits == \A o \in Operation : job[o].pc \in EditingPC => Changes(o, job[o].copy)

ReservedPC == {"renewComplete", "complete"}

PendingExists ==
  /\ program.served <= Len(program.releases)
  /\ program.pending <= Len(program.releases)
  /\ \A o \in Operation : job[o].pc \in ReservedPC \cup {"failing"} => job[o].release # 0

TypeInv == TypeOK /\ ChangeFits /\ PendingExists

LEMMA PendingIndex ==
  ASSUME TypeInv, program.pending # 0
  PROVE  program.pending \in 1 .. Len(program.releases)
BY LenProperties DEF TypeInv, TypeOK, PendingExists, Program

LEMMA OwnsPending ==
  ASSUME TypeInv, NEW o \in Operation, job[o].pc \in ReservedPC \cup {"failing"}, Owns(o)
  PROVE  program.pending # 0 /\ program.pending \in 1 .. Len(program.releases)
BY PendingIndex DEF TypeInv, PendingExists, Owns

(* The call has its release. *)
TakesRelease(o) ==
  /\ Remembers(o)
  /\ job'[o].pc = "renewComplete"
  /\ job'[o].release = program'.pending
  /\ job'[o].version = program'.version
  /\ job'[o].reason = job[o].reason

LEMMA ReservedEffect ==
  ASSUME TypeOK, program' \in Program, NEW o \in Operation, Reserved(o)
  PROVE  job' \in [Operation -> Job] /\ OthersKeep(o) /\ TakesRelease(o)
<1>. DEFINE v == [job[o] EXCEPT !.pc = "renewComplete", !.release = program'.pending,
                                !.version = program'.version]
<1>1. /\ job[o] \in Job /\ job \in [Operation -> Job]
      /\ program'.pending \in Nat /\ program'.version \in Nat
  BY DEF TypeOK, Program
<1>2. v \in Job
  BY <1>1, ActiveKnown DEF Job
<1>3. /\ v.pc = "renewComplete" /\ v.release = program'.pending /\ v.version = program'.version
      /\ v.kind = job[o].kind /\ v.expected = job[o].expected /\ v.number = job[o].number
      /\ v.reason = job[o].reason
  BY <1>1 DEF Job
<1>4. job' = [job EXCEPT ![o] = v]
  BY <1>1 DEF Reserved
<1>. HIDE DEF v
<1>. QED
  BY <1>1, <1>2, <1>3, <1>4, SetJob DEF TakesRelease, Remembers

LEMMA ReserveEffect ==
  ASSUME TypeInv, NEW o \in Operation, Reserve(o)
  PROVE  /\ job' \in [Operation -> Job] /\ OthersKeep(o)
         /\ agenda' = agenda /\ program' \in Program
         /\ job[o].pc = "reserve"
         /\ \/ LiveReservation /\ program' = program /\ Fails(o, "reservation")
            \/ /\ ~LiveReservation /\ program' = program /\ Fails(o, "parent")
               /\ job[o].parent # program.served \/ job[o].version # program.version
            \/ /\ ~LiveReservation /\ program.pending # 0
               /\ TakeOver(o) /\ TakesRelease(o)
            \/ /\ ~LiveReservation /\ job[o].parent = program.served
               /\ NewReservation(o) /\ TakesRelease(o)
<1>1. /\ TypeOK /\ program \in Program /\ program.pending <= Len(program.releases)
      /\ agenda' = agenda /\ job[o].pc = "reserve"
      /\ "reservation" \in Reason /\ "parent" \in Reason
  BY DEF TypeInv, TypeOK, PendingExists, Reserve, At, Reason
<1>2. CASE LiveReservation /\ Throw(o, "reservation") /\ program' = program
  BY <1>1, <1>2, ThrowEffect
<1>3. CASE ~LiveReservation /\ program.pending # 0 /\ TakeOver(o) /\ Reserved(o)
  <2>1. program' \in Program
    BY <1>1, <1>3, PendingIndex, TakeOverEffect
  <2>. QED
    BY <1>1, <1>3, <2>1, ReservedEffect
<1>4. CASE ~LiveReservation /\ job[o].parent = program.served /\ NewReservation(o) /\ Reserved(o)
  <2>1. program' \in Program
    BY <1>1, <1>4, NewReservationEffect
  <2>. QED
    BY <1>1, <1>4, <2>1, ReservedEffect
<1>5. CASE /\ ~LiveReservation /\ Throw(o, "parent") /\ program' = program
           /\ job[o].parent # program.served \/ job[o].version # program.version
  BY <1>1, <1>5, ThrowEffect
<1>. QED
  BY <1>2, <1>3, <1>4, <1>5 DEF Reserve

LEMMA CompleteStepEffect ==
  ASSUME TypeInv, NEW o \in Operation, Complete(o)
  PROVE  /\ job' \in [Operation -> Job] /\ OthersKeep(o)
         /\ agenda' = agenda /\ program' \in Program
         /\ job[o].pc = "complete"
         /\ \/ /\ Owns(o) /\ Pending.live /\ program.pending \in 1 .. Len(program.releases)
               /\ Moves(o, "renewServed")
            \/ /\ ~(Owns(o) /\ Pending.live)
               /\ program' = program /\ Fails(o, "complete")
<1>1. /\ TypeOK /\ program \in Program /\ job[o].pc = "complete" /\ agenda' = agenda
      /\ "complete" \in Reason /\ "renewServed" \in ActivePC
  BY ActiveKnown DEF TypeInv, TypeOK, Complete, At, Reason
<1>2. CASE Owns(o) /\ Pending.live
  <2>1. program.pending \in 1 .. Len(program.releases)
    BY <1>1, <1>2, OwnsPending DEF ReservedPC
  <2>2. program' \in Program
    BY <1>1, <1>2, <2>1, CompleteEffect
  <2>3. Step(o, "renewServed")
    BY <1>2 DEF Complete
  <2>. QED
    BY <1>1, <1>2, <2>1, <2>2, <2>3, StepEffect
<1>3. CASE ~(Owns(o) /\ Pending.live)
  <2>1. Throw(o, "complete") /\ program' = program
    BY <1>3 DEF Complete
  <2>. QED
    BY <1>1, <1>3, <2>1, ThrowEffect
<1>. QED
  BY <1>2, <1>3

LEMMA FailRebuildEffect ==
  ASSUME TypeInv, NEW o \in Operation, FailRebuild(o)
  PROVE  /\ job' \in [Operation -> Job] /\ OthersKeep(o)
         /\ agenda' = agenda /\ program' \in Program
         /\ job[o].pc = "failing" /\ Remembers(o)
         /\ job'[o].pc = "failed" /\ job'[o].reason = job[o].reason
         /\ \/ Owns(o) /\ program.pending \in 1 .. Len(program.releases)
            \/ ~Owns(o) /\ program' = program
<1>1. /\ TypeOK /\ program \in Program /\ job[o].pc = "failing" /\ agenda' = agenda
      /\ job[o].reason \in Reason /\ End(o, "failed", job[o].reason)
  BY DEF TypeInv, TypeOK, FailRebuild, At, Job
<1>2. /\ job' \in [Operation -> Job] /\ OthersKeep(o) /\ Remembers(o)
      /\ job'[o].pc = "failed" /\ job'[o].reason = job[o].reason
  BY <1>1, EndEffect
<1>3. CASE Owns(o)
  <2>1. program.pending \in 1 .. Len(program.releases)
    BY <1>1, <1>3, OwnsPending
  <2>2. program' \in Program
    BY <1>1, <1>3, <2>1, FailEffect
  <2>. QED
    BY <1>1, <1>2, <1>3, <2>1, <2>2
<1>4. CASE ~Owns(o)
  BY <1>1, <1>2, <1>4 DEF FailRebuild
<1>. QED
  BY <1>3, <1>4

-----------------------------------------------------------------------------
(* Type correctness.                                                         *)

OperationStep(o) == MutateStep(o) \/ HandOffStep(o) \/ Break(o)

LEMMA StepEnds ==
  ASSUME NEW o \in Operation, NEW pc, NEW reason, Step(o, pc) \/ End(o, pc, reason) \/ Throw(o, reason)
  PROVE  UNCHANGED leaseVars \/ Yield
BY DEF Step, End, Throw

LEMMA LeaseMoves ==
  ASSUME [Next]_vars
  PROVE  UNCHANGED leaseVars \/ Yield \/ \E o \in Operation : Grant(o)
<1>1. ASSUME NEW o \in Operation, MutateStep(o)
      PROVE  UNCHANGED leaseVars \/ Yield \/ Grant(o)
  <2>1. CASE Begin(o) \/ Admit(o)
    BY <2>1 DEF Begin, Admit
  <2>2. CASE Renew(o) \/ Load(o) \/ Swap(o) \/ Return(o)
    BY <2>2, StepEnds DEF Renew, Load, Swap, Return
  <2>. QED
    BY <1>1, <2>1, <2>2 DEF MutateStep
<1>2. ASSUME NEW o \in Operation, HandOffStep(o)
      PROVE  UNCHANGED leaseVars \/ Yield
  BY <1>2, StepEnds DEF HandOffStep, Check, ReadProgram, Latest, Reserve, Reserved, Complete,
                        FailRebuild
<1>3. ASSUME NEW o \in Operation, Break(o)
      PROVE  UNCHANGED leaseVars \/ Yield
  BY <1>3, StepEnds DEF Break
<1>4. CASE Rollback \/ LeaseLapses \/ ReservationExpires
  BY <1>4 DEF Rollback, LeaseLapses, ReservationExpires
<1>5. CASE UNCHANGED vars
  BY <1>5 DEF vars
<1>. QED
  BY <1>1, <1>2, <1>3, <1>4, <1>5 DEF Next

LEMMA CountersMove ==
  ASSUME TypeOK, [Next]_vars
  PROVE  /\ lapses' \in 0 .. MaxLapses /\ faults' \in 0 .. MaxFaults
         /\ rollbacks' \in 0 .. MaxRollbacks
         /\ lapses <= lapses' /\ faults <= faults' /\ rollbacks <= rollbacks'
<1>0. lapses \in 0 .. MaxLapses /\ faults \in 0 .. MaxFaults /\ rollbacks \in 0 .. MaxRollbacks
  BY DEF TypeOK
<1>1. ASSUME NEW o \in Operation, MutateStep(o)
      PROVE  UNCHANGED <<lapses, faults, rollbacks>>
  BY <1>1 DEF MutateStep, Begin, Admit, Renew, Load, Swap, Return
<1>2. ASSUME NEW o \in Operation, HandOffStep(o)
      PROVE  UNCHANGED <<lapses, faults, rollbacks>>
  BY <1>2 DEF HandOffStep, Check, ReadProgram, Latest, Reserve, Complete, FailRebuild
<1>3. ASSUME NEW o \in Operation, Break(o)
      PROVE  faults < MaxFaults /\ faults' = faults + 1 /\ UNCHANGED <<lapses, rollbacks>>
  BY <1>3 DEF Break
<1>4. CASE Rollback
  BY <1>0, <1>4, PublicationAssumption DEF Rollback
<1>5. CASE LeaseLapses \/ ReservationExpires
  BY <1>0, <1>5, PublicationAssumption DEF LeaseLapses, ReservationExpires, Lapse
<1>6. CASE UNCHANGED vars
  BY <1>0, <1>6 DEF vars
<1>. QED
  BY <1>0, <1>1, <1>2, <1>3, <1>4, <1>5, <1>6, PublicationAssumption DEF Next

LEMMA OperationType ==
  ASSUME TypeInv, NEW o \in Operation, OperationStep(o)
  PROVE  /\ job' \in [Operation -> Job] /\ OthersKeep(o)
         /\ agenda' \in Agenda /\ program' \in Program
<1>0. TypeOK /\ agenda \in Agenda /\ program \in Program
  BY DEF TypeInv, TypeOK
<1>1. CASE Begin(o) \/ Admit(o) \/ Renew(o) \/ Load(o) \/ Return(o) \/ Check(o) \/ Latest(o) \/ Break(o)
  BY <1>0, <1>1, BeginEffect, AdmitEffect, RenewEffect, LoadEffect, ReturnEffect, CheckEffect,
     LatestEffect, BreakEffect DEF Quiet
<1>2. CASE Swap(o)
  <2>1. Changes(o, job[o].copy)
    BY <1>2 DEF TypeInv, ChangeFits, EditingPC, Swap, At
  <2>. QED
    BY <1>0, <1>2, <2>1, SwapEffect
<1>3. CASE ReadProgram(o)
  <2>1. program.served <= Len(program.releases)
    BY DEF TypeInv, PendingExists
  <2>. QED
    BY <1>0, <1>3, <2>1, ReadProgramEffect DEF Quiet
<1>4. CASE Reserve(o) \/ Complete(o) \/ FailRebuild(o)
  BY <1>0, <1>4, ReserveEffect, CompleteStepEffect, FailRebuildEffect
<1>. QED
  BY <1>1, <1>2, <1>3, <1>4 DEF OperationStep, MutateStep, HandOffStep

(* What a call that edits next is writing. *)
LEMMA EditingStep ==
  ASSUME TypeInv, NEW o \in Operation, OperationStep(o), job'[o].pc \in EditingPC
  PROVE  /\ agenda' = agenda
         /\ \/ job[o].pc \in EditingPC /\ Moves(o, "swap")
            \/ /\ Changes(o, agenda) /\ job'[o].copy = agenda
               /\ Remembers(o) /\ job[o].expected = Draft(agenda)
<1>0. TypeOK
  BY DEF TypeInv
<1>1. CASE Begin(o) \/ Admit(o) \/ Return(o) \/ Check(o) \/ Latest(o) \/ Break(o)
  BY <1>0, <1>1, BeginEffect, AdmitEffect, ReturnEffect, CheckEffect,
     LatestEffect, BreakEffect DEF EditingPC, Moves, Fails
<1>2. CASE Swap(o)
  <2>1. Changes(o, job[o].copy)
    BY <1>2 DEF TypeInv, ChangeFits, EditingPC, Swap, At
  <2>. QED
    BY <1>0, <1>2, <2>1, SwapEffect DEF EditingPC, Fails
<1>3. CASE ReadProgram(o)
  <2>1. program.served <= Len(program.releases)
    BY DEF TypeInv, PendingExists
  <2>. QED
    BY <1>0, <1>3, <2>1, ReadProgramEffect DEF EditingPC, Moves, Fails
<1>4. CASE Reserve(o) \/ Complete(o) \/ FailRebuild(o)
  BY <1>4, ReserveEffect, CompleteStepEffect, FailRebuildEffect
  DEF EditingPC, Moves, Fails, TakesRelease
<1>5. CASE Load(o)
  BY <1>0, <1>5, LoadEffect DEF EditingPC, Moves, Fails, Quiet
<1>6. CASE Renew(o)
  <2>1. CASE Moves(o, NextPC[job[o].pc]) /\ job[o].pc \in DOMAIN NextPC
    <3>1. job[o].pc = "renewSwap"
      BY <2>1, ActiveKnown DEF EditingPC, Moves
    <3>. QED
      BY <1>0, <1>6, <2>1, <3>1, RenewEffect, ActiveKnown DEF EditingPC, Quiet
  <2>. QED
    BY <1>0, <1>6, <2>1, RenewEffect DEF EditingPC, Moves, Fails
<1>. QED
  BY <1>1, <1>2, <1>3, <1>4, <1>5, <1>6 DEF OperationStep, MutateStep, HandOffStep

-----------------------------------------------------------------------------
(* What a step does to the program.                                          *)

(* The pending release changes its owner or its lease only. *)
Retouches ==
  /\ program.pending \in 1 .. Len(program.releases)
  /\ program'.served = program.served /\ program'.pending = program.pending
  /\ Len(program'.releases) = Len(program.releases)
  /\ LET r == program'.releases[program.pending] IN
     /\ r.lifecycle = Pending.lifecycle /\ r.parent = Pending.parent
     /\ r.rollback = Pending.rollback

Reserves(o) ==
  LET n == Len(program.releases) + 1
      r == program'.releases[n]
  IN /\ job[o].pc = "reserve" /\ job[o].parent = program.served
     /\ program'.served = program.served /\ program'.pending = n
     /\ Len(program'.releases) = n
     /\ program.pending # 0 => program'.releases[program.pending].lifecycle = "failed"
     /\ r.agenda = job[o].number /\ r.lifecycle = "pending"
     /\ r.parent = program.served /\ ~r.rollback

Serves ==
  /\ program.pending \in 1 .. Len(program.releases)
  /\ program'.served = program.pending /\ program'.pending = 0
  /\ Len(program'.releases) = Len(program.releases)
  /\ program'.releases[program.pending].lifecycle = "served"

Drops ==
  /\ program.pending \in 1 .. Len(program.releases)
  /\ program'.served = program.served /\ program'.pending = 0
  /\ Len(program'.releases) = Len(program.releases)
  /\ program'.releases[program.pending].lifecycle = "failed"

RollsBack ==
  LET n == Len(program.releases) + 1
      r == program'.releases[n]
  IN /\ program.served # 0 /\ program.pending = 0
     /\ program'.served = n /\ program'.pending = 0
     /\ Len(program'.releases) = n
     /\ r.lifecycle = "served" /\ r.rollback = TRUE
     /\ \E t \in 1 .. Len(program.releases) : r.agenda = program.releases[t].agenda

LEMMA KeepsSame ==
  ASSUME program \in Program, program' = program
  PROVE  KeepsReleases
BY LenProperties DEF KeepsReleases, Program

LEMMA HandOffMovesProgram ==
  ASSUME TypeInv, NEW o \in Operation, Reserve(o) \/ Complete(o) \/ FailRebuild(o)
  PROVE  /\ program' \in Program /\ KeepsReleases
         /\ program' = program \/ Retouches \/ Reserves(o) \/ Serves \/ Drops
<1>1. TypeOK /\ program \in Program /\ program.pending <= Len(program.releases)
  BY DEF TypeInv, TypeOK, PendingExists
<1>2. CASE program' = program
  BY <1>1, <1>2, KeepsSame
<1>3. CASE Reserve(o) /\ program' # program
  <2>1. CASE ~LiveReservation /\ program.pending # 0 /\ TakeOver(o)
    <3>1. program.pending \in 1 .. Len(program.releases)
      BY <2>1, PendingIndex
    <3>. QED
      BY <1>1, <2>1, <3>1, TakeOverEffect DEF Retouches
  <2>2. CASE job[o].parent = program.served /\ NewReservation(o)
    BY <1>1, <1>3, <2>2, NewReservationEffect, ReserveEffect DEF Reserves
  <2>. QED
    BY <1>3, <2>1, <2>2, ReserveEffect
<1>4. CASE Complete(o) /\ program' # program
  <2>1. Owns(o) /\ Pending.live /\ program.pending \in 1 .. Len(program.releases)
    BY <1>4, CompleteStepEffect
  <2>. QED
    BY <1>1, <1>4, <2>1, CompleteEffect DEF Serves
<1>5. CASE FailRebuild(o) /\ program' # program
  <2>1. Owns(o) /\ program.pending \in 1 .. Len(program.releases)
    BY <1>5, FailRebuildEffect
  <2>. QED
    BY <1>1, <1>5, <2>1, FailEffect DEF Drops
<1>. QED
  BY <1>2, <1>3, <1>4, <1>5

LEMMA OthersLeaveProgram ==
  ASSUME NEW o \in Operation, OperationStep(o),
         ~(Reserve(o) \/ Complete(o) \/ FailRebuild(o))
  PROVE  program' = program
BY DEF OperationStep, MutateStep, HandOffStep, Begin, Admit, Renew, Load, Swap, Return,
       Check, ReadProgram, Latest, Break

LEMMA ProgramMoves ==
  ASSUME TypeInv, [Next]_vars
  PROVE  /\ program' \in Program /\ KeepsReleases
         /\ \/ program' = program
            \/ Retouches
            \/ \E o \in Operation : OperationStep(o) /\ Reserves(o)
            \/ Serves
            \/ Drops
            \/ RollsBack
<1>1. TypeOK /\ program \in Program
  BY DEF TypeInv, TypeOK
<1>2. CASE program' = program
  BY <1>1, <1>2, KeepsSame
<1>3. ASSUME NEW o \in Operation, OperationStep(o), program' # program
      PROVE  /\ program' \in Program /\ KeepsReleases
             /\ Retouches \/ Reserves(o) \/ Serves \/ Drops
  BY <1>3, HandOffMovesProgram, OthersLeaveProgram
<1>4. CASE Rollback
  <2>1. program.served # 0 /\ program.pending = 0
    BY <1>4 DEF Rollback
  <2>. QED
    BY <1>1, <1>4, <2>1, RollbackEffect DEF RollsBack
<1>5. CASE ReservationExpires
  <2>1. program.pending \in 1 .. Len(program.releases)
    BY <1>5, PendingIndex DEF ReservationExpires, LiveReservation
  <2>. QED
    BY <1>1, <1>5, <2>1, ExpireEffect DEF Retouches
<1>6. CASE LeaseLapses \/ UNCHANGED vars
  BY <1>2, <1>6 DEF LeaseLapses, vars
<1>. QED
  BY <1>2, <1>3, <1>4, <1>5, <1>6 DEF Next, OperationStep

(* The program's position only grows. *)
LEMMA ServedGrows ==
  ASSUME TypeInv, [Next]_vars, program.pending # 0 => program.served < program.pending
  PROVE  program.served <= program'.served
<1>1. /\ program.served \in Nat /\ program.served <= Len(program.releases)
      /\ Len(program.releases) \in Nat /\ program.pending \in Nat
  BY LenProperties DEF TypeInv, TypeOK, PendingExists, Program
<1>2. CASE program' = program \/ Retouches \/ Drops \/ \E o \in Operation : Reserves(o)
  BY <1>1, <1>2 DEF Retouches, Drops, Reserves
<1>3. CASE Serves
  BY <1>1, <1>3 DEF Serves
<1>4. CASE RollsBack
  BY <1>1, <1>4 DEF RollsBack
<1>. QED
  BY <1>2, <1>3, <1>4, ProgramMoves

-----------------------------------------------------------------------------
(* What a step does to the aggregate.                                        *)

(* The compare-and-swap of a change. *)
Commits(o) ==
  /\ job[o].pc = "swap"
  /\ Changes(o, job[o].copy)
  /\ agenda.version = job[o].copy.version
  /\ agenda' = Changed(o, job[o].copy)
  /\ program' = program
  /\ job'[o].pc = "renewHand"
  /\ job'[o].kind = job[o].kind /\ job'[o].expected = job[o].expected
  /\ job'[o].number = IF job[o].kind = "edit" THEN 0 ELSE Current(agenda')

LEMMA AgendaMoves ==
  ASSUME TypeInv, NEW o \in Operation, OperationStep(o)
  PROVE  agenda' = agenda \/ Commits(o)
<1>0. TypeOK
  BY DEF TypeInv
<1>1. CASE Swap(o)
  <2>1. Changes(o, job[o].copy)
    BY <1>1 DEF TypeInv, ChangeFits, EditingPC, Swap, At
  <2>. QED
    BY <1>0, <1>1, <2>1, SwapEffect DEF Commits
<1>2. CASE ~Swap(o)
  BY <1>2 DEF OperationStep, MutateStep, HandOffStep, Begin, Admit, Renew, Load, Return,
       Check, ReadProgram, Latest, Reserve, Complete, FailRebuild, Break
<1>. QED
  BY <1>1, <1>2

LEMMA TimeKeepsCalls ==
  ASSUME Rollback \/ LeaseLapses \/ ReservationExpires \/ UNCHANGED vars
  PROVE  UNCHANGED <<agenda, job>>
BY DEF Rollback, LeaseLapses, ReservationExpires, vars

(* The steps, by who takes them. *)
LEMMA StepCases ==
  ASSUME [Next]_vars
  PROVE  \/ \E o \in Operation : OperationStep(o)
         \/ Rollback \/ LeaseLapses \/ ReservationExpires \/ UNCHANGED vars
BY DEF Next, OperationStep

-----------------------------------------------------------------------------
(* Type correctness, with the two facts it needs: what a call is about to    *)
(* write suits what it has read, and the program's indexes are in range.     *)

LEMMA TypeOKStep ==
  ASSUME TypeInv, [Next]_vars
  PROVE  TypeOK'
<1>1. LeaseTypeOK'
  BY LeaseMoves DEF TypeInv, TypeOK, LeaseTypeOK, Grant, Yield, leaseVars
<1>2. program' \in Program
  BY ProgramMoves
<1>3. lapses' \in 0 .. MaxLapses /\ faults' \in 0 .. MaxFaults /\ rollbacks' \in 0 .. MaxRollbacks
  BY CountersMove DEF TypeInv
<1>4. agenda' \in Agenda /\ job' \in [Operation -> Job]
  <2>1. ASSUME NEW o \in Operation, OperationStep(o)
        PROVE  agenda' \in Agenda /\ job' \in [Operation -> Job]
    BY <2>1, OperationType
  <2>2. CASE UNCHANGED <<agenda, job>>
    BY <2>2 DEF TypeInv, TypeOK
  <2>. QED
    BY <2>1, <2>2, StepCases, TimeKeepsCalls
<1>. QED
  BY <1>1, <1>2, <1>3, <1>4 DEF TypeOK

(* A change depends on the kind of the call and on the aggregate alone. *)
LEMMA ChangesByKind ==
  ASSUME NEW o \in Operation, NEW a, Changes(o, a), job'[o].kind = job[o].kind
  PROVE  Changes(o, a)'
  <1>. QED
    BY DEF Changes, DraftIsPublished, Current, Source, Draft

LEMMA ChangeFitsStep ==
  ASSUME TypeInv, [Next]_vars
  PROVE  ChangeFits'
<1>1. ASSUME NEW o \in Operation, OperationStep(o), NEW p \in Operation,
             job'[p].pc \in EditingPC
      PROVE  /\ job'[p].kind = job[p].kind
             /\ Changes(p, job'[p].copy)
  <2>1. CASE p = o
    <3>1. \/ job[o].pc \in EditingPC /\ Moves(o, "swap")
          \/ /\ Changes(o, agenda) /\ job'[o].copy = agenda
             /\ Remembers(o) /\ job[o].expected = Draft(agenda)
      BY <1>1, <2>1, EditingStep
    <3>. QED
      BY <2>1, <3>1 DEF TypeInv, ChangeFits, Moves, Remembers
  <2>2. CASE p # o
    <3>1. job'[p] = job[p]
      BY <1>1, <2>2, OperationType DEF OthersKeep
    <3>. QED
      BY <1>1, <3>1 DEF TypeInv, ChangeFits
  <2>. QED
    BY <2>1, <2>2
<1>2. ASSUME UNCHANGED <<agenda, job>>, NEW p \in Operation, job'[p].pc \in EditingPC
      PROVE  job'[p].kind = job[p].kind /\ Changes(p, job'[p].copy)
  BY <1>2 DEF TypeInv, ChangeFits
<1>3. ASSUME NEW p \in Operation, job'[p].pc \in EditingPC
      PROVE  job'[p].kind = job[p].kind /\ Changes(p, job'[p].copy)
  BY <1>1, <1>2, <1>3, StepCases, TimeKeepsCalls
<1>4. ASSUME NEW p \in Operation, job'[p].pc \in EditingPC
      PROVE  Changes(p, job[p].copy)'
  BY <1>3, <1>4 DEF Changes, DraftIsPublished, Current, Source, Draft
<1>. QED
  BY <1>4 DEF ChangeFits

(* A release that a call holds has an index. *)
LEMMA ReleaseTaken ==
  ASSUME TypeInv, NEW o \in Operation, OperationStep(o),
         job'[o].pc \in ReservedPC \cup {"failing"}
  PROVE  job'[o].release # 0
<1>0. TypeOK /\ (job[o].pc \in ReservedPC \cup {"failing"} => job[o].release # 0)
  BY DEF TypeInv, PendingExists
<1>1. CASE Begin(o) \/ Admit(o) \/ Return(o) \/ Check(o) \/ Latest(o) \/ Break(o) \/ Load(o)
  BY <1>0, <1>1, BeginEffect, AdmitEffect, ReturnEffect, CheckEffect, LoadEffect,
     LatestEffect, BreakEffect DEF ReservedPC, Moves, Fails
<1>2. CASE Swap(o)
  <2>1. Changes(o, job[o].copy)
    BY <1>2 DEF TypeInv, ChangeFits, EditingPC, Swap, At
  <2>. QED
    BY <1>0, <1>2, <2>1, SwapEffect DEF ReservedPC, Fails
<1>3. CASE ReadProgram(o)
  <2>1. program.served <= Len(program.releases)
    BY DEF TypeInv, PendingExists
  <2>. QED
    BY <1>0, <1>3, <2>1, ReadProgramEffect DEF ReservedPC, Moves, Fails
<1>4. CASE Complete(o) \/ FailRebuild(o)
  BY <1>0, <1>4, CompleteStepEffect, FailRebuildEffect DEF ReservedPC, Moves, Fails
<1>5. CASE Reserve(o)
  <2>1. CASE Fails(o, "reservation") \/ Fails(o, "parent")
    BY <1>0, <1>5, <2>1, ReserveEffect DEF ReservedPC, Fails
  <2>2. CASE TakesRelease(o) /\ program'.pending # 0
    BY <2>2 DEF TakesRelease
  <2>3. CASE program.pending # 0 /\ TakeOver(o)
    <3>1. program'.pending # 0
      BY <1>0, <2>3, PendingIndex, TakeOverEffect DEF TypeOK
    <3>. QED
      BY <1>5, <2>1, <2>2, <3>1, ReserveEffect
  <2>4. CASE NewReservation(o)
    <3>1. program.pending <= Len(program.releases) /\ Len(program.releases) \in Nat
      BY <1>0, LenProperties DEF TypeInv, TypeOK, PendingExists, Program
    <3>2. program'.pending = Len(program.releases) + 1
      BY <1>0, <2>4, <3>1, NewReservationEffect
    <3>3. program'.pending # 0
      BY <3>1, <3>2
    <3>. QED
      BY <1>5, <2>1, <2>2, <3>3, ReserveEffect
  <2>. QED
    BY <1>5, <2>1, <2>3, <2>4, ReserveEffect
<1>6. CASE Renew(o)
  <2>1. CASE Moves(o, NextPC[job[o].pc]) /\ job[o].pc \in DOMAIN NextPC
    <3>1. job[o].pc = "renewComplete"
      BY <2>1, ActiveKnown DEF ReservedPC, Moves
    <3>. QED
      BY <1>0, <2>1, <3>1 DEF ReservedPC, Moves
  <2>. QED
    BY <1>0, <1>6, <2>1, RenewEffect DEF ReservedPC, Moves, Fails
<1>. QED
  BY <1>1, <1>2, <1>3, <1>4, <1>5, <1>6 DEF OperationStep, MutateStep, HandOffStep

LEMMA PendingExistsStep ==
  ASSUME TypeInv, [Next]_vars
  PROVE  PendingExists'
<1>1. /\ program.served \in Nat /\ program.served <= Len(program.releases)
      /\ Len(program.releases) \in Nat /\ program.pending \in Nat
      /\ program.pending <= Len(program.releases)
  BY LenProperties DEF TypeInv, TypeOK, PendingExists, Program
<1>2. program'.served <= Len(program'.releases) /\ program'.pending <= Len(program'.releases)
  <2>1. CASE program' = program \/ Retouches
    BY <1>1, <2>1 DEF Retouches
  <2>2. CASE Serves \/ Drops \/ RollsBack
    BY <1>1, <2>2 DEF Serves, Drops, RollsBack
  <2>3. CASE \E o \in Operation : Reserves(o)
    BY <1>1, <2>3 DEF Reserves
  <2>. QED
    BY <2>1, <2>2, <2>3, ProgramMoves
<1>3. ASSUME NEW o \in Operation, OperationStep(o), NEW p \in Operation,
             job'[p].pc \in ReservedPC \cup {"failing"}
      PROVE  job'[p].release # 0
  <2>1. CASE p = o
    BY <1>3, <2>1, ReleaseTaken
  <2>2. CASE p # o
    <3>1. job'[p] = job[p]
      BY <1>3, <2>2, OperationType DEF OthersKeep
    <3>. QED
      BY <1>3, <3>1 DEF TypeInv, PendingExists
  <2>. QED
    BY <2>1, <2>2
<1>4. ASSUME UNCHANGED <<agenda, job>>, NEW p \in Operation,
             job'[p].pc \in ReservedPC \cup {"failing"}
      PROVE  job'[p].release # 0
  BY <1>4 DEF TypeInv, PendingExists
<1>. QED
  BY <1>2, <1>3, <1>4, StepCases, TimeKeepsCalls DEF PendingExists

LEMMA InitFacts ==
  ASSUME Init
  PROVE  /\ agenda = NoAgenda /\ Len(agenda.edits) = 0 /\ Current(agenda) = 0
         /\ agenda.version = 0
         /\ program.version = 0 /\ program.served = 0 /\ program.pending = 0
         /\ program.releases = <<>> /\ Len(program.releases) = 0 /\ program \in Program
         /\ \A o \in Operation : /\ job[o] = Idle /\ job[o].pc = "idle"
                                 /\ job[o].number = 0 /\ job[o].reason = "none"
         /\ job \in [Operation -> Job]
         /\ lapses = 0 /\ faults = 0 /\ rollbacks = 0 /\ holder = NoOperation
<1>1. agenda = NoAgenda /\ NoAgenda \in Agenda
  BY NoAgendaType DEF Init
<1>2. Len(agenda.edits) = 0 /\ Current(agenda) = 0 /\ agenda.version = 0
  BY <1>1, EmptySeq DEF NoAgenda, Current
<1>3. program = [version |-> 0, served |-> 0, pending |-> 0, releases |-> <<>>,
                 invalidated |-> {}]
  BY DEF Init
<1>4. /\ program.version = 0 /\ program.served = 0 /\ program.pending = 0
      /\ program.releases = <<>> /\ program \in Program
  BY <1>3, EmptySeq DEF Program
<1>5. Len(program.releases) = 0
  BY <1>4, EmptySeq
<1>6. Idle.pc = "idle" /\ Idle.number = 0 /\ Idle.reason = "none"
  BY DEF Idle
<1>7. job = [o \in Operation |-> Idle]
  BY DEF Init
<1>8. job \in [Operation -> Job] /\ \A o \in Operation : job[o] = Idle
  BY <1>7, IdleType
<1>9. lapses = 0 /\ faults = 0 /\ rollbacks = 0 /\ holder = NoOperation
  BY DEF Init, LeaseInit
<1>. QED
  BY <1>1, <1>2, <1>4, <1>5, <1>6, <1>8, <1>9

LEMMA TypeInvInit ==
  ASSUME Init
  PROVE  TypeInv
<1>1. LeaseTypeOK
  BY DEF Init, LeaseInit, LeaseTypeOK
<1>2. TypeOK
  BY <1>1, InitFacts, NoAgendaType, PublicationAssumption DEF TypeOK
<1>3. ChangeFits
  BY InitFacts DEF ChangeFits, EditingPC
<1>4. PendingExists
  BY InitFacts DEF PendingExists, ReservedPC
<1>. QED
  BY <1>2, <1>3, <1>4 DEF TypeInv

LEMMA TypeInvStep ==
  ASSUME TypeInv, [Next]_vars
  PROVE  TypeInv'
BY TypeOKStep, ChangeFitsStep, PendingExistsStep DEF TypeInv

LEMMA TypeInvariant == Spec => []TypeInv
<1>1. Init => TypeInv
  BY TypeInvInit
<1>2. TypeInv /\ [Next]_vars => TypeInv'
  BY TypeInvStep
<1>. QED
  BY <1>1, <1>2, PTL DEF Spec

(* Every state the model reaches has its type, whatever lapses, faults and   *)
(* rollbacks do to the calls of mutate.                                      *)
THEOREM TypeCorrect == Spec => []TypeOK
<1>1. TypeInv => TypeOK
  BY DEF TypeInv
<1>. QED
  BY <1>1, TypeInvariant, PTL

-----------------------------------------------------------------------------
(* A copy that is out of date has an older version than the aggregate.       *)

CopyFits ==
  \A o \in Operation : job[o].pc \in EditingPC =>
    /\ job[o].copy.version <= agenda.version
    /\ job[o].copy.version = agenda.version => job[o].copy = agenda

LEMMA CopyType ==
  ASSUME TypeInv, NEW o \in Operation
  PROVE  job[o] \in Job /\ job[o].copy \in Agenda /\ job[o].copy.version \in Nat
BY DEF TypeInv, TypeOK, Job, Agenda

LEMMA CommitEffect ==
  ASSUME TypeInv, CopyFits, NEW o \in Operation, Commits(o)
  PROVE  /\ job[o].copy = agenda
         /\ agenda' = Changed(o, agenda) /\ Changes(o, agenda)
         /\ agenda'.version = agenda.version + 1
BY CopyType, ChangedEffect DEF CopyFits, Commits, EditingPC

LEMMA CopyFitsStep ==
  ASSUME TypeInv, CopyFits, [Next]_vars
  PROVE  CopyFits'
<1>0. agenda.version \in Nat
  BY DEF TypeInv, TypeOK, Agenda
<1>1. ASSUME NEW o \in Operation, OperationStep(o), NEW p \in Operation,
             job'[p].pc \in EditingPC
      PROVE  /\ job'[p].copy.version <= agenda'.version
             /\ job'[p].copy.version = agenda'.version => job'[p].copy = agenda'
  <2>1. CASE p = o
    <3>1. /\ agenda' = agenda
          /\ \/ job[o].pc \in EditingPC /\ Moves(o, "swap")
             \/ job'[o].copy = agenda
      BY <1>1, <2>1, EditingStep
    <3>. QED
      BY <1>0, <2>1, <3>1 DEF CopyFits, Moves
  <2>2. CASE p # o
    <3>1. /\ job'[p] = job[p] /\ job[p].copy.version \in Nat
          /\ job[p].copy.version <= agenda.version
          /\ job[p].copy.version = agenda.version => job[p].copy = agenda
      BY <1>1, <2>2, OperationType, CopyType DEF OthersKeep, CopyFits
    <3>2. agenda' = agenda \/ agenda'.version = agenda.version + 1
      BY <1>1, AgendaMoves, CommitEffect
    <3>. QED
      BY <1>0, <3>1, <3>2
  <2>. QED
    BY <2>1, <2>2
<1>2. ASSUME UNCHANGED <<agenda, job>>
      PROVE  CopyFits'
  BY <1>2 DEF CopyFits
<1>. QED
  BY <1>1, <1>2, StepCases, TimeKeepsCalls DEF CopyFits

LEMMA CopyFitsInit ==
  ASSUME Init
  PROVE  CopyFits
BY InitFacts DEF CopyFits, EditingPC

LEMMA AgendaFacts ==
  ASSUME TypeInv
  PROVE  /\ agenda \in Agenda /\ agenda.edits \in Seq(Operation)
         /\ agenda.revisions \in Seq(Revision) /\ Current(agenda) \in Nat
         /\ \A n \in 1 .. Current(agenda) :
              agenda.revisions[n].by \in Operation /\ agenda.revisions[n].source \in Nat
<1>1. /\ agenda \in Agenda /\ agenda.edits \in Seq(Operation)
      /\ agenda.revisions \in Seq(Revision)
  BY DEF TypeInv, TypeOK, Agenda
<1>2. Current(agenda) \in Nat /\ \A n \in 1 .. Current(agenda) : agenda.revisions[n] \in Revision
  BY <1>1, LenProperties, ElementOfSeq DEF Current
<1>. QED
  BY <1>1, <1>2 DEF Revision

(* Whatever commits, what was committed stays. *)
LEMMA AgendaGrows ==
  ASSUME TypeInv, CopyFits, [Next]_vars
  PROVE  /\ Extends(agenda.edits, agenda'.edits)
         /\ Extends(agenda.revisions, agenda'.revisions)
         /\ Current(agenda) <= Current(agenda')
         /\ \A n \in 1 .. Current(agenda) : agenda'.revisions[n] = agenda.revisions[n]
<1>0. /\ agenda \in Agenda /\ agenda.edits \in Seq(Operation)
      /\ agenda.revisions \in Seq(Revision) /\ Current(agenda) \in Nat
  BY AgendaFacts
<1>1. CASE agenda' = agenda
  <2>1. Extends(agenda.edits, agenda.edits) /\ Extends(agenda.revisions, agenda.revisions)
    BY <1>0, ExtendsSelf
  <2>2. Current(agenda') = Current(agenda)
    BY <1>1
  <2>. QED
    BY <1>0, <1>1, <2>1, <2>2
<1>2. ASSUME NEW o \in Operation, Commits(o)
      PROVE  /\ Extends(agenda.edits, agenda'.edits)
             /\ Extends(agenda.revisions, agenda'.revisions)
             /\ Current(agenda) <= Current(agenda')
             /\ \A n \in 1 .. Current(agenda) : agenda'.revisions[n] = agenda.revisions[n]
  <2>1. agenda' = Changed(o, agenda) /\ Changes(o, agenda) /\ job[o] \in Job
    BY <1>2, CommitEffect, CopyType
  <2>2. /\ Extends(agenda.edits, agenda'.edits)
        /\ Extends(agenda.revisions, agenda'.revisions)
        /\ \/ agenda'.revisions = agenda.revisions
           \/ /\ Current(agenda') = Current(agenda) + 1
              /\ \A n \in 1 .. Current(agenda) : agenda'.revisions[n] = agenda.revisions[n]
    BY <1>0, <2>1, ChangedEffect
  <2>. QED
    BY <1>0, <2>2 DEF Current
<1>. QED
  BY <1>1, <1>2, StepCases, TimeKeepsCalls, AgendaMoves

-----------------------------------------------------------------------------
(* What was published was seen.                                              *)

(* A call that has not committed, or not yet tried to. *)
UncommittedPC == {"idle", "waiting", "load"} \cup EditingPC

SeenInv ==
  /\ \A o \in Operation :
       job[o].pc \in EditingPC => Draft(job[o].copy) = job[o].expected
  /\ \A n \in 1 .. Current(agenda) :
       job[agenda.revisions[n].by].pc \notin UncommittedPC
  /\ PublishesWhatWasSeen

LEMMA StaysCommitted ==
  ASSUME TypeInv, NEW o \in Operation, OperationStep(o), job[o].pc \notin UncommittedPC
  PROVE  /\ job'[o].pc \notin UncommittedPC
         /\ job'[o].kind = job[o].kind /\ job'[o].expected = job[o].expected
<1>0. TypeOK
  BY DEF TypeInv
<1>1. CASE Begin(o) \/ Admit(o) \/ Load(o) \/ Swap(o)
  BY <1>1 DEF Begin, Admit, Load, Swap, At, UncommittedPC, EditingPC
<1>2. CASE Return(o) \/ Check(o) \/ Latest(o) \/ Break(o)
  BY <1>0, <1>2, ReturnEffect, CheckEffect, LatestEffect, BreakEffect
  DEF UncommittedPC, EditingPC, Moves, Fails, Remembers
<1>3. CASE ReadProgram(o)
  <2>1. program.served <= Len(program.releases)
    BY DEF TypeInv, PendingExists
  <2>. QED
    BY <1>0, <1>3, <2>1, ReadProgramEffect DEF UncommittedPC, EditingPC, Moves, Fails, Remembers
<1>4. CASE Reserve(o) \/ Complete(o) \/ FailRebuild(o)
  BY <1>4, ReserveEffect, CompleteStepEffect, FailRebuildEffect
  DEF UncommittedPC, EditingPC, Moves, Fails, Remembers, TakesRelease
<1>6. CASE Renew(o)
  <2>1. CASE Moves(o, NextPC[job[o].pc]) /\ job[o].pc \in DOMAIN NextPC
    <3>1. job[o].pc # "renewSwap"
      BY DEF UncommittedPC, EditingPC
    <3>2. NextPC[job[o].pc] \in {"check", "latest", "reserve", "complete", "return"}
      BY <2>1, <3>1, ActiveKnown
    <3>. QED
      BY <2>1, <3>2 DEF UncommittedPC, EditingPC, Moves, Remembers
  <2>. QED
    BY <1>0, <1>6, <2>1, RenewEffect DEF UncommittedPC, EditingPC, Moves, Fails, Remembers
<1>. QED
  BY <1>1, <1>2, <1>3, <1>4, <1>6 DEF OperationStep, MutateStep, HandOffStep

LEMMA SeenInvStep ==
  ASSUME TypeInv, CopyFits, SeenInv, [Next]_vars
  PROVE  SeenInv'
<1>1. ASSUME UNCHANGED <<agenda, job>>
      PROVE  SeenInv'
  BY <1>1 DEF SeenInv, PublishesWhatWasSeen
<1>2. ASSUME NEW o \in Operation, OperationStep(o)
      PROVE  SeenInv'
  <2>0. OthersKeep(o)
    BY <1>2, OperationType
  <2>1. ASSUME NEW p \in Operation, job'[p].pc \in EditingPC
        PROVE  Draft(job'[p].copy) = job'[p].expected
    <3>1. CASE p = o
      <4>1. \/ job[o].pc \in EditingPC /\ Moves(o, "swap")
            \/ /\ job'[o].copy = agenda
               /\ Remembers(o) /\ job[o].expected = Draft(agenda)
        BY <1>2, <2>1, <3>1, EditingStep
      <4>. QED
        BY <3>1, <4>1 DEF SeenInv, Moves, Remembers
    <3>2. CASE p # o
      <4>1. job'[p] = job[p]
        BY <2>0, <3>2 DEF OthersKeep
      <4>. QED
        BY <2>1, <4>1 DEF SeenInv
    <3>. QED
      BY <3>1, <3>2
  <2>2. ASSUME NEW n \in 1 .. Current(agenda)
        PROVE  /\ agenda'.revisions[n] = agenda.revisions[n]
               /\ job'[agenda.revisions[n].by].pc \notin UncommittedPC
               /\ job'[agenda.revisions[n].by].kind = "publish" =>
                    agenda.revisions[n].source = job'[agenda.revisions[n].by].expected
    <3>1. agenda'.revisions[n] = agenda.revisions[n] /\ agenda.revisions[n].by \in Operation
      BY <2>2, AgendaGrows, AgendaFacts
    <3>2. PICK p \in Operation : p = agenda.revisions[n].by
      BY <3>1
    <3>3. /\ job[p].pc \notin UncommittedPC
          /\ job[p].kind = "publish" => agenda.revisions[n].source = job[p].expected
      BY <2>2, <3>2 DEF SeenInv, PublishesWhatWasSeen
    <3>4. /\ job'[p].pc \notin UncommittedPC
          /\ job'[p].kind = job[p].kind /\ job'[p].expected = job[p].expected
      BY <1>2, <2>0, <3>3, StaysCommitted DEF OthersKeep
    <3>. QED
      BY <3>1, <3>2, <3>3, <3>4
  <2>3. ASSUME Commits(o), job[o].kind # "edit"
        PROVE  /\ Current(agenda') = Current(agenda) + 1
               /\ agenda'.revisions[Current(agenda')].by = o
               /\ job'[o].pc \notin UncommittedPC
               /\ job'[o].kind = "publish" =>
                    agenda'.revisions[Current(agenda')].source = job'[o].expected
    <3>1. agenda' = Changed(o, agenda) /\ Changes(o, agenda) /\ job[o] \in Job /\ agenda \in Agenda
      BY <2>3, CommitEffect, CopyType, AgendaFacts
    <3>2. /\ Current(agenda') = Current(agenda) + 1
          /\ agenda'.revisions[Current(agenda')].by = o
          /\ job[o].kind = "publish" =>
               agenda'.revisions[Current(agenda')].source = Draft(agenda)
      <4>1. /\ Current(Changed(o, agenda)) = Current(agenda) + 1
            /\ Changed(o, agenda).revisions[Current(Changed(o, agenda))].by = o
            /\ job[o].kind = "publish" =>
                 Changed(o, agenda).revisions[Current(Changed(o, agenda))].source = Draft(agenda)
        BY <2>3, <3>1, ChangedEffect
      <4>. QED
        BY <3>1, <4>1
    <3>3. Draft(agenda) = job[o].expected
      BY <2>3, CommitEffect DEF SeenInv, Commits, EditingPC
    <3>. QED
      BY <2>3, <3>2, <3>3 DEF Commits, UncommittedPC, EditingPC
  <2>4. CASE Current(agenda') = Current(agenda)
    BY <2>1, <2>2, <2>4 DEF SeenInv, PublishesWhatWasSeen
  <2>5. CASE Commits(o) /\ job[o].kind # "edit"
    <3>1. Current(agenda) \in Nat
      BY AgendaFacts
    <3>2. \A n \in 1 .. Current(agenda') : n \in 1 .. Current(agenda) \/ n = Current(agenda')
      BY <2>3, <2>5, <3>1
    <3>. QED
      BY <2>1, <2>2, <2>3, <2>5, <3>2 DEF SeenInv, PublishesWhatWasSeen
  <2>6. CASE Commits(o) /\ job[o].kind = "edit"
    <3>1. agenda' = Changed(o, agenda) /\ Changes(o, agenda) /\ job[o] \in Job /\ agenda \in Agenda
      BY <2>6, CommitEffect, CopyType, AgendaFacts
    <3>2. agenda'.revisions = agenda.revisions
      BY <2>6, <3>1, ChangedEffect
    <3>3. Current(agenda') = Current(agenda)
      BY <3>2 DEF Current
    <3>. QED
      BY <2>4, <3>3
  <2>. QED
    BY <1>2, <2>4, <2>5, <2>6, AgendaMoves
<1>. QED
  BY <1>1, <1>2, StepCases, TimeKeepsCalls

LEMMA SeenInvInit ==
  ASSUME Init
  PROVE  SeenInv
BY InitFacts DEF SeenInv, PublishesWhatWasSeen, EditingPC

(* mutate compares the draft version its caller has seen after it is admitted *)
(* and again, by the aggregate's version, when it commits: what it publishes  *)
(* is the draft the caller had before it, however many calls went ahead.      *)
THEOREM PublishesSeen == Spec => []PublishesWhatWasSeen
<1>1. Init => CopyFits /\ SeenInv
  BY CopyFitsInit, SeenInvInit
<1>2. TypeInv /\ CopyFits /\ SeenInv /\ [Next]_vars => (CopyFits /\ SeenInv)'
  BY CopyFitsStep, SeenInvStep
<1>3. SeenInv => PublishesWhatWasSeen
  BY DEF SeenInv
<1>. QED
  BY <1>1, <1>2, <1>3, TypeInvariant, PTL DEF Spec

-----------------------------------------------------------------------------
(* The releases, in the order of their reservation, and the hand-offs.       *)

Order ==
  \A r \in 1 .. Len(program.releases) :
    /\ program.releases[r].agenda <= Current(agenda)
    /\ program.releases[r].lifecycle = "pending" <=> r = program.pending
    /\ program.releases[r].lifecycle = "served" => r <= program.served

(* The pending release is younger than the served one and than any before it. *)
PendingBuilds ==
  program.pending # 0 =>
    /\ program.served < program.pending
    /\ Pending.parent = program.served
    /\ ~Pending.rollback
    /\ \A r \in 1 .. program.served : program.releases[r].agenda <= Pending.agenda

(* Unless it was rolled back, the public has the youngest agenda ever served. *)
ServedTops ==
  program.served # 0 =>
    /\ program.releases[program.served].lifecycle = "served"
    /\ \/ program.releases[program.served].rollback
       \/ \A r \in 1 .. program.served :
            program.releases[r].lifecycle = "served" =>
              program.releases[r].agenda <= program.releases[program.served].agenda

ReadPC == {"renewLatest", "latest", "renewReserve", "reserve"}

WasServed(number) ==
  \E r \in 1 .. Len(program.releases) :
    program.releases[r].lifecycle = "served" /\ program.releases[r].agenda = number

(* What a call knows of the program it hands its revision to. *)
HandsOff(o) ==
  /\ job[o].number <= Current(agenda)
  /\ job[o].pc \in {"check", "program"} \cup ReadPC \cup ReservedPC => job[o].number # 0
  /\ job[o].pc \in ReadPC =>
       /\ job[o].parent <= program.served
       /\ job[o].parent = 0 => job[o].served = 0
       /\ job[o].parent # 0 =>
            /\ program.releases[job[o].parent].lifecycle = "served"
            /\ program.releases[job[o].parent].agenda = job[o].served
  /\ job[o].pc \in {"renewReserve", "reserve"} =>
       \A r \in 1 .. job[o].parent : program.releases[r].agenda <= job[o].number
  /\ job[o].pc \in ReservedPC =>
       /\ job[o].release <= Len(program.releases)
       /\ program.releases[job[o].release].agenda = job[o].number
  /\ /\ job[o].pc \in {"renewServed", "return", "ok"}
     /\ job[o].number # 0
     /\ job[o].number = Current(agenda)
     => WasServed(job[o].number)

HandOffInv ==
  Order /\ PendingBuilds /\ ServedTops /\ \A o \in Operation : HandsOff(o)

LEMMA ProgramFacts ==
  ASSUME TypeInv
  PROVE  /\ program.version \in Nat /\ program.served \in Nat /\ program.pending \in Nat
         /\ Len(program.releases) \in Nat
         /\ program.served <= Len(program.releases) /\ program.pending <= Len(program.releases)
         /\ \A r \in 1 .. Len(program.releases) :
              /\ program.releases[r].agenda \in Nat
              /\ program.releases[r].lifecycle \in {"pending", "served", "failed"}
              /\ program.releases[r].parent \in Nat
<1>1. program \in Program /\ program.releases \in Seq(Release)
  BY DEF TypeInv, TypeOK, Program
<1>2. /\ Len(program.releases) \in Nat
      /\ \A r \in 1 .. Len(program.releases) : program.releases[r] \in Release
  BY <1>1, LenProperties, ElementOfSeq
<1>. QED
  BY <1>1, <1>2 DEF TypeInv, PendingExists, Program, Release

LEMMA JobFacts ==
  ASSUME TypeInv, NEW o \in Operation
  PROVE  /\ job[o].number \in Nat /\ job[o].parent \in Nat /\ job[o].served \in Nat
         /\ job[o].release \in Nat /\ job[o].version \in Nat /\ job[o].reason \in Reason
         /\ job[o].kind \in Kind
BY DEF TypeInv, TypeOK, Job

(* A release is touched no more once it is served or failed. *)
LEMMA SettledStays ==
  ASSUME TypeInv, Order, [Next]_vars, NEW r \in 1 .. Len(program.releases),
         program.releases[r].lifecycle # "pending"
  PROVE  r \in 1 .. Len(program'.releases) /\ program'.releases[r] = program.releases[r]
<1>1. r # program.pending
  BY DEF Order
<1>2. KeepsReleases
  BY ProgramMoves
<1>3. Len(program'.releases) \in Nat
  BY ProgramMoves, LenProperties DEF Program
<1>. QED
  BY <1>1, <1>2, <1>3, ProgramFacts DEF KeepsReleases

LEMMA OrderStep ==
  ASSUME TypeInv, CopyFits, HandOffInv, [Next]_vars
  PROVE  Order'
<1>0. /\ Order /\ PendingBuilds /\ Current(agenda) \in Nat /\ Current(agenda)' \in Nat
      /\ Current(agenda) <= Current(agenda)' /\ KeepsReleases
  <2>1. Current(agenda)' \in Nat
    BY TypeInvStep, LenProperties DEF TypeInv, TypeOK, Agenda, Current
  <2>. QED
    BY <2>1, AgendaFacts, AgendaGrows, ProgramMoves DEF HandOffInv
<1>1. ASSUME NEW r \in 1 .. Len(program.releases)
      PROVE  /\ program'.releases[r].agenda <= Current(agenda)'
             /\ r # program.pending => program'.releases[r] = program.releases[r]
  <2>1. program'.releases[r].agenda = program.releases[r].agenda
    BY <1>0 DEF KeepsReleases
  <2>2. program.releases[r].agenda \in Nat /\ program.releases[r].agenda <= Current(agenda)
    BY <1>0, ProgramFacts DEF Order
  <2>. QED
    BY <1>0, <2>1, <2>2 DEF KeepsReleases
<1>2. CASE program' = program
  BY <1>0, <1>1, <1>2 DEF Order
<1>3. CASE Retouches
  BY <1>0, <1>1, <1>3, ProgramFacts DEF Order, Retouches, Pending
<1>4. ASSUME NEW o \in Operation, Reserves(o)
      PROVE  Order'
  <2>. DEFINE n == Len(program.releases) + 1
  <2>1. job[o].number \in Nat /\ job[o].number <= Current(agenda)
    BY JobFacts DEF HandOffInv, HandsOff
  <2>2. /\ program'.releases[n].agenda = job[o].number
        /\ program'.releases[n].lifecycle = "pending"
        /\ Len(program'.releases) = n /\ program'.pending = n
        /\ program'.served = program.served
        /\ program.pending # 0 => program'.releases[program.pending].lifecycle = "failed"
    BY <1>4 DEF Reserves
  <2>3. program'.releases[n].agenda <= Current(agenda)'
    BY <1>0, <2>1, <2>2
  <2>4. ASSUME NEW r \in 1 .. Len(program.releases)
        PROVE  /\ program'.releases[r].lifecycle # "pending"
               /\ program'.releases[r].lifecycle = "served" => r <= program.served
    BY <1>0, <1>1, <2>2, <2>4, ProgramFacts DEF Order
  <2>5. n \in Nat /\ program.served \in Nat /\ n # 0 /\ Len(program.releases) \in Nat
    BY ProgramFacts
  <2>6. ASSUME NEW r \in 1 .. Len(program'.releases)
        PROVE  /\ program'.releases[r].agenda <= Current(agenda)'
               /\ program'.releases[r].lifecycle = "pending" <=> r = program'.pending
               /\ program'.releases[r].lifecycle = "served" => r <= program'.served
    <3>1. CASE r = n
      BY <2>2, <2>3, <3>1
    <3>2. CASE r # n
      <4>1. r \in 1 .. Len(program.releases)
        BY <2>2, <2>5, <3>2
      <4>. QED
        BY <1>1, <2>2, <2>4, <3>2, <4>1
    <3>. QED
      BY <3>1, <3>2
  <2>. QED
    BY <2>6 DEF Order
<1>5. CASE Serves
  <2>1. ASSUME NEW r \in 1 .. Len(program.releases)
        PROVE  /\ program'.releases[r].lifecycle # "pending"
               /\ program'.releases[r].lifecycle = "served" => r <= program.pending
    <3>1. /\ program.pending \in Nat /\ program.served \in Nat /\ program.pending # 0
          /\ program.served < program.pending
      BY <1>0, <1>5, ProgramFacts DEF Serves, PendingBuilds
    <3>2. CASE r = program.pending
      BY <1>5, <3>1, <3>2 DEF Serves
    <3>3. CASE r # program.pending
      <4>1. program'.releases[r] = program.releases[r]
        BY <1>1, <3>3
      <4>2. /\ program.releases[r].lifecycle # "pending"
            /\ program.releases[r].lifecycle = "served" => r <= program.served
        BY <1>0, <3>3 DEF Order
      <4>. QED
        BY <3>1, <4>1, <4>2
    <3>. QED
      BY <3>2, <3>3
  <2>. QED
    BY <1>1, <1>5, <2>1 DEF Order, Serves
<1>6. CASE Drops
  <2>1. ASSUME NEW r \in 1 .. Len(program.releases)
        PROVE  /\ program'.releases[r].lifecycle # "pending"
               /\ program'.releases[r].lifecycle = "served" => r <= program.served
    BY <1>0, <1>1, <1>6, <2>1 DEF Order, Drops
  <2>2. \A r \in 1 .. Len(program.releases) : r # 0
    BY ProgramFacts
  <2>. QED
    BY <1>1, <1>6, <2>1, <2>2 DEF Order, Drops
<1>7. CASE RollsBack
  <2>. DEFINE n == Len(program.releases) + 1
  <2>1. /\ program'.releases[n].lifecycle = "served" /\ program.pending = 0
        /\ Len(program'.releases) = n /\ program'.pending = 0 /\ program'.served = n
    BY <1>7 DEF RollsBack
  <2>2. PICK t \in 1 .. Len(program.releases) :
          program'.releases[n].agenda = program.releases[t].agenda
    BY <1>7 DEF RollsBack
  <2>3. program'.releases[n].agenda <= Current(agenda)'
    BY <1>0, <2>2, ProgramFacts DEF Order
  <2>4. ASSUME NEW r \in 1 .. Len(program.releases)
        PROVE  program'.releases[r].lifecycle # "pending"
    <3>1. r # 0 /\ r # program.pending
      BY <2>1, ProgramFacts
    <3>. QED
      BY <1>0, <1>1, <3>1 DEF Order
  <2>. QED
    BY <1>1, <2>1, <2>3, <2>4, ProgramFacts DEF Order
<1>. QED
  BY <1>2, <1>3, <1>4, <1>5, <1>6, <1>7, ProgramMoves

LEMMA PendingBuildsStep ==
  ASSUME TypeInv, HandOffInv, [Next]_vars
  PROVE  PendingBuilds'
<1>0. PendingBuilds /\ KeepsReleases
  BY ProgramMoves DEF HandOffInv
<1>2. CASE program' = program
  BY <1>0, <1>2 DEF PendingBuilds, Pending
<1>3. CASE Retouches
  <2>1. \A r \in 1 .. program.served :
          program'.releases[r].agenda <= program'.releases[program.pending].agenda
    BY <1>0, <1>3, ProgramFacts DEF PendingBuilds, Pending, Retouches, KeepsReleases
  <2>. QED
    BY <1>0, <1>3, <2>1 DEF PendingBuilds, Pending, Retouches
<1>4. ASSUME NEW o \in Operation, Reserves(o)
      PROVE  PendingBuilds'
  <2>. DEFINE n == Len(program.releases) + 1
  <2>1. job[o].pc = "reserve" /\ HandsOff(o) /\ job[o].parent = program.served
    BY <1>4 DEF HandOffInv, Reserves
  <2>2. \A r \in 1 .. program.served : program.releases[r].agenda <= job[o].number
    BY <2>1 DEF HandsOff
  <2>3. /\ program'.releases[n].agenda = job[o].number
        /\ program'.releases[n].parent = program.served /\ ~program'.releases[n].rollback
        /\ program'.pending = n /\ program'.served = program.served
    BY <1>4 DEF Reserves
  <2>4. \A r \in 1 .. program.served : program'.releases[r].agenda <= job[o].number
    BY <1>0, <2>2, ProgramFacts DEF KeepsReleases
  <2>. QED
    BY <2>3, <2>4, ProgramFacts DEF PendingBuilds, Pending
<1>5. CASE Serves \/ Drops \/ RollsBack
  BY <1>5 DEF PendingBuilds, Serves, Drops, RollsBack
<1>. QED
  BY <1>2, <1>3, <1>4, <1>5, ProgramMoves

LEMMA ServedTopsStep ==
  ASSUME TypeInv, HandOffInv, [Next]_vars
  PROVE  ServedTops'
<1>0. Order /\ PendingBuilds /\ ServedTops /\ KeepsReleases
  BY ProgramMoves DEF HandOffInv
<1>1. CASE program'.served = program.served
  <2>1. ASSUME NEW r \in 1 .. program.served
        PROVE  program'.releases[r] = program.releases[r]
    BY <1>0, <2>1, ProgramFacts DEF PendingBuilds, KeepsReleases
  <2>2. program.served # 0 => program'.releases[program.served] = program.releases[program.served]
    BY <2>1, ProgramFacts
  <2>. QED
    BY <1>0, <1>1, <2>1, <2>2 DEF ServedTops
<1>2. CASE Serves
  <2>1. ASSUME NEW r \in 1 .. program.pending, program'.releases[r].lifecycle = "served"
        PROVE  program'.releases[r].agenda <= program'.releases[program.pending].agenda
    <3>1. /\ r \in 1 .. Len(program.releases) /\ program.pending \in 1 .. Len(program.releases)
          /\ program'.releases[r].agenda = program.releases[r].agenda
          /\ program'.releases[program.pending].agenda = program.releases[program.pending].agenda
          /\ program.releases[r].agenda \in Nat
      BY <1>0, <1>2, <2>1, ProgramFacts DEF Serves, KeepsReleases
    <3>2. CASE r # program.pending
      <4>1. program.releases[r].lifecycle = "served"
        BY <1>0, <2>1, <3>1, <3>2 DEF KeepsReleases
      <4>2. r \in 1 .. program.served
        BY <1>0, <3>1, <4>1, ProgramFacts DEF Order
      <4>. QED
        BY <1>0, <3>1, <4>2, ProgramFacts DEF PendingBuilds, Pending
    <3>. QED
      BY <3>1, <3>2
  <2>. QED
    BY <1>2, <2>1 DEF ServedTops, Serves
<1>3. CASE RollsBack
  BY <1>3 DEF ServedTops, RollsBack
<1>4. CASE Retouches \/ Drops \/ \E o \in Operation : Reserves(o)
  BY <1>1, <1>4 DEF Retouches, Drops, Reserves
<1>. QED
  BY <1>1, <1>2, <1>3, <1>4, ProgramMoves

(* A call that does not move is not put in the wrong by the others. *)
LEMMA HandsOffStays ==
  ASSUME TypeInv, CopyFits, HandOffInv, [Next]_vars, NEW p \in Operation, job'[p] = job[p]
  PROVE  HandsOff(p)'
<1>0. /\ HandsOff(p) /\ Order /\ KeepsReleases
      /\ Current(agenda) \in Nat /\ Current(agenda)' \in Nat
      /\ Current(agenda) <= Current(agenda)'
      /\ program.served <= program'.served /\ program'.served \in Nat
      /\ Len(program'.releases) \in Nat
  <2>1. Current(agenda)' \in Nat
    BY TypeInvStep, LenProperties DEF TypeInv, TypeOK, Agenda, Current
  <2>2. program'.served \in Nat /\ Len(program'.releases) \in Nat
    BY ProgramMoves, LenProperties DEF Program
  <2>. QED
    BY <2>1, <2>2, AgendaFacts, AgendaGrows, ProgramMoves, ServedGrows
    DEF HandOffInv, PendingBuilds
<1>1. job[p].number <= Current(agenda)'
  BY <1>0, JobFacts DEF HandsOff
<1>2. ASSUME job[p].pc \in ReadPC
      PROVE  /\ job[p].parent <= program'.served
             /\ job[p].parent = 0 => job[p].served = 0
             /\ job[p].parent # 0 =>
                  /\ program'.releases[job[p].parent].lifecycle = "served"
                  /\ program'.releases[job[p].parent].agenda = job[p].served
  <2>1. /\ job[p].parent <= program.served
        /\ job[p].parent = 0 => job[p].served = 0
        /\ job[p].parent # 0 =>
             /\ program.releases[job[p].parent].lifecycle = "served"
             /\ program.releases[job[p].parent].agenda = job[p].served
    BY <1>0, <1>2 DEF HandsOff
  <2>2. job[p].parent # 0 => job[p].parent \in 1 .. Len(program.releases)
    BY <2>1, JobFacts, ProgramFacts
  <2>3. job[p].parent # 0 => program'.releases[job[p].parent] = program.releases[job[p].parent]
    BY <1>0, <2>1, <2>2, SettledStays
  <2>4. job[p].parent \in Nat /\ program.served \in Nat
    BY JobFacts, ProgramFacts
  <2>5. job[p].parent <= program'.served
    BY <1>0, <2>1, <2>4
  <2>. QED
    BY <2>1, <2>3, <2>5
<1>3. ASSUME job[p].pc \in {"renewReserve", "reserve"}
      PROVE  \A r \in 1 .. job[p].parent : program'.releases[r].agenda <= job[p].number
  <2>1. /\ job[p].parent <= program.served
        /\ \A r \in 1 .. job[p].parent : program.releases[r].agenda <= job[p].number
    BY <1>0, <1>3 DEF HandsOff, ReadPC
  <2>2. \A r \in 1 .. job[p].parent : r \in 1 .. Len(program.releases)
    BY <2>1, JobFacts, ProgramFacts
  <2>. QED
    BY <1>0, <2>1, <2>2 DEF KeepsReleases
<1>4. ASSUME job[p].pc \in ReservedPC
      PROVE  /\ job[p].release <= Len(program'.releases)
             /\ program'.releases[job[p].release].agenda = job[p].number
  <2>1. /\ job[p].release <= Len(program.releases) /\ job[p].release # 0
        /\ program.releases[job[p].release].agenda = job[p].number
    BY <1>0, <1>4 DEF HandsOff, TypeInv, PendingExists
  <2>2. job[p].release \in 1 .. Len(program.releases)
    BY <2>1, JobFacts, ProgramFacts
  <2>. QED
    BY <1>0, <2>1, <2>2 DEF KeepsReleases
<1>5. ASSUME job[p].pc \in {"renewServed", "return", "ok"}, job[p].number # 0,
             job[p].number = Current(agenda)'
      PROVE  WasServed(job[p].number)'
  <2>1. job[p].number = Current(agenda)
    BY <1>0, <1>5, JobFacts DEF HandsOff
  <2>2. WasServed(job[p].number)
    BY <1>0, <1>5, <2>1 DEF HandsOff
  <2>3. PICK r \in 1 .. Len(program.releases) :
          program.releases[r].lifecycle = "served" /\ program.releases[r].agenda = job[p].number
    BY <2>2 DEF WasServed
  <2>4. r \in 1 .. Len(program'.releases) /\ program'.releases[r] = program.releases[r]
    BY <1>0, <2>3, SettledStays
  <2>. QED
    BY <2>3, <2>4 DEF WasServed
<1>6. job[p].pc \in {"check", "program"} \cup ReadPC \cup ReservedPC => job[p].number # 0
  BY <1>0 DEF HandsOff
<1>. QED
  BY <1>1, <1>2, <1>3, <1>4, <1>5, <1>6 DEF HandsOff

(* A call that has failed, or is failing, hands off no more. *)
LEMMA FailedHandsOff ==
  ASSUME TypeInv, CopyFits, HandOffInv, [Next]_vars, NEW o \in Operation,
         job'[o].number = job[o].number,
         job'[o].pc \in {"idle", "waiting", "load", "renewSwap", "swap", "renewHand",
                         "failing", "failed", "lost"}
  PROVE  HandsOff(o)'
<1>1. job[o].number <= Current(agenda)
  BY DEF HandOffInv, HandsOff
<1>2. Current(agenda)' \in Nat /\ Current(agenda) \in Nat /\ Current(agenda) <= Current(agenda)'
  <2>1. Current(agenda)' \in Nat
    BY TypeInvStep, LenProperties DEF TypeInv, TypeOK, Agenda, Current
  <2>. QED
    BY <2>1, AgendaFacts, AgendaGrows
<1>3. job'[o].number <= Current(agenda)'
  BY <1>1, <1>2, JobFacts
<1>. QED
  BY <1>3 DEF HandsOff, ReadPC, ReservedPC

LEMMA RenewHandsOff ==
  ASSUME TypeInv, CopyFits, HandOffInv, [Next]_vars, NEW o \in Operation, Renew(o)
  PROVE  HandsOff(o)'
<1>0. TypeOK /\ HandsOff(o) /\ agenda' = agenda /\ program' = program
  BY RenewEffect DEF TypeInv, HandOffInv, Quiet
<1>1. CASE Fails(o, "lease")
  BY <1>1, FailedHandsOff DEF Fails, Remembers
<1>2. CASE job[o].pc = "renewHand" /\ job[o].number = 0 /\ Moves(o, "return")
  BY <1>0, <1>2 DEF HandsOff, Moves, Remembers, ReadPC, ReservedPC
<1>3. CASE job[o].pc = "renewSwap" /\ Moves(o, "swap")
  BY <1>3, FailedHandsOff DEF Moves, Remembers
<1>4. CASE job[o].pc = "renewHand" /\ job[o].number # 0 /\ Moves(o, "check")
  BY <1>0, <1>4 DEF HandsOff, Moves, Remembers, ReadPC, ReservedPC
<1>5. CASE job[o].pc = "renewLatest" /\ Moves(o, "latest")
  BY <1>0, <1>5 DEF HandsOff, Moves, Remembers, ReadPC, ReservedPC
<1>6. CASE job[o].pc = "renewReserve" /\ Moves(o, "reserve")
  BY <1>0, <1>6 DEF HandsOff, Moves, Remembers, ReadPC, ReservedPC
<1>7. CASE job[o].pc = "renewComplete" /\ Moves(o, "complete")
  BY <1>0, <1>7 DEF HandsOff, Moves, Remembers, ReadPC, ReservedPC
<1>8. CASE job[o].pc = "renewServed" /\ Moves(o, "return")
  BY <1>0, <1>8 DEF HandsOff, Moves, Remembers, ReadPC, ReservedPC, WasServed
<1>. QED
  BY <1>0, <1>1, <1>2, <1>3, <1>4, <1>5, <1>6, <1>7, <1>8, RenewEffect, ActiveKnown

LEMMA ReadingHandsOff ==
  ASSUME TypeInv, CopyFits, HandOffInv, [Next]_vars, NEW o \in Operation,
         Check(o) \/ ReadProgram(o) \/ Latest(o)
  PROVE  HandsOff(o)'
<1>0. /\ TypeOK /\ HandsOff(o) /\ Order /\ ServedTops
      /\ program.served <= Len(program.releases) /\ program.served \in Nat
      /\ job[o].number \in Nat /\ Current(agenda) \in Nat
  BY ProgramFacts, JobFacts, AgendaFacts DEF TypeInv, HandOffInv
<1>1. CASE Check(o)
  <2>1. /\ job[o].pc = "check" /\ agenda' = agenda /\ program' = program
        /\ \/ Moves(o, "program")
           \/ Current(agenda) # job[o].number /\ Moves(o, "return")
    BY <1>0, <1>1, CheckEffect DEF Quiet
  <2>. QED
    BY <1>0, <2>1 DEF HandsOff, Moves, Remembers, ReadPC, ReservedPC
<1>2. CASE ReadProgram(o)
  <2>0. /\ job[o].pc = "program" /\ agenda' = agenda /\ program' = program
    BY <1>0, <1>2, ReadProgramEffect DEF Quiet
  <2>1. CASE ServedAgenda(program) > job[o].number /\ Moves(o, "return")
    <3>1. ServedAgenda(program) <= Current(agenda)
      BY <1>0, ProgramFacts DEF ServedAgenda, Order
    <3>2. ServedAgenda(program) \in Nat
      BY <1>0, ServedAgendaType DEF TypeOK
    <3>3. job'[o].number # Current(agenda)
      BY <1>0, <2>1, <3>1, <3>2 DEF Moves, Remembers
    <3>. QED
      BY <1>0, <2>0, <2>1, <3>3 DEF HandsOff, Moves, Remembers, ReadPC, ReservedPC
  <2>2. CASE Fails(o, "unserved")
    BY <2>0, <2>2, FailedHandsOff DEF Fails, Remembers
  <2>3. CASE /\ Remembers(o) /\ job'[o].pc = "renewLatest"
             /\ job'[o].parent = program.served /\ job'[o].served = ServedAgenda(program)
    <3>1. program.served # 0 => program.releases[program.served].lifecycle = "served"
      BY <1>0 DEF ServedTops
    <3>2. job[o].number # 0
      BY <1>0, <2>0 DEF HandsOff
    <3>. QED
      BY <1>0, <2>0, <2>3, <3>1, <3>2
      DEF HandsOff, Remembers, ReadPC, ReservedPC, ServedAgenda
  <2>. QED
    BY <1>0, <1>2, <2>1, <2>2, <2>3, ReadProgramEffect
<1>3. CASE Latest(o)
  <2>0. /\ job[o].pc = "latest" /\ agenda' = agenda /\ program' = program
    BY <1>0, <1>3, LatestEffect DEF Quiet
  <2>1. CASE Current(agenda) # job[o].number /\ Moves(o, "return")
    BY <1>0, <2>0, <2>1 DEF HandsOff, Moves, Remembers, ReadPC, ReservedPC
  <2>2. CASE job[o].served = job[o].number /\ Moves(o, "return")
    <3>1. /\ job[o].number # 0 /\ job[o].parent <= program.served
          /\ job[o].parent = 0 => job[o].served = 0
          /\ job[o].parent # 0 =>
               /\ program.releases[job[o].parent].lifecycle = "served"
               /\ program.releases[job[o].parent].agenda = job[o].served
      BY <1>0, <2>0 DEF HandsOff, ReadPC
    <3>2. job[o].parent \in 1 .. Len(program.releases)
      BY <1>0, <2>2, <3>1, ProgramFacts, JobFacts
    <3>3. WasServed(job[o].number)
      BY <2>2, <3>1, <3>2 DEF WasServed
    <3>4. WasServed(job[o].number)'
      BY <2>0, <2>2, <3>3 DEF WasServed, Moves, Remembers
    <3>. QED
      BY <1>0, <2>0, <2>2, <3>4 DEF HandsOff, Moves, Remembers, ReadPC, ReservedPC
  <2>3. CASE Current(agenda) = job[o].number /\ Moves(o, "renewReserve")
    <3>1. job[o].number # 0 /\ job[o].parent <= program.served
      BY <1>0, <2>0 DEF HandsOff, ReadPC
    <3>2. \A r \in 1 .. job[o].parent : r \in 1 .. Len(program.releases)
      BY <1>0, <3>1, ProgramFacts, JobFacts
    <3>3. \A r \in 1 .. job[o].parent : program.releases[r].agenda <= job[o].number
      BY <1>0, <2>3, <3>2 DEF Order
    <3>. QED
      BY <1>0, <2>0, <2>3, <3>1, <3>3 DEF HandsOff, Moves, Remembers, ReadPC, ReservedPC
  <2>. QED
    BY <1>0, <1>3, <2>1, <2>2, <2>3, LatestEffect
<1>. QED
  BY <1>1, <1>2, <1>3

LEMMA ReserveHandsOff ==
  ASSUME TypeInv, CopyFits, HandOffInv, [Next]_vars, NEW o \in Operation, Reserve(o)
  PROVE  HandsOff(o)'
<1>0. /\ TypeOK /\ HandsOff(o) /\ agenda' = agenda /\ job[o].pc = "reserve"
      /\ program.pending <= Len(program.releases) /\ Len(program.releases) \in Nat
      /\ program \in Program
  BY ReserveEffect, ProgramFacts DEF TypeInv, HandOffInv, TypeOK
<1>1. CASE Fails(o, "reservation") \/ Fails(o, "parent")
  BY <1>0, <1>1, FailedHandsOff DEF Fails, Remembers
<1>2. ASSUME TakesRelease(o), program'.pending <= Len(program'.releases),
             program'.releases[program'.pending].agenda = job[o].number
      PROVE  HandsOff(o)'
  <2>1. job[o].number # 0 /\ job[o].number <= Current(agenda)
    BY <1>0 DEF HandsOff, ReadPC
  <2>. QED
    BY <1>0, <1>2, <2>1 DEF HandsOff, TakesRelease, Remembers, ReadPC, ReservedPC
<1>3. CASE program.pending # 0 /\ TakeOver(o) /\ TakesRelease(o)
  <2>1. program.pending \in 1 .. Len(program.releases)
    BY <1>3, PendingIndex
  <2>2. /\ program'.pending = program.pending /\ KeepsReleases
        /\ Len(program'.releases) = Len(program.releases)
    BY <1>0, <1>3, <2>1, TakeOverEffect
  <2>3. program'.releases[program.pending].agenda = job[o].number
    BY <1>3, <2>1, <2>2 DEF TakeOver, Pending, KeepsReleases
  <2>. QED
    BY <1>0, <1>2, <1>3, <2>2, <2>3
<1>4. CASE NewReservation(o) /\ TakesRelease(o)
  <2>1. /\ program'.pending = Len(program.releases) + 1
        /\ Len(program'.releases) = Len(program.releases) + 1
        /\ program'.releases[Len(program.releases) + 1].agenda = job[o].number
    BY <1>0, <1>4, NewReservationEffect
  <2>. QED
    BY <1>0, <1>2, <1>4, <2>1
<1>. QED
  BY <1>1, <1>3, <1>4, ReserveEffect

LEMMA CompleteHandsOff ==
  ASSUME TypeInv, CopyFits, HandOffInv, [Next]_vars, NEW o \in Operation, Complete(o)
  PROVE  HandsOff(o)'
<1>0. /\ TypeOK /\ HandsOff(o) /\ agenda' = agenda /\ job[o].pc = "complete"
  BY CompleteStepEffect DEF TypeInv, HandOffInv
<1>1. CASE Fails(o, "complete")
  BY <1>0, <1>1, FailedHandsOff DEF Fails, Remembers
<1>2. CASE /\ Owns(o) /\ Pending.live /\ program.pending \in 1 .. Len(program.releases)
           /\ Moves(o, "renewServed")
  <2>1. /\ Len(program'.releases) = Len(program.releases) /\ KeepsReleases
        /\ program'.releases[program.pending].lifecycle = "served"
    BY <1>0, <1>2, CompleteEffect
  <2>2. program'.releases[program.pending].agenda = job[o].number
    BY <1>0, <1>2, <2>1 DEF HandsOff, ReservedPC, Owns, KeepsReleases
  <2>3. WasServed(job[o].number)'
    BY <1>2, <2>1, <2>2 DEF WasServed, Moves, Remembers
  <2>. QED
    BY <1>0, <1>2, <2>3 DEF HandsOff, Moves, Remembers, ReadPC, ReservedPC
<1>. QED
  BY <1>1, <1>2, CompleteStepEffect

LEMMA HandsOffStep ==
  ASSUME TypeInv, CopyFits, HandOffInv, [Next]_vars, NEW o \in Operation, OperationStep(o)
  PROVE  HandsOff(o)'
<1>0. TypeOK /\ Current(agenda) \in Nat /\ HandsOff(o)
  BY AgendaFacts DEF TypeInv, HandOffInv
<1>1. CASE Begin(o) \/ Admit(o) \/ FailRebuild(o) \/ Break(o)
  <2>1. /\ job'[o].number = job[o].number
        /\ job'[o].pc \in {"waiting", "load", "failing", "failed", "lost"}
    BY <1>0, <1>1, BeginEffect, AdmitEffect, FailRebuildEffect, BreakEffect
    DEF Moves, Fails, Remembers
  <2>. QED
    BY <2>1, FailedHandsOff
<1>2. CASE Renew(o) \/ Check(o) \/ ReadProgram(o) \/ Latest(o) \/ Reserve(o) \/ Complete(o)
  BY <1>2, RenewHandsOff, ReadingHandsOff, ReserveHandsOff, CompleteHandsOff
<1>3. CASE Load(o)
  <2>1. agenda' = agenda /\ program' = program
    BY <1>0, <1>3, LoadEffect DEF Quiet
  <2>2. CASE job'[o].pc = "renewHand" /\ job'[o].number = Current(agenda)
    BY <1>0, <2>1, <2>2 DEF HandsOff, ReadPC, ReservedPC
  <2>3. CASE /\ job'[o].number = job[o].number
             /\ job'[o].pc \in {"renewSwap", "renewHand", "failing", "failed"}
    BY <2>3, FailedHandsOff
  <2>. QED
    BY <1>0, <1>3, <2>2, <2>3, LoadEffect DEF Moves, Fails, Remembers
<1>4. CASE Swap(o)
  <2>1. Changes(o, job[o].copy)
    BY <1>4 DEF TypeInv, ChangeFits, EditingPC, Swap, At
  <2>2. CASE Fails(o, "swap")
    BY <1>4, <2>2, FailedHandsOff DEF Fails, Remembers, Swap
  <2>3. CASE job'[o].pc = "renewHand" /\ job'[o].number \in {0, Current(agenda')}
    <3>1. Current(agenda)' \in Nat
      BY TypeInvStep, LenProperties DEF TypeInv, TypeOK, Agenda, Current
    <3>2. job'[o].number <= Current(agenda)'
      BY <2>3, <3>1 DEF Current
    <3>. QED
      BY <2>3, <3>2 DEF HandsOff, ReadPC, ReservedPC
  <2>. QED
    BY <1>0, <1>4, <2>1, <2>2, <2>3, SwapEffect
<1>5. CASE Return(o)
  <2>1. agenda' = agenda /\ program' = program /\ Remembers(o) /\ job[o].pc = "return"
    BY <1>0, <1>5, ReturnEffect DEF Quiet
  <2>2. CASE job'[o].pc = "ok"
    BY <1>0, <2>1, <2>2 DEF HandsOff, ReadPC, ReservedPC, Remembers, WasServed
  <2>3. CASE job'[o].pc = "failed"
    BY <2>1, <2>3, FailedHandsOff DEF Remembers
  <2>. QED
    BY <1>0, <1>5, <2>2, <2>3, ReturnEffect
<1>. QED
  BY <1>1, <1>2, <1>3, <1>4, <1>5 DEF OperationStep, MutateStep, HandOffStep

LEMMA HandOffInvStep ==
  ASSUME TypeInv, CopyFits, HandOffInv, [Next]_vars
  PROVE  HandOffInv'
<1>1. ASSUME NEW p \in Operation
      PROVE  HandsOff(p)'
  <2>1. ASSUME NEW o \in Operation, OperationStep(o)
        PROVE  HandsOff(p)'
    <3>1. p # o => job'[p] = job[p]
      BY <2>1, OperationType DEF OthersKeep
    <3>. QED
      BY <2>1, <3>1, HandsOffStep, HandsOffStays
  <2>2. CASE UNCHANGED <<agenda, job>>
    BY <2>2, HandsOffStays
  <2>. QED
    BY <2>1, <2>2, StepCases, TimeKeepsCalls
<1>. QED
  BY <1>1, OrderStep, PendingBuildsStep, ServedTopsStep DEF HandOffInv

LEMMA HandOffInvInit ==
  ASSUME Init
  PROVE  HandOffInv
<1>1. ASSUME NEW o \in Operation PROVE HandsOff(o)
  BY InitFacts DEF HandsOff, ReadPC, ReservedPC
<1>. QED
  BY <1>1, InitFacts DEF HandOffInv, Order, PendingBuilds, ServedTops

LEMMA HandOffInvariant == Spec => [](TypeInv /\ CopyFits /\ HandOffInv)
<1>1. Init => TypeInv /\ CopyFits /\ HandOffInv
  BY TypeInvInit, CopyFitsInit, HandOffInvInit
<1>2. TypeInv /\ CopyFits /\ HandOffInv /\ [Next]_vars => (TypeInv /\ CopyFits /\ HandOffInv)'
  BY TypeInvStep, CopyFitsStep, HandOffInvStep
<1>. QED
  BY <1>1, <1>2, PTL DEF Spec

(* Whatever an operation still does after its lease has lapsed, a commit only *)
(* adds to what the aggregate holds, because writeAggregate compares the      *)
(* version it read; and the program rewrites nothing but its pending release. *)
THEOREM HistoryGrows == Spec => HistoryOnlyGrows
<1>1. ASSUME TypeInv, CopyFits, HandOffInv, [Next]_vars
      PROVE  /\ Extends(agenda.edits, agenda'.edits)
             /\ Extends(agenda.revisions, agenda'.revisions)
             /\ ReleasesKept
  <2>1. program.served <= program'.served
    BY <1>1, ServedGrows DEF HandOffInv, PendingBuilds
  <2>2. ASSUME NEW r \in 1 .. Len(program.releases), program.releases[r].lifecycle # "pending"
        PROVE  r <= Len(program'.releases) /\ program'.releases[r] = program.releases[r]
    BY <1>1, <2>2, SettledStays DEF HandOffInv
  <2>. QED
    BY <1>1, <2>1, <2>2, AgendaGrows DEF ReleasesKept
<1>2. TypeInv /\ CopyFits /\ HandOffInv /\ [Next]_vars =>
        [/\ Extends(agenda.edits, agenda'.edits)
         /\ Extends(agenda.revisions, agenda'.revisions)
         /\ ReleasesKept]_vars
  BY <1>1
<1>. QED
  BY <1>2, HandOffInvariant, PTL DEF Spec, HistoryOnlyGrows

(* completeRebuild replaces the served release by one that was reserved on    *)
(* top of it, so the public steps back only by a rollback.                    *)
THEOREM NeverOlder == Spec => ServedNeverOlder
<1>1. ASSUME TypeInv, CopyFits, HandOffInv, [Next]_vars,
             ServedAgenda(program') < ServedAgenda(program)
      PROVE  program'.releases[program'.served].rollback
  <2>0. /\ PendingBuilds /\ KeepsReleases
        /\ program.served # 0 => program.served \in 1 .. Len(program.releases)
    BY <1>1, ProgramMoves, ProgramFacts DEF HandOffInv
  <2>1. program'.served # program.served
    <3>1. SUFFICES ASSUME program'.served = program.served PROVE FALSE
      OBVIOUS
    <3>2. program.served # 0 =>
            program'.releases[program.served].agenda = program.releases[program.served].agenda
      BY <2>0 DEF KeepsReleases
    <3>3. ServedAgenda(program') = ServedAgenda(program)
      BY <3>1, <3>2 DEF ServedAgenda
    <3>4. ServedAgenda(program) \in Nat
      BY <1>1, ProgramFacts, ServedAgendaType DEF TypeInv, TypeOK
    <3>. QED
      BY <1>1, <3>3, <3>4
  <2>2. CASE Serves
    <3>1. /\ program.pending \in 1 .. Len(program.releases)
          /\ ServedAgenda(program') = program'.releases[program.pending].agenda
      BY <2>2, <1>1, ProgramFacts DEF Serves, ServedAgenda
    <3>2. ServedAgenda(program') = Pending.agenda
      BY <2>0, <3>1 DEF KeepsReleases, Pending
    <3>3. Pending.agenda \in Nat
      BY <1>1, <3>1, ProgramFacts DEF Pending
    <3>4. program.served # 0 => program.releases[program.served].agenda <= Pending.agenda
      BY <1>1, <2>0, <3>1, ProgramFacts DEF PendingBuilds
    <3>5. ServedAgenda(program) <= Pending.agenda
      BY <3>3, <3>4 DEF ServedAgenda
    <3>6. ServedAgenda(program) \in Nat
      BY <1>1, ProgramFacts, ServedAgendaType DEF TypeInv, TypeOK
    <3>. QED
      BY <1>1, <3>2, <3>3, <3>5, <3>6
  <2>3. CASE RollsBack
    BY <2>3 DEF RollsBack
  <2>. QED
    BY <1>1, <2>1, <2>2, <2>3, ProgramMoves DEF Retouches, Reserves, Drops
<1>2. TypeInv /\ CopyFits /\ HandOffInv /\ [Next]_vars =>
        [ServedAgenda(program') < ServedAgenda(program)
           => program'.releases[program'.served].rollback]_vars
  BY <1>1
<1>. QED
  BY <1>2, HandOffInvariant, PTL DEF Spec, ServedNeverOlder

(* afterPublish returns without an error only when its revision is shown, or  *)
(* a later one is, or the organizer has rolled the program back.              *)
THEOREM SuccessServed == Spec => []SuccessIsServed
<1>1. ASSUME TypeInv, HandOffInv
      PROVE  SuccessIsServed
  <2>1. ASSUME NEW o \in Operation, At(o, "ok"), job[o].number # 0,
               job[o].number = Current(agenda),
               ~(program.served # 0 /\ program.releases[program.served].rollback)
        PROVE  ServedAgenda(program) = job[o].number
    <3>1. Order /\ ServedTops /\ HandsOff(o)
      BY <1>1 DEF HandOffInv
    <3>2. WasServed(job[o].number)
      BY <2>1, <3>1 DEF HandsOff, At
    <3>3. PICK r \in 1 .. Len(program.releases) :
            program.releases[r].lifecycle = "served" /\ program.releases[r].agenda = job[o].number
      BY <3>2 DEF WasServed
    <3>4. r \in 1 .. program.served /\ program.served \in 1 .. Len(program.releases)
      BY <1>1, <3>1, <3>3, ProgramFacts DEF Order
    <3>5. program.releases[r].agenda <= program.releases[program.served].agenda
      BY <2>1, <3>1, <3>3, <3>4 DEF ServedTops
    <3>6. program.releases[program.served].agenda <= Current(agenda)
      BY <3>1, <3>4 DEF Order
    <3>. QED
      BY <1>1, <2>1, <3>3, <3>4, <3>5, <3>6, ProgramFacts, AgendaFacts DEF ServedAgenda
  <2>. QED
    BY <2>1 DEF SuccessIsServed
<1>2. TypeInv /\ HandOffInv => SuccessIsServed
  BY <1>1
<1>. QED
  BY <1>2, HandOffInvariant, PTL

(* reserveRebuild supersedes the reservation it does not take over, and a     *)
(* rollback waits until there is none.                                        *)
THEOREM OnePendingRelease == Spec => []OnePending
<1>1. ASSUME TypeInv, HandOffInv
      PROVE  OnePending
  <2>1. Order /\ PendingBuilds /\ ServedTops
    BY <1>1 DEF HandOffInv
  <2>2. program.pending # 0 => program.pending \in 1 .. Len(program.releases)
    BY <1>1, PendingIndex
  <2>3. {r \in 1 .. Len(program.releases) : program.releases[r].lifecycle = "pending"}
          = {program.pending} \ {0}
    BY <1>1, <2>1, <2>2, ProgramFacts DEF Order
  <2>. QED
    BY <2>1, <2>3 DEF OnePending, PendingBuilds, ServedTops
<1>2. TypeInv /\ HandOffInv => OnePending
  BY <1>1
<1>. QED
  BY <1>2, HandOffInvariant, PTL

-----------------------------------------------------------------------------
(* As long as no lease lapses the calls go one after the other.              *)

Alone == \A o \in Operation : job[o].pc \in ActivePC => holder = o

(* Nothing has changed under the call at work, and none has been refused. *)
Serial(o) ==
  /\ job[o].pc \in EditingPC => job[o].copy = agenda
  /\ job[o].pc \in ReservedPC => Owns(o) /\ Pending.live
  /\ job[o].pc \in ReadPC /\ rollbacks = 0 =>
       job[o].parent = program.served /\ job[o].version = program.version
  /\ job[o].reason \notin {"lease", "swap", "complete"}
  /\ job[o].reason \in {"reservation", "unserved"} => faults > 0
  /\ job[o].reason = "parent" => rollbacks > 0

(* Only the call at work has a reservation. *)
Reserving ==
  LiveReservation => \E o \in Operation : Pending.owner = o /\ job[o].pc \in ReservedPC

(* Until a revision is served, the call that made it is still handing it off. *)
FirstPC == {"renewHand", "check", "program"} \cup ReadPC \cup ReservedPC

FirstHandOff ==
  program.served = 0 /\ Current(agenda) > 0 =>
    \E o \in Operation :
      job[o].pc \in FirstPC /\ job[o].number = Current(agenda) /\ job[o].kind # "refresh"

SerialInv ==
  /\ rollbacks > 0 => program.served # 0
  /\ lapses = 0 =>
       /\ Alone
       /\ \A o \in Operation : Serial(o)
       /\ faults = 0 => Reserving /\ FirstHandOff

LEMMA WorkingPC ==
  EditingPC \cup ReservedPC \cup ReadPC \cup FirstPC \subseteq ActivePC
BY ActiveKnown DEF EditingPC, ReservedPC, ReadPC, FirstPC

LEMMA WorkKeepsLease ==
  ASSUME TypeInv, NEW o \in Operation, OperationStep(o), ~Begin(o), ~Admit(o)
  PROVE  /\ job[o].pc \in ActivePC
         /\ \/ holder' = holder
            \/ holder = o /\ holder' = NoOperation /\ job'[o].pc \notin ActivePC
<1>0. TypeOK
  BY DEF TypeInv
<1>1. job[o].pc \in ActivePC
  BY ActiveKnown DEF OperationStep, MutateStep, HandOffStep, Renew, Load, Swap, Return,
     Check, ReadProgram, Latest, Reserve, Complete, FailRebuild, Break, At
<1>2. ASSUME NEW pc \in {"ok", "failed"}, NEW reason \in Reason, End(o, pc, reason)
      PROVE  \/ holder' = holder
             \/ holder = o /\ holder' = NoOperation /\ job'[o].pc \notin ActivePC
  <2>1. job'[o].pc = pc
    BY <1>0, <1>2, EndEffect
  <2>. QED
    BY <1>2, <2>1, ActiveKnown DEF End, Yield, leaseVars
<1>3. ASSUME NEW reason \in Reason, Throw(o, reason)
      PROVE  \/ holder' = holder
             \/ holder = o /\ holder' = NoOperation /\ job'[o].pc \notin ActivePC
  BY <1>2, <1>3 DEF Throw, leaseVars
<1>4. ASSUME UNCHANGED leaseVars PROVE holder' = holder
  BY <1>4 DEF leaseVars
<1>5. \/ UNCHANGED leaseVars
      \/ \E reason \in Reason : Throw(o, reason)
      \/ \E pc \in {"ok", "failed"}, reason \in Reason : End(o, pc, reason)
  <2>0. {"lease", "stale", "blocked", "swap", "none", "unserved", "reservation", "parent",
         "complete", "fault"} \subseteq Reason /\ job[o].reason \in Reason
    BY JobFacts DEF Reason
  <2>1. CASE Renew(o)
    BY <2>0, <2>1 DEF Renew, Step
  <2>2. CASE Load(o)
    BY <2>0, <2>2 DEF Load, Step
  <2>3. CASE Swap(o)
    BY <2>0, <2>3 DEF Swap
  <2>4. CASE Return(o)
    BY <2>0, <2>4 DEF Return
  <2>5. CASE Check(o) \/ Latest(o)
    BY <2>5 DEF Check, Latest, Step
  <2>6. CASE ReadProgram(o)
    BY <2>0, <2>6 DEF ReadProgram, Step
  <2>7. CASE Reserve(o)
    BY <2>0, <2>7 DEF Reserve, Reserved
  <2>8. CASE Complete(o)
    BY <2>0, <2>8 DEF Complete, Step
  <2>9. CASE FailRebuild(o)
    BY <2>0, <2>9 DEF FailRebuild
  <2>10. CASE Break(o)
    BY <2>0, <2>10 DEF Break, Step
  <2>. QED
    BY <2>1, <2>2, <2>3, <2>4, <2>5, <2>6, <2>7, <2>8, <2>9, <2>10
    DEF OperationStep, MutateStep, HandOffStep
<1>. QED
  BY <1>1, <1>2, <1>3, <1>4, <1>5

(* While a call is at work, the others can only be asked for. *)
LEMMA OthersWait ==
  ASSUME TypeInv, Alone, NEW o \in Operation, OperationStep(o),
         NEW p \in Operation \ {o}, job[p].pc \in ActivePC
  PROVE  Begin(o)
<1>1. holder = p
  BY DEF Alone
<1>2. ~Admit(o)
  BY <1>1, PublicationAssumption DEF Admit, Grant
<1>3. job[o].pc \notin ActivePC
  BY <1>1 DEF Alone
<1>. QED
  BY <1>2, <1>3, WorkKeepsLease

LEMMA AloneStep ==
  ASSUME TypeInv, Alone, [Next]_vars, lapses = 0, lapses' = 0
  PROVE  Alone'
<1>1. ASSUME NEW o \in Operation, OperationStep(o), NEW p \in Operation,
             job'[p].pc \in ActivePC
      PROVE  holder' = p
  <2>1. CASE p # o
    <3>1. job'[p] = job[p]
      BY <1>1, <2>1, OperationType DEF OthersKeep
    <3>2. Begin(o) /\ holder = p
      BY <1>1, <2>1, <3>1, OthersWait DEF Alone
    <3>. QED
      BY <3>2 DEF Begin, leaseVars
  <2>2. CASE p = o
    <3>1. CASE Begin(o)
      BY <1>1, <2>2, <3>1, BeginEffect, ActiveKnown DEF TypeInv
    <3>2. CASE Admit(o)
      BY <2>2, <3>2 DEF Admit, Grant
    <3>3. CASE ~Begin(o) /\ ~Admit(o)
      BY <1>1, <2>2, <3>3, WorkKeepsLease DEF Alone
    <3>. QED
      BY <3>1, <3>2, <3>3
  <2>. QED
    BY <2>1, <2>2
<1>2. CASE LeaseLapses
  <2>1. job[holder].pc = "lost" /\ job' = job
    BY <1>2 DEF LeaseLapses, Lapse, At
  <2>2. \A p \in Operation : job[p].pc \notin ActivePC
    BY <2>1, ActiveKnown DEF Alone
  <2>. QED
    BY <2>1, <2>2 DEF Alone
<1>3. CASE Rollback \/ ReservationExpires \/ UNCHANGED vars
  BY <1>3 DEF Rollback, ReservationExpires, vars, leaseVars, Alone
<1>. QED
  BY <1>1, <1>2, <1>3, StepCases DEF Alone

LEMMA CountersFacts ==
  ASSUME TypeInv, [Next]_vars
  PROVE  /\ lapses \in Nat /\ faults \in Nat /\ rollbacks \in Nat
         /\ lapses' \in Nat /\ faults' \in Nat /\ rollbacks' \in Nat
         /\ lapses <= lapses' /\ faults <= faults' /\ rollbacks <= rollbacks'
BY CountersMove DEF TypeInv, TypeOK

(* A call that does not move. *)
LEMMA SerialStays ==
  ASSUME TypeInv, Alone, [Next]_vars, lapses = 0, lapses' = 0,
         NEW p \in Operation, Serial(p), job'[p] = job[p],
         \/ \E o \in Operation \ {p} : OperationStep(o)
         \/ Rollback \/ LeaseLapses \/ ReservationExpires \/ UNCHANGED vars
  PROVE  Serial(p)'
<1>0. /\ job[p].reason \notin {"lease", "swap", "complete"}
      /\ job[p].reason \in {"reservation", "unserved"} => faults' > 0
      /\ job[p].reason = "parent" => rollbacks' > 0
  BY CountersFacts DEF Serial
<1>1. CASE job[p].pc \notin ActivePC
  BY <1>0, <1>1, WorkingPC DEF Serial
<1>2. CASE UNCHANGED <<agenda, program>>
  <2>1. Owns(p) /\ Pending.live => Owns(p)' /\ Pending'.live
    BY <1>2 DEF Owns, Pending
  <2>2. rollbacks' = 0 => rollbacks = 0
    BY CountersFacts
  <2>. QED
    BY <1>0, <1>2, <2>1, <2>2 DEF Serial
<1>3. ASSUME NEW o \in Operation \ {p}, OperationStep(o), job[p].pc \in ActivePC
      PROVE  UNCHANGED <<agenda, program>>
  BY <1>3, OthersWait DEF Begin
<1>4. CASE Rollback
  <2>1. job[p].pc \notin ReservedPC
    BY <1>4 DEF Rollback, Serial, Owns, TypeInv, PendingExists
  <2>2. rollbacks' # 0
    BY <1>4, CountersFacts DEF Rollback
  <2>3. agenda' = agenda
    BY <1>4 DEF Rollback
  <2>. QED
    BY <1>0, <2>1, <2>2, <2>3 DEF Serial
<1>5. CASE ReservationExpires /\ job[p].pc \in ActivePC
  <2>1. Pending.owner # p
    BY <1>5, CountersFacts DEF ReservationExpires, Lapse
  <2>2. job[p].pc \notin ReservedPC
    BY <2>1 DEF Serial, Owns
  <2>3. program.pending \in 1 .. Len(program.releases)
    BY <1>5, PendingIndex DEF ReservationExpires, LiveReservation
  <2>4. program'.served = program.served /\ program'.version = program.version
    BY <1>5, <2>3, ExpireEffect DEF TypeInv
  <2>5. agenda' = agenda /\ rollbacks' = rollbacks
    BY <1>5 DEF ReservationExpires
  <2>. QED
    BY <1>0, <2>2, <2>4, <2>5 DEF Serial
<1>6. CASE LeaseLapses \/ UNCHANGED vars
  BY <1>2, <1>6 DEF LeaseLapses, vars
<1>. QED
  BY <1>1, <1>2, <1>3, <1>4, <1>5, <1>6

(* The call at work: what it finds is as it left it. *)
LEMMA SerialReserve ==
  ASSUME TypeInv, HandOffInv, SerialInv, lapses = 0, [Next]_vars,
         NEW o \in Operation, Reserve(o)
  PROVE  Serial(o)'
<1>0. /\ TypeOK /\ Alone /\ Serial(o) /\ job[o].pc = "reserve" /\ agenda' = agenda
      /\ faults \in Nat /\ rollbacks \in Nat /\ UNCHANGED <<faults, rollbacks>>
      /\ program.pending <= Len(program.releases) /\ program \in Program
  BY ReserveEffect, CountersFacts, ProgramFacts DEF TypeInv, TypeOK, SerialInv, Reserve
<1>1. CASE LiveReservation /\ Fails(o, "reservation")
  <2>1. faults # 0
    <3>1. SUFFICES ASSUME faults = 0 PROVE FALSE
      OBVIOUS
    <3>2. PICK p \in Operation : job[p].pc \in ReservedPC
      BY <1>1, <3>1 DEF SerialInv, Reserving
    <3>3. holder = p /\ holder = o
      BY <1>0, <3>2, WorkingPC, ActiveKnown DEF Alone
    <3>. QED
      BY <1>0, <3>2, <3>3 DEF ReservedPC
  <2>. QED
    BY <1>0, <1>1, <2>1 DEF Serial, Fails, EditingPC, ReservedPC, ReadPC
<1>2. CASE /\ job[o].parent # program.served \/ job[o].version # program.version
           /\ Fails(o, "parent")
  <2>1. rollbacks # 0
    BY <1>0, <1>2 DEF Serial, ReadPC
  <2>. QED
    BY <1>0, <1>2, <2>1 DEF Serial, Fails, EditingPC, ReservedPC, ReadPC
<1>3. ASSUME TakesRelease(o), program'.releases[program'.pending].owner = o,
             program'.releases[program'.pending].live
      PROVE  Serial(o)'
  BY <1>0, <1>3 DEF Serial, TakesRelease, Owns, Pending, EditingPC, ReservedPC, ReadPC
<1>4. CASE program.pending # 0 /\ TakeOver(o) /\ TakesRelease(o)
  <2>1. program.pending \in 1 .. Len(program.releases)
    BY <1>4, PendingIndex
  <2>2. /\ program'.pending = program.pending
        /\ program'.releases[program.pending].owner = o
        /\ program'.releases[program.pending].live = TRUE
    BY <1>0, <1>4, <2>1, TakeOverEffect
  <2>. QED
    BY <1>3, <1>4, <2>2
<1>5. CASE NewReservation(o) /\ TakesRelease(o)
  <2>1. /\ program'.pending = Len(program.releases) + 1
        /\ program'.releases[Len(program.releases) + 1].owner = o
        /\ program'.releases[Len(program.releases) + 1].live = TRUE
    BY <1>0, <1>5, NewReservationEffect
  <2>. QED
    BY <1>3, <1>5, <2>1
<1>. QED
  BY <1>1, <1>2, <1>4, <1>5, ReserveEffect

LEMMA SerialReadProgram ==
  ASSUME TypeInv, HandOffInv, SerialInv, lapses = 0, [Next]_vars,
         NEW o \in Operation, ReadProgram(o)
  PROVE  Serial(o)'
<1>0. /\ TypeOK /\ Alone /\ Serial(o) /\ job[o].pc = "program"
      /\ agenda' = agenda /\ program' = program
      /\ faults \in Nat /\ UNCHANGED <<faults, rollbacks>>
      /\ program.served <= Len(program.releases)
  BY ReadProgramEffect, CountersFacts, ProgramFacts
  DEF TypeInv, TypeOK, SerialInv, ReadProgram, Quiet
<1>1. CASE Moves(o, "return")
  BY <1>0, <1>1 DEF Serial, Moves, EditingPC, ReservedPC, ReadPC
<1>2. CASE /\ job[o].kind = "refresh" /\ program.served = 0 /\ Fails(o, "unserved")
  <2>1. faults # 0
    <3>1. SUFFICES ASSUME faults = 0 PROVE FALSE
      OBVIOUS
    <3>2. job[o].number # 0 /\ job[o].number <= Current(agenda) /\ job[o].number \in Nat
      BY <1>0, JobFacts DEF HandOffInv, HandsOff
    <3>3. Current(agenda) > 0
      BY <3>2, AgendaFacts
    <3>4. PICK p \in Operation : job[p].pc \in FirstPC /\ job[p].kind # "refresh"
      BY <1>2, <3>1, <3>3 DEF SerialInv, FirstHandOff
    <3>5. holder = p /\ holder = o
      BY <1>0, <3>4, WorkingPC, ActiveKnown DEF Alone
    <3>. QED
      BY <1>2, <3>4, <3>5
  <2>. QED
    BY <1>0, <1>2, <2>1 DEF Serial, Fails, EditingPC, ReservedPC, ReadPC
<1>3. CASE /\ job'[o].pc = "renewLatest" /\ job'[o].reason = job[o].reason
           /\ job'[o].parent = program.served
           /\ job'[o].version = program.version
  BY <1>0, <1>3 DEF Serial, EditingPC, ReservedPC, ReadPC
<1>. QED
  BY <1>0, <1>1, <1>2, <1>3, ReadProgramEffect

LEMMA SerialWorks ==
  ASSUME TypeInv, HandOffInv, SerialInv, lapses = 0, [Next]_vars,
         NEW o \in Operation, OperationStep(o)
  PROVE  Serial(o)'
<1>0. /\ TypeOK /\ Alone /\ Serial(o)
      /\ faults \in Nat /\ rollbacks \in Nat /\ faults' \in Nat /\ rollbacks' \in Nat
      /\ faults <= faults' /\ rollbacks <= rollbacks'
  BY CountersFacts DEF TypeInv, SerialInv
<1>1. CASE Begin(o) \/ Admit(o) \/ Check(o) \/ Break(o)
  <2>1. /\ job'[o].pc \in {"waiting", "load", "program", "return", "lost", "failed", "failing"}
        /\ job'[o].reason \in {job[o].reason, "fault"}
    BY <1>0, <1>1, BeginEffect, AdmitEffect, CheckEffect, BreakEffect DEF Moves, Fails
  <2>. QED
    BY <1>0, <2>1 DEF Serial, EditingPC, ReservedPC, ReadPC
<1>2. CASE Return(o) \/ FailRebuild(o)
  <2>1. job[o].pc \in {"return", "failing"}
    BY <1>0, <1>2, ReturnEffect, FailRebuildEffect
  <2>2. holder = o
    BY <1>0, <2>1, ActiveKnown DEF Alone
  <2>3. job'[o].pc \in {"ok", "failed"} /\ job'[o].reason \in {job[o].reason, "none"}
    BY <1>0, <1>2, <2>2, ReturnEffect, FailRebuildEffect
  <2>. QED
    BY <1>0, <2>3 DEF Serial, EditingPC, ReservedPC, ReadPC
<1>3. CASE Renew(o)
  <2>1. job[o].pc \in DOMAIN NextPC
    BY <1>0, <1>3, RenewEffect
  <2>2. holder = o
    BY <1>0, <2>1, ActiveKnown DEF Alone
  <2>3. /\ agenda' = agenda /\ program' = program /\ UNCHANGED <<faults, rollbacks>>
    BY <1>3 DEF Renew
  <2>4. \/ Moves(o, "return")
        \/ Moves(o, "check")
        \/ job[o].pc = "renewSwap" /\ Moves(o, "swap")
        \/ job[o].pc = "renewLatest" /\ Moves(o, "latest")
        \/ job[o].pc = "renewReserve" /\ Moves(o, "reserve")
        \/ job[o].pc = "renewComplete" /\ Moves(o, "complete")
    BY <1>0, <1>3, <2>2, RenewEffect, ActiveKnown
  <2>. QED
    BY <1>0, <2>3, <2>4 DEF Serial, Moves, Owns, Pending, EditingPC, ReservedPC, ReadPC
<1>4. CASE Load(o)
  <2>1. agenda' = agenda
    BY <1>4 DEF Load
  <2>2. CASE /\ job'[o].pc = "renewHand" \/ Fails(o, "stale") \/ Fails(o, "blocked")
             /\ job'[o].reason \in {job[o].reason, "stale", "blocked"}
    <3>1. job'[o].pc \in {"renewHand", "failed", "failing"}
      BY <2>2 DEF Fails
    <3>. QED
      BY <1>0, <2>2, <3>1 DEF Serial, EditingPC, ReservedPC, ReadPC
  <2>3. CASE job'[o].pc = "renewSwap" /\ job'[o].copy = agenda /\ job'[o].reason = job[o].reason
    BY <1>0, <2>1, <2>3 DEF Serial, EditingPC, ReservedPC, ReadPC
  <2>. QED
    BY <1>0, <1>4, <2>2, <2>3, LoadEffect DEF Moves, Fails
<1>5. CASE Swap(o)
  <2>1. Changes(o, job[o].copy) /\ job[o].pc = "swap"
    BY <1>5 DEF TypeInv, ChangeFits, EditingPC, Swap, At
  <2>2. job[o].copy = agenda
    BY <1>0, <2>1 DEF Serial, EditingPC
  <2>3. job'[o].pc = "renewHand" /\ job'[o].reason = job[o].reason
    BY <1>0, <1>5, <2>1, <2>2, SwapEffect
  <2>. QED
    BY <1>0, <2>3 DEF Serial, EditingPC, ReservedPC, ReadPC
<1>6. CASE Latest(o)
  <2>1. /\ job[o].pc = "latest" /\ agenda' = agenda /\ program' = program
        /\ Moves(o, "return") \/ Moves(o, "renewReserve")
    BY <1>0, <1>6, LatestEffect DEF Quiet
  <2>. QED
    BY <1>0, <2>1 DEF Serial, Moves, EditingPC, ReservedPC, ReadPC
<1>7. CASE Complete(o)
  <2>1. Owns(o) /\ Pending.live
    BY <1>0, <1>7, CompleteStepEffect DEF Serial, ReservedPC
  <2>2. Moves(o, "renewServed")
    BY <1>7, <2>1, CompleteStepEffect
  <2>. QED
    BY <1>0, <2>2 DEF Serial, Moves, EditingPC, ReservedPC, ReadPC
<1>8. CASE ReadProgram(o) \/ Reserve(o)
  BY <1>8, SerialReadProgram, SerialReserve
<1>. QED
  BY <1>1, <1>2, <1>3, <1>4, <1>5, <1>6, <1>7, <1>8 DEF OperationStep, MutateStep, HandOffStep

(* Without a fault the call that reserved a release goes on to complete it. *)
LEMMA ReservedGoesOn ==
  ASSUME TypeInv, SerialInv, lapses = 0, faults' = faults, NEW o \in Operation, OperationStep(o),
         job[o].pc \in ReservedPC, ~Complete(o)
  PROVE  Renew(o) /\ job'[o].pc = "complete" /\ job'[o].number = job[o].number
         /\ job'[o].kind = job[o].kind
<1>1. ~Break(o)
  <2>1. faults \in Nat
    BY DEF TypeInv, TypeOK
  <2>. QED
    BY <2>1 DEF Break
<1>2. Renew(o)
  BY <1>1 DEF OperationStep, MutateStep, HandOffStep, Begin, Admit, Load, Swap, Return,
     Check, ReadProgram, Latest, Reserve, FailRebuild, At, ReservedPC
<1>3. holder = o /\ TypeOK
  BY WorkingPC DEF TypeInv, SerialInv, Alone
<1>4. job[o].pc = "renewComplete" /\ Moves(o, "complete")
  BY <1>2, <1>3, RenewEffect, ActiveKnown DEF ReservedPC
<1>. QED
  BY <1>2, <1>4 DEF Moves, Remembers

LEMMA ReservingStep ==
  ASSUME TypeInv, SerialInv, [Next]_vars, lapses = 0, faults = 0, faults' = 0
  PROVE  Reserving'
<1>0. /\ TypeOK /\ Reserving /\ program \in Program
      /\ program.pending <= Len(program.releases)
  BY ProgramFacts DEF TypeInv, TypeOK, SerialInv
<1>1. ASSUME program' = program,
             \A p \in Operation : job[p].pc \in ReservedPC => job'[p].pc \in ReservedPC
      PROVE  Reserving'
  BY <1>0, <1>1 DEF Reserving, LiveReservation, Pending
<1>2. ASSUME program'.pending = 0 \/ ~program'.releases[program'.pending].live
      PROVE  Reserving'
  BY <1>2 DEF Reserving, LiveReservation, Pending
<1>3. ASSUME NEW o \in Operation, OperationStep(o)
      PROVE  Reserving'
  <2>1. \A p \in Operation : p # o => job'[p] = job[p]
    BY <1>3, OperationType DEF OthersKeep
  <2>2. CASE Complete(o)
    <3>1. Owns(o) /\ Pending.live /\ program.pending \in 1 .. Len(program.releases)
      BY <2>2, CompleteStepEffect DEF SerialInv, Serial, ReservedPC
    <3>2. program'.pending = 0
      BY <1>0, <2>2, <3>1, CompleteEffect
    <3>. QED
      BY <1>2, <3>2
  <2>3. CASE FailRebuild(o)
    <3>1. CASE program' = program
      BY <1>1, <2>1, <2>3, <3>1, FailRebuildEffect DEF ReservedPC
    <3>2. CASE program' # program
      <4>1. Owns(o) /\ program.pending \in 1 .. Len(program.releases)
        BY <2>3, <3>2, FailRebuildEffect
      <4>2. program'.pending = 0
        BY <1>0, <2>3, <4>1, FailEffect
      <4>. QED
        BY <1>2, <4>2
    <3>. QED
      BY <3>1, <3>2
  <2>4. CASE Reserve(o)
    <3>1. CASE program' = program /\ ~TakesRelease(o)
      BY <1>1, <2>1, <2>4, <3>1, ReserveEffect DEF ReservedPC
    <3>2. ASSUME TakesRelease(o), program'.releases[program'.pending].owner = o
          PROVE  Reserving'
      BY <3>2 DEF Reserving, TakesRelease, ReservedPC, Pending
    <3>3. CASE program.pending # 0 /\ TakeOver(o) /\ TakesRelease(o)
      <4>1. program.pending \in 1 .. Len(program.releases)
        BY <3>3, PendingIndex
      <4>2. program'.pending = program.pending /\ program'.releases[program.pending].owner = o
        BY <1>0, <3>3, <4>1, TakeOverEffect
      <4>. QED
        BY <3>2, <3>3, <4>2
    <3>4. CASE NewReservation(o) /\ TakesRelease(o)
      <4>1. /\ program'.pending = Len(program.releases) + 1
            /\ program'.releases[Len(program.releases) + 1].owner = o
        BY <1>0, <3>4, NewReservationEffect
      <4>. QED
        BY <3>2, <3>4, <4>1
    <3>5. Fails(o, "reservation") \/ Fails(o, "parent") => ~TakesRelease(o)
      <4>1. job[o].pc = "reserve"
        BY <2>4, ReserveEffect
      <4>. QED
        BY <4>1 DEF Fails, TakesRelease
    <3>. QED
      BY <2>4, <3>1, <3>3, <3>4, <3>5, ReserveEffect
  <2>5. CASE ~Complete(o) /\ ~FailRebuild(o) /\ ~Reserve(o)
    <3>1. program' = program
      BY <1>3, <2>5, OthersLeaveProgram
    <3>2. job[o].pc \in ReservedPC => job'[o].pc \in ReservedPC
      BY <1>3, <2>5, ReservedGoesOn DEF ReservedPC
    <3>. QED
      BY <1>1, <2>1, <3>1, <3>2
  <2>. QED
    BY <2>2, <2>3, <2>4, <2>5
<1>4. CASE Rollback
  <2>1. program.pending = 0
    BY <1>4 DEF Rollback
  <2>2. program'.pending = 0
    BY <1>0, <1>4, <2>1, RollbackEffect
  <2>. QED
    BY <1>2, <2>2
<1>5. CASE ReservationExpires
  <2>1. program.pending \in 1 .. Len(program.releases)
    BY <1>5, PendingIndex DEF ReservationExpires, LiveReservation
  <2>2. program'.pending = program.pending /\ program'.releases[program.pending].live = FALSE
    BY <1>0, <1>5, <2>1, ExpireEffect
  <2>. QED
    BY <1>2, <2>2
<1>6. CASE LeaseLapses \/ UNCHANGED vars
  BY <1>1, <1>6 DEF LeaseLapses, vars
<1>. QED
  BY <1>3, <1>4, <1>5, <1>6, StepCases

(* The hand-off of the first revision reaches completeRebuild. *)
LEMMA FirstGoesOn ==
  ASSUME TypeInv, HandOffInv, SerialInv, [Next]_vars, lapses = 0, faults = 0, faults' = 0,
         NEW o \in Operation, OperationStep(o), program.served = 0, Current(agenda) > 0,
         job[o].pc \in FirstPC, job[o].number = Current(agenda), job[o].kind # "refresh"
  PROVE  \/ program'.served # 0
         \/ /\ job'[o].pc \in FirstPC /\ job'[o].number = job[o].number
            /\ job'[o].kind = job[o].kind
            /\ agenda' = agenda
<1>0. /\ TypeOK /\ HandsOff(o) /\ Serial(o) /\ Alone /\ rollbacks = 0
      /\ holder = o /\ job[o].number \in Nat /\ job[o].number # 0
      /\ program.served <= Len(program.releases)
  <2>1. rollbacks = 0
    BY CountersFacts DEF SerialInv
  <2>. QED
    BY <2>1, WorkingPC, JobFacts, ProgramFacts, AgendaFacts
    DEF TypeInv, HandOffInv, SerialInv, Alone
<1>1. ~Break(o)
  BY CountersFacts DEF Break
<1>2. CASE Renew(o)
  <2>1. agenda' = agenda
    BY <1>2 DEF Renew
  <2>2. \/ job[o].pc = "renewHand" /\ Moves(o, "check")
        \/ job[o].pc = "renewLatest" /\ Moves(o, "latest")
        \/ job[o].pc = "renewReserve" /\ Moves(o, "reserve")
        \/ job[o].pc = "renewComplete" /\ Moves(o, "complete")
    BY <1>0, <1>2, RenewEffect, ActiveKnown DEF FirstPC, ReadPC, ReservedPC
  <2>. QED
    BY <2>1, <2>2 DEF Moves, Remembers, FirstPC, ReadPC, ReservedPC
<1>3. CASE Check(o)
  BY <1>0, <1>3, CheckEffect DEF Quiet, Moves, Remembers, FirstPC
<1>4. CASE ReadProgram(o)
  <2>1. ServedAgenda(program) = 0
    BY DEF ServedAgenda
  <2>2. agenda' = agenda /\ Remembers(o) /\ job'[o].pc = "renewLatest"
    BY <1>0, <1>4, <2>1, ReadProgramEffect DEF Quiet
  <2>. QED
    BY <2>2 DEF Remembers, FirstPC, ReadPC
<1>5. CASE Latest(o)
  <2>1. job[o].pc = "latest"
    BY <1>0, <1>5, LatestEffect
  <2>2. job[o].parent = 0
    BY <1>0, <2>1 DEF Serial, ReadPC
  <2>3. job[o].served = 0
    BY <1>0, <2>1, <2>2 DEF HandsOff, ReadPC
  <2>4. agenda' = agenda /\ Moves(o, "renewReserve")
    BY <1>0, <1>5, <2>3, LatestEffect DEF Quiet
  <2>. QED
    BY <2>4 DEF Moves, Remembers, FirstPC, ReadPC
<1>6. CASE Reserve(o)
  <2>1. job[o].pc = "reserve" /\ agenda' = agenda
    BY <1>6, ReserveEffect
  <2>2. ~LiveReservation
    <3>1. SUFFICES ASSUME LiveReservation PROVE FALSE
      OBVIOUS
    <3>2. PICK p \in Operation : job[p].pc \in ReservedPC
      BY <3>1 DEF SerialInv, Reserving
    <3>3. holder = p
      BY <1>0, <3>2, WorkingPC DEF Alone
    <3>. QED
      BY <1>0, <2>1, <3>2, <3>3 DEF ReservedPC
  <2>3. job[o].parent = program.served /\ job[o].version = program.version
    BY <1>0, <2>1 DEF Serial, ReadPC
  <2>4. TakesRelease(o)
    BY <1>6, <2>2, <2>3, ReserveEffect
  <2>. QED
    BY <2>1, <2>4 DEF TakesRelease, Remembers, FirstPC, ReservedPC
<1>7. CASE Complete(o)
  <2>1. Owns(o) /\ Pending.live /\ program.pending \in 1 .. Len(program.releases)
    BY <1>0, <1>7, CompleteStepEffect DEF Serial, ReservedPC
  <2>2. program'.served = program.pending
    BY <1>0, <1>7, <2>1, CompleteEffect
  <2>. QED
    BY <2>1, <2>2, ProgramFacts
<1>8. ~Begin(o) /\ ~Admit(o) /\ ~Load(o) /\ ~Swap(o) /\ ~Return(o) /\ ~FailRebuild(o)
  BY DEF Begin, Admit, Load, Swap, Return, FailRebuild, At, FirstPC, ReadPC, ReservedPC
<1>. QED
  BY <1>1, <1>2, <1>3, <1>4, <1>5, <1>6, <1>7, <1>8 DEF OperationStep, MutateStep, HandOffStep

LEMMA FirstHandOffStep ==
  ASSUME TypeInv, CopyFits, HandOffInv, SerialInv, [Next]_vars, lapses = 0, faults = 0, faults' = 0
  PROVE  FirstHandOff'
<1>0. SUFFICES ASSUME program'.served = 0, Current(agenda)' > 0
              PROVE  \E o \in Operation : /\ job'[o].pc \in FirstPC
                                          /\ job'[o].number = Current(agenda)'
                                          /\ job'[o].kind # "refresh"
  BY DEF FirstHandOff
<1>1. program.served = 0
  BY <1>0, ServedGrows, ProgramFacts DEF HandOffInv, PendingBuilds
<1>2. CASE Current(agenda) > 0
  <2>1. PICK p \in Operation : /\ job[p].pc \in FirstPC /\ job[p].number = Current(agenda)
                               /\ job[p].kind # "refresh"
    BY <1>1, <1>2 DEF SerialInv, FirstHandOff
  <2>2. ASSUME NEW o \in Operation, OperationStep(o)
        PROVE  /\ job'[p].pc \in FirstPC /\ job'[p].number = Current(agenda)'
               /\ job'[p].kind # "refresh"
    <3>1. CASE p = o
      <4>1. /\ job'[o].pc \in FirstPC /\ job'[o].number = job[o].number
            /\ job'[o].kind = job[o].kind /\ agenda' = agenda
        BY <1>0, <1>1, <1>2, <2>1, <2>2, <3>1, FirstGoesOn
      <4>. QED
        BY <2>1, <3>1, <4>1
    <3>2. CASE p # o
      <4>1. Begin(o) /\ job'[p] = job[p]
        BY <2>1, <2>2, <3>2, WorkingPC, OthersWait, OperationType DEF OthersKeep, SerialInv
      <4>2. agenda' = agenda
        BY <4>1 DEF Begin
      <4>. QED
        BY <2>1, <4>1, <4>2
    <3>. QED
      BY <3>1, <3>2
  <2>3. CASE UNCHANGED <<agenda, job>>
    BY <2>1, <2>3
  <2>. QED
    BY <2>2, <2>3, StepCases, TimeKeepsCalls
<1>3. CASE ~(Current(agenda) > 0)
  <2>1. Current(agenda) = 0 /\ agenda' # agenda
    BY <1>0, <1>3, AgendaFacts
  <2>2. PICK o \in Operation : OperationStep(o) /\ Commits(o)
    BY <2>1, StepCases, TimeKeepsCalls, AgendaMoves
  <2>3. /\ agenda' = Changed(o, agenda) /\ Changes(o, agenda)
        /\ agenda \in Agenda /\ job[o] \in Job
    BY <2>2, CommitEffect, CopyType, AgendaFacts
  <2>4. job[o].kind # "edit"
    <3>1. SUFFICES ASSUME job[o].kind = "edit" PROVE FALSE
      OBVIOUS
    <3>2. agenda'.revisions = agenda.revisions
      BY <2>3, <3>1, ChangedEffect
    <3>. QED
      BY <1>0, <2>1, <3>2 DEF Current
  <2>5. job[o].kind # "refresh"
    BY <2>1, <2>3 DEF Changes
  <2>. QED
    BY <2>2, <2>4, <2>5 DEF Commits, FirstPC, Current
<1>. QED
  BY <1>2, <1>3

LEMMA SerialInvStep ==
  ASSUME TypeInv, CopyFits, HandOffInv, SerialInv, [Next]_vars
  PROVE  SerialInv'
<1>1. rollbacks' > 0 => program'.served # 0
  <2>1. program.served <= program'.served /\ program'.served \in Nat /\ program.served \in Nat
    BY ServedGrows, ProgramFacts, ProgramMoves DEF HandOffInv, PendingBuilds, Program
  <2>2. CASE Rollback
    <3>1. program.served # 0
      BY <2>2 DEF Rollback
    <3>. QED
      BY <2>1, <3>1
  <2>3. CASE rollbacks' = rollbacks
    BY <2>1, <2>3 DEF SerialInv
  <2>4. Rollback \/ rollbacks' = rollbacks
    BY DEF Next, vars, MutateStep, HandOffStep, Begin, Admit, Renew, Load, Swap, Return,
       Check, ReadProgram, Latest, Reserve, Complete, FailRebuild, Break, LeaseLapses,
       ReservationExpires
  <2>. QED
    BY <2>2, <2>3, <2>4
<1>2. ASSUME lapses' = 0
      PROVE  lapses = 0 /\ (faults' = 0 => faults = 0)
  BY <1>2, CountersFacts
<1>3. ASSUME lapses' = 0, NEW p \in Operation
      PROVE  Serial(p)'
  <2>1. ASSUME NEW o \in Operation, OperationStep(o)
        PROVE  Serial(p)'
    <3>1. CASE p = o
      BY <1>2, <1>3, <2>1, <3>1, SerialWorks
    <3>2. CASE p # o
      <4>1. job'[p] = job[p]
        BY <2>1, <3>2, OperationType DEF OthersKeep
      <4>. QED
        BY <1>2, <1>3, <2>1, <3>2, <4>1, SerialStays DEF SerialInv
    <3>. QED
      BY <3>1, <3>2
  <2>2. CASE Rollback \/ LeaseLapses \/ ReservationExpires \/ UNCHANGED vars
    <3>1. job'[p] = job[p]
      BY <2>2, TimeKeepsCalls
    <3>. QED
      BY <1>2, <1>3, <2>2, <3>1, SerialStays DEF SerialInv
  <2>. QED
    BY <2>1, <2>2, StepCases
<1>4. ASSUME lapses' = 0
      PROVE  Alone' /\ (faults' = 0 => Reserving' /\ FirstHandOff')
  BY <1>2, <1>4, AloneStep, ReservingStep, FirstHandOffStep DEF SerialInv
<1>. QED
  BY <1>1, <1>3, <1>4 DEF SerialInv

LEMMA SerialInvInit ==
  ASSUME Init
  PROVE  SerialInv
<1>1. ASSUME NEW o \in Operation
      PROVE  Serial(o) /\ job[o].pc \notin ActivePC
  BY InitFacts, ActiveKnown DEF Serial, EditingPC, ReservedPC, ReadPC
<1>. QED
  BY <1>1, InitFacts DEF SerialInv, Alone, Reserving, LiveReservation, FirstHandOff

(* The coordinator's lease is what keeps mutate's calls apart: as long as it  *)
(* is held throughout, no commit and no completion is ever refused, and the   *)
(* first refusal of a reservation takes a fault or a rollback.                *)
THEOREM SerialConfirm == Spec => []SerialOperationsConfirm
<1>1. Init => SerialInv
  BY SerialInvInit
<1>2. TypeInv /\ CopyFits /\ HandOffInv /\ SerialInv /\ [Next]_vars => SerialInv'
  BY SerialInvStep
<1>3. SerialInv => SerialOperationsConfirm
  BY DEF SerialInv, Serial, SerialOperationsConfirm
<1>. QED
  BY <1>1, <1>2, <1>3, HandOffInvariant, PTL DEF Spec
=============================================================================
