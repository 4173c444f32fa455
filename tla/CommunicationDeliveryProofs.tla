----------------------- MODULE CommunicationDeliveryProofs -----------------------
(***************************************************************************)
(* Theorems about CommunicationDelivery, for any audience and any number   *)
(* of calls, isolates and faults; and, after them, about ReminderDispatch, *)
(* the other sender of mail through the outbox.                            *)
(***************************************************************************)
EXTENDS CommunicationDelivery, SequenceTheorems, TLAPS

LEMMA ChangedParts ==
  ASSUME NEW me \in Writer, NEW r \in Recipients, NEW s \in Status
  PROVE  LET w == Changed(me, r, s) IN
         /\ w \in Writer /\ w.pc = "version" /\ w.target = r
         /\ w.status[r] = s /\ w.events[r] = Append(me.events[r], s)
         /\ \A q \in Recipients : q # r => w.status[q] = me.status[q] /\ w.events[q] = me.events[q]
         /\ w.outcome = me.outcome /\ w.unread = me.unread
            /\ w.todo = me.todo
<1>1. /\ me.status \in [Recipients -> Status] /\ me.events \in [Recipients -> Seq(Status)]
      /\ me.todo \subseteq Recipients /\ me.outcome \in Status
      /\ me.unread \subseteq Parts /\ me.version \in Nat
  BY DEF Writer
<1>2. Append(me.events[r], s) \in Seq(Status)
  BY <1>1
<1>. DEFINE e == Append(me.events[r], s)
            st == [me.status EXCEPT ![r] = s]
            ev == [me.events EXCEPT ![r] = e]
<1>3. st \in [Recipients -> Status] /\ st[r] = s
      /\ \A q \in Recipients : q # r => st[q] = me.status[q]
  BY <1>1
<1>. HIDE DEF e
<1>4. ev \in [Recipients -> Seq(Status)] /\ ev[r] = e
      /\ \A q \in Recipients : q # r => ev[q] = me.events[q]
  BY <1>1, <1>2 DEF e
<1>. HIDE DEF st, ev
<1>5. Changed(me, r, s) = [me EXCEPT !.pc = "version", !.target = r, !.status = st, !.events = ev]
  BY <1>1 DEF Changed, st, ev, e, Writer
<1>. DEFINE w == [me EXCEPT !.pc = "version", !.target = r, !.status = st, !.events = ev]
<1>6. /\ w \in Writer /\ w.pc = "version" /\ w.target = r /\ w.status = st /\ w.events = ev
      /\ w.outcome = me.outcome /\ w.unread = me.unread
         /\ w.todo = me.todo
  BY <1>3, <1>4 DEF Writer
<1>. HIDE DEF w
<1>. QED
  BY <1>3, <1>4, <1>5, <1>6 DEF w, e

-----------------------------------------------------------------------------
Has(s, x) == \E i \in 1 .. Len(s) : s[i] = x

Continues(t, s) == Len(s) <= Len(t) /\ \A i \in 1 .. Len(s) : t[i] = s[i]

Grow == \A r \in Recipients : Continues(events'[r], events[r])

(* The copy of a writer is one that D1 had, but for the change it makes. *)
Changing(w) == w.pc \in {"version", "save"}

Traced(w, r) ==
  /\ Continues(events[r], w.events[r])
  /\ w.status[r] # "queued" => Has(events[r], w.status[r])

OneEntryAhead(w) ==
  LET mine == w.events[w.target] IN
  /\ Len(mine) > 0 /\ mine[Len(mine)] = w.status[w.target]
  /\ Len(mine) - 1 <= Len(events[w.target])
  /\ \A i \in 1 .. Len(mine) - 1 : events[w.target][i] = mine[i]

CopySound(w) ==
  /\ \A r \in Recipients : ~(Changing(w) /\ r = w.target) => Traced(w, r)
  /\ Changing(w) => OneEntryAhead(w)

(* What an isolate is about to settle a job with. *)
ReportSound(w) ==
  /\ w.pc \in {"read", "version", "save", "mark"} => w.outcome # "queued"
  /\ Changing(w) => w.status[w.target] = w.outcome
  /\ w.pc = "mark" => Has(events[w.target], w.outcome)

WriterSound(p) ==
  /\ CopySound(writer[p])
  /\ p \in Workers => ReportSound(writer[p])
  /\ ~created => writer[p].pc = "idle" \/ (p \in Calls /\ writer[p].pc = "create")

StatusSound == \A r \in Recipients : status[r] # "queued" => Has(events[r], status[r])
JobsSound == \A r \in Recipients :
  /\ job[r] = "delivered" => Has(events[r], "delivered")
  /\ job[r] = "dead" => Has(events[r], "failed")
Unsent == ~created => \A r \in Recipients : events[r] = <<>> /\ job[r] = "none"

Sound ==
  /\ \A p \in Writers : WriterSound(p)
  /\ StatusSound /\ JobsSound /\ Unsent

IInv == TypeOK /\ Sound

LEMMA ContinuesParts ==
  /\ \A s \in Seq(Status) : Continues(s, s)
  /\ \A s \in Seq(Status) : Continues(s, <<>>)
  /\ \A s, t, u \in Seq(Status) : Continues(t, s) /\ Continues(u, t) => Continues(u, s)
  /\ \A s, t \in Seq(Status), x \in Status : Continues(t, s) /\ Has(s, x) => Has(t, x)
<1>1. \A s \in Seq(Status) : Len(s) \in Nat /\ Len(<<>>) = 0
  OBVIOUS
<1>2. \A s \in Seq(Status) : Continues(s, s) /\ Continues(s, <<>>)
  BY <1>1 DEF Continues
<1>3. \A s, t, u \in Seq(Status) : Continues(t, s) /\ Continues(u, t) => Continues(u, s)
  BY <1>1 DEF Continues
<1>4. \A s, t \in Seq(Status), x \in Status : Continues(t, s) /\ Has(s, x) => Has(t, x)
  BY <1>1 DEF Continues, Has
<1>. QED
  BY <1>2, <1>3, <1>4

LEMMA WriterParts ==
  ASSUME NEW w \in Writer
  PROVE  /\ w.target \in Recipients /\ w.outcome \in Status
         /\ w.status \in [Recipients -> Status] /\ w.events \in [Recipients -> Seq(Status)]
         /\ w.version \in Nat /\ w.unread \subseteq Parts /\ w.todo \subseteq Recipients
  BY DEF Writer

LEMMA IdleParts ==
  /\ Idle \in Writer /\ Idle.pc = "idle"
  /\ \A r \in Recipients : Idle.status[r] = "queued" /\ Idle.events[r] = <<>>
<1>. DEFINE x == CHOOSE r \in Recipients : TRUE
<1>1. x \in Recipients
  BY RecipientsAssumption
<1>. HIDE DEF x
<1>. QED
  BY <1>1 DEF Idle, Writer, Status, x

(* A copy of a writer that has not changed is as sound as before. *)
LEMMA TracedKept ==
  ASSUME TypeOK, TypeOK', Grow, NEW w \in Writer, NEW r \in Recipients, Traced(w, r)
  PROVE  Traced(w, r)'
<1>1. /\ events[r] \in Seq(Status) /\ events'[r] \in Seq(Status) /\ w.events[r] \in Seq(Status)
      /\ w.status[r] \in Status
  BY WriterParts DEF TypeOK
<1>2. Continues(events'[r], events[r])
  BY DEF Grow
<1>. QED
  BY <1>1, <1>2, ContinuesParts DEF Traced

LEMMA AheadKept ==
  ASSUME TypeOK, TypeOK', Grow, NEW w \in Writer, OneEntryAhead(w)
  PROVE  OneEntryAhead(w)'
<1>. DEFINE r == w.target
            mine == w.events[r]
<1>1. /\ r \in Recipients /\ events[r] \in Seq(Status) /\ events'[r] \in Seq(Status)
      /\ mine \in Seq(Status)
  BY WriterParts DEF TypeOK
<1>2. Continues(events'[r], events[r])
  BY <1>1 DEF Grow
<1>3. Len(events[r]) \in Nat /\ Len(events'[r]) \in Nat /\ Len(mine) \in Nat
  BY <1>1
<1>. QED
  BY <1>2, <1>3 DEF OneEntryAhead, Continues

LEMMA CopyKept ==
  ASSUME TypeOK, TypeOK', Grow, NEW w \in Writer, CopySound(w)
  PROVE  CopySound(w)'
  BY TracedKept, AheadKept DEF CopySound, Changing

LEMMA HasKept ==
  ASSUME TypeOK, TypeOK', Grow, NEW r \in Recipients, NEW x \in Status, Has(events[r], x)
  PROVE  Has(events'[r], x)
<1>1. events[r] \in Seq(Status) /\ events'[r] \in Seq(Status) /\ Continues(events'[r], events[r])
  BY DEF TypeOK, Grow
<1>. QED
  BY <1>1, ContinuesParts

LEMMA ReportKept ==
  ASSUME TypeOK, TypeOK', Grow, NEW w \in Writer, ReportSound(w)
  PROVE  ReportSound(w)'
<1>1. w.target \in Recipients /\ w.outcome \in Status
  BY WriterParts
<1>2. Has(events[w.target], w.outcome) => Has(events'[w.target], w.outcome)
  BY <1>1, HasKept
<1>. QED
  BY <1>2 DEF ReportSound, Changing

-----------------------------------------------------------------------------
(* What is kept by a step of one writer. *)
LEMMA OneWriterStep ==
  ASSUME IInv, TypeOK', NEW p \in Writers, NEW w \in Writer, Become(p, w),
         Grow, created => created', StatusSound', JobsSound', Unsent',
         CopySound(w)', p \in Workers => ReportSound(w)',
         ~created' => w.pc = "idle" \/ (p \in Calls /\ w.pc = "create")
  PROVE  IInv'
<1>1. /\ writer'[p] = w /\ \A q \in Writers : q # p => writer'[q] = writer[q]
      /\ \A q \in Writers : writer[q] \in Writer
  BY DEF IInv, TypeOK, Become
<1>2. \A q \in Writers : WriterSound(q)
  BY DEF IInv, Sound
<1>3. ASSUME NEW q \in Writers, q # p
      PROVE  WriterSound(q)'
  <2>1. CopySound(writer[q])'
    BY <1>1, <1>2, CopyKept DEF IInv, WriterSound
  <2>2. q \in Workers => ReportSound(writer[q])'
    BY <1>1, <1>2, ReportKept DEF IInv, WriterSound
  <2>3. (~created' => writer[q].pc = "idle" \/ (q \in Calls /\ writer[q].pc = "create"))
    BY <1>2 DEF WriterSound
  <2>4. writer'[q] = writer[q]
    BY <1>1, <1>3
  <2>. QED
    BY <2>1, <2>2, <2>3, <2>4 DEF WriterSound, CopySound, ReportSound, OneEntryAhead, Traced
<1>4. WriterSound(p)'
  BY <1>1 DEF WriterSound, CopySound, ReportSound, OneEntryAhead, Traced
<1>. QED
  BY <1>3, <1>4 DEF IInv, Sound

(* A job that is settled by this step is one whose outcome was reported. *)
JobsMove ==
  \A r \in Recipients :
    \/ job'[r] = job[r]
    \/ created /\ job'[r] \in {"pending", "open", "claimed"}
    \/ created /\ job'[r] = "delivered" /\ Has(events[r], "delivered")
    \/ created /\ job'[r] = "dead" /\ Has(events[r], "failed")

(* A step that leaves the send in D1 alone. *)
LEMMA QuietStep ==
  ASSUME IInv, NEW p \in Writers, NEW w \in Writer, Become(p, w),
         UNCHANGED <<created, version, status, events>>,
         job' \in [Recipients -> Job], claims' \in [Recipients -> Nat],
         calls' \in Nat, faults' \in Nat, JobsMove,
         CopySound(w), p \in Workers => ReportSound(w),
         ~created => w.pc = "idle" \/ (p \in Calls /\ w.pc = "create")
  PROVE  IInv'
<1>1. TypeOK'
  BY DEF IInv, TypeOK, Become
<1>2. Grow
  BY ContinuesParts DEF Grow, IInv, TypeOK
<1>3. StatusSound'
  BY DEF IInv, Sound, StatusSound
<1>4. JobsSound'
  BY DEF IInv, Sound, JobsSound, JobsMove
<1>5. Unsent'
  BY DEF IInv, Sound, Unsent, JobsMove
<1>6. CopySound(w)' /\ (p \in Workers => ReportSound(w)')
  BY DEF CopySound, ReportSound, OneEntryAhead, Traced
<1>. QED
  BY <1>1, <1>2, <1>3, <1>4, <1>5, <1>6, OneWriterStep

(* A copy that nothing was read into. *)
LEMMA FreshSound ==
  ASSUME IInv, NEW w \in Writer, ~Changing(w),
         \A r \in Recipients : w.status[r] = "queued" /\ w.events[r] = <<>>
  PROVE  CopySound(w)
<1>1. \A r \in Recipients : Continues(events[r], w.events[r])
  BY ContinuesParts DEF IInv, TypeOK
<1>. QED
  BY <1>1 DEF CopySound, Traced

(* A copy that a change was made to. *)
LEMMA ChangedSound ==
  ASSUME IInv, NEW me \in Writer, CopySound(me), ~Changing(me),
         NEW r \in Recipients, NEW s \in Status
  PROVE  CopySound(Changed(me, r, s))
<1>. DEFINE w == Changed(me, r, s)
<1>1. /\ w \in Writer /\ w.pc = "version" /\ w.target = r
      /\ w.status[r] = s /\ w.events[r] = Append(me.events[r], s)
      /\ \A q \in Recipients : q # r => w.status[q] = me.status[q] /\ w.events[q] = me.events[q]
  BY ChangedParts
<1>. HIDE DEF w
<1>2. \A q \in Recipients : Traced(me, q)
  BY DEF CopySound
<1>3. \A q \in Recipients : q # r => Traced(w, q)
  BY <1>1, <1>2 DEF Traced
<1>4. OneEntryAhead(w)
  <2>1. me.events[r] \in Seq(Status) /\ events[r] \in Seq(Status)
    BY WriterParts DEF IInv, TypeOK
  <2>. DEFINE e == me.events[r]
              a == Append(e, s)
  <2>2. /\ Len(e) \in Nat /\ Len(events[r]) \in Nat /\ Len(a) = Len(e) + 1 /\ a[Len(a)] = s
        /\ \A i \in 1 .. Len(e) : a[i] = e[i]
    BY <2>1
  <2>3. Len(e) <= Len(events[r]) /\ \A i \in 1 .. Len(e) : events[r][i] = e[i]
    BY <1>2 DEF Traced, Continues
  <2>4. w.events[w.target] = a /\ w.status[w.target] = s /\ w.target = r
    BY <1>1
  <2>. HIDE DEF a
  <2>5. Len(a) - 1 = Len(e) /\ Len(a) > 0
    BY <2>2
  <2>. QED
    BY <2>2, <2>3, <2>4, <2>5 DEF OneEntryAhead
<1>. QED
  BY <1>1, <1>3, <1>4 DEF CopySound, Changing, w

(* saveSend applied: D1 gets what the copy has of every status, and one entry *)
(* of the history; the copy is then what D1 has.                              *)
LEMMA WriteSound ==
  ASSUME IInv, NEW p \in Writers, NEW me \in Writer, me = writer[p], me.pc = "save",
         Saved(me), Write(me)
  PROVE  /\ version' \in Nat /\ status' \in [Recipients -> Status]
         /\ events' \in [Recipients -> Seq(Status)]
         /\ Grow /\ StatusSound'
         /\ \A r \in Recipients : Traced(me, r)'
         /\ Has(events'[me.target], me.status[me.target])
<1>. DEFINE t == me.target
            e == me.events[t]
<1>1. /\ me \in Writer /\ t \in Recipients /\ e \in Seq(Status)
      /\ me.status \in [Recipients -> Status] /\ me.events \in [Recipients -> Seq(Status)]
      /\ events \in [Recipients -> Seq(Status)] /\ version \in Nat
  BY WriterParts DEF IInv, TypeOK
<1>2. /\ CopySound(me) /\ Changing(me)
  BY DEF IInv, Sound, WriterSound, Changing
<1>3. /\ Len(e) > 0 /\ e[Len(e)] = me.status[t] /\ Len(e) - 1 <= Len(events[t])
      /\ \A i \in 1 .. Len(e) - 1 : events[t][i] = e[i]
      /\ \A r \in Recipients : r # t => Traced(me, r)
  BY <1>2 DEF CopySound, OneEntryAhead
<1>4. Len(e) = Len(events[t]) + 1
  BY DEF Saved, HistoryFits
<1>5. /\ version' = version + 1 /\ status' = me.status
      /\ events' = [events EXCEPT ![t] = e]
  BY DEF Write
<1>. HIDE DEF e, t
<1>6. /\ version' \in Nat /\ status' \in [Recipients -> Status]
      /\ events' \in [Recipients -> Seq(Status)] /\ events'[t] = e
      /\ \A r \in Recipients : r # t => events'[r] = events[r]
  BY <1>1, <1>5
<1>7. Len(e) \in Nat /\ Len(events[t]) \in Nat
  BY <1>1
<1>8. Continues(e, events[t])
  BY <1>3, <1>4, <1>7 DEF Continues
<1>9. Grow
  BY <1>1, <1>6, <1>8, ContinuesParts DEF Grow
<1>10. Has(e, me.status[t])
  BY <1>3, <1>7 DEF Has
<1>11. ASSUME NEW r \in Recipients PROVE Traced(me, r)'
  <2>1. CASE r = t
    BY <1>1, <1>6, <1>10, <2>1, ContinuesParts DEF Traced, e, t
  <2>2. CASE r # t
    BY <1>3, <1>6, <2>2 DEF Traced
  <2>. QED
    BY <2>1, <2>2
<1>12. StatusSound'
  BY <1>5, <1>11 DEF StatusSound, Traced
<1>. QED
  BY <1>6, <1>9, <1>10, <1>11, <1>12 DEF t

(* A step that saves a send: its writer goes on with the same copy, or with none. *)
LEMMA WriteStep ==
  ASSUME IInv, NEW p \in Writers, NEW me \in Writer, me = writer[p], me.pc = "save",
         Saved(me), Write(me), NEW w \in Writer, Become(p, w),
         UNCHANGED <<created, claims, calls>>, faults' \in Nat,
         job' \in [Recipients -> Job],
         \A r \in Recipients : job'[r] = job[r] \/ job'[r] = "open",
         ~Changing(w),
         \/ w.status = me.status /\ w.events = me.events
         \/ \A r \in Recipients : w.status[r] = "queued" /\ w.events[r] = <<>>,
         p \in Workers /\ w.pc \in {"read", "mark"} => w.outcome # "queued",
         p \in Workers /\ w.pc = "mark" => Has(events'[w.target], w.outcome)
  PROVE  IInv'
<1>1. /\ version' \in Nat /\ status' \in [Recipients -> Status]
      /\ events' \in [Recipients -> Seq(Status)]
      /\ Grow /\ StatusSound' /\ \A r \in Recipients : Traced(me, r)'
  BY WriteSound
<1>2. TypeOK'
  BY <1>1 DEF IInv, TypeOK, Become
<1>3. created
  BY DEF IInv, Sound, WriterSound
<1>4. JobsSound'
  <2>1. \A r \in Recipients : /\ Has(events[r], "delivered") => Has(events'[r], "delivered")
                              /\ Has(events[r], "failed") => Has(events'[r], "failed")
    BY <1>1, <1>2, HasKept DEF IInv, Status
  <2>. QED
    BY <2>1 DEF IInv, Sound, JobsSound
<1>5. CopySound(w)'
  <2>1. CASE w.status = me.status /\ w.events = me.events
    BY <1>1, <2>1 DEF CopySound, Traced, Changing
  <2>2. CASE \A r \in Recipients : w.status[r] = "queued" /\ w.events[r] = <<>>
    <3>1. \A r \in Recipients : Continues(events'[r], <<>>)
      BY <1>1, ContinuesParts
    <3>. QED
      BY <2>2, <3>1 DEF CopySound, Traced, Changing
  <2>. QED
    BY <2>1, <2>2
<1>6. Unsent'
  BY <1>3 DEF Unsent
<1>7. p \in Workers => ReportSound(w)'
  BY DEF ReportSound, Changing
<1>. QED
  BY <1>1, <1>2, <1>3, <1>4, <1>5, <1>6, <1>7, OneWriterStep

-----------------------------------------------------------------------------
(* Where the writers are. *)
LEMMA Idles ==
  ASSUME NEW w \in {Idle, [Idle EXCEPT !.pc = "create"],
                    [Idle EXCEPT !.pc = "read", !.unread = Parts]}
  PROVE  /\ w \in Writer /\ ~Changing(w)
         /\ w.pc \in {"idle", "create", "read"}
         /\ \A r \in Recipients : w.status[r] = "queued" /\ w.events[r] = <<>>
<1>1. Idle \in Writer
  BY IdleParts
<1>2. /\ [Idle EXCEPT !.pc = "create"] \in Writer
      /\ [Idle EXCEPT !.pc = "read", !.unread = Parts] \in Writer
  BY <1>1 DEF Writer
<1>3. CASE w = Idle
  BY <1>1, <1>3, IdleParts DEF Changing
<1>4. CASE w = [Idle EXCEPT !.pc = "create"]
  <2>1. /\ w.pc = "create" /\ w.status = Idle.status /\ w.events = Idle.events
    BY <1>1, <1>4 DEF Writer
  <2>. QED
    BY <1>2, <1>4, <2>1, IdleParts DEF Changing
<1>5. CASE w = [Idle EXCEPT !.pc = "read", !.unread = Parts]
  <2>1. /\ w.pc = "read" /\ w.status = Idle.status /\ w.events = Idle.events
    BY <1>1, <1>5 DEF Writer
  <2>. QED
    BY <1>2, <1>5, <2>1, IdleParts DEF Changing
<1>. QED
  BY <1>3, <1>4, <1>5

LEMMA Takes ==
  ASSUME NEW r \in Recipients
  PROVE  LET w == [Idle EXCEPT !.pc = "dispatch", !.target = r] IN
         /\ w \in Writer /\ ~Changing(w) /\ w.pc = "dispatch" /\ w.target = r
         /\ \A q \in Recipients : w.status[q] = "queued" /\ w.events[q] = <<>>
<1>1. Idle \in Writer
  BY IdleParts
<1>. QED
  BY <1>1, IdleParts DEF Changing, Writer

LEMMA Reporters ==
  ASSUME NEW r \in Recipients, NEW o \in {"delivered", "failed"}
  PROVE  LET w == [Idle EXCEPT !.pc = "read", !.target = r, !.outcome = o, !.unread = Parts] IN
         /\ w \in Writer /\ ~Changing(w) /\ w.pc = "read" /\ w.outcome = o
         /\ \A q \in Recipients : w.status[q] = "queued" /\ w.events[q] = <<>>
<1>1. Idle \in Writer
  BY IdleParts
<1>. QED
  BY <1>1, IdleParts DEF Changing, Writer, Status

(* What a fresh copy needs for its step to be quiet. *)
LEMMA FreshStep ==
  ASSUME IInv, NEW p \in Writers, NEW w \in Writer, Become(p, w),
         UNCHANGED <<created, version, status, events>>,
         job' \in [Recipients -> Job], claims' \in [Recipients -> Nat],
         calls' \in Nat, faults' \in Nat, JobsMove, ~Changing(w),
         \A r \in Recipients : w.status[r] = "queued" /\ w.events[r] = <<>>,
         p \in Workers => w.pc # "mark" /\ (w.pc = "read" => w.outcome # "queued"),
         ~created => w.pc = "idle" \/ (p \in Calls /\ w.pc = "create")
  PROVE  IInv'
<1>1. CopySound(w)
  BY FreshSound
<1>2. p \in Workers => ReportSound(w)
  BY DEF ReportSound, Changing
<1>. QED
  BY <1>1, <1>2, QuietStep

LEMMA Facts ==
  ASSUME IInv
  PROVE  /\ created \in BOOLEAN /\ version \in Nat /\ status \in [Recipients -> Status]
         /\ events \in [Recipients -> Seq(Status)] /\ job \in [Recipients -> Job]
         /\ claims \in [Recipients -> Nat] /\ calls \in Nat /\ faults \in Nat
         /\ \A p \in Writers : writer[p] \in Writer /\ WriterSound(p)
         /\ Calls \subseteq Writers /\ Workers \subseteq Writers
         /\ \A c \in Calls : c \notin Workers
  BY WritersAssumption DEF IInv, TypeOK, Sound, Writers

LEMMA IdleStep ==
  ASSUME IInv, NEW p \in Writers, Become(p, Idle),
         UNCHANGED <<created, version, status, events>>,
         job' \in [Recipients -> Job], claims' \in [Recipients -> Nat],
         calls' \in Nat, faults' \in Nat, JobsMove
  PROVE  IInv'
<1>1. /\ Idle \in Writer /\ ~Changing(Idle) /\ Idle.pc = "idle"
      /\ \A r \in Recipients : Idle.status[r] = "queued" /\ Idle.events[r] = <<>>
  BY IdleParts DEF Changing
<1>. QED
  BY <1>1, FreshStep

LEMMA StartSendKeeps ==
  ASSUME IInv, NEW c \in Calls, StartSend(c)
  PROVE  IInv'
<1>. DEFINE w == [Idle EXCEPT !.pc = "create"]
<1>1. /\ w \in Writer /\ ~Changing(w)
      /\ \A r \in Recipients : w.status[r] = "queued" /\ w.events[r] = <<>>
  BY Idles
<1>2. w.pc = "create"
  BY IdleParts DEF Writer
<1>3. Become(c, w)
  BY DEF StartSend
<1>. HIDE DEF w
<1>4. JobsMove /\ calls' \in Nat
  BY Facts DEF StartSend, JobsMove
<1>. QED
  BY <1>1, <1>2, <1>3, <1>4, Facts, FreshStep DEF StartSend

LEMMA StartRetryKeeps ==
  ASSUME IInv, NEW c \in Calls, StartRetry(c)
  PROVE  IInv'
<1>. DEFINE w == [Idle EXCEPT !.pc = "read", !.unread = Parts]
<1>1. /\ w \in Writer /\ ~Changing(w)
      /\ \A r \in Recipients : w.status[r] = "queued" /\ w.events[r] = <<>>
  BY Idles
<1>3. Become(c, w)
  BY DEF StartRetry
<1>. HIDE DEF w
<1>4. JobsMove /\ calls' \in Nat
  BY Facts DEF StartRetry, JobsMove
<1>. QED
  BY <1>1, <1>3, <1>4, Facts, FreshStep DEF StartRetry

(* createSend inserts the send and its first history entries. *)
LEMMA CreateKeeps ==
  ASSUME IInv, NEW c \in Calls, Create(c)
  PROVE  IInv'
<1>0. c \in Writers /\ writer[c] \in Writer /\ c \notin Workers
  BY Facts
<1>1. CASE created
  <2>1. Become(c, Idle)
        /\ UNCHANGED <<created, version, status, events, job, claims, calls, faults>>
    BY <1>1 DEF Create
  <2>2. JobsMove
    BY <2>1 DEF JobsMove
  <2>. QED
    BY <1>0, <2>1, <2>2, Facts, IdleStep
<1>2. CASE ~created
  <2>. DEFINE queued == [r \in Recipients |-> <<"queued">>]
              w == [Idle EXCEPT !.pc = "next", !.todo = Recipients, !.events = queued]
  <2>1. /\ created' = TRUE /\ version' = version + 1 /\ events' = queued /\ Become(c, w)
        /\ UNCHANGED <<status, job, claims, calls, faults>>
    BY <1>2 DEF Create
  <2>2. queued \in [Recipients -> Seq(Status)]
    BY DEF Status
  <2>3. \A r \in Recipients : queued[r] = <<"queued">> /\ events[r] = <<>> /\ job[r] = "none"
    BY <1>2 DEF IInv, Sound, Unsent
  <2>. HIDE DEF queued
  <2>4. /\ w \in Writer /\ w.pc = "next" /\ w.events = queued
        /\ \A r \in Recipients : w.status[r] = "queued"
    BY <2>2, IdleParts DEF Writer
  <2>. HIDE DEF w
  <2>5. TypeOK'
    BY <2>1, <2>2, <2>4, Facts DEF TypeOK, Become, IInv
  <2>6. Grow
    BY <2>1, <2>2, <2>3, ContinuesParts DEF Grow
  <2>7. StatusSound'
    <3>1. ASSUME NEW r \in Recipients PROVE status[r] = "queued"
      <4>1. ~Has(events[r], status[r])
        BY <2>3 DEF Has
      <4>. QED
        BY <4>1 DEF IInv, Sound, StatusSound
    <3>. QED
      BY <2>1, <3>1 DEF StatusSound
  <2>8. JobsSound' /\ Unsent'
    BY <2>1, <2>3 DEF JobsSound, Unsent
  <2>9. CopySound(w)'
    <3>1. \A r \in Recipients : Continues(events'[r], w.events[r])
      BY <2>1, <2>2, <2>4, ContinuesParts
    <3>. QED
      BY <2>4, <3>1 DEF CopySound, Traced, Changing
  <2>. QED
    BY <1>0, <1>2, <2>1, <2>4, <2>5, <2>6, <2>7, <2>8, <2>9, OneWriterStep
<1>. QED
  BY <1>1, <1>2

(* A writer that goes on with the copy it has is as sound as it was. *)
LEMMA SameCopy ==
  ASSUME IInv, NEW me \in Writer, NEW w \in Writer, CopySound(me), ~Changing(me), ~Changing(w),
         w.status = me.status, w.events = me.events
  PROVE  CopySound(w)
  BY DEF CopySound, Traced

LEMMA RetryKeeps ==
  ASSUME IInv, NEW c \in Calls, Retry(c)
  PROVE  IInv'
<1>. DEFINE me == writer[c]
            failed == {r \in Recipients : me.status[r] = "failed"}
            w == [me EXCEPT !.pc = "next", !.todo = failed]
<1>0. /\ c \in Writers /\ me \in Writer /\ c \notin Workers /\ WriterSound(c)
      /\ me.pc = "read"
         /\ UNCHANGED <<created, version, status, events, job, claims, calls, faults>>
      /\ Become(c, Idle) \/ Become(c, w)
  BY Facts DEF Retry
<1>. HIDE DEF failed
<1>1. JobsMove /\ failed \in SUBSET Recipients
  BY <1>0 DEF JobsMove, failed
<1>2. CASE Become(c, Idle)
  BY <1>0, <1>1, <1>2, Facts, IdleStep
<1>3. CASE Become(c, w)
  <2>1. /\ w \in Writer /\ w.status = me.status /\ w.events = me.events
        /\ ~Changing(w)
    BY <1>0, <1>1 DEF Writer, Changing
  <2>2. CopySound(me) /\ ~Changing(me) /\ created
    BY <1>0 DEF WriterSound, Changing
  <2>. HIDE DEF w, me
  <2>3. CopySound(w)
    BY <1>0, <2>1, <2>2, SameCopy
  <2>. QED
    BY <1>0, <1>1, <1>3, <2>1, <2>2, <2>3, Facts, QuietStep DEF me
<1>. QED
  BY <1>0, <1>2, <1>3

LEMMA HalfJobs ==
  ASSUME IInv, created, NEW r \in Recipients, NEW j \in HalfEnqueued(r),
         job' = [job EXCEPT ![r] = j]
  PROVE  job' \in [Recipients -> Job] /\ JobsMove
<1>1. job[r] \in Job /\ (j = job[r] \/ j \in {"pending", "open"})
  BY Facts DEF HalfEnqueued
<1>2. job' \in [Recipients -> Job]
  BY <1>1, Facts DEF Job
<1>3. JobsMove
  BY <1>1, Facts DEF JobsMove
<1>. QED
  BY <1>2, <1>3

LEMMA EnqueueKeeps ==
  ASSUME IInv, NEW c \in Calls, NEW r \in Recipients, Enqueue(c, r)
  PROVE  IInv'
<1>. DEFINE me == writer[c]
            rest == [me EXCEPT !.todo = @ \ {r}]
<1>0. /\ c \in Writers /\ me \in Writer /\ c \notin Workers /\ WriterSound(c)
      /\ me.pc = "next" /\ UNCHANGED <<created, version, status, events, claims, calls>>
  BY Facts DEF Enqueue
<1>1. created /\ CopySound(me) /\ ~Changing(me)
  BY <1>0 DEF WriterSound, Changing
<1>2. /\ rest \in Writer /\ rest.status = me.status /\ rest.events = me.events
      /\ ~Changing(rest)
  <2>1. me.todo \ {r} \in SUBSET Recipients
    BY <1>0, WriterParts
  <2>. QED
    BY <1>0, <2>1 DEF Writer, Changing
<1>3. faults' \in Nat
  BY Facts DEF Enqueue, Fault, NoFault
<1>4. job' \in [Recipients -> Job] /\ JobsMove
  <2>1. CASE job' = IF job[r] \in {"none", "pending"} THEN [job EXCEPT ![r] = "open"] ELSE job
    <3>1. job' \in [Recipients -> Job]
      BY <2>1, Facts DEF Job
    <3>. QED
      BY <1>1, <2>1, <3>1, Facts DEF JobsMove
  <2>2. CASE \E j \in HalfEnqueued(r) : job' = [job EXCEPT ![r] = j]
    BY <1>1, <2>2, HalfJobs
  <2>. QED
    BY <2>1, <2>2 DEF Enqueue
<1>5. PICK s \in Status : Become(c, Changed(rest, r, s))
  BY DEF Enqueue, Status
<1>. HIDE DEF rest
<1>6. CopySound(rest)
  BY <1>0, <1>1, <1>2, SameCopy
<1>. DEFINE w == Changed(rest, r, s)
<1>7. CopySound(w) /\ w \in Writer
  BY <1>2, <1>6, ChangedSound, ChangedParts
<1>. HIDE DEF w
<1>8. Become(c, w)
  BY <1>5 DEF w
<1>. QED
  BY <1>0, <1>1, <1>3, <1>4, <1>7, <1>8, Facts, QuietStep

LEMMA SaveRoundKeeps ==
  ASSUME IInv, NEW c \in Calls, SaveRound(c)
  PROVE  IInv'
<1>. DEFINE me == writer[c]
            w == [me EXCEPT !.pc = "next"]
<1>0. /\ c \in Writers /\ me \in Writer /\ c \notin Workers /\ WriterSound(c)
      /\ me.pc = "save" /\ UNCHANGED <<created, job, claims, calls, faults>>
  BY Facts DEF SaveRound
<1>1. created
  BY <1>0 DEF WriterSound
<1>2. /\ Idle.pc = "idle" /\ Idle \in Writer /\ ~Changing(Idle)
      /\ \A r \in Recipients : Idle.status[r] = "queued" /\ Idle.events[r] = <<>>
  BY Idles, IdleParts
<1>3. CASE ~Saved(me)
  <2>1. UNCHANGED <<version, status, events>> /\ Become(c, Idle)
    BY <1>3 DEF SaveRound
  <2>2. JobsMove
    BY <1>0 DEF JobsMove
  <2>. QED
    BY <1>0, <2>1, <2>2, Facts, IdleStep
<1>4. CASE Saved(me)
  <2>1. Write(me) /\ (Become(c, Idle) \/ Become(c, w))
    BY <1>4 DEF SaveRound
  <2>2. /\ w \in Writer /\ w.status = me.status /\ w.events = me.events
        /\ ~Changing(w)
    BY <1>0 DEF Writer, Changing
  <2>. HIDE DEF w
  <2>3. CASE Become(c, Idle)
    BY <1>0, <1>2, <1>4, <2>1, <2>3, Facts, WriteStep
  <2>4. CASE Become(c, w)
    BY <1>0, <1>4, <2>1, <2>2, <2>4, Facts, WriteStep
  <2>. QED
    BY <2>1, <2>3, <2>4
<1>. QED
  BY <1>3, <1>4

LEMMA LoseCallKeeps ==
  ASSUME IInv, NEW c \in Calls, LoseCall(c)
  PROVE  IInv'
<1>0. /\ c \in Writers /\ writer[c] \in Writer /\ c \notin Workers /\ WriterSound(c)
      /\ UNCHANGED <<created, version, status, events, claims, calls>> /\ faults' \in Nat
      /\ Become(c, Idle)
  BY Facts DEF LoseCall, Fault
<1>1. job' \in [Recipients -> Job] /\ JobsMove
  <2>1. CASE job' = job
    BY <2>1, Facts DEF JobsMove
  <2>2. CASE job' # job
    <3>1. PICK r \in Recipients : \E j \in HalfEnqueued(r) : job' = [job EXCEPT ![r] = j]
      BY <1>0, <2>2, WriterParts DEF LoseCall
    <3>2. created
      BY <1>0, <2>2 DEF LoseCall, WriterSound
    <3>. QED
      BY <3>1, <3>2, HalfJobs
  <2>. QED
    BY <2>1, <2>2
<1>. QED
  BY <1>0, <1>1, Facts, IdleStep

-----------------------------------------------------------------------------
LEMMA ClaimKeeps ==
  ASSUME IInv, NEW v \in Workers, NEW r \in Recipients, Claim(v, r)
  PROVE  IInv'
<1>. DEFINE w == [Idle EXCEPT !.pc = "dispatch", !.target = r]
<1>0. /\ v \in Writers /\ writer[v] \in Writer /\ job[r] = "open"
      /\ UNCHANGED <<created, version, status, events, calls, faults>> /\ Become(v, w)
  BY Facts DEF Claim
<1>1. /\ w \in Writer /\ ~Changing(w) /\ w.pc = "dispatch"
      /\ \A q \in Recipients : w.status[q] = "queued" /\ w.events[q] = <<>>
  BY Takes
<1>. HIDE DEF w
<1>2. created
  BY <1>0 DEF IInv, Sound, Unsent
<1>3. job' \in [Recipients -> Job] /\ claims' \in [Recipients -> Nat]
  BY Facts DEF Claim, Job
<1>4. JobsMove
  BY <1>2, Facts DEF Claim, JobsMove
<1>. QED
  BY <1>0, <1>1, <1>2, <1>3, <1>4, Facts, FreshStep

(* An isolate begins to report, or leaves its job to be claimed again. *)
LEMMA ReportOrLeave ==
  ASSUME IInv, NEW v \in Workers, writer[v].pc # "idle",
         UNCHANGED <<created, version, status, events, claims, calls>>, faults' \in Nat,
         LeaveJob(v) \/ \E o \in {"delivered", "failed"} : Report(v, o)
  PROVE  IInv'
<1>0. /\ v \in Writers /\ writer[v] \in Writer /\ writer[v].target \in Recipients
      /\ WriterSound(v) /\ v \notin Calls /\ created
  BY Facts, WriterParts DEF WriterSound
<1>1. CASE LeaveJob(v)
  <2>1. Become(v, Idle) /\ job' = [job EXCEPT ![writer[v].target] = "open"]
    BY <1>1 DEF LeaveJob
  <2>3. job' \in [Recipients -> Job]
    BY <1>0, <2>1, Facts DEF Job
  <2>. DEFINE t == writer[v].target
  <2>4. JobsMove
    BY <1>0, <2>1, Facts DEF JobsMove
  <2>. QED
    BY <1>0, <2>1, <2>3, <2>4, Facts, IdleStep
<1>2. ASSUME NEW o \in {"delivered", "failed"}, Report(v, o)
      PROVE  IInv'
  <2>. DEFINE w == [Idle EXCEPT !.pc = "read", !.target = writer[v].target,
                                !.outcome = o, !.unread = Parts]
  <2>1. Become(v, w) /\ job' = job
    BY <1>2 DEF Report
  <2>2. /\ w \in Writer /\ ~Changing(w) /\ w.pc = "read" /\ w.outcome = o
        /\ \A q \in Recipients : w.status[q] = "queued" /\ w.events[q] = <<>>
    BY <1>0, <1>2, Reporters
  <2>. HIDE DEF w
  <2>3. JobsMove
    BY <2>1 DEF JobsMove
  <2>. QED
    BY <1>0, <1>2, <2>1, <2>2, <2>3, Facts, FreshStep
<1>. QED
  BY <1>1, <1>2

LEMMA DispatchKeeps ==
  ASSUME IInv, NEW v \in Workers, Dispatch(v)
  PROVE  IInv'
  BY Facts, ReportOrLeave DEF Dispatch, Fail

(* A throw never reports a failure twice. *)
LEMMA ThrowParts ==
  ASSUME NEW v \in Workers, Throw(v)
  PROVE  LeaveJob(v) \/ \E o \in {"delivered", "failed"} : Report(v, o)
  BY DEF Throw, Fail

LEMMA RecordKeeps ==
  ASSUME IInv, NEW v \in Workers, Record(v)
  PROVE  IInv'
<1>. DEFINE me == writer[v]
            r == me.target
            refused == me.status[r] = "delivered" /\ me.outcome # "delivered"
<1>0. /\ v \in Writers /\ me \in Writer /\ r \in Recipients /\ me.outcome \in Status
      /\ WriterSound(v) /\ v \notin Calls
      /\ me.pc = "read" /\ UNCHANGED <<created, version, status, events, claims, calls, faults>>
  BY Facts, WriterParts DEF Record
<1>1. created /\ CopySound(me) /\ ReportSound(me) /\ ~Changing(me)
  BY <1>0 DEF WriterSound, Changing
<1>2. CASE Throw(v)
  BY <1>0, <1>2, Facts, ThrowParts, ReportOrLeave
<1>3. CASE me.status[r] = me.outcome /\ Become(v, [me EXCEPT !.pc = "mark"]) /\ job' = job
  <2>. DEFINE w == [me EXCEPT !.pc = "mark"]
  <2>1. /\ w \in Writer /\ w.pc = "mark" /\ w.status = me.status /\ w.events = me.events
        /\ w.target = r /\ w.outcome = me.outcome /\ ~Changing(w)
    BY <1>0 DEF Writer, Changing
  <2>2. Has(events[r], me.outcome)
    BY <1>0, <1>1, <1>3 DEF CopySound, Traced, ReportSound
  <2>3. JobsMove
    BY <1>3 DEF JobsMove
  <2>4. Become(v, w)
    BY <1>3
  <2>. HIDE DEF w
  <2>5. CopySound(w)
    BY <1>0, <1>1, <2>1, SameCopy
  <2>6. ReportSound(w)
    BY <1>0, <1>1, <2>1, <2>2 DEF ReportSound
  <2>. QED
    BY <1>0, <1>1, <1>3, <2>1, <2>3, <2>4, <2>5, <2>6, Facts, QuietStep
<1>4. CASE Become(v, Changed(me, r, me.outcome)) /\ job' = job
  <2>. DEFINE w == Changed(me, r, me.outcome)
  <2>1. /\ w \in Writer /\ w.pc = "version" /\ w.target = r /\ w.status[r] = me.outcome
        /\ w.outcome = me.outcome
    BY <1>0, ChangedParts
  <2>2. CopySound(w)
    BY <1>0, <1>1, ChangedSound
  <2>3. Become(v, w)
    BY <1>4
  <2>. HIDE DEF w
  <2>4. ReportSound(w)
    BY <1>0, <1>1, <2>1 DEF ReportSound
  <2>5. JobsMove
    BY <1>4 DEF JobsMove
  <2>. QED
    BY <1>0, <1>1, <1>4, <2>1, <2>2, <2>3, <2>4, <2>5, Facts, QuietStep
<1>. QED
  BY <1>2, <1>3, <1>4 DEF Record

LEMMA SaveReportKeeps ==
  ASSUME IInv, NEW v \in Workers, SaveReport(v)
  PROVE  IInv'
<1>. DEFINE me == writer[v]
            t == me.target
<1>0. /\ v \in Writers /\ me \in Writer /\ t \in Recipients /\ me.outcome \in Status
      /\ WriterSound(v) /\ v \notin Calls
      /\ me.pc = "save" /\ UNCHANGED <<created, claims, calls>> /\ faults' \in Nat
  BY Facts, WriterParts DEF SaveReport, Fault, NoFault
<1>1. CopySound(me) /\ ReportSound(me) /\ Changing(me)
  BY <1>0 DEF WriterSound, Changing
<1>2. CASE Saved(me) /\ Write(me) /\ Become(v, [me EXCEPT !.pc = "mark"]) /\ job' = job
  <2>. DEFINE w == [me EXCEPT !.pc = "mark"]
  <2>1. /\ w \in Writer /\ w.pc = "mark" /\ w.status = me.status /\ w.events = me.events
        /\ w.target = t /\ w.outcome = me.outcome /\ ~Changing(w)
    BY <1>0 DEF Writer, Changing
  <2>2. Has(events'[t], me.status[t])
    BY <1>0, <1>2, WriteSound
  <2>3. me.status[t] = me.outcome /\ me.outcome # "queued"
    BY <1>0, <1>1 DEF ReportSound
  <2>4. Become(v, w)
    BY <1>2
  <2>. HIDE DEF w
  <2>5. w.outcome # "queued" /\ Has(events'[w.target], w.outcome)
    BY <2>1, <2>2, <2>3
  <2>. QED
    BY <1>0, <1>2, <2>1, <2>4, <2>5, Facts, WriteStep
<1>3. CASE UNCHANGED <<version, status, events>> /\ Throw(v)
  BY <1>0, <1>3, ThrowParts, ReportOrLeave
<1>4. CASE Saved(me) /\ Write(me) /\ Throw(v)
  <2>1. CASE LeaveJob(v)
    <3>1. Become(v, Idle) /\ job' = [job EXCEPT ![t] = "open"]
      BY <2>1 DEF LeaveJob
    <3>2. /\ Idle \in Writer /\ ~Changing(Idle) /\ Idle.pc = "idle"
          /\ \A r \in Recipients : Idle.status[r] = "queued" /\ Idle.events[r] = <<>>
      BY IdleParts DEF Changing
    <3>4. job' \in [Recipients -> Job] /\ \A r \in Recipients : job'[r] = job[r] \/ job'[r] = "open"
      BY <1>0, <3>1, Facts DEF Job
    <3>. QED
      BY <1>0, <1>4, <3>1, <3>2, <3>4, Facts, WriteStep
  <2>2. ASSUME NEW o \in {"delivered", "failed"}, Report(v, o)
        PROVE  IInv'
    <3>. DEFINE w == [Idle EXCEPT !.pc = "read", !.target = t, !.outcome = o, !.unread = Parts]
    <3>1. Become(v, w) /\ job' = job
      BY <2>2 DEF Report
    <3>2. /\ w \in Writer /\ ~Changing(w) /\ w.pc = "read" /\ w.outcome = o
          /\ \A q \in Recipients : w.status[q] = "queued" /\ w.events[q] = <<>>
      BY <1>0, <2>2, Reporters
    <3>. HIDE DEF w
    <3>. QED
      BY <1>0, <1>4, <2>2, <3>1, <3>2, Facts, WriteStep
  <2>. QED
    BY <1>4, <2>1, <2>2, ThrowParts
<1>. QED
  BY <1>2, <1>3, <1>4 DEF SaveReport

LEMMA MarkKeeps ==
  ASSUME IInv, NEW v \in Workers, Mark(v)
  PROVE  IInv'
<1>. DEFINE me == writer[v]
            t == me.target
            j == IF me.outcome = "delivered" THEN "delivered" ELSE "dead"
<1>0. /\ v \in Writers /\ me \in Writer /\ t \in Recipients /\ me.outcome \in Status
      /\ WriterSound(v) /\ me.pc = "mark" /\ Become(v, Idle)
      /\ UNCHANGED <<created, version, status, events, claims, calls, faults>>
      /\ job' = [job EXCEPT ![t] = j]
  BY Facts, WriterParts DEF Mark
<1>1. created /\ Has(events[t], me.outcome) /\ me.outcome \in {"delivered", "failed"}
  BY <1>0 DEF WriterSound, ReportSound, Status
<1>2. <<j, me.outcome>> \in {<<"delivered", "delivered">>, <<"dead", "failed">>}
  BY <1>1
<1>. HIDE DEF j
<1>3. job' \in [Recipients -> Job]
  BY <1>0, <1>2, Facts DEF Job
<1>4. JobsMove
  BY <1>0, <1>1, <1>2, Facts DEF JobsMove
<1>. QED
  BY <1>0, <1>3, <1>4, Facts, IdleStep

LEMMA LoseWorkerKeeps ==
  ASSUME IInv, NEW v \in Workers, LoseWorker(v)
  PROVE  IInv'
<1>1. faults' \in Nat
  BY Facts DEF LoseWorker, Fault
<1>. QED
  BY <1>1, ReportOrLeave DEF LoseWorker

-----------------------------------------------------------------------------
LEMMA ReadVersionKeeps ==
  ASSUME IInv, NEW p \in Writers, ReadVersion(p)
  PROVE  IInv'
<1>. DEFINE me == writer[p]
            w == [me EXCEPT !.pc = "save", !.version = version]
<1>0. /\ me \in Writer /\ WriterSound(p) /\ me.pc = "version" /\ Become(p, w)
      /\ UNCHANGED <<created, version, status, events, job, claims, calls, faults>>
  BY Facts DEF ReadVersion
<1>1. /\ w \in Writer /\ w.pc = "save" /\ w.status = me.status /\ w.events = me.events
      /\ w.target = me.target /\ w.outcome = me.outcome
  BY <1>0, Facts DEF Writer
<1>. HIDE DEF w
<1>2. CopySound(w) /\ (p \in Workers => ReportSound(w))
  BY <1>0, <1>1 DEF WriterSound, CopySound, ReportSound, Changing, OneEntryAhead, Traced
<1>3. JobsMove /\ created
  BY <1>0 DEF JobsMove, WriterSound
<1>. QED
  BY <1>0, <1>1, <1>2, <1>3, Facts, QuietStep

LEMMA ReadPartKeeps ==
  ASSUME IInv, NEW p \in Writers, NEW part \in Parts, ReadPart(p, part)
  PROVE  IInv'
<1>. DEFINE me == writer[p]
            u == me.unread \ {part}
            st == IF part = "deliveries" THEN status ELSE me.status
            ev == IF part = "history" THEN events ELSE me.events
            w == [me EXCEPT !.unread = u, !.status = st, !.events = ev]
<1>0. /\ me \in Writer /\ WriterSound(p) /\ me.pc = "read" /\ Become(p, w)
      /\ UNCHANGED <<created, version, status, events, job, claims, calls, faults>>
  BY Facts DEF ReadPart
<1>1. CopySound(me) /\ ~Changing(me) /\ created /\ (p \in Workers => ReportSound(me))
  BY <1>0 DEF WriterSound, Changing
<1>2. /\ u \subseteq Parts /\ st \in [Recipients -> Status] /\ ev \in [Recipients -> Seq(Status)]
  BY <1>0, Facts, WriterParts
<1>3. \A r \in Recipients : /\ Continues(events[r], ev[r])
                            /\ st[r] # "queued" => Has(events[r], st[r])
  BY <1>1, Facts, ContinuesParts DEF CopySound, Traced, IInv, Sound, StatusSound
<1>. HIDE DEF u, st, ev
<1>4. /\ w \in Writer /\ w.pc = "read" /\ w.status = st /\ w.events = ev
      /\ w.target = me.target /\ w.outcome = me.outcome
  BY <1>0, <1>2 DEF Writer
<1>. HIDE DEF w
<1>5. CopySound(w) /\ (p \in Workers => ReportSound(w))
  BY <1>0, <1>1, <1>3, <1>4 DEF CopySound, ReportSound, Changing, Traced
<1>6. JobsMove
  BY <1>0 DEF JobsMove
<1>. QED
  BY <1>0, <1>1, <1>4, <1>5, <1>6, Facts, QuietStep

-----------------------------------------------------------------------------
LEMMA InitSound == Init => IInv
<1>. SUFFICES ASSUME Init PROVE IInv
  OBVIOUS
<1>1. TypeOK
  <2>1. /\ status \in [Recipients -> Status] /\ events \in [Recipients -> Seq(Status)]
        /\ job \in [Recipients -> Job]
    BY DEF Init, Status, Job
  <2>2. writer \in [Writers -> Writer]
    BY IdleParts DEF Init
  <2>. QED
    BY <2>1, <2>2 DEF Init, TypeOK
<1>2. ASSUME NEW p \in Writers PROVE WriterSound(p)
  <2>1. writer[p] = Idle /\ created = FALSE
    BY DEF Init
  <2>2. \A r \in Recipients : Continues(events[r], <<>>)
    BY <1>1, ContinuesParts DEF TypeOK
  <2>. QED
    BY <2>1, <2>2, IdleParts DEF WriterSound, CopySound, ReportSound, Changing, Traced
<1>3. StatusSound /\ JobsSound /\ Unsent
  BY DEF Init, StatusSound, JobsSound, Unsent
<1>. QED
  BY <1>1, <1>2, <1>3 DEF IInv, Sound

LEMMA NextSound == IInv /\ [Next]_vars => IInv'
<1>. SUFFICES ASSUME IInv, [Next]_vars PROVE IInv'
  OBVIOUS
<1>1. ASSUME NEW c \in Calls, CallStep(c) PROVE IInv'
  BY <1>1, StartSendKeeps, CreateKeeps, StartRetryKeeps, RetryKeeps, EnqueueKeeps, SaveRoundKeeps,
     LoseCallKeeps DEF CallStep
<1>2. ASSUME NEW v \in Workers, WorkerStep(v) PROVE IInv'
  BY <1>2, ClaimKeeps, DispatchKeeps, RecordKeeps, SaveReportKeeps, MarkKeeps, LoseWorkerKeeps
     DEF WorkerStep
<1>3. ASSUME NEW p \in Writers, ReadVersion(p) \/ \E part \in Parts : ReadPart(p, part)
      PROVE  IInv'
  BY <1>3, ReadVersionKeeps, ReadPartKeeps
<1>4. CASE UNCHANGED vars
  BY <1>4 DEF vars, IInv, TypeOK, Sound, WriterSound, StatusSound, JobsSound, Unsent,
              CopySound, ReportSound, Traced, OneEntryAhead, Changing
<1>. QED
  BY <1>1, <1>2, <1>3, <1>4 DEF Next

LEMMA AlwaysSound == Spec => []IInv
  BY InitSound, NextSound, PTL DEF Spec

-----------------------------------------------------------------------------
(* The histories in D1 only grow. *)
LEMMA CreateGrows ==
  ASSUME IInv, NEW c \in Calls, Create(c)
  PROVE  Grow
<1>1. CASE created
  BY <1>1, Facts, ContinuesParts DEF Create, Grow
<1>2. CASE ~created
  <2>1. \A r \in Recipients : events'[r] = <<"queued">> /\ events[r] = <<>>
    BY <1>2 DEF Create, IInv, Sound, Unsent
  <2>2. <<"queued">> \in Seq(Status)
    BY DEF Status
  <2>. QED
    BY <2>1, <2>2, ContinuesParts DEF Grow
<1>. QED
  BY <1>1, <1>2

LEMMA NextGrows ==
  ASSUME IInv, [Next]_vars
  PROVE  Grow
<1>1. CASE UNCHANGED events
  BY <1>1, Facts, ContinuesParts DEF Grow
<1>2. ASSUME NEW p \in Writers, writer[p].pc = "save", Saved(writer[p]), Write(writer[p])
      PROVE  Grow
  BY <1>2, Facts, WriteSound
<1>3. ASSUME NEW c \in Calls, CallStep(c) PROVE Grow
  <2>1. CASE Create(c)
    BY <2>1, CreateGrows
  <2>2. CASE SaveRound(c)
    BY <1>1, <1>2, <2>2, Facts DEF SaveRound
  <2>3. CASE StartSend(c) \/ StartRetry(c) \/ Retry(c) \/ LoseCall(c)
             \/ \E r \in Recipients : Enqueue(c, r)
    BY <1>1, <2>3 DEF StartSend, StartRetry, Retry, LoseCall, Enqueue
  <2>. QED
    BY <1>3, <2>1, <2>2, <2>3 DEF CallStep
<1>4. ASSUME NEW v \in Workers, WorkerStep(v) PROVE Grow
  <2>1. CASE SaveReport(v)
    BY <1>1, <1>2, <2>1, Facts DEF SaveReport
  <2>2. CASE (\E r \in Recipients : Claim(v, r)) \/ Dispatch(v) \/ Record(v) \/ Mark(v)
        \/ LoseWorker(v)
    BY <1>1, <2>2 DEF Claim, Dispatch, Record, Mark, LoseWorker
  <2>. QED
    BY <1>4, <2>1, <2>2 DEF WorkerStep
<1>5. ASSUME NEW p \in Writers, ReadVersion(p) \/ \E part \in Parts : ReadPart(p, part)
      PROVE  Grow
  BY <1>1, <1>5 DEF ReadVersion, ReadPart
<1>6. CASE UNCHANGED vars
  BY <1>1, <1>6 DEF vars
<1>. QED
  BY <1>3, <1>4, <1>5, <1>6 DEF Next

LEMMA SubSeqOfGrown ==
  ASSUME NEW s \in Seq(Status), NEW t \in Seq(Status), Continues(t, s)
  PROVE  Len(s) <= Len(t) /\ SubSeq(t, 1, Len(s)) = s
<1>1. Len(s) \in Nat /\ Len(t) \in Nat /\ Len(s) <= Len(t) /\ \A i \in 1 .. Len(s) : t[i] = s[i]
  BY DEF Continues
<1>. DEFINE u == SubSeq(t, 1, Len(s))
<1>2. u \in Seq(Status) /\ Len(u) = Len(s) /\ \A i \in 1 .. Len(s) : u[i] = t[i]
  BY <1>1
<1>. HIDE DEF u
<1>3. u = s
  BY <1>1, <1>2, SeqEqual
<1>. QED
  BY <1>1, <1>3 DEF u

-----------------------------------------------------------------------------
(* Sends, deliveries, jobs and the copies that calls and isolates work on    *)
(* keep their types, whatever is read and written between two of their steps. *)
THEOREM TypeCorrect == Spec => []TypeOK
<1>1. IInv => TypeOK
  BY DEF IInv
<1>. QED
  BY <1>1, AlwaysSound, PTL

(* No outbox row of a send says delivered or dead before saveSend has put    *)
(* that outcome into the history of its delivery, though any isolate may be  *)
(* lost, and any call may save, between the report and the mark.             *)
THEOREM SettledReported == Spec => []SettledIsReported
<1>1. IInv => SettledIsReported
  <2>. SUFFICES ASSUME IInv PROVE SettledIsReported
    OBVIOUS
  <2>1. \A r \in Recipients : DOMAIN events[r] = 1 .. Len(events[r])
    BY Facts
  <2>. QED
    BY <2>1 DEF IInv, Sound, JobsSound, SettledIsReported, Has
<1>. QED
  BY <1>1, AlwaysSound, PTL

(* What a send says of a delivery, somebody recorded: saveSend writes the    *)
(* status of every delivery of its copy and the history of one only, and yet *)
(* no copy, however old and though its parts were read at different times,   *)
(* brings back a status whose entry it does not bring along.                 *)
THEOREM StatusRecorded == Spec => []StatusIsRecorded
<1>1. IInv => StatusIsRecorded
  <2>. SUFFICES ASSUME IInv PROVE StatusIsRecorded
    OBVIOUS
  <2>1. \A r \in Recipients : DOMAIN events[r] = 1 .. Len(events[r])
    BY Facts
  <2>. QED
    BY <2>1 DEF IInv, Sound, StatusSound, StatusIsRecorded, Has
<1>. QED
  BY <1>1, AlwaysSound, PTL

(* A save with a stale copy of the send takes no entry from the history of a *)
(* delivery: the guard on updated_at is the read of saveSend itself, and it  *)
(* is the ordinal of the new entry that turns a copy away that fell behind.  *)
THEOREM HistoryIsKept == Spec => HistoryKept
<1>. DEFINE Kept == \A r \in Recipients :
              /\ Len(events[r]) <= Len(events'[r])
              /\ SubSeq(events'[r], 1, Len(events[r])) = events[r]
<1>1. IInv /\ [Next]_vars => Kept
  <2>. SUFFICES ASSUME IInv, [Next]_vars, NEW r \in Recipients
                PROVE  /\ Len(events[r]) <= Len(events'[r])
                       /\ SubSeq(events'[r], 1, Len(events[r])) = events[r]
    OBVIOUS
  <2>1. events[r] \in Seq(Status) /\ events'[r] \in Seq(Status)
    BY NextSound DEF IInv, TypeOK
  <2>2. Continues(events'[r], events[r])
    BY NextGrows DEF Grow
  <2>. QED
    BY <2>1, <2>2, SubSeqOfGrown
<1>2. IInv /\ [Next]_vars => [Kept]_vars
  BY <1>1
<1>. HIDE DEF Kept
<1>3. Spec => [][Kept]_vars
  BY <1>2, AlwaysSound, PTL DEF Spec
<1>. QED
  BY <1>3 DEF HistoryKept, Kept
-----------------------------------------------------------------------------
(***************************************************************************)
(* The reminders.  Their module is taken through INSTANCE, for it declares *)
(* names of CommunicationDelivery; what it assumes of its constants is a   *)
(* hypothesis of every lemma here.                                         *)
(***************************************************************************)
CONSTANTS Executors, Candidates, Unfit, NoCandidate,
          ReminderAttempts, ReminderClaims, ReminderFaults
VARIABLES dispatch, row, message, executor, sweep, worker, mailed, contended, reminderFaults

Reminders == INSTANCE ReminderDispatch WITH
  MaxAttempts <- ReminderAttempts, MaxClaims <- ReminderClaims, MaxFaults <- ReminderFaults,
  faults <- reminderFaults

ReminderBounds ==
  /\ IsFiniteSet(Candidates) /\ Unfit \subseteq Candidates /\ NoCandidate \notin Candidates
  /\ ReminderAttempts \in Nat \ {0} /\ ReminderClaims \in Nat
  /\ ReminderAttempts <= ReminderClaims /\ ReminderFaults \in Nat

USE DEF ReminderBounds

(* What the assignments to runs, rows and isolates change. *)
LEMMA ExecutorSet ==
  ASSUME ReminderBounds,
         executor \in [Executors -> Reminders!Executor], NEW e \in Executors,
         NEW r \in Reminders!Executor,
         executor' = [executor EXCEPT ![e] = r]
  PROVE  /\ executor' \in [Executors -> Reminders!Executor] /\ executor'[e] = r
         /\ \A f \in Executors : f # e => executor'[f] = executor[f]
  OBVIOUS

LEMMA ExecutorParts ==
  ASSUME ReminderBounds
  PROVE  /\ Reminders!Idle \in Reminders!Executor
         /\ \A x \in Reminders!Executor : /\ x.pc \in {"idle", "next"} \cup Reminders!OnePC
                                          /\ x.todo \subseteq Candidates
                                          /\ x.on \in Candidates \cup {NoCandidate}
  BY DEF Reminders!Executor, Reminders!Idle

LEMMA GoOnSets ==
  ASSUME ReminderBounds,
         executor \in [Executors -> Reminders!Executor], NEW e \in Executors,
         NEW pc \in Reminders!OnePC,
         Reminders!GoOn(e, pc)
  PROVE  /\ executor' \in [Executors -> Reminders!Executor]
         /\ executor'[e].pc = pc /\ executor'[e].on = executor[e].on
         /\ \A f \in Executors : f # e => executor'[f] = executor[f]
<1>. DEFINE r == [executor[e] EXCEPT !.pc = pc]
<1>1. executor' = [executor EXCEPT ![e] = r]
  BY DEF Reminders!GoOn
<1>2. executor[e] \in Reminders!Executor
  OBVIOUS
<1>3. r \in Reminders!Executor /\ r.pc = pc /\ r.on = executor[e].on
  BY <1>2 DEF Reminders!Executor
<1>. HIDE DEF r
<1>. QED
  BY <1>1, <1>3, ExecutorSet

LEMMA SkipSets ==
  ASSUME ReminderBounds,
         executor \in [Executors -> Reminders!Executor], NEW e \in Executors, NEW c \in Candidates,
         Reminders!Skip(e, c)
  PROVE  /\ executor' \in [Executors -> Reminders!Executor]
         /\ executor'[e].pc = "next" /\ executor'[e].on = NoCandidate
         /\ \A f \in Executors : f # e => executor'[f] = executor[f]
<1>. DEFINE t == executor[e].todo \ {c}
            r == [pc |-> "next", todo |-> t, on |-> NoCandidate]
<1>2. executor' = [executor EXCEPT ![e] = r]
  BY DEF Reminders!Skip
<1>3. executor[e] \in Reminders!Executor
  OBVIOUS
<1>4. t \in SUBSET Candidates
  BY <1>3 DEF Reminders!Executor
<1>. HIDE DEF t
<1>5. r \in Reminders!Executor /\ r.pc = "next" /\ r.on = NoCandidate
  BY <1>4 DEF Reminders!Executor
<1>. HIDE DEF r
<1>. QED
  BY <1>2, <1>5, ExecutorSet

LEMMA HoldSets ==
  ASSUME ReminderBounds,
         executor \in [Executors -> Reminders!Executor], NEW e \in Executors,
         NEW pc \in Reminders!OnePC,
         NEW c \in Candidates, Reminders!Hold(e, pc, c)
  PROVE  /\ executor' \in [Executors -> Reminders!Executor]
         /\ executor'[e].pc = pc /\ executor'[e].on = c
         /\ \A f \in Executors : f # e => executor'[f] = executor[f]
<1>. DEFINE r == [pc |-> pc, todo |-> executor[e].todo, on |-> c]
<1>1. executor[e] \in Reminders!Executor
  OBVIOUS
<1>2. executor' = [executor EXCEPT ![e] = r]
  BY DEF Reminders!Hold
<1>3. r \in Reminders!Executor /\ r.pc = pc /\ r.on = c
  BY <1>1 DEF Reminders!Executor
<1>. HIDE DEF r
<1>. QED
  BY <1>2, <1>3, ExecutorSet

LEMMA RestSets ==
  ASSUME ReminderBounds,
         executor \in [Executors -> Reminders!Executor], NEW e \in Executors,
         executor' = [executor EXCEPT ![e] = Reminders!Idle]
  PROVE  /\ executor' \in [Executors -> Reminders!Executor]
         /\ executor'[e].pc = "idle" /\ executor'[e].on = NoCandidate
         /\ \A f \in Executors : f # e => executor'[f] = executor[f]
<1>1. Reminders!Idle.pc = "idle" /\ Reminders!Idle.on = NoCandidate
  BY DEF Reminders!Idle
<1>. QED
  BY <1>1, ExecutorSet, ExecutorParts

LEMMA StartSets ==
  ASSUME ReminderBounds,
         executor \in [Executors -> Reminders!Executor], NEW e \in Executors, Reminders!Start(e)
  PROVE  /\ executor' \in [Executors -> Reminders!Executor]
         /\ executor'[e].pc = "next" /\ executor'[e].on = NoCandidate
         /\ \A f \in Executors : f # e => executor'[f] = executor[f]
<1>. DEFINE r == [pc |-> "next", todo |-> Candidates, on |-> NoCandidate]
<1>2. executor' = [executor EXCEPT ![e] = r]
  BY DEF Reminders!Start
<1>3. r \in Reminders!Executor /\ r.pc = "next" /\ r.on = NoCandidate
  BY DEF Reminders!Executor
<1>. HIDE DEF r
<1>. QED
  BY <1>2, <1>3, ExecutorSet

RowStates == {"none", "pending", "queued", "processing", "delivered", "failed"}

LEMMA RowSet ==
  ASSUME ReminderBounds,
         row \in [Candidates -> Reminders!Row], NEW c \in Candidates, NEW s \in RowStates,
         Reminders!RowState(c, s)
  PROVE  /\ row' \in [Candidates -> Reminders!Row] /\ row'[c].state = s
         /\ \A d \in Candidates : d # c => row'[d] = row[d]
<1>. DEFINE r == [row[c] EXCEPT !.state = s]
<1>1. row' = [row EXCEPT ![c] = r]
  BY DEF Reminders!RowState
<1>2. row[c] \in Reminders!Row
  OBVIOUS
<1>3. r \in Reminders!Row /\ r.state = s
  BY <1>2 DEF Reminders!Row, RowStates
<1>. HIDE DEF r
<1>. QED
  BY <1>1, <1>3

(* A mark changes a pending row only. *)
LEMMA RowMarked ==
  ASSUME ReminderBounds,
         row \in [Candidates -> Reminders!Row], NEW c \in Candidates, Reminders!MarkRow(c)
  PROVE  /\ row' \in [Candidates -> Reminders!Row]
         /\ \A d \in Candidates :
              row'[d] = row[d] \/ (row[d].state = "pending" /\ row'[d].state = "queued")
<1>1. CASE row[c].state = "pending"
  <2>1. Reminders!RowState(c, "queued")
    BY <1>1 DEF Reminders!MarkRow
  <2>. QED
    BY <1>1, <2>1, RowSet DEF RowStates
<1>2. CASE row[c].state # "pending"
  BY <1>2 DEF Reminders!MarkRow
<1>. QED
  BY <1>1, <1>2

LEMMA DispatchSet ==
  ASSUME ReminderBounds,
         dispatch \in [Candidates -> Reminders!Statuses], NEW c \in Candidates,
         NEW s \in Reminders!Statuses,
         Reminders!WriteDispatch(c, s)
  PROVE  /\ dispatch' \in [Candidates -> Reminders!Statuses] /\ dispatch'[c] = s
         /\ \A d \in Candidates : d # c => dispatch'[d] = dispatch[d]
  BY DEF Reminders!WriteDispatch

LEMMA WorkerSet ==
  ASSUME ReminderBounds,
         worker \in [Candidates -> Reminders!WorkerPC], NEW c \in Candidates,
         NEW pc \in Reminders!WorkerPC,
         Reminders!Become(c, pc)
  PROVE  /\ worker' \in [Candidates -> Reminders!WorkerPC] /\ worker'[c] = pc
         /\ \A d \in Candidates : d # c => worker'[d] = worker[d]
  BY DEF Reminders!Become

-----------------------------------------------------------------------------
(* The runs hold copies of dispatches.  Of a dispatch that is not contended *)
(* one run holds a copy, and the copy is what the table has; it is of a     *)
(* status in which no report is accepted, and so the reports of the isolates *)
(* are about dispatches nobody holds.                                        *)

Held(e, c) == executor[e].on = c /\ executor[e].pc # "insert"

Copies ==
  \A e \in Executors, c \in Candidates \ contended :
    Held(e, c) => dispatch[c] = IF executor[e].pc = "decide" THEN "candidate" ELSE "eligible"

OneHolder ==
  \A e, f \in Executors, c \in Candidates \ contended : Held(e, c) /\ Held(f, c) => e = f

AtWork == \A c \in Candidates : worker[c] # "idle" => row[c].state = "processing"

Reported ==
  \A c \in Candidates \ contended :
    /\ worker[c] = "accepted" => dispatch[c] \in {"queued", "unqueued", "provider_accepted"}
    /\ worker[c] = "failed" => dispatch[c] \in {"queued", "unqueued", "provider_accepted", "failed"}
    /\ worker[c] = "settle" => dispatch[c] = "provider_accepted"
    /\ worker[c] = "giveUp" => dispatch[c] = "failed"

EndInv == Reminders!TypeOK /\ Copies /\ OneHolder /\ AtWork /\ Reported /\ Reminders!EndIsRecorded

LEMMA EndInit ==
  ASSUME ReminderBounds
  PROVE Reminders!Init => EndInv
<1>. SUFFICES ASSUME Reminders!Init PROVE EndInv
  OBVIOUS
<1>1. Reminders!TypeOK
  BY ExecutorParts
     DEF Reminders!Init, Reminders!TypeOK, Reminders!Statuses, Reminders!Row, Reminders!WorkerPC,
         Reminders!NoSweep, Reminders!Sweep
<1>2. \A e \in Executors : executor[e].on = NoCandidate
  BY DEF Reminders!Init, Reminders!Idle
<1>. QED
  BY <1>1, <1>2
     DEF Reminders!Init, EndInv, Copies, OneHolder, Held, AtWork, Reported, Reminders!EndIsRecorded

(* What a run takes up: a dispatch nobody else holds, or one it contends. *)
LEMMA TakeUpKeeps ==
  ASSUME ReminderBounds,
         EndInv, NEW e \in Executors, NEW c \in Candidates, Reminders!TakeUp(e, c),
         UNCHANGED <<dispatch, row, message, reminderFaults>>, Reminders!OnlyRuns
  PROVE  EndInv'
<1>. USE DEF EndInv, Reminders!OnlyRuns
<1>1. executor \in [Executors -> Reminders!Executor]
      /\ dispatch \in [Candidates -> Reminders!Statuses]
  BY DEF Reminders!TypeOK
<1>2. CASE ~Reminders!Recoverable(dispatch[c])
  <2>1. Reminders!Skip(e, c) /\ UNCHANGED contended
    BY <1>2 DEF Reminders!TakeUp
  <2>2. /\ executor' \in [Executors -> Reminders!Executor]
        /\ executor'[e].on = NoCandidate
        /\ \A f \in Executors : f # e => executor'[f] = executor[f]
    BY <1>1, <2>1, SkipSets
  <2>3. Reminders!TypeOK'
    BY <2>1, <2>2 DEF Reminders!TypeOK
  <2>4. (Copies /\ OneHolder)'
    BY <2>1, <2>2 DEF Copies, OneHolder, Held
  <2>. QED
    BY <2>1, <2>3, <2>4 DEF AtWork, Reported, Reminders!EndIsRecorded
<1>3. CASE Reminders!Recoverable(dispatch[c])
  <2>. DEFINE pc == IF dispatch[c] = "candidate" THEN "decide" ELSE "row"
  <2>1. /\ Reminders!Hold(e, pc, c)
        /\ contended' = IF dispatch[c] = "unqueued"
                            \/ \E f \in Executors \ {e} : executor[f].on = c
                          THEN contended \cup {c} ELSE contended
    BY <1>3 DEF Reminders!TakeUp
  <2>2. pc \in Reminders!OnePC
    BY DEF Reminders!OnePC
  <2>3. /\ executor' \in [Executors -> Reminders!Executor]
        /\ executor'[e].pc = pc /\ executor'[e].on = c
        /\ \A f \in Executors : f # e => executor'[f] = executor[f]
    BY <1>1, <2>1, <2>2, HoldSets
  <2>4. contended \subseteq contended' /\ contended' \subseteq Candidates
    BY <2>1 DEF Reminders!TypeOK
  <2>5. Reminders!TypeOK'
    BY <2>3, <2>4 DEF Reminders!TypeOK
  <2>6. ASSUME c \notin contended'
        PROVE  /\ dispatch[c] \in {"candidate", "eligible"}
               /\ \A f \in Executors : f # e => executor[f].on # c
    BY <2>1, <2>6, <1>3 DEF Reminders!Recoverable
  <2>7. Copies'
    BY <2>3, <2>4, <2>6 DEF Copies, Held
  <2>8. OneHolder'
    BY <2>3, <2>4, <2>6 DEF OneHolder, Held
  <2>. QED
    BY <2>4, <2>5, <2>7, <2>8 DEF AtWork, Reported, Reminders!EndIsRecorded
<1>. QED
  BY <1>2, <1>3

LEMMA FindKeeps ==
  ASSUME ReminderBounds,
         EndInv, NEW e \in Executors, Reminders!Find(e)
  PROVE  EndInv'
<1>1. PICK c \in executor[e].todo :
         \/ dispatch[c] # "none" /\ Reminders!TakeUp(e, c)
         \/ dispatch[c] = "none" /\ Reminders!Hold(e, "insert", c) /\ UNCHANGED contended
  BY DEF Reminders!Find
<1>2. executor[e] \in Reminders!Executor /\ executor \in [Executors -> Reminders!Executor]
  BY DEF EndInv, Reminders!TypeOK
<1>3. c \in Candidates
  BY <1>2, ExecutorParts
<1>4. UNCHANGED <<dispatch, row, message, reminderFaults>> /\ Reminders!OnlyRuns
  BY DEF Reminders!Find
<1>5. CASE dispatch[c] # "none" /\ Reminders!TakeUp(e, c)
  BY <1>3, <1>4, <1>5, TakeUpKeeps
<1>6. CASE Reminders!Hold(e, "insert", c) /\ UNCHANGED contended
  <2>1. /\ executor' \in [Executors -> Reminders!Executor]
        /\ executor'[e].pc = "insert"
        /\ \A f \in Executors : f # e => executor'[f] = executor[f]
    BY <1>2, <1>3, <1>6, HoldSets DEF Reminders!OnePC
  <2>2. Reminders!TypeOK'
    BY <1>4, <1>6, <2>1 DEF EndInv, Reminders!TypeOK, Reminders!OnlyRuns
  <2>3. (Copies /\ OneHolder)'
    BY <1>4, <1>6, <2>1 DEF EndInv, Copies, OneHolder, Held, Reminders!OnlyRuns
  <2>. QED
    BY <1>4, <1>6, <2>2, <2>3
       DEF EndInv, AtWork, Reported, Reminders!EndIsRecorded, Reminders!OnlyRuns
<1>. QED
  BY <1>1, <1>5, <1>6

(* A dispatch that is held or does not exist is one of which nothing was   *)
(* reported; the status its holder writes is not that of a copy.           *)
LEMMA HeldIsUnreported ==
  ASSUME ReminderBounds,
         EndInv, NEW c \in Candidates, c \notin contended,
         dispatch[c] \in {"none", "candidate", "eligible"}
  PROVE  /\ worker[c] \notin {"accepted", "failed", "settle", "giveUp"}
         /\ row[c].state \notin {"delivered", "failed"}
  BY DEF EndInv, Reported, Reminders!EndIsRecorded

LEMMA InsertKeeps ==
  ASSUME ReminderBounds,
         EndInv, NEW e \in Executors, NEW c \in Candidates, Reminders!Insert(e, c)
  PROVE  EndInv'
<1>. USE DEF EndInv
<1>1. UNCHANGED <<row, message, reminderFaults>> /\ Reminders!OnlyRuns
  BY DEF Reminders!Insert
<1>2. CASE dispatch[c] # "none" /\ Reminders!TakeUp(e, c) /\ UNCHANGED dispatch
  BY <1>1, <1>2, TakeUpKeeps
<1>3. CASE /\ dispatch[c] = "none" /\ Reminders!WriteDispatch(c, "candidate")
           /\ Reminders!Hold(e, "decide", c) /\ UNCHANGED contended
  <2>1. executor \in [Executors -> Reminders!Executor]
        /\ dispatch \in [Candidates -> Reminders!Statuses]
    BY DEF Reminders!TypeOK
  <2>2. /\ executor' \in [Executors -> Reminders!Executor]
        /\ executor'[e].pc = "decide" /\ executor'[e].on = c
        /\ \A f \in Executors : f # e => executor'[f] = executor[f]
    BY <1>3, <2>1, HoldSets DEF Reminders!OnePC
  <2>3. /\ dispatch' \in [Candidates -> Reminders!Statuses] /\ dispatch'[c] = "candidate"
        /\ \A d \in Candidates : d # c => dispatch'[d] = dispatch[d]
    BY <1>3, <2>1, DispatchSet DEF Reminders!Statuses
  <2>4. Reminders!TypeOK'
    BY <1>1, <1>3, <2>2, <2>3 DEF Reminders!TypeOK, Reminders!OnlyRuns
  <2>5. c \notin contended => \A f \in Executors : ~Held(f, c)
    BY <1>3 DEF Copies
  <2>6. (Copies /\ OneHolder)'
    BY <1>3, <2>2, <2>3, <2>5 DEF Copies, OneHolder, Held
  <2>7. (AtWork /\ Reported /\ Reminders!EndIsRecorded)'
    BY <1>1, <1>3, <2>3, HeldIsUnreported
       DEF AtWork, Reported, Reminders!EndIsRecorded, Reminders!OnlyRuns
  <2>. QED
    BY <2>4, <2>6, <2>7
<1>. QED
  BY <1>2, <1>3 DEF Reminders!Insert

(* The writes of a run, after which it holds the dispatch or does not. *)
LEMMA WriteKeeps ==
  ASSUME ReminderBounds,
         EndInv, NEW e \in Executors, NEW c \in Candidates, NEW s \in Reminders!Statuses,
         executor[e].on = c, executor[e].pc # "insert",
         Reminders!WriteDispatch(c, s),
         executor' \in [Executors -> Reminders!Executor],
         \A f \in Executors : f # e => executor'[f] = executor[f],
         \/ executor'[e].on = NoCandidate
         \/ s = "eligible" /\ executor'[e].on = c /\ executor'[e].pc = "row",
         UNCHANGED <<row, message, contended, reminderFaults>>, Reminders!OnlyRuns
  PROVE  EndInv'
<1>. USE DEF EndInv, Reminders!OnlyRuns
<1>1. dispatch \in [Candidates -> Reminders!Statuses]
  BY DEF Reminders!TypeOK
<1>2. /\ dispatch' \in [Candidates -> Reminders!Statuses] /\ dispatch'[c] = s
      /\ \A d \in Candidates : d # c => dispatch'[d] = dispatch[d]
  BY <1>1, DispatchSet
<1>3. Reminders!TypeOK'
  BY <1>2 DEF Reminders!TypeOK
<1>4. Held(e, c)
  BY DEF Held
<1>5. c \notin contended => /\ dispatch[c] \in {"candidate", "eligible"}
                            /\ \A f \in Executors : f # e => ~Held(f, c)
  BY <1>4 DEF Copies, OneHolder
<1>6. (Copies /\ OneHolder)'
  BY <1>2, <1>5 DEF Copies, OneHolder, Held
<1>7. (AtWork /\ Reported /\ Reminders!EndIsRecorded)'
  BY <1>2, <1>5, HeldIsUnreported DEF AtWork, Reported, Reminders!EndIsRecorded
<1>. QED
  BY <1>3, <1>6, <1>7

LEMMA DecideKeeps ==
  ASSUME ReminderBounds,
         EndInv, NEW e \in Executors, NEW c \in Candidates, Reminders!Decide(e, c)
  PROVE  EndInv'
<1>1. executor \in [Executors -> Reminders!Executor]
  BY DEF EndInv, Reminders!TypeOK
<1>2. /\ executor[e].pc = "decide" /\ executor[e].on = c
      /\ UNCHANGED <<row, message, contended, reminderFaults>> /\ Reminders!OnlyRuns
  BY DEF Reminders!Decide, Reminders!At
<1>3. CASE Reminders!WriteDispatch(c, "skipped") /\ Reminders!Skip(e, c)
  BY <1>1, <1>2, <1>3, SkipSets, WriteKeeps DEF Reminders!Statuses
<1>4. CASE Reminders!WriteDispatch(c, "eligible") /\ Reminders!Hold(e, "row", c)
  BY <1>1, <1>2, <1>4, HoldSets, WriteKeeps DEF Reminders!Statuses, Reminders!OnePC
<1>. QED
  BY <1>3, <1>4 DEF Reminders!Decide

LEMMA WriteQueuedKeeps ==
  ASSUME ReminderBounds,
         EndInv, NEW e \in Executors, NEW c \in Candidates,
         Reminders!WriteQueued(e, c) \/ Reminders!WriteUnqueued(e, c)
  PROVE  EndInv'
<1>1. executor \in [Executors -> Reminders!Executor]
  BY DEF EndInv, Reminders!TypeOK
<1>2. /\ executor[e].pc \in {"queued", "failed"} /\ executor[e].on = c /\ Reminders!Skip(e, c)
      /\ UNCHANGED <<row, message, contended, reminderFaults>> /\ Reminders!OnlyRuns
  BY DEF Reminders!WriteQueued, Reminders!WriteUnqueued, Reminders!At
<1>3. PICK s \in {"queued", "unqueued"} : Reminders!WriteDispatch(c, s)
  BY DEF Reminders!WriteQueued, Reminders!WriteUnqueued
<1>. QED
  BY <1>1, <1>2, <1>3, SkipSets, WriteKeeps DEF Reminders!Statuses

(* A run that goes on within enqueue; rows change where they are open. *)
LEMMA DispatchEnqueueKeeps ==
  ASSUME ReminderBounds,
         EndInv, NEW e \in Executors, NEW c \in Candidates,
         Reminders!InsertRow(e, c) \/ Reminders!ReadRow(e, c) \/ Reminders!Send(e, c)
            \/ Reminders!Mark(e, c) \/ Reminders!EnqueueFails(e, c)
  PROVE  EndInv'
<1>. USE DEF EndInv
<1>. DEFINE In == {"row", "read", "send", "mark", "queued"}
            Out == {"read", "send", "mark", "queued", "failed"}
<1>1. /\ executor[e].on = c /\ executor[e].pc \in In
      /\ UNCHANGED <<dispatch, contended>> /\ Reminders!OnlyRuns
  BY DEF Reminders!InsertRow, Reminders!ReadRow, Reminders!Send, Reminders!Mark,
     Reminders!EnqueueFails, Reminders!At
<1>2. PICK pc \in Out : Reminders!GoOn(e, pc)
  BY DEF Reminders!InsertRow, Reminders!ReadRow, Reminders!Send, Reminders!Mark,
     Reminders!EnqueueFails
<1>3. executor \in [Executors -> Reminders!Executor] /\ row \in [Candidates -> Reminders!Row]
  BY DEF Reminders!TypeOK
<1>4. /\ executor' \in [Executors -> Reminders!Executor]
      /\ executor'[e].pc = pc /\ executor'[e].on = c
      /\ \A f \in Executors : f # e => executor'[f] = executor[f]
  BY <1>1, <1>2, <1>3, GoOnSets DEF Reminders!OnePC
<1>5. /\ row' \in [Candidates -> Reminders!Row]
      /\ \A d \in Candidates :
           \/ row'[d] = row[d]
           \/ row[d].state \in {"none", "pending"} /\ row'[d].state \in {"pending", "queued"}
  <2>1. CASE Reminders!InsertRow(e, c)
    <3>1. CASE row[c].state = "none"
      <4>1. Reminders!RowState(c, "pending")
        BY <2>1, <3>1 DEF Reminders!InsertRow, Reminders!RowState
      <4>. QED
        BY <1>3, <3>1, <4>1, RowSet DEF RowStates
    <3>2. CASE row[c].state # "none"
      BY <1>3, <2>1, <3>2 DEF Reminders!InsertRow
    <3>. QED
      BY <3>1, <3>2
  <2>2. CASE Reminders!Mark(e, c)
    BY <1>3, <2>2, RowMarked DEF Reminders!Mark
  <2>3. CASE Reminders!ReadRow(e, c) \/ Reminders!Send(e, c) \/ Reminders!EnqueueFails(e, c)
    BY <1>3, <2>3 DEF Reminders!ReadRow, Reminders!Send, Reminders!EnqueueFails
  <2>. QED
    BY <2>1, <2>2, <2>3
<1>6. message' \subseteq Candidates /\ reminderFaults' \in 0 .. ReminderFaults
  BY DEF Reminders!TypeOK, Reminders!InsertRow, Reminders!ReadRow, Reminders!Send, Reminders!Mark,
     Reminders!EnqueueFails, Reminders!Fault
<1>7. Reminders!TypeOK'
  BY <1>1, <1>4, <1>5, <1>6 DEF Reminders!TypeOK, Reminders!OnlyRuns
<1>8. (Copies /\ OneHolder)'
  BY <1>1, <1>4 DEF Copies, OneHolder, Held
<1>9. (AtWork /\ Reported /\ Reminders!EndIsRecorded)'
  BY <1>1, <1>5 DEF AtWork, Reported, Reminders!EndIsRecorded, Reminders!OnlyRuns
<1>. QED
  BY <1>7, <1>8, <1>9

(* A run begins or ends: it holds nothing. *)
LEMMA BoundaryKeeps ==
  ASSUME ReminderBounds,
         EndInv, NEW e \in Executors,
         Reminders!Start(e) \/ Reminders!Finish(e) \/ Reminders!LoseExecutor(e)
  PROVE  EndInv'
<1>. USE DEF EndInv
<1>1. executor \in [Executors -> Reminders!Executor]
  BY DEF Reminders!TypeOK
<1>2. /\ executor' \in [Executors -> Reminders!Executor] /\ executor'[e].on = NoCandidate
      /\ \A f \in Executors : f # e => executor'[f] = executor[f]
  BY <1>1, StartSets, RestSets DEF Reminders!Finish, Reminders!LoseExecutor
<1>3. UNCHANGED <<dispatch, row, message, contended>> /\ Reminders!OnlyRuns
  BY DEF Reminders!Start, Reminders!Finish, Reminders!LoseExecutor
<1>4. reminderFaults' \in 0 .. ReminderFaults
  BY DEF Reminders!TypeOK, Reminders!Start, Reminders!Finish, Reminders!LoseExecutor,
     Reminders!Fault
<1>5. Reminders!TypeOK'
  BY <1>2, <1>3, <1>4 DEF Reminders!TypeOK, Reminders!OnlyRuns
<1>6. (Copies /\ OneHolder)'
  BY <1>2, <1>3 DEF Copies, OneHolder, Held
<1>. QED
  BY <1>3, <1>5, <1>6 DEF AtWork, Reported, Reminders!EndIsRecorded, Reminders!OnlyRuns

LEMMA SweepKeeps ==
  ASSUME ReminderBounds,
         EndInv, Reminders!SweepStep \/ Reminders!SweepFails
  PROVE  EndInv'
<1>. USE DEF EndInv, Reminders!OnlySweep
<1>1. Reminders!OnlySweep /\ message' \subseteq Candidates
      /\ reminderFaults' \in 0 .. ReminderFaults /\ sweep' \in Reminders!Sweep
  <2>1. sweep \in Reminders!Sweep /\ message \subseteq Candidates
        /\ reminderFaults \in 0 .. ReminderFaults
    BY DEF Reminders!TypeOK
  <2>2. CASE Reminders!SweepSelect
    BY <2>1, <2>2 DEF Reminders!SweepSelect, Reminders!Sweep
  <2>3. CASE Reminders!SweepSend
    BY <2>1, <2>3 DEF Reminders!SweepSend, Reminders!Sweep
  <2>4. CASE Reminders!SweepMark
    BY <2>1, <2>4 DEF Reminders!SweepMark, Reminders!Sweep
  <2>5. CASE Reminders!SweepFails
    BY <2>1, <2>5 DEF Reminders!SweepFails, Reminders!Sweep, Reminders!NoSweep, Reminders!Fault
  <2>. QED
    BY <2>2, <2>3, <2>4, <2>5 DEF Reminders!SweepStep
<1>2. /\ row' \in [Candidates -> Reminders!Row]
      /\ \A d \in Candidates :
           row'[d] = row[d] \/ (row[d].state = "pending" /\ row'[d].state = "queued")
  <2>1. row \in [Candidates -> Reminders!Row] /\ sweep \in Reminders!Sweep
    BY DEF Reminders!TypeOK
  <2>2. CASE Reminders!SweepMark
    <3>1. sweep.on \in Candidates /\ Reminders!MarkRow(sweep.on)
      BY <2>1, <2>2 DEF Reminders!SweepMark, Reminders!Sweep
    <3>. QED
      BY <2>1, <3>1, RowMarked
  <2>3. CASE Reminders!SweepSelect \/ Reminders!SweepSend \/ Reminders!SweepFails
    BY <2>1, <2>3 DEF Reminders!SweepSelect, Reminders!SweepSend, Reminders!SweepFails
  <2>. QED
    BY <2>2, <2>3 DEF Reminders!SweepStep
<1>3. Reminders!TypeOK'
  BY <1>1, <1>2 DEF Reminders!TypeOK
<1>4. (Copies /\ OneHolder)'
  BY <1>1 DEF Copies, OneHolder, Held
<1>. QED
  BY <1>1, <1>2, <1>3, <1>4 DEF AtWork, Reported, Reminders!EndIsRecorded

-----------------------------------------------------------------------------
(* The isolates.  What the runs hold is theirs. *)
LEMMA HoldersStay ==
  ASSUME ReminderBounds,
         EndInv, Reminders!OnlyWorkers, NEW c \in Candidates,
         dispatch' \in [Candidates -> Reminders!Statuses],
         \A d \in Candidates : d # c => dispatch'[d] = dispatch[d],
         \/ dispatch'[c] = dispatch[c]
         \/ c \in contended
         \/ dispatch[c] \notin {"candidate", "eligible"}
  PROVE  (Copies /\ OneHolder)'
<1>. USE DEF EndInv, Reminders!OnlyWorkers
<1>1. OneHolder'
  BY DEF OneHolder, Held
<1>2. c \in contended \/ dispatch'[c] = dispatch[c] \/ \A e \in Executors : ~Held(e, c)
  BY DEF Copies
<1>3. Copies'
  BY <1>2 DEF Copies, Held
<1>. QED
  BY <1>1, <1>3

LEMMA ReceiveKeeps ==
  ASSUME ReminderBounds,
         EndInv, NEW c \in Candidates, Reminders!Receive(c)
  PROVE  EndInv'
<1>. USE DEF EndInv
<1>. DEFINE r == [state |-> "processing", attempts |-> row[c].attempts + 1]
<1>1. row \in [Candidates -> Reminders!Row] /\ worker \in [Candidates -> Reminders!WorkerPC]
      /\ row[c] \in Reminders!Row
  BY DEF Reminders!TypeOK
<1>2. row' = [row EXCEPT ![c] = r] /\ row[c].attempts < ReminderClaims
  BY DEF Reminders!Receive
<1>3. r \in Reminders!Row /\ r.state = "processing"
  BY <1>1, <1>2 DEF Reminders!Row
<1>. HIDE DEF r
<1>4. /\ row' \in [Candidates -> Reminders!Row] /\ row'[c].state = "processing"
      /\ \A d \in Candidates : d # c => row'[d] = row[d]
  BY <1>1, <1>2, <1>3
<1>5. /\ worker' \in [Candidates -> Reminders!WorkerPC] /\ worker'[c] = "send"
      /\ \A d \in Candidates : d # c => worker'[d] = worker[d]
  BY <1>1, WorkerSet DEF Reminders!Receive, Reminders!WorkerPC
<1>6. UNCHANGED <<dispatch, message, mailed, reminderFaults>> /\ Reminders!OnlyWorkers
  BY DEF Reminders!Receive
<1>7. Reminders!TypeOK'
  BY <1>4, <1>5, <1>6 DEF Reminders!TypeOK, Reminders!OnlyWorkers
<1>8. (Copies /\ OneHolder)'
  BY <1>6 DEF Copies, OneHolder, Held, Reminders!OnlyWorkers
<1>. QED
  BY <1>4, <1>5, <1>6, <1>7, <1>8
     DEF AtWork, Reported, Reminders!EndIsRecorded, Reminders!OnlyWorkers

LEMMA DismissKeeps ==
  ASSUME ReminderBounds,
         EndInv, NEW c \in Candidates, Reminders!Dismiss(c)
  PROVE  EndInv'
<1>1. Reminders!TypeOK'
  BY DEF EndInv, Reminders!TypeOK, Reminders!Dismiss, Reminders!OnlyWorkers
<1>. QED
  BY <1>1
     DEF EndInv, Reminders!Dismiss, Reminders!OnlyWorkers, Copies, OneHolder, Held, AtWork,
         Reported, Reminders!EndIsRecorded

(* An isolate moves; it may claim to know of a report only what is so. *)
LEMMA MoveKeeps ==
  ASSUME ReminderBounds,
         EndInv, NEW c \in Candidates, NEW pc \in Reminders!WorkerPC, Reminders!Become(c, pc),
         worker[c] # "idle",
         mailed' \subseteq Candidates, reminderFaults' \in 0 .. ReminderFaults,
         \/ pc \notin {"accepted", "failed", "settle", "giveUp"}
         \/ pc = "accepted" /\ dispatch[c] \in {"queued", "unqueued", "provider_accepted"}
         \/ /\ pc = "failed"
            /\ dispatch[c] \in {"queued", "unqueued", "provider_accepted", "failed"},
         UNCHANGED <<dispatch, row, message>>, Reminders!OnlyWorkers
  PROVE  EndInv'
<1>. USE DEF EndInv, Reminders!OnlyWorkers
<1>1. worker \in [Candidates -> Reminders!WorkerPC]
  BY DEF Reminders!TypeOK
<1>2. /\ worker' \in [Candidates -> Reminders!WorkerPC] /\ worker'[c] = pc
      /\ \A d \in Candidates : d # c => worker'[d] = worker[d]
  BY <1>1, WorkerSet
<1>3. Reminders!TypeOK'
  BY <1>2 DEF Reminders!TypeOK
<1>4. (Copies /\ OneHolder)'
  BY DEF Copies, OneHolder, Held
<1>5. (AtWork /\ Reported)'
  BY <1>2 DEF AtWork, Reported
<1>. QED
  BY <1>3, <1>4, <1>5 DEF Reminders!EndIsRecorded

LEMMA FailingMoves ==
  ASSUME ReminderBounds,
         NEW c \in Candidates, Reminders!FailRetryably(c)
  PROVE  \E pc \in {"fail", "retry"} : Reminders!Become(c, pc)
  BY DEF Reminders!FailRetryably

LEMMA DeliverKeeps ==
  ASSUME ReminderBounds,
         EndInv, NEW c \in Candidates, Reminders!Deliver(c)
  PROVE  EndInv'
<1>1. /\ worker[c] = "send" /\ UNCHANGED <<dispatch, row, message, reminderFaults>>
      /\ Reminders!OnlyWorkers
  BY DEF Reminders!Deliver
<1>2. PICK pc \in {"accept", "fail", "retry"} : Reminders!Become(c, pc)
  BY FailingMoves DEF Reminders!Deliver
<1>3. mailed' \subseteq Candidates /\ reminderFaults' \in 0 .. ReminderFaults
  BY <1>1 DEF Reminders!Deliver, EndInv, Reminders!TypeOK
<1>. QED
  BY <1>1, <1>2, <1>3, MoveKeeps DEF Reminders!WorkerPC

LEMMA ReadDispatchKeeps ==
  ASSUME ReminderBounds,
         EndInv, NEW c \in Candidates, Reminders!ReadDispatch(c)
  PROVE  EndInv'
<1>1. UNCHANGED <<dispatch, row, message, mailed, reminderFaults>> /\ Reminders!OnlyWorkers
  BY DEF Reminders!ReadDispatch
<1>2. mailed' \subseteq Candidates /\ reminderFaults' \in 0 .. ReminderFaults
  BY <1>1 DEF EndInv, Reminders!TypeOK
<1>3. CASE worker[c] = "accept" /\ Reminders!ValidTransition(dispatch[c], "provider_accepted")
  <2>1. Reminders!Become(c, "accepted")
    BY <1>3 DEF Reminders!ReadDispatch
  <2>2. dispatch[c] \in {"queued", "unqueued", "provider_accepted"}
    BY <1>3 DEF Reminders!ValidTransition
  <2>. QED
    BY <1>1, <1>2, <1>3, <2>1, <2>2, MoveKeeps DEF Reminders!WorkerPC
<1>4. CASE worker[c] = "accept" /\ ~Reminders!ValidTransition(dispatch[c], "provider_accepted")
  <2>1. PICK pc \in {"fail", "retry"} : Reminders!Become(c, pc)
    BY <1>4, FailingMoves DEF Reminders!ReadDispatch
  <2>. QED
    BY <1>1, <1>2, <1>4, <2>1, MoveKeeps DEF Reminders!WorkerPC
<1>5. CASE worker[c] = "fail" /\ Reminders!ValidTransition(dispatch[c], "failed")
  <2>1. Reminders!Become(c, "failed")
    BY <1>5 DEF Reminders!ReadDispatch
  <2>2. dispatch[c] \in {"queued", "unqueued", "provider_accepted", "failed"}
    BY <1>5 DEF Reminders!ValidTransition
  <2>. QED
    BY <1>1, <1>2, <1>5, <2>1, <2>2, MoveKeeps DEF Reminders!WorkerPC
<1>6. CASE worker[c] = "fail" /\ ~Reminders!ValidTransition(dispatch[c], "failed")
  <2>1. Reminders!Become(c, "idle")
    BY <1>6 DEF Reminders!ReadDispatch
  <2>. QED
    BY <1>1, <1>2, <1>6, <2>1, MoveKeeps DEF Reminders!WorkerPC
<1>. QED
  BY <1>3, <1>4, <1>5, <1>6 DEF Reminders!ReadDispatch

LEMMA RecordStatusKeeps ==
  ASSUME ReminderBounds,
         EndInv, NEW c \in Candidates, Reminders!RecordStatus(c)
  PROVE  EndInv'
<1>. USE DEF EndInv
<1>1. UNCHANGED <<row, message, mailed, reminderFaults>> /\ Reminders!OnlyWorkers
  BY DEF Reminders!RecordStatus
<1>2. worker \in [Candidates -> Reminders!WorkerPC]
      /\ dispatch \in [Candidates -> Reminders!Statuses]
  BY DEF Reminders!TypeOK
<1>. DEFINE done == IF worker[c] = "accepted" THEN "provider_accepted" ELSE "failed"
            pc == IF worker[c] = "accepted" THEN "settle" ELSE "giveUp"
<1>3. /\ worker[c] \in {"accepted", "failed"}
      /\ Reminders!WriteDispatch(c, done) /\ Reminders!Become(c, pc)
  BY DEF Reminders!RecordStatus
<1>4. /\ dispatch' \in [Candidates -> Reminders!Statuses] /\ dispatch'[c] = done
      /\ \A d \in Candidates : d # c => dispatch'[d] = dispatch[d]
  BY <1>2, <1>3, DispatchSet DEF Reminders!Statuses
<1>5. /\ worker' \in [Candidates -> Reminders!WorkerPC] /\ worker'[c] = pc
      /\ \A d \in Candidates : d # c => worker'[d] = worker[d]
  BY <1>2, <1>3, WorkerSet DEF Reminders!WorkerPC
<1>6. Reminders!TypeOK'
  BY <1>1, <1>4, <1>5 DEF Reminders!TypeOK, Reminders!OnlyWorkers
<1>7. c \in contended \/ dispatch[c] \notin {"candidate", "eligible"}
  BY <1>3 DEF Reported
<1>8. (Copies /\ OneHolder)'
  BY <1>1, <1>4, <1>7, HoldersStay
<1>9. row[c].state = "processing"
  BY <1>3 DEF AtWork
<1>10. (AtWork /\ Reported /\ Reminders!EndIsRecorded)'
  BY <1>1, <1>4, <1>5, <1>9 DEF AtWork, Reported, Reminders!EndIsRecorded, Reminders!OnlyWorkers
<1>. QED
  BY <1>6, <1>8, <1>10

LEMMA SettleKeeps ==
  ASSUME ReminderBounds,
         EndInv, NEW c \in Candidates, Reminders!Settle(c)
  PROVE  EndInv'
<1>. USE DEF EndInv
<1>1. UNCHANGED <<dispatch, message, mailed, reminderFaults>> /\ Reminders!OnlyWorkers
      /\ Reminders!Become(c, "idle")
  BY DEF Reminders!Settle
<1>2. row \in [Candidates -> Reminders!Row] /\ worker \in [Candidates -> Reminders!WorkerPC]
  BY DEF Reminders!TypeOK
<1>3. /\ worker' \in [Candidates -> Reminders!WorkerPC] /\ worker'[c] = "idle"
      /\ \A d \in Candidates : d # c => worker'[d] = worker[d]
  BY <1>1, <1>2, WorkerSet DEF Reminders!WorkerPC
<1>4. PICK s \in {"delivered", "queued", "failed"} :
        /\ Reminders!RowState(c, s)
        /\ s = "delivered" => worker[c] = "settle"
        /\ s = "failed" => worker[c] = "giveUp"
  BY DEF Reminders!Settle
<1>5. /\ row' \in [Candidates -> Reminders!Row] /\ row'[c].state = s
      /\ \A d \in Candidates : d # c => row'[d] = row[d]
  BY <1>2, <1>4, RowSet DEF RowStates
<1>6. Reminders!TypeOK'
  BY <1>1, <1>3, <1>5 DEF Reminders!TypeOK, Reminders!OnlyWorkers
<1>7. (Copies /\ OneHolder)'
  BY <1>1 DEF Copies, OneHolder, Held, Reminders!OnlyWorkers
<1>8. (AtWork /\ Reported)'
  BY <1>1, <1>3, <1>5 DEF AtWork, Reported, Reminders!OnlyWorkers
<1>9. Reminders!EndIsRecorded'
  BY <1>1, <1>4, <1>5 DEF Reported, Reminders!EndIsRecorded, Reminders!OnlyWorkers
<1>. QED
  BY <1>6, <1>7, <1>8, <1>9

LEMMA FaultKeeps ==
  ASSUME ReminderBounds,
         EndInv, NEW c \in Candidates, Reminders!RecordFails(c) \/ Reminders!LoseWorker(c)
  PROVE  EndInv'
<1>1. /\ worker[c] # "idle" /\ UNCHANGED <<dispatch, row, message, mailed>> /\ Reminders!OnlyWorkers
  BY DEF Reminders!RecordFails, Reminders!LoseWorker
<1>2. PICK pc \in {"fail", "retry", "idle"} : Reminders!Become(c, pc)
  BY FailingMoves DEF Reminders!RecordFails, Reminders!LoseWorker
<1>3. mailed' \subseteq Candidates /\ reminderFaults' \in 0 .. ReminderFaults
  BY <1>1 DEF Reminders!RecordFails, Reminders!LoseWorker, Reminders!Fault, EndInv, Reminders!TypeOK
<1>. QED
  BY <1>1, <1>2, <1>3, MoveKeeps DEF Reminders!WorkerPC

LEMMA EndStep ==
  ASSUME ReminderBounds
  PROVE EndInv /\ [Reminders!Next]_(Reminders!vars) => EndInv'
<1>. SUFFICES ASSUME EndInv, [Reminders!Next]_(Reminders!vars) PROVE EndInv'
  OBVIOUS
<1>1. CASE UNCHANGED Reminders!vars
  BY <1>1
     DEF Reminders!vars, EndInv, Reminders!TypeOK, Copies, OneHolder, Held, AtWork, Reported,
         Reminders!EndIsRecorded
<1>2. ASSUME NEW e \in Executors,
             Reminders!Start(e) \/ Reminders!ExecutorStep(e) \/ Reminders!LoseExecutor(e)
      PROVE  EndInv'
  BY <1>2, BoundaryKeeps, FindKeeps, InsertKeeps, DecideKeeps, DispatchEnqueueKeeps,
     WriteQueuedKeeps
     DEF Reminders!ExecutorStep
<1>3. ASSUME NEW e \in Executors, NEW c \in Candidates, Reminders!EnqueueFails(e, c)
      PROVE  EndInv'
  BY <1>3, DispatchEnqueueKeeps
<1>4. CASE Reminders!SweepStep \/ Reminders!SweepFails
  BY <1>4, SweepKeeps
<1>5. ASSUME NEW c \in Candidates,
             Reminders!WorkerStep(c) \/ Reminders!RecordFails(c) \/ Reminders!LoseWorker(c)
      PROVE  EndInv'
  BY <1>5, ReceiveKeeps, DismissKeeps, DeliverKeeps, ReadDispatchKeeps, RecordStatusKeeps,
     SettleKeeps, FaultKeeps DEF Reminders!WorkerStep
<1>. QED
  BY <1>1, <1>2, <1>3, <1>4, <1>5 DEF Reminders!Next

(* Dispatches, their rows and what runs and isolates hold of them keep their *)
(* types (executeReminderRun, enqueue, cron and the consumer).               *)
THEOREM RemindersTypeCorrect ==
  ASSUME ReminderBounds
  PROVE  Reminders!Spec => []Reminders!TypeOK
<1>1. EndInv => Reminders!TypeOK
  BY DEF EndInv
<1>2. Reminders!Init => EndInv
  BY EndInit
<1>3. EndInv /\ [Reminders!Next]_(Reminders!vars) => EndInv'
  BY EndStep
<1>. QED
  BY <1>1, <1>2, <1>3, PTL DEF Reminders!Spec

(* A row that has ended and its dispatch say the same, unless the dispatch *)
(* was taken up after a failed enqueue or held by two runs                 *)
(* (recordReminderDispatchStatus against executeReminderRun).              *)
THEOREM RemindersEndRecorded ==
  ASSUME ReminderBounds
  PROVE  Reminders!Spec => []Reminders!EndIsRecorded
<1>1. EndInv => Reminders!EndIsRecorded
  BY DEF EndInv
<1>2. Reminders!Init => EndInv
  BY EndInit
<1>3. EndInv /\ [Reminders!Next]_(Reminders!vars) => EndInv'
  BY EndStep
<1>. QED
  BY <1>1, <1>2, <1>3, PTL DEF Reminders!Spec
=============================================================================
