----------------------- MODULE CalendarInvitationsProofs -----------------------
(***************************************************************************)
(* Theorems about CalendarInvitations, for any sessions, calls, revisions, *)
(* attendee lists and bounds.                                              *)
(***************************************************************************)
EXTENDS CalendarInvitations, TLAPS

-----------------------------------------------------------------------------
PC == {"idle", "done", "failed"} \cup RunningPC
JobStates == {"pending", "queued", "delivered"} \cup GivenUp

(* What the queue and its consumer do with a message. *)
QueueStep(s, k) ==
  \/ Deliver(s, k) \/ DeliverUnsettled(s, k) \/ DeadLetter(s, k)
  \/ \E outcome \in {"queued"} \cup GivenUp : DeliveryFails(s, k, outcome)

LEMMA Identities ==
  /\ \A r \in Revisions : AgendaKey(r) \in Key /\ CancelKey(r) \in Key
  /\ Never \notin Published /\ Never \notin Invitation
BY DEF AgendaKey, CancelKey, Key, Never, Published, Invitation

(* A call is typed if its parts are. *)
LEMMA CallParts ==
  ASSUME NEW r
  PROVE  r \in Call => /\ r.pc \in PC /\ r.rev \in Revisions
                       /\ r.list \in [Sessions -> Lists]
                       /\ r.snapshot \in [Sessions -> Invitation \cup {Never}]
                       /\ r.todo \in SUBSET Sessions
                       /\ r.item \in Item \cup {NoItem}
                       /\ r.base \in Nat \cup {-1}
BY DEF Call, PC

LEMMA IdleType == Idle \in Call
BY BoundAssumption DEF Idle, Call, Revisions, Lists

LEMMA SetEffect ==
  ASSUME TypeOK, NEW c \in Calls, NEW r, Set(c, r)
  PROVE  /\ call'[c] = r
         /\ \A d \in Calls : d # c => call'[d] = call[d]
         /\ r \in Call => call' \in [Calls -> Call]
BY DEF Set, TypeOK

LEMMA MoveType ==
  ASSUME TypeOK, NEW c \in Calls, NEW pc \in PC
  PROVE  [call[c] EXCEPT !.pc = pc] \in Call
BY DEF TypeOK, Call, PC

LEMMA EndType ==
  ASSUME TypeOK, NEW c \in Calls, NEW pc \in {"done", "failed"}, End(c, pc)
  PROVE  call' \in [Calls -> Call] /\ holder' \in Calls \cup {NoCall}
<1>1. [Idle EXCEPT !.pc = pc, !.rev = call[c].rev, !.list = call[c].list] \in Call
  BY IdleType DEF TypeOK, Call
<1>. QED
  BY <1>1, SetEffect DEF End, TypeOK

LEMMA ProceedType ==
  ASSUME TypeOK, NEW c \in Calls, Proceed(c)
  PROVE  call' \in [Calls -> Call]
<1>. DEFINE todo == call[c].todo \ {call[c].item.session}
<1>1. [call[c] EXCEPT !.pc = "next", !.item = NoItem, !.base = -1, !.todo = todo] \in Call
  <2>1. call[c] \in Call /\ "next" \in PC
    BY DEF TypeOK, PC, RunningPC
  <2>2. todo \in SUBSET Sessions
    BY <2>1 DEF Call
  <2>. HIDE DEF todo
  <2>. QED
    BY <2>1, <2>2 DEF Call, PC
<1>. QED
  BY <1>1, SetEffect DEF Proceed

LEMMA PublicationType ==
  ASSUME TypeOK, NEW s \in Sessions, NEW k \in Key, NEW p \in Published, SetPublication(s, k, p)
  PROVE  /\ publication' \in [Sessions -> [Key -> Published \cup {Never}]]
         /\ publication'[s][k] = p
         /\ \A u \in Sessions, j \in Key :
              u # s \/ j # k => publication'[u][j] = publication[u][j]
<1>1. publication[s] \in [Key -> Published \cup {Never}]
  BY DEF TypeOK
<1>2. [publication[s] EXCEPT ![k] = p] \in [Key -> Published \cup {Never}]
  BY <1>1
<1>. QED
  BY <1>1, <1>2 DEF SetPublication, TypeOK

LEMMA JobType ==
  ASSUME TypeOK, NEW s \in Sessions, NEW k \in Key, publication[s][k] # Never,
         NEW state \in JobStates
  PROVE  /\ [publication[s][k] EXCEPT !.job = state] \in Published
         /\ [publication[s][k] EXCEPT !.job = state].seq = publication[s][k].seq
         /\ [publication[s][k] EXCEPT !.job = state].payload = publication[s][k].payload
<1>1. publication[s][k] \in Published
  BY DEF TypeOK
<1>. QED
  BY <1>1 DEF Published, JobStates

-----------------------------------------------------------------------------
(* A call that publishes has something to publish, and a row in the outbox *)
(* or a message in the queue belongs to a publication.                     *)
CallSound(c) ==
  /\ call[c].pc \in {"lookup", "load", "batch", "enqueue", "mark"} => call[c].item \in Item
  /\ call[c].pc \in {"enqueue", "mark"} => Prior(c) # Never
  /\ call[c].pc \in RunningPC => call[c].rev <= Len(agenda)
  /\ call[c].pc \notin RunningPC \ {"renew", "list"} => call[c].todo = {}
  /\ \A s \in call[c].todo : s \notin Desired(c) => call[c].snapshot[s] # Never

Sound ==
  /\ \A c \in Calls : CallSound(c)
  /\ \A s \in Sessions, k \in Key : <<s, k>> \in messages => publication[s][k] # Never

PublicationsStay ==
  \A s \in Sessions, k \in Key : publication[s][k] # Never => publication'[s][k] # Never
AgendaGrows ==
  Len(agenda) <= Len(agenda') /\ \A r \in 1 .. Len(agenda) : agenda'[r] = agenda[r]

LEMMA OthersSound ==
  ASSUME TypeOK, Sound, NEW c, PublicationsStay, AgendaGrows, Len(agenda') \in Nat,
         \A d \in Calls : d # c => call'[d] = call[d]
  PROVE  \A d \in Calls : d # c => CallSound(d)'
<1>. SUFFICES ASSUME NEW d \in Calls, d # c PROVE CallSound(d)'
  OBVIOUS
<1>0. CallSound(d) /\ call'[d] = call[d] /\ call[d] \in Call
  BY DEF Sound, TypeOK
<1>1. call[d].item \in Item => call[d].item.session \in Sessions /\ call[d].item.key \in Key
  BY DEF Item
<1>2. call[d].pc \in {"enqueue", "mark"} => Prior(d)' # Never
  BY <1>0, <1>1 DEF CallSound, Prior, Session, PublicationsStay
<1>3. call[d].pc \in RunningPC => Len(agenda') >= call[d].rev
  BY <1>0 DEF CallSound, AgendaGrows, TypeOK, Call, Revisions
<1>4. call[d].pc \in RunningPC => Desired(d)' = Desired(d)
  <2>1. call[d].pc \in RunningPC => call[d].rev \in 1 .. Len(agenda)
    BY <1>0 DEF CallSound, Call, Revisions, TypeOK
  <2>. QED
    BY <1>0, <2>1 DEF Desired, AgendaGrows
<1>. QED
  BY <1>0, <1>2, <1>3, <1>4 DEF CallSound

LEMMA AgendaKept ==
  ASSUME TypeOK, UNCHANGED agenda
  PROVE  AgendaGrows /\ Len(agenda) \in Nat /\ Len(agenda') \in Nat
BY DEF TypeOK, AgendaGrows

(* A call that ends leaves nothing behind. *)
LEMMA EndSound ==
  ASSUME TypeOK, NEW c \in Calls, NEW pc \in {"done", "failed"}, End(c, pc)
  PROVE  CallSound(c)'
<1>1. call'[c] = [Idle EXCEPT !.pc = pc, !.rev = call[c].rev, !.list = call[c].list]
  BY SetEffect DEF End
<1>2. call'[c].pc = pc /\ call'[c].todo = {}
  BY <1>1 DEF Idle
<1>. QED
  BY <1>2 DEF CallSound, RunningPC

(* So does one that goes on with the next session. *)
LEMMA ProceedSound ==
  ASSUME TypeOK, Sound, NEW c \in Calls, Proceed(c), UNCHANGED agenda, call[c].pc \in RunningPC
  PROVE  CallSound(c)'
<1>1. call[c] \in Call /\ CallSound(c)
  BY DEF TypeOK, Sound
<1>2. call'[c] = [call[c] EXCEPT !.pc = "next", !.item = NoItem, !.base = -1,
                                 !.todo = call[c].todo \ {call[c].item.session}]
  BY SetEffect DEF Proceed
<1>3. /\ call'[c].pc = "next" /\ call'[c].rev = call[c].rev /\ call'[c].list = call[c].list
      /\ call'[c].snapshot = call[c].snapshot
      /\ call'[c].todo = call[c].todo \ {call[c].item.session}
  BY <1>1, <1>2 DEF Call
<1>. QED
  BY <1>1, <1>3 DEF CallSound, Desired, RunningPC

(* So does one that only moves on. *)
LEMMA MoveSound ==
  ASSUME TypeOK, Sound, NEW c \in Calls, NEW pc \in {"load", "enqueue", "mark"}, Move(c, pc),
         UNCHANGED agenda, call[c].pc \in {"lookup", "load", "batch", "enqueue"},
         pc # "load" => Prior(c)' # Never
  PROVE  CallSound(c)' /\ call' \in [Calls -> Call]
<1>1. call[c] \in Call /\ CallSound(c)
  BY DEF TypeOK, Sound
<1>2. /\ call'[c].pc = pc /\ call'[c].rev = call[c].rev /\ call'[c].list = call[c].list
      /\ call'[c].snapshot = call[c].snapshot /\ call'[c].todo = call[c].todo
      /\ call'[c].item = call[c].item
  BY <1>1, SetEffect DEF Move, Call
<1>3. call' \in [Calls -> Call]
  BY SetEffect, MoveType DEF Move, PC, RunningPC
<1>. QED
  BY <1>1, <1>2, <1>3 DEF CallSound, Desired, RunningPC

-----------------------------------------------------------------------------
(* One step of a call keeps the types and the call sound. *)
LEMMA BeginSound ==
  ASSUME TypeOK, NEW c \in Calls, NEW r \in Revisions, Begin(c, r), Len(agenda') = r
  PROVE  /\ CallSound(c)' /\ call' \in [Calls -> Call] /\ holder' \in Calls \cup {NoCall}
         /\ \A d \in Calls : d # c => call'[d] = call[d]
<1>1. [Idle EXCEPT !.pc = "renew", !.rev = r] \in Call
  BY IdleType DEF Call, RunningPC
<1>2. call'[c] = [Idle EXCEPT !.pc = "renew", !.rev = r] /\ call' \in [Calls -> Call]
  BY <1>1, SetEffect DEF Begin
<1>3. call'[c].pc = "renew" /\ call'[c].rev = r /\ call'[c].todo = {}
  BY <1>2 DEF Idle
<1>4. CallSound(c)'
  BY <1>3 DEF CallSound
<1>. QED
  BY <1>2, <1>4, SetEffect DEF Begin

LEMMA RenewSound ==
  ASSUME TypeOK, Sound, NEW c \in Calls, Renew(c)
  PROVE  CallSound(c)' /\ call' \in [Calls -> Call] /\ holder' \in Calls \cup {NoCall}
<1>0. call[c] \in Call /\ CallSound(c)
  BY DEF TypeOK, Sound
<1>1. CASE holder = c
  <2>1. [call[c] EXCEPT !.pc = "list", !.list = guests] \in Call
    BY <1>0 DEF TypeOK, Call, RunningPC
  <2>2. call'[c] = [call[c] EXCEPT !.pc = "list", !.list = guests] /\ call' \in [Calls -> Call]
    BY <1>1, <2>1, SetEffect DEF Renew
  <2>3. call'[c].pc = "list" /\ call'[c].rev = call[c].rev /\ call'[c].todo = call[c].todo
    BY <1>0, <2>2 DEF Call
  <2>4. UNCHANGED <<holder, agenda>> /\ call[c].todo = {} /\ call[c].rev <= Len(agenda)
    BY <1>0, <1>1 DEF Renew, KeepRecords, CallSound, RunningPC, At
  <2>. QED
    BY <2>2, <2>3, <2>4 DEF CallSound, TypeOK
<1>2. CASE holder # c
  BY <1>2, EndType, EndSound DEF Renew, Refuse
<1>. QED
  BY <1>1, <1>2

LEMMA ListSound ==
  ASSUME TypeOK, Sound, NEW c \in Calls, ListInvitations(c)
  PROVE  CallSound(c)' /\ call' \in [Calls -> Call]
<1>. DEFINE todo == Desired(c) \cup Withdrawn(c, invitation)
            r == [call[c] EXCEPT !.pc = "next", !.snapshot = invitation, !.todo = todo]
<1>0. call[c] \in Call /\ CallSound(c) /\ call[c].rev \in 1 .. Len(agenda)
  BY DEF TypeOK, Sound, CallSound, ListInvitations, At, RunningPC, Call, Revisions
<1>1. todo \in SUBSET Sessions
  BY <1>0 DEF Desired, Withdrawn, TypeOK
<1>2. r \in Call
  BY <1>0, <1>1 DEF TypeOK, Call, RunningPC
<1>3. call'[c] = r /\ call' \in [Calls -> Call]
  BY <1>2, SetEffect DEF ListInvitations
<1>4. /\ r.pc = "next" /\ r.rev = call[c].rev /\ r.list = call[c].list
      /\ r.snapshot = invitation /\ r.todo = todo
  BY <1>0 DEF Call
<1>5. UNCHANGED agenda
  BY DEF ListInvitations, KeepRecords
<1>6. Desired(c)' = Desired(c)
  BY <1>3, <1>4, <1>5 DEF Desired
<1>7. \A s \in todo : s \notin Desired(c) => invitation[s] # Never
  BY DEF Withdrawn
<1>. QED
  BY <1>0, <1>3, <1>4, <1>5, <1>6, <1>7 DEF CallSound, RunningPC

(* Invite and Cancel take an item. *)
LEMMA TakeSound ==
  ASSUME TypeOK, Sound, NEW c \in Calls, NEW item \in Item, At(c, "next"), Take(c, item)
  PROVE  CallSound(c)' /\ call' \in [Calls -> Call]
<1>0. call[c] \in Call /\ CallSound(c)
  BY DEF TypeOK, Sound
<1>1. [call[c] EXCEPT !.pc = "lookup", !.item = item] \in Call
  BY <1>0 DEF Call, RunningPC
<1>2. call'[c] = [call[c] EXCEPT !.pc = "lookup", !.item = item] /\ call' \in [Calls -> Call]
  BY <1>1, SetEffect DEF Take
<1>3. /\ call'[c].pc = "lookup" /\ call'[c].item = item
      /\ call'[c].rev = call[c].rev /\ call'[c].list = call[c].list
      /\ call'[c].snapshot = call[c].snapshot /\ call'[c].todo = call[c].todo
  BY <1>0, <1>2 DEF Call
<1>. QED
  BY <1>0, <1>2, <1>3 DEF CallSound, Desired, RunningPC, At, Take, KeepRecords

LEMMA InviteSound ==
  ASSUME TypeOK, Sound, NEW c \in Calls, NEW s \in Sessions, Invite(c, s)
  PROVE  CallSound(c)' /\ call' \in [Calls -> Call]
<1>. DEFINE listed == call[c].snapshot[s]
            existing == IF listed # Never THEN listed ELSE invitation[s]
            key == AgendaKey(call[c].rev)
            method == Method(existing, key)
            item == [session |-> s, key |-> key,
                     payload |-> [method |-> method, rev |-> call[c].rev, list |-> call[c].list[s]]]
<1>0. call[c] \in Call
  BY DEF TypeOK
<1>1. existing \in Invitation \cup {Never}
  BY <1>0 DEF TypeOK, Call
<1>2. method \in {"REQUEST", "UPDATE", "CANCEL"}
  BY <1>1 DEF Method, Invitation, Payload
<1>3. key \in Key
  BY <1>0, Identities DEF Call
<1>4. item \in Item
  BY <1>0, <1>2, <1>3 DEF Item, Payload, Call
<1>. QED
  BY <1>4, TakeSound DEF Invite

LEMMA CancelSound ==
  ASSUME TypeOK, Sound, NEW c \in Calls, NEW s \in Sessions, Cancel(c, s)
  PROVE  CallSound(c)' /\ call' \in [Calls -> Call]
<1>. DEFINE item == [session |-> s, key |-> CancelKey(call[c].rev),
                     payload |-> [call[c].snapshot[s].payload EXCEPT !.method = "CANCEL"]]
<1>0. call[c] \in Call /\ CallSound(c)
  BY DEF TypeOK, Sound
<1>1. call[c].snapshot[s] \in Invitation
  BY <1>0 DEF Cancel, CallSound, Call
<1>2. [call[c].snapshot[s].payload EXCEPT !.method = "CANCEL"] \in Payload
  BY <1>1 DEF Invitation, Payload
<1>3. CancelKey(call[c].rev) \in Key
  BY <1>0, Identities DEF Call
<1>4. item \in Item
  BY <1>2, <1>3 DEF Item
<1>. QED
  BY <1>4, TakeSound DEF Cancel

(* What a call publishes. *)
LEMMA ItemParts ==
  ASSUME TypeOK, Sound, NEW c \in Calls,
         call[c].pc \in {"lookup", "load", "batch", "enqueue", "mark"}
  PROVE  /\ Session(c) \in Sessions /\ call[c].item.key \in Key /\ call[c].item.payload \in Payload
         /\ call[c].item.session = Session(c)
         /\ Prior(c) = publication[Session(c)][call[c].item.key]
BY DEF Sound, CallSound, Item, Session, Prior

LEMMA LookupSound ==
  ASSUME TypeOK, Sound, NEW c \in Calls, Lookup(c)
  PROVE  CallSound(c)' /\ call' \in [Calls -> Call] /\ holder' \in Calls \cup {NoCall}
<1>0. At(c, "lookup") /\ UNCHANGED <<agenda, publication>>
  BY DEF Lookup, KeepRecords
<1>1. CASE Refuse(c)
  BY <1>1, EndType, EndSound DEF Refuse
<1>2. CASE Prior(c) = Never /\ Continue(c, "load")
  BY <1>0, <1>2, MoveSound DEF Continue, At, TypeOK
<1>3. CASE Prior(c) # Never /\ Continue(c, "enqueue")
  <2>1. Move(c, "enqueue") /\ UNCHANGED holder
    BY <1>3 DEF Continue
  <2>2. call'[c] = [call[c] EXCEPT !.pc = "enqueue"] /\ call[c] \in Call
    BY <2>1, SetEffect DEF Move, TypeOK
  <2>3. Prior(c)' # Never
    BY <1>0, <1>3, <2>2 DEF Prior, Session, Call
  <2>. QED
    BY <1>0, <2>1, <2>3, MoveSound DEF At, TypeOK
<1>. QED
  BY <1>1, <1>2, <1>3 DEF Lookup

LEMMA LoadSound ==
  ASSUME TypeOK, Sound, NEW c \in Calls, Load(c)
  PROVE  CallSound(c)' /\ call' \in [Calls -> Call] /\ holder' \in Calls \cup {NoCall}
<1>. DEFINE current == invitation[Session(c)]
            r == [call[c] EXCEPT !.pc = "batch", !.base = current.seq]
<1>0. At(c, "load") /\ call[c] \in Call /\ CallSound(c) /\ UNCHANGED agenda
  BY DEF Load, TypeOK, Sound, KeepRecords
<1>1. CASE Refuse(c)
  BY <1>1, EndType, EndSound DEF Refuse
<1>2. CASE Set(c, r) /\ UNCHANGED holder
  <2>1. current \in Invitation \cup {Never}
    BY <1>0, ItemParts DEF At, TypeOK
  <2>2. current.seq \in Nat \cup {-1}
    BY <2>1 DEF Invitation, Never
  <2>3. r \in Call
    BY <1>0, <2>2 DEF Call, RunningPC
  <2>4. call'[c] = r /\ call' \in [Calls -> Call]
    BY <1>2, <2>3, SetEffect
  <2>5. /\ r.pc = "batch" /\ r.rev = call[c].rev /\ r.list = call[c].list
        /\ r.snapshot = call[c].snapshot /\ r.todo = call[c].todo /\ r.item = call[c].item
    BY <1>0 DEF Call
  <2>. QED
    BY <1>0, <1>2, <2>4, <2>5 DEF CallSound, Desired, RunningPC, At, TypeOK
<1>. QED
  BY <1>1, <1>2 DEF Load

(* The committed batch. *)
LEMMA CommitEffect ==
  ASSUME TypeOK, Sound, NEW c \in Calls, Batch(c), Unchanged(c)
  PROVE  LET s == Session(c)  k == call[c].item.key  seq == call[c].base + 1 IN
         /\ s \in Sessions /\ k \in Key /\ seq \in Nat
         /\ invitation[s].seq = seq - 1 /\ publication[s][k] = Never
         /\ invitation' \in [Sessions -> Invitation \cup {Never}]
         /\ publication' \in [Sessions -> [Key -> Published \cup {Never}]]
         /\ invitation'[s] = [seq |-> seq, key |-> k, payload |-> call[c].item.payload]
         /\ publication'[s][k] = [seq |-> seq, payload |-> call[c].item.payload, job |-> "pending"]
         /\ publication'[s][k] # Never
         /\ \A u \in Sessions : u # s => invitation'[u] = invitation[u]
         /\ \A u \in Sessions, j \in Key :
              u # s \/ j # k => publication'[u][j] = publication[u][j]
<1>. DEFINE s == Session(c)  k == call[c].item.key  seq == call[c].base + 1
            i == [seq |-> seq, key |-> k, payload |-> call[c].item.payload]
            p == [seq |-> seq, payload |-> call[c].item.payload, job |-> "pending"]
<1>1. At(c, "batch") /\ invitation' = [invitation EXCEPT ![s] = i] /\ SetPublication(s, k, p)
  BY DEF Batch, Session
<1>2. s \in Sessions /\ k \in Key /\ call[c].item.payload \in Payload
  BY <1>1, ItemParts DEF At
<1>0. call[c].base \in Nat \cup {-1} /\ invitation[s].seq = call[c].base
      /\ publication[s][k] = Never
  <2>1. call[c] \in Call
    BY DEF TypeOK
  <2>. QED
    BY <2>1, CallParts DEF Unchanged, Prior, Session
<1>3. seq \in Nat /\ call[c].base = seq - 1
  BY <1>0
<1>4. i \in Invitation /\ p \in Published /\ p # Never
  BY <1>2, <1>3, Identities DEF Invitation, Published
<1>5. invitation[s].seq = seq - 1 /\ publication[s][k] = Never
  BY <1>0, <1>3
<1>6. /\ invitation' \in [Sessions -> Invitation \cup {Never}] /\ invitation'[s] = i
      /\ \A u \in Sessions : u # s => invitation'[u] = invitation[u]
  BY <1>1, <1>2, <1>4 DEF TypeOK
<1>. HIDE DEF s, k, i, p, seq
<1>7. /\ publication' \in [Sessions -> [Key -> Published \cup {Never}]] /\ publication'[s][k] = p
      /\ \A u \in Sessions, j \in Key :
           u # s \/ j # k => publication'[u][j] = publication[u][j]
  BY <1>1, <1>2, <1>4, PublicationType
<1>. QED
  BY <1>2, <1>3, <1>4, <1>5, <1>6, <1>7 DEF s, k, i, p, seq

LEMMA BatchSound ==
  ASSUME TypeOK, Sound, NEW c \in Calls, Batch(c)
  PROVE  /\ CallSound(c)' /\ call' \in [Calls -> Call] /\ holder' \in Calls \cup {NoCall}
         /\ invitation' \in [Sessions -> Invitation \cup {Never}]
         /\ publication' \in [Sessions -> [Key -> Published \cup {Never}]]
         /\ PublicationsStay
<1>0. At(c, "batch") /\ UNCHANGED agenda
  BY DEF Batch
<1>1. CASE Unchanged(c)
  <2>1. Move(c, "enqueue") /\ UNCHANGED holder
    BY <1>1 DEF Batch, Continue
  <2>2. call'[c] = [call[c] EXCEPT !.pc = "enqueue"] /\ call[c] \in Call
    BY <2>1, SetEffect DEF Move, TypeOK
  <2>3. call'[c].item = call[c].item
    BY <2>2 DEF Call
  <2>4. Prior(c)' # Never
    BY <1>1, <2>3, CommitEffect DEF Prior, Session
  <2>5. CallSound(c)' /\ call' \in [Calls -> Call]
    BY <1>0, <2>1, <2>4, MoveSound DEF At
  <2>6. PublicationsStay
    BY <1>1, CommitEffect DEF PublicationsStay
  <2>. QED
    BY <1>1, <2>1, <2>5, <2>6, CommitEffect DEF TypeOK
<1>2. CASE ~Unchanged(c)
  <2>1. UNCHANGED <<invitation, publication>>
    BY <1>2 DEF Batch
  <2>2. CASE Refuse(c)
    BY <2>1, <2>2, EndType, EndSound DEF Refuse, TypeOK, PublicationsStay
  <2>3. CASE Prior(c) # Never /\ Continue(c, "enqueue")
    <3>1. Move(c, "enqueue") /\ UNCHANGED holder
      BY <2>3 DEF Continue
    <3>2. call'[c] = [call[c] EXCEPT !.pc = "enqueue"] /\ call[c] \in Call
      BY <3>1, SetEffect DEF Move, TypeOK
    <3>3. Prior(c)' # Never
      BY <2>1, <2>3, <3>2 DEF Prior, Session, Call
    <3>. QED
      BY <1>0, <2>1, <3>1, <3>3, MoveSound DEF At, TypeOK, PublicationsStay
  <2>. QED
    BY <1>2, <2>2, <2>3 DEF Batch
<1>. QED
  BY <1>1, <1>2

(* A change of an outbox row is one of its publication. *)
LEMMA SetJobEffect ==
  ASSUME TypeOK, NEW s \in Sessions, NEW k \in Key, publication[s][k] # Never,
         NEW state \in JobStates, SetJob(s, k, state)
  PROVE  /\ publication' \in [Sessions -> [Key -> Published \cup {Never}]]
         /\ publication'[s][k].seq = publication[s][k].seq
         /\ publication'[s][k].payload = publication[s][k].payload
         /\ \A u \in Sessions, j \in Key :
              u # s \/ j # k => publication'[u][j] = publication[u][j]
         /\ publication'[s][k] # Never
<1>1. DEFINE p == [publication[s][k] EXCEPT !.job = state]
<1>2. p \in Published /\ p.seq = publication[s][k].seq /\ p.payload = publication[s][k].payload
  BY JobType
<1>3. p # Never
  BY <1>2, Identities
<1>4. SetPublication(s, k, p)
  BY DEF SetJob
<1>. HIDE DEF p
<1>. QED
  BY <1>2, <1>3, <1>4, PublicationType

LEMMA EnqueueSound ==
  ASSUME TypeOK, Sound, NEW c \in Calls, Enqueue(c)
  PROVE  /\ CallSound(c)' /\ call' \in [Calls -> Call]
         /\ messages' \subseteq Sessions \X Key
         /\ \A s \in Sessions, k \in Key : <<s, k>> \in messages' => publication[s][k] # Never
<1>0. At(c, "enqueue") /\ UNCHANGED <<agenda, publication>> /\ Prior(c) # Never
  BY DEF Enqueue, Sound, CallSound, At
<1>1. /\ Session(c) \in Sessions /\ call[c].item.key \in Key
      /\ publication[Session(c)][call[c].item.key] # Never
  BY <1>0, ItemParts DEF At
<1>2. CASE Move(c, "mark") /\ messages' = messages \cup {<<Session(c), call[c].item.key>>}
  <2>1. call'[c] = [call[c] EXCEPT !.pc = "mark"] /\ call[c] \in Call
    BY <1>2, SetEffect DEF Move, TypeOK
  <2>2. Prior(c)' # Never
    BY <1>0, <2>1 DEF Prior, Session, Call
  <2>3. CallSound(c)' /\ call' \in [Calls -> Call]
    BY <1>0, <1>2, <2>2, MoveSound DEF At
  <2>. QED
    BY <1>1, <1>2, <2>3 DEF Sound, TypeOK
<1>3. CASE Proceed(c) /\ UNCHANGED messages
  BY <1>0, <1>3, ProceedType, ProceedSound DEF At, RunningPC, Sound, TypeOK
<1>. QED
  BY <1>2, <1>3 DEF Enqueue

LEMMA MarkSound ==
  ASSUME TypeOK, Sound, NEW c \in Calls, Mark(c)
  PROVE  /\ CallSound(c)' /\ call' \in [Calls -> Call]
         /\ publication' \in [Sessions -> [Key -> Published \cup {Never}]]
         /\ PublicationsStay
<1>0. At(c, "mark") /\ UNCHANGED agenda /\ Proceed(c) /\ Prior(c) # Never
  BY DEF Mark, Sound, CallSound, At
<1>1. CallSound(c)' /\ call' \in [Calls -> Call]
  BY <1>0, ProceedType, ProceedSound DEF At, RunningPC
<1>2. /\ Session(c) \in Sessions /\ call[c].item.key \in Key
      /\ publication[Session(c)][call[c].item.key] # Never
  BY <1>0, ItemParts DEF At
<1>3. CASE SetJob(Session(c), call[c].item.key, "queued")
  BY <1>1, <1>2, <1>3, SetJobEffect DEF PublicationsStay, JobStates
<1>4. CASE UNCHANGED publication
  BY <1>1, <1>4 DEF TypeOK, PublicationsStay
<1>. QED
  BY <1>3, <1>4 DEF Mark

LEMMA QueueEffect ==
  ASSUME TypeOK, Sound, NEW s \in Sessions, NEW k \in Key, QueueStep(s, k)
  PROVE  /\ publication[s][k] # Never
         /\ UNCHANGED <<agenda, guests, invitation, call, holder, changes, lapses>>
         /\ faults' \in Nat /\ messages' \subseteq messages /\ dlq' \subseteq Sessions \X Key
         /\ client' \in [Sessions -> Nat \cup {-1}]
         /\ UNCHANGED publication \/ \E state \in JobStates : SetJob(s, k, state)
<1>1. <<s, k>> \in messages /\ faults \in Nat
  BY DEF QueueStep, Deliver, DeliverUnsettled, DeadLetter, DeliveryFails, Undelivered, TypeOK
<1>2. publication[s][k] # Never /\ publication[s][k] \in Published
  BY <1>1 DEF Sound, TypeOK
<1>3. Send(s, k) \/ UNCHANGED client => client' \in [Sessions -> Nat \cup {-1}]
  BY <1>2 DEF Send, TypeOK, Published
<1>4. CASE Deliver(s, k)
  BY <1>1, <1>2, <1>3, <1>4 DEF Deliver, TypeOK, JobStates, bounds
<1>5. CASE DeliverUnsettled(s, k)
  BY <1>1, <1>2, <1>3, <1>5 DEF DeliverUnsettled, TypeOK
<1>6. CASE DeadLetter(s, k)
  BY <1>1, <1>2, <1>3, <1>6 DEF DeadLetter, TypeOK
<1>7. ASSUME NEW outcome \in {"queued"} \cup GivenUp, DeliveryFails(s, k, outcome)
      PROVE  /\ UNCHANGED <<agenda, guests, invitation, call, holder, changes, lapses>>
             /\ faults' \in Nat /\ messages' \subseteq messages
             /\ dlq' \subseteq Sessions \X Key /\ client' \in [Sessions -> Nat \cup {-1}]
             /\ outcome \in JobStates /\ SetJob(s, k, outcome)
  BY <1>1, <1>2, <1>3, <1>7 DEF DeliveryFails, TypeOK, JobStates
<1>. QED
  BY <1>2, <1>4, <1>5, <1>6, <1>7 DEF QueueStep

LEMMA QueueSound ==
  ASSUME TypeOK, Sound, NEW s \in Sessions, NEW k \in Key, QueueStep(s, k)
  PROVE  /\ publication' \in [Sessions -> [Key -> Published \cup {Never}]]
         /\ PublicationsStay
<1>1. /\ publication[s][k] # Never
      /\ UNCHANGED publication \/ \E state \in JobStates : SetJob(s, k, state)
  BY QueueEffect
<1>2. ASSUME NEW state \in JobStates, SetJob(s, k, state)
      PROVE  /\ publication' \in [Sessions -> [Key -> Published \cup {Never}]]
             /\ PublicationsStay
  BY <1>1, <1>2, SetJobEffect DEF PublicationsStay
<1>3. CASE UNCHANGED publication
  BY <1>3 DEF PublicationsStay, TypeOK
<1>. QED
  BY <1>1, <1>2, <1>3

-----------------------------------------------------------------------------
LEMMA InitSound == Init => TypeOK /\ Sound
<1>. SUFFICES ASSUME Init PROVE TypeOK /\ Sound
  OBVIOUS
<1>1. TypeOK
  BY IdleType, BoundAssumption DEF Init, TypeOK, Lists, Never
<1>2. Sound
  BY DEF Init, Sound, CallSound, Idle, RunningPC
<1>. QED
  BY <1>1, <1>2

(* A step of one call: what it may do to the rest. *)
LEMMA CallStepSound ==
  ASSUME TypeOK, Sound, NEW c \in Calls,
         CallSound(c)', call' \in [Calls -> Call],
         \A d \in Calls : d # c => call'[d] = call[d],
         PublicationsStay, AgendaGrows, Len(agenda') \in Nat,
         \A s \in Sessions, k \in Key :
           <<s, k>> \in messages' => <<s, k>> \in messages \/ publication[s][k] # Never
  PROVE  Sound'
<1>1. \A d \in Calls : CallSound(d)'
  BY OthersSound
<1>2. \A s \in Sessions, k \in Key : <<s, k>> \in messages' => publication'[s][k] # Never
  BY DEF Sound, PublicationsStay
<1>. QED
  BY <1>1, <1>2 DEF Sound

LEMMA StepSound ==
  ASSUME TypeOK, Sound, NEW c \in Calls, Step(c)
  PROVE  TypeOK' /\ Sound'
<1>0. /\ UNCHANGED <<agenda, guests, dlq, client, bounds>>
      /\ AgendaGrows /\ Len(agenda') \in Nat
      /\ \A d \in Calls : d # c => call'[d] = call[d]
  <2>1. UNCHANGED <<agenda, guests, dlq, client, bounds>>
    BY DEF Step, KeepRecords, Renew, ListInvitations, Invite, Cancel, Take, Lookup, Load, Batch,
           Enqueue, Mark, Finish
  <2>2. \E r : Set(c, r)
    BY DEF Step, Renew, ListInvitations, Invite, Cancel, Take, Lookup, Load, Batch, Enqueue, Mark,
           Finish, Refuse, End, Continue, Move, Proceed
  <2>. QED
    BY <2>1, <2>2, AgendaKept, SetEffect
<1>1. CASE \/ Renew(c) \/ ListInvitations(c) \/ Lookup(c) \/ Load(c) \/ Finish(c)
           \/ \E s \in Sessions : Invite(c, s) \/ Cancel(c, s)
  <2>1. UNCHANGED <<invitation, publication, messages>>
    BY <1>1 DEF KeepRecords, Renew, ListInvitations, Invite, Cancel, Take, Lookup, Load, Finish
  <2>2. CallSound(c)' /\ call' \in [Calls -> Call] /\ holder' \in Calls \cup {NoCall}
    <3>1. CASE Finish(c)
      BY <3>1, EndType, EndSound DEF Finish
    <3>2. CASE ListInvitations(c)
      BY <3>2, ListSound DEF ListInvitations, TypeOK
    <3>3. CASE \E s \in Sessions : Invite(c, s)
      BY <3>3, InviteSound DEF Invite, Take, TypeOK
    <3>4. CASE \E s \in Sessions : Cancel(c, s)
      BY <3>4, CancelSound DEF Cancel, Take, TypeOK
    <3>. QED
      BY <1>1, <3>1, <3>2, <3>3, <3>4, RenewSound, LookupSound, LoadSound
  <2>3. PublicationsStay
    BY <2>1 DEF PublicationsStay
  <2>4. Sound'
    BY <1>0, <2>1, <2>2, <2>3, CallStepSound
  <2>. QED
    BY <1>0, <2>1, <2>2, <2>4 DEF TypeOK, bounds
<1>2. CASE Batch(c)
  <2>1. UNCHANGED messages
    BY <1>2 DEF Batch
  <2>2. Sound'
    BY <1>0, <1>2, <2>1, BatchSound, CallStepSound
  <2>. QED
    BY <1>0, <1>2, <2>1, <2>2, BatchSound DEF TypeOK, bounds
<1>3. CASE Enqueue(c)
  <2>1. UNCHANGED <<invitation, publication, holder>>
    BY <1>3 DEF Enqueue
  <2>2. PublicationsStay
    BY <2>1 DEF PublicationsStay
  <2>3. Sound'
    BY <1>0, <1>3, <2>2, EnqueueSound, CallStepSound
  <2>. QED
    BY <1>0, <1>3, <2>1, <2>3, EnqueueSound DEF TypeOK, bounds
<1>4. CASE Mark(c)
  <2>1. UNCHANGED <<invitation, messages, holder>>
    BY <1>4 DEF Mark
  <2>2. Sound'
    BY <1>0, <1>4, <2>1, MarkSound, CallStepSound
  <2>. QED
    BY <1>0, <1>4, <2>1, <2>2, MarkSound DEF TypeOK, bounds
<1>. QED
  BY <1>1, <1>2, <1>3, <1>4 DEF Step

LEMMA PublishSound ==
  ASSUME TypeOK, Sound, NEW c \in Calls, NEW scheduled \in SUBSET Sessions,
         Publish(c, scheduled) \/ Resume(c)
  PROVE  TypeOK' /\ Sound'
<1>1. /\ agenda' \in Seq(SUBSET Sessions) /\ Len(agenda') \in Revisions
      /\ AgendaGrows /\ Len(agenda') \in Nat
  <2>1. CASE Publish(c, scheduled)
    BY <2>1, BoundAssumption DEF Publish, TypeOK, AgendaGrows, Revisions
  <2>2. CASE Resume(c)
    <3>1. Len(agenda) # 0
      BY <2>2 DEF Resume, TypeOK
    <3>. QED
      BY <2>2, <3>1, AgendaKept, BoundAssumption DEF Resume, TypeOK, Revisions
  <2>. QED
    BY <2>1, <2>2
<1>2. Begin(c, Len(agenda'))
  BY DEF Publish, Resume, TypeOK
<1>3. UNCHANGED <<guests, invitation, publication, messages, dlq, client, bounds>> /\ PublicationsStay
  BY <1>2 DEF Begin, PublicationsStay
<1>4. /\ CallSound(c)' /\ call' \in [Calls -> Call] /\ holder' \in Calls \cup {NoCall}
      /\ \A d \in Calls : d # c => call'[d] = call[d]
  BY <1>1, <1>2, BeginSound
<1>5. Sound'
  BY <1>1, <1>3, <1>4, CallStepSound
<1>. QED
  BY <1>1, <1>3, <1>4, <1>5 DEF TypeOK, bounds, Revisions

LEMMA NextSound == TypeOK /\ Sound /\ [Next]_vars => TypeOK' /\ Sound'
<1>. SUFFICES ASSUME TypeOK, Sound, [Next]_vars PROVE TypeOK' /\ Sound'
  OBVIOUS
<1>0. UNCHANGED agenda => AgendaGrows /\ Len(agenda') \in Nat
  BY AgendaKept
<1>1. CASE \E c \in Calls : (\E scheduled \in SUBSET Sessions : Publish(c, scheduled)) \/ Resume(c)
  <2>1. PICK c \in Calls, scheduled \in SUBSET Sessions : Publish(c, scheduled) \/ Resume(c)
    BY <1>1
  <2>. QED
    BY <2>1, PublishSound
<1>2. CASE \E c \in Calls : Step(c)
  BY <1>2, StepSound
<1>3. CASE \E c \in Calls : Fail(c)
  <2>1. PICK c \in Calls : Fail(c)
    BY <1>3
  <2>2. /\ End(c, "failed")
        /\ UNCHANGED <<agenda, guests, invitation, publication, messages, dlq, client,
                       changes, lapses>>
    BY <2>1 DEF Fail, Refuse
  <2>3. CallSound(c)' /\ call' \in [Calls -> Call] /\ holder' \in Calls \cup {NoCall}
    BY <2>2, EndType, EndSound
  <2>4. (\A d \in Calls : d # c => call'[d] = call[d]) /\ PublicationsStay
    BY <2>2, SetEffect DEF End, PublicationsStay
  <2>5. Sound'
    BY <1>0, <2>2, <2>3, <2>4, CallStepSound
  <2>6. faults' \in Nat
    BY <2>1 DEF Fail, TypeOK
  <2>. QED
    BY <2>2, <2>3, <2>5, <2>6 DEF TypeOK
<1>4. CASE \E s \in Sessions, k \in Key : QueueStep(s, k)
  <2>1. PICK s \in Sessions, k \in Key : QueueStep(s, k)
    BY <1>4
  <2>2. /\ UNCHANGED <<agenda, guests, invitation, call, holder, changes, lapses>>
        /\ faults' \in Nat /\ messages' \subseteq messages /\ dlq' \subseteq Sessions \X Key
        /\ client' \in [Sessions -> Nat \cup {-1}]
    BY <2>1, QueueEffect
  <2>3. /\ publication' \in [Sessions -> [Key -> Published \cup {Never}]] /\ PublicationsStay
    BY <2>1, QueueSound
  <2>4. \A c \in Calls : CallSound(c)'
    <3>1. AgendaGrows /\ Len(agenda') \in Nat
      BY <2>2, AgendaKept
    <3>2. \A c \in Calls : c # NoCall => call'[c] = call[c]
      BY <2>2
    <3>3. \A c \in Calls : c # NoCall => CallSound(c)'
      BY <2>3, <3>1, <3>2, OthersSound
    <3>. QED
      BY <3>3, CallAssumption
  <2>5. Sound'
    BY <2>2, <2>3, <2>4 DEF Sound, PublicationsStay
  <2>. QED
    BY <2>2, <2>3, <2>5 DEF TypeOK
<1>5. CASE Lapse \/ (\E s \in Sessions, l \in Lists : ChangeGuests(s, l)) \/ UNCHANGED vars
  <2>1. UNCHANGED <<agenda, invitation, publication, messages, dlq, client, call>>
    BY <1>5 DEF Lapse, ChangeGuests, vars
  <2>2. /\ guests' \in [Sessions -> Lists] /\ holder' \in Calls \cup {NoCall}
        /\ changes' \in Nat /\ lapses' \in Nat /\ faults' \in Nat
    <3>1. CASE Lapse
      BY <3>1 DEF Lapse, TypeOK
    <3>2. CASE \E s \in Sessions, l \in Lists : ChangeGuests(s, l)
      BY <3>2 DEF ChangeGuests, TypeOK
    <3>3. CASE UNCHANGED vars
      BY <3>3 DEF vars, bounds, TypeOK
    <3>. QED
      BY <1>5, <3>1, <3>2, <3>3
  <2>3. Sound'
    BY <2>1 DEF Sound, CallSound, Prior, Session, Desired
  <2>. QED
    BY <2>1, <2>2, <2>3 DEF TypeOK
<1>. QED
  BY <1>1, <1>2, <1>3, <1>4, <1>5 DEF Next, Consume, QueueStep

(* Every variable keeps its type (TypeOK); in particular a call always has *)
(* a typed invitation to publish, also when it cancels one it has listed    *)
(* (reconcilePublishedAgendaCalendarInvitations).                          *)
THEOREM TypeCorrect == Spec => []TypeOK
BY InitSound, NextSound, PTL DEF Spec

-----------------------------------------------------------------------------
(* Sequences.  The claims about one session. *)
Gapless(s) ==
  /\ \A n \in 0 .. invitation[s].seq : \E k \in Key : publication[s][k].seq = n
  /\ \A k \in Key : publication[s][k].seq <= invitation[s].seq
  /\ \A j, k \in Key :
       j # k /\ publication[s][j].seq = publication[s][k].seq => publication[s][j] = Never
  /\ invitation[s] # Never =>
       publication[s][invitation[s].key].payload = invitation[s].payload

LEMMA SequenceTypes ==
  ASSUME TypeOK, NEW s \in Sessions
  PROVE  /\ invitation[s].seq \in Nat \cup {-1}
         /\ invitation[s] # Never => invitation[s].seq \in Nat /\ invitation[s].key \in Key
         /\ \A k \in Key : /\ publication[s][k].seq \in Nat \cup {-1}
                           /\ publication[s][k] # Never => publication[s][k].seq \in Nat
                           /\ publication[s][k].seq = -1 => publication[s][k] = Never
<1>1. invitation[s] \in Invitation \cup {Never}
  BY DEF TypeOK
<1>2. \A k \in Key : publication[s][k] \in Published \cup {Never}
  BY DEF TypeOK
<1>. QED
  BY <1>1, <1>2 DEF Invitation, Published, Never

(* A step that writes neither sequences nor payloads keeps them gapless. *)
LEMMA GaplessKept ==
  ASSUME TypeOK, NEW s \in Sessions, Gapless(s), invitation'[s] = invitation[s],
         \A k \in Key : \/ publication'[s][k] = publication[s][k]
                        \/ /\ publication[s][k] # Never
                           /\ publication'[s][k].seq = publication[s][k].seq
                           /\ publication'[s][k].payload = publication[s][k].payload
  PROVE  Gapless(s)'
<1>1. \A k \in Key : /\ publication'[s][k].seq = publication[s][k].seq
                     /\ publication[s][k] = Never => publication'[s][k] = Never
                     /\ publication'[s][k].payload = publication[s][k].payload
  OBVIOUS
<1>2. invitation[s] # Never => invitation[s].key \in Key
  BY SequenceTypes
<1>3. (\A j, k \in Key :
         j # k /\ publication[s][j].seq = publication[s][k].seq => publication[s][j] = Never)'
  BY <1>1 DEF Gapless
<1>4. (\A n \in 0 .. invitation[s].seq : \E k \in Key : publication[s][k].seq = n)'
  BY <1>1 DEF Gapless
<1>. QED
  BY <1>1, <1>2, <1>3, <1>4 DEF Gapless

LEMMA BatchGapless ==
  ASSUME TypeOK, Sound, SequencesAreGapless, NEW c \in Calls, Batch(c)
  PROVE  SequencesAreGapless'
<1>. SUFFICES ASSUME NEW u \in Sessions PROVE Gapless(u)'
  BY DEF SequencesAreGapless, Gapless
<1>0. Gapless(u)
  BY DEF SequencesAreGapless, Gapless
<1>1. CASE ~Unchanged(c)
  BY <1>0, <1>1, GaplessKept DEF Batch
<1>2. CASE Unchanged(c) /\ u # Session(c)
  BY <1>0, <1>2, CommitEffect, GaplessKept
<1>3. CASE Unchanged(c) /\ u = Session(c)
  <2>. DEFINE k == call[c].item.key  seq == call[c].base + 1
              inv == [seq |-> seq, key |-> k, payload |-> call[c].item.payload]
              pub == [seq |-> seq, payload |-> call[c].item.payload, job |-> "pending"]
  <2>a. /\ u \in Sessions /\ k \in Key /\ seq \in Nat
        /\ invitation[u].seq = seq - 1 /\ publication[u][k] = Never
        /\ invitation'[u] = inv /\ publication'[u][k] = pub
        /\ \A v \in Sessions, j \in Key :
             v # u \/ j # k => publication'[v][j] = publication[v][j]
    BY <1>3, CommitEffect
  <2>b. /\ inv.seq = seq /\ inv.key = k /\ inv.payload = call[c].item.payload
        /\ pub.seq = seq /\ pub.payload = call[c].item.payload
    OBVIOUS
  <2>. HIDE DEF inv, pub
  <2>1. /\ k \in Key /\ seq \in Nat
        /\ invitation[u].seq = seq - 1 /\ publication[u][k] = Never
        /\ invitation'[u].seq = seq /\ invitation'[u].key = k
        /\ invitation'[u].payload = call[c].item.payload
        /\ publication'[u][k].seq = seq /\ publication'[u][k].payload = call[c].item.payload
        /\ \A j \in Key : j # k => publication'[u][j] = publication[u][j]
    BY <2>a, <2>b
  <2>. HIDE DEF k, seq
  <2>2. publication[u][k].seq = -1
    BY <2>1 DEF Never
  <2>3. \A n \in 0 .. seq : \E j \in Key : publication'[u][j].seq = n
    <3>. TAKE n \in 0 .. seq
    <3>1. CASE n = seq
      BY <2>1, <3>1
    <3>2. CASE n # seq
      <4>1. n \in 0 .. invitation[u].seq
        BY <2>1, <3>2
      <4>2. PICK j \in Key : publication[u][j].seq = n
        BY <1>0, <4>1 DEF Gapless
      <4>3. j # k
        BY <2>2, <4>2
      <4>. QED
        BY <2>1, <4>2, <4>3
    <3>. QED
      BY <3>1, <3>2
  <2>4. \A j \in Key : publication'[u][j].seq <= seq /\ (j # k => publication'[u][j].seq # seq)
    <3>. TAKE j \in Key
    <3>1. CASE j = k
      BY <2>1, <3>1
    <3>2. CASE j # k
      <4>1. publication'[u][j].seq = publication[u][j].seq
        BY <2>1, <3>2
      <4>2. publication[u][j].seq \in Nat \cup {-1}
        <5>1. publication[u][j] \in Published \cup {Never}
          BY DEF TypeOK
        <5>. QED
          BY <5>1 DEF Published, Never
      <4>3. publication[u][j].seq <= seq - 1
        BY <1>0, <2>1 DEF Gapless
      <4>. QED
        BY <2>1, <3>2, <4>1, <4>2, <4>3
    <3>. QED
      BY <3>1, <3>2
  <2>5. \A i, j \in Key :
          i # j /\ publication'[u][i].seq = publication'[u][j].seq => publication'[u][i] = Never
    BY <1>0, <2>1, <2>4 DEF Gapless
  <2>. QED
    BY <2>1, <2>3, <2>4, <2>5 DEF Gapless
<1>. QED
  BY <1>1, <1>2, <1>3

LEMMA JobGapless ==
  ASSUME TypeOK, SequencesAreGapless, UNCHANGED invitation,
         NEW s \in Sessions, NEW k \in Key, publication[s][k] # Never,
         NEW state \in JobStates, SetJob(s, k, state)
  PROVE  SequencesAreGapless'
<1>. SUFFICES ASSUME NEW u \in Sessions PROVE Gapless(u)'
  BY DEF SequencesAreGapless, Gapless
<1>1. Gapless(u)
  BY DEF SequencesAreGapless, Gapless
<1>2. \A j \in Key : \/ publication'[u][j] = publication[u][j]
                   \/ /\ publication[u][j] # Never
                      /\ publication'[u][j].seq = publication[u][j].seq
                      /\ publication'[u][j].payload = publication[u][j].payload
  BY SetJobEffect
<1>. QED
  BY <1>1, <1>2, GaplessKept

LEMMA NextGapless ==
  TypeOK /\ Sound /\ SequencesAreGapless /\ [Next]_vars => SequencesAreGapless'
<1>. SUFFICES ASSUME TypeOK, Sound, SequencesAreGapless, [Next]_vars PROVE SequencesAreGapless'
  OBVIOUS
<1>1. CASE \E c \in Calls : Batch(c)
  BY <1>1, BatchGapless
<1>2. CASE \E c \in Calls : Mark(c)
  <2>1. PICK c \in Calls : Mark(c)
    BY <1>2
  <2>2. /\ Session(c) \in Sessions /\ call[c].item.key \in Key
        /\ publication[Session(c)][call[c].item.key] # Never
    BY <2>1, ItemParts DEF Mark, At, Sound, CallSound
  <2>. QED
    BY <2>1, <2>2, JobGapless DEF Mark, SequencesAreGapless, JobStates
<1>3. CASE \E s \in Sessions, k \in Key : QueueStep(s, k)
  <2>1. PICK s \in Sessions, k \in Key : QueueStep(s, k)
    BY <1>3
  <2>2. /\ publication[s][k] # Never /\ UNCHANGED invitation
        /\ UNCHANGED publication \/ \E state \in JobStates : SetJob(s, k, state)
    BY <2>1, QueueEffect
  <2>3. ASSUME NEW state \in JobStates, SetJob(s, k, state)
        PROVE  SequencesAreGapless'
    BY <2>2, <2>3, JobGapless
  <2>4. CASE UNCHANGED publication
    BY <2>2, <2>4 DEF SequencesAreGapless
  <2>. QED
    BY <2>2, <2>3, <2>4
<1>4. CASE UNCHANGED <<invitation, publication>>
  BY <1>4 DEF SequencesAreGapless
<1>5. CASE \E c \in Calls : Step(c)
  <2>1. PICK c \in Calls : Step(c)
    BY <1>5
  <2>2. CASE Batch(c) \/ Mark(c)
    BY <1>1, <1>2, <2>2
  <2>3. CASE Renew(c) \/ ListInvitations(c) \/ Lookup(c) \/ Load(c) \/ Enqueue(c) \/ Finish(c)
    <3>1. UNCHANGED <<invitation, publication>>
      BY <2>3 DEF Renew, ListInvitations, Lookup, Load, Enqueue, Finish, KeepRecords
    <3>. QED
      BY <1>4, <3>1
  <2>4. CASE \E s \in Sessions : Invite(c, s) \/ Cancel(c, s)
    <3>1. UNCHANGED <<invitation, publication>>
      BY <2>4 DEF Invite, Cancel, Take, KeepRecords
    <3>. QED
      BY <1>4, <3>1
  <2>. QED
    BY <2>1, <2>2, <2>3, <2>4 DEF Step
<1>6. CASE \E c \in Calls : \/ \E scheduled \in SUBSET Sessions : Publish(c, scheduled)
                          \/ Resume(c) \/ Fail(c)
  <2>1. UNCHANGED <<invitation, publication>>
    BY <1>6 DEF Publish, Resume, Begin, Fail, KeepRecords
  <2>. QED
    BY <1>4, <2>1
<1>7. CASE Lapse \/ (\E s \in Sessions, l \in Lists : ChangeGuests(s, l)) \/ UNCHANGED vars
  <2>1. UNCHANGED <<invitation, publication>>
    BY <1>7 DEF Lapse, ChangeGuests, vars
  <2>. QED
    BY <1>4, <2>1
<1>. QED
  BY <1>3, <1>5, <1>6, <1>7 DEF Next, Consume, QueueStep

(* The publications of a session are numbered without gap, and none takes  *)
(* or replaces the sequence of another, however many operations overlap,    *)
(* race or repeat (SequencesAreGapless; publish's batch).                   *)
THEOREM SequencesGapless == Spec => []SequencesAreGapless
<1>1. Init => SequencesAreGapless
  BY DEF Init, SequencesAreGapless, Never
<1>. QED
  BY <1>1, InitSound, NextSound, NextGapless, PTL DEF Spec


-----------------------------------------------------------------------------
(* Agreement.  While no lease runs out, one call runs at a time and the    *)
(* revision it hands off is the last one.  What it lists and publishes then *)
(* suits a revision of the agenda: an invitation under a revision's key is  *)
(* to a session this revision schedules, and a cancellation is of one it   *)
(* does not.  Of a session's keys the invitation has the latest.           *)
Suits(a, s, i) ==
  /\ i.key.rev <= Len(a)
  /\ i.key.kind = "agenda" =>
       s \in a[i.key.rev] /\ i.payload.method # "CANCEL" /\ i.payload.rev = i.key.rev
  /\ i.key.kind = "cancel" => s \notin a[i.key.rev] /\ i.payload.method = "CANCEL"

Latest(s) ==
  /\ invitation[s] # Never => Suits(agenda, s, invitation[s])
  /\ \A k \in Key : publication[s][k] # Never =>
       /\ invitation[s] # Never
       /\ k.rev <= invitation[s].key.rev
       /\ k.rev = invitation[s].key.rev => k = invitation[s].key

(* What revision r of the agenda a asks of the invitation i of session s.  *)
Agreed(a, r, s, i) ==
  IF s \in a[r] THEN i # Never /\ i.payload.method # "CANCEL" /\ i.payload.rev = r
                ELSE i # Never => i.payload.method = "CANCEL"

PublishingPC == {"lookup", "load", "batch", "enqueue", "mark"}

Listed(c) ==
  call[c].pc \in PublishingPC \cup {"list", "next", "done"} =>
    call[c].rev <= Len(agenda) /\ \A s \in Sessions : call[c].list[s] # 0

(* What is not, or not any more, among a call's sessions to do agrees.     *)
Progress(c) ==
  call[c].pc \in PublishingPC \cup {"next"} =>
    \A s \in Sessions :
      /\ call[c].snapshot[s] # Never => Suits(agenda, s, call[c].snapshot[s])
      /\ s \notin call[c].todo => Agreed(agenda, call[c].rev, s, invitation[s])

Publishing(c) ==
  call[c].pc \in PublishingPC =>
    Suits(agenda, Session(c), call[c].item) /\ call[c].item.key.rev = call[c].rev

Fits(c) ==
  /\ call[c].pc \in RunningPC => holder = c /\ call[c].rev = Len(agenda)
  /\ Listed(c)
  /\ Progress(c)
  /\ Publishing(c)
  /\ Current(c) => \A s \in Sessions : Agreed(agenda, call[c].rev, s, invitation[s])

Agreeing ==
  /\ \A s \in Sessions : guests[s] # 0 /\ Latest(s)
  /\ \A c \in Calls : Fits(c)

AgreeInv == lapses = 0 /\ changes = 0 => Agreeing

(* An invitation under a key of revision r agrees with this revision. *)
LEMMA KeyAgrees ==
  ASSUME NEW a, NEW s, NEW i, i # Never, i.key \in Key, Suits(a, s, i)
  PROVE  Agreed(a, i.key.rev, s, i)
BY DEF Key, Suits, Agreed

(* What suits the agenda suits it when it has grown. *)
LEMMA SuitsLonger ==
  ASSUME AgendaGrows, Len(agenda) \in Nat, Len(agenda') \in Nat,
         NEW s, NEW i, i.key \in Key, Suits(agenda, s, i)
  PROVE  Suits(agenda', s, i)
<1>1. i.key.rev \in 1 .. Len(agenda)
  BY BoundAssumption DEF Suits, Key, Revisions
<1>2. agenda'[i.key.rev] = agenda[i.key.rev] /\ i.key.rev <= Len(agenda')
  BY <1>1 DEF AgendaGrows
<1>. QED
  BY <1>2 DEF Suits

SamePublications ==
  \A s \in Sessions, k \in Key : publication'[s][k] # Never => publication[s][k] # Never

LEMMA LatestKept ==
  ASSUME TypeOK, AgendaGrows, Len(agenda') \in Nat, NEW s \in Sessions, Latest(s),
         invitation'[s] = invitation[s], SamePublications
  PROVE  Latest(s)'
<1>1. invitation[s] # Never => invitation[s].key \in Key
  BY SequenceTypes
<1>2. invitation[s] # Never => Suits(agenda', s, invitation[s])
  BY <1>1, SuitsLonger DEF Latest, TypeOK
<1>. QED
  BY <1>2 DEF Latest, SamePublications

(* A published key of the last revision is the key of the invitation. *)
LEMMA LastKey ==
  ASSUME TypeOK, NEW s \in Sessions, Latest(s), NEW k \in Key,
         k.rev = Len(agenda), publication[s][k] # Never
  PROVE  invitation[s] # Never /\ invitation[s].key = k
<1>1. invitation[s] # Never /\ invitation[s].key \in Key /\ Suits(agenda, s, invitation[s])
  BY SequenceTypes DEF Latest
<1>2. invitation[s].key.rev \in Nat /\ k.rev \in Nat /\ invitation[s].key.rev <= k.rev
  BY <1>1, BoundAssumption DEF Suits, Key, Revisions
<1>. QED
  BY <1>1, <1>2 DEF Latest

(* The calls that are not at work ask for nothing but agreement with the   *)
(* last revision.                                                          *)
InvitationsAgree ==
  \A s \in Sessions : \/ invitation'[s] = invitation[s]
                      \/ Agreed(agenda, Len(agenda), s, invitation'[s])

LEMMA OthersFit ==
  ASSUME TypeOK, Agreeing, NEW c \in Calls, call[c].pc \in RunningPC,
         UNCHANGED agenda, InvitationsAgree,
         \A d \in Calls : d # c => call'[d] = call[d]
  PROVE  \A d \in Calls : d # c => Fits(d)'
<1>. SUFFICES ASSUME NEW d \in Calls, d # c PROVE Fits(d)'
  OBVIOUS
<1>1. call'[d] = call[d] /\ call[d].pc \notin RunningPC /\ Fits(d)
  BY DEF Agreeing, Fits
<1>2. call[d].pc \notin PublishingPC /\ call[d].pc \notin {"list", "next"}
  BY <1>1 DEF PublishingPC, RunningPC
<1>3. Listed(d)'
  BY <1>1, <1>2 DEF Fits, Listed
<1>4. Progress(d)' /\ Publishing(d)'
  BY <1>1, <1>2 DEF Progress, Publishing
<1>5. Current(d)' => Current(d) /\ call[d].rev = Len(agenda)
  BY <1>1 DEF Current, At
<1>6. Current(d)' => \A s \in Sessions : Agreed(agenda, call[d].rev, s, invitation'[s])
  BY <1>1, <1>5 DEF Fits, InvitationsAgree
<1>7. Current(d)' => \A s \in Sessions : Agreed(agenda', call'[d].rev, s, invitation'[s])
  BY <1>1, <1>6
<1>. QED
  BY <1>1, <1>3, <1>4, <1>7 DEF Fits

(* A call that goes on with its work. *)
LEMMA FitsOn ==
  ASSUME TypeOK, NEW c \in Calls, Fits(c), UNCHANGED <<agenda, holder>>, InvitationsAgree,
         call[c].pc \in PublishingPC \cup {"next"}, call'[c].pc \in PublishingPC \cup {"next"},
         call'[c].rev = call[c].rev, call'[c].list = call[c].list,
         call'[c].snapshot = call[c].snapshot,
         \A s \in call[c].todo \ call'[c].todo : Agreed(agenda, call[c].rev, s, invitation'[s]),
         Publishing(c)'
  PROVE  Fits(c)'
<1>1. call[c].pc \in RunningPC /\ call'[c].pc \in RunningPC /\ call'[c].pc # "done"
  BY DEF PublishingPC, RunningPC
<1>2. holder = c /\ call[c].rev = Len(agenda)
  BY <1>1 DEF Fits
<1>3. Listed(c)'
  BY DEF Fits, Listed
<1>4. \A s \in Sessions : s \notin call'[c].todo => Agreed(agenda, call[c].rev, s, invitation'[s])
  BY <1>2 DEF Fits, Progress, InvitationsAgree
<1>5. \A s \in Sessions : call[c].snapshot[s] # Never => Suits(agenda, s, call[c].snapshot[s])
  BY DEF Fits, Progress
<1>6. Progress(c)'
  BY <1>4, <1>5 DEF Progress
<1>7. ~Current(c)'
  BY <1>1 DEF Current, At
<1>. QED
  BY <1>1, <1>2, <1>3, <1>6, <1>7 DEF Fits

(* A call that has failed claims nothing. *)
LEMMA FailFits ==
  ASSUME TypeOK, NEW c \in Calls, Refuse(c)
  PROVE  Fits(c)'
<1>1. call'[c] = [Idle EXCEPT !.pc = "failed", !.rev = call[c].rev, !.list = call[c].list]
  BY SetEffect DEF Refuse, End
<1>2. call'[c].pc = "failed"
  BY <1>1 DEF Idle
<1>. QED
  BY <1>2 DEF Fits, Listed, Progress, Publishing, Current, At, RunningPC, PublishingPC

(* A call that only moves on among the statements of one publication. *)
LEMMA MoveFits ==
  ASSUME TypeOK, NEW c \in Calls, Fits(c), UNCHANGED <<agenda, holder>>, InvitationsAgree,
         call[c].pc \in PublishingPC, NEW pc \in PublishingPC, NEW base,
         call'[c] = [call[c] EXCEPT !.pc = pc, !.base = base] \/ Move(c, pc)
  PROVE  Fits(c)'
<1>0. call[c] \in Call
  BY DEF TypeOK
<1>1. Move(c, pc) => call'[c] = [call[c] EXCEPT !.pc = pc]
  BY SetEffect DEF Move
<1>2. /\ call'[c].pc = pc /\ call'[c].rev = call[c].rev /\ call'[c].list = call[c].list
      /\ call'[c].snapshot = call[c].snapshot /\ call'[c].todo = call[c].todo
      /\ call'[c].item = call[c].item
  BY <1>0, <1>1 DEF Call
<1>3. Publishing(c)'
  BY <1>2 DEF Fits, Publishing, Session
<1>. QED
  BY <1>2, <1>3, FitsOn

LEMMA SnapshotTypes ==
  ASSUME TypeOK, NEW c \in Calls, NEW s \in Sessions
  PROVE  /\ call[c].snapshot[s] \in Invitation \cup {Never}
         /\ call[c].snapshot[s] # Never =>
              call[c].snapshot[s].key \in Key /\ call[c].snapshot[s].payload \in Payload
         /\ call[c].rev \in Revisions
<1>1. call[c].snapshot \in [Sessions -> Invitation \cup {Never}] /\ call[c].rev \in Revisions
  BY CallParts DEF TypeOK
<1>. QED
  BY <1>1 DEF Invitation

LEMMA RenewFits ==
  ASSUME TypeOK, Agreeing, NEW c \in Calls, Renew(c)
  PROVE  Fits(c)'
<1>0. call[c] \in Call /\ Fits(c) /\ At(c, "renew") /\ UNCHANGED agenda
  BY DEF Agreeing, TypeOK, Renew, KeepRecords
<1>1. CASE holder # c
  BY <1>1, FailFits DEF Renew
<1>2. CASE holder = c
  <2>1. call'[c] = [call[c] EXCEPT !.pc = "list", !.list = guests] /\ UNCHANGED holder
    BY <1>2, SetEffect DEF Renew
  <2>2. call'[c].pc = "list" /\ call'[c].list = guests /\ call'[c].rev = call[c].rev
    BY <1>0, <2>1 DEF Call
  <2>3. call[c].rev = Len(agenda) /\ Len(agenda) \in Nat
    BY <1>0 DEF Fits, At, RunningPC, TypeOK
  <2>4. Listed(c)'
    BY <1>0, <2>2, <2>3 DEF Listed, Agreeing
  <2>. QED
    BY <1>0, <1>2, <2>1, <2>2, <2>3, <2>4
    DEF Fits, Progress, Publishing, Current, At, RunningPC, PublishingPC
<1>. QED
  BY <1>1, <1>2

(* What is not to be invited and not withdrawn has been cancelled before. *)
LEMMA ListFits ==
  ASSUME TypeOK, Agreeing, NEW c \in Calls, ListInvitations(c)
  PROVE  Fits(c)'
<1>. DEFINE todo == Desired(c) \cup Withdrawn(c, invitation)
            r == [call[c] EXCEPT !.pc = "next", !.snapshot = invitation, !.todo = todo]
<1>0. /\ call[c] \in Call /\ Fits(c) /\ At(c, "list")
      /\ UNCHANGED <<agenda, holder, invitation>>
  BY DEF Agreeing, TypeOK, ListInvitations, KeepRecords
<1>1. call'[c] = r
  BY SetEffect DEF ListInvitations
<1>2. /\ r.pc = "next" /\ r.rev = call[c].rev /\ r.list = call[c].list
      /\ r.snapshot = invitation /\ r.todo = todo
  BY <1>0 DEF Call
<1>. HIDE DEF r
<1>3. Listed(c)'
  BY <1>0, <1>1, <1>2 DEF Fits, Listed, At
<1>4. holder = c /\ call[c].rev = Len(agenda) /\ \A s \in Sessions : call[c].list[s] # 0
  BY <1>0 DEF Fits, Listed, At, RunningPC
<1>5. \A s \in Sessions : s \in agenda[call[c].rev] => s \in todo
  BY <1>4 DEF Desired
<1>6. \A s \in Sessions : s \notin todo => Agreed(agenda, call[c].rev, s, invitation[s])
  <2>. SUFFICES ASSUME NEW s \in Sessions, s \notin todo, invitation[s] # Never
                PROVE  invitation[s].payload.method = "CANCEL"
    BY <1>5 DEF Agreed
  <2>. QED
    BY DEF Withdrawn
<1>7. \A s \in Sessions : invitation[s] # Never => Suits(agenda, s, invitation[s])
  BY DEF Agreeing, Latest
<1>. HIDE DEF todo
<1>8. Progress(c)'
  BY <1>0, <1>1, <1>2, <1>6, <1>7 DEF Progress
<1>. QED
  BY <1>0, <1>1, <1>2, <1>3, <1>4, <1>8
  DEF Fits, Publishing, Current, At, RunningPC, PublishingPC

LEMMA TakeFits ==
  ASSUME TypeOK, NEW c \in Calls, Fits(c), At(c, "next"), NEW item, Take(c, item),
         Suits(agenda, item.session, item), item.key.rev = call[c].rev
  PROVE  Fits(c)'
<1>0. call[c] \in Call /\ UNCHANGED <<agenda, holder, invitation>>
  BY DEF TypeOK, Take, KeepRecords
<1>1. call'[c] = [call[c] EXCEPT !.pc = "lookup", !.item = item]
  BY SetEffect DEF Take
<1>2. /\ call'[c].pc = "lookup" /\ call'[c].rev = call[c].rev /\ call'[c].list = call[c].list
      /\ call'[c].snapshot = call[c].snapshot /\ call'[c].todo = call[c].todo
      /\ call'[c].item = item
  BY <1>0, <1>1 DEF Call
<1>3. Publishing(c)'
  BY <1>0, <1>2 DEF Publishing, Session
<1>4. call[c].pc \in PublishingPC \cup {"next"} /\ call'[c].pc \in PublishingPC \cup {"next"}
  BY <1>2 DEF At, PublishingPC
<1>5. InvitationsAgree
  BY <1>0 DEF InvitationsAgree
<1>. QED
  BY <1>0, <1>2, <1>3, <1>4, <1>5, FitsOn

(* An invitation to repeat is not a cancellation: the key of a revision     *)
(* has none.                                                               *)
LEMMA InviteFits ==
  ASSUME TypeOK, Agreeing, NEW c \in Calls, NEW s \in Sessions, Invite(c, s)
  PROVE  Fits(c)'
<1>. DEFINE listed == call[c].snapshot[s]
            existing == IF listed # Never THEN listed ELSE invitation[s]
            key == AgendaKey(call[c].rev)
            method == Method(existing, key)
            item == [session |-> s, key |-> key,
                     payload |-> [method |-> method, rev |-> call[c].rev, list |-> call[c].list[s]]]
<1>0. At(c, "next") /\ s \in Desired(c) /\ Fits(c) /\ Take(c, item)
  BY DEF Invite, Agreeing
<1>1. call[c].rev = Len(agenda) /\ Len(agenda) \in Nat /\ s \in agenda[call[c].rev]
  BY <1>0 DEF Fits, At, RunningPC, Desired, TypeOK
<1>2. existing # Never => Suits(agenda, s, existing)
  BY <1>0 DEF Fits, Progress, Agreeing, Latest, At
<1>3. key.kind = "agenda" /\ key.rev = call[c].rev
  BY DEF AgendaKey
<1>4. method # "CANCEL"
  BY <1>2, <1>3 DEF Method, Suits
<1>. HIDE DEF key, method
<1>5. Suits(agenda, s, item)
  BY <1>1, <1>3, <1>4 DEF Suits
<1>6. item.session = s /\ item.key = key
  OBVIOUS
<1>. HIDE DEF item
<1>. QED
  BY <1>0, <1>3, <1>5, <1>6, TakeFits

LEMMA CancelFits ==
  ASSUME TypeOK, Sound, Agreeing, NEW c \in Calls, NEW s \in Sessions, Cancel(c, s)
  PROVE  Fits(c)'
<1>. DEFINE key == CancelKey(call[c].rev)
            payload == [call[c].snapshot[s].payload EXCEPT !.method = "CANCEL"]
            item == [session |-> s, key |-> key, payload |-> payload]
<1>0. At(c, "next") /\ s \in call[c].todo /\ s \notin Desired(c) /\ Fits(c) /\ Take(c, item)
  BY DEF Cancel, Agreeing
<1>1. call[c].rev = Len(agenda) /\ Len(agenda) \in Nat /\ s \notin agenda[call[c].rev]
  BY <1>0 DEF Fits, Listed, At, RunningPC, Desired, TypeOK
<1>2. call[c].snapshot[s].payload \in Payload
  BY <1>0, SnapshotTypes DEF Sound, CallSound
<1>3. payload.method = "CANCEL"
  BY <1>2 DEF Payload
<1>4. key.kind = "cancel" /\ key.rev = call[c].rev
  BY DEF CancelKey
<1>. HIDE DEF key, payload
<1>5. Suits(agenda, s, item)
  BY <1>1, <1>3, <1>4 DEF Suits
<1>6. item.session = s /\ item.key = key
  OBVIOUS
<1>. HIDE DEF item
<1>. QED
  BY <1>0, <1>4, <1>5, <1>6, TakeFits

(* A call that is done has nothing left to do. *)
LEMMA FinishFits ==
  ASSUME TypeOK, Agreeing, NEW c \in Calls, Finish(c)
  PROVE  Fits(c)'
<1>0. /\ call[c] \in Call /\ Fits(c) /\ At(c, "next") /\ call[c].todo = {}
      /\ UNCHANGED <<agenda, invitation>>
  BY DEF Agreeing, TypeOK, Finish, KeepRecords
<1>1. call'[c] = [Idle EXCEPT !.pc = "done", !.rev = call[c].rev, !.list = call[c].list]
  BY SetEffect DEF Finish, End
<1>2. call'[c].pc = "done" /\ call'[c].rev = call[c].rev /\ call'[c].list = call[c].list
  BY <1>1 DEF Idle
<1>3. Listed(c)'
  BY <1>0, <1>2 DEF Fits, Listed, At
<1>4. \A s \in Sessions : Agreed(agenda, call[c].rev, s, invitation[s])
  BY <1>0 DEF Fits, Progress, At
<1>. QED
  BY <1>0, <1>2, <1>3, <1>4 DEF Fits, Progress, Publishing, RunningPC, PublishingPC

(* The committed batch gives the session the latest key it can have. *)
LEMMA CommitFits ==
  ASSUME TypeOK, Sound, Agreeing, NEW c \in Calls, Batch(c), Unchanged(c)
  PROVE  Fits(c)' /\ InvitationsAgree /\ \A s \in Sessions : Latest(s)'
<1>. DEFINE s == Session(c)  k == call[c].item.key  seq == call[c].base + 1
            i == [seq |-> seq, key |-> k, payload |-> call[c].item.payload]
<1>0. /\ At(c, "batch") /\ UNCHANGED <<agenda, holder>> /\ Move(c, "enqueue")
      /\ Fits(c) /\ Latest(s)
  <2>1. s \in Sessions
    BY CommitEffect
  <2>. QED
    BY <2>1 DEF Batch, Continue, Agreeing
<1>1. /\ s \in Sessions /\ k \in Key /\ publication[s][k] = Never
      /\ invitation'[s] = i /\ i # Never
      /\ \A u \in Sessions : u # s => invitation'[u] = invitation[u]
      /\ \A u \in Sessions, j \in Key :
           u # s \/ j # k => publication'[u][j] = publication[u][j]
  BY CommitEffect DEF Never
<1>2. /\ k.rev = Len(agenda) /\ call[c].rev = Len(agenda) /\ Len(agenda) \in Nat
      /\ Suits(agenda, s, call[c].item)
  BY <1>0 DEF Fits, Publishing, PublishingPC, RunningPC, At, TypeOK
<1>3. i.key = k /\ i.payload = call[c].item.payload
  OBVIOUS
<1>. HIDE DEF i
<1>4. Suits(agenda, s, i)
  BY <1>2, <1>3 DEF Suits
<1>5. Agreed(agenda, Len(agenda), s, i)
  BY <1>1, <1>2, <1>3, <1>4, KeyAgrees
<1>6. InvitationsAgree
  BY <1>1, <1>5 DEF InvitationsAgree
<1>7. Fits(c)'
  BY <1>0, <1>6, MoveFits DEF At, PublishingPC
<1>8. \A j \in Key : publication[s][j] # Never => j.rev <= k.rev /\ (j.rev = k.rev => j = k)
  <2>. SUFFICES ASSUME NEW j \in Key, publication[s][j] # Never
                PROVE  j.rev <= k.rev /\ (j.rev = k.rev => j = k)
    OBVIOUS
  <2>1. /\ invitation[s] # Never /\ invitation[s].key \in Key
        /\ Suits(agenda, s, invitation[s]) /\ j.rev <= invitation[s].key.rev
    BY <1>0, <1>1, SequenceTypes DEF Latest
  <2>2. j.rev \in Nat /\ invitation[s].key.rev \in Nat /\ invitation[s].key.rev <= Len(agenda)
    BY <2>1, BoundAssumption DEF Key, Revisions, Suits
  <2>3. j.rev <= k.rev
    BY <1>2, <2>1, <2>2
  <2>4. CASE j.rev = k.rev
    <3>1. invitation[s].key = j
      BY <1>0, <1>1, <1>2, <2>4, LastKey
    <3>2. j.kind = k.kind
      BY <1>1, <1>2, <1>3, <1>4, <2>1, <2>4, <3>1 DEF Suits, Key
    <3>. QED
      BY <1>1, <2>3, <2>4, <3>2 DEF Key
  <2>. QED
    BY <2>3, <2>4
<1>. HIDE DEF s, k
<1>9. ASSUME NEW u \in Sessions, u = s PROVE Latest(u)'
  <2>1. \A j \in Key : publication'[u][j] # Never => j.rev <= k.rev /\ (j.rev = k.rev => j = k)
    BY <1>1, <1>2, <1>8, <1>9
  <2>2. Suits(agenda', u, i)
    BY <1>0, <1>4, <1>9
  <2>. QED
    BY <1>1, <1>3, <1>9, <2>1, <2>2 DEF Latest
<1>10. ASSUME NEW u \in Sessions, u # s PROVE Latest(u)'
  <2>1. Latest(u) /\ invitation'[u] = invitation[u] /\ agenda' = agenda
    BY <1>0, <1>1, <1>10 DEF Agreeing
  <2>2. \A j \in Key : publication'[u][j] = publication[u][j]
    BY <1>1, <1>10
  <2>. QED
    BY <2>1, <2>2 DEF Latest
<1>. QED
  BY <1>6, <1>7, <1>9, <1>10

(* What has been published agrees, by whichever call. *)
LEMMA ProceedFits ==
  ASSUME TypeOK, Sound, Agreeing, NEW c \in Calls, Proceed(c),
         call[c].pc \in {"enqueue", "mark"}, UNCHANGED <<agenda, holder, invitation>>
  PROVE  Fits(c)'
<1>. DEFINE s == Session(c)  k == call[c].item.key
            r == [call[c] EXCEPT !.pc = "next", !.item = NoItem, !.base = -1,
                                 !.todo = call[c].todo \ {call[c].item.session}]
<1>0. call[c] \in Call /\ Fits(c) /\ CallSound(c)
  BY DEF Agreeing, TypeOK, Sound
<1>1. s \in Sessions /\ k \in Key /\ call[c].item.session = s /\ publication[s][k] # Never
  BY <1>0, ItemParts DEF CallSound, Prior
<1>2. call'[c] = r
  BY SetEffect DEF Proceed
<1>3. /\ r.pc = "next" /\ r.rev = call[c].rev /\ r.list = call[c].list
      /\ r.snapshot = call[c].snapshot /\ r.todo = call[c].todo \ {s}
  BY <1>0, <1>1 DEF Call
<1>. HIDE DEF r
<1>4. k.rev = Len(agenda) /\ call[c].rev = Len(agenda)
  BY <1>0 DEF Fits, Publishing, PublishingPC, RunningPC
<1>5. /\ invitation[s] # Never /\ invitation[s].key = k
      /\ Suits(agenda, s, invitation[s])
  BY <1>1, <1>4, LastKey DEF Agreeing, Latest
<1>6. Agreed(agenda, call[c].rev, s, invitation[s])
  BY <1>1, <1>4, <1>5, KeyAgrees
<1>7. InvitationsAgree /\ Publishing(c)'
  BY <1>2, <1>3 DEF InvitationsAgree, Publishing, PublishingPC
<1>8. call[c].pc \in PublishingPC \cup {"next"}
  BY DEF PublishingPC
<1>9. \A u \in call[c].todo \ call'[c].todo : Agreed(agenda, call[c].rev, u, invitation'[u])
  BY <1>2, <1>3, <1>6
<1>. QED
  BY <1>0, <1>2, <1>3, <1>7, <1>8, <1>9, FitsOn

LEMMA LookupFits ==
  ASSUME TypeOK, Agreeing, NEW c \in Calls, Lookup(c)
  PROVE  Fits(c)'
<1>0. /\ call[c].pc \in PublishingPC /\ Fits(c) /\ UNCHANGED agenda
      /\ InvitationsAgree
  BY DEF Lookup, At, PublishingPC, Agreeing, KeepRecords, InvitationsAgree
<1>1. CASE Refuse(c)
  BY <1>1, FailFits
<1>2. CASE Continue(c, "load") \/ Continue(c, "enqueue")
  BY <1>0, <1>2, MoveFits DEF Continue, PublishingPC
<1>. QED
  BY <1>1, <1>2 DEF Lookup

LEMMA LoadFits ==
  ASSUME TypeOK, Agreeing, NEW c \in Calls, Load(c)
  PROVE  Fits(c)'
<1>0. /\ call[c].pc \in PublishingPC /\ Fits(c) /\ UNCHANGED agenda
      /\ InvitationsAgree
  BY DEF Load, At, PublishingPC, Agreeing, KeepRecords, InvitationsAgree
<1>1. CASE Refuse(c)
  BY <1>1, FailFits
<1>2. CASE UNCHANGED holder /\ Set(c, [call[c] EXCEPT !.pc = "batch",
                                                      !.base = invitation[Session(c)].seq])
  BY <1>0, <1>2, SetEffect, MoveFits DEF PublishingPC
<1>. QED
  BY <1>1, <1>2 DEF Load

LEMMA BatchFits ==
  ASSUME TypeOK, Sound, Agreeing, NEW c \in Calls, Batch(c)
  PROVE  Fits(c)' /\ InvitationsAgree /\ \A s \in Sessions : Latest(s)'
<1>1. CASE ~Unchanged(c)
  <2>1. UNCHANGED <<agenda, invitation, publication>> /\ call[c].pc \in PublishingPC /\ Fits(c)
    BY <1>1 DEF Batch, At, PublishingPC, Agreeing
  <2>2. InvitationsAgree /\ \A s \in Sessions : Latest(s)'
    BY <2>1 DEF InvitationsAgree, Agreeing, Latest
  <2>3. CASE Refuse(c)
    BY <2>2, <2>3, FailFits
  <2>4. CASE Continue(c, "enqueue")
    BY <2>1, <2>2, <2>4, MoveFits DEF Continue, PublishingPC
  <2>. QED
    BY <1>1, <2>3, <2>4 DEF Batch
<1>. QED
  BY <1>1, CommitFits

(* The other steps of a call leave the invitations, and which keys are used. *)
LEMMA SameInvitations ==
  ASSUME TypeOK, Agreeing, UNCHANGED <<agenda, invitation>>, SamePublications
  PROVE  InvitationsAgree /\ \A s \in Sessions : Latest(s)'
BY AgendaKept, LatestKept DEF Agreeing, InvitationsAgree

LEMMA JobKept ==
  ASSUME TypeOK, NEW s \in Sessions, NEW k \in Key, publication[s][k] # Never,
         NEW state \in JobStates, SetJob(s, k, state)
  PROVE  SamePublications
BY SetJobEffect DEF SamePublications

LEMMA StepFits ==
  ASSUME TypeOK, Sound, Agreeing, NEW c \in Calls, Step(c)
  PROVE  Fits(c)' /\ InvitationsAgree /\ \A s \in Sessions : Latest(s)'
<1>1. CASE \/ Renew(c) \/ ListInvitations(c) \/ Lookup(c) \/ Load(c) \/ Finish(c)
           \/ \E s \in Sessions : Invite(c, s) \/ Cancel(c, s)
  <2>1. UNCHANGED <<agenda, invitation, publication>>
    BY <1>1 DEF KeepRecords, Renew, ListInvitations, Invite, Cancel, Take, Lookup, Load, Finish
  <2>2. InvitationsAgree /\ \A s \in Sessions : Latest(s)'
    BY <2>1, SameInvitations DEF SamePublications
  <2>. QED
    BY <1>1, <2>2, RenewFits, ListFits, LookupFits, LoadFits, FinishFits, InviteFits, CancelFits
<1>2. CASE Batch(c)
  BY <1>2, BatchFits
<1>3. CASE Enqueue(c)
  <2>1. /\ UNCHANGED <<agenda, invitation, publication, holder>>
        /\ call[c].pc = "enqueue" /\ call[c].pc \in PublishingPC /\ Fits(c)
    BY <1>3 DEF Enqueue, At, PublishingPC, Agreeing
  <2>2. InvitationsAgree /\ \A s \in Sessions : Latest(s)'
    BY <2>1, SameInvitations DEF SamePublications
  <2>3. CASE Move(c, "mark")
    BY <2>1, <2>2, <2>3, MoveFits DEF PublishingPC
  <2>4. CASE Proceed(c)
    BY <2>1, <2>2, <2>4, ProceedFits
  <2>. QED
    BY <1>3, <2>2, <2>3, <2>4 DEF Enqueue
<1>4. CASE Mark(c)
  <2>1. /\ UNCHANGED <<agenda, invitation, holder>> /\ Proceed(c) /\ call[c].pc = "mark"
        /\ Session(c) \in Sessions /\ call[c].item.key \in Key
        /\ publication[Session(c)][call[c].item.key] # Never
    BY <1>4, ItemParts DEF Mark, At, Sound, CallSound
  <2>2. SamePublications
    BY <1>4, <2>1, JobKept DEF Mark, SamePublications, JobStates
  <2>. QED
    BY <2>1, <2>2, SameInvitations, ProceedFits
<1>. QED
  BY <1>1, <1>2, <1>3, <1>4 DEF Step

(* Where no call is at work, a call that begins is the only one. *)
LEMMA BeginFits ==
  ASSUME TypeOK, Agreeing, NEW c \in Calls, NEW r \in Revisions, Begin(c, r), Len(agenda') = r,
         AgendaGrows, agenda' = agenda \/ Len(agenda) < Len(agenda')
  PROVE  Agreeing'
<1>0. /\ UNCHANGED <<guests, invitation, publication>> /\ holder = NoCall /\ holder' = c
      /\ \A d \in Calls : d # c => call'[d] = call[d]
      /\ call'[c] = [Idle EXCEPT !.pc = "renew", !.rev = r]
      /\ Len(agenda) \in Nat /\ r \in Nat
  BY SetEffect, BoundAssumption DEF Begin, TypeOK, Revisions
<1>1. call'[c].pc = "renew" /\ call'[c].rev = r
  BY <1>0 DEF Idle
<1>2. Fits(c)'
  BY <1>0, <1>1 DEF Fits, Listed, Progress, Publishing, Current, At, RunningPC, PublishingPC
<1>3. \A s \in Sessions : Latest(s)'
  BY <1>0, LatestKept DEF Agreeing, SamePublications
<1>4. ASSUME NEW d \in Calls, d # c PROVE Fits(d)'
  <2>1. call'[d] = call[d] /\ Fits(d) /\ call[d].pc \notin RunningPC /\ call[d].rev \in Nat
    <3>1. call[d].rev \in Revisions
      BY CallParts DEF TypeOK
    <3>. QED
      BY <1>0, <1>4, <3>1, CallAssumption, BoundAssumption DEF Agreeing, Fits, Revisions
  <2>2. call[d].pc \notin PublishingPC /\ call[d].pc \notin {"list", "next"}
    BY <2>1 DEF PublishingPC, RunningPC
  <2>3. call[d].pc = "done" => call[d].rev <= Len(agenda) /\ call[d].rev <= Len(agenda')
    BY <1>0, <2>1 DEF Fits, Listed, AgendaGrows
  <2>4. Listed(d)'
    BY <2>1, <2>2, <2>3 DEF Fits, Listed
  <2>5. Progress(d)' /\ Publishing(d)'
    BY <2>1, <2>2 DEF Progress, Publishing
  <2>6. Current(d)' => agenda' = agenda /\ Current(d)
    BY <1>0, <2>1, <2>3 DEF Current, At
  <2>7. Current(d)' => \A s \in Sessions : Agreed(agenda', call'[d].rev, s, invitation'[s])
    BY <1>0, <2>1, <2>6 DEF Fits
  <2>. QED
    BY <2>1, <2>4, <2>5, <2>7 DEF Fits
<1>. QED
  BY <1>0, <1>2, <1>3, <1>4 DEF Agreeing

(* Deliveries and what else leaves the calls, the agenda and the invitations. *)
LEMMA AgreeingKept ==
  ASSUME TypeOK, Agreeing, UNCHANGED <<agenda, guests, invitation, call, holder>>,
         SamePublications
  PROVE  Agreeing'
<1>1. \A c \in Calls : Fits(c)'
  BY DEF Agreeing, Fits, Listed, Progress, Publishing, Session, Current, At
<1>2. \A s \in Sessions : Latest(s)'
  BY SameInvitations
<1>. QED
  BY <1>1, <1>2 DEF Agreeing

LEMMA NextAgrees == TypeOK /\ Sound /\ AgreeInv /\ [Next]_vars => AgreeInv'
<1>. SUFFICES ASSUME TypeOK, Sound, AgreeInv, [Next]_vars, lapses' = 0, changes' = 0
              PROVE  Agreeing'
  BY DEF AgreeInv
<1>0. lapses = 0 /\ changes = 0 /\ ~Lapse /\ ~(\E s \in Sessions, l \in Lists : ChangeGuests(s, l))
  <2>1. lapses \in Nat /\ changes \in Nat
    BY DEF TypeOK
  <2>2. ~Lapse /\ ~(\E s \in Sessions, l \in Lists : ChangeGuests(s, l))
    BY <2>1 DEF Lapse, ChangeGuests
  <2>3. UNCHANGED <<lapses, changes>>
    <3>1. CASE \E c \in Calls : Step(c)
      BY <3>1 DEF Step, KeepRecords, Renew, ListInvitations, Invite, Cancel, Take, Lookup, Load,
         Batch, Enqueue, Mark, Finish, bounds
    <3>2. CASE \E c \in Calls : \/ \E scheduled \in SUBSET Sessions : Publish(c, scheduled)
                              \/ Resume(c) \/ Fail(c)
      BY <3>2 DEF KeepRecords, Publish, Resume, Begin, Fail, bounds
    <3>3. CASE (\E s \in Sessions, k \in Key : QueueStep(s, k)) \/ UNCHANGED vars
      BY <3>3, QueueEffect DEF vars
    <3>. QED
      BY <2>2, <3>1, <3>2, <3>3 DEF Next, Consume, QueueStep
  <2>. QED
    BY <2>2, <2>3
<1>1. Agreeing
  BY <1>0 DEF AgreeInv
<1>2. CASE \E c \in Calls : (\E scheduled \in SUBSET Sessions : Publish(c, scheduled)) \/ Resume(c)
  <2>1. PICK c \in Calls, scheduled \in SUBSET Sessions : Publish(c, scheduled) \/ Resume(c)
    BY <1>2
  <2>2. CASE Publish(c, scheduled)
    <3>1. /\ Len(agenda') = Len(agenda) + 1 /\ Len(agenda) \in Nat /\ Len(agenda) + 1 \in Revisions
          /\ AgendaGrows
      BY <2>2, BoundAssumption DEF Publish, TypeOK, AgendaGrows, Revisions
    <3>. QED
      BY <1>1, <2>2, <3>1, BeginFits DEF Publish
  <2>3. CASE Resume(c)
    <3>1. Len(agenda) \in Revisions /\ AgendaGrows /\ agenda' = agenda
      BY <2>3, AgendaKept, BoundAssumption DEF Resume, TypeOK, Revisions
    <3>. QED
      BY <1>1, <2>3, <3>1, BeginFits DEF Resume
  <2>. QED
    BY <2>1, <2>2, <2>3
<1>3. ASSUME NEW c \in Calls, Step(c) \/ Fail(c) PROVE Agreeing'
  <2>1. Fits(c)' /\ InvitationsAgree /\ \A s \in Sessions : Latest(s)'
    <3>1. CASE Fail(c)
      BY <1>1, <3>1, FailFits, SameInvitations DEF Fail, SamePublications
    <3>. QED
      BY <1>1, <1>3, <3>1, StepFits
  <2>2. call[c].pc \in RunningPC /\ UNCHANGED <<agenda, guests>>
    BY <1>3 DEF Step, KeepRecords, Renew, ListInvitations, Invite, Cancel, Take, Lookup, Load, Batch,
       Enqueue, Mark, Finish, Fail, At, RunningPC
  <2>3. \E r : Set(c, r)
    BY <1>3 DEF Step, Renew, ListInvitations, Invite, Cancel, Take, Lookup, Load, Batch, Enqueue,
       Mark, Finish, Fail, Refuse, End, Continue, Move, Proceed
  <2>4. \A d \in Calls : d # c => Fits(d)'
    BY <1>1, <2>1, <2>2, <2>3, SetEffect, OthersFit
  <2>. QED
    BY <1>1, <2>1, <2>2, <2>4 DEF Agreeing
<1>4. CASE \E s \in Sessions, k \in Key : QueueStep(s, k)
  <2>1. PICK s \in Sessions, k \in Key : QueueStep(s, k)
    BY <1>4
  <2>2. /\ publication[s][k] # Never
        /\ UNCHANGED publication \/ \E state \in JobStates : SetJob(s, k, state)
    BY <2>1, QueueEffect
  <2>3. UNCHANGED <<agenda, guests, invitation, call, holder>>
    BY <2>1, QueueEffect
  <2>4. SamePublications
    BY <2>2, JobKept DEF SamePublications
  <2>. QED
    BY <1>1, <2>3, <2>4, AgreeingKept
<1>5. CASE UNCHANGED vars
  BY <1>1, <1>5, AgreeingKept DEF vars, SamePublications
<1>. QED
  BY <1>0, <1>2, <1>3, <1>4, <1>5 DEF Next, Consume, QueueStep

LEMMA InitAgrees == Init => AgreeInv
<1>. SUFFICES ASSUME Init PROVE Agreeing
  BY DEF AgreeInv
<1>1. \A c \in Calls : Fits(c)
  BY DEF Init, Fits, Listed, Progress, Publishing, Current, At, Idle, RunningPC, PublishingPC
<1>2. \A s \in Sessions : guests[s] # 0 /\ Latest(s)
  BY DEF Init, Latest
<1>. QED
  BY <1>1, <1>2 DEF Agreeing

LEMMA AgreeingSuffices == AgreeInv => SuccessAgrees
<1>. SUFFICES ASSUME Agreeing, NEW c \in Calls, Current(c), NEW s \in Sessions
              PROVE  IF s \in Desired(c)
                     THEN Invited(s) /\ invitation[s].payload.rev = call[c].rev
                     ELSE ~Invited(s)
  BY DEF AgreeInv, SuccessAgrees
<1>1. Agreed(agenda, call[c].rev, s, invitation[s]) /\ call[c].list[s] # 0
  BY DEF Agreeing, Fits, Listed, Current, At
<1>2. s \in Desired(c) <=> s \in agenda[call[c].rev]
  BY <1>1 DEF Desired
<1>. QED
  BY <1>1, <1>2 DEF Agreed, Invited

(* When an operation succeeds for the latest revision, each session this   *)
(* revision schedules has an invitation to what it says and no other one is *)
(* invited, whatever calls failed before and at which statement, while no   *)
(* lease ran out and no attendee list changed (SuccessAgrees;              *)
(* reconcilePublishedAgendaCalendarInvitations).                           *)
THEOREM SuccessIsAgreed == Spec => []SuccessAgrees
<1>1. Init => TypeOK /\ Sound /\ AgreeInv
  BY InitSound, InitAgrees
<1>2. TypeOK /\ Sound /\ AgreeInv /\ [Next]_vars => TypeOK' /\ Sound' /\ AgreeInv'
  BY NextSound, NextAgrees
<1>3. AgreeInv => SuccessAgrees
  BY AgreeingSuffices
<1>. QED
  BY <1>1, <1>2, <1>3, PTL DEF Spec
=============================================================================
