-------------------------- MODULE CalendarInvitations --------------------------
(***************************************************************************)
(* The calendar invitations of an event.  A published revision is handed   *)
(* off under the agenda's lease: each scheduled session with attendees is  *)
(* invited or updated, every other invitation is cancelled, and each of    *)
(* these publications takes the next SEQUENCE of the session's UID and an  *)
(* outbox row whose message delivers it.  Calls repeat, fail half-way, and *)
(* may outlive the lease; the calendar of an attendee keeps the highest    *)
(* sequence it was sent.  One step is one D1 statement or batch, or one    *)
(* queue call.                                                             *)
(***************************************************************************)
EXTENDS Integers, Sequences

CONSTANTS
  Calls,         \* agenda operations that are under way at a time
  NoCall,        \* the lease is free
  Sessions,
  MaxRevisions,  \* bound: revisions published
  MaxLists,      \* bound: attendee lists of a session; 0 is the empty one
  MaxTroubles    \* bound: attendee lists that change, leases that run out while their
                 \* holder is at work, calls and deliveries that fail, messages lost

ASSUME CallAssumption == NoCall \notin Calls /\ NoCall \notin Sessions
ASSUME BoundAssumption ==
  MaxRevisions \in Nat \ {0} /\ MaxLists \in Nat \ {0} /\ MaxTroubles \in Nat

VARIABLES
  agenda,       \* the sessions that each published revision schedules
  guests,       \* the attendee list of each session, as the profiles give it
  invitation,   \* calendar_invitations, by session
  publication,  \* calendar_invitation_publications with their outbox rows
  messages,     \* <<session, key>> of the messages in Cloudflare Queue
  dlq,          \* those that the queue moved to the dead-letter queue
  client,       \* the highest sequence the attendees of a session were sent
  call,         \* the operations under way
  holder,       \* whose lease the agenda's is
  changes, lapses, faults

vars == <<agenda, guests, invitation, publication, messages, dlq, client, call, holder,
          changes, lapses, faults>>
bounds == <<changes, lapses, faults>>

Revisions == 1 .. MaxRevisions
Lists == 0 .. MaxLists

(* agenda-calendar:event:revision:session and its counterpart. *)
AgendaKey(r) == [kind |-> "agenda", rev |-> r]
CancelKey(r) == [kind |-> "cancel", rev |-> r]
Key == [kind : {"agenda", "cancel"}, rev : Revisions]

(* What the fingerprint covers: the entry of a revision stands for its     *)
(* times, room and title.                                                  *)
Payload == [method : {"REQUEST", "UPDATE", "CANCEL"}, rev : Revisions, list : Lists]

Invitation == [seq : Nat, key : Key, payload : Payload]
Never == [seq |-> -1]
GivenUp == {"failed", "dead-letter"}
Published == [seq : Nat, payload : Payload,
              job : {"pending", "queued", "delivered"} \cup GivenUp]

Item == [session : Sessions, key : Key, payload : Payload]
NoItem == [session |-> NoCall]
RunningPC == {"renew", "list", "next", "lookup", "load", "batch", "enqueue", "mark"}
Call == [pc : {"idle", "done", "failed"} \cup RunningPC,
         rev : Revisions,
         list : [Sessions -> Lists],                       \* the attendees it has read
         snapshot : [Sessions -> Invitation \cup {Never}],  \* listForEvent
         todo : SUBSET Sessions,
         item : Item \cup {NoItem},                        \* what it is publishing
         base : Nat \cup {-1}]                             \* the sequence it has read

TypeOK ==
  /\ agenda \in Seq(SUBSET Sessions) /\ Len(agenda) <= MaxRevisions
  /\ guests \in [Sessions -> Lists]
  /\ invitation \in [Sessions -> Invitation \cup {Never}]
  /\ publication \in [Sessions -> [Key -> Published \cup {Never}]]
  /\ messages \subseteq Sessions \X Key /\ dlq \subseteq Sessions \X Key
  /\ client \in [Sessions -> Nat \cup {-1}]
  /\ call \in [Calls -> Call]
  /\ holder \in Calls \cup {NoCall}
  /\ changes \in Nat /\ lapses \in Nat /\ faults \in Nat

Idle == [pc |-> "idle", rev |-> 1, list |-> [s \in Sessions |-> 0],
         snapshot |-> [s \in Sessions |-> Never], todo |-> {}, item |-> NoItem, base |-> -1]

Init ==
  /\ agenda = <<>> /\ messages = {} /\ dlq = {} /\ holder = NoCall
  /\ guests = [s \in Sessions |-> 1]
  /\ invitation = [s \in Sessions |-> Never]
  /\ publication = [s \in Sessions |-> [k \in Key |-> Never]]
  /\ client = [s \in Sessions |-> -1]
  /\ call = [c \in Calls |-> Idle]
  /\ changes = 0 /\ lapses = 0 /\ faults = 0

Bounded == changes + lapses + faults < MaxTroubles

At(c, pc) == call[c].pc = pc
Set(c, r) == call' = [call EXCEPT ![c] = r]
Move(c, pc) == Set(c, [call[c] EXCEPT !.pc = pc])

(* The operation returns or throws, and releases the lease if it has it. *)
End(c, pc) ==
  /\ Set(c, [Idle EXCEPT !.pc = pc, !.rev = call[c].rev, !.list = call[c].list])
  /\ holder' = IF holder = c THEN NoCall ELSE holder

(* It goes on with the next session. *)
Proceed(c) ==
  Set(c, [call[c] EXCEPT !.pc = "next", !.item = NoItem, !.base = -1,
                         !.todo = call[c].todo \ {call[c].item.session}])
Continue(c, pc) == Move(c, pc) /\ UNCHANGED holder
Refuse(c) == End(c, "failed")

-----------------------------------------------------------------------------
(* Mutant: the hand-off does not wait for the lease. *)
BeginUnlocked(c, r) ==
  /\ call[c].pc \notin RunningPC
  /\ holder' = c
  /\ Set(c, [Idle EXCEPT !.pc = "renew", !.rev = r])
  /\ UNCHANGED <<guests, invitation, publication, messages, dlq, client, bounds>>

(* The operation is admitted; its mutation commits a revision, or finds the *)
(* current one unchanged.  Either is followed by the hand-off.             *)
Begin(c, r) ==
  /\ call[c].pc \notin RunningPC /\ holder = NoCall
  /\ holder' = c
  /\ Set(c, [Idle EXCEPT !.pc = "renew", !.rev = r])
  /\ UNCHANGED <<guests, invitation, publication, messages, dlq, client, bounds>>

Publish(c, scheduled) ==
  /\ Len(agenda) < MaxRevisions
  /\ agenda' = Append(agenda, scheduled)
  /\ Begin(c, Len(agenda) + 1)

Resume(c) ==
  /\ agenda # <<>>
  /\ Begin(c, Len(agenda))
  /\ UNCHANGED agenda

KeepRecords == UNCHANGED <<agenda, guests, invitation, publication, messages, dlq, client, bounds>>

(* afterPublish has read the profiles and renews the lease a last time: who *)
(* still has it hands off the latest revision.                             *)
Renew(c) ==
  /\ At(c, "renew")
  /\ \/ /\ holder = c
        /\ Set(c, [call[c] EXCEPT !.pc = "list", !.list = guests])
        /\ UNCHANGED holder
     \/ holder # c /\ Refuse(c)
  /\ KeepRecords

Desired(c) == {s \in agenda[call[c].rev] : call[c].list[s] # 0}

(* Of the invitations listed, those to cancel: one that another revision   *)
(* has cancelled is left alone.                                            *)
Withdrawn(c, listed) ==
  {s \in Sessions \ Desired(c) :
     /\ listed[s] # Never
     /\ ~(listed[s].payload.method = "CANCEL" /\ listed[s].key # CancelKey(call[c].rev))}

ListInvitations(c) ==
  /\ At(c, "list")
  /\ Set(c, [call[c] EXCEPT !.pc = "next", !.snapshot = invitation,
                            !.todo = Desired(c) \cup Withdrawn(c, invitation)])
  /\ UNCHANGED holder /\ KeepRecords

Take(c, item) ==
  /\ Set(c, [call[c] EXCEPT !.pc = "lookup", !.item = item])
  /\ UNCHANGED holder /\ KeepRecords

(* The listed invitation, or what is there now if none was listed, decides *)
(* between REQUEST, UPDATE and the method of a publication to repeat.      *)
Method(existing, key) ==
  IF existing = Never THEN "REQUEST"
  ELSE IF existing.key = key THEN existing.payload.method ELSE "UPDATE"

Invite(c, s) ==
  LET listed == call[c].snapshot[s]
      existing == IF listed # Never THEN listed ELSE invitation[s]
      key == AgendaKey(call[c].rev)
  IN /\ At(c, "next") /\ s \in call[c].todo \cap Desired(c)
     /\ Take(c, [session |-> s, key |-> key,
                 payload |-> [method |-> Method(existing, key), rev |-> call[c].rev,
                              list |-> call[c].list[s]]])

(* The cancellations come last; they repeat what was listed. *)
Cancel(c, s) ==
  /\ At(c, "next") /\ s \in call[c].todo /\ call[c].todo \cap Desired(c) = {}
  /\ Take(c, [session |-> s, key |-> CancelKey(call[c].rev),
              payload |-> [call[c].snapshot[s].payload EXCEPT !.method = "CANCEL"]])

Finish(c) ==
  /\ At(c, "next") /\ call[c].todo = {}
  /\ End(c, "done")
  /\ KeepRecords

-----------------------------------------------------------------------------
(* D1CalendarInvitationRepository.publish *)
Session(c) == call[c].item.session
Prior(c) == publication[Session(c)][call[c].item.key]

(* Mutant: a replay returns the publication and forgets its outbox row. *)
LookupForgets(c) ==
  /\ At(c, "lookup")
  /\ \/ Prior(c) = Never /\ Continue(c, "load")
     \/ /\ Prior(c) # Never
        /\ \/ Prior(c).payload # call[c].item.payload /\ Refuse(c)
           \/ Prior(c).payload = call[c].item.payload /\ Proceed(c) /\ UNCHANGED holder
  /\ KeepRecords

(* A key that was used is replayed for the same content, else refused. *)
Lookup(c) ==
  /\ At(c, "lookup")
  /\ \/ Prior(c) = Never /\ Continue(c, "load")
     \/ /\ Prior(c) # Never
        /\ \/ Prior(c).payload # call[c].item.payload /\ Refuse(c)
           \/ Prior(c).payload = call[c].item.payload /\ Continue(c, "enqueue")
  /\ KeepRecords

(* A UID begins with a REQUEST and has no second one. *)
Load(c) ==
  LET current == invitation[Session(c)]
  IN /\ At(c, "load")
     /\ \/ /\ (current = Never) = (call[c].item.payload.method = "REQUEST")
           /\ Set(c, [call[c] EXCEPT !.pc = "batch", !.base = current.seq])
           /\ UNCHANGED holder
        \/ /\ (current = Never) # (call[c].item.payload.method = "REQUEST")
           /\ Refuse(c)
     /\ KeepRecords

(* Mutant: the UPDATE does not compare the sequence. *)
KeyUnused(c) == Prior(c) = Never

(* The WHERE clause: the sequence that was read, and an unused key. *)
Unchanged(c) == invitation[Session(c)].seq = call[c].base /\ Prior(c) = Never

SetPublication(s, k, p) ==
  publication' = [publication EXCEPT ![s] = [publication[s] EXCEPT ![k] = p]]
SetJob(s, k, state) == SetPublication(s, k, [publication[s][k] EXCEPT !.job = state])

(* The invitation, the publication and the outbox row are one batch; who   *)
(* loses the race replays the winner's publication or is refused.          *)
Batch(c) ==
  LET item == call[c].item
      s == item.session
      seq == call[c].base + 1
  IN /\ At(c, "batch")
     /\ \/ /\ Unchanged(c)
           /\ invitation' = [invitation EXCEPT ![s] =
                [seq |-> seq, key |-> item.key, payload |-> item.payload]]
           /\ SetPublication(s, item.key,
                [seq |-> seq, payload |-> item.payload, job |-> "pending"])
           /\ Continue(c, "enqueue")
        \/ /\ ~Unchanged(c)
           /\ \/ Prior(c) # Never /\ Prior(c).payload = item.payload /\ Continue(c, "enqueue")
              \/ Prior(c) = Never /\ Refuse(c)
              \/ Prior(c) # Never /\ Prior(c).payload # item.payload /\ Refuse(c)
           /\ UNCHANGED <<invitation, publication>>
     /\ UNCHANGED <<agenda, guests, messages, dlq, client, bounds>>

(* #enqueuePending: a row that is still pending gets a message, and is     *)
(* marked when the queue has it.                                           *)
Enqueue(c) ==
  /\ At(c, "enqueue")
  /\ \/ /\ Prior(c).job = "pending"
        /\ messages' = messages \cup {<<Session(c), call[c].item.key>>}
        /\ Move(c, "mark")
     \/ Prior(c).job # "pending" /\ UNCHANGED messages /\ Proceed(c)
  /\ UNCHANGED <<agenda, guests, invitation, publication, dlq, client, holder, bounds>>

Mark(c) ==
  /\ At(c, "mark")
  /\ IF Prior(c).job = "pending" THEN SetJob(Session(c), call[c].item.key, "queued")
     ELSE UNCHANGED publication
  /\ Proceed(c)
  /\ UNCHANGED <<agenda, guests, invitation, messages, dlq, client, holder, bounds>>

-----------------------------------------------------------------------------
(* A consumer sends the mail, in any order; the client keeps the newest.   *)
Send(s, k) ==
  client' = [client EXCEPT ![s] = IF publication[s][k].seq > @ THEN publication[s][k].seq ELSE @]
Undelivered(s, k) == <<s, k>> \in messages /\ publication[s][k].job \in {"pending", "queued"}

(* The message of a row that is delivered or failed is only acknowledged. *)
Deliver(s, k) ==
  /\ <<s, k>> \in messages /\ publication[s][k].job # "dead-letter"
  /\ messages' = messages \ {<<s, k>>}
  /\ IF Undelivered(s, k) THEN Send(s, k) /\ SetJob(s, k, "delivered")
     ELSE UNCHANGED <<client, publication>>
  /\ UNCHANGED <<agenda, guests, invitation, dlq, call, holder, bounds>>

(* The consumer is lost after the mail was sent; another sends it again. *)
DeliverUnsettled(s, k) ==
  /\ Undelivered(s, k) /\ Bounded
  /\ faults' = faults + 1
  /\ Send(s, k)
  /\ UNCHANGED <<agenda, guests, invitation, publication, messages, dlq, call, holder,
                 changes, lapses>>

(* The mail service throws, whether or not the mail has gone: the row waits *)
(* for its next attempt, or is given up if the failure is permanent or this *)
(* was the last attempt (which one it was is left open).                   *)
DeliveryFails(s, k, outcome) ==
  /\ Undelivered(s, k) /\ Bounded
  /\ faults' = faults + 1
  /\ SetJob(s, k, outcome)
  /\ Send(s, k) \/ UNCHANGED client
  /\ UNCHANGED <<agenda, guests, invitation, messages, dlq, call, holder, changes, lapses>>

(* A message whose retries are used up goes to the dead-letter queue: always *)
(* if its row is there, else after faults.                                 *)
DeadLetter(s, k) ==
  /\ <<s, k>> \in messages
  /\ \/ publication[s][k].job = "dead-letter" /\ UNCHANGED faults
     \/ Undelivered(s, k) /\ Bounded /\ faults' = faults + 1
  /\ messages' = messages \ {<<s, k>>}
  /\ dlq' = dlq \cup {<<s, k>>}
  /\ UNCHANGED <<agenda, guests, invitation, publication, client, call, holder,
                 changes, lapses>>

(* A statement or the queue fails, or the isolate is lost and its lease ends. *)
Fail(c) ==
  /\ call[c].pc \in RunningPC /\ Bounded
  /\ faults' = faults + 1
  /\ Refuse(c)
  /\ UNCHANGED <<agenda, guests, invitation, publication, messages, dlq, client,
                 changes, lapses>>

Lapse ==
  /\ holder # NoCall /\ Bounded
  /\ lapses' = lapses + 1
  /\ holder' = NoCall
  /\ UNCHANGED <<agenda, guests, invitation, publication, messages, dlq, client, call,
                 changes, faults>>

(* A profile gets another address, or loses its address.  No revision has it. *)
ChangeGuests(s, l) ==
  /\ l # guests[s] /\ Bounded
  /\ changes' = changes + 1
  /\ guests' = [guests EXCEPT ![s] = l]
  /\ UNCHANGED <<agenda, invitation, publication, messages, dlq, client, call, holder,
                 lapses, faults>>

Step(c) ==
  \/ Renew(c) \/ ListInvitations(c)
  \/ \E s \in Sessions : Invite(c, s) \/ Cancel(c, s)
  \/ Lookup(c) \/ Load(c) \/ Batch(c) \/ Enqueue(c) \/ Mark(c) \/ Finish(c)

Consume == \E s \in Sessions, k \in Key : Deliver(s, k)

Next ==
  \/ \E c \in Calls :
       \/ \E scheduled \in SUBSET Sessions : Publish(c, scheduled)
       \/ Resume(c) \/ Step(c) \/ Fail(c)
  \/ Consume
  \/ \E s \in Sessions, k \in Key :
       \/ DeliverUnsettled(s, k) \/ DeadLetter(s, k)
       \/ \E outcome \in {"queued"} \cup GivenUp : DeliveryFails(s, k, outcome)
  \/ \E s \in Sessions, l \in Lists : ChangeGuests(s, l)
  \/ Lapse

Spec == Init /\ [][Next]_vars

(* Isolates run on, and the queue delivers until it is acknowledged. *)
Fairness == (\A c \in Calls : WF_vars(Step(c))) /\ WF_vars(Consume)
FairSpec == Spec /\ Fairness

-----------------------------------------------------------------------------
(* Every session's publications are numbered 0, 1, 2, ... with none left   *)
(* out, reused or replaced, and the invitation is the last of them: calls  *)
(* that overlap, race or repeat take one sequence each (publish's batch).  *)
SequencesAreGapless ==
  \A s \in Sessions :
    /\ \A n \in 0 .. invitation[s].seq : \E k \in Key : publication[s][k].seq = n
    /\ \A k \in Key : publication[s][k].seq <= invitation[s].seq
    /\ \A j, k \in Key :
         j # k /\ publication[s][j].seq = publication[s][k].seq => publication[s][j] = Never
    /\ invitation[s] # Never =>
         publication[s][invitation[s].key].payload = invitation[s].payload

Current(c) == At(c, "done") /\ call[c].rev = Len(agenda)
Invited(s) == invitation[s] # Never /\ invitation[s].payload.method # "CANCEL"

(* An operation that succeeds for the latest revision leaves an invitation *)
(* to what this revision says of every session it schedules, and no other  *)
(* session invited, however often and at whatever point earlier ones       *)
(* failed.  An operation that outlives its lease may write over it, and a  *)
(* list that changed since an earlier attempt is refused or goes unnoticed *)
(* (reconcilePublishedAgendaCalendarInvitations, publish).                 *)
SuccessAgrees ==
  lapses = 0 /\ changes = 0 => \A c \in Calls : Current(c) =>
    \A s \in Sessions :
      IF s \in Desired(c)
      THEN Invited(s) /\ invitation[s].payload.rev = call[c].rev
      ELSE ~Invited(s)

HandedOff(s, r) == \E c \in Calls : At(c, "done") /\ call[c].rev = r /\ s \in Desired(c)

(* The row was given up, or its message is only in the dead-letter queue:  *)
(* a replay sends a message only for a row that is still pending.          *)
Dropped(s, k) ==
  \/ publication[s][k].job \in GivenUp
  \/ publication[s][k].job = "queued" /\ <<s, k>> \in dlq \ messages

(* What a successful operation has published reaches the attendees unless  *)
(* its job failed for good or too often or its message was dead-lettered,  *)
(* though an earlier attempt stopped between the batch and the queue, or   *)
(* between the queue and the mark, and lost its message, and the mails are *)
(* sent out of order (#enqueuePending, the outbox consumer's process).     *)
InvitationsArrive ==
  \A s \in Sessions, r \in Revisions :
    HandedOff(s, r) ~>
      client[s] >= publication[s][AgendaKey(r)].seq \/ Dropped(s, AgendaKey(r))
=============================================================================
