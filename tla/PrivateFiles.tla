----------------------------- MODULE PrivateFiles -----------------------------
(***************************************************************************)
(* One private file: the asset row of its owner (speaker_assets or         *)
(* cfp_file_assets), the row of private_uploads that carries the upload    *)
(* capability, the object in R2 and the cleanup jobs in outbox_jobs.       *)
(* Requests authorize, upload and finalize the file; the cron trigger and  *)
(* the outbox consumer remove what was rejected or left to expire.  One    *)
(* step is one D1 statement (a read is one with the conditional write that *)
(* repeats its conditions), one batch or one R2 call.                      *)
(***************************************************************************)
EXTENDS Integers, FiniteSets

CONSTANTS
  Authorizers,  \* requests that ask for an upload capability
  Uploaders,    \* PUT requests
  Finalizers,   \* requests that finalize the asset
  Cleaners,     \* consumer isolates at work on a cleanup job
  GrantLife,    \* uploadGrantLifetimeMs
  MaxGrants,    \* bound: capabilities registered
  MaxClock,     \* bound: the last tick
  MaxRunTime,   \* longest time a request or a delivery is under way
  MaxFaults     \* bound: isolates lost and calls that fail

ASSUME BoundsAssumption ==
  /\ GrantLife \in Nat \ {0} /\ MaxGrants \in Nat /\ MaxClock \in Nat
  /\ MaxRunTime \in Nat /\ MaxFaults \in Nat

VARIABLES
  clock,       \* the time every isolate reads
  asset,       \* state of the asset row
  row,         \* the row of private_uploads
  object,      \* the grant whose PUT wrote the object, or NoObject
  job,         \* outbox_jobs of topic file-scan, by key
  grants,      \* capabilities registered so far; each has a number, its token
  authorizer, uploader, finalizer, cleaner,
  faults

vars == <<clock, asset, row, object, job, grants,
          authorizer, uploader, finalizer, cleaner, faults>>

NoObject == 0
AssetJob == 0          \* the job that a rejection arms; the others are named
Keys == 0 .. MaxClock  \* by the expiry of the upload they clean

Row == [state : {"absent", "pending", "scanning", "uploaded", "quarantined", "deleted"},
        grant : 0 .. MaxGrants, expiresAt : 0 .. MaxClock]
Idle == [pc |-> "idle", since |-> 0, grant |-> 0, expiresAt |-> 0, outcome |-> "ready",
         key |-> AssetJob, seen |-> "absent"]
Actor(pcs) == [pc : pcs \cup {"idle"}, since : 0 .. MaxClock, grant : 0 .. MaxGrants,
               expiresAt : 0 .. MaxClock, outcome : {"ready", "rejected"},
               key : Keys, seen : {"absent", "pending", "uploaded", "quarantined", "rejected"}]

TypeOK ==
  /\ clock \in 0 .. MaxClock
  /\ asset \in {"pending_upload", "ready", "rejected"}
  /\ row \in Row
  /\ object \in 0 .. MaxGrants
  /\ job \in [Keys -> {"absent", "pending", "queued", "delivered", "dead-letter"}]
  /\ grants \in 0 .. MaxGrants
  /\ authorizer \in [Authorizers -> Actor({"register"})]
  /\ uploader \in [Uploaders -> Actor({"claim", "put", "done"})]
  /\ finalizer \in [Finalizers -> Actor({"verify", "invalidate", "commit"})]
  /\ cleaner \in [Cleaners -> Actor({"read", "check", "claim", "delete", "mark", "settle"})]
  /\ faults \in 0 .. MaxFaults

Init ==
  /\ clock = 0 /\ asset = "pending_upload" /\ object = NoObject /\ grants = 0 /\ faults = 0
  /\ row = [state |-> "absent", grant |-> 0, expiresAt |-> 0]
  /\ job = [k \in Keys |-> "absent"]
  /\ authorizer = [a \in Authorizers |-> Idle]
  /\ uploader = [u \in Uploaders |-> Idle]
  /\ finalizer = [f \in Finalizers |-> Idle]
  /\ cleaner = [c \in Cleaners |-> Idle]

Begun(pc) == [Idle EXCEPT !.pc = pc, !.since = clock]
Expired == row.expiresAt <= clock

-----------------------------------------------------------------------------
(* Authorize: issueUploadGrant and reauthorizePendingUpload.               *)

(* The asset row is read and the expiry computed. *)
BeginAuthorize(a) ==
  /\ authorizer[a].pc = "idle" /\ asset = "pending_upload"
  /\ grants < MaxGrants /\ clock + GrantLife <= MaxClock
  /\ authorizer' = [authorizer EXCEPT ![a] =
       [Begun("register") EXCEPT !.expiresAt = clock + GrantLife]]
  /\ UNCHANGED <<clock, asset, row, object, job, grants, uploader, finalizer, cleaner, faults>>

Replaceable == row.state \in {"absent", "pending", "deleted"}

Register(a) ==
  /\ authorizer[a].pc = "register"
  /\ IF Replaceable /\ grants < MaxGrants
       THEN /\ row' = [state |-> "pending", grant |-> grants + 1,
                       expiresAt |-> authorizer[a].expiresAt]
            /\ grants' = grants + 1
       ELSE UNCHANGED <<row, grants>>
  /\ authorizer' = [authorizer EXCEPT ![a] = Idle]
  /\ UNCHANGED <<clock, asset, object, job, uploader, finalizer, cleaner, faults>>

-----------------------------------------------------------------------------
(* Upload: consumeUploadCapability.                                        *)

(* The token is the one of the row, which is pending and has not expired; *)
(* then the body is awaited.                                              *)
BeginUpload(u) ==
  /\ uploader[u].pc = "idle" /\ row.state = "pending" /\ ~Expired
  /\ uploader' = [uploader EXCEPT ![u] = [Begun("claim") EXCEPT !.grant = row.grant]]
  /\ UNCHANGED <<clock, asset, row, object, job, grants, authorizer, finalizer, cleaner, faults>>

(* The condition of claim() and releaseClaim(). *)
Holds(u, state) == row.state = state /\ row.grant = uploader[u].grant

ClaimUpload(u) ==
  /\ uploader[u].pc = "claim"
  /\ IF Holds(u, "pending")
       THEN /\ row' = [row EXCEPT !.state = "scanning"]
            /\ uploader' = [uploader EXCEPT ![u].pc = "put"]
       ELSE /\ uploader' = [uploader EXCEPT ![u] = Idle]
            /\ UNCHANGED row
  /\ UNCHANGED <<clock, asset, object, job, grants, authorizer, finalizer, cleaner, faults>>

PutObject(u) ==
  /\ uploader[u].pc = "put"
  /\ object' = uploader[u].grant
  /\ uploader' = [uploader EXCEPT ![u].pc = "done"]
  /\ UNCHANGED <<clock, asset, row, job, grants, authorizer, finalizer, cleaner, faults>>

ConfirmUpload(u) ==
  /\ uploader[u].pc = "done"
  /\ row' = IF Holds(u, "scanning") THEN [row EXCEPT !.state = "uploaded"] ELSE row
  /\ uploader' = [uploader EXCEPT ![u] = Idle]
  /\ UNCHANGED <<clock, asset, object, job, grants, authorizer, finalizer, cleaner, faults>>

(* The PUT or its confirmation fails and the claim is released. *)
FailUpload(u) ==
  /\ uploader[u].pc \in {"put", "done"} /\ faults < MaxFaults
  /\ faults' = faults + 1
  /\ row' = IF Holds(u, "scanning") THEN [row EXCEPT !.state = "pending"] ELSE row
  /\ uploader' = [uploader EXCEPT ![u] = Idle]
  /\ UNCHANGED <<clock, asset, object, job, grants, authorizer, finalizer, cleaner>>

-----------------------------------------------------------------------------
(* Finalize, as ready or as rejected: finalizeAsset and finalizeUpload.    *)

BeginFinalize(f, outcome) ==
  /\ finalizer[f].pc = "idle" /\ asset = "pending_upload"
  /\ finalizer' = [finalizer EXCEPT ![f] =
       [Begun(IF outcome = "ready" THEN "verify" ELSE "invalidate") EXCEPT !.outcome = outcome]]
  /\ UNCHANGED <<clock, asset, row, object, job, grants, authorizer, uploader, cleaner, faults>>

Verify(f) ==
  /\ finalizer[f].pc = "verify"
  /\ finalizer' = IF row.state = "uploaded" /\ ~Expired /\ object # NoObject
                    THEN [finalizer EXCEPT ![f].pc = "invalidate", ![f].grant = row.grant]
                    ELSE [finalizer EXCEPT ![f] = Idle]
  /\ UNCHANGED <<clock, asset, row, object, job, grants, authorizer, uploader, cleaner, faults>>

Invalidable == row.state \in {"pending", "uploaded"} /\ ~Expired

Invalidate(f) ==
  /\ finalizer[f].pc = "invalidate"
  /\ IF Invalidable
       THEN /\ row' = [row EXCEPT !.state = "deleted"]
            /\ finalizer' = [finalizer EXCEPT ![f].pc = "commit"]
       ELSE /\ finalizer' = [finalizer EXCEPT ![f] = Idle]
            /\ UNCHANGED row
  /\ UNCHANGED <<clock, asset, object, job, grants, authorizer, uploader, cleaner, faults>>

(* Mutant: a job that was delivered once is never pending again. *)
ArmedOnce(k) == IF job[k] = "absent" THEN [job EXCEPT ![k] = "pending"] ELSE job

(* privateObjectCleanupOutboxStatement: insert, or arm again what ended. *)
Armed(k) == IF job[k] \in {"absent", "delivered"} THEN [job EXCEPT ![k] = "pending"] ELSE job

(* One batch that fails unless the asset is still pending. *)
Commit(f) ==
  /\ finalizer[f].pc = "commit"
  /\ IF asset = "pending_upload"
       THEN /\ asset' = finalizer[f].outcome
            /\ job' = IF asset' = "rejected" THEN Armed(AssetJob) ELSE job
       ELSE UNCHANGED <<asset, job>>
  /\ finalizer' = [finalizer EXCEPT ![f] = Idle]
  /\ UNCHANGED <<clock, row, object, grants, authorizer, uploader, cleaner, faults>>

-----------------------------------------------------------------------------
(* Cleanup: reconcilePrivateObjectCleanup and deleteIfAuthorized.          *)

ArmExpired ==
  /\ row.state \in {"pending", "uploaded"} /\ Expired
  /\ job' = Armed(row.expiresAt)
  /\ UNCHANGED <<clock, asset, row, object, grants, authorizer, uploader, finalizer, cleaner, faults>>

Publish(k) ==
  /\ job[k] = "pending"
  /\ job' = [job EXCEPT ![k] = "queued"]
  /\ UNCHANGED <<clock, asset, row, object, grants, authorizer, uploader, finalizer, cleaner, faults>>

AtWork(k) == {c \in Cleaners : cleaner[c].pc # "idle" /\ cleaner[c].key = k}

(* The consumer claims the job; its lease outlasts the delivery. *)
Take(c, k) ==
  /\ cleaner[c].pc = "idle" /\ job[k] = "queued" /\ AtWork(k) = {}
  /\ cleaner' = [cleaner EXCEPT ![c] = [Begun("read") EXCEPT !.key = k]]
  /\ UNCHANGED <<clock, asset, row, object, job, grants, authorizer, uploader, finalizer, faults>>

Cleaning(c, pc) == cleaner[c].pc = pc
CleanTo(c, pc) == cleaner' = [cleaner EXCEPT ![c].pc = pc]

(* The row the job's payload names, if its state allows a deletion. *)
ReadAuthority(c) ==
  LET ofAsset == cleaner[c].key = AssetJob
      allowed == IF ofAsset THEN asset = "rejected"
                 ELSE /\ row.state \in {"pending", "uploaded", "quarantined"}
                      /\ row.expiresAt = cleaner[c].key /\ Expired
  IN /\ Cleaning(c, "read")
     /\ IF allowed
          THEN cleaner' = [cleaner EXCEPT ![c].pc = "check",
                             ![c].seen = IF ofAsset THEN asset ELSE row.state]
          ELSE CleanTo(c, "settle")
     /\ UNCHANGED <<clock, asset, row, object, job, grants, authorizer, uploader, finalizer, faults>>

(* Mutant: the lookup asks for a state no ready file is in. *)
NoReference == FALSE

ReadyReference == asset = "ready"

CheckReference(c) ==
  /\ Cleaning(c, "check")
  /\ CleanTo(c, CASE ReadyReference -> "settle"
                  [] ~ReadyReference /\ cleaner[c].seen \in {"pending", "uploaded"} -> "claim"
                  [] OTHER -> "delete")
  /\ UNCHANGED <<clock, asset, row, object, job, grants, authorizer, uploader, finalizer, faults>>

(* Mutant: the claim also takes an upload whose object is being written. *)
QuarantinableScanning(c) == row.expiresAt = cleaner[c].key /\ ~ReadyReference

Quarantinable(c) ==
  /\ row.expiresAt = cleaner[c].key
  /\ row.state \in {"pending", "uploaded"} /\ ~ReadyReference

(* Mutant: the object is deleted without taking its row out of use first. *)
QuarantineUnclaimed(c) ==
  /\ Cleaning(c, "claim")
  /\ CleanTo(c, IF Quarantinable(c) THEN "delete" ELSE "settle")
  /\ UNCHANGED <<clock, asset, row, object, job, grants, authorizer, uploader, finalizer, faults>>

Quarantine(c) ==
  /\ Cleaning(c, "claim")
  /\ IF Quarantinable(c)
       THEN row' = [row EXCEPT !.state = "quarantined"] /\ CleanTo(c, "delete")
       ELSE CleanTo(c, "settle") /\ UNCHANGED row
  /\ UNCHANGED <<clock, asset, object, job, grants, authorizer, uploader, finalizer, faults>>

DeleteObject(c) ==
  /\ Cleaning(c, "delete")
  /\ object' = NoObject
  /\ CleanTo(c, "mark")
  /\ UNCHANGED <<clock, asset, row, job, grants, authorizer, uploader, finalizer, faults>>

(* Every row of the object that is not clean; no code makes one clean. *)
MarkDeleted(c) ==
  /\ Cleaning(c, "mark")
  /\ row' = [row EXCEPT !.state = IF @ = "absent" THEN @ ELSE "deleted"]
  /\ CleanTo(c, "settle")
  /\ UNCHANGED <<clock, asset, object, job, grants, authorizer, uploader, finalizer, faults>>

Settle(c) ==
  /\ Cleaning(c, "settle")
  /\ job' = IF job[cleaner[c].key] = "queued"
              THEN [job EXCEPT ![cleaner[c].key] = "delivered"] ELSE job
  /\ cleaner' = [cleaner EXCEPT ![c] = Idle]
  /\ UNCHANGED <<clock, asset, row, object, grants, authorizer, uploader, finalizer, faults>>

(* The delivery fails: the job is tried again, or its attempts are used up. *)
FailCleanup(c) ==
  /\ cleaner[c].pc # "idle" /\ faults < MaxFaults
  /\ faults' = faults + 1
  /\ cleaner' = [cleaner EXCEPT ![c] = Idle]
  /\ job' \in {job, IF job[cleaner[c].key] = "queued"
                      THEN [job EXCEPT ![cleaner[c].key] = "dead-letter"] ELSE job}
  /\ UNCHANGED <<clock, asset, row, object, grants, authorizer, uploader, finalizer>>

-----------------------------------------------------------------------------
(* An isolate is lost with the request it serves. *)
LoseRequest ==
  /\ faults < MaxFaults
  /\ faults' = faults + 1
  /\ \/ \E a \in Authorizers : /\ authorizer[a].pc # "idle"
                               /\ authorizer' = [authorizer EXCEPT ![a] = Idle]
                               /\ UNCHANGED <<uploader, finalizer>>
     \/ \E u \in Uploaders : /\ uploader[u].pc # "idle"
                             /\ uploader' = [uploader EXCEPT ![u] = Idle]
                             /\ UNCHANGED <<authorizer, finalizer>>
     \/ \E f \in Finalizers : /\ finalizer[f].pc # "idle"
                              /\ finalizer' = [finalizer EXCEPT ![f] = Idle]
                              /\ UNCHANGED <<authorizer, uploader>>
  /\ UNCHANGED <<clock, asset, row, object, job, grants, cleaner>>

InTime(actor) == actor.pc # "idle" => clock < actor.since + MaxRunTime

Tick ==
  /\ clock < MaxClock
  /\ \A a \in Authorizers : InTime(authorizer[a])
  /\ \A u \in Uploaders : InTime(uploader[u])
  /\ \A f \in Finalizers : InTime(finalizer[f])
  /\ \A c \in Cleaners : InTime(cleaner[c])
  /\ clock' = clock + 1
  /\ UNCHANGED <<asset, row, object, job, grants, authorizer, uploader, finalizer, cleaner, faults>>

UploadStep(u) == ClaimUpload(u) \/ PutObject(u) \/ ConfirmUpload(u)
FinalizeStep(f) == Verify(f) \/ Invalidate(f) \/ Commit(f)
CleanStep(c) == \/ ReadAuthority(c) \/ CheckReference(c) \/ Quarantine(c)
                \/ DeleteObject(c) \/ MarkDeleted(c) \/ Settle(c)

Next ==
  \/ \E a \in Authorizers : BeginAuthorize(a) \/ Register(a)
  \/ \E u \in Uploaders : BeginUpload(u) \/ UploadStep(u) \/ FailUpload(u)
  \/ \E f \in Finalizers : FinalizeStep(f) \/ \E o \in {"ready", "rejected"} : BeginFinalize(f, o)
  \/ ArmExpired
  \/ \E k \in Keys : Publish(k)
  \/ \E c \in Cleaners : CleanStep(c) \/ FailCleanup(c) \/ \E k \in Keys : Take(c, k)
  \/ LoseRequest
  \/ Tick

Spec == Init /\ [][Next]_vars

(* Time passes, a request that was begun runs on, the cron trigger keeps    *)
(* firing and the queue keeps delivering.  Nobody must ask for anything.    *)
Fairness ==
  /\ WF_vars(Tick)
  /\ \A a \in Authorizers : WF_vars(Register(a))
  /\ \A u \in Uploaders : WF_vars(UploadStep(u))
  /\ \A f \in Finalizers : WF_vars(FinalizeStep(f))
  /\ WF_vars(ArmExpired)
  /\ \A k \in Keys : WF_vars(Publish(k)) /\ WF_vars(\E c \in Cleaners : Take(c, k))
  /\ \A c \in Cleaners : WF_vars(CleanStep(c))

FairSpec == Spec /\ Fairness

-----------------------------------------------------------------------------
(* The object of a ready asset is never removed: not by a cleanup job armed *)
(* for an earlier or a later capability of the same file, not by one that   *)
(* is repeated after a crash (deleteIfAuthorized looks the ready reference  *)
(* up, and again in the statement that quarantines the upload).             *)
ReadyIsNotRemoved == [][asset = "ready" /\ object # NoObject => object' # NoObject]_vars

(* A finalization that makes the asset ready under the capability it has    *)
(* verified finds its object in the bucket, whatever uploads, expiries and  *)
(* cleanup jobs it overlapped with (the test "does not finalize a ready     *)
(* asset without persisted object metadata").  invalidateUploadCapability   *)
(* reads the row again and may go on under a later capability, pending its  *)
(* upload: of such an asset nothing is said.                                *)
ReadyHasObject ==
  [][\A f \in Finalizers :
       /\ asset # "ready" /\ asset' = "ready"
       /\ finalizer[f].pc = "commit" /\ finalizer'[f] # finalizer[f]
       /\ finalizer[f].grant = row.grant
       => object' # NoObject]_vars

(* Where the asset was not rejected, a file has one writer at a time: a PUT *)
(* whose claim is out is never joined by another one or by the deletion of  *)
(* an expired upload (the state scanning keeps both away).                  *)
Writing == {u \in Uploaders : uploader[u].pc \in {"put", "done"}}
Deleting == {c \in Cleaners : cleaner[c].pc = "delete"}
OneWriter == asset # "rejected" => Cardinality(Writing) + Cardinality(Deleting) <= 1

(* The object of a file that is never finalized does not stay in the bucket *)
(* for ever, however its uploads and capabilities overlapped with cleanup   *)
(* jobs: an expired upload is selected again on every run of the cron       *)
(* trigger, and a job that ended too early is armed again.  A PUT that is   *)
(* lost half-way, or a job whose attempts are used up, may leave one.       *)
AbandonedIsRemoved ==
  <>[](asset # "pending_upload" \/ object = NoObject \/ faults > 0)
=============================================================================
