--------------------------- MODULE PrivateFilesProofs ---------------------------
(***************************************************************************)
(* Theorems about PrivateFiles, for any number of requests, uploads,       *)
(* deliveries and faults.  FileInv says who owns which row and which key   *)
(* of the object store; TimedInv relates the age of a request that is      *)
(* still running to the expiry it will write or act on.                    *)
(***************************************************************************)
EXTENDS PrivateFiles, FiniteSetTheorems, TLAPS

USE BoundsAssumption

OthersA(a) == \A b \in Authorizers : b # a => authorizer'[b] = authorizer[b]
OthersU(u) == \A v \in Uploaders : v # u => uploader'[v] = uploader[v]
OthersF(f) == \A g \in Finalizers : g # f => finalizer'[g] = finalizer[g]
OthersC(c) == \A d \in Cleaners : d # c => cleaner'[d] = cleaner[d]

APC == {"register"}
UPC == {"claim", "put", "done"}
FPC == {"verify", "invalidate", "commit"}
CPC == {"read", "check", "claim", "delete", "mark", "settle"}

LEMMA Parts ==
  ASSUME TypeOK
  PROVE  /\ clock \in Nat /\ row \in Row
         /\ row.grant \in 0 .. MaxGrants /\ row.expiresAt \in 0 .. MaxClock
         /\ row.state \in {"absent", "pending", "scanning", "uploaded", "quarantined", "deleted"}
         /\ grants \in 0 .. MaxGrants /\ object \in 0 .. MaxGrants
         /\ \A a \in Authorizers : authorizer[a] \in Actor(APC)
         /\ \A u \in Uploaders : uploader[u] \in Actor(UPC)
         /\ \A f \in Finalizers : finalizer[f] \in Actor(FPC)
         /\ \A c \in Cleaners : cleaner[c] \in Actor(CPC)
  BY DEF TypeOK, Row, APC, UPC, FPC, CPC

LEMMA ActorParts ==
  ASSUME NEW P, NEW x \in Actor(P)
  PROVE  /\ x.pc \in P \cup {"idle"} /\ x.since \in 0 .. MaxClock /\ x.grant \in 0 .. MaxGrants
         /\ x.expiresAt \in 0 .. MaxClock /\ x.outcome \in {"ready", "rejected"}
         /\ x.key \in Keys
         /\ x.seen \in {"absent", "pending", "uploaded", "quarantined", "rejected"}
  BY DEF Actor

LEMMA IdleParts ==
  ASSUME NEW P
  PROVE  Idle \in Actor(P) /\ Idle.pc = "idle" /\ Idle.grant = 0
  BY DEF Idle, Actor, Keys, AssetJob

LEMMA BegunParts ==
  ASSUME TypeOK, NEW P, NEW pc \in P
  PROVE  /\ Begun(pc) \in Actor(P) /\ Begun(pc).pc = pc /\ Begun(pc).since = clock
         /\ Begun(pc).grant = 0 /\ Begun(pc).key = AssetJob
<1>1. Idle \in Actor(P) /\ Idle.grant = 0 /\ Idle.key = AssetJob
  BY IdleParts DEF Idle
<1>2. clock \in 0 .. MaxClock
  BY DEF TypeOK
<1>. QED
  BY <1>1, <1>2 DEF Begun, Actor

LEMMA ActorSet ==
  ASSUME NEW S, NEW P, NEW h \in [S -> Actor(P)], NEW x \in S, NEW r \in Actor(P), NEW g,
         g = [h EXCEPT ![x] = r]
  PROVE  g \in [S -> Actor(P)] /\ g[x] = r /\ \A y \in S : y # x => g[y] = h[y]
  OBVIOUS

-----------------------------------------------------------------------------
(* What each step assigns. *)
LEMMA BeginAuthorizeSets ==
  ASSUME TypeOK, NEW a \in Authorizers, BeginAuthorize(a)
  PROVE  /\ TypeOK' /\ OthersA(a) /\ asset = "pending_upload"
         /\ authorizer'[a].since = clock /\ authorizer'[a].expiresAt = clock + GrantLife
         /\ UNCHANGED <<clock, asset, row, object, job, grants, uploader, finalizer, cleaner>>
<1>. DEFINE r == [Begun("register") EXCEPT !.expiresAt = clock + GrantLife]
<1>1. clock + GrantLife \in 0 .. MaxClock
  BY Parts DEF BeginAuthorize
<1>2. Begun("register") \in Actor(APC) /\ Begun("register").since = clock
  BY BegunParts DEF APC
<1>3. r \in Actor(APC) /\ r.since = clock /\ r.expiresAt = clock + GrantLife
  BY <1>1, <1>2 DEF Actor
<1>4. authorizer' = [authorizer EXCEPT ![a] = r] /\ authorizer \in [Authorizers -> Actor(APC)]
  BY DEF BeginAuthorize, TypeOK, APC
<1>. HIDE DEF r
<1>5. /\ authorizer' \in [Authorizers -> Actor(APC)] /\ authorizer'[a] = r
      /\ \A b \in Authorizers : b # a => authorizer'[b] = authorizer[b]
  BY <1>3, <1>4, ActorSet
<1>6. TypeOK'
  BY <1>5 DEF BeginAuthorize, TypeOK, APC
<1>. QED
  BY <1>3, <1>5, <1>6 DEF BeginAuthorize, OthersA

LEMMA RegisterSets ==
  ASSUME TypeOK, NEW a \in Authorizers, Register(a)
  PROVE  /\ TypeOK' /\ OthersA(a) /\ authorizer'[a].pc = "idle"
         /\ \/ /\ Replaceable
               /\ row' = [state |-> "pending", grant |-> grants + 1,
                          expiresAt |-> authorizer[a].expiresAt]
               /\ grants' = grants + 1
            \/ UNCHANGED <<row, grants>>
         /\ UNCHANGED <<clock, asset, object, job, uploader, finalizer, cleaner>>
<1>1. authorizer' = [authorizer EXCEPT ![a] = Idle] /\ authorizer \in [Authorizers -> Actor(APC)]
  BY DEF Register, TypeOK, APC
<1>2. Idle \in Actor(APC) /\ Idle.pc = "idle"
  BY IdleParts
<1>3. /\ authorizer' \in [Authorizers -> Actor(APC)] /\ authorizer'[a] = Idle
      /\ \A b \in Authorizers : b # a => authorizer'[b] = authorizer[b]
  BY <1>1, <1>2, ActorSet
<1>4. row' \in Row /\ grants' \in 0 .. MaxGrants
  <2>1. authorizer[a].expiresAt \in 0 .. MaxClock
    BY Parts, ActorParts
  <2>2. CASE Replaceable /\ grants < MaxGrants
    <3>1. grants + 1 \in 0 .. MaxGrants
      BY <2>2, Parts
    <3>. QED
      BY <2>1, <2>2, <3>1 DEF Register, Row
  <2>3. CASE ~(Replaceable /\ grants < MaxGrants)
    BY <2>3, Parts DEF Register
  <2>. QED
    BY <2>2, <2>3
<1>5. TypeOK'
  BY <1>3, <1>4 DEF Register, TypeOK, APC
<1>. QED
  BY <1>2, <1>3, <1>5 DEF Register, OthersA

LEMMA BeginUploadSets ==
  ASSUME TypeOK, NEW u \in Uploaders, BeginUpload(u)
  PROVE  /\ TypeOK' /\ OthersU(u) /\ row.state = "pending"
         /\ uploader'[u].pc = "claim" /\ uploader'[u].grant = row.grant
         /\ UNCHANGED <<clock, asset, row, object, job, grants, authorizer, finalizer, cleaner>>
<1>. DEFINE r == [Begun("claim") EXCEPT !.grant = row.grant]
<1>1. Begun("claim") \in Actor(UPC) /\ Begun("claim").pc = "claim"
  BY BegunParts DEF UPC
<1>2. r \in Actor(UPC) /\ r.pc = "claim" /\ r.grant = row.grant
  BY <1>1, Parts DEF Actor
<1>3. uploader' = [uploader EXCEPT ![u] = r] /\ uploader \in [Uploaders -> Actor(UPC)]
  BY DEF BeginUpload, TypeOK, UPC
<1>. HIDE DEF r
<1>4. /\ uploader' \in [Uploaders -> Actor(UPC)] /\ uploader'[u] = r
      /\ \A v \in Uploaders : v # u => uploader'[v] = uploader[v]
  BY <1>2, <1>3, ActorSet
<1>5. TypeOK'
  BY <1>4 DEF BeginUpload, TypeOK, UPC
<1>. QED
  BY <1>2, <1>4, <1>5 DEF BeginUpload, OthersU

(* A PUT goes on, or is over. *)
LEMMA UploaderGoes ==
  ASSUME TypeOK, NEW u \in Uploaders, NEW pc \in UPC, uploader' = [uploader EXCEPT ![u].pc = pc]
  PROVE  /\ uploader' \in [Uploaders -> Actor(UPC)] /\ OthersU(u)
         /\ uploader'[u].pc = pc /\ uploader'[u].grant = uploader[u].grant
<1>. DEFINE r == [uploader[u] EXCEPT !.pc = pc]
<1>1. uploader' = [uploader EXCEPT ![u] = r] /\ uploader \in [Uploaders -> Actor(UPC)]
  BY DEF TypeOK, UPC
<1>2. r \in Actor(UPC) /\ r.pc = pc /\ r.grant = uploader[u].grant
  BY Parts DEF Actor
<1>. HIDE DEF r
<1>. QED
  BY <1>1, <1>2, ActorSet DEF OthersU

LEMMA UploaderEnds ==
  ASSUME TypeOK, NEW u \in Uploaders, uploader' = [uploader EXCEPT ![u] = Idle]
  PROVE  /\ uploader' \in [Uploaders -> Actor(UPC)] /\ OthersU(u) /\ uploader'[u].pc = "idle"
<1>1. Idle \in Actor(UPC) /\ Idle.pc = "idle" /\ uploader \in [Uploaders -> Actor(UPC)]
  BY IdleParts DEF TypeOK, UPC
<1>. QED
  BY <1>1, ActorSet DEF OthersU

(* The row gets another state. *)
LEMMA RowGoes ==
  ASSUME TypeOK, NEW s \in {"absent", "pending", "scanning", "uploaded", "quarantined", "deleted"},
         row' = [row EXCEPT !.state = s]
  PROVE  /\ row' \in Row /\ row'.state = s
         /\ row'.grant = row.grant /\ row'.expiresAt = row.expiresAt
  BY Parts DEF Row

LEMMA ClaimUploadSets ==
  ASSUME TypeOK, NEW u \in Uploaders, ClaimUpload(u)
  PROVE  /\ TypeOK' /\ OthersU(u) /\ uploader[u].pc = "claim"
         /\ \/ /\ Holds(u, "pending") /\ row' = [row EXCEPT !.state = "scanning"]
               /\ uploader'[u].pc = "put" /\ uploader'[u].grant = uploader[u].grant
            \/ row' = row /\ uploader'[u].pc = "idle"
         /\ UNCHANGED <<clock, asset, object, job, grants, authorizer, finalizer, cleaner>>
<1>1. CASE Holds(u, "pending")
  <2>1. uploader' = [uploader EXCEPT ![u].pc = "put"] /\ row' = [row EXCEPT !.state = "scanning"]
    BY <1>1 DEF ClaimUpload
  <2>2. /\ uploader' \in [Uploaders -> Actor(UPC)] /\ OthersU(u)
        /\ uploader'[u].pc = "put" /\ uploader'[u].grant = uploader[u].grant
    BY <2>1, UploaderGoes DEF UPC
  <2>3. row' \in Row
    BY <2>1, RowGoes
  <2>4. TypeOK'
    BY <2>2, <2>3 DEF ClaimUpload, TypeOK, UPC
  <2>. QED
    BY <1>1, <2>1, <2>2, <2>4 DEF ClaimUpload
<1>2. CASE ~Holds(u, "pending")
  <2>1. uploader' = [uploader EXCEPT ![u] = Idle] /\ row' = row
    BY <1>2 DEF ClaimUpload
  <2>2. uploader' \in [Uploaders -> Actor(UPC)] /\ OthersU(u) /\ uploader'[u].pc = "idle"
    BY <2>1, UploaderEnds
  <2>3. TypeOK'
    BY <2>1, <2>2 DEF ClaimUpload, TypeOK, UPC
  <2>. QED
    BY <2>1, <2>2, <2>3 DEF ClaimUpload
<1>. QED
  BY <1>1, <1>2

LEMMA PutObjectSets ==
  ASSUME TypeOK, NEW u \in Uploaders, PutObject(u)
  PROVE  /\ TypeOK' /\ OthersU(u) /\ uploader[u].pc = "put" /\ object' = uploader[u].grant
         /\ uploader'[u].pc = "done" /\ uploader'[u].grant = uploader[u].grant
         /\ UNCHANGED <<clock, asset, row, job, grants, authorizer, finalizer, cleaner>>
<1>1. /\ uploader' \in [Uploaders -> Actor(UPC)] /\ OthersU(u)
      /\ uploader'[u].pc = "done" /\ uploader'[u].grant = uploader[u].grant
  BY UploaderGoes DEF PutObject, UPC
<1>2. uploader[u].grant \in 0 .. MaxGrants
  BY Parts, ActorParts
<1>3. TypeOK'
  BY <1>1, <1>2 DEF PutObject, TypeOK, UPC
<1>. QED
  BY <1>1, <1>3 DEF PutObject

(* The PUT is confirmed, or its claim released. *)
LEMMA UploadEndSets ==
  ASSUME TypeOK, NEW u \in Uploaders, ConfirmUpload(u) \/ FailUpload(u)
  PROVE  /\ TypeOK' /\ OthersU(u) /\ uploader[u].pc \in {"put", "done"} /\ uploader'[u].pc = "idle"
         /\ \/ /\ Holds(u, "scanning")
               /\ \/ row' = [row EXCEPT !.state = "uploaded"] /\ uploader[u].pc = "done"
                  \/ row' = [row EXCEPT !.state = "pending"]
            \/ row' = row
         /\ UNCHANGED <<clock, asset, object, job, grants, authorizer, finalizer, cleaner>>
<1>1. uploader' = [uploader EXCEPT ![u] = Idle] /\ uploader[u].pc \in {"put", "done"}
  BY DEF ConfirmUpload, FailUpload
<1>2. uploader' \in [Uploaders -> Actor(UPC)] /\ OthersU(u) /\ uploader'[u].pc = "idle"
  BY <1>1, UploaderEnds
<1>3. \/ /\ Holds(u, "scanning")
         /\ \/ row' = [row EXCEPT !.state = "uploaded"] /\ uploader[u].pc = "done"
            \/ row' = [row EXCEPT !.state = "pending"]
      \/ row' = row
  BY DEF ConfirmUpload, FailUpload
<1>4. row' \in Row
  BY <1>3, RowGoes, Parts
<1>5. faults' \in 0 .. MaxFaults
  BY DEF ConfirmUpload, FailUpload, TypeOK
<1>6. UNCHANGED <<clock, asset, object, job, grants, authorizer, finalizer, cleaner>>
  BY DEF ConfirmUpload, FailUpload
<1>7. TypeOK'
  BY <1>2, <1>4, <1>5, <1>6 DEF TypeOK, UPC
<1>. QED
  BY <1>1, <1>2, <1>3, <1>6, <1>7

LEMMA FinalizerGoes ==
  ASSUME TypeOK, NEW f \in Finalizers, NEW r \in Actor(FPC),
         finalizer' = [finalizer EXCEPT ![f] = r]
  PROVE  /\ finalizer' \in [Finalizers -> Actor(FPC)] /\ OthersF(f) /\ finalizer'[f] = r
<1>1. finalizer \in [Finalizers -> Actor(FPC)]
  BY DEF TypeOK, FPC
<1>. QED
  BY <1>1, ActorSet DEF OthersF

LEMMA BeginFinalizeSets ==
  ASSUME TypeOK, NEW f \in Finalizers, NEW o \in {"ready", "rejected"}, BeginFinalize(f, o)
  PROVE  /\ TypeOK' /\ OthersF(f) /\ asset = "pending_upload"
         /\ finalizer'[f].pc = IF o = "ready" THEN "verify" ELSE "invalidate"
         /\ finalizer'[f].outcome = o /\ finalizer'[f].grant = 0 /\ finalizer'[f].since = clock
         /\ UNCHANGED <<clock, asset, row, object, job, grants, authorizer, uploader, cleaner>>
<1>. DEFINE pc == IF o = "ready" THEN "verify" ELSE "invalidate"
            r == [Begun(pc) EXCEPT !.outcome = o]
<1>1. pc \in FPC
  BY DEF FPC
<1>2. finalizer' = [finalizer EXCEPT ![f] = r]
  BY DEF BeginFinalize
<1>. HIDE DEF pc
<1>3. /\ Begun(pc) \in Actor(FPC) /\ Begun(pc).pc = pc /\ Begun(pc).since = clock
      /\ Begun(pc).grant = 0
  BY <1>1, BegunParts
<1>4. r \in Actor(FPC) /\ r.pc = pc /\ r.outcome = o /\ r.grant = 0 /\ r.since = clock
  BY <1>3 DEF Actor
<1>. HIDE DEF r
<1>5. finalizer' \in [Finalizers -> Actor(FPC)] /\ OthersF(f) /\ finalizer'[f] = r
  BY <1>2, <1>4, FinalizerGoes
<1>6. TypeOK'
  BY <1>5 DEF BeginFinalize, TypeOK, FPC
<1>. QED
  BY <1>4, <1>5, <1>6 DEF BeginFinalize, pc

LEMMA FinalizerEnds ==
  ASSUME TypeOK, NEW f \in Finalizers, finalizer' = [finalizer EXCEPT ![f] = Idle]
  PROVE  /\ finalizer' \in [Finalizers -> Actor(FPC)] /\ OthersF(f) /\ finalizer'[f].pc = "idle"
         /\ finalizer'[f].grant = 0
<1>1. Idle \in Actor(FPC) /\ Idle.pc = "idle" /\ Idle.grant = 0
  BY IdleParts
<1>. QED
  BY <1>1, FinalizerGoes

LEMMA VerifySets ==
  ASSUME TypeOK, NEW f \in Finalizers, Verify(f)
  PROVE  /\ TypeOK' /\ OthersF(f)
         /\ \/ /\ row.state = "uploaded" /\ object # NoObject
               /\ finalizer'[f].pc = "invalidate" /\ finalizer'[f].grant = row.grant
               /\ finalizer'[f].since = finalizer[f].since /\ finalizer[f].pc = "verify"
            \/ finalizer'[f].pc = "idle" /\ finalizer'[f].grant = 0
         /\ UNCHANGED <<clock, asset, row, object, job, grants, authorizer, uploader, cleaner>>
<1>1. CASE row.state = "uploaded" /\ ~Expired /\ object # NoObject
  <2>. DEFINE r == [finalizer[f] EXCEPT !.pc = "invalidate", !.grant = row.grant]
  <2>1. finalizer' = [finalizer EXCEPT ![f] = r]
    BY <1>1, Parts DEF Verify, TypeOK
  <2>2. /\ r \in Actor(FPC) /\ r.pc = "invalidate" /\ r.grant = row.grant
        /\ r.since = finalizer[f].since
    <3>1. finalizer[f] \in Actor(FPC) /\ row.grant \in 0 .. MaxGrants
      BY Parts
    <3>. QED
      BY <3>1 DEF Actor, FPC
  <2>. HIDE DEF r
  <2>3. finalizer' \in [Finalizers -> Actor(FPC)] /\ OthersF(f) /\ finalizer'[f] = r
    BY <2>1, <2>2, FinalizerGoes
  <2>4. TypeOK'
    BY <2>3 DEF Verify, TypeOK, FPC
  <2>. QED
    BY <1>1, <2>2, <2>3, <2>4 DEF Verify
<1>2. CASE ~(row.state = "uploaded" /\ ~Expired /\ object # NoObject)
  <2>1. finalizer' = [finalizer EXCEPT ![f] = Idle]
    BY <1>2 DEF Verify
  <2>2. TypeOK'
    BY <2>1, FinalizerEnds DEF Verify, TypeOK, FPC
  <2>. QED
    BY <2>1, <2>2, FinalizerEnds DEF Verify
<1>. QED
  BY <1>1, <1>2

LEMMA InvalidateSets ==
  ASSUME TypeOK, NEW f \in Finalizers, Invalidate(f)
  PROVE  /\ TypeOK' /\ OthersF(f) /\ finalizer[f].pc = "invalidate"
         /\ \/ /\ Invalidable /\ row' = [row EXCEPT !.state = "deleted"]
               /\ finalizer'[f].pc = "commit" /\ finalizer'[f].grant = finalizer[f].grant
               /\ finalizer'[f].outcome = finalizer[f].outcome
               /\ finalizer'[f].since = finalizer[f].since
            \/ row' = row /\ finalizer'[f].pc = "idle" /\ finalizer'[f].grant = 0
         /\ UNCHANGED <<clock, asset, object, job, grants, authorizer, uploader, cleaner>>
<1>1. CASE Invalidable
  <2>. DEFINE r == [finalizer[f] EXCEPT !.pc = "commit"]
  <2>1. finalizer' = [finalizer EXCEPT ![f] = r] /\ row' = [row EXCEPT !.state = "deleted"]
    BY <1>1 DEF Invalidate
  <2>2. /\ r \in Actor(FPC) /\ r.pc = "commit" /\ r.grant = finalizer[f].grant
        /\ r.since = finalizer[f].since /\ r.outcome = finalizer[f].outcome
    BY Parts DEF Actor, FPC
  <2>. HIDE DEF r
  <2>3. finalizer' \in [Finalizers -> Actor(FPC)] /\ OthersF(f) /\ finalizer'[f] = r
    BY <2>1, <2>2, FinalizerGoes
  <2>4. row' \in Row
    BY <2>1, RowGoes
  <2>5. TypeOK'
    BY <2>3, <2>4 DEF Invalidate, TypeOK, FPC
  <2>. QED
    BY <1>1, <2>1, <2>2, <2>3, <2>5 DEF Invalidate
<1>2. CASE ~Invalidable
  <2>1. finalizer' = [finalizer EXCEPT ![f] = Idle] /\ row' = row
    BY <1>2 DEF Invalidate
  <2>2. TypeOK'
    BY <2>1, FinalizerEnds DEF Invalidate, TypeOK, FPC
  <2>. QED
    BY <2>1, <2>2, FinalizerEnds DEF Invalidate
<1>. QED
  BY <1>1, <1>2

LEMMA ArmedType ==
  ASSUME TypeOK, NEW k \in Keys
  PROVE  Armed(k) \in [Keys -> {"absent", "pending", "queued", "delivered", "dead-letter"}]
  BY DEF TypeOK, Armed

LEMMA CommitSets ==
  ASSUME TypeOK, NEW f \in Finalizers, Commit(f)
  PROVE  /\ TypeOK' /\ OthersF(f) /\ finalizer[f].pc = "commit"
         /\ finalizer'[f].pc = "idle" /\ finalizer'[f].grant = 0
         /\ \/ asset = "pending_upload" /\ asset' = finalizer[f].outcome
            \/ asset' = asset
         /\ UNCHANGED <<clock, row, object, grants, authorizer, uploader, cleaner>>
<1>1. finalizer' = [finalizer EXCEPT ![f] = Idle] /\ finalizer[f].pc = "commit"
  BY DEF Commit
<1>2. finalizer[f].outcome \in {"ready", "rejected"} /\ AssetJob \in Keys
  BY Parts, ActorParts DEF Keys, AssetJob
<1>3. \/ /\ asset = "pending_upload" /\ asset' = finalizer[f].outcome
         /\ job' = IF asset' = "rejected" THEN Armed(AssetJob) ELSE job
      \/ asset' = asset /\ job' = job
  BY DEF Commit
<1>4. job' \in [Keys -> {"absent", "pending", "queued", "delivered", "dead-letter"}]
  BY <1>2, <1>3, ArmedType DEF TypeOK
<1>5. asset' \in {"pending_upload", "ready", "rejected"}
  BY <1>2, <1>3 DEF TypeOK
<1>6. TypeOK'
  BY <1>1, <1>4, <1>5, FinalizerEnds DEF Commit, TypeOK, FPC
<1>. QED
  BY <1>1, <1>3, <1>6, FinalizerEnds DEF Commit

(* The steps that only change jobs. *)
LEMMA JobStepSets ==
  ASSUME TypeOK, ArmExpired \/ \E k \in Keys : Publish(k)
  PROVE  /\ TypeOK'
         /\ UNCHANGED <<clock, asset, row, object, grants, authorizer, uploader, finalizer, cleaner>>
<1>1. row.expiresAt \in Keys
  BY Parts DEF Keys
<1>2. job' \in [Keys -> {"absent", "pending", "queued", "delivered", "dead-letter"}]
  <2>1. CASE ArmExpired
    BY <1>1, <2>1, ArmedType DEF ArmExpired
  <2>2. CASE \E k \in Keys : Publish(k)
    BY <2>2 DEF Publish, TypeOK
  <2>. QED
    BY <2>1, <2>2
<1>3. UNCHANGED <<clock, asset, row, object, grants, authorizer, uploader, finalizer, cleaner, faults>>
  BY DEF ArmExpired, Publish
<1>4. TypeOK'
  BY <1>2, <1>3 DEF TypeOK
<1>. QED
  BY <1>3, <1>4

LEMMA CleanerGoes ==
  ASSUME TypeOK, NEW c \in Cleaners, NEW r \in Actor(CPC), cleaner' = [cleaner EXCEPT ![c] = r]
  PROVE  /\ cleaner' \in [Cleaners -> Actor(CPC)] /\ OthersC(c) /\ cleaner'[c] = r
<1>1. cleaner \in [Cleaners -> Actor(CPC)]
  BY DEF TypeOK, CPC
<1>. QED
  BY <1>1, ActorSet DEF OthersC

LEMMA CleanToSets ==
  ASSUME TypeOK, NEW c \in Cleaners, NEW pc \in CPC, CleanTo(c, pc)
  PROVE  /\ cleaner' \in [Cleaners -> Actor(CPC)] /\ OthersC(c) /\ cleaner'[c].pc = pc
         /\ cleaner'[c].key = cleaner[c].key /\ cleaner'[c].seen = cleaner[c].seen
<1>. DEFINE r == [cleaner[c] EXCEPT !.pc = pc]
<1>1. cleaner' = [cleaner EXCEPT ![c] = r]
  BY DEF CleanTo
<1>2. r \in Actor(CPC) /\ r.pc = pc /\ r.key = cleaner[c].key /\ r.seen = cleaner[c].seen
  BY Parts DEF Actor
<1>. HIDE DEF r
<1>. QED
  BY <1>1, <1>2, CleanerGoes

LEMMA CleanerEnds ==
  ASSUME TypeOK, NEW c \in Cleaners, cleaner' = [cleaner EXCEPT ![c] = Idle]
  PROVE  /\ cleaner' \in [Cleaners -> Actor(CPC)] /\ OthersC(c) /\ cleaner'[c].pc = "idle"
<1>1. Idle \in Actor(CPC) /\ Idle.pc = "idle"
  BY IdleParts
<1>. QED
  BY <1>1, CleanerGoes

LEMMA TakeSets ==
  ASSUME TypeOK, NEW c \in Cleaners, NEW k \in Keys, Take(c, k)
  PROVE  /\ TypeOK' /\ OthersC(c) /\ cleaner'[c].pc = "read" /\ cleaner'[c].key = k
         /\ \A d \in Cleaners : cleaner[d].pc # "idle" => cleaner[d].key # k
         /\ UNCHANGED <<clock, asset, row, object, grants, authorizer, uploader, finalizer>>
<1>. DEFINE r == [Begun("read") EXCEPT !.key = k]
<1>1. Begun("read") \in Actor(CPC) /\ Begun("read").pc = "read"
  BY BegunParts DEF CPC
<1>2. r \in Actor(CPC) /\ r.pc = "read" /\ r.key = k
  BY <1>1 DEF Actor
<1>3. cleaner' = [cleaner EXCEPT ![c] = r]
  BY DEF Take
<1>. HIDE DEF r
<1>4. cleaner' \in [Cleaners -> Actor(CPC)] /\ OthersC(c) /\ cleaner'[c] = r
  BY <1>2, <1>3, CleanerGoes
<1>5. TypeOK'
  BY <1>4 DEF Take, TypeOK, CPC
<1>. QED
  BY <1>2, <1>4, <1>5 DEF Take, AtWork

LEMMA ReadAuthoritySets ==
  ASSUME TypeOK, NEW c \in Cleaners, ReadAuthority(c)
  PROVE  /\ TypeOK' /\ OthersC(c) /\ cleaner[c].pc = "read" /\ cleaner'[c].key = cleaner[c].key
         /\ \/ cleaner'[c].pc = "settle"
            \/ /\ cleaner'[c].pc = "check"
               /\ \/ cleaner[c].key = AssetJob /\ asset = "rejected"
                  \/ /\ cleaner[c].key # AssetJob /\ cleaner'[c].seen = row.state
                     /\ row.state \in {"pending", "uploaded", "quarantined"}
                     /\ row.expiresAt = cleaner[c].key /\ Expired
         /\ UNCHANGED <<clock, asset, row, object, grants, authorizer, uploader, finalizer>>
<1>. DEFINE ofAsset == cleaner[c].key = AssetJob
            allowed == IF ofAsset THEN asset = "rejected"
                       ELSE /\ row.state \in {"pending", "uploaded", "quarantined"}
                            /\ row.expiresAt = cleaner[c].key /\ Expired
            s == IF ofAsset THEN asset ELSE row.state
            r == [cleaner[c] EXCEPT !.pc = "check", !.seen = s]
<1>0. /\ cleaner[c].pc = "read"
      /\ UNCHANGED <<clock, asset, row, object, job, grants, authorizer, uploader, finalizer, faults>>
  BY DEF ReadAuthority, Cleaning
<1>1. CASE allowed
  <2>1. cleaner' = [cleaner EXCEPT ![c] = r]
    BY <1>1, Parts DEF ReadAuthority, TypeOK
  <2>2. s \in {"rejected", "pending", "uploaded", "quarantined"}
    BY <1>1
  <2>3. (s = asset /\ cleaner[c].key = AssetJob) \/ (s = row.state /\ cleaner[c].key # AssetJob)
    OBVIOUS
  <2>. HIDE DEF s
  <2>4. r \in Actor(CPC) /\ r.pc = "check" /\ r.key = cleaner[c].key /\ r.seen = s
    <3>1. cleaner[c] \in Actor(CPC)
      BY Parts
    <3>. QED
      BY <2>2, <3>1 DEF Actor, CPC
  <2>. HIDE DEF r
  <2>5. cleaner' \in [Cleaners -> Actor(CPC)] /\ OthersC(c) /\ cleaner'[c] = r
    BY <2>1, <2>4, CleanerGoes
  <2>6. TypeOK'
    BY <1>0, <2>5 DEF TypeOK, CPC
  <2>. QED
    BY <1>0, <1>1, <2>3, <2>4, <2>5, <2>6
<1>2. CASE ~allowed
  <2>1. CleanTo(c, "settle")
    BY <1>2 DEF ReadAuthority
  <2>2. /\ cleaner' \in [Cleaners -> Actor(CPC)] /\ OthersC(c) /\ cleaner'[c].pc = "settle"
        /\ cleaner'[c].key = cleaner[c].key
    BY <2>1, CleanToSets DEF CPC
  <2>3. TypeOK'
    BY <1>0, <2>2 DEF TypeOK, CPC
  <2>. QED
    BY <1>0, <2>2, <2>3
<1>. QED
  BY <1>1, <1>2

LEMMA CheckReferenceSets ==
  ASSUME TypeOK, NEW c \in Cleaners, CheckReference(c)
  PROVE  /\ TypeOK' /\ OthersC(c) /\ cleaner[c].pc = "check" /\ cleaner'[c].key = cleaner[c].key
         /\ \/ cleaner'[c].pc \in {"settle", "claim"}
            \/ /\ cleaner'[c].pc = "delete" /\ asset # "ready"
               /\ cleaner[c].seen \notin {"pending", "uploaded"}
         /\ UNCHANGED <<clock, asset, row, object, grants, authorizer, uploader, finalizer>>
<1>0. /\ cleaner[c].pc = "check"
      /\ UNCHANGED <<clock, asset, row, object, job, grants, authorizer, uploader, finalizer, faults>>
  BY DEF CheckReference, Cleaning
<1>. DEFINE pc == CASE ReadyReference -> "settle"
                    [] ~ReadyReference /\ cleaner[c].seen \in {"pending", "uploaded"} -> "claim"
                    [] OTHER -> "delete"
<1>1. /\ pc \in CPC
      /\ \/ pc \in {"settle", "claim"}
         \/ pc = "delete" /\ asset # "ready" /\ cleaner[c].seen \notin {"pending", "uploaded"}
  BY DEF CPC, ReadyReference
<1>2. CleanTo(c, pc)
  BY DEF CheckReference
<1>. HIDE DEF pc
<1>3. /\ cleaner' \in [Cleaners -> Actor(CPC)] /\ OthersC(c) /\ cleaner'[c].pc = pc
      /\ cleaner'[c].key = cleaner[c].key
  BY <1>1, <1>2, CleanToSets
<1>4. TypeOK'
  BY <1>0, <1>3 DEF TypeOK, CPC
<1>. QED
  BY <1>0, <1>1, <1>3, <1>4

LEMMA QuarantineSets ==
  ASSUME TypeOK, NEW c \in Cleaners, Quarantine(c)
  PROVE  /\ TypeOK' /\ OthersC(c) /\ cleaner[c].pc = "claim" /\ cleaner'[c].key = cleaner[c].key
         /\ \/ /\ Quarantinable(c) /\ row' = [row EXCEPT !.state = "quarantined"]
               /\ cleaner'[c].pc = "delete"
            \/ row' = row /\ cleaner'[c].pc = "settle"
         /\ UNCHANGED <<clock, asset, object, grants, authorizer, uploader, finalizer>>
<1>0. /\ cleaner[c].pc = "claim"
      /\ UNCHANGED <<clock, asset, object, job, grants, authorizer, uploader, finalizer, faults>>
  BY DEF Quarantine, Cleaning
<1>1. \/ /\ Quarantinable(c) /\ row' = [row EXCEPT !.state = "quarantined"]
         /\ CleanTo(c, "delete")
      \/ row' = row /\ CleanTo(c, "settle")
  BY DEF Quarantine
<1>2. row' \in Row
  BY <1>1, RowGoes, Parts
<1>3. \A pc \in {"delete", "settle"} : CleanTo(c, pc) =>
        /\ cleaner' \in [Cleaners -> Actor(CPC)] /\ OthersC(c) /\ cleaner'[c].pc = pc
        /\ cleaner'[c].key = cleaner[c].key
  BY CleanToSets DEF CPC
<1>4. /\ cleaner' \in [Cleaners -> Actor(CPC)] /\ OthersC(c) /\ cleaner'[c].key = cleaner[c].key
  BY <1>1, <1>3
<1>5. TypeOK'
  BY <1>0, <1>2, <1>4 DEF TypeOK, CPC
<1>. QED
  BY <1>0, <1>1, <1>3, <1>4, <1>5

LEMMA DeleteObjectSets ==
  ASSUME TypeOK, NEW c \in Cleaners, DeleteObject(c)
  PROVE  /\ TypeOK' /\ OthersC(c) /\ cleaner[c].pc = "delete" /\ cleaner'[c].key = cleaner[c].key
         /\ cleaner'[c].pc = "mark" /\ object' = NoObject
         /\ UNCHANGED <<clock, asset, row, grants, authorizer, uploader, finalizer>>
<1>1. /\ cleaner' \in [Cleaners -> Actor(CPC)] /\ OthersC(c) /\ cleaner'[c].pc = "mark"
      /\ cleaner'[c].key = cleaner[c].key
  BY CleanToSets DEF CPC, DeleteObject
<1>2. TypeOK'
  BY <1>1 DEF DeleteObject, NoObject, TypeOK, CPC
<1>. QED
  BY <1>1, <1>2 DEF DeleteObject, Cleaning

LEMMA MarkDeletedSets ==
  ASSUME TypeOK, NEW c \in Cleaners, MarkDeleted(c)
  PROVE  /\ TypeOK' /\ OthersC(c) /\ cleaner[c].pc = "mark" /\ cleaner'[c].key = cleaner[c].key
         /\ cleaner'[c].pc = "settle"
         /\ row'.state = IF row.state = "absent" THEN "absent" ELSE "deleted"
         /\ row'.grant = row.grant /\ row'.expiresAt = row.expiresAt
         /\ UNCHANGED <<clock, asset, object, grants, authorizer, uploader, finalizer>>
<1>1. /\ cleaner' \in [Cleaners -> Actor(CPC)] /\ OthersC(c) /\ cleaner'[c].pc = "settle"
      /\ cleaner'[c].key = cleaner[c].key
  BY CleanToSets DEF CPC, MarkDeleted
<1>. DEFINE s == IF row.state = "absent" THEN "absent" ELSE "deleted"
<1>2. row' = [row EXCEPT !.state = s]
  BY Parts DEF MarkDeleted, Row
<1>3. s \in {"absent", "deleted"}
  OBVIOUS
<1>. HIDE DEF s
<1>4. row' \in Row /\ row'.state = s /\ row'.grant = row.grant /\ row'.expiresAt = row.expiresAt
  BY <1>2, <1>3, RowGoes
<1>5. TypeOK'
  BY <1>1, <1>4 DEF MarkDeleted, TypeOK, CPC
<1>. QED
  BY <1>1, <1>4, <1>5 DEF MarkDeleted, Cleaning, s

LEMMA CleanEndSets ==
  ASSUME TypeOK, NEW c \in Cleaners, Settle(c) \/ FailCleanup(c)
  PROVE  /\ TypeOK' /\ OthersC(c) /\ cleaner'[c].pc = "idle"
         /\ UNCHANGED <<clock, asset, row, object, grants, authorizer, uploader, finalizer>>
<1>1. cleaner' = [cleaner EXCEPT ![c] = Idle]
  BY DEF Settle, FailCleanup
<1>2. cleaner' \in [Cleaners -> Actor(CPC)] /\ OthersC(c) /\ cleaner'[c].pc = "idle"
  BY <1>1, CleanerEnds
<1>3. cleaner[c].key \in Keys
  BY Parts, ActorParts
<1>4. \A s \in {"delivered", "dead-letter"} : [job EXCEPT ![cleaner[c].key] = s] \in
        [Keys -> {"absent", "pending", "queued", "delivered", "dead-letter"}]
  BY <1>3 DEF TypeOK
<1>5. job' \in [Keys -> {"absent", "pending", "queued", "delivered", "dead-letter"}]
  BY <1>4 DEF Settle, FailCleanup, TypeOK
<1>6. UNCHANGED <<clock, asset, row, object, grants, authorizer, uploader, finalizer>>
      /\ faults' \in 0 .. MaxFaults
  BY DEF Settle, FailCleanup, TypeOK
<1>7. TypeOK'
  BY <1>2, <1>5, <1>6 DEF TypeOK, CPC
<1>. QED
  BY <1>2, <1>6, <1>7

LEMMA LoseRequestSets ==
  ASSUME TypeOK, LoseRequest
  PROVE  /\ TypeOK' /\ UNCHANGED <<clock, asset, row, object, grants, cleaner>>
         /\ \/ /\ \E a \in Authorizers : OthersA(a) /\ authorizer'[a].pc = "idle"
               /\ UNCHANGED <<uploader, finalizer>>
            \/ /\ \E u \in Uploaders : OthersU(u) /\ uploader'[u].pc = "idle"
               /\ UNCHANGED <<authorizer, finalizer>>
            \/ /\ \E f \in Finalizers : /\ OthersF(f) /\ finalizer'[f].pc = "idle"
                                        /\ finalizer'[f].grant = 0
               /\ UNCHANGED <<authorizer, uploader>>
<1>0. /\ UNCHANGED <<clock, asset, row, object, job, grants, cleaner>>
      /\ faults' \in 0 .. MaxFaults
  BY DEF LoseRequest, TypeOK
<1>1. ASSUME NEW a \in Authorizers, authorizer' = [authorizer EXCEPT ![a] = Idle]
      PROVE  /\ authorizer' \in [Authorizers -> Actor(APC)] /\ OthersA(a)
             /\ authorizer'[a].pc = "idle"
  <2>1. Idle \in Actor(APC) /\ Idle.pc = "idle" /\ authorizer \in [Authorizers -> Actor(APC)]
    BY IdleParts DEF TypeOK, APC
  <2>. QED
    BY <1>1, <2>1, ActorSet DEF OthersA
<1>2. CASE \E a \in Authorizers : /\ authorizer' = [authorizer EXCEPT ![a] = Idle]
                                /\ UNCHANGED <<uploader, finalizer>>
  <2>1. TypeOK'
    BY <1>0, <1>1, <1>2 DEF TypeOK, APC
  <2>. QED
    BY <1>0, <1>1, <1>2, <2>1
<1>3. CASE \E u \in Uploaders : /\ uploader' = [uploader EXCEPT ![u] = Idle]
                              /\ UNCHANGED <<authorizer, finalizer>>
  <2>1. TypeOK'
    BY <1>0, <1>3, UploaderEnds DEF TypeOK, UPC
  <2>. QED
    BY <1>0, <1>3, <2>1, UploaderEnds
<1>4. CASE \E f \in Finalizers : /\ finalizer' = [finalizer EXCEPT ![f] = Idle]
                               /\ UNCHANGED <<authorizer, uploader>>
  <2>1. TypeOK'
    BY <1>0, <1>4, FinalizerEnds DEF TypeOK, FPC
  <2>. QED
    BY <1>0, <1>4, <2>1, FinalizerEnds
<1>. QED
  BY <1>2, <1>3, <1>4 DEF LoseRequest

LEMMA TickSets ==
  ASSUME TypeOK, Tick
  PROVE  /\ TypeOK' /\ clock' = clock + 1
         /\ \A a \in Authorizers : InTime(authorizer[a])
         /\ \A f \in Finalizers : InTime(finalizer[f])
         /\ UNCHANGED <<asset, row, object, grants, authorizer, uploader, finalizer, cleaner>>
  BY Parts DEF Tick, TypeOK

-----------------------------------------------------------------------------
Working(c) == cleaner[c].pc # "idle"
Uploading(u) == uploader[u].pc \in {"put", "done"}

(* A cleanup that removes what is out of use already. *)
Removes(c) ==
  \/ cleaner[c].pc \in {"delete", "mark"}
  \/ cleaner[c].pc = "check" /\ cleaner[c].seen = "quarantined"

(* A PUT under way has the row to itself, and so has a cleanup that took it *)
(* out of use.                                                              *)
UploadersHold ==
  /\ \A u \in Uploaders : Uploading(u) => row.state = "scanning" /\ row.grant = uploader[u].grant
  /\ \A u, v \in Uploaders : Uploading(u) /\ Uploading(v) => u = v

CleanersHold ==
  \A c \in Cleaners :
    /\ cleaner[c].pc \in {"check", "claim", "delete", "mark"} => cleaner[c].key # AssetJob
    /\ cleaner[c].pc = "check" => cleaner[c].seen \in {"pending", "uploaded", "quarantined"}
    /\ Removes(c) => row.state = "quarantined" /\ row.expiresAt = cleaner[c].key

(* What a finalization may rely on that verified the capability of the row. *)
Verified(f) == finalizer[f].outcome = "ready" /\ finalizer[f].grant = row.grant
FinalizersFit ==
  \A f \in Finalizers :
    /\ finalizer[f].pc = "invalidate" /\ Verified(f) =>
         /\ row.state \in {"uploaded", "quarantined", "deleted"}
         /\ row.state = "uploaded" => object # NoObject
    /\ finalizer[f].pc = "commit" /\ Verified(f) => row.state = "deleted" /\ object # NoObject

(* A key is worked on once at a time, and a capability has its number once. *)
KeysApart ==
  \A c, d \in Cleaners : Working(c) /\ Working(d) /\ cleaner[c].key = cleaner[d].key => c = d
RowCounted == row.grant <= grants /\ (row.state # "absent" => row.grant > 0)
UploadersCounted == \A u \in Uploaders : uploader[u].pc # "idle" => uploader[u].grant > 0
FinalizersCounted == \A f \in Finalizers : finalizer[f].grant <= grants

FileInv ==
  /\ KeysApart /\ RowCounted /\ UploadersCounted /\ FinalizersCounted
  /\ asset # "rejected" => UploadersHold /\ CleanersHold /\ FinalizersFit

LEMMA Frames ==
  ASSUME FileInv
  PROVE  /\ UNCHANGED cleaner => KeysApart'
         /\ UNCHANGED <<row, grants>> => RowCounted'
         /\ UNCHANGED uploader => UploadersCounted'
         /\ UNCHANGED <<finalizer, grants>> => FinalizersCounted'
         /\ asset # "rejected" /\ UNCHANGED <<uploader, row>> => UploadersHold'
         /\ asset # "rejected" /\ UNCHANGED <<cleaner, row>> => CleanersHold'
         /\ asset # "rejected" /\ UNCHANGED <<finalizer, row, object>> => FinalizersFit'
<1>1. UNCHANGED cleaner => KeysApart'
  BY DEF FileInv, KeysApart, Working
<1>2. UNCHANGED <<row, grants>> => RowCounted'
  BY DEF FileInv, RowCounted
<1>3. UNCHANGED uploader => UploadersCounted'
  BY DEF FileInv, UploadersCounted
<1>4. UNCHANGED <<finalizer, grants>> => FinalizersCounted'
  BY DEF FileInv, FinalizersCounted
<1>5. asset # "rejected" /\ UNCHANGED <<uploader, row>> => UploadersHold'
  BY DEF FileInv, UploadersHold, Uploading
<1>6. asset # "rejected" /\ UNCHANGED <<cleaner, row>> => CleanersHold'
  BY DEF FileInv, CleanersHold, Removes
<1>7. asset # "rejected" /\ UNCHANGED <<finalizer, row, object>> => FinalizersFit'
  BY DEF FileInv, FinalizersFit, Verified
<1>. QED
  BY <1>1, <1>2, <1>3, <1>4, <1>5, <1>6, <1>7

LEMMA StillFits ==
  ASSUME UNCHANGED <<asset, row, object, grants, uploader, finalizer, cleaner>>, FileInv
  PROVE  FileInv'
  BY Frames DEF FileInv

LEMMA RegisterFits ==
  ASSUME TypeOK, FileInv, NEW a \in Authorizers, Register(a)
  PROVE  FileInv'
<1>0. UNCHANGED <<asset, object, uploader, finalizer, cleaner>>
  BY RegisterSets
<1>1. CASE UNCHANGED <<row, grants>>
  BY <1>0, <1>1, StillFits
<1>2. CASE Replaceable /\ grants' = grants + 1
           /\ row' = [state |-> "pending", grant |-> grants + 1, expiresAt |-> authorizer[a].expiresAt]
  <2>1. /\ row.state \in {"absent", "pending", "deleted"} /\ grants \in Nat
        /\ row'.grant = grants + 1 /\ row'.state = "pending"
        /\ \A f \in Finalizers : finalizer[f].grant \in Nat
    BY <1>2, Parts, ActorParts DEF Replaceable
  <2>2. RowCounted'
    BY <1>2, <2>1 DEF RowCounted
  <2>3. FinalizersCounted' /\ \A f \in Finalizers : finalizer'[f].grant # row'.grant
    BY <1>0, <1>2, <2>1 DEF FileInv, FinalizersCounted
  <2>4. ASSUME asset # "rejected"
        PROVE  UploadersHold' /\ CleanersHold' /\ FinalizersFit'
    <3>1. UploadersHold /\ CleanersHold
      BY <2>4 DEF FileInv
    <3>2. UploadersHold'
      BY <1>0, <2>1, <3>1 DEF UploadersHold, Uploading
    <3>3. CleanersHold'
      BY <1>0, <2>1, <3>1 DEF CleanersHold, Removes
    <3>4. FinalizersFit'
      BY <2>3 DEF FinalizersFit, Verified
    <3>. QED
      BY <3>2, <3>3, <3>4
  <2>. QED
    BY <1>0, <2>2, <2>3, <2>4, Frames DEF FileInv
<1>. QED
  BY <1>1, <1>2, RegisterSets

LEMMA BeginUploadFits ==
  ASSUME TypeOK, FileInv, NEW u \in Uploaders, BeginUpload(u)
  PROVE  FileInv'
<1>0. /\ UNCHANGED <<asset, row, object, grants, finalizer, cleaner>> /\ OthersU(u)
      /\ row.state = "pending" /\ uploader'[u].pc = "claim" /\ uploader'[u].grant = row.grant
  BY BeginUploadSets
<1>1. UploadersCounted'
  BY <1>0 DEF FileInv, UploadersCounted, RowCounted, OthersU
<1>2. asset # "rejected" => UploadersHold'
  BY <1>0 DEF FileInv, UploadersHold, Uploading, OthersU
<1>. QED
  BY <1>0, <1>1, <1>2, Frames DEF FileInv

LEMMA ClaimUploadFits ==
  ASSUME TypeOK, FileInv, NEW u \in Uploaders, ClaimUpload(u)
  PROVE  FileInv'
<1>0. /\ UNCHANGED <<asset, object, grants, finalizer, cleaner>> /\ OthersU(u)
      /\ uploader[u].pc = "claim"
  BY ClaimUploadSets
<1>1. CASE row' = row /\ uploader'[u].pc = "idle"
  <2>1. UploadersCounted'
    BY <1>0, <1>1 DEF FileInv, UploadersCounted, OthersU
  <2>2. asset # "rejected" => UploadersHold'
    BY <1>0, <1>1 DEF FileInv, UploadersHold, Uploading, OthersU
  <2>. QED
    BY <1>0, <1>1, <2>1, <2>2, Frames DEF FileInv
<1>2. CASE /\ Holds(u, "pending") /\ row' = [row EXCEPT !.state = "scanning"]
           /\ uploader'[u].pc = "put" /\ uploader'[u].grant = uploader[u].grant
  <2>1. /\ row.state = "pending" /\ row.grant = uploader[u].grant
        /\ row'.state = "scanning" /\ row'.grant = row.grant
    BY <1>2, RowGoes DEF Holds
  <2>2. UploadersCounted'
    BY <1>0, <1>2 DEF FileInv, UploadersCounted, OthersU
  <2>3. RowCounted'
    BY <1>0, <2>1 DEF FileInv, RowCounted
  <2>4. ASSUME asset # "rejected"
        PROVE  UploadersHold' /\ CleanersHold' /\ FinalizersFit'
    <3>1. UploadersHold /\ CleanersHold /\ FinalizersFit
      BY <2>4 DEF FileInv
    <3>2. \A v \in Uploaders : v # u => ~Uploading(v)'
      BY <1>0, <2>1, <3>1 DEF UploadersHold, Uploading, OthersU
    <3>3. UploadersHold'
      BY <1>2, <2>1, <3>2 DEF UploadersHold
    <3>4. CleanersHold'
      BY <1>0, <2>1, <3>1 DEF CleanersHold, Removes
    <3>5. FinalizersFit'
      BY <1>0, <2>1, <3>1 DEF FinalizersFit, Verified
    <3>. QED
      BY <3>3, <3>4, <3>5
  <2>. QED
    BY <1>0, <2>2, <2>3, <2>4, Frames DEF FileInv
<1>. QED
  BY <1>1, <1>2, ClaimUploadSets

LEMMA PutObjectFits ==
  ASSUME TypeOK, FileInv, NEW u \in Uploaders, PutObject(u)
  PROVE  FileInv'
<1>0. /\ UNCHANGED <<asset, row, grants, finalizer, cleaner>> /\ OthersU(u)
      /\ uploader[u].pc = "put" /\ uploader'[u].pc = "done"
      /\ uploader'[u].grant = uploader[u].grant
  BY PutObjectSets
<1>1. UploadersCounted'
  BY <1>0 DEF FileInv, UploadersCounted, OthersU
<1>2. ASSUME asset # "rejected"
      PROVE  UploadersHold' /\ FinalizersFit'
  <2>1. UploadersHold /\ FinalizersFit /\ row.state = "scanning"
    BY <1>0, <1>2 DEF FileInv, UploadersHold, Uploading
  <2>2. UploadersHold'
    BY <1>0, <2>1 DEF UploadersHold, Uploading, OthersU
  <2>3. FinalizersFit'
    BY <1>0, <2>1 DEF FinalizersFit, Verified
  <2>. QED
    BY <2>2, <2>3
<1>. QED
  BY <1>0, <1>1, <1>2, Frames DEF FileInv

LEMMA UploadEndFits ==
  ASSUME TypeOK, FileInv, NEW u \in Uploaders, ConfirmUpload(u) \/ FailUpload(u)
  PROVE  FileInv'
<1>0. /\ UNCHANGED <<asset, object, grants, finalizer, cleaner>> /\ OthersU(u)
      /\ uploader[u].pc \in {"put", "done"} /\ uploader'[u].pc = "idle"
  BY UploadEndSets
<1>1. UploadersCounted'
  BY <1>0 DEF FileInv, UploadersCounted, OthersU
<1>2. CASE row' = row
  <2>1. asset # "rejected" => UploadersHold'
    BY <1>0, <1>2 DEF FileInv, UploadersHold, Uploading, OthersU
  <2>. QED
    BY <1>0, <1>1, <1>2, <2>1, Frames DEF FileInv
<1>3. ASSUME NEW s \in {"uploaded", "pending"}, Holds(u, "scanning"),
             row' = [row EXCEPT !.state = s]
      PROVE  FileInv'
  <2>1. row.state = "scanning" /\ row'.state = s /\ row'.grant = row.grant
    BY <1>3, RowGoes DEF Holds
  <2>2. RowCounted'
    BY <1>0, <2>1 DEF FileInv, RowCounted
  <2>3. ASSUME asset # "rejected"
        PROVE  UploadersHold' /\ CleanersHold' /\ FinalizersFit'
    <3>1. UploadersHold /\ CleanersHold /\ FinalizersFit
      BY <2>3 DEF FileInv
    <3>2. \A v \in Uploaders : ~Uploading(v)'
      BY <1>0, <3>1 DEF UploadersHold, Uploading, OthersU
    <3>3. CleanersHold'
      BY <1>0, <2>1, <3>1 DEF CleanersHold, Removes
    <3>4. FinalizersFit'
      BY <1>0, <2>1, <3>1 DEF FinalizersFit, Verified
    <3>. QED
      BY <3>2, <3>3, <3>4 DEF UploadersHold
  <2>. QED
    BY <1>0, <1>1, <2>2, <2>3, Frames DEF FileInv
<1>. QED
  BY <1>2, <1>3, UploadEndSets

LEMMA BeginFinalizeFits ==
  ASSUME TypeOK, FileInv, NEW f \in Finalizers, NEW o \in {"ready", "rejected"}, BeginFinalize(f, o)
  PROVE  FileInv'
<1>0. /\ UNCHANGED <<asset, row, object, grants, uploader, cleaner>> /\ OthersF(f)
      /\ finalizer'[f].pc \in {"verify", "invalidate"} /\ finalizer'[f].grant = 0
      /\ finalizer'[f].pc = "invalidate" => finalizer'[f].outcome # "ready"
  BY BeginFinalizeSets
<1>1. FinalizersCounted'
  BY <1>0, Parts DEF FileInv, FinalizersCounted, OthersF
<1>2. asset # "rejected" => FinalizersFit'
  BY <1>0 DEF FileInv, FinalizersFit, Verified, OthersF
<1>. QED
  BY <1>0, <1>1, <1>2, Frames DEF FileInv

LEMMA VerifyFits ==
  ASSUME TypeOK, FileInv, NEW f \in Finalizers, Verify(f)
  PROVE  FileInv'
<1>0. /\ UNCHANGED <<asset, row, object, grants, uploader, cleaner>> /\ OthersF(f)
      /\ \/ /\ row.state = "uploaded" /\ object # NoObject
            /\ finalizer'[f].pc = "invalidate" /\ finalizer'[f].grant = row.grant
         \/ finalizer'[f].pc = "idle" /\ finalizer'[f].grant = 0
  BY VerifySets
<1>1. FinalizersCounted'
  BY <1>0, Parts DEF FileInv, FinalizersCounted, RowCounted, OthersF
<1>2. asset # "rejected" => FinalizersFit'
  BY <1>0 DEF FileInv, FinalizersFit, Verified, OthersF
<1>. QED
  BY <1>0, <1>1, <1>2, Frames DEF FileInv

LEMMA InvalidateFits ==
  ASSUME TypeOK, FileInv, NEW f \in Finalizers, Invalidate(f)
  PROVE  FileInv'
<1>0. /\ UNCHANGED <<asset, object, grants, uploader, cleaner>> /\ OthersF(f)
      /\ finalizer[f].pc = "invalidate"
  BY InvalidateSets
<1>1. CASE row' = row /\ finalizer'[f].pc = "idle" /\ finalizer'[f].grant = 0
  <2>1. FinalizersCounted'
    BY <1>0, <1>1, Parts DEF FileInv, FinalizersCounted, OthersF
  <2>2. asset # "rejected" => FinalizersFit'
    BY <1>0, <1>1 DEF FileInv, FinalizersFit, Verified, OthersF
  <2>. QED
    BY <1>0, <1>1, <2>1, <2>2, Frames DEF FileInv
<1>2. CASE /\ Invalidable /\ row' = [row EXCEPT !.state = "deleted"]
           /\ finalizer'[f].pc = "commit" /\ finalizer'[f].grant = finalizer[f].grant
           /\ finalizer'[f].outcome = finalizer[f].outcome
  <2>1. row.state \in {"pending", "uploaded"} /\ row'.state = "deleted" /\ row'.grant = row.grant
    BY <1>2, RowGoes DEF Invalidable
  <2>2. RowCounted'
    BY <1>0, <2>1 DEF FileInv, RowCounted
  <2>3. FinalizersCounted'
    BY <1>0, <1>2 DEF FileInv, FinalizersCounted, OthersF
  <2>4. ASSUME asset # "rejected"
        PROVE  UploadersHold' /\ CleanersHold' /\ FinalizersFit'
    <3>1. UploadersHold /\ CleanersHold /\ FinalizersFit
      BY <2>4 DEF FileInv
    <3>2. UploadersHold'
      BY <1>0, <2>1, <3>1 DEF UploadersHold, Uploading
    <3>3. CleanersHold'
      BY <1>0, <2>1, <3>1 DEF CleanersHold, Removes
    <3>4. Verified(f)' => object # NoObject
      BY <1>0, <1>2, <2>1, <3>1 DEF FinalizersFit, Verified
    <3>5. \A g \in Finalizers : g # f => /\ finalizer'[g] = finalizer[g]
                                         /\ ~(finalizer'[g].pc = "commit" /\ Verified(g)')
      BY <1>0, <2>1, <3>1 DEF FinalizersFit, Verified, OthersF
    <3>6. FinalizersFit'
      BY <1>0, <1>2, <2>1, <3>4, <3>5 DEF FinalizersFit
    <3>. QED
      BY <3>2, <3>3, <3>6
  <2>. QED
    BY <1>0, <2>2, <2>3, <2>4, Frames DEF FileInv
<1>. QED
  BY <1>1, <1>2, InvalidateSets

LEMMA CommitFits ==
  ASSUME TypeOK, FileInv, NEW f \in Finalizers, Commit(f)
  PROVE  FileInv'
<1>0. /\ UNCHANGED <<row, object, grants, uploader, cleaner>> /\ OthersF(f)
      /\ finalizer'[f].pc = "idle" /\ finalizer'[f].grant = 0
      /\ asset' # "rejected" => asset # "rejected"
  BY CommitSets
<1>1. FinalizersCounted'
  BY <1>0, Parts DEF FileInv, FinalizersCounted, OthersF
<1>2. asset # "rejected" => FinalizersFit'
  BY <1>0 DEF FileInv, FinalizersFit, Verified, OthersF
<1>. QED
  BY <1>0, <1>1, <1>2, Frames DEF FileInv

-----------------------------------------------------------------------------
LEMMA TakeFits ==
  ASSUME TypeOK, FileInv, NEW c \in Cleaners, NEW k \in Keys, Take(c, k)
  PROVE  FileInv'
<1>0. /\ UNCHANGED <<asset, row, object, grants, uploader, finalizer>> /\ OthersC(c)
      /\ cleaner'[c].pc = "read" /\ cleaner'[c].key = k
      /\ \A d \in Cleaners : cleaner[d].pc # "idle" => cleaner[d].key # k
  BY TakeSets
<1>1. KeysApart'
  BY <1>0 DEF FileInv, KeysApart, Working, OthersC
<1>2. asset # "rejected" => CleanersHold'
  BY <1>0 DEF FileInv, CleanersHold, Removes, OthersC
<1>. QED
  BY <1>0, <1>1, <1>2, Frames DEF FileInv

(* The next step of a cleanup keeps the keys apart. *)
LEMMA KeysStayApart ==
  ASSUME FileInv, NEW c \in Cleaners, OthersC(c), cleaner[c].pc # "idle",
         cleaner'[c].key = cleaner[c].key
  PROVE  KeysApart'
  BY DEF FileInv, KeysApart, Working, OthersC

LEMMA ReadAuthorityFits ==
  ASSUME TypeOK, FileInv, NEW c \in Cleaners, ReadAuthority(c)
  PROVE  FileInv'
<1>0. /\ UNCHANGED <<asset, row, object, grants, uploader, finalizer>> /\ OthersC(c)
      /\ cleaner[c].pc = "read" /\ cleaner'[c].key = cleaner[c].key
      /\ \/ cleaner'[c].pc = "settle"
         \/ /\ cleaner'[c].pc = "check"
            /\ \/ asset = "rejected"
               \/ /\ cleaner[c].key # AssetJob /\ cleaner'[c].seen = row.state
                  /\ row.state \in {"pending", "uploaded", "quarantined"}
                  /\ row.expiresAt = cleaner[c].key
  BY ReadAuthoritySets
<1>1. KeysApart'
  BY <1>0, KeysStayApart
<1>2. asset # "rejected" => CleanersHold'
  BY <1>0 DEF FileInv, CleanersHold, Removes, OthersC
<1>. QED
  BY <1>0, <1>1, <1>2, Frames DEF FileInv

LEMMA CheckReferenceFits ==
  ASSUME TypeOK, FileInv, NEW c \in Cleaners, CheckReference(c)
  PROVE  FileInv'
<1>0. /\ UNCHANGED <<asset, row, object, grants, uploader, finalizer>> /\ OthersC(c)
      /\ cleaner[c].pc = "check" /\ cleaner'[c].key = cleaner[c].key
      /\ \/ cleaner'[c].pc \in {"settle", "claim"}
         \/ cleaner'[c].pc = "delete" /\ cleaner[c].seen \notin {"pending", "uploaded"}
  BY CheckReferenceSets
<1>1. KeysApart'
  BY <1>0, KeysStayApart
<1>2. asset # "rejected" => CleanersHold'
  BY <1>0 DEF FileInv, CleanersHold, Removes, OthersC
<1>. QED
  BY <1>0, <1>1, <1>2, Frames DEF FileInv

LEMMA QuarantineFits ==
  ASSUME TypeOK, FileInv, NEW c \in Cleaners, Quarantine(c)
  PROVE  FileInv'
<1>0. /\ UNCHANGED <<asset, object, grants, uploader, finalizer>> /\ OthersC(c)
      /\ cleaner[c].pc = "claim" /\ cleaner'[c].key = cleaner[c].key
  BY QuarantineSets
<1>1. KeysApart'
  BY <1>0, KeysStayApart
<1>2. CASE row' = row /\ cleaner'[c].pc = "settle"
  <2>1. asset # "rejected" => CleanersHold'
    BY <1>0, <1>2 DEF FileInv, CleanersHold, Removes, OthersC
  <2>. QED
    BY <1>0, <1>1, <1>2, <2>1, Frames DEF FileInv
<1>3. CASE /\ Quarantinable(c) /\ row' = [row EXCEPT !.state = "quarantined"]
           /\ cleaner'[c].pc = "delete"
  <2>1. /\ row.state \in {"pending", "uploaded"} /\ row.expiresAt = cleaner[c].key
        /\ row'.state = "quarantined" /\ row'.grant = row.grant /\ row'.expiresAt = row.expiresAt
    BY <1>3, RowGoes DEF Quarantinable
  <2>2. RowCounted'
    BY <1>0, <2>1 DEF FileInv, RowCounted
  <2>3. ASSUME asset # "rejected"
        PROVE  UploadersHold' /\ CleanersHold' /\ FinalizersFit'
    <3>1. UploadersHold /\ CleanersHold /\ FinalizersFit
      BY <2>3 DEF FileInv
    <3>2. UploadersHold'
      BY <1>0, <2>1, <3>1 DEF UploadersHold, Uploading
    <3>3. CleanersHold'
      BY <1>0, <1>3, <2>1, <3>1 DEF CleanersHold, Removes, OthersC
    <3>4. FinalizersFit'
      BY <1>0, <2>1, <3>1 DEF FinalizersFit, Verified
    <3>. QED
      BY <3>2, <3>3, <3>4
  <2>. QED
    BY <1>0, <1>1, <2>2, <2>3, Frames DEF FileInv
<1>. QED
  BY <1>2, <1>3, QuarantineSets

LEMMA DeleteObjectFits ==
  ASSUME TypeOK, FileInv, NEW c \in Cleaners, DeleteObject(c)
  PROVE  FileInv'
<1>0. /\ UNCHANGED <<asset, row, grants, uploader, finalizer>> /\ OthersC(c)
      /\ cleaner[c].pc = "delete" /\ cleaner'[c].key = cleaner[c].key /\ cleaner'[c].pc = "mark"
  BY DeleteObjectSets
<1>1. KeysApart'
  BY <1>0, KeysStayApart
<1>2. ASSUME asset # "rejected"
      PROVE  CleanersHold' /\ FinalizersFit'
  <2>1. CleanersHold /\ FinalizersFit /\ row.state = "quarantined"
    BY <1>0, <1>2 DEF FileInv, CleanersHold, Removes
  <2>2. CleanersHold'
    BY <1>0, <2>1 DEF CleanersHold, Removes, OthersC
  <2>3. FinalizersFit'
    BY <1>0, <2>1 DEF FinalizersFit, Verified
  <2>. QED
    BY <2>2, <2>3
<1>. QED
  BY <1>0, <1>1, <1>2, Frames DEF FileInv

LEMMA MarkDeletedFits ==
  ASSUME TypeOK, FileInv, NEW c \in Cleaners, MarkDeleted(c)
  PROVE  FileInv'
<1>0. /\ UNCHANGED <<asset, object, grants, uploader, finalizer>> /\ OthersC(c)
      /\ cleaner[c].pc = "mark" /\ cleaner'[c].key = cleaner[c].key /\ cleaner'[c].pc = "settle"
      /\ row'.state = IF row.state = "absent" THEN "absent" ELSE "deleted"
      /\ row'.grant = row.grant /\ row'.expiresAt = row.expiresAt
  BY MarkDeletedSets
<1>1. KeysApart'
  BY <1>0, KeysStayApart
<1>2. RowCounted'
  BY <1>0 DEF FileInv, RowCounted
<1>3. ASSUME asset # "rejected"
      PROVE  UploadersHold' /\ CleanersHold' /\ FinalizersFit'
  <2>1. /\ UploadersHold /\ CleanersHold /\ FinalizersFit
        /\ row.state = "quarantined" /\ row.expiresAt = cleaner[c].key
    BY <1>0, <1>3 DEF FileInv, CleanersHold, Removes
  <2>2. UploadersHold'
    BY <1>0, <2>1 DEF UploadersHold, Uploading
  <2>3. \A d \in Cleaners : d # c => ~Removes(d) /\ cleaner'[d] = cleaner[d]
    BY <1>0, <2>1 DEF FileInv, KeysApart, Working, CleanersHold, Removes, OthersC
  <2>4. CleanersHold'
    BY <1>0, <2>1, <2>3 DEF CleanersHold, Removes
  <2>5. FinalizersFit'
    BY <1>0, <2>1 DEF FinalizersFit, Verified
  <2>. QED
    BY <2>2, <2>4, <2>5
<1>. QED
  BY <1>0, <1>1, <1>2, <1>3, Frames DEF FileInv

LEMMA CleanEndFits ==
  ASSUME TypeOK, FileInv, NEW c \in Cleaners, Settle(c) \/ FailCleanup(c)
  PROVE  FileInv'
<1>0. /\ UNCHANGED <<asset, row, object, grants, uploader, finalizer>> /\ OthersC(c)
      /\ cleaner'[c].pc = "idle"
  BY CleanEndSets
<1>1. KeysApart'
  BY <1>0 DEF FileInv, KeysApart, Working, OthersC
<1>2. asset # "rejected" => CleanersHold'
  BY <1>0 DEF FileInv, CleanersHold, Removes, OthersC
<1>. QED
  BY <1>0, <1>1, <1>2, Frames DEF FileInv

LEMMA LoseRequestFits ==
  ASSUME TypeOK, FileInv, LoseRequest
  PROVE  FileInv'
<1>0. UNCHANGED <<asset, row, object, grants, cleaner>>
  BY LoseRequestSets
<1>1. CASE UNCHANGED <<uploader, finalizer>>
  BY <1>0, <1>1, StillFits
<1>2. ASSUME NEW u \in Uploaders, OthersU(u), uploader'[u].pc = "idle", finalizer' = finalizer
      PROVE  FileInv'
  <2>1. UploadersCounted'
    BY <1>2 DEF FileInv, UploadersCounted, OthersU
  <2>2. asset # "rejected" => UploadersHold'
    BY <1>0, <1>2 DEF FileInv, UploadersHold, Uploading, OthersU
  <2>. QED
    BY <1>0, <1>2, <2>1, <2>2, Frames DEF FileInv
<1>3. ASSUME NEW f \in Finalizers, OthersF(f), finalizer'[f].pc = "idle",
             finalizer'[f].grant = 0, uploader' = uploader
      PROVE  FileInv'
  <2>1. FinalizersCounted'
    BY <1>0, <1>3, Parts DEF FileInv, FinalizersCounted, OthersF
  <2>2. asset # "rejected" => FinalizersFit'
    BY <1>0, <1>3 DEF FileInv, FinalizersFit, Verified, OthersF
  <2>. QED
    BY <1>0, <1>3, <2>1, <2>2, Frames DEF FileInv
<1>. QED
  BY <1>1, <1>2, <1>3, LoseRequestSets

-----------------------------------------------------------------------------
LEMMA InitFits == Init => TypeOK /\ FileInv
<1>. SUFFICES ASSUME Init PROVE TypeOK /\ FileInv
  OBVIOUS
<1>1. TypeOK
  <2>1. /\ authorizer \in [Authorizers -> Actor(APC)] /\ uploader \in [Uploaders -> Actor(UPC)]
        /\ finalizer \in [Finalizers -> Actor(FPC)] /\ cleaner \in [Cleaners -> Actor(CPC)]
    BY IdleParts DEF Init
  <2>2. row \in Row /\ object \in 0 .. MaxGrants
    BY DEF Init, Row, NoObject
  <2>. QED
    BY <2>1, <2>2 DEF Init, TypeOK, APC, UPC, FPC, CPC
<1>2. /\ \A u \in Uploaders : uploader[u].pc = "idle"
      /\ \A f \in Finalizers : finalizer[f].pc = "idle" /\ finalizer[f].grant = 0
      /\ \A c \in Cleaners : cleaner[c].pc = "idle"
      /\ row.grant = 0 /\ row.state = "absent" /\ grants = 0
  BY IdleParts DEF Init
<1>3. KeysApart /\ RowCounted /\ UploadersCounted /\ FinalizersCounted
  BY <1>2 DEF KeysApart, Working, RowCounted, UploadersCounted, FinalizersCounted
<1>4. UploadersHold /\ CleanersHold /\ FinalizersFit
  BY <1>2 DEF UploadersHold, Uploading, CleanersHold, Removes, FinalizersFit
<1>. QED
  BY <1>1, <1>3, <1>4 DEF FileInv

LEMMA NextFits == TypeOK /\ FileInv /\ [Next]_vars => TypeOK' /\ FileInv'
<1>. SUFFICES ASSUME TypeOK, FileInv, [Next]_vars PROVE TypeOK' /\ FileInv'
  OBVIOUS
<1>1. ASSUME NEW a \in Authorizers, BeginAuthorize(a) \/ Register(a)
      PROVE  TypeOK' /\ FileInv'
  BY <1>1, BeginAuthorizeSets, StillFits, RegisterSets, RegisterFits
<1>2. ASSUME NEW u \in Uploaders, BeginUpload(u) \/ UploadStep(u) \/ FailUpload(u)
      PROVE  TypeOK' /\ FileInv'
  BY <1>2, BeginUploadSets, BeginUploadFits, ClaimUploadSets, ClaimUploadFits, PutObjectSets,
     PutObjectFits, UploadEndSets, UploadEndFits DEF UploadStep
<1>3. ASSUME NEW f \in Finalizers,
             FinalizeStep(f) \/ \E o \in {"ready", "rejected"} : BeginFinalize(f, o)
      PROVE  TypeOK' /\ FileInv'
  BY <1>3, BeginFinalizeSets, BeginFinalizeFits, VerifySets, VerifyFits, InvalidateSets,
     InvalidateFits, CommitSets, CommitFits DEF FinalizeStep
<1>4. CASE ArmExpired \/ \E k \in Keys : Publish(k)
  BY <1>4, JobStepSets, StillFits
<1>5. ASSUME NEW c \in Cleaners, CleanStep(c) \/ FailCleanup(c) \/ \E k \in Keys : Take(c, k)
      PROVE  TypeOK' /\ FileInv'
  <2>1. CASE ReadAuthority(c) \/ CheckReference(c) \/ Quarantine(c)
    BY <2>1, ReadAuthoritySets, ReadAuthorityFits, CheckReferenceSets, CheckReferenceFits,
       QuarantineSets, QuarantineFits
  <2>2. CASE DeleteObject(c) \/ MarkDeleted(c)
    BY <2>2, DeleteObjectSets, DeleteObjectFits, MarkDeletedSets, MarkDeletedFits
  <2>3. CASE Settle(c) \/ FailCleanup(c) \/ \E k \in Keys : Take(c, k)
    BY <2>3, CleanEndSets, CleanEndFits, TakeSets, TakeFits
  <2>. QED
    BY <1>5, <2>1, <2>2, <2>3 DEF CleanStep
<1>6. CASE LoseRequest
  BY <1>6, LoseRequestSets, LoseRequestFits
<1>7. CASE Tick
  BY <1>7, TickSets, StillFits
<1>8. CASE UNCHANGED vars
  <2>1. UNCHANGED <<asset, row, object, grants, uploader, finalizer, cleaner>>
    BY <1>8 DEF vars
  <2>2. TypeOK'
    BY <1>8 DEF vars, TypeOK
  <2>. QED
    BY <2>1, <2>2, StillFits
<1>. QED
  BY <1>1, <1>2, <1>3, <1>4, <1>5, <1>6, <1>7, <1>8 DEF Next

LEMMA AlwaysFits == Spec => [](TypeOK /\ FileInv)
  BY InitFits, NextFits, PTL DEF Spec

(* The asset, its upload row, the object and the cleanup jobs keep their     *)
(* types through every statement of the requests, the cron trigger and the   *)
(* consumer.                                                                 *)
THEOREM TypeCorrect == Spec => []TypeOK
  BY AlwaysFits, PTL

(* Where the asset was not rejected, a PUT whose claim is out is joined by   *)
(* no other PUT and by no deletion (claim() and the statement of             *)
(* deleteIfAuthorized that quarantines an upload exclude one another).       *)
THEOREM WritesAlone == Spec => []OneWriter
<1>1. TypeOK /\ FileInv => OneWriter
  <2>. SUFFICES ASSUME TypeOK, FileInv, asset # "rejected"
                PROVE  Cardinality(Writing) + Cardinality(Deleting) <= 1
    BY DEF OneWriter
  <2>1. UploadersHold /\ CleanersHold /\ KeysApart
    BY DEF FileInv
  <2>2. \A u, v \in Writing : u = v
    BY <2>1 DEF Writing, UploadersHold, Uploading
  <2>3. \A c, d \in Deleting : c = d
    BY <2>1 DEF Deleting, CleanersHold, Removes, KeysApart, Working
  <2>4. Writing = {} \/ Deleting = {}
    BY <2>1 DEF Writing, Deleting, UploadersHold, Uploading, CleanersHold, Removes
  <2>5. ASSUME NEW S, \A x, y \in S : x = y
        PROVE  Cardinality(S) \in 0 .. 1
    <3>1. CASE S = {}
      BY <3>1, FS_EmptySet
    <3>2. CASE S # {}
      <4>1. PICK x \in S : TRUE
        BY <3>2
      <4>2. S = {x}
        BY <2>5, <4>1
      <4>3. Cardinality({x}) = 1
        BY FS_Singleton
      <4>. QED
        BY <4>2, <4>3
    <3>. QED
      BY <3>1, <3>2
  <2>6. Cardinality(Writing) \in 0 .. 1 /\ Cardinality(Deleting) \in 0 .. 1 /\ Cardinality({}) = 0
    BY <2>2, <2>3, <2>5, FS_EmptySet
  <2>. QED
    BY <2>4, <2>6
<1>. QED
  BY <1>1, AlwaysFits, PTL

(* A finalization that makes the asset ready under the capability it has     *)
(* verified leaves it with an object, whatever it overlapped with.           *)
THEOREM ReadyWithObject == Spec => ReadyHasObject
<1>. DEFINE Found == \A f \in Finalizers :
       /\ asset # "ready" /\ asset' = "ready"
       /\ finalizer[f].pc = "commit" /\ finalizer'[f] # finalizer[f]
       /\ finalizer[f].grant = row.grant
       => object' # NoObject
<1>1. TypeOK /\ FileInv /\ [Next]_vars => Found
  <2>. SUFFICES ASSUME TypeOK, FileInv, [Next]_vars, NEW f \in Finalizers,
                       asset # "ready", asset' = "ready", finalizer[f].pc = "commit",
                       finalizer'[f] # finalizer[f], finalizer[f].grant = row.grant
                PROVE  object' # NoObject
    OBVIOUS
  <2>1. PICK g \in Finalizers : Commit(g)
    <3>1. ASSUME NEW a \in Authorizers, BeginAuthorize(a) \/ Register(a) PROVE FALSE
      BY <3>1 DEF BeginAuthorize, Register
    <3>2. ASSUME NEW u \in Uploaders, BeginUpload(u) \/ UploadStep(u) \/ FailUpload(u) PROVE FALSE
      BY <3>2 DEF BeginUpload, UploadStep, FailUpload, ClaimUpload, PutObject, ConfirmUpload
    <3>3. ASSUME NEW h \in Finalizers, Verify(h) \/ Invalidate(h)
                   \/ \E o \in {"ready", "rejected"} : BeginFinalize(h, o)
          PROVE  FALSE
      BY <3>3 DEF Verify, Invalidate, BeginFinalize
    <3>4. CASE ArmExpired \/ (\E k \in Keys : Publish(k)) \/ LoseRequest \/ Tick \/ UNCHANGED vars
      BY <3>4 DEF ArmExpired, Publish, LoseRequest, Tick, vars
    <3>5. ASSUME NEW c \in Cleaners, CleanStep(c) \/ FailCleanup(c) \/ \E k \in Keys : Take(c, k)
          PROVE  FALSE
      BY <3>5 DEF CleanStep, FailCleanup, Take, ReadAuthority, CheckReference, Quarantine,
                  DeleteObject, MarkDeleted, Settle
    <3>. QED
      BY <3>1, <3>2, <3>3, <3>4, <3>5 DEF Next, FinalizeStep
  <2>2. /\ OthersF(g) /\ object' = object
        /\ asset = "pending_upload" /\ finalizer[g].outcome = "ready"
    BY <2>1, CommitSets
  <2>3. f = g
    BY <2>2 DEF OthersF
  <2>. QED
    BY <2>2, <2>3 DEF FileInv, FinalizersFit, Verified
<1>2. TypeOK /\ FileInv /\ [Next]_vars => [Found]_vars
  BY <1>1
<1>. HIDE DEF Found
<1>3. Spec => [][Found]_vars
  BY <1>2, AlwaysFits, PTL DEF Spec
<1>. QED
  BY <1>3 DEF ReadyHasObject, Found

-----------------------------------------------------------------------------
(* Where no request lasts half as long as a capability: a row that is       *)
(* registered after a finalization took its predecessor out of use expires  *)
(* only after that finalization is over.                                    *)
AuthorizersTimely ==
  \A a \in Authorizers : authorizer[a].pc # "idle" =>
    /\ clock <= authorizer[a].since + MaxRunTime
    /\ authorizer[a].expiresAt = authorizer[a].since + GrantLife
FinalizersTimely ==
  \A f \in Finalizers : finalizer[f].pc # "idle" =>
    finalizer[f].since <= clock /\ clock <= finalizer[f].since + MaxRunTime
CommitsOutlived ==
  \A f \in Finalizers : finalizer[f].pc = "commit" =>
    row.state = "deleted" \/ row.expiresAt > finalizer[f].since + MaxRunTime
CleanersLate ==
  \A c \in Cleaners : cleaner[c].pc \in {"check", "claim", "delete", "mark"} =>
    cleaner[c].key = AssetJob \/ cleaner[c].key <= clock
ReadySpared == asset = "ready" => \A c \in Cleaners : cleaner[c].pc # "delete"

TimedInv ==
  AuthorizersTimely /\ FinalizersTimely /\ CommitsOutlived /\ CleanersLate /\ ReadySpared

RowAges == row'.expiresAt = row.expiresAt /\ (row.state = "deleted" => row'.state = "deleted")

LEMMA TimedFrames ==
  ASSUME TimedInv
  PROVE  /\ UNCHANGED <<authorizer, clock>> => AuthorizersTimely'
         /\ UNCHANGED <<finalizer, clock>> => FinalizersTimely'
         /\ UNCHANGED finalizer /\ RowAges => CommitsOutlived'
         /\ UNCHANGED <<cleaner, clock>> => CleanersLate'
         /\ UNCHANGED <<cleaner, asset>> => ReadySpared'
         /\ UNCHANGED row => RowAges
<1>1. UNCHANGED <<authorizer, clock>> => AuthorizersTimely'
  BY DEF TimedInv, AuthorizersTimely
<1>2. UNCHANGED <<finalizer, clock>> => FinalizersTimely'
  BY DEF TimedInv, FinalizersTimely
<1>3. UNCHANGED finalizer /\ RowAges => CommitsOutlived'
  BY DEF TimedInv, CommitsOutlived, RowAges
<1>4. UNCHANGED <<cleaner, clock>> => CleanersLate'
  BY DEF TimedInv, CleanersLate
<1>5. UNCHANGED <<cleaner, asset>> => ReadySpared'
  BY DEF TimedInv, ReadySpared
<1>6. UNCHANGED row => RowAges
  BY DEF RowAges
<1>. QED
  BY <1>1, <1>2, <1>3, <1>4, <1>5, <1>6

LEMMA Times ==
  ASSUME TypeOK
  PROVE  /\ clock \in Nat /\ row.expiresAt \in Nat
         /\ \A a \in Authorizers : authorizer[a].since \in Nat /\ authorizer[a].expiresAt \in Nat
         /\ \A f \in Finalizers : finalizer[f].since \in Nat
         /\ \A c \in Cleaners : cleaner[c].key \in Nat
  BY Parts, ActorParts DEF Keys

LEMMA AuthorizeTimed ==
  ASSUME TypeOK, TimedInv, 2 * MaxRunTime < GrantLife,
         NEW a \in Authorizers, BeginAuthorize(a) \/ Register(a)
  PROVE  TimedInv'
<1>1. CASE BeginAuthorize(a)
  <2>1. AuthorizersTimely'
    BY <1>1, BeginAuthorizeSets, Times DEF TimedInv, AuthorizersTimely, OthersA
  <2>. QED
    BY <1>1, <2>1, BeginAuthorizeSets, TimedFrames DEF TimedInv
<1>2. CASE Register(a)
  <2>0. UNCHANGED <<clock, asset, finalizer, cleaner>>
    BY <1>2, RegisterSets
  <2>1. AuthorizersTimely'
    BY <1>2, RegisterSets DEF TimedInv, AuthorizersTimely, OthersA
  <2>2. CommitsOutlived'
    <3>1. CASE UNCHANGED row
      BY <2>0, <3>1, TimedFrames
    <3>2. CASE row'.expiresAt = authorizer[a].expiresAt
      <4>1. authorizer[a].expiresAt = authorizer[a].since + GrantLife
            /\ clock <= authorizer[a].since + MaxRunTime
        BY <1>2 DEF Register, TimedInv, AuthorizersTimely
      <4>2. \A f \in Finalizers : finalizer[f].pc = "commit" => finalizer[f].since <= clock
        BY DEF TimedInv, FinalizersTimely
      <4>3. \A f \in Finalizers : finalizer[f].pc = "commit" =>
              row'.expiresAt > finalizer[f].since + MaxRunTime
        BY <3>2, <4>1, <4>2, Times
      <4>. QED
        BY <2>0, <4>3 DEF CommitsOutlived
    <3>. QED
      BY <1>2, <3>1, <3>2, RegisterSets
  <2>. QED
    BY <2>0, <2>1, <2>2, TimedFrames DEF TimedInv
<1>. QED
  BY <1>1, <1>2

LEMMA UploadTimed ==
  ASSUME TypeOK, FileInv, TimedInv, NEW u \in Uploaders,
         BeginUpload(u) \/ UploadStep(u) \/ FailUpload(u)
  PROVE  TimedInv'
<1>1. UNCHANGED <<clock, asset, authorizer, finalizer, cleaner>>
  BY BeginUploadSets, ClaimUploadSets, PutObjectSets, UploadEndSets DEF UploadStep
<1>2. RowAges
  <2>1. CASE row' = row
    BY <2>1, TimedFrames
  <2>2. ASSUME NEW s \in {"scanning", "uploaded", "pending"}, row.state # "deleted",
               row' = [row EXCEPT !.state = s]
        PROVE  RowAges
    BY <2>2, RowGoes DEF RowAges
  <2>3. CASE BeginUpload(u) \/ PutObject(u)
    BY <2>1, <2>3, BeginUploadSets, PutObjectSets
  <2>4. CASE ClaimUpload(u)
    BY <2>1, <2>2, <2>4, ClaimUploadSets DEF Holds
  <2>5. CASE ConfirmUpload(u) \/ FailUpload(u)
    BY <2>1, <2>2, <2>5, UploadEndSets DEF Holds
  <2>. QED
    BY <2>3, <2>4, <2>5 DEF UploadStep
<1>. QED
  BY <1>1, <1>2, TimedFrames DEF TimedInv

LEMMA FinalizeTimed ==
  ASSUME TypeOK, FileInv, TimedInv, NEW f \in Finalizers,
         FinalizeStep(f) \/ \E o \in {"ready", "rejected"} : BeginFinalize(f, o)
  PROVE  TimedInv'
<1>1. ASSUME NEW o \in {"ready", "rejected"}, BeginFinalize(f, o)
      PROVE  TimedInv'
  <2>0. /\ UNCHANGED <<clock, asset, row, authorizer, cleaner>> /\ OthersF(f)
        /\ finalizer'[f].since = clock /\ finalizer'[f].pc # "commit"
    BY <1>1, BeginFinalizeSets
  <2>1. FinalizersTimely'
    BY <2>0, Times DEF TimedInv, FinalizersTimely, OthersF
  <2>2. CommitsOutlived'
    BY <2>0 DEF TimedInv, CommitsOutlived, OthersF
  <2>. QED
    BY <2>0, <2>1, <2>2, TimedFrames DEF TimedInv
<1>2. CASE Verify(f)
  <2>0. /\ UNCHANGED <<clock, asset, row, authorizer, cleaner>> /\ OthersF(f)
        /\ finalizer'[f].pc # "commit"
        /\ \/ finalizer'[f].pc = "idle"
           \/ finalizer'[f].since = finalizer[f].since /\ finalizer[f].pc = "verify"
    BY <1>2, VerifySets
  <2>1. FinalizersTimely'
    BY <2>0 DEF TimedInv, FinalizersTimely, OthersF
  <2>2. CommitsOutlived'
    BY <2>0 DEF TimedInv, CommitsOutlived, OthersF
  <2>. QED
    BY <2>0, <2>1, <2>2, TimedFrames DEF TimedInv
<1>3. CASE Invalidate(f)
  <2>0. /\ UNCHANGED <<clock, asset, authorizer, cleaner>> /\ OthersF(f)
        /\ finalizer[f].pc = "invalidate"
    BY <1>3, InvalidateSets
  <2>1. CASE row' = row /\ finalizer'[f].pc = "idle"
    <3>1. FinalizersTimely' /\ CommitsOutlived'
      BY <2>0, <2>1 DEF TimedInv, FinalizersTimely, CommitsOutlived, OthersF
    <3>. QED
      BY <2>0, <3>1, TimedFrames DEF TimedInv
  <2>2. CASE row' = [row EXCEPT !.state = "deleted"] /\ finalizer'[f].since = finalizer[f].since
    <3>1. FinalizersTimely'
      BY <2>0, <2>2 DEF TimedInv, FinalizersTimely, OthersF
    <3>2. CommitsOutlived'
      BY <2>2, RowGoes DEF CommitsOutlived
    <3>. QED
      BY <2>0, <3>1, <3>2, TimedFrames DEF TimedInv
  <2>. QED
    BY <1>3, <2>1, <2>2, InvalidateSets
<1>4. CASE Commit(f)
  <2>0. /\ UNCHANGED <<clock, row, authorizer, cleaner>> /\ OthersF(f)
        /\ finalizer[f].pc = "commit" /\ finalizer'[f].pc = "idle"
        /\ asset' = asset \/ asset = "pending_upload"
    BY <1>4, CommitSets
  <2>1. FinalizersTimely' /\ CommitsOutlived'
    BY <2>0 DEF TimedInv, FinalizersTimely, CommitsOutlived, OthersF
  <2>2. ReadySpared'
    <3>1. CASE asset' = asset
      BY <2>0, <3>1, TimedFrames
    <3>2. ASSUME asset = "pending_upload", NEW c \in Cleaners, cleaner[c].pc = "delete"
          PROVE  FALSE
      <4>1. /\ row.state = "quarantined" /\ row.expiresAt = cleaner[c].key
            /\ cleaner[c].key # AssetJob
        BY <3>2 DEF FileInv, CleanersHold, Removes
      <4>2. row.expiresAt <= clock
        BY <3>2, <4>1 DEF TimedInv, CleanersLate
      <4>3. row.expiresAt > finalizer[f].since + MaxRunTime
            /\ clock <= finalizer[f].since + MaxRunTime
        BY <2>0, <4>1 DEF TimedInv, CommitsOutlived, FinalizersTimely
      <4>. QED
        BY <4>2, <4>3, Times
    <3>. QED
      BY <2>0, <3>1, <3>2 DEF ReadySpared
  <2>. QED
    BY <2>0, <2>1, <2>2, TimedFrames DEF TimedInv
<1>. QED
  BY <1>1, <1>2, <1>3, <1>4 DEF FinalizeStep

LEMMA CleanTimed ==
  ASSUME TypeOK, FileInv, TimedInv, NEW c \in Cleaners,
         CleanStep(c) \/ FailCleanup(c) \/ \E k \in Keys : Take(c, k)
  PROVE  TimedInv'
<1>1. UNCHANGED <<clock, asset, authorizer, finalizer>> /\ OthersC(c)
  BY TakeSets, ReadAuthoritySets, CheckReferenceSets, QuarantineSets, DeleteObjectSets,
     MarkDeletedSets, CleanEndSets DEF CleanStep
<1>2. ASSUME RowAges, cleaner'[c].pc = "delete" => asset # "ready",
             \/ cleaner'[c].pc \in {"idle", "read", "settle"}
             \/ cleaner'[c].key = AssetJob \/ cleaner'[c].key <= clock
      PROVE  TimedInv'
  <2>1. CleanersLate'
    BY <1>1, <1>2 DEF TimedInv, CleanersLate, OthersC
  <2>2. ReadySpared'
    BY <1>1, <1>2 DEF TimedInv, ReadySpared, OthersC
  <2>. QED
    BY <1>1, <1>2, <2>1, <2>2, TimedFrames DEF TimedInv
<1>3. \/ cleaner[c].pc \notin {"check", "claim", "delete", "mark"}
      \/ cleaner[c].key = AssetJob \/ cleaner[c].key <= clock
  BY DEF TimedInv, CleanersLate
<1>4. CASE Settle(c) \/ FailCleanup(c) \/ \E k \in Keys : Take(c, k)
  BY <1>2, <1>4, CleanEndSets, TakeSets, TimedFrames
<1>5. CASE ReadAuthority(c)
  BY <1>2, <1>5, ReadAuthoritySets, TimedFrames DEF Expired
<1>6. CASE CheckReference(c)
  BY <1>2, <1>3, <1>6, CheckReferenceSets, TimedFrames
<1>7. CASE Quarantine(c)
  <2>1. RowAges
    BY <1>7, QuarantineSets, RowGoes, TimedFrames DEF RowAges, Quarantinable
  <2>2. cleaner'[c].pc = "delete" => asset # "ready"
    BY <1>7, QuarantineSets DEF Quarantinable, ReadyReference
  <2>. QED
    BY <1>2, <1>3, <1>7, <2>1, <2>2, QuarantineSets
<1>8. CASE DeleteObject(c)
  BY <1>2, <1>3, <1>8, DeleteObjectSets, TimedFrames
<1>9. CASE MarkDeleted(c)
  <2>1. RowAges
    BY <1>9, MarkDeletedSets DEF RowAges
  <2>. QED
    BY <1>2, <1>9, <2>1, MarkDeletedSets
<1>. QED
  BY <1>4, <1>5, <1>6, <1>7, <1>8, <1>9 DEF CleanStep

LEMMA OthersTimed ==
  ASSUME TypeOK, TimedInv,
         ArmExpired \/ (\E k \in Keys : Publish(k)) \/ LoseRequest \/ Tick \/ UNCHANGED vars
  PROVE  TimedInv'
<1>1. CASE ArmExpired \/ \E k \in Keys : Publish(k)
  BY <1>1, JobStepSets, TimedFrames DEF TimedInv
<1>2. CASE LoseRequest
  <2>0. UNCHANGED <<clock, asset, row, cleaner>>
    BY <1>2, LoseRequestSets
  <2>1. ASSUME NEW a \in Authorizers, OthersA(a), authorizer'[a].pc = "idle", finalizer' = finalizer
        PROVE  TimedInv'
    <3>1. AuthorizersTimely'
      BY <2>0, <2>1 DEF TimedInv, AuthorizersTimely, OthersA
    <3>. QED
      BY <2>0, <2>1, <3>1, TimedFrames DEF TimedInv
  <2>2. CASE UNCHANGED <<authorizer, finalizer>>
    BY <2>0, <2>2, TimedFrames DEF TimedInv
  <2>3. ASSUME NEW f \in Finalizers, OthersF(f), finalizer'[f].pc = "idle", authorizer' = authorizer
        PROVE  TimedInv'
    <3>1. FinalizersTimely' /\ CommitsOutlived'
      BY <2>0, <2>3 DEF TimedInv, FinalizersTimely, CommitsOutlived, OthersF
    <3>. QED
      BY <2>0, <2>3, <3>1, TimedFrames DEF TimedInv
  <2>. QED
    BY <1>2, <2>1, <2>2, <2>3, LoseRequestSets
<1>3. CASE Tick
  <2>0. /\ clock' = clock + 1 /\ UNCHANGED <<asset, row, authorizer, finalizer, cleaner>>
        /\ \A a \in Authorizers : InTime(authorizer[a])
        /\ \A f \in Finalizers : InTime(finalizer[f])
    BY <1>3, TickSets
  <2>1. AuthorizersTimely'
    BY <2>0, Times DEF TimedInv, AuthorizersTimely, InTime
  <2>2. FinalizersTimely'
    BY <2>0, Times DEF TimedInv, FinalizersTimely, InTime
  <2>3. CleanersLate'
    BY <2>0, Times DEF TimedInv, CleanersLate
  <2>. QED
    BY <2>0, <2>1, <2>2, <2>3, TimedFrames DEF TimedInv
<1>4. CASE UNCHANGED vars
  <2>1. UNCHANGED <<clock, asset, row, authorizer, finalizer, cleaner>>
    BY <1>4 DEF vars
  <2>. QED
    BY <2>1, TimedFrames DEF TimedInv
<1>. QED
  BY <1>1, <1>2, <1>3, <1>4

LEMMA NextTimed ==
  ASSUME 2 * MaxRunTime < GrantLife, TypeOK, FileInv, TimedInv, [Next]_vars
  PROVE  TimedInv'
  BY AuthorizeTimed, UploadTimed, FinalizeTimed, CleanTimed, OthersTimed DEF Next

LEMMA InitTimed == Init => TimedInv
  BY IdleParts DEF Init, TimedInv, AuthorizersTimely, FinalizersTimely, CommitsOutlived,
                   CleanersLate, ReadySpared

(* The object of a ready asset is never removed by a cleanup job, whichever  *)
(* capability the job was armed for and whenever it is delivered again, as   *)
(* long as an authorization and a finalization take less than half of the    *)
(* lifetime of a capability each (uploadGrantLifetimeMs).  No use is made of *)
(* what bounds the time of a PUT or of a delivery.                           *)
THEOREM ReadyStays ==
  ASSUME 2 * MaxRunTime < GrantLife
  PROVE  Spec => ReadyIsNotRemoved
<1>. DEFINE Spared == asset = "ready" /\ object # NoObject => object' # NoObject
            I == TypeOK /\ FileInv /\ TimedInv
<1>1. I /\ [Next]_vars => Spared
  <2>. SUFFICES ASSUME I, [Next]_vars, asset = "ready", object # NoObject
                PROVE  object' # NoObject
    OBVIOUS
  <2>1. CASE UNCHANGED object
    BY <2>1
  <2>2. ASSUME NEW u \in Uploaders, PutObject(u) PROVE object' # NoObject
    <3>1. uploader[u].grant > 0 /\ object' = uploader[u].grant
      BY <2>2, PutObjectSets DEF FileInv, UploadersCounted
    <3>. QED
      BY <3>1 DEF NoObject
  <2>3. ASSUME NEW c \in Cleaners, DeleteObject(c) PROVE FALSE
    BY <2>3, DeleteObjectSets DEF TimedInv, ReadySpared
  <2>4. ASSUME NEW a \in Authorizers, BeginAuthorize(a) \/ Register(a) PROVE object' = object
    BY <2>4, BeginAuthorizeSets, RegisterSets
  <2>5. ASSUME NEW u \in Uploaders,
               BeginUpload(u) \/ ClaimUpload(u) \/ ConfirmUpload(u) \/ FailUpload(u)
        PROVE  object' = object
    BY <2>5, BeginUploadSets, ClaimUploadSets, UploadEndSets
  <2>6. ASSUME NEW f \in Finalizers,
               FinalizeStep(f) \/ \E o \in {"ready", "rejected"} : BeginFinalize(f, o)
        PROVE  object' = object
    BY <2>6, BeginFinalizeSets, VerifySets, InvalidateSets, CommitSets DEF FinalizeStep
  <2>7. CASE ArmExpired \/ (\E k \in Keys : Publish(k)) \/ LoseRequest \/ Tick \/ UNCHANGED vars
    BY <2>1, <2>7, JobStepSets, LoseRequestSets, TickSets DEF vars
  <2>8. ASSUME NEW c \in Cleaners,
               \/ ReadAuthority(c) \/ CheckReference(c) \/ Quarantine(c) \/ MarkDeleted(c)
               \/ Settle(c) \/ FailCleanup(c) \/ \E k \in Keys : Take(c, k)
        PROVE  object' = object
    BY <2>8, ReadAuthoritySets, CheckReferenceSets, QuarantineSets, MarkDeletedSets, CleanEndSets,
       TakeSets
  <2>. QED
    BY <2>1, <2>2, <2>3, <2>4, <2>5, <2>6, <2>7, <2>8 DEF Next, UploadStep, CleanStep
<1>2. I /\ [Next]_vars => I'
  BY NextFits, NextTimed
<1>3. Init => I
  BY InitFits, InitTimed
<1>4. I /\ [Next]_vars => [Spared]_vars
  BY <1>1
<1>. HIDE DEF I, Spared
<1>5. Spec => [][Spared]_vars
  BY <1>2, <1>3, <1>4, PTL DEF Spec
<1>. QED
  BY <1>5 DEF ReadyIsNotRemoved, Spared
=============================================================================
