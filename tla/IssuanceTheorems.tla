--------------------------- MODULE IssuanceTheorems ---------------------------
(***************************************************************************)
(* The storage protocol keeps its promises for every number of objects and *)
(* workers, and whatever uploads and removals outlive their deadlines.     *)
(* Issuing implements the protocol's requests, so all of that holds of it; *)
(* and with the protocol's invariant an issuance is always served as       *)
(* issued, once per edition, audited, and what the requests answered stays *)
(* true - for any number of requests, replicas, editions and sweepers.     *)
(***************************************************************************)
EXTENDS ReportIssuance, TLAPS

-----------------------------------------------------------------------------
(* The inductive invariant.                                                *)

Claimed(o) == \E w \in Tidiers : claim[w].object = o

(* An upload intent has no row and no claim, and a tx its bytes.           *)
UploadIntent(o) ==
    Uploading(o) =>
        /\ row[o] = "none"
        /\ ~Claimed(o)
        /\ stage[o] # "none"
        /\ stage[o] \in {"answered", "open"} => bytes[o]

(* A row that owns the bytes excludes every claim on them.                 *)
OwnedRow(o) == row[o] = "owned" => bytes[o] /\ ~HasIntent(o) /\ ~Claimed(o)

(* Only the adopting transaction makes a row, while the intent is an       *)
(* upload; an upload that is not slow has its intent until then.           *)
UploadingRequest(o) ==
    /\ stage[o] \in {"none", "sending"} => ~bytes[o]
    /\ stage[o] = "none" => row[o] = "none" /\ ~HasIntent(o) /\ ~Claimed(o)
    /\ stage[o] = "open" => Uploading(o)
    /\ stage[o] \in {"sending", "answered", "refused", "open", "expired", "unopened"} =>
         row[o] = "none"
    /\ stage[o] \in {"sending", "answered", "refused", "unopened"} =>
         Uploading(o) \/ o \in SlowUploads
    /\ stage[o] = "expired" => ~Uploading(o) /\ o \in SlowUploads

(* Bytes that may have landed after a removal: their request is alive and  *)
(* has yet to abandon them, or was slow and could not name them any more.  *)
LateBytes(o) ==
    \/ stage[o] \in {"answered", "refused", "expired"}
    \/ stage[o] \in {"unopened", "crashed", "lapsed"} /\ o \in SlowUploads

(* No claim meets an owned object, and a claim that closes its intent has  *)
(* removed the bytes, but for late ones.                                   *)
Removal(w) ==
    /\ claim[w].phase # "kept"
    /\ claim[w].phase = "removed" /\ UnderLease(w) =>
         ~bytes[claim[w].object] \/ LateBytes(claim[w].object)

StorageInv ==
    /\ StorageTypeOK
    /\ OrphansNamed
    /\ \A o \in Objects : UploadIntent(o) /\ OwnedRow(o) /\ UploadingRequest(o)
    /\ \A w \in Tidiers : Removal(w)

-----------------------------------------------------------------------------
(* The shapes of an intent and of a claim, and what writes them.           *)

(* Only a delete intent is ever leased.                                    *)
LEMMA IntentShape ==
  ASSUME StorageTypeOK, NEW o \in Objects
  PROVE  /\ intent[o].kind \in {"none", "upload", "delete"}
         /\ Uploading(o) => intent[o] = Unleased("upload")
         /\ Deleting(o) => /\ intent[o].lease \in Tidiers \cup {None}
                           /\ intent[o].expired \in BOOLEAN
         /\ ~Deleting(o) => intent[o].lease = None
<1>1. intent[o] \in Intents
  BY DEF StorageTypeOK
<1>2. CASE \E k \in {"none", "upload"} : intent[o] = Unleased(k)
  <2>1. PICK k \in {"none", "upload"} : intent[o] = Unleased(k)
    BY <1>2
  <2>2. intent[o].kind = k /\ intent[o].lease = None
    BY <2>1 DEF Unleased
  <2>. QED  BY <2>1, <2>2 DEF Uploading, Deleting
<1>3. CASE intent[o] \in [kind: {"delete"}, lease: Tidiers \cup {None}, expired: BOOLEAN]
  BY <1>3 DEF Uploading, Deleting
<1>. QED  BY <1>1, <1>2, <1>3 DEF Intents, NoIntent

(* An idle worker has no object.                                           *)
LEMMA ClaimShape ==
  ASSUME StorageTypeOK, NEW w \in Tidiers
  PROVE  /\ claim[w] = NoClaim \/ claim[w] \in [object: Objects, id: Nat, phase: Phases]
         /\ claim[w] # NoClaim => claim[w].object \in Objects
         /\ claim[w].phase \in Phases => claim[w] # NoClaim
         /\ claim[w] = NoClaim => claim[w].phase = "idle"
  BY DEF StorageTypeOK, NoClaim, Phases

LEMMA InsertTypes ==
  ASSUME StorageTypeOK, NEW o \in Objects, NEW k \in {"upload", "delete"}, InsertIntent(o, k)
  PROVE  /\ intent' \in [Objects -> Intents] /\ minted' \in [Objects -> Nat]
         /\ intent'[o] = Unleased(k)
         /\ \A x \in Objects \ {o} : intent'[x] = intent[x] /\ minted'[x] = minted[x]
<1>1. Unleased(k) \in Intents
  BY DEF Intents, Unleased
<1>. QED  BY <1>1 DEF InsertIntent, StorageTypeOK

LEMMA TurnTypes ==
  ASSUME StorageTypeOK, NEW o \in Objects, Uploading(o), TurnIntoDelete(o)
  PROVE  /\ intent' \in [Objects -> Intents] /\ minted' = minted
         /\ intent'[o] = Unleased("delete")
         /\ \A x \in Objects \ {o} : intent'[x] = intent[x]
<1>1. intent[o] = Unleased("upload")
  BY IntentShape
<1>2. intent[o].lease = None /\ intent[o].expired = FALSE
  BY <1>1 DEF Unleased
<1>3. Unleased("delete") \in Intents
  BY DEF Intents, Unleased
<1>. QED  BY <1>2, <1>3 DEF StorageTypeOK, TurnIntoDelete, Unleased

LEMMA LeaseTypes ==
  ASSUME StorageTypeOK, NEW o \in Objects, NEW l \in Tidiers \cup {None}, Lease(o, l),
         Deleting(o) \/ (HasIntent(o) /\ ~Uploading(o))
  PROVE  /\ intent' \in [Objects -> Intents]
         /\ intent'[o] = [kind |-> "delete", lease |-> l, expired |-> FALSE]
         /\ \A x \in Objects \ {o} : intent'[x] = intent[x]
<1>1. intent[o].kind = "delete"
  BY IntentShape DEF Deleting, Uploading, HasIntent
<1>2. [kind |-> "delete", lease |-> l, expired |-> FALSE] \in Intents
  BY DEF Intents
<1>. QED  BY <1>1, <1>2 DEF Lease, StorageTypeOK

LEMMA EnqueueTypes ==
  ASSUME StorageTypeOK, NEW o \in Objects, ~Uploading(o), EnqueueDelete(o)
  PROVE  /\ intent' \in [Objects -> Intents] /\ minted' \in [Objects -> Nat]
         /\ intent'[o] = Unleased("delete")
         /\ \A x \in Objects \ {o} : intent'[x] = intent[x] /\ minted'[x] = minted[x]
<1>1. CASE InsertIntent(o, "delete")
  BY <1>1, InsertTypes
<1>2. CASE Deleting(o) /\ Lease(o, None) /\ UNCHANGED minted
  BY <1>2, LeaseTypes DEF Unleased, StorageTypeOK
<1>. QED  BY <1>1, <1>2 DEF EnqueueDelete

-----------------------------------------------------------------------------
(* The initial state and every action keep the invariant.                  *)

(* Names of kinds and claims, expanded everywhere from here on.             *)
USE DEF Claimed, Uploading, Deleting, HasIntent, Unleased, NoIntent, Phases, Alive, Reaches, Works

LEMMA InitHolds == StorageInit => StorageInv
<1>. SUFFICES ASSUME StorageInit PROVE StorageInv
  OBVIOUS
<1>1. StorageTypeOK
  BY DEF StorageInit, StorageTypeOK, Stages, Intents
<1>2. \A o \in Objects : ~Uploading(o) /\ ~HasIntent(o) /\ ~bytes[o]
  BY DEF StorageInit, Uploading, HasIntent, NoIntent, Unleased
<1>3. \A o \in Objects : row[o] = "none" /\ stage[o] = "none"
  BY DEF StorageInit
<1>4. \A w \in Tidiers : claim[w].object \notin Objects /\ claim[w].phase = "idle"
  BY StorageAssumption DEF StorageInit, NoClaim
<1>. QED
  BY <1>1, <1>2, <1>3, <1>4
  DEF StorageInv, OrphansNamed, UploadIntent, OwnedRow, UploadingRequest, Removal, Claimed

LEMMA BeginUploadKeeps ==
  ASSUME StorageInv, NEW o \in Objects, BeginUpload(o)
  PROVE  StorageInv'
<1>w. \A v \in Tidiers : /\ claim[v].phase \in Phases => claim[v].object \in Objects
                         /\ claim[v].phase \notin Phases => claim[v].object \notin Objects
  BY ClaimShape, StorageAssumption DEF StorageInv, NoClaim, Phases
<1>1. /\ intent' \in [Objects -> Intents] /\ minted' \in [Objects -> Nat]
      /\ intent'[o] = Unleased("upload")
      /\ \A x \in Objects \ {o} : intent'[x] = intent[x] /\ minted'[x] = minted[x]
  BY InsertTypes DEF BeginUpload, StorageInv
<1>2. StorageTypeOK'
  BY <1>1 DEF BeginUpload, StorageInv, StorageTypeOK, Stages, Phases, Reaches
<1>3. OrphansNamed'
  BY <1>1, <1>w DEF BeginUpload, StorageInv, OrphansNamed, UploadingRequest
<1>4. ASSUME NEW x \in Objects
      PROVE  UploadIntent(x)' /\ OwnedRow(x)' /\ UploadingRequest(x)'
  BY <1>1, <1>w
  DEF BeginUpload, StorageInv, StorageTypeOK, UploadIntent, OwnedRow, UploadingRequest
<1>5. ASSUME NEW v \in Tidiers
      PROVE  Removal(v)'
  BY <1>1, <1>w
  DEF BeginUpload, StorageInv, StorageTypeOK, UploadIntent, UploadingRequest, Removal,
      LateBytes, UnderLease, StillThere
<1>. QED  BY <1>2, <1>3, <1>4, <1>5 DEF StorageInv

LEMMA LandKeeps ==
  ASSUME StorageInv, NEW o \in Objects, Land(o)
  PROVE  StorageInv'
<1>w. \A v \in Tidiers : /\ claim[v].phase \in Phases => claim[v].object \in Objects
                         /\ claim[v].phase \notin Phases => claim[v].object \notin Objects
  BY ClaimShape, StorageAssumption DEF StorageInv, NoClaim, Phases
<1>1. UNCHANGED <<intent, minted>>
  BY DEF Land
<1>2. StorageTypeOK'
  BY <1>1 DEF Land, StorageInv, StorageTypeOK, Stages, Phases, Reaches
<1>3. OrphansNamed'
  BY <1>1, <1>w
  DEF Land, StorageInv, OrphansNamed, UploadingRequest, StorageTypeOK, UploadIntent,
      OwnedRow
<1>4. ASSUME NEW x \in Objects
      PROVE  UploadIntent(x)' /\ OwnedRow(x)' /\ UploadingRequest(x)'
  BY <1>1, <1>w
  DEF Land, StorageInv, StorageTypeOK, UploadIntent, OwnedRow, UploadingRequest
<1>5. ASSUME NEW v \in Tidiers
      PROVE  Removal(v)'
  BY <1>1, <1>w
  DEF Land, StorageInv, StorageTypeOK, UploadIntent, UploadingRequest, Removal,
      LateBytes, UnderLease, StillThere
<1>. QED  BY <1>2, <1>3, <1>4, <1>5 DEF StorageInv

LEMMA UploadFailsKeeps ==
  ASSUME StorageInv, NEW o \in Objects, UploadFails(o)
  PROVE  StorageInv'
<1>w. \A v \in Tidiers : /\ claim[v].phase \in Phases => claim[v].object \in Objects
                         /\ claim[v].phase \notin Phases => claim[v].object \notin Objects
  BY ClaimShape, StorageAssumption DEF StorageInv, NoClaim, Phases
<1>1. UNCHANGED <<intent, minted>>
  BY DEF UploadFails
<1>2. StorageTypeOK'
  BY <1>1 DEF UploadFails, StorageInv, StorageTypeOK, Stages, Phases, Reaches
<1>3. OrphansNamed'
  BY <1>1, <1>w DEF UploadFails, StorageInv, OrphansNamed, UploadingRequest
<1>4. ASSUME NEW x \in Objects
      PROVE  UploadIntent(x)' /\ OwnedRow(x)' /\ UploadingRequest(x)'
  BY <1>1, <1>w
  DEF UploadFails, StorageInv, StorageTypeOK, UploadIntent, OwnedRow, UploadingRequest
<1>5. ASSUME NEW v \in Tidiers
      PROVE  Removal(v)'
  BY <1>1, <1>w
  DEF UploadFails, StorageInv, StorageTypeOK, UploadIntent, UploadingRequest, Removal,
      LateBytes, UnderLease, StillThere
<1>. QED  BY <1>2, <1>3, <1>4, <1>5 DEF StorageInv

LEMMA AdoptUploadKeeps ==
  ASSUME StorageInv, NEW o \in Objects, AdoptUpload(o)
  PROVE  StorageInv'
<1>w. \A v \in Tidiers : /\ claim[v].phase \in Phases => claim[v].object \in Objects
                         /\ claim[v].phase \notin Phases => claim[v].object \notin Objects
  BY ClaimShape, StorageAssumption DEF StorageInv, NoClaim, Phases
<1>1. UNCHANGED <<intent, minted>>
  BY DEF AdoptUpload
<1>2. StorageTypeOK'
  BY <1>1 DEF AdoptUpload, StorageInv, StorageTypeOK, Stages, Phases, Reaches
<1>3. OrphansNamed'
  BY <1>1, <1>w
  DEF AdoptUpload, StorageInv, OrphansNamed, UploadingRequest, StorageTypeOK,
      UploadIntent, Adoptable
<1>4. ASSUME NEW x \in Objects
      PROVE  UploadIntent(x)' /\ OwnedRow(x)' /\ UploadingRequest(x)'
  BY <1>1, <1>w
  DEF AdoptUpload, StorageInv, StorageTypeOK, UploadIntent, OwnedRow, UploadingRequest,
      Adoptable
<1>5. ASSUME NEW v \in Tidiers
      PROVE  Removal(v)'
  BY <1>1, <1>w
  DEF AdoptUpload, StorageInv, StorageTypeOK, UploadIntent, UploadingRequest, Removal,
      LateBytes, UnderLease, StillThere, Adoptable
<1>. QED  BY <1>2, <1>3, <1>4, <1>5 DEF StorageInv

LEMMA RollbackKeeps ==
  ASSUME StorageInv, NEW o \in Objects, Rollback(o)
  PROVE  StorageInv'
<1>w. \A v \in Tidiers : /\ claim[v].phase \in Phases => claim[v].object \in Objects
                         /\ claim[v].phase \notin Phases => claim[v].object \notin Objects
  BY ClaimShape, StorageAssumption DEF StorageInv, NoClaim, Phases
<1>1. UNCHANGED <<intent, minted>>
  BY DEF Rollback
<1>2. StorageTypeOK'
  BY <1>1 DEF Rollback, StorageInv, StorageTypeOK, Stages, Phases, Reaches
<1>3. OrphansNamed'
  BY <1>1, <1>w DEF Rollback, StorageInv, OrphansNamed, UploadingRequest
<1>4. ASSUME NEW x \in Objects
      PROVE  UploadIntent(x)' /\ OwnedRow(x)' /\ UploadingRequest(x)'
  BY <1>1, <1>w
  DEF Rollback, StorageInv, StorageTypeOK, UploadIntent, OwnedRow, UploadingRequest
<1>5. ASSUME NEW v \in Tidiers
      PROVE  Removal(v)'
  BY <1>1, <1>w
  DEF Rollback, StorageInv, StorageTypeOK, UploadIntent, UploadingRequest, Removal,
      LateBytes, UnderLease, StillThere
<1>. QED  BY <1>2, <1>3, <1>4, <1>5 DEF StorageInv

LEMMA CrashKeeps ==
  ASSUME StorageInv, NEW o \in Objects, Crash(o)
  PROVE  StorageInv'
<1>w. \A v \in Tidiers : /\ claim[v].phase \in Phases => claim[v].object \in Objects
                         /\ claim[v].phase \notin Phases => claim[v].object \notin Objects
  BY ClaimShape, StorageAssumption DEF StorageInv, NoClaim, Phases
<1>1. UNCHANGED <<intent, minted>>
  BY DEF Crash
<1>2. StorageTypeOK'
  BY <1>1 DEF Crash, StorageInv, StorageTypeOK, Stages, Phases, Reaches
<1>3. OrphansNamed'
  BY <1>1, <1>w DEF Crash, StorageInv, OrphansNamed, UploadingRequest
<1>4. ASSUME NEW x \in Objects
      PROVE  UploadIntent(x)' /\ OwnedRow(x)' /\ UploadingRequest(x)'
  BY <1>1, <1>w
  DEF Crash, StorageInv, StorageTypeOK, UploadIntent, OwnedRow, UploadingRequest
<1>5. ASSUME NEW v \in Tidiers
      PROVE  Removal(v)'
  BY <1>1, <1>w
  DEF Crash, StorageInv, StorageTypeOK, UploadIntent, UploadingRequest, Removal,
      LateBytes, UnderLease, StillThere
<1>. QED  BY <1>2, <1>3, <1>4, <1>5 DEF StorageInv

LEMMA CommitKeeps ==
  ASSUME StorageInv, NEW o \in Objects, CommitRow(o)
  PROVE  StorageInv'
<1>w. \A v \in Tidiers : /\ claim[v].phase \in Phases => claim[v].object \in Objects
                         /\ claim[v].phase \notin Phases => claim[v].object \notin Objects
  BY ClaimShape, StorageAssumption DEF StorageInv, NoClaim, Phases
<1>1. /\ intent' \in [Objects -> Intents] /\ minted' = minted
      /\ intent'[o] = NoIntent
      /\ \A x \in Objects \ {o} : intent'[x] = intent[x]
  BY DEF CommitRow, StorageInv, StorageTypeOK, Intents
<1>2. StorageTypeOK'
  BY <1>1 DEF CommitRow, StorageInv, StorageTypeOK, Stages, Phases, Reaches
<1>3. OrphansNamed'
  BY <1>1, <1>w
  DEF CommitRow, StorageInv, OrphansNamed, UploadingRequest, StorageTypeOK, OwnedRow
<1>4. ASSUME NEW x \in Objects
      PROVE  UploadIntent(x)' /\ OwnedRow(x)' /\ UploadingRequest(x)'
  BY <1>1, <1>w
  DEF CommitRow, StorageInv, StorageTypeOK, UploadIntent, OwnedRow, UploadingRequest
<1>5. ASSUME NEW v \in Tidiers
      PROVE  Removal(v)'
  BY <1>1, <1>w
  DEF CommitRow, StorageInv, StorageTypeOK, UploadIntent, UploadingRequest, Removal,
      LateBytes, UnderLease, StillThere
<1>. QED  BY <1>2, <1>3, <1>4, <1>5 DEF StorageInv

LEMMA AbandonUploadKeeps ==
  ASSUME StorageInv, NEW o \in Objects, AbandonUpload(o)
  PROVE  StorageInv'
<1>w. \A v \in Tidiers : /\ claim[v].phase \in Phases => claim[v].object \in Objects
                         /\ claim[v].phase \notin Phases => claim[v].object \notin Objects
  BY ClaimShape, StorageAssumption DEF StorageInv, NoClaim, Phases
<1>1. /\ intent' \in [Objects -> Intents] /\ minted' = minted
      /\ intent'[o] = IF Uploading(o) THEN Unleased("delete") ELSE intent[o]
      /\ \A x \in Objects \ {o} : intent'[x] = intent[x]
  BY TurnTypes DEF AbandonUpload, StorageInv, StorageTypeOK
<1>2. StorageTypeOK'
  BY <1>1 DEF AbandonUpload, StorageInv, StorageTypeOK, Stages, Phases, Reaches
<1>3. OrphansNamed'
  BY <1>1, <1>w DEF AbandonUpload, StorageInv, StorageTypeOK, OrphansNamed, UploadingRequest
<1>4. ASSUME NEW x \in Objects
      PROVE  UploadIntent(x)' /\ OwnedRow(x)' /\ UploadingRequest(x)'
  BY <1>1, <1>w
  DEF AbandonUpload, StorageInv, StorageTypeOK, UploadIntent, OwnedRow,
      UploadingRequest
<1>5. ASSUME NEW v \in Tidiers
      PROVE  Removal(v)'
  BY <1>1, <1>w, StorageAssumption
  DEF AbandonUpload, StorageInv, StorageTypeOK, UploadIntent, UploadingRequest,
      Removal, LateBytes, UnderLease, StillThere
<1>. QED  BY <1>2, <1>3, <1>4, <1>5 DEF StorageInv

LEMMA AbandonUnownedKeeps ==
  ASSUME StorageInv, NEW o \in Objects, AbandonUnowned(o)
  PROVE  StorageInv'
<1>w. \A v \in Tidiers : /\ claim[v].phase \in Phases => claim[v].object \in Objects
                         /\ claim[v].phase \notin Phases => claim[v].object \notin Objects
  BY ClaimShape, StorageAssumption DEF StorageInv, NoClaim, Phases
<1>1. /\ intent' \in [Objects -> Intents] /\ minted' \in [Objects -> Nat]
      /\ intent'[o] = Unleased("delete")
      /\ \A x \in Objects \ {o} : intent'[x] = intent[x] /\ minted'[x] = minted[x]
  BY TurnTypes, EnqueueTypes DEF AbandonUnowned, StorageInv, StorageTypeOK
<1>2. StorageTypeOK'
  BY <1>1 DEF AbandonUnowned, StorageInv, StorageTypeOK, Stages, Phases, Reaches
<1>3. OrphansNamed'
  BY <1>1, <1>w DEF AbandonUnowned, StorageInv, OrphansNamed, UploadingRequest
<1>4. ASSUME NEW x \in Objects
      PROVE  UploadIntent(x)' /\ OwnedRow(x)' /\ UploadingRequest(x)'
  BY <1>1, <1>w
  DEF AbandonUnowned, StorageInv, StorageTypeOK, UploadIntent, OwnedRow,
      UploadingRequest
<1>5. ASSUME NEW v \in Tidiers
      PROVE  Removal(v)'
  BY <1>1, <1>w, StorageAssumption
  DEF AbandonUnowned, StorageInv, StorageTypeOK, UploadIntent, UploadingRequest,
      Removal, LateBytes, UnderLease, StillThere
<1>. QED  BY <1>2, <1>3, <1>4, <1>5 DEF StorageInv

LEMMA DeleteRowKeeps ==
  ASSUME StorageInv, NEW o \in Objects, DeleteRow(o)
  PROVE  StorageInv'
<1>w. \A v \in Tidiers : /\ claim[v].phase \in Phases => claim[v].object \in Objects
                         /\ claim[v].phase \notin Phases => claim[v].object \notin Objects
  BY ClaimShape, StorageAssumption DEF StorageInv, NoClaim, Phases
<1>1. /\ intent' \in [Objects -> Intents] /\ minted' \in [Objects -> Nat]
      /\ intent'[o] = Unleased("delete")
      /\ \A x \in Objects \ {o} : intent'[x] = intent[x] /\ minted'[x] = minted[x]
  BY EnqueueTypes DEF DeleteRow, StorageInv, UploadIntent
<1>2. StorageTypeOK'
  BY <1>1 DEF DeleteRow, StorageInv, StorageTypeOK, Stages, Phases, Reaches
<1>3. OrphansNamed'
  BY <1>1, <1>w DEF DeleteRow, StorageInv, OrphansNamed, UploadingRequest
<1>4. ASSUME NEW x \in Objects
      PROVE  UploadIntent(x)' /\ OwnedRow(x)' /\ UploadingRequest(x)'
  BY <1>1, <1>w
  DEF DeleteRow, StorageInv, StorageTypeOK, UploadIntent, OwnedRow, UploadingRequest
<1>5. ASSUME NEW v \in Tidiers
      PROVE  Removal(v)'
  BY <1>1, <1>w, StorageAssumption
  DEF DeleteRow, StorageInv, StorageTypeOK, UploadIntent, UploadingRequest, Removal,
      LateBytes, UnderLease, StillThere
<1>. QED  BY <1>2, <1>3, <1>4, <1>5 DEF StorageInv

LEMMA ReclaimKeeps ==
  ASSUME StorageInv, NEW o \in Objects, Reclaim(o)
  PROVE  StorageInv'
<1>w. \A v \in Tidiers : /\ claim[v].phase \in Phases => claim[v].object \in Objects
                         /\ claim[v].phase \notin Phases => claim[v].object \notin Objects
  BY ClaimShape, StorageAssumption DEF StorageInv, NoClaim, Phases
<1>1. /\ intent' \in [Objects -> Intents] /\ minted' \in [Objects -> Nat]
      /\ intent'[o] = Unleased("delete")
      /\ \A x \in Objects \ {o} : intent'[x] = intent[x] /\ minted'[x] = minted[x]
  BY EnqueueTypes DEF Reclaim, StorageInv, Uploading, HasIntent
<1>2. StorageTypeOK'
  BY <1>1 DEF Reclaim, StorageInv, StorageTypeOK, Stages, Phases, Reaches
<1>3. OrphansNamed'
  BY <1>1, <1>w DEF Reclaim, StorageInv, OrphansNamed, UploadingRequest
<1>4. ASSUME NEW x \in Objects
      PROVE  UploadIntent(x)' /\ OwnedRow(x)' /\ UploadingRequest(x)'
  BY <1>1, <1>w
  DEF Reclaim, StorageInv, StorageTypeOK, UploadIntent, OwnedRow, UploadingRequest
<1>5. ASSUME NEW v \in Tidiers
      PROVE  Removal(v)'
  BY <1>1, <1>w, StorageAssumption
  DEF Reclaim, StorageInv, StorageTypeOK, UploadIntent, UploadingRequest, Removal,
      LateBytes, UnderLease, StillThere
<1>. QED  BY <1>2, <1>3, <1>4, <1>5 DEF StorageInv

LEMMA AbandonStaleKeeps ==
  ASSUME StorageInv, NEW o \in Objects, AbandonStale(o)
  PROVE  StorageInv'
<1>w. \A v \in Tidiers : /\ claim[v].phase \in Phases => claim[v].object \in Objects
                         /\ claim[v].phase \notin Phases => claim[v].object \notin Objects
  BY ClaimShape, StorageAssumption DEF StorageInv, NoClaim, Phases
<1>1. /\ intent' \in [Objects -> Intents] /\ minted' = minted
      /\ intent'[o] = Unleased("delete")
      /\ \A x \in Objects \ {o} : intent'[x] = intent[x]
  BY TurnTypes DEF AbandonStale, StorageInv
<1>2. StorageTypeOK'
  BY <1>1 DEF AbandonStale, StorageInv, StorageTypeOK, Stages, Phases, Reaches
<1>3. OrphansNamed'
  BY <1>1, <1>w DEF AbandonStale, StorageInv, OrphansNamed, UploadingRequest
<1>4. ASSUME NEW x \in Objects
      PROVE  UploadIntent(x)' /\ OwnedRow(x)' /\ UploadingRequest(x)'
  BY <1>1, <1>w
  DEF AbandonStale, StorageInv, StorageTypeOK, UploadIntent, OwnedRow, UploadingRequest
<1>5. ASSUME NEW v \in Tidiers
      PROVE  Removal(v)'
  BY <1>1, <1>w, StorageAssumption
  DEF AbandonStale, StorageInv, StorageTypeOK, UploadIntent, UploadingRequest, Removal,
      LateBytes, UnderLease, StillThere
<1>. QED  BY <1>2, <1>3, <1>4, <1>5 DEF StorageInv

LEMMA LeaseExpiresKeeps ==
  ASSUME StorageInv, NEW o \in Objects, LeaseExpires(o)
  PROVE  StorageInv'
<1>w. \A v \in Tidiers : /\ claim[v].phase \in Phases => claim[v].object \in Objects
                         /\ claim[v].phase \notin Phases => claim[v].object \notin Objects
  BY ClaimShape, StorageAssumption DEF StorageInv, NoClaim, Phases
<1>1. /\ intent' \in [Objects -> Intents]
      /\ intent'[o].kind = "delete" /\ intent'[o].lease = intent[o].lease
      /\ \A x \in Objects \ {o} : intent'[x] = intent[x]
  <2>1. intent[o].kind = "delete" /\ intent[o].lease \in Tidiers
    BY IntentShape DEF LeaseExpires, StorageInv, Deleting
  <2>2. intent[o] \in [kind: {"delete"}, lease: Tidiers \cup {None}, expired: BOOLEAN]
    BY <2>1 DEF StorageInv, StorageTypeOK, Intents, NoIntent, Unleased
  <2>3. intent'[o] = [intent[o] EXCEPT !.expired = TRUE]
    BY DEF LeaseExpires, StorageInv, StorageTypeOK
  <2>4. intent'[o] \in [kind: {"delete"}, lease: Tidiers \cup {None}, expired: BOOLEAN]
    BY <2>2, <2>3
  <2>5. intent'[o].lease = intent[o].lease
    BY <2>2, <2>3
  <2>6. intent'[o] \in Intents
    BY <2>4 DEF Intents
  <2>7. intent' = [x \in Objects |-> IF x = o THEN intent'[o] ELSE intent[x]]
    BY DEF LeaseExpires, StorageInv, StorageTypeOK
  <2>. QED  BY <2>4, <2>5, <2>6, <2>7 DEF StorageInv, StorageTypeOK
<1>2. StorageTypeOK'
  BY <1>1 DEF LeaseExpires, StorageInv, StorageTypeOK, Stages, Phases, Reaches
<1>3. OrphansNamed'
  BY <1>1, <1>w DEF LeaseExpires, StorageInv, OrphansNamed, UploadingRequest
<1>4. ASSUME NEW x \in Objects
      PROVE  UploadIntent(x)' /\ OwnedRow(x)' /\ UploadingRequest(x)'
  BY <1>1, <1>w
  DEF LeaseExpires, StorageInv, StorageTypeOK, UploadIntent, OwnedRow, UploadingRequest
<1>5. ASSUME NEW v \in Tidiers
      PROVE  Removal(v)'
  BY <1>1, <1>w
  DEF LeaseExpires, StorageInv, StorageTypeOK, UploadIntent, UploadingRequest, Removal,
      LateBytes, UnderLease, StillThere
<1>. QED  BY <1>2, <1>3, <1>4, <1>5 DEF StorageInv

LEMMA ClaimKeeps ==
  ASSUME StorageInv, NEW w \in Tidiers, NEW o \in Objects, Claim(w, o)
  PROVE  StorageInv'
<1>w. \A v \in Tidiers : /\ claim[v].phase \in Phases => claim[v].object \in Objects
                         /\ claim[v].phase \notin Phases => claim[v].object \notin Objects
  BY ClaimShape, StorageAssumption DEF StorageInv, NoClaim, Phases
<1>1. /\ intent' \in [Objects -> Intents]
      /\ intent'[o] = [kind |-> "delete", lease |-> w, expired |-> FALSE]
      /\ \A x \in Objects \ {o} : intent'[x] = intent[x]
  <2>1. Deleting(o) /\ Lease(o, w) /\ w \in Tidiers \cup {None}
    BY DEF Claim, Claimable
  <2>2. StorageTypeOK
    BY DEF StorageInv
  <2>. QED  BY <2>1, <2>2, LeaseTypes
<1>j. /\ claim'[w] = [object |-> o, id |-> minted[o], phase |-> "claimed"]
      /\ \A v \in Tidiers \ {w} : claim'[v] = claim[v]
  BY DEF Claim, StorageInv, StorageTypeOK
<1>2. StorageTypeOK'
  BY <1>1, <1>j DEF Claim, StorageInv, StorageTypeOK, Stages, Phases, Reaches
<1>3. OrphansNamed'
  BY <1>1, <1>j, <1>w DEF Claim, StorageInv, OrphansNamed, UploadingRequest
<1>4. ASSUME NEW x \in Objects
      PROVE  UploadIntent(x)' /\ OwnedRow(x)' /\ UploadingRequest(x)'
  BY <1>1, <1>j, <1>w
  DEF Claim, StorageInv, StorageTypeOK, UploadIntent, OwnedRow, UploadingRequest,
      Claimable, NoClaim
<1>5. ASSUME NEW v \in Tidiers
      PROVE  Removal(v)'
  BY <1>1, <1>j, <1>w
  DEF Claim, StorageInv, StorageTypeOK, UploadIntent, UploadingRequest, Removal,
      LateBytes, UnderLease, StillThere, NoClaim
<1>. QED  BY <1>2, <1>3, <1>4, <1>5 DEF StorageInv

LEMMA JudgeKeeps ==
  ASSUME StorageInv, NEW w \in Tidiers, Judge(w)
  PROVE  StorageInv'
<1>w. \A v \in Tidiers : /\ claim[v].phase \in Phases => claim[v].object \in Objects
                         /\ claim[v].phase \notin Phases => claim[v].object \notin Objects
  BY ClaimShape, StorageAssumption DEF StorageInv, NoClaim, Phases
<1>j. /\ claim[w] \in [object: Objects, id: Nat, phase: Phases]
      /\ claim'[w] \in [object: Objects, id: Nat, phase: Phases]
      /\ claim'[w].object = claim[w].object /\ claim'[w].id = claim[w].id
      /\ claim'[w].phase \in {"unowned", "failed"}
      /\ claim' = [v \in Tidiers |-> IF v = w THEN claim'[w] ELSE claim[v]]
  <2>1. claim[w] \in [object: Objects, id: Nat, phase: Phases]
    BY DEF Judge, StorageInv, StorageTypeOK, Works, NoClaim
  <2>2. row[claim[w].object] # "owned"
    BY <2>1 DEF StorageInv, OwnedRow, Claimed
  <2>3. PICK ph \in {"unowned", "failed"} : claim' = [claim EXCEPT ![w].phase = ph]
    BY <2>2 DEF Judge, Proceeds
  <2>4. claim'[w] = [object |-> claim[w].object, id |-> claim[w].id, phase |-> ph]
    BY <2>1, <2>3 DEF StorageInv, StorageTypeOK
  <2>5. claim'[w] \in [object: Objects, id: Nat, phase: Phases]
    BY <2>1, <2>4 DEF Phases
  <2>6. claim' = [v \in Tidiers |-> IF v = w THEN claim'[w] ELSE claim[v]]
    BY <2>3 DEF StorageInv, StorageTypeOK
  <2>. QED  BY <2>1, <2>4, <2>5, <2>6 DEF StorageInv, StorageTypeOK
<1>1. UNCHANGED <<intent, minted>>
  BY DEF Judge
<1>2. StorageTypeOK'
  BY <1>j, <1>1 DEF Judge, StorageInv, StorageTypeOK, Stages, Phases, Reaches
<1>3. OrphansNamed'
  BY <1>j, <1>1, <1>w DEF Judge, StorageInv, OrphansNamed, UploadingRequest
<1>4. ASSUME NEW x \in Objects
      PROVE  UploadIntent(x)' /\ OwnedRow(x)' /\ UploadingRequest(x)'
  BY <1>j, <1>1, <1>w
  DEF Judge, StorageInv, StorageTypeOK, UploadIntent, OwnedRow, UploadingRequest
<1>5. ASSUME NEW v \in Tidiers
      PROVE  Removal(v)'
  BY <1>j, <1>1, <1>w
  DEF Judge, StorageInv, StorageTypeOK, UploadIntent, UploadingRequest, Removal,
      LateBytes, UnderLease, StillThere
<1>. QED  BY <1>2, <1>3, <1>4, <1>5 DEF StorageInv

LEMMA RemoveKeeps ==
  ASSUME StorageInv, NEW w \in Tidiers, RemoveBytes(w)
  PROVE  StorageInv'
<1>w. \A v \in Tidiers : /\ claim[v].phase \in Phases => claim[v].object \in Objects
                         /\ claim[v].phase \notin Phases => claim[v].object \notin Objects
  BY ClaimShape, StorageAssumption DEF StorageInv, NoClaim, Phases
<1>j. /\ claim[w] \in [object: Objects, id: Nat, phase: Phases]
      /\ claim'[w] \in [object: Objects, id: Nat, phase: Phases]
      /\ claim'[w].object = claim[w].object /\ claim'[w].id = claim[w].id
      /\ claim'[w].phase \in {"removed"}
      /\ claim' = [v \in Tidiers |-> IF v = w THEN claim'[w] ELSE claim[v]]
  <2>1. claim[w] \in [object: Objects, id: Nat, phase: Phases]
    BY DEF RemoveBytes, StorageInv, StorageTypeOK, Works, NoClaim
  <2>2. row[claim[w].object] # "owned"
    BY <2>1 DEF StorageInv, OwnedRow, Claimed
  <2>3. PICK ph \in {"removed"} : claim' = [claim EXCEPT ![w].phase = ph]
    BY <2>2 DEF RemoveBytes, Proceeds
  <2>4. claim'[w] = [object |-> claim[w].object, id |-> claim[w].id, phase |-> ph]
    BY <2>1, <2>3 DEF StorageInv, StorageTypeOK
  <2>5. claim'[w] \in [object: Objects, id: Nat, phase: Phases]
    BY <2>1, <2>4 DEF Phases
  <2>6. claim' = [v \in Tidiers |-> IF v = w THEN claim'[w] ELSE claim[v]]
    BY <2>3 DEF StorageInv, StorageTypeOK
  <2>. QED  BY <2>1, <2>4, <2>5, <2>6 DEF StorageInv, StorageTypeOK
<1>1. UNCHANGED <<intent, minted>>
  BY DEF RemoveBytes
<1>2. StorageTypeOK'
  BY <1>j, <1>1 DEF RemoveBytes, StorageInv, StorageTypeOK, Stages, Phases, Reaches
<1>3. OrphansNamed'
  BY <1>j, <1>1, <1>w DEF RemoveBytes, StorageInv, OrphansNamed, UploadingRequest
<1>4. ASSUME NEW x \in Objects
      PROVE  UploadIntent(x)' /\ OwnedRow(x)' /\ UploadingRequest(x)'
  <2>1. UploadIntent(x) /\ OwnedRow(x) /\ UploadingRequest(x)
    BY DEF StorageInv
  <2>2. UNCHANGED <<stage, row>> /\ (Claimed(x)' => Claimed(x))
    BY <1>j DEF RemoveBytes
  <2>3. /\ bytes'[x] => bytes[x]
        /\ ~Claimed(x) => (bytes'[x] <=> bytes[x])
    BY DEF RemoveBytes, StorageInv, StorageTypeOK
  <2>4. UploadIntent(x)'
    BY <1>1, <2>1, <2>2, <2>3 DEF UploadIntent
  <2>5. OwnedRow(x)'
    BY <1>1, <2>1, <2>2, <2>3 DEF OwnedRow
  <2>6. UploadingRequest(x)'
    BY <1>1, <2>1, <2>2, <2>3 DEF UploadingRequest
  <2>. QED  BY <2>4, <2>5, <2>6
<1>5. ASSUME NEW v \in Tidiers
      PROVE  Removal(v)'
  BY <1>j, <1>1, <1>w
  DEF RemoveBytes, StorageInv, StorageTypeOK, UploadIntent, UploadingRequest, Removal,
      LateBytes, UnderLease, StillThere
<1>. QED  BY <1>2, <1>3, <1>4, <1>5 DEF StorageInv

LEMMA RemoveFailsKeeps ==
  ASSUME StorageInv, NEW w \in Tidiers, RemoveFails(w)
  PROVE  StorageInv'
<1>w. \A v \in Tidiers : /\ claim[v].phase \in Phases => claim[v].object \in Objects
                         /\ claim[v].phase \notin Phases => claim[v].object \notin Objects
  BY ClaimShape, StorageAssumption DEF StorageInv, NoClaim, Phases
<1>j. /\ claim[w] \in [object: Objects, id: Nat, phase: Phases]
      /\ claim'[w] \in [object: Objects, id: Nat, phase: Phases]
      /\ claim'[w].object = claim[w].object /\ claim'[w].id = claim[w].id
      /\ claim'[w].phase \in {"failed"}
      /\ claim' = [v \in Tidiers |-> IF v = w THEN claim'[w] ELSE claim[v]]
  <2>1. claim[w] \in [object: Objects, id: Nat, phase: Phases]
    BY DEF RemoveFails, StorageInv, StorageTypeOK, Works, NoClaim
  <2>2. row[claim[w].object] # "owned"
    BY <2>1 DEF StorageInv, OwnedRow, Claimed
  <2>3. PICK ph \in {"failed"} : claim' = [claim EXCEPT ![w].phase = ph]
    BY <2>2 DEF RemoveFails, Proceeds
  <2>4. claim'[w] = [object |-> claim[w].object, id |-> claim[w].id, phase |-> ph]
    BY <2>1, <2>3 DEF StorageInv, StorageTypeOK
  <2>5. claim'[w] \in [object: Objects, id: Nat, phase: Phases]
    BY <2>1, <2>4 DEF Phases
  <2>6. claim' = [v \in Tidiers |-> IF v = w THEN claim'[w] ELSE claim[v]]
    BY <2>3 DEF StorageInv, StorageTypeOK
  <2>. QED  BY <2>1, <2>4, <2>5, <2>6 DEF StorageInv, StorageTypeOK
<1>1. UNCHANGED <<intent, minted>>
  BY DEF RemoveFails
<1>2. StorageTypeOK'
  BY <1>j, <1>1 DEF RemoveFails, StorageInv, StorageTypeOK, Stages, Phases, Reaches
<1>3. OrphansNamed'
  BY <1>j, <1>1, <1>w
  DEF RemoveFails, StorageInv, OrphansNamed, UploadingRequest, StorageTypeOK,
      UploadIntent, OwnedRow
<1>4. ASSUME NEW x \in Objects
      PROVE  UploadIntent(x)' /\ OwnedRow(x)' /\ UploadingRequest(x)'
  BY <1>j, <1>1, <1>w
  DEF RemoveFails, StorageInv, StorageTypeOK, UploadIntent, OwnedRow, UploadingRequest
<1>5. ASSUME NEW v \in Tidiers
      PROVE  Removal(v)'
  BY <1>j, <1>1, <1>w
  DEF RemoveFails, StorageInv, StorageTypeOK, UploadIntent, UploadingRequest, Removal,
      LateBytes, UnderLease, StillThere
<1>. QED  BY <1>2, <1>3, <1>4, <1>5 DEF StorageInv

LEMMA CloseUnderLeaseKeeps ==
  ASSUME StorageInv, NEW w \in Tidiers, CloseUnderLease(w)
  PROVE  StorageInv'
<1>w. \A v \in Tidiers : /\ claim[v].phase \in Phases => claim[v].object \in Objects
                         /\ claim[v].phase \notin Phases => claim[v].object \notin Objects
  BY ClaimShape, StorageAssumption DEF StorageInv, NoClaim, Phases
<1>o. claim[w] \in [object: Objects, id: Nat, phase: Phases]
  BY DEF CloseUnderLease, StorageInv, StorageTypeOK, Works, NoClaim
<1>j. /\ claim'[w] = NoClaim
      /\ \A v \in Tidiers \ {w} : claim'[v] = claim[v]
  BY DEF CloseUnderLease, StorageInv, StorageTypeOK
<1>c. \A x \in Objects : Claimed(x)' => Claimed(x)
  BY <1>j, StorageAssumption DEF Claimed, NoClaim
<1>1. /\ intent' \in [Objects -> Intents] /\ minted' = minted
      /\ intent'[claim[w].object] = IF UnderLease(w) THEN NoIntent ELSE intent[claim[w].object]
      /\ \A x \in Objects \ {claim[w].object} : intent'[x] = intent[x]
  BY <1>o DEF CloseUnderLease, StorageInv, StorageTypeOK, Intents
<1>2. StorageTypeOK'
  BY <1>o, <1>j, <1>c, <1>1
  DEF CloseUnderLease, StorageInv, StorageTypeOK, Stages, Phases, Reaches
<1>3. OrphansNamed'
  BY <1>o, <1>j, <1>c, <1>1, <1>w
  DEF CloseUnderLease, StorageInv, OrphansNamed, UploadingRequest, StorageTypeOK,
      UploadIntent, OwnedRow, Removal, LateBytes, UnderLease, StillThere
<1>4. ASSUME NEW x \in Objects
      PROVE  UploadIntent(x)' /\ OwnedRow(x)' /\ UploadingRequest(x)'
  BY <1>o, <1>j, <1>c, <1>1, <1>w
  DEF CloseUnderLease, StorageInv, StorageTypeOK, UploadIntent, OwnedRow,
      UploadingRequest
<1>5. ASSUME NEW v \in Tidiers
      PROVE  Removal(v)'
  BY <1>o, <1>j, <1>c, <1>1, <1>w
  DEF CloseUnderLease, StorageInv, StorageTypeOK, UploadIntent, UploadingRequest,
      Removal, LateBytes, UnderLease, StillThere, NoClaim
<1>. QED  BY <1>2, <1>3, <1>4, <1>5 DEF StorageInv

LEMMA ReleaseKeeps ==
  ASSUME StorageInv, NEW w \in Tidiers, Release(w)
  PROVE  StorageInv'
<1>w. \A v \in Tidiers : /\ claim[v].phase \in Phases => claim[v].object \in Objects
                         /\ claim[v].phase \notin Phases => claim[v].object \notin Objects
  BY ClaimShape, StorageAssumption DEF StorageInv, NoClaim, Phases
<1>o. claim[w] \in [object: Objects, id: Nat, phase: Phases]
  BY DEF Release, StorageInv, StorageTypeOK, Works, NoClaim
<1>j. /\ claim'[w] = NoClaim
      /\ \A v \in Tidiers \ {w} : claim'[v] = claim[v]
  BY DEF Release, StorageInv, StorageTypeOK
<1>c. \A x \in Objects : Claimed(x)' => Claimed(x)
  BY <1>j, StorageAssumption DEF Claimed, NoClaim
<1>u. ~Uploading(claim[w].object)
  BY <1>o DEF StorageInv, UploadIntent, Claimed
<1>1. /\ intent' \in [Objects -> Intents] /\ minted' = minted
      /\ intent'[claim[w].object] = IF StillThere(w)
                                    THEN [kind |-> "delete", lease |-> None, expired |-> FALSE]
                                    ELSE intent[claim[w].object]
      /\ \A x \in Objects \ {claim[w].object} : intent'[x] = intent[x]
  BY <1>o, <1>u, LeaseTypes DEF Release, StorageInv, StorageTypeOK, StillThere
<1>2. StorageTypeOK'
  BY <1>o, <1>j, <1>c, <1>u, <1>1
  DEF Release, StorageInv, StorageTypeOK, Stages, Phases, Reaches
<1>3. OrphansNamed'
  BY <1>o, <1>j, <1>c, <1>u, <1>1, <1>w
  DEF Release, StorageInv, OrphansNamed, UploadingRequest
<1>4. ASSUME NEW x \in Objects
      PROVE  UploadIntent(x)' /\ OwnedRow(x)' /\ UploadingRequest(x)'
  BY <1>o, <1>j, <1>c, <1>u, <1>1, <1>w
  DEF Release, StorageInv, StorageTypeOK, UploadIntent, OwnedRow, UploadingRequest
<1>5. ASSUME NEW v \in Tidiers
      PROVE  Removal(v)'
  BY <1>o, <1>j, <1>c, <1>u, <1>1, <1>w, StorageAssumption
  DEF Release, StorageInv, StorageTypeOK, UploadIntent, UploadingRequest, Removal,
      LateBytes, UnderLease, StillThere, NoClaim
<1>. QED  BY <1>2, <1>3, <1>4, <1>5 DEF StorageInv

LEMMA WorkerCrashKeeps ==
  ASSUME StorageInv, NEW w \in Tidiers, WorkerCrash(w)
  PROVE  StorageInv'
<1>w. \A v \in Tidiers : /\ claim[v].phase \in Phases => claim[v].object \in Objects
                         /\ claim[v].phase \notin Phases => claim[v].object \notin Objects
  BY ClaimShape, StorageAssumption DEF StorageInv, NoClaim, Phases
<1>o. claim[w] \in [object: Objects, id: Nat, phase: Phases]
  BY DEF WorkerCrash, StorageInv, StorageTypeOK, Works, NoClaim
<1>j. /\ claim'[w] = NoClaim
      /\ \A v \in Tidiers \ {w} : claim'[v] = claim[v]
  BY DEF WorkerCrash, StorageInv, StorageTypeOK
<1>c. \A x \in Objects : Claimed(x)' => Claimed(x)
  BY <1>j, StorageAssumption DEF Claimed, NoClaim
<1>1. UNCHANGED <<intent, minted>>
  BY DEF WorkerCrash
<1>2. StorageTypeOK'
  BY <1>o, <1>j, <1>c, <1>1
  DEF WorkerCrash, StorageInv, StorageTypeOK, Stages, Phases, Reaches
<1>3. OrphansNamed'
  BY <1>o, <1>j, <1>c, <1>1, <1>w
  DEF WorkerCrash, StorageInv, OrphansNamed, UploadingRequest
<1>4. ASSUME NEW x \in Objects
      PROVE  UploadIntent(x)' /\ OwnedRow(x)' /\ UploadingRequest(x)'
  BY <1>o, <1>j, <1>c, <1>1, <1>w
  DEF WorkerCrash, StorageInv, StorageTypeOK, UploadIntent, OwnedRow, UploadingRequest
<1>5. ASSUME NEW v \in Tidiers
      PROVE  Removal(v)'
  BY <1>o, <1>j, <1>c, <1>1, <1>w
  DEF WorkerCrash, StorageInv, StorageTypeOK, UploadIntent, UploadingRequest, Removal,
      LateBytes, UnderLease, StillThere, NoClaim
<1>. QED  BY <1>2, <1>3, <1>4, <1>5 DEF StorageInv

(* The invariant of the protocol: it holds initially and every step keeps  *)
(* it, whichever request, sweep or process death the step is.              *)
THEOREM StorageInvariant == StorageSpec => []StorageInv
<1>1. StorageInit => StorageInv
  BY InitHolds
<1>2. StorageInv /\ [StorageNext]_storageVars => StorageInv'
  <2>. SUFFICES ASSUME StorageInv, [StorageNext]_storageVars PROVE StorageInv'
    OBVIOUS
  <2>1. ASSUME NEW o \in Objects, BeginUpload(o) PROVE StorageInv'
    BY <2>1, BeginUploadKeeps
  <2>2. ASSUME NEW o \in Objects, Land(o) PROVE StorageInv'
    BY <2>2, LandKeeps
  <2>3. ASSUME NEW o \in Objects, UploadFails(o) PROVE StorageInv'
    BY <2>3, UploadFailsKeeps
  <2>4. ASSUME NEW o \in Objects, AdoptUpload(o) PROVE StorageInv'
    BY <2>4, AdoptUploadKeeps
  <2>5. ASSUME NEW o \in Objects, Rollback(o) PROVE StorageInv'
    BY <2>5, RollbackKeeps
  <2>6. ASSUME NEW o \in Objects, Crash(o) PROVE StorageInv'
    BY <2>6, CrashKeeps
  <2>7. ASSUME NEW o \in Objects, CommitRow(o) PROVE StorageInv'
    BY <2>7, CommitKeeps
  <2>8. ASSUME NEW o \in Objects, AbandonUpload(o) PROVE StorageInv'
    BY <2>8, AbandonUploadKeeps
  <2>9. ASSUME NEW o \in Objects, AbandonUnowned(o) PROVE StorageInv'
    BY <2>9, AbandonUnownedKeeps
  <2>10. ASSUME NEW o \in Objects, DeleteRow(o) PROVE StorageInv'
    BY <2>10, DeleteRowKeeps
  <2>11. ASSUME NEW o \in Objects, Reclaim(o) PROVE StorageInv'
    BY <2>11, ReclaimKeeps
  <2>12. ASSUME NEW o \in Objects, AbandonStale(o) PROVE StorageInv'
    BY <2>12, AbandonStaleKeeps
  <2>13. ASSUME NEW o \in Objects, LeaseExpires(o) PROVE StorageInv'
    BY <2>13, LeaseExpiresKeeps
  <2>14. ASSUME NEW w \in Tidiers, NEW o \in Objects, Claim(w, o) PROVE StorageInv'
    BY <2>14, ClaimKeeps
  <2>15. ASSUME NEW w \in Tidiers, Judge(w) PROVE StorageInv'
    BY <2>15, JudgeKeeps
  <2>16. ASSUME NEW w \in Tidiers, RemoveBytes(w) PROVE StorageInv'
    BY <2>16, RemoveKeeps
  <2>17. ASSUME NEW w \in Tidiers, RemoveFails(w) PROVE StorageInv'
    BY <2>17, RemoveFailsKeeps
  <2>18. ASSUME NEW w \in Tidiers, CloseUnderLease(w) PROVE StorageInv'
    BY <2>18, CloseUnderLeaseKeeps
  <2>19. ASSUME NEW w \in Tidiers, Release(w) PROVE StorageInv'
    BY <2>19, ReleaseKeeps
  <2>20. ASSUME NEW w \in Tidiers, WorkerCrash(w) PROVE StorageInv'
    BY <2>20, WorkerCrashKeeps
  <2>21. CASE UNCHANGED storageVars
    BY <2>21
    DEF storageVars, StorageInv, StorageTypeOK, OrphansNamed, UploadIntent, OwnedRow, UploadingRequest, Removal,
        LateBytes, UnderLease, StillThere
  <2>. QED
    BY <2>1, <2>2, <2>3, <2>4, <2>5, <2>6, <2>7, <2>8, <2>9, <2>10, <2>11,
       <2>12, <2>13, <2>14, <2>15, <2>16, <2>17, <2>18, <2>19, <2>20, <2>21
    DEF StorageNext, Writer
<1>. QED  BY <1>1, <1>2, PTL DEF StorageSpec

(* Every variable stays in its domain: of all intents only a delete is ever *)
(* leased, and a busy worker's claim is of an object.                      *)
THEOREM StorageTypeCorrect == StorageSpec => []StorageTypeOK
<1>1. StorageInv => StorageTypeOK
  BY DEF StorageInv
<1>. QED  BY <1>1, StorageInvariant, PTL

(* No removal - late, repeated, retried, or run by several workers under    *)
(* leases that ran out - reaches the bytes a committed row owns.           *)
THEOREM OwnedBytesKeptHolds == StorageSpec => []OwnedBytesKept
<1>1. StorageInv => OwnedBytesKept
  BY DEF StorageInv, OwnedRow, OwnedBytesKept
<1>. QED  BY <1>1, StorageInvariant, PTL

(* A row and an intent never name the same object, so the sweeper's branch *)
(* that finds a claimed object owned is unreachable, as its comment says.  *)
THEOREM OwnedOrNamedHolds == StorageSpec => []OwnedOrNamed
<1>1. StorageInv => OwnedOrNamed
  BY DEF StorageInv, OwnedRow, OwnedOrNamed
<1>. QED  BY <1>1, StorageInvariant, PTL

(* Bytes without an owner are named by an intent or by a live request; only *)
(* the crash of an upload that outlived its grace can leave a true orphan. *)
THEOREM OrphansNamedHolds == StorageSpec => []OrphansNamed
<1>1. StorageInv => OrphansNamed
  BY DEF StorageInv
<1>. QED  BY <1>1, StorageInvariant, PTL

-----------------------------------------------------------------------------
(* The inductive invariant, beside the protocol's own.                     *)

IssueTypes ==
    /\ asked \in [Objects -> [dataset: Datasets, edition: Editions] \cup {Nothing}]
    /\ phase \in [Objects -> {"none"} \cup Working \cup IssueAnswers]
    /\ stored \in [Objects -> {"pdf", "other", None}]
    /\ printer \in [Printers -> Objects \cup {None}]
    /\ audit \subseteq Objects

(* Where a request is in the storage protocol.                             *)
Placed(r) ==
    /\ phase[r] \in {"none", "read", "rendering", "rendered"} => stage[r] = "none"
    /\ phase[r] = "sent" => stage[r] \in {"sending", "answered"}
    /\ phase[r] = "checked" => stage[r] \in {"answered", "open"}
    /\ phase[r] = "inserted" => stage[r] = "open"
    /\ phase[r] \in {"checked", "inserted"} => stored[r] = "pdf"
    /\ phase[r] = "late" => stage[r] = "expired"
    /\ phase[r] \in {"repeated", "unsure"} => stage[r] = "failed"
    /\ phase[r] = "broken" => stage[r] \in {"refused", "unopened", "failed"}

(* Only an insert that committed has a row, and only a row makes a repeat. *)
Owning(r) ==
    /\ Issued(r) => phase[r] \in {"unsure", "issued", "error", "dead"} /\ stored[r] = "pdf"
    /\ phase[r] \in {"unsure", "issued"} => Issued(r)
    /\ phase[r] \in {"repeated", "already_issued"} =>
         \E q \in Objects : Issued(q) /\ SameEdition(q, r)

Printing(r) == phase[r] = "rendering" <=> printer[At[r]] = r
Served(r) == \A p \in Printers : printer[p] = r => At[r] = p

(* The unique index holds over the uncommitted inserts too.                *)
Indexed(r) == Issued(r) \/ Uncommitted(r)
Once == \A q, r \in Objects : Indexed(q) /\ Indexed(r) /\ SameEdition(q, r) => q = r

IssueInv ==
    /\ IssueTypes
    /\ \A r \in Objects : Placed(r) /\ Owning(r)
    /\ \A r \in Objects : Printing(r) /\ Served(r)
    /\ Once
    /\ IssuesAudited

-----------------------------------------------------------------------------
(* What the storage protocol's steps do to a request's stage and row.      *)

(* Only the committing transaction has changed a row by the time of its    *)
(* commit, and no request before it has one.                               *)
LEMMA RowlessStages ==
  ASSUME StorageInv, NEW r \in Objects
  PROVE  /\ stage[r] \in {"none", "sending", "answered", "refused", "open", "expired", "unopened"} => ~Issued(r)
         /\ stage \in [Objects -> Stages]
         /\ row \in [Objects -> {"none", "owned", "gone"}]
  BY DEF StorageInv, StorageTypeOK, UploadingRequest, Issued

(* The sweeper and the operator touch no stage and no row.                 *)
LEMMA SweepLeaves ==
  ASSUME Sweep
  PROVE  UNCHANGED <<stage, row, issueVars>> /\ StorageNext
  BY DEF Sweep, StorageNext, Writer, Reclaim, AbandonStale, LeaseExpires, Claim, Judge, RemoveBytes,
         RemoveFails, CloseUnderLease, Release, WorkerCrash

-----------------------------------------------------------------------------
(* One lemma per action.                                                   *)

LEMMA ReadDatasetKeeps ==
  ASSUME IssueInv, StorageInv, NEW r \in Objects, NEW d \in Datasets, NEW e \in Editions, ReadDataset(r, d, e)
  PROVE  IssueInv'
<1>0. \A q \in Objects :
        stage[q] \in {"none", "sending", "answered", "refused", "open", "expired", "unopened"} => ~Issued(q)
  BY RowlessStages
<1>1. IssueTypes'
  BY DEF IssueInv, ReadDataset, Advances, Repeats, Refused, storageVars, IssueTypes, Working, IssueAnswers
<1>2. ASSUME NEW q \in Objects
      PROVE  Placed(q)' /\ Owning(q)'
  BY <1>0, RowlessStages DEF IssueInv, ReadDataset, Advances, Repeats, Refused, storageVars, IssueTypes, Placed, Owning, Issued, SameEdition, Uncommitted
<1>3. ASSUME NEW q \in Objects
      PROVE  Printing(q)' /\ Served(q)'
  BY IssuanceAssumption, StorageAssumption DEF IssueInv, ReadDataset, Advances, Repeats, Refused, storageVars, IssueTypes, Placed, Printing, Served
<1>4. Once'
  BY <1>0, RowlessStages DEF IssueInv, ReadDataset, Advances, Repeats, Refused, storageVars, IssueTypes, Placed, Owning, Once, Indexed, Issued, SameEdition, Uncommitted
<1>5. IssuesAudited'
  BY <1>0, RowlessStages DEF IssueInv, ReadDataset, Advances, Repeats, Refused, storageVars, IssueTypes, IssuesAudited, Issued
<1>. QED  BY <1>1, <1>2, <1>3, <1>4, <1>5 DEF IssueInv

LEMMA RenderKeeps ==
  ASSUME IssueInv, StorageInv, NEW r \in Objects, Render(r)
  PROVE  IssueInv'
<1>0. \A q \in Objects :
        stage[q] \in {"none", "sending", "answered", "refused", "open", "expired", "unopened"} => ~Issued(q)
  BY RowlessStages
<1>1. IssueTypes'
  BY DEF IssueInv, Render, Advances, storageVars, IssueTypes, Working, IssueAnswers
<1>2. ASSUME NEW q \in Objects
      PROVE  Placed(q)' /\ Owning(q)'
  BY <1>0, RowlessStages DEF IssueInv, Render, Advances, storageVars, IssueTypes, Placed, Owning, Issued, SameEdition, Uncommitted
<1>3. ASSUME NEW q \in Objects
      PROVE  Printing(q)' /\ Served(q)'
  BY IssuanceAssumption, StorageAssumption DEF IssueInv, Render, Advances, storageVars, IssueTypes, Placed, Printing, Served
<1>4. Once'
  BY <1>0, RowlessStages DEF IssueInv, Render, Advances, storageVars, IssueTypes, Placed, Owning, Once, Indexed, Issued, SameEdition, Uncommitted
<1>5. IssuesAudited'
  BY <1>0, RowlessStages DEF IssueInv, Render, Advances, storageVars, IssueTypes, IssuesAudited, Issued
<1>. QED  BY <1>1, <1>2, <1>3, <1>4, <1>5 DEF IssueInv

LEMMA EndRenderKeeps ==
  ASSUME IssueInv, StorageInv, NEW r \in Objects, EndRender(r)
  PROVE  IssueInv'
<1>0. \A q \in Objects :
        stage[q] \in {"none", "sending", "answered", "refused", "open", "expired", "unopened"} => ~Issued(q)
  BY RowlessStages
<1>1. IssueTypes'
  BY DEF IssueInv, EndRender, Advances, Frees, storageVars, IssueTypes, Working, IssueAnswers
<1>2. ASSUME NEW q \in Objects
      PROVE  Placed(q)' /\ Owning(q)'
  BY <1>0, RowlessStages DEF IssueInv, EndRender, Advances, Frees, storageVars, IssueTypes, Placed, Owning, Issued, SameEdition, Uncommitted
<1>f. /\ \A p \in Printers : printer'[p] = IF printer[p] = r THEN None ELSE printer[p]
      /\ \A q \in Objects : q # None /\ At[q] \in Printers
      /\ phase'[r] # "rendering" /\ \A q \in Objects \ {r} : phase'[q] = phase[q]
  BY IssuanceAssumption, StorageAssumption DEF IssueInv, IssueTypes, Frees, Advances, EndRender
<1>3. ASSUME NEW q \in Objects
      PROVE  Printing(q)' /\ Served(q)'
  BY <1>f, IssuanceAssumption, StorageAssumption DEF IssueInv, IssueTypes, Placed, Printing, Served
<1>4. Once'
  BY <1>0, RowlessStages DEF IssueInv, EndRender, Advances, Frees, storageVars, IssueTypes, Placed, Owning, Once, Indexed, Issued, SameEdition, Uncommitted
<1>5. IssuesAudited'
  BY <1>0, RowlessStages DEF IssueInv, EndRender, Advances, Frees, storageVars, IssueTypes, IssuesAudited, Issued
<1>. QED  BY <1>1, <1>2, <1>3, <1>4, <1>5 DEF IssueInv

LEMMA SendKeeps ==
  ASSUME IssueInv, StorageInv, NEW r \in Objects, Send(r)
  PROVE  IssueInv'
<1>0. \A q \in Objects :
        stage[q] \in {"none", "sending", "answered", "refused", "open", "expired", "unopened"} => ~Issued(q)
  BY RowlessStages
<1>1. IssueTypes'
  BY DEF IssueInv, Send, Advances, BeginUpload, Reaches, storageVars, IssueTypes, Working, IssueAnswers
<1>2. ASSUME NEW q \in Objects
      PROVE  Placed(q)' /\ Owning(q)'
  BY <1>0, RowlessStages DEF IssueInv, Send, Advances, BeginUpload, Reaches, storageVars, IssueTypes, Placed, Owning, Issued, SameEdition, Uncommitted
<1>3. ASSUME NEW q \in Objects
      PROVE  Printing(q)' /\ Served(q)'
  BY IssuanceAssumption, StorageAssumption DEF IssueInv, Send, Advances, BeginUpload, Reaches, storageVars, IssueTypes, Placed, Printing, Served
<1>4. Once'
  BY <1>0, RowlessStages DEF IssueInv, Send, Advances, BeginUpload, Reaches, storageVars, IssueTypes, Placed, Owning, Once, Indexed, Issued, SameEdition, Uncommitted
<1>5. IssuesAudited'
  BY <1>0, RowlessStages DEF IssueInv, Send, Advances, BeginUpload, Reaches, storageVars, IssueTypes, IssuesAudited, Issued
<1>. QED  BY <1>1, <1>2, <1>3, <1>4, <1>5 DEF IssueInv

LEMMA ArriveKeeps ==
  ASSUME IssueInv, StorageInv, NEW r \in Objects, Arrive(r)
  PROVE  IssueInv'
<1>0. \A q \in Objects :
        stage[q] \in {"none", "sending", "answered", "refused", "open", "expired", "unopened"} => ~Issued(q)
  BY RowlessStages
<1>1. IssueTypes'
  BY DEF IssueInv, Arrive, Advances, Land, Reaches, storageVars, IssueTypes, Working, IssueAnswers
<1>2. ASSUME NEW q \in Objects
      PROVE  Placed(q)' /\ Owning(q)'
  BY <1>0, RowlessStages DEF IssueInv, Arrive, Advances, Land, Reaches, storageVars, IssueTypes, Placed, Owning, Issued, SameEdition, Uncommitted
<1>3. ASSUME NEW q \in Objects
      PROVE  Printing(q)' /\ Served(q)'
  BY IssuanceAssumption, StorageAssumption DEF IssueInv, Arrive, Advances, Land, Reaches, storageVars, IssueTypes, Placed, Printing, Served
<1>4. Once'
  BY <1>0, RowlessStages DEF IssueInv, Arrive, Advances, Land, Reaches, storageVars, IssueTypes, Placed, Owning, Once, Indexed, Issued, SameEdition, Uncommitted
<1>5. IssuesAudited'
  BY <1>0, RowlessStages DEF IssueInv, Arrive, Advances, Land, Reaches, storageVars, IssueTypes, IssuesAudited, Issued
<1>. QED  BY <1>1, <1>2, <1>3, <1>4, <1>5 DEF IssueInv

LEMMA ReadBackKeeps ==
  ASSUME IssueInv, StorageInv, NEW r \in Objects, ReadBack(r)
  PROVE  IssueInv'
<1>0. \A q \in Objects :
        stage[q] \in {"none", "sending", "answered", "refused", "open", "expired", "unopened"} => ~Issued(q)
  BY RowlessStages
<1>1. IssueTypes'
  BY DEF IssueInv, ReadBack, Advances, storageVars, IssueTypes, Working, IssueAnswers
<1>2. ASSUME NEW q \in Objects
      PROVE  Placed(q)' /\ Owning(q)'
  BY <1>0, RowlessStages DEF IssueInv, ReadBack, Advances, storageVars, IssueTypes, Placed, Owning, Issued, SameEdition, Uncommitted
<1>3. ASSUME NEW q \in Objects
      PROVE  Printing(q)' /\ Served(q)'
  BY IssuanceAssumption, StorageAssumption DEF IssueInv, ReadBack, Advances, storageVars, IssueTypes, Placed, Printing, Served
<1>4. Once'
  BY <1>0, RowlessStages DEF IssueInv, ReadBack, Advances, storageVars, IssueTypes, Placed, Owning, Once, Indexed, Issued, SameEdition, Uncommitted
<1>5. IssuesAudited'
  BY <1>0, RowlessStages DEF IssueInv, ReadBack, Advances, storageVars, IssueTypes, IssuesAudited, Issued
<1>. QED  BY <1>1, <1>2, <1>3, <1>4, <1>5 DEF IssueInv

LEMMA FailUploadKeeps ==
  ASSUME IssueInv, StorageInv, NEW r \in Objects, FailUpload(r)
  PROVE  IssueInv'
<1>0. \A q \in Objects :
        stage[q] \in {"none", "sending", "answered", "refused", "open", "expired", "unopened"} => ~Issued(q)
  BY RowlessStages
<1>1. IssueTypes'
  BY DEF IssueInv, FailUpload, Advances, UploadFails, Reaches, storageVars, IssueTypes, Working, IssueAnswers
<1>2. ASSUME NEW q \in Objects
      PROVE  Placed(q)' /\ Owning(q)'
  BY <1>0, RowlessStages DEF IssueInv, FailUpload, Advances, UploadFails, Reaches, storageVars, IssueTypes, Placed, Owning, Issued, SameEdition, Uncommitted
<1>3. ASSUME NEW q \in Objects
      PROVE  Printing(q)' /\ Served(q)'
  BY IssuanceAssumption, StorageAssumption DEF IssueInv, FailUpload, Advances, UploadFails, Reaches, storageVars, IssueTypes, Placed, Printing, Served
<1>4. Once'
  BY <1>0, RowlessStages DEF IssueInv, FailUpload, Advances, UploadFails, Reaches, storageVars, IssueTypes, Placed, Owning, Once, Indexed, Issued, SameEdition, Uncommitted
<1>5. IssuesAudited'
  BY <1>0, RowlessStages DEF IssueInv, FailUpload, Advances, UploadFails, Reaches, storageVars, IssueTypes, IssuesAudited, Issued
<1>. QED  BY <1>1, <1>2, <1>3, <1>4, <1>5 DEF IssueInv

LEMMA AdoptKeeps ==
  ASSUME IssueInv, StorageInv, NEW r \in Objects, Adopt(r)
  PROVE  IssueInv'
<1>0. \A q \in Objects :
        stage[q] \in {"none", "sending", "answered", "refused", "open", "expired", "unopened"} => ~Issued(q)
  BY RowlessStages
<1>a. PICK at \in {"open", "expired", "unopened"} :
        /\ stage' = [stage EXCEPT ![r] = at]
        /\ phase' = [phase EXCEPT ![r] = CASE at = "open" -> "checked"
                                           [] at = "expired" -> "late"
                                           [] at = "unopened" -> "broken"]
  BY RowlessStages DEF Adopt, AdoptUpload
<1>c. phase[r] = "checked" /\ UNCHANGED printer
  BY DEF Adopt
<1>b. \/ at = "open" /\ phase' = [phase EXCEPT ![r] = "checked"]
      \/ at = "expired" /\ phase' = [phase EXCEPT ![r] = "late"]
      \/ at = "unopened" /\ phase' = [phase EXCEPT ![r] = "broken"]
  BY <1>a
<1>1. IssueTypes'
  BY <1>b DEF IssueInv, Adopt, AdoptUpload, storageVars, IssueTypes, Working
<1>2. ASSUME NEW q \in Objects
      PROVE  Placed(q)' /\ Owning(q)'
  BY <1>0, <1>a, <1>b, RowlessStages
  DEF IssueInv, Adopt, AdoptUpload, storageVars, IssueTypes, Placed, Owning, Issued, SameEdition, Uncommitted
<1>3. ASSUME NEW q \in Objects
      PROVE  Printing(q)' /\ Served(q)'
  <2>1. Printing(q) /\ Served(q)
    BY DEF IssueInv
  <2>2. phase'[q] = "rendering" <=> phase[q] = "rendering"
    BY <1>b, <1>c DEF IssueInv, IssueTypes
  <2>. QED  BY <1>c, <2>1, <2>2 DEF Printing, Served
<1>4. Once'
  BY <1>0, <1>a, <1>b, RowlessStages
  DEF IssueInv, Adopt, AdoptUpload, storageVars, IssueTypes, Placed, Owning, Once, Indexed, Issued, SameEdition, Uncommitted
<1>5. IssuesAudited'
  BY <1>0, <1>b, RowlessStages
  DEF IssueInv, Adopt, AdoptUpload, storageVars, IssueTypes, IssuesAudited, Issued
<1>. QED  BY <1>1, <1>2, <1>3, <1>4, <1>5 DEF IssueInv

LEMMA InsertRowKeeps ==
  ASSUME IssueInv, StorageInv, NEW r \in Objects, InsertRow(r)
  PROVE  IssueInv'
<1>0. \A q \in Objects :
        stage[q] \in {"none", "sending", "answered", "refused", "open", "expired", "unopened"} => ~Issued(q)
  BY RowlessStages
<1>1. IssueTypes'
  BY DEF IssueInv, InsertRow, Advances, Rollback, Reaches, storageVars, IssueTypes, Working, IssueAnswers
<1>2. ASSUME NEW q \in Objects
      PROVE  Placed(q)' /\ Owning(q)'
  BY <1>0, RowlessStages DEF IssueInv, InsertRow, Advances, Rollback, Reaches, storageVars, IssueTypes, Placed, Owning, Issued, SameEdition, Uncommitted
<1>3. ASSUME NEW q \in Objects
      PROVE  Printing(q)' /\ Served(q)'
  BY IssuanceAssumption, StorageAssumption DEF IssueInv, InsertRow, Advances, Rollback, Reaches, storageVars, IssueTypes, Placed, Printing, Served
<1>4. Once'
  BY <1>0, RowlessStages DEF IssueInv, InsertRow, Advances, Rollback, Reaches, storageVars, IssueTypes, Placed, Owning, Once, Indexed, Issued, SameEdition, Uncommitted
<1>5. IssuesAudited'
  BY <1>0, RowlessStages DEF IssueInv, InsertRow, Advances, Rollback, Reaches, storageVars, IssueTypes, IssuesAudited, Issued
<1>. QED  BY <1>1, <1>2, <1>3, <1>4, <1>5 DEF IssueInv

LEMMA CommitIssueKeeps ==
  ASSUME IssueInv, StorageInv, NEW r \in Objects, CommitIssue(r)
  PROVE  IssueInv'
<1>0. \A q \in Objects :
        stage[q] \in {"none", "sending", "answered", "refused", "open", "expired", "unopened"} => ~Issued(q)
  BY RowlessStages
<1>1. IssueTypes'
  BY DEF IssueInv, CommitIssue, Advances, CommitRow, Reaches, storageVars, IssueTypes, Working, IssueAnswers
<1>2. ASSUME NEW q \in Objects
      PROVE  Placed(q)' /\ Owning(q)'
  BY <1>0, RowlessStages DEF IssueInv, CommitIssue, Advances, CommitRow, Reaches, storageVars, IssueTypes, Placed, Owning, Issued, SameEdition, Uncommitted
<1>3. ASSUME NEW q \in Objects
      PROVE  Printing(q)' /\ Served(q)'
  BY IssuanceAssumption, StorageAssumption DEF IssueInv, CommitIssue, Advances, CommitRow, Reaches, storageVars, IssueTypes, Placed, Printing, Served
<1>4. Once'
  BY <1>0, RowlessStages DEF IssueInv, CommitIssue, Advances, CommitRow, Reaches, storageVars, IssueTypes, Placed, Owning, Once, Indexed, Issued, SameEdition, Uncommitted
<1>5. IssuesAudited'
  BY <1>0, RowlessStages DEF IssueInv, CommitIssue, Advances, CommitRow, Reaches, storageVars, IssueTypes, IssuesAudited, Issued
<1>. QED  BY <1>1, <1>2, <1>3, <1>4, <1>5 DEF IssueInv

LEMMA FailKeeps ==
  ASSUME IssueInv, StorageInv, NEW r \in Objects, Fail(r)
  PROVE  IssueInv'
<1>0. \A q \in Objects :
        stage[q] \in {"none", "sending", "answered", "refused", "open", "expired", "unopened"} => ~Issued(q)
  BY RowlessStages
<1>1. IssueTypes'
  BY DEF IssueInv, Fail, Advances, Rollback, Reaches, storageVars, IssueTypes, Working, IssueAnswers
<1>2. ASSUME NEW q \in Objects
      PROVE  Placed(q)' /\ Owning(q)'
  BY <1>0, RowlessStages DEF IssueInv, Fail, Advances, Rollback, Reaches, storageVars, IssueTypes, Placed, Owning, Issued, SameEdition, Uncommitted
<1>3. ASSUME NEW q \in Objects
      PROVE  Printing(q)' /\ Served(q)'
  BY IssuanceAssumption, StorageAssumption DEF IssueInv, Fail, Advances, Rollback, Reaches, storageVars, IssueTypes, Placed, Printing, Served
<1>4. Once'
  BY <1>0, RowlessStages DEF IssueInv, Fail, Advances, Rollback, Reaches, storageVars, IssueTypes, Placed, Owning, Once, Indexed, Issued, SameEdition, Uncommitted
<1>5. IssuesAudited'
  BY <1>0, RowlessStages DEF IssueInv, Fail, Advances, Rollback, Reaches, storageVars, IssueTypes, IssuesAudited, Issued
<1>. QED  BY <1>1, <1>2, <1>3, <1>4, <1>5 DEF IssueInv

LEMMA AnswerKeeps ==
  ASSUME IssueInv, StorageInv, NEW r \in Objects, Answer(r)
  PROVE  IssueInv'
<1>0. \A q \in Objects :
        stage[q] \in {"none", "sending", "answered", "refused", "open", "expired", "unopened"} => ~Issued(q)
  BY RowlessStages
<1>1. IssueTypes'
  BY DEF IssueInv, Answer, Advances, AbandonUpload, AbandonUnowned, Reaches, storageVars, IssueTypes, Working, IssueAnswers
<1>2. ASSUME NEW q \in Objects
      PROVE  Placed(q)' /\ Owning(q)'
  BY <1>0, RowlessStages DEF IssueInv, Answer, Advances, AbandonUpload, AbandonUnowned, Reaches, storageVars, IssueTypes, Placed, Owning, Issued, SameEdition, Uncommitted
<1>3. ASSUME NEW q \in Objects
      PROVE  Printing(q)' /\ Served(q)'
  BY IssuanceAssumption, StorageAssumption DEF IssueInv, Answer, Advances, AbandonUpload, AbandonUnowned, Reaches, storageVars, IssueTypes, Placed, Printing, Served
<1>4. Once'
  BY <1>0, RowlessStages DEF IssueInv, Answer, Advances, AbandonUpload, AbandonUnowned, Reaches, storageVars, IssueTypes, Placed, Owning, Once, Indexed, Issued, SameEdition, Uncommitted
<1>5. IssuesAudited'
  BY <1>0, RowlessStages DEF IssueInv, Answer, Advances, AbandonUpload, AbandonUnowned, Reaches, storageVars, IssueTypes, IssuesAudited, Issued
<1>. QED  BY <1>1, <1>2, <1>3, <1>4, <1>5 DEF IssueInv

LEMMA DieKeeps ==
  ASSUME IssueInv, StorageInv, NEW r \in Objects, Die(r)
  PROVE  IssueInv'
<1>0. \A q \in Objects :
        stage[q] \in {"none", "sending", "answered", "refused", "open", "expired", "unopened"} => ~Issued(q)
  BY RowlessStages
<1>1. IssueTypes'
  BY DEF IssueInv, Die, Advances, Crash, Reaches, Frees, Alive, Working, storageVars, IssueTypes, Working, IssueAnswers
<1>2. ASSUME NEW q \in Objects
      PROVE  Placed(q)' /\ Owning(q)'
  BY <1>0, RowlessStages DEF IssueInv, Die, Advances, Crash, Reaches, Frees, Alive, Working, storageVars, IssueTypes, Placed, Owning, Issued, SameEdition, Uncommitted
<1>f. /\ \A p \in Printers : printer'[p] = IF printer[p] = r THEN None ELSE printer[p]
      /\ \A q \in Objects : q # None /\ At[q] \in Printers
      /\ phase'[r] # "rendering" /\ \A q \in Objects \ {r} : phase'[q] = phase[q]
  BY IssuanceAssumption, StorageAssumption DEF IssueInv, IssueTypes, Frees, Advances, Die
<1>3. ASSUME NEW q \in Objects
      PROVE  Printing(q)' /\ Served(q)'
  BY <1>f, IssuanceAssumption, StorageAssumption DEF IssueInv, IssueTypes, Placed, Printing, Served
<1>4. Once'
  BY <1>0, RowlessStages DEF IssueInv, Die, Advances, Crash, Reaches, Frees, Alive, Working, storageVars, IssueTypes, Placed, Owning, Once, Indexed, Issued, SameEdition, Uncommitted
<1>5. IssuesAudited'
  BY <1>0, RowlessStages DEF IssueInv, Die, Advances, Crash, Reaches, Frees, Alive, Working, storageVars, IssueTypes, IssuesAudited, Issued
<1>. QED  BY <1>1, <1>2, <1>3, <1>4, <1>5 DEF IssueInv

LEMMA SweepKeeps ==
  ASSUME IssueInv, Sweep
  PROVE  IssueInv'
<1>1. UNCHANGED <<stage, row, asked, phase, stored, printer, audit>>
  BY SweepLeaves DEF issueVars
<1>2. UNCHANGED IssueTypes /\ UNCHANGED Once /\ UNCHANGED IssuesAudited
  BY <1>1 DEF IssueTypes, Once, Indexed, Issued, SameEdition, Uncommitted, IssuesAudited
<1>3. ASSUME NEW q \in Objects
      PROVE  UNCHANGED Placed(q) /\ UNCHANGED Owning(q) /\ UNCHANGED Printing(q) /\ UNCHANGED Served(q)
  BY <1>1 DEF Placed, Owning, Issued, SameEdition, Printing, Served
<1>. QED  BY <1>2, <1>3 DEF IssueInv

-----------------------------------------------------------------------------
(* Issuing is a use of the storage protocol: every step of a request is a  *)
(* step of its object's writer, or none.                                   *)

LEMMA IssueStepRefines ==
  ASSUME [IssueNext]_allVars
  PROVE  [StorageNext]_storageVars
<1>1. ASSUME NEW r \in Objects, NEW d \in Datasets, NEW e \in Editions, ReadDataset(r, d, e)
      PROVE  [StorageNext]_storageVars
  BY <1>1 DEF ReadDataset
<1>2. ASSUME NEW r \in Objects, IssueStep(r)
      PROVE  [StorageNext]_storageVars
  <2>1. CASE Render(r) \/ EndRender(r) \/ ReadBack(r)
    BY <2>1 DEF Render, EndRender, ReadBack
  <2>2. CASE Send(r)
    BY <2>2 DEF Send, StorageNext
  <2>3. CASE Arrive(r) \/ FailUpload(r)
    BY <2>3 DEF Arrive, FailUpload, StorageNext, Writer
  <2>4. CASE Adopt(r)
    BY <2>4 DEF Adopt, StorageNext, Writer
  <2>5. CASE InsertRow(r)
    BY <2>5 DEF InsertRow, StorageNext, Writer
  <2>6. CASE CommitIssue(r) \/ Fail(r)
    BY <2>6 DEF CommitIssue, Fail, StorageNext, Writer
  <2>7. CASE Answer(r)
    BY <2>7 DEF Answer, StorageNext, Writer
  <2>. QED  BY <1>2, <2>1, <2>2, <2>3, <2>4, <2>5, <2>6, <2>7 DEF IssueStep
<1>3. ASSUME NEW r \in Objects, Die(r)
      PROVE  [StorageNext]_storageVars
  BY <1>3 DEF Die, StorageNext, Writer
<1>4. ASSUME Sweep
      PROVE  [StorageNext]_storageVars
  BY <1>4, SweepLeaves
<1>5. ASSUME UNCHANGED allVars
      PROVE  [StorageNext]_storageVars
  BY <1>5 DEF allVars
<1>. QED  BY <1>1, <1>2, <1>3, <1>4, <1>5 DEF IssueNext

(* The detailed specification implements the storage protocol's.           *)
THEOREM IssueRefines == IssueSpec => UsesStorage
<1>1. IssueInit => StorageInit
  BY DEF IssueInit
<1>2. [IssueNext]_allVars => [StorageNext]_storageVars
  BY IssueStepRefines
<1>. QED  BY <1>1, <1>2, PTL DEF IssueSpec, StorageSpec, UsesStorage

LEMMA IssueInitHolds == IssueInit => IssueInv
<1>. SUFFICES ASSUME IssueInit PROVE IssueInv
  OBVIOUS
<1>1. IssueTypes
  BY StorageAssumption DEF IssueInit, IssueTypes
<1>2. \A r \in Objects : ~Issued(r) /\ phase[r] = "none" /\ stage[r] = "none"
  BY DEF IssueInit, StorageInit, Issued
<1>3. \A r \in Objects : Placed(r) /\ Owning(r)
  BY <1>2 DEF Placed, Owning
<1>4. \A r \in Objects : Printing(r) /\ Served(r)
  BY <1>2, IssuanceAssumption, StorageAssumption DEF IssueInit, Printing, Served
<1>5. Once /\ IssuesAudited
  BY <1>2 DEF Once, Indexed, Uncommitted, IssuesAudited, IssueInit
<1>. QED  BY <1>1, <1>3, <1>4, <1>5 DEF IssueInv

LEMMA IssueNextKeeps ==
  ASSUME IssueInv, StorageInv, [IssueNext]_allVars
  PROVE  IssueInv'
<1>1. ASSUME NEW r \in Objects, IssueStep(r) \/ Die(r)
      PROVE  IssueInv'
  BY <1>1, RenderKeeps, EndRenderKeeps, SendKeeps, ArriveKeeps, ReadBackKeeps, FailUploadKeeps,
     AdoptKeeps, InsertRowKeeps, CommitIssueKeeps, FailKeeps, AnswerKeeps, DieKeeps DEF IssueStep
<1>2. ASSUME UNCHANGED allVars
      PROVE  IssueInv'
  <2>1. UNCHANGED <<stage, row, asked, phase, stored, printer, audit>>
    BY <1>2 DEF allVars, storageVars, issueVars
  <2>2. UNCHANGED IssueTypes /\ UNCHANGED Once /\ UNCHANGED IssuesAudited
    BY <2>1 DEF IssueTypes, Once, Indexed, Issued, SameEdition, Uncommitted, IssuesAudited
  <2>3. ASSUME NEW q \in Objects
        PROVE  UNCHANGED Placed(q) /\ UNCHANGED Owning(q) /\ UNCHANGED Printing(q) /\ UNCHANGED Served(q)
    BY <2>1 DEF Placed, Owning, Issued, SameEdition, Printing, Served
  <2>. QED  BY <2>2, <2>3 DEF IssueInv
<1>. QED  BY <1>1, <1>2, ReadDatasetKeeps, SweepKeeps DEF IssueNext

(* The inductive invariant, which rests on the storage protocol's.         *)
THEOREM IssueInvariant == IssueSpec => [](IssueInv /\ StorageInv)
<1>1. IssueInit => IssueInv
  BY IssueInitHolds
<1>2. IssueInv /\ StorageInv /\ [IssueNext]_allVars => IssueInv'
  BY IssueNextKeeps
<1>3. IssueSpec => []StorageInv
  BY IssueRefines, StorageInvariant DEF UsesStorage
<1>. QED  BY <1>1, <1>2, <1>3, PTL DEF IssueSpec

-----------------------------------------------------------------------------
(* What follows.                                                           *)

(* Every variable stays in its domain.                                     *)
THEOREM IssueTypeCorrect == IssueSpec => []IssueTypeOK
<1>1. IssueInv /\ StorageInv => IssueTypeOK
  BY DEF IssueInv, IssueTypes, StorageInv, IssueTypeOK
<1>. QED  BY <1>1, IssueInvariant, PTL

(* An issuance is downloadable and passes its hash as long as it stands.   *)
THEOREM ServedAsIssuedHolds == IssueSpec => []ServedAsIssued
<1>1. IssueInv /\ OwnedBytesKept => ServedAsIssued
  BY DEF IssueInv, Owning, OwnedBytesKept, ServedAsIssued, Issued
<1>2. IssueSpec => []OwnedBytesKept
  BY IssueRefines, OwnedBytesKeptHolds DEF UsesStorage
<1>. QED  BY <1>1, <1>2, IssueInvariant, PTL

(* One issuance of a dataset in a language, a template and its options.    *)
THEOREM IssuedOnceHolds == IssueSpec => []IssuedOnce
<1>1. IssueInv => IssuedOnce
  BY DEF IssueInv, Once, Indexed, IssuedOnce
<1>. QED  BY <1>1, IssueInvariant, PTL

(* The audit log names the issuances, and nothing else.                    *)
THEOREM IssuesAuditedHolds == IssueSpec => []IssuesAudited
<1>1. IssueInv => IssuesAudited
  BY DEF IssueInv
<1>. QED  BY <1>1, IssueInvariant, PTL

(* What a request was answered is, and stays, true.                        *)
THEOREM AnswersTrueHolds == IssueSpec => []AnswersTrue
<1>1. IssueInv => AnswersTrue
  BY DEF IssueInv, Owning, AnswersTrue
<1>. QED  BY <1>1, IssueInvariant, PTL

(* A replica renders one report at a time.                                 *)
THEOREM OneRenderHolds == IssueSpec => []OneRender
<1>1. IssueInv => OneRender
  BY DEF IssueInv, Printing, OneRender
<1>. QED  BY <1>1, IssueInvariant, PTL
=============================================================================
