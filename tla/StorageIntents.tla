---------------------------- MODULE StorageIntents ----------------------------
(***************************************************************************)
(* Bytes in Storage and the rows that own them (StorageIntentsService and  *)
(* its callers: evidence, import sources, issued reports).  Storage has no *)
(* transaction, so the database records what it has committed to: an       *)
(* `upload` intent before the bytes are sent, which the owning row's       *)
(* transaction adopts, and a `delete` intent as the row goes, carried out  *)
(* under a lease by a sweep or by the request itself.                      *)
(*                                                                         *)
(* runNow and sweep are the same claim and the same execution; they differ *)
(* in which due intents they ask for, which time decides and the model     *)
(* leaves open, so both are a Claim by some worker.  A batch is the        *)
(* interleaving of its objects' executions.                                *)
(***************************************************************************)
EXTENDS NoValue, Integers, FiniteSets

CONSTANTS
    Objects,      \* storage keys; each carries a fresh uuid, so one upload each
    Tidiers,      \* executions of claimed intents at one time, over all replicas
    SlowUploads,  \* the objects whose upload may outlive UPLOAD_GRACE_SECONDS
    SlowRemovals, \* whether a removal may outlive CLAIM_LEASE_SECONDS
    MaxIntents    \* bound on the intents ever made for one object

ASSUME StorageAssumption ==
    /\ SlowUploads \subseteq Objects
    /\ SlowRemovals \in BOOLEAN
    /\ MaxIntents \in Nat
    /\ None \notin Tidiers \cup Objects

VARIABLES
    stage,   \* stage[o]: how far the request that uploads o has come
    bytes,   \* bytes[o]: Storage holds the object
    row,     \* row[o]: "none", "owned" (a committed row names o), "gone"
    intent,  \* intent[o]: the storage_intents row of o, unique per object
    minted,  \* minted[o]: how many intents o has had; the newest one's id
    claim    \* claim[w]: the claimed intent worker w executes

storageVars == <<stage, bytes, row, intent, minted, claim>>

(* "sending": the intent is committed, the bytes on their way; "answered": *)
(* Storage has them; "refused": upload(), or the check of what it stored,  *)
(* failed; "open": the row's transaction has adopted the intent;           *)
(* "expired": it found the intent gone; "unopened": the transaction failed *)
(* before it had adopted anything; "failed": the transaction, or its       *)
(* acknowledgement, was lost.  "lapsed": the request ended and named no    *)
(* bytes, for it could not tell whether the row had been committed.        *)
Alive == {"sending", "answered", "refused", "open", "expired", "unopened", "failed"}
Stages == Alive \cup {"none", "ended", "lapsed", "crashed"}

Unleased(kind) == [kind |-> kind, lease |-> None, expired |-> FALSE]
NoIntent == Unleased("none")
Intents == {NoIntent, Unleased("upload")}
             \cup [kind: {"delete"}, lease: Tidiers \cup {None}, expired: BOOLEAN]

NoClaim == [object |-> None, id |-> 0, phase |-> "idle"]
Phases == {"claimed", "unowned", "kept", "removed", "failed"}

Uploading(o) == intent[o].kind = "upload"
Deleting(o) == intent[o].kind = "delete"
HasIntent(o) == intent[o].kind # "none"

StorageInit ==
    /\ stage = [o \in Objects |-> "none"]
    /\ bytes = [o \in Objects |-> FALSE]
    /\ row = [o \in Objects |-> "none"]
    /\ intent = [o \in Objects |-> NoIntent]
    /\ minted = [o \in Objects |-> 0]
    /\ claim = [w \in Tidiers |-> NoClaim]

-----------------------------------------------------------------------------
(* The intents table.                                                      *)

InsertIntent(o, kind) ==
    /\ intent' = [intent EXCEPT ![o] = Unleased(kind)]
    /\ minted' = [minted EXCEPT ![o] = @ + 1]

(* UPDATE ... SET kind = 'delete' of an upload intent.                     *)
TurnIntoDelete(o) ==
    /\ intent' = [intent EXCEPT ![o] = [kind |-> "delete", lease |-> @.lease,
                                        expired |-> @.expired]]
    /\ UNCHANGED minted

(* claimed_until: a lease of w from now on, or none.                       *)
Lease(o, w) == intent' = [intent EXCEPT ![o] = [kind |-> @.kind, lease |-> w, expired |-> FALSE]]

(* enqueueDeletes: a new delete intent, or the existing one reset - its    *)
(* lease cleared, whoever holds it; an upload intent is left alone.        *)
EnqueueDelete(o) ==
    \/ /\ ~HasIntent(o)
       /\ InsertIntent(o, "delete")
    \/ Deleting(o) /\ Lease(o, None) /\ UNCHANGED minted
    \/ Uploading(o) /\ UNCHANGED <<intent, minted>>

Adoptable(o) == Uploading(o)

-----------------------------------------------------------------------------
(* The request that uploads.                                               *)

Reaches(o, next) == stage' = [stage EXCEPT ![o] = next]

BeginUpload(o) ==
    /\ stage[o] = "none"
    /\ Reaches(o, "sending")
    /\ InsertIntent(o, "upload")
    /\ UNCHANGED <<bytes, row, claim>>

Land(o) ==
    /\ stage[o] = "sending"
    /\ Reaches(o, "answered")
    /\ bytes' = [bytes EXCEPT ![o] = TRUE]
    /\ UNCHANGED <<row, intent, minted, claim>>

(* upload() failed with or without the bytes stored, or the stored bytes   *)
(* did not pass the issuance's check.                                      *)
UploadFails(o) ==
    /\ stage[o] \in {"sending", "answered"}
    /\ Reaches(o, "refused")
    /\ UNCHANGED <<bytes, row, intent, minted, claim>>

(* adoptUpload deletes the intent inside the row's transaction: the intent *)
(* row is locked, and gone once the transaction commits.  It may fail      *)
(* before it answers: no connection is free, or the statement fails.       *)
AdoptUpload(o) ==
    /\ stage[o] = "answered"
    /\ \/ Adoptable(o) /\ Reaches(o, "open")
       \/ ~Adoptable(o) /\ Reaches(o, "expired")
       \/ Reaches(o, "unopened")
    /\ UNCHANGED <<bytes, row, intent, minted, claim>>

(* The acknowledgement may be lost: the request then believes it failed.   *)
CommitRow(o) ==
    /\ stage[o] = "open"
    /\ \E next \in {"ended", "failed"} : Reaches(o, next)
    /\ row' = [row EXCEPT ![o] = "owned"]
    /\ intent' = [intent EXCEPT ![o] = NoIntent]
    /\ UNCHANGED <<bytes, minted, claim>>

Rollback(o) ==
    /\ stage[o] = "open"
    /\ Reaches(o, "failed")
    /\ UNCHANGED <<bytes, row, intent, minted, claim>>

(* abandonUpload after another failure than its own adoption: only while   *)
(* the intent is still an upload - otherwise the row may have committed.   *)
AbandonUpload(o) ==
    /\ stage[o] \in {"unopened", "failed"}
    /\ \/ /\ Uploading(o)
          /\ Reaches(o, "ended")
          /\ TurnIntoDelete(o)
       \/ /\ ~Uploading(o)
          /\ Reaches(o, IF stage[o] = "failed" THEN "ended" ELSE "lapsed")
          /\ UNCHANGED <<intent, minted>>
    /\ UNCHANGED <<bytes, row, claim>>

(* abandonUpload after UploadExpiredError, and abandonUnadoptedUpload: no  *)
(* row can own the bytes, so they are named again.                         *)
AbandonUnowned(o) ==
    /\ stage[o] \in {"refused", "expired"}
    /\ Reaches(o, "ended")
    /\ \/ Uploading(o) /\ TurnIntoDelete(o)
       \/ ~Uploading(o) /\ EnqueueDelete(o)
    /\ UNCHANGED <<bytes, row, claim>>

(* The process dies, or cannot reach the database to abandon the upload.   *)
Crash(o) ==
    /\ stage[o] \in Alive \ {"open"}
    /\ Reaches(o, "crashed")
    /\ UNCHANGED <<bytes, row, intent, minted, claim>>

Writer(o) ==
    \/ Land(o) \/ UploadFails(o) \/ AdoptUpload(o) \/ CommitRow(o) \/ Rollback(o)
    \/ AbandonUpload(o) \/ AbandonUnowned(o) \/ Crash(o)

(* A request deletes the owning row: its delete intent commits with it.    *)
DeleteRow(o) ==
    /\ row[o] = "owned"
    /\ row' = [row EXCEPT ![o] = "gone"]
    /\ EnqueueDelete(o)
    /\ UNCHANGED <<stage, bytes, claim>>

(* reclaimOrphans, run by an operator: an object that no row and no intent *)
(* names, old enough (24 h at the least) for no request to be alive.       *)
Reclaim(o) ==
    /\ bytes[o]
    /\ row[o] # "owned"
    /\ ~HasIntent(o)
    /\ stage[o] \notin Alive
    /\ minted[o] < MaxIntents
    /\ EnqueueDelete(o)
    /\ UNCHANGED <<stage, bytes, row, claim>>

-----------------------------------------------------------------------------
(* The sweeper.                                                            *)

(* An upload intent past its grace; SKIP LOCKED passes over one that is    *)
(* being adopted.  Only a slow upload is still alive by then.              *)
AbandonStale(o) ==
    /\ Uploading(o)
    /\ stage[o] # "open"
    /\ stage[o] \in Alive => o \in SlowUploads
    /\ TurnIntoDelete(o)
    /\ UNCHANGED <<stage, bytes, row, claim>>

Claimable(o) ==
    /\ Deleting(o)
    /\ intent[o].lease = None \/ intent[o].expired

LeaseExpires(o) ==
    /\ intent[o].lease # None
    /\ ~intent[o].expired
    /\ SlowRemovals \/ claim[intent[o].lease].object # o
    /\ intent' = [intent EXCEPT ![o].expired = TRUE]
    /\ UNCHANGED <<stage, bytes, row, minted, claim>>

Claim(w, o) ==
    /\ claim[w] = NoClaim
    /\ Claimable(o)
    /\ Lease(o, w)
    /\ claim' = [claim EXCEPT ![w] = [object |-> o, id |-> minted[o], phase |-> "claimed"]]
    /\ UNCHANGED <<stage, bytes, row, minted>>

Works(w, phase) == claim[w].phase = phase
Proceeds(w, phase) == claim' = [claim EXCEPT ![w].phase = phase]

(* ownedPaths; a role that cannot see every row refuses instead.           *)
Judge(w) ==
    /\ Works(w, "claimed")
    /\ \/ row[claim[w].object] = "owned" /\ Proceeds(w, "kept")
       \/ row[claim[w].object] # "owned" /\ Proceeds(w, "unowned")
       \/ Proceeds(w, "failed")
    /\ UNCHANGED <<stage, bytes, row, intent, minted>>

RemoveBytes(w) ==
    /\ Works(w, "unowned")
    /\ bytes' = [bytes EXCEPT ![claim[w].object] = FALSE]
    /\ Proceeds(w, "removed")
    /\ UNCHANGED <<stage, row, intent, minted>>

(* Storage's answer was an error, or lost: the bytes may be gone or not.   *)
RemoveFails(w) ==
    /\ Works(w, "unowned")
    /\ \E gone \in BOOLEAN : bytes' = [bytes EXCEPT ![claim[w].object] = @ /\ ~gone]
    /\ Proceeds(w, "failed")
    /\ UNCHANGED <<stage, row, intent, minted>>

(* The claimed intent is still the object's intent.                        *)
StillThere(w) ==
    /\ HasIntent(claim[w].object)
    /\ minted[claim[w].object] = claim[w].id

(* Mutant: an intent is closed by id alone.                                *)
UnderLeaseById(w) == StillThere(w)
UnderLease(w) == StillThere(w) /\ intent[claim[w].object].lease = w

CloseUnderLease(w) ==
    /\ claim[w].phase \in {"kept", "removed"}
    /\ \/ UnderLease(w) /\ intent' = [intent EXCEPT ![claim[w].object] = NoIntent]
       \/ ~UnderLease(w) /\ UNCHANGED intent
    /\ claim' = [claim EXCEPT ![w] = NoClaim]
    /\ UNCHANGED <<stage, bytes, row, minted>>

(* By id alone: it clears the lease of whoever holds the intent now.       *)
Release(w) ==
    /\ Works(w, "failed")
    /\ \/ StillThere(w) /\ Lease(claim[w].object, None)
       \/ ~StillThere(w) /\ UNCHANGED intent
    /\ claim' = [claim EXCEPT ![w] = NoClaim]
    /\ UNCHANGED <<stage, bytes, row, minted>>

(* The worker's process dies, or its last statement fails: its lease stays. *)
WorkerCrash(w) ==
    /\ claim[w] # NoClaim
    /\ claim' = [claim EXCEPT ![w] = NoClaim]
    /\ UNCHANGED <<stage, bytes, row, intent, minted>>

StorageNext ==
    \/ \E o \in Objects :
         \/ BeginUpload(o) \/ Writer(o) \/ DeleteRow(o) \/ Reclaim(o)
         \/ AbandonStale(o) \/ LeaseExpires(o)
    \/ \E w \in Tidiers :
         \/ \E o \in Objects : Claim(w, o)
         \/ Judge(w) \/ RemoveBytes(w) \/ RemoveFails(w)
         \/ CloseUnderLease(w) \/ Release(w) \/ WorkerCrash(w)

StorageSpec == StorageInit /\ [][StorageNext]_storageVars

(* The sweeper ticks for ever on every replica, time passes, and a request *)
(* goes on or dies.  A removal that is tried again and again is one day    *)
(* confirmed and closed: Storage, the database and the worker may fail, but *)
(* not every time (hence strong fairness).                                 *)
SweeperFairness ==
    /\ \A o \in Objects :
         /\ WF_storageVars(AbandonStale(o)) /\ WF_storageVars(LeaseExpires(o))
         /\ SF_storageVars(\E w \in Tidiers : Claim(w, o))
    /\ \A w \in Tidiers :
         /\ SF_storageVars(Judge(w) /\ Works(w, "unowned")') /\ SF_storageVars(RemoveBytes(w))
         /\ SF_storageVars(CloseUnderLease(w)) /\ WF_storageVars(Release(w))

StorageFairness == SweeperFairness /\ \A o \in Objects : WF_storageVars(Writer(o))

StorageFairSpec == StorageSpec /\ StorageFairness

-----------------------------------------------------------------------------
(* Properties.                                                             *)

(* Every variable stays in its domain; an upload intent is never leased.   *)
StorageTypeOK ==
    /\ stage \in [Objects -> Stages]
    /\ bytes \in [Objects -> BOOLEAN]
    /\ row \in [Objects -> {"none", "owned", "gone"}]
    /\ intent \in [Objects -> Intents]
    /\ minted \in [Objects -> Nat]
    /\ claim \in [Tidiers -> [object: Objects, id: Nat, phase: Phases] \cup {NoClaim}]

(* A row never points at bytes that are gone: no removal, however late or  *)
(* repeated, reaches an object a committed row owns.                       *)
OwnedBytesKept == \A o \in Objects : row[o] = "owned" => bytes[o]

(* The branch of execute() that finds an owned object is unreachable under *)
(* the protocol: a row and an intent never name the same object, nor does  *)
(* a worker hold a claim on an owned one.                                  *)
OwnedOrNamed ==
    \A o \in Objects : row[o] = "owned" =>
        ~HasIntent(o) /\ \A w \in Tidiers : claim[w].object # o

(* Bytes that no row owns are named by an intent, or by a request that is  *)
(* alive and has yet to abandon them.  The exceptions are slow uploads     *)
(* whose intent the sweeper took: the request then dies, or its            *)
(* transaction fails before it could learn that.  reclaimOrphans is for    *)
(* both.                                                                   *)
OrphansNamed ==
    \A o \in Objects : bytes[o] /\ row[o] # "owned" =>
        \/ HasIntent(o)
        \/ stage[o] \in {"answered", "refused", "expired"}
        \/ stage[o] \in {"unopened", "crashed", "lapsed"} /\ o \in SlowUploads

(* Every intent is settled: the upload adopted, or the object removed.     *)
IntentsSettle == \A o \in Objects : HasIntent(o) ~> ~HasIntent(o)

(* "two processes never remove the same object at once".                   *)
OneRemover ==
    \A v \in Tidiers, w \in Tidiers :
        Works(v, "unowned") /\ Works(w, "unowned") /\ v # w => claim[v].object # claim[w].object

(* "late bytes are never left unnamed": whatever fails, a request that     *)
(* lives to answer has named the bytes it stored.                          *)
LateBytesNamed ==
    \A o \in Objects : stage[o] \in {"ended", "lapsed"} /\ bytes[o] /\ row[o] # "owned" => HasIntent(o)

(* "A crash anywhere leaves the intent for the sweeper".                   *)
CrashLeavesIntent ==
    \A o \in Objects : stage[o] = "crashed" /\ bytes[o] /\ row[o] # "owned" => HasIntent(o)
=============================================================================
