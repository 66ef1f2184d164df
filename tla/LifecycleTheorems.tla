-------------------------- MODULE LifecycleTheorems --------------------------
(***************************************************************************)
(* The ledger keeps its promises, for every set of records, periods,       *)
(* files, users and figures; and the lifecycle protocol implements the     *)
(* ledger, for every number of requests in flight.                         *)
(***************************************************************************)
EXTENDS RecordLifecycle, FiniteSetTheorems, TLAPS

USE DEF Exists, Statuses, Live, Editable, PendingReview, Committed

-----------------------------------------------------------------------------
(* The ledger.                                                             *)

(* Each effect stays within the schema.                                    *)
LEMMA DoCreateType ==
    ASSUME LedgerTypeOK, NEW u \in Users, NEW r \in Records, NEW per \in Periods,
           NEW v \in Values, NEW s \in Sites, NEW lib \in 1 .. MaxLibrary,
           DoCreate(u, r, per, v, s, lib)
    PROVE  LedgerTypeOK'
<1>1. NewDraft(u, per, v, s, lib) \in Row
  BY DEF NewDraft, Row, Figure, Figures
<1>2. audit' \in AuditRow
  BY DEF DoCreate, Audited, AuditRow, Actions, Entities
<1>3. record' \in [Records -> Row \cup {Unused, Deleted}]
  BY <1>1 DEF DoCreate, LedgerTypeOK
<1> QED
  BY <1>2, <1>3 DEF DoCreate, LedgerTypeOK

LEMMA DoUpdateType ==
    ASSUME LedgerTypeOK, NEW u \in Users, NEW r \in Records, NEW per \in Periods,
           NEW v \in Values, NEW s \in Sites \cup {None}, NEW fig \in Figures,
           Exists(r), DoUpdate(u, r, per, v, s, fig)
    PROVE  LedgerTypeOK'
<1>1. record[r] \in Row
  BY DEF LedgerTypeOK, Unused, Deleted
<1>2. audit' \in AuditRow
  BY <1>1 DEF DoUpdate, Audited, AuditRow, Actions, Entities, Row
<1>3. record' \in [Records -> Row \cup {Unused, Deleted}]
  BY <1>1 DEF DoUpdate, LedgerTypeOK, Row
<1> QED
  BY <1>2, <1>3 DEF DoUpdate, LedgerTypeOK

LEMMA UnlinkedType ==
    ASSUME NEW fs \in SUBSET Files, NEW ls
    PROVE  Unlinked(fs, ls) \in SUBSET Files
  BY DEF Unlinked

LEMMA DropLinksType ==
    ASSUME LedgerTypeOK, NEW gone, NEW fs, DropLinks(gone, fs)
    PROVE  /\ links' \subseteq Records \X Files
           /\ files' \in [Files -> {"none", "stored", "deleted"}]
  BY DEF LedgerTypeOK, DropLinks

LEMMA DoRemoveType ==
    ASSUME LedgerTypeOK, NEW u \in Users, NEW r \in Records, NEW fs,
           Exists(r), DoRemove(u, r, fs)
    PROVE  LedgerTypeOK'
<1>1. audit' \in AuditRow
  BY DEF DoRemove, Audited, AuditRow, Actions, Entities
<1>2. record' \in [Records -> Row \cup {Unused, Deleted}]
  BY DEF DoRemove, LedgerTypeOK
<1> QED
  BY <1>1, <1>2, DropLinksType DEF DoRemove, LedgerTypeOK

LEMMA DoTransitionType ==
    ASSUME LedgerTypeOK, NEW u \in Users, NEW r \in Records, NEW action \in Actions,
           NEW from \in Statuses, NEW to \in Live,
           Exists(r), DoTransition(u, r, action, from, to)
    PROVE  LedgerTypeOK'
<1>1. record[r] \in Row
  BY DEF LedgerTypeOK, Unused, Deleted
<1>2. audit' \in AuditRow
  BY DEF DoTransition, Audited, AuditRow, Actions, Entities
<1>3. record' \in [Records -> Row \cup {Unused, Deleted}]
  BY <1>1 DEF DoTransition, LedgerTypeOK, Row
<1> QED
  BY <1>2, <1>3 DEF DoTransition, LedgerTypeOK

LEMMA FlippedType ==
    ASSUME LedgerTypeOK, NEW per, NEW from, NEW to \in Live
    PROVE  Flipped(per, from, to) \in [Records -> Row \cup {Unused, Deleted}]
<1>1. ASSUME NEW r \in InPeriod(per, {from})
      PROVE  [record[r] EXCEPT !.status = to] \in Row
  BY DEF LedgerTypeOK, InPeriod, Unused, Deleted, Row
<1> QED
  BY <1>1 DEF Flipped, LedgerTypeOK

LEMMA DoLockType ==
    ASSUME LedgerTypeOK, NEW u \in Users, NEW per \in Periods,
           DoLock(u, per) \/ DoUnlock(u, per)
    PROVE  LedgerTypeOK'
<1>1. CASE DoLock(u, per)
  BY <1>1, FlippedType DEF DoLock, Audited, AuditRow, Actions, Entities, LedgerTypeOK
<1>2. CASE DoUnlock(u, per)
  BY <1>2, FlippedType DEF DoUnlock, Audited, AuditRow, Actions, Entities, LedgerTypeOK
<1> QED
  BY <1>1, <1>2

LEMMA DoFileType ==
    ASSUME LedgerTypeOK, NEW u \in Users, NEW f \in Files,
           \/ \E rs \in SUBSET Records : DoUpload(u, rs, f)
           \/ \E r \in Records, doomed \in SUBSET Files : DoDetach(u, r, f, doomed)
           \/ DoRemoveFile(u, f)
    PROVE  LedgerTypeOK'
<1>1. audit' \in AuditRow
  <2>1. CASE \E rs \in SUBSET Records : DoUpload(u, rs, f)
    BY <2>1 DEF DoUpload, Audited, AuditRow, Actions, Entities
  <2>2. CASE \E r \in Records, doomed \in SUBSET Files : DoDetach(u, r, f, doomed)
    BY <2>2 DEF DoDetach, Audited, AuditRow, Actions, Entities
  <2>3. CASE DoRemoveFile(u, f)
    BY <2>3 DEF DoRemoveFile, Audited, AuditRow, Actions, Entities
  <2> QED
    BY <2>1, <2>2, <2>3
<1>2. UNCHANGED <<record, closed, library>>
  BY DEF DoUpload, DoDetach, DoRemoveFile
<1>3. /\ links' \subseteq Records \X Files
      /\ files' \in [Files -> {"none", "stored", "deleted"}]
  <2>1. CASE \E rs \in SUBSET Records : DoUpload(u, rs, f)
    BY <2>1 DEF DoUpload, LedgerTypeOK
  <2>2. CASE \E r \in Records, doomed \in SUBSET Files : DoDetach(u, r, f, doomed)
    BY <2>2, DropLinksType DEF DoDetach
  <2>3. CASE DoRemoveFile(u, f)
    BY <2>3 DEF DoRemoveFile, LedgerTypeOK
  <2> QED
    BY <2>1, <2>2, <2>3
<1> QED
  BY <1>1, <1>2, <1>3 DEF LedgerTypeOK

LEMMA PublishType ==
    ASSUME LedgerTypeOK, Publish
    PROVE  LedgerTypeOK'
<1>1. library' \in 1 .. MaxLibrary
  BY LedgerAssumption DEF Publish, LedgerTypeOK
<1> QED
  BY <1>1 DEF Publish, LedgerTypeOK

LEMMA LedgerInitType == LedgerInit => LedgerTypeOK
  BY LedgerAssumption DEF LedgerInit, LedgerTypeOK

LEMMA FigureType ==
    ASSUME NEW v \in Values, NEW s \in Sites, NEW lib \in 1 .. MaxLibrary
    PROVE  Figure(v, s, lib) \in Figures
  BY DEF Figure, Figures

(* The releases an operation may have read are releases.                   *)
LEMMA ReleaseType ==
    ASSUME LedgerTypeOK, NEW lib \in 1 .. library
    PROVE  lib \in 1 .. MaxLibrary
  BY LedgerAssumption DEF LedgerTypeOK

LEMMA LedgerNextType ==
    ASSUME LedgerTypeOK, [LedgerNext]_ledgerVars
    PROVE  LedgerTypeOK'
<1>1. ASSUME NEW u \in Users, NEW r \in Records, Create(u, r)
      PROVE  LedgerTypeOK'
  BY <1>1, DoCreateType, ReleaseType DEF Create
<1>2. ASSUME NEW u \in Users, NEW r \in Records, Update(u, r)
      PROVE  LedgerTypeOK'
  <2>1. PICK per \in Periods, v \in Values, s \in Sites \cup {None}, lib \in 1 .. library :
          /\ Exists(r)
          /\ DoUpdate(u, r, per, v, s,
                      Figure(v, IF s = None THEN record[r].site ELSE s, lib))
    BY <1>2 DEF Update
  <2>2. record[r] \in Row
    BY <2>1 DEF LedgerTypeOK, Unused, Deleted
  <2>3. Figure(v, IF s = None THEN record[r].site ELSE s, lib) \in Figures
    BY <2>2, FigureType, ReleaseType DEF Row
  <2> QED
    BY <2>1, <2>3, DoUpdateType
<1>3. ASSUME NEW u \in Users, NEW r \in Records, Remove(u, r)
      PROVE  LedgerTypeOK'
  BY <1>3, DoRemoveType DEF Remove
<1>4. ASSUME NEW u \in Users, NEW r \in Records,
             \/ Submit(u, r) \/ StartReview(u, r) \/ Approve(u, r)
             \/ Reject(u, r) \/ Void(u, r)
      PROVE  LedgerTypeOK'
  <2>1. Exists(r)
    BY <1>4 DEF Submit, StartReview, Approve, Reject, Void,
                MaySubmit, MayStartReview, MayApproveRecord, MayReject, MayVoid
  <2>2. PICK action \in Actions, to \in Live : DoTransition(u, r, action, record[r].status, to)
    BY <1>4 DEF Submit, StartReview, Approve, Reject, Void, Actions
  <2> QED
    BY <2>1, <2>2, DoTransitionType
<1>5. ASSUME NEW u \in Users, NEW per \in Periods, Lock(u, per) \/ Unlock(u, per)
      PROVE  LedgerTypeOK'
  BY <1>5, DoLockType DEF Lock, Unlock
<1>6. ASSUME NEW u \in Users, NEW f \in Files,
             \/ \E rs \in SUBSET Records : Upload(u, rs, f)
             \/ \E r \in Records : Detach(u, r, f)
             \/ RemoveFile(u, f)
      PROVE  LedgerTypeOK'
  BY <1>6, DoFileType, UnlinkedType DEF Upload, Detach, RemoveFile
<1>7. ASSUME Publish
      PROVE  LedgerTypeOK'
  BY <1>7, PublishType
<1>8. CASE UNCHANGED ledgerVars
  BY <1>8 DEF ledgerVars, LedgerTypeOK
<1> QED
  BY <1>1, <1>2, <1>3, <1>4, <1>5, <1>6, <1>7, <1>8 DEF LedgerNext

(* Every reachable ledger is one the schema allows.                        *)
THEOREM LedgerTypeCorrect == LedgerSpec => []LedgerTypeOK
<1>1. LedgerInit => LedgerTypeOK
  BY LedgerInitType
<1>2. LedgerTypeOK /\ [LedgerNext]_ledgerVars => LedgerTypeOK'
  BY LedgerNextType
<1> QED
  BY <1>1, <1>2, PTL DEF LedgerSpec

-----------------------------------------------------------------------------
(* What each kind of operation does to a record, in the terms the          *)
(* invariants speak of.                                                    *)

LEMMA DraftStatus ==
    ASSUME NEW u, NEW per, NEW v, NEW s, NEW lib
    PROVE  /\ NewDraft(u, per, v, s, lib).status = "draft"
           /\ NewDraft(u, per, v, s, lib).period = per
           /\ NewDraft(u, per, v, s, lib).value = v
           /\ NewDraft(u, per, v, s, lib).site = s
           /\ NewDraft(u, per, v, s, lib).figure = Figure(v, s, lib)
           /\ NewDraft(u, per, v, s, lib).submittedBy = None
  BY DEF NewDraft

(* A new draft in a free slot of an open period.                           *)
Drafted(u, r, per, v, s, lib) ==
    /\ record[r] = Unused
    /\ record'[r] = NewDraft(u, per, v, s, lib)
    /\ per \notin closed
    /\ SlotFree(r, per, s)
    /\ \A other \in Records \ {r} : record'[other] = record[other]
    /\ closed' = closed /\ links' = links /\ files' = files

LEMMA CreateEffect ==
    ASSUME LedgerTypeOK, NEW u \in Users, NEW r \in Records, Create(u, r)
    PROVE  \E per \in Periods, v \in Values, s \in Sites, lib \in 1 .. library :
              Drafted(u, r, per, v, s, lib)
  BY DEF Create, DoCreate, LedgerTypeOK, Drafted

(* An edited row, recomputed, within open periods.                         *)
Edited(r, per, v, s, lib) ==
    /\ record[r] \in Row
    /\ record[r].status \in Editable
    /\ record[r].period \notin closed
    /\ record'[r].status = record[r].status
    /\ record'[r].period = per
    /\ record'[r].value = v
    /\ record'[r].site = s
    /\ record'[r].figure = Figure(v, s, lib)
    /\ record'[r].createdBy = record[r].createdBy
    /\ record'[r].submittedBy = record[r].submittedBy
    /\ record'[r].reviewedBy = record[r].reviewedBy
    /\ per \notin closed
    /\ SlotFree(r, per, s)
    /\ \A other \in Records \ {r} : record'[other] = record[other]
    /\ closed' = closed /\ links' = links /\ files' = files

LEMMA UpdateEffect ==
    ASSUME LedgerTypeOK, NEW u \in Users, NEW r \in Records, Update(u, r)
    PROVE  \E per \in Periods, v \in Values, s \in Sites, lib \in 1 .. library :
              Edited(r, per, v, s, lib)
<1>1. record[r] \in Row
  BY DEF Update, LedgerTypeOK, Unused, Deleted
<1>2. PICK per \in Periods, v \in Values, s \in Sites \cup {None}, lib \in 1 .. library :
        LET site == IF s = None THEN record[r].site ELSE s IN
        /\ MayMutate(u, r) /\ Open(r) /\ per \notin closed /\ SlotFree(r, per, site)
        /\ DoUpdate(u, r, per, v, s, Figure(v, site, lib))
  BY DEF Update
<1> DEFINE site == IF s = None THEN record[r].site ELSE s
<1>3. site \in Sites
  BY <1>1 DEF Row
<1>4. /\ record'[r].status = record[r].status
      /\ record'[r].period = per
      /\ record'[r].value = v
      /\ record'[r].site = site
      /\ record'[r].figure = Figure(v, site, lib)
      /\ record'[r].createdBy = record[r].createdBy
      /\ record'[r].submittedBy = record[r].submittedBy
      /\ record'[r].reviewedBy = record[r].reviewedBy
  BY <1>1, <1>2 DEF DoUpdate, LedgerTypeOK, Row
<1>5. \A other \in Records \ {r} : record'[other] = record[other]
  BY <1>2 DEF DoUpdate, LedgerTypeOK
<1>6. closed' = closed /\ links' = links /\ files' = files
  BY <1>2 DEF DoUpdate
<1> QED
  BY <1>1, <1>2, <1>3, <1>4, <1>5, <1>6 DEF MayMutate, Open, Edited

(* What a change of status leaves alone.                                   *)
SameInput(r) ==
    /\ record'[r].period = record[r].period
    /\ record'[r].value = record[r].value
    /\ record'[r].site = record[r].site
    /\ record'[r].figure = record[r].figure
    /\ record'[r].createdBy = record[r].createdBy

(* A transition of a record whose period is open, with its gate.           *)
Reviewed(u, r, to) ==
    /\ record[r] \in Row
    /\ record[r].period \notin closed
    /\ to \in {"submitted", "under_review", "approved", "rejected", "voided"}
    /\ record'[r].status = to
    /\ record'[r].submittedBy = IF to = "submitted" THEN u ELSE record[r].submittedBy
    /\ record'[r].reviewedBy = IF IsReviewOutcome(to) THEN u ELSE record[r].reviewedBy
    /\ SameInput(r)
    /\ to = "submitted" => MaySubmit(u, r)
    /\ to = "approved" => MayApproveRecord(u, r)
    /\ to \in {"under_review", "rejected"} => record[r].status \in PendingReview
    /\ to = "voided" => record[r].status = "approved"
    /\ \A other \in Records \ {r} : record'[other] = record[other]
    /\ closed' = closed /\ links' = links /\ files' = files

TransitionOp(u, r) ==
    \/ Submit(u, r) \/ StartReview(u, r) \/ Approve(u, r) \/ Reject(u, r) \/ Void(u, r)

LEMMA TransitionEffect ==
    ASSUME LedgerTypeOK, NEW u \in Users, NEW r \in Records, TransitionOp(u, r)
    PROVE  \E to \in Live : Reviewed(u, r, to)
<1>1. record[r] \in Row /\ record[r].period \notin closed
  BY DEF TransitionOp, Submit, StartReview, Approve, Reject, Void, LedgerTypeOK, Unused, Deleted,
         MaySubmit, MayStartReview, MayApproveRecord, MayReject, MayVoid, Open
<1>2. PICK action \in Actions, to \in Live :
        /\ DoTransition(u, r, action, record[r].status, to)
        /\ to \in {"submitted", "under_review", "approved", "rejected", "voided"}
        /\ to = "submitted" => MaySubmit(u, r)
        /\ to = "approved" => MayApproveRecord(u, r)
        /\ to \in {"under_review", "rejected"} => record[r].status \in PendingReview
        /\ to = "voided" => record[r].status = "approved"
  BY DEF TransitionOp, Submit, StartReview, Approve, Reject, Void, MayStartReview, MayReject,
         MayVoid, Actions
<1>3. /\ record'[r].status = to
      /\ record'[r].submittedBy = IF to = "submitted" THEN u ELSE record[r].submittedBy
      /\ record'[r].reviewedBy = IF IsReviewOutcome(to) THEN u ELSE record[r].reviewedBy
      /\ SameInput(r)
  BY <1>1, <1>2 DEF DoTransition, LedgerTypeOK, Row, SameInput
<1>4. /\ \A other \in Records \ {r} : record'[other] = record[other]
      /\ closed' = closed /\ links' = links /\ files' = files
  BY <1>2 DEF DoTransition, LedgerTypeOK
<1> QED
  BY <1>1, <1>2, <1>3, <1>4 DEF Reviewed

LEMMA FlipEffect ==
    ASSUME LedgerTypeOK, NEW per, NEW from \in Live, NEW to \in Live,
           record' = Flipped(per, from, to), NEW r \in Records
    PROVE  \/ /\ record[r] \in Row /\ record[r].period = per /\ record[r].status = from
              /\ record'[r].status = to /\ SameInput(r)
              /\ record'[r].submittedBy = record[r].submittedBy
              /\ record'[r].reviewedBy = record[r].reviewedBy
           \/ /\ ~(Exists(r) /\ record[r].period = per /\ record[r].status = from)
              /\ record'[r] = record[r]
  BY DEF LedgerTypeOK, Flipped, InPeriod, Unused, Deleted, Row, SameInput

-----------------------------------------------------------------------------
(* Closing a period.                                                       *)

LEMMA SealedNext ==
    ASSUME LedgerTypeOK, ClosedPeriodSealed, [LedgerNext]_ledgerVars
    PROVE  ClosedPeriodSealed'
<1> SUFFICES ASSUME NEW x \in Records, Exists(x)'
             PROVE  /\ record'[x].period \in closed'
                         => record'[x].status \in {"draft", "locked", "voided"}
                    /\ record'[x].status = "locked" => record'[x].period \in closed'
  BY DEF ClosedPeriodSealed
<1>0. CASE record'[x] = record[x] /\ closed' = closed
  BY <1>0 DEF ClosedPeriodSealed
<1>1. ASSUME NEW u \in Users, NEW r \in Records, Create(u, r)
      PROVE  /\ x # r => record'[x] = record[x] /\ closed' = closed
             /\ x = r => record'[x].status = "draft"
  <2>1. PICK per \in Periods, v \in Values, s \in Sites, lib \in 1 .. library :
          Drafted(u, r, per, v, s, lib)
    BY <1>1, CreateEffect
  <2> QED
    BY <2>1, DraftStatus DEF Drafted
<1>3. ASSUME NEW u \in Users, NEW r \in Records, Update(u, r)
      PROVE  /\ x # r => record'[x] = record[x] /\ closed' = closed
             /\ x = r => record'[x].period \notin closed' /\ record'[x].status # "locked"
  <2>1. PICK per \in Periods, v \in Values, s \in Sites, lib \in 1 .. library :
          Edited(r, per, v, s, lib)
    BY <1>3, UpdateEffect
  <2> QED
    BY <2>1 DEF Edited
<1>5. ASSUME NEW u \in Users, NEW r \in Records, Remove(u, r)
      PROVE  record'[x] = record[x] /\ closed' = closed
  BY <1>5 DEF Remove, DoRemove, Deleted, LedgerTypeOK
<1>6. ASSUME NEW u \in Users, NEW r \in Records, TransitionOp(u, r)
      PROVE  \/ record'[x] = record[x] /\ closed' = closed
             \/ record'[x].period \notin closed' /\ record'[x].status # "locked"
  <2>1. PICK to \in Live : Reviewed(u, r, to)
    BY <1>6, TransitionEffect
  <2> QED
    BY <2>1 DEF Reviewed, SameInput
<1>7. ASSUME NEW u \in Users, NEW per \in Periods, Lock(u, per)
      PROVE  /\ record'[x].period \in closed'
                  => record'[x].status \in {"draft", "locked", "voided"}
             /\ record'[x].status = "locked" => record'[x].period \in closed'
  <2>1. /\ closed' = closed \cup {per}
        /\ InPeriod(per, LockBlocking) = {}
        /\ record' = Flipped(per, "approved", "locked")
    BY <1>7 DEF Lock, MayLock, DoLock
  <2>2. Exists(x) /\ record[x].period = per => record[x].status \notin LockBlocking
    BY <2>1 DEF InPeriod
  <2>3. CASE /\ record[x] \in Row /\ record[x].period = per
             /\ record'[x].status = "locked" /\ SameInput(x)
    BY <2>1, <2>3 DEF SameInput
  <2>4. CASE /\ ~(Exists(x) /\ record[x].period = per /\ record[x].status = "approved")
             /\ record'[x] = record[x]
    BY <2>1, <2>2, <2>4 DEF ClosedPeriodSealed, LockBlocking
  <2> QED
    BY <2>1, <2>3, <2>4, FlipEffect
<1>8. ASSUME NEW u \in Users, NEW per \in Periods, Unlock(u, per)
      PROVE  /\ record'[x].period \in closed'
                  => record'[x].status \in {"draft", "locked", "voided"}
             /\ record'[x].status = "locked" => record'[x].period \in closed'
  <2>1. closed' = closed \ {per} /\ record' = Flipped(per, "locked", "approved")
    BY <1>8 DEF Unlock, DoUnlock
  <2>2. CASE /\ record[x] \in Row /\ record[x].period = per
             /\ record'[x].status = "approved" /\ SameInput(x)
    BY <2>1, <2>2 DEF SameInput
  <2>3. CASE /\ ~(Exists(x) /\ record[x].period = per /\ record[x].status = "locked")
             /\ record'[x] = record[x]
    BY <2>1, <2>3 DEF ClosedPeriodSealed
  <2> QED
    BY <2>1, <2>2, <2>3, FlipEffect
<1>9. ASSUME NEW u \in Users, NEW f \in Files,
             \/ \E rs \in SUBSET Records : Upload(u, rs, f)
             \/ \E r \in Records : Detach(u, r, f)
             \/ RemoveFile(u, f)
      PROVE  record' = record /\ closed' = closed
  BY <1>9 DEF Upload, DoUpload, Detach, DoDetach, RemoveFile, DoRemoveFile
<1>10. CASE Publish \/ UNCHANGED ledgerVars
  BY <1>0, <1>10 DEF Publish, ledgerVars
<1> QED
  BY <1>0, <1>1, <1>3, <1>5, <1>6, <1>7, <1>8, <1>9, <1>10
  DEF LedgerNext, TransitionOp

(* A period that is closed holds no figure awaiting review and no approved *)
(* one, and a locked figure lies in a closed period - whatever the order   *)
(* of submits, approvals, moves, locks and unlocks.                        *)
THEOREM SealedCorrect == LedgerSpec => []ClosedPeriodSealed
<1>1. LedgerInit => ClosedPeriodSealed
  BY LedgerAssumption DEF LedgerInit, ClosedPeriodSealed, Unused
<1>2. LedgerTypeOK /\ ClosedPeriodSealed /\ [LedgerNext]_ledgerVars => ClosedPeriodSealed'
  BY SealedNext
<1> QED
  BY <1>1, <1>2, LedgerTypeCorrect, PTL DEF LedgerSpec

-----------------------------------------------------------------------------
(* Four eyes.  The approver differs from the submitter because only the    *)
(* creator submits, and that is what the strengthening remembers.          *)
OnlyCreatorSubmits ==
    \A r \in Records : Exists(r) => record[r].submittedBy \in {None, record[r].createdBy}

FourEyesInv == FourEyes /\ OnlyCreatorSubmits

LEMMA FourEyesNext ==
    ASSUME LedgerTypeOK, FourEyesInv, [LedgerNext]_ledgerVars
    PROVE  FourEyesInv'
<1> DEFINE Good(x) ==
             /\ record[x].status \in Committed \cup {"voided"} =>
                  /\ record[x].reviewedBy \in Users
                  /\ MayApprove(record[x].reviewedBy)
                  /\ record[x].reviewedBy \notin {record[x].createdBy, record[x].submittedBy}
             /\ Exists(x) => record[x].submittedBy \in {None, record[x].createdBy}
<1> SUFFICES ASSUME NEW x \in Records
             PROVE  Good(x)'
  BY DEF FourEyesInv, FourEyes, OnlyCreatorSubmits, MayApprove
<1>0. Good(x)
  BY DEF FourEyesInv, FourEyes, OnlyCreatorSubmits
<1>1. ASSUME record'[x] = record[x]
      PROVE  Good(x)'
  BY <1>0, <1>1 DEF MayApprove
<1>2. ASSUME NEW u \in Users, NEW r \in Records, Create(u, r)
      PROVE  Good(x)'
  <2>1. PICK per \in Periods, v \in Values, s \in Sites, lib \in 1 .. library :
          Drafted(u, r, per, v, s, lib)
    BY <1>2, CreateEffect
  <2> QED
    BY <1>1, <2>1, DraftStatus DEF Drafted, MayApprove
<1>3. ASSUME NEW u \in Users, NEW r \in Records, Update(u, r)
      PROVE  Good(x)'
  <2>1. PICK per \in Periods, v \in Values, s \in Sites, lib \in 1 .. library :
          Edited(r, per, v, s, lib)
    BY <1>3, UpdateEffect
  <2>2. CASE x # r
    BY <1>1, <2>1, <2>2 DEF Edited
  <2>3. CASE x = r
    BY <1>0, <2>1, <2>3 DEF Edited
  <2> QED
    BY <2>2, <2>3
<1>4. ASSUME NEW u \in Users, NEW r \in Records, Remove(u, r)
      PROVE  Good(x)'
  BY <1>1, <1>4 DEF Remove, DoRemove, Deleted, LedgerTypeOK
<1>5. ASSUME NEW u \in Users, NEW r \in Records, TransitionOp(u, r)
      PROVE  Good(x)'
  <2>1. PICK to \in Live : Reviewed(u, r, to)
    BY <1>5, TransitionEffect
  <2>2. CASE x # r
    BY <1>1, <2>1, <2>2 DEF Reviewed
  <2>3. CASE x = r /\ to = "submitted"
    BY <2>1, <2>3 DEF Reviewed, SameInput, MaySubmit
  <2>4. CASE x = r /\ to = "approved"
    <3>1. u # record[x].createdBy /\ MayApprove(u) /\ Exists(x)
      BY <2>1, <2>4 DEF Reviewed, MayApproveRecord
    <3>2. record[x].submittedBy \in {None, record[x].createdBy}
      BY <1>0, <3>1
    <3>3. record'[x].reviewedBy = u /\ record'[x].createdBy = record[x].createdBy
          /\ record'[x].submittedBy = record[x].submittedBy
      BY <2>1, <2>4 DEF Reviewed, SameInput, IsReviewOutcome
    <3> QED
      BY <3>1, <3>2, <3>3, LedgerAssumption DEF MayApprove
  <2>5. CASE x = r /\ to \in {"under_review", "rejected"}
    BY <1>0, <2>1, <2>5 DEF Reviewed, SameInput
  <2>6. CASE x = r /\ to = "voided"
    BY <1>0, <2>1, <2>6 DEF Reviewed, SameInput, IsReviewOutcome, MayApprove
  <2> QED
    BY <2>1, <2>2, <2>3, <2>4, <2>5, <2>6 DEF Reviewed
<1>6. ASSUME NEW u \in Users, NEW per \in Periods, Lock(u, per) \/ Unlock(u, per)
      PROVE  Good(x)'
  <2>1. PICK from \in Committed, to \in Committed : record' = Flipped(per, from, to)
    BY <1>6 DEF Lock, DoLock, Unlock, DoUnlock
  <2>2. CASE /\ record[x] \in Row /\ record[x].status = from
             /\ record'[x].status = to /\ SameInput(x)
             /\ record'[x].submittedBy = record[x].submittedBy
             /\ record'[x].reviewedBy = record[x].reviewedBy
    BY <1>0, <2>1, <2>2 DEF SameInput, MayApprove
  <2> QED
    BY <1>1, <2>1, <2>2, FlipEffect
<1>7. ASSUME NEW u \in Users, NEW f \in Files,
             \/ \E rs \in SUBSET Records : Upload(u, rs, f)
             \/ \E r \in Records : Detach(u, r, f)
             \/ RemoveFile(u, f)
      PROVE  Good(x)'
  BY <1>1, <1>7 DEF Upload, DoUpload, Detach, DoDetach, RemoveFile, DoRemoveFile
<1>8. CASE Publish \/ UNCHANGED ledgerVars
  BY <1>1, <1>8 DEF Publish, ledgerVars
<1> QED
  BY <1>2, <1>3, <1>4, <1>5, <1>6, <1>7, <1>8 DEF LedgerNext, TransitionOp

(* Nobody approves a figure they created or submitted, over any history of *)
(* rejections, edits and resubmissions.                                    *)
THEOREM FourEyesCorrect == LedgerSpec => []FourEyes
<1>1. LedgerInit => FourEyesInv
  <2> SUFFICES ASSUME LedgerInit, NEW r \in Records, Exists(r)
               PROVE  record[r].status = "draft" /\ record[r].submittedBy = None
    BY DEF FourEyesInv, FourEyes, OnlyCreatorSubmits
  <2> QED
    BY LedgerAssumption DEF LedgerInit, Unused
<1>2. LedgerTypeOK /\ FourEyesInv /\ [LedgerNext]_ledgerVars => FourEyesInv'
  BY FourEyesNext
<1>3. FourEyesInv => FourEyes
  BY DEF FourEyesInv
<1> QED
  BY <1>1, <1>2, <1>3, LedgerTypeCorrect, PTL DEF LedgerSpec

-----------------------------------------------------------------------------
(* Evidence.  A file is stored exactly while a link names it, so a record  *)
(* that needs a file keeps it as long as it keeps a link; only an editable *)
(* record can lose one.                                                    *)
EvidenceInv == NoOrphanFile /\ EvidenceKept

Backed(x) == record[x].status \in Live \ Editable => FilesOf(x) # {}

LEMMA EvidenceIsLinks ==
    ASSUME LedgerTypeOK, NoOrphanFile
    PROVE  EvidenceKept <=> \A x \in EvidenceRequired : Backed(x)
  BY LedgerAssumption DEF LedgerTypeOK, NoOrphanFile, EvidenceKept, Backed, FilesOf, HoldersOf

LEMMA EvidenceIsLinksNext ==
    ASSUME LedgerTypeOK', NoOrphanFile', \A x \in EvidenceRequired : Backed(x)'
    PROVE  EvidenceKept'
  BY LedgerAssumption DEF LedgerTypeOK, NoOrphanFile, EvidenceKept, Backed, FilesOf, HoldersOf

(* Dropping links with the rows they leave unlinked orphans nothing.       *)
LEMMA DropLinksClean ==
    ASSUME LedgerTypeOK, NoOrphanFile, NEW gone \in SUBSET links, NEW fs \in SUBSET Files,
           DropLinks(gone, Unlinked(fs, links \ gone)), \A l \in gone : l[2] \in fs
    PROVE  \A f \in Files : files'[f] = "stored" <=> HoldersOf(f)' # {}
<1> SUFFICES ASSUME NEW f \in Files
             PROVE  files'[f] = "stored" <=> \E r \in Records : <<r, f>> \in links'
  BY DEF HoldersOf
<1>1. files[f] = "stored" <=> \E r \in Records : <<r, f>> \in links
  BY DEF NoOrphanFile, HoldersOf
<1>2. links' = links \ gone
  BY DEF DropLinks
<1>3. files'[f] = IF f \in fs /\ \A r \in Records : <<r, f>> \notin links'
                    THEN "deleted" ELSE files[f]
  BY DEF DropLinks, Unlinked
<1>4. CASE f \in fs
  BY <1>1, <1>2, <1>3, <1>4
<1>5. CASE f \notin fs
  <2>1. ASSUME NEW r \in Records, <<r, f>> \in gone
        PROVE  FALSE
    BY <1>5, <2>1
  <2> QED
    BY <1>1, <1>2, <1>3, <1>5, <2>1
<1> QED
  BY <1>4, <1>5

LEMMA NoOrphanNext ==
    ASSUME LedgerTypeOK, NoOrphanFile, [LedgerNext]_ledgerVars
    PROVE  NoOrphanFile'
<1>1. ASSUME UNCHANGED <<links, files>>, \A r \in Records : Exists(r) => Exists(r)'
      PROVE  NoOrphanFile'
  BY <1>1 DEF NoOrphanFile, HoldersOf, LedgerTypeOK
<1>2. ASSUME NEW u \in Users, NEW r \in Records, Create(u, r)
      PROVE  NoOrphanFile'
  <2>1. PICK per \in Periods, v \in Values, s \in Sites, lib \in 1 .. library :
          Drafted(u, r, per, v, s, lib)
    BY <1>2, CreateEffect
  <2> QED
    BY <1>1, <2>1, DraftStatus DEF Drafted
<1>3. ASSUME NEW u \in Users, NEW r \in Records, Update(u, r)
      PROVE  NoOrphanFile'
  <2>1. PICK per \in Periods, v \in Values, s \in Sites, lib \in 1 .. library :
          Edited(r, per, v, s, lib)
    BY <1>3, UpdateEffect
  <2> QED
    BY <1>1, <2>1 DEF Edited
<1>4. ASSUME NEW u \in Users, NEW r \in Records, Remove(u, r)
      PROVE  NoOrphanFile'
  <2> DEFINE gone == {l \in links : l[1] = r}
  <2>1. /\ DropLinks(gone, Unlinked(FilesOf(r), links \ gone))
        /\ record' = [record EXCEPT ![r] = Deleted]
    BY <1>4 DEF Remove, DoRemove, LinksOf
  <2>2. ASSUME NEW l \in gone
        PROVE  l[2] \in FilesOf(r)
    BY DEF FilesOf, LedgerTypeOK
  <2>3. FilesOf(r) \in SUBSET Files
    BY DEF FilesOf
  <2>4. \A f \in Files : files'[f] = "stored" <=> HoldersOf(f)' # {}
    BY <2>1, <2>2, <2>3, DropLinksClean
  <2>5. ASSUME NEW l \in links'
        PROVE  Exists(l[1])'
    BY <2>1 DEF DropLinks, NoOrphanFile, LedgerTypeOK
  <2> QED
    BY <2>4, <2>5 DEF NoOrphanFile
<1>5. ASSUME NEW u \in Users, NEW r \in Records, TransitionOp(u, r)
      PROVE  NoOrphanFile'
  BY <1>1, <1>5, TransitionEffect DEF Reviewed
<1>6. ASSUME NEW u \in Users, NEW per \in Periods, Lock(u, per) \/ Unlock(u, per)
      PROVE  NoOrphanFile'
  <2>1. PICK from \in Committed, to \in Committed : record' = Flipped(per, from, to)
    BY <1>6 DEF Lock, DoLock, Unlock, DoUnlock
  <2>2. \A r \in Records : Exists(r) => Exists(r)'
    BY <2>1, FlipEffect
  <2> QED
    BY <1>1, <1>6, <2>2 DEF Lock, DoLock, Unlock, DoUnlock
<1>7. ASSUME NEW u \in Users, NEW f \in Files, NEW rs \in SUBSET Records, Upload(u, rs, f)
      PROVE  NoOrphanFile'
  BY <1>7 DEF Upload, DoUpload, NoOrphanFile, HoldersOf, LedgerTypeOK
<1>8. ASSUME NEW u \in Users, NEW f \in Files, NEW r \in Records, Detach(u, r, f)
      PROVE  NoOrphanFile'
  <2>1. /\ DropLinks({<<r, f>>}, Unlinked({f}, links \ {<<r, f>>}))
        /\ record' = record /\ <<r, f>> \in links
    BY <1>8 DEF Detach, DoDetach
  <2>2. \A g \in Files : files'[g] = "stored" <=> HoldersOf(g)' # {}
    BY <2>1, DropLinksClean
  <2> QED
    BY <2>1, <2>2 DEF NoOrphanFile, DropLinks
<1>9. ASSUME NEW u \in Users, NEW f \in Files, RemoveFile(u, f)
      PROVE  NoOrphanFile'
  BY <1>9 DEF RemoveFile, DoRemoveFile, NoOrphanFile, HoldersOf, LedgerTypeOK
<1>10. CASE Publish \/ UNCHANGED ledgerVars
  BY <1>1, <1>10 DEF Publish, ledgerVars
<1> QED
  BY <1>2, <1>3, <1>4, <1>5, <1>6, <1>7, <1>8, <1>9, <1>10 DEF LedgerNext, TransitionOp

LEMMA BackedNext ==
    ASSUME LedgerTypeOK, NoOrphanFile, NEW x \in EvidenceRequired, Backed(x),
           [LedgerNext]_ledgerVars
    PROVE  Backed(x)'
<1>0. x \in Records
  BY LedgerAssumption
<1>1. ASSUME FilesOf(x) \subseteq FilesOf(x)', record'[x] = record[x]
      PROVE  Backed(x)'
  BY <1>1 DEF Backed
<1>2. ASSUME NEW u \in Users, NEW r \in Records, Create(u, r)
      PROVE  Backed(x)'
  <2>1. PICK per \in Periods, v \in Values, s \in Sites, lib \in 1 .. library :
          Drafted(u, r, per, v, s, lib)
    BY <1>2, CreateEffect
  <2>2. CASE x # r
    BY <1>0, <1>1, <2>1, <2>2 DEF Drafted, FilesOf
  <2>3. CASE x = r
    BY <2>1, <2>3, DraftStatus DEF Drafted, Backed
  <2> QED
    BY <2>2, <2>3
<1>3. ASSUME NEW u \in Users, NEW r \in Records, Update(u, r)
      PROVE  Backed(x)'
  <2>1. PICK per \in Periods, v \in Values, s \in Sites, lib \in 1 .. library :
          Edited(r, per, v, s, lib)
    BY <1>3, UpdateEffect
  <2>2. CASE x # r
    BY <1>0, <1>1, <2>1, <2>2 DEF Edited, FilesOf
  <2>3. CASE x = r
    BY <2>1, <2>3 DEF Edited, Backed
  <2> QED
    BY <2>2, <2>3
<1>4. ASSUME NEW u \in Users, NEW r \in Records, Remove(u, r)
      PROVE  Backed(x)'
  <2>1. CASE x = r
    BY <1>0, <1>4, <2>1 DEF Remove, DoRemove, Backed, Deleted, LedgerTypeOK
  <2>2. CASE x # r
    <3>1. links' = links \ {l \in links : l[1] = r} /\ record'[x] = record[x]
      BY <1>0, <1>4, <2>2 DEF Remove, DoRemove, DropLinks, LinksOf, LedgerTypeOK
    <3> QED
      BY <1>1, <2>2, <3>1 DEF FilesOf
  <2> QED
    BY <2>1, <2>2
<1>5. ASSUME NEW u \in Users, NEW r \in Records, TransitionOp(u, r)
      PROVE  Backed(x)'
  <2>1. PICK to \in Live : Reviewed(u, r, to)
    BY <1>5, TransitionEffect
  <2>2. FilesOf(x)' = FilesOf(x)
    BY <2>1 DEF Reviewed, FilesOf
  <2>3. CASE x # r
    BY <1>0, <1>1, <2>1, <2>2, <2>3 DEF Reviewed
  <2>4. CASE x = r /\ to = "submitted"
    BY <2>1, <2>2, <2>4 DEF Reviewed, MaySubmit, EvidencePresent, Backed
  <2>5. CASE x = r /\ to # "submitted"
    <3>1. record[x].status \in Live \ Editable
      BY <2>1, <2>5 DEF Reviewed, MayApproveRecord
    <3> QED
      BY <2>2, <3>1 DEF Backed
  <2> QED
    BY <2>3, <2>4, <2>5
<1>6. ASSUME NEW u \in Users, NEW per \in Periods, Lock(u, per) \/ Unlock(u, per)
      PROVE  Backed(x)'
  <2>1. PICK from \in Committed, to \in Committed : record' = Flipped(per, from, to)
    BY <1>6 DEF Lock, DoLock, Unlock, DoUnlock
  <2>2. FilesOf(x)' = FilesOf(x)
    BY <1>6 DEF Lock, DoLock, Unlock, DoUnlock, FilesOf
  <2> QED
    BY <1>0, <2>1, <2>2, FlipEffect DEF Backed
<1>7. ASSUME NEW u \in Users, NEW f \in Files, NEW rs \in SUBSET Records, Upload(u, rs, f)
      PROVE  Backed(x)'
  BY <1>1, <1>7 DEF Upload, DoUpload, FilesOf
<1>8. ASSUME NEW u \in Users, NEW f \in Files, NEW r \in Records, Detach(u, r, f)
      PROVE  Backed(x)'
  <2>1. links' = links \ {<<r, f>>} /\ record' = record /\ record[r].status \in Editable
    BY <1>8 DEF Detach, DoDetach, DropLinks, MayMutate
  <2>2. CASE x = r
    BY <2>1, <2>2 DEF Backed
  <2>3. CASE x # r
    BY <1>1, <2>1, <2>3 DEF FilesOf
  <2> QED
    BY <2>2, <2>3
<1>9. ASSUME NEW u \in Users, NEW f \in Files, RemoveFile(u, f)
      PROVE  Backed(x)'
  <2>1. /\ links' = {l \in links : l[2] # f} /\ record' = record
        /\ \A r \in HoldersOf(f) : record[r].status \in Editable
    BY <1>9 DEF RemoveFile, DoRemoveFile, MayMutate
  <2>2. CASE <<x, f>> \in links
    BY <1>0, <2>1, <2>2 DEF Backed, HoldersOf
  <2>3. CASE <<x, f>> \notin links
    BY <1>1, <2>1, <2>3 DEF FilesOf
  <2> QED
    BY <2>2, <2>3
<1>10. CASE Publish \/ UNCHANGED ledgerVars
  BY <1>1, <1>10 DEF Publish, ledgerVars, FilesOf
<1> QED
  BY <1>2, <1>3, <1>4, <1>5, <1>6, <1>7, <1>8, <1>9, <1>10 DEF LedgerNext, TransitionOp

LEMMA EvidenceCorrect == LedgerSpec => []EvidenceInv
<1>1. LedgerInit => EvidenceInv
  BY LedgerAssumption DEF LedgerInit, EvidenceInv, NoOrphanFile, EvidenceKept, HoldersOf, Unused
<1>2. LedgerTypeOK /\ EvidenceInv /\ [LedgerNext]_ledgerVars => EvidenceInv'
  <2> SUFFICES ASSUME LedgerTypeOK, EvidenceInv, [LedgerNext]_ledgerVars
               PROVE  EvidenceInv'
    OBVIOUS
  <2>1. LedgerTypeOK' /\ NoOrphanFile'
    BY LedgerNextType, NoOrphanNext DEF EvidenceInv
  <2>2. \A x \in EvidenceRequired : Backed(x)
    BY EvidenceIsLinks DEF EvidenceInv
  <2>3. \A x \in EvidenceRequired : Backed(x)'
    BY <2>2, BackedNext DEF EvidenceInv
  <2>4. EvidenceKept'
    BY <2>1, <2>3, EvidenceIsLinksNext
  <2> QED
    BY <2>1, <2>4 DEF EvidenceInv
<1> QED
  BY <1>1, <1>2, LedgerTypeCorrect, PTL DEF LedgerSpec

(* A figure that counts never loses its last supporting file.              *)
THEOREM EvidenceKeptCorrect == LedgerSpec => []EvidenceKept
<1>1. EvidenceInv => EvidenceKept
  BY DEF EvidenceInv
<1> QED
  BY <1>1, EvidenceCorrect, PTL

(* No file is left without a record and no link without its file.          *)
THEOREM NoOrphanCorrect == LedgerSpec => []NoOrphanFile
<1>1. EvidenceInv => NoOrphanFile
  BY DEF EvidenceInv
<1> QED
  BY <1>1, EvidenceCorrect, PTL

-----------------------------------------------------------------------------
(* What a step does to one record, its audit row with it.                  *)

Named(entity, on, from, to) ==
    audit'.entity = entity /\ audit'.on = on /\ audit'.from = from /\ audit'.to = to

Created(x) ==
    \E u \in Users, per \in Periods, v \in Values, s \in Sites, lib \in 1 .. library :
        Drafted(u, x, per, v, s, lib) /\ Named("activity_record", x, "none", "draft")
Rewritten(x) ==
    \E per \in Periods, v \in Values, s \in Sites, lib \in 1 .. library : Edited(x, per, v, s, lib)
Removed(x) ==
    /\ record[x].status \in Editable /\ record[x].period \notin closed
    /\ record'[x] = Deleted /\ closed' = closed
    /\ Named("activity_record", x, record[x].status, "deleted")
Moved(x) ==
    \E u \in Users, to \in Live :
        Reviewed(u, x, to) /\ Named("activity_record", x, record[x].status, to)
Turned(x, from, to) ==
    /\ record[x] \in Row /\ record[x].status = from /\ record'[x].status = to /\ SameInput(x)
    /\ Named("period_lock", record[x].period, from, to)
    /\ IF to = "locked" THEN record[x].period \in closed' ELSE record[x].period \notin closed'

LEMMA AuditFields ==
    ASSUME NEW u, NEW action, NEW entity, NEW on, NEW from, NEW to,
           Audited(u, action, entity, on, from, to)
    PROVE  Named(entity, on, from, to)
  BY DEF Audited, Named

LEMMA OneRecord ==
    ASSUME LedgerTypeOK, [LedgerNext]_ledgerVars, NEW x \in Records
    PROVE  \/ record'[x] = record[x]
           \/ Created(x) \/ Rewritten(x) \/ Removed(x) \/ Moved(x)
           \/ Turned(x, "approved", "locked") \/ Turned(x, "locked", "approved")
<1>1. ASSUME NEW u \in Users, NEW r \in Records, Create(u, r)
      PROVE  record'[x] = record[x] \/ Created(x)
  <2>1. PICK per \in Periods, v \in Values, s \in Sites, lib \in 1 .. library :
          Drafted(u, r, per, v, s, lib)
    BY <1>1, CreateEffect
  <2>2. Named("activity_record", r, "none", "draft")
    BY <1>1, AuditFields DEF Create, DoCreate
  <2>3. CASE x = r
    BY <2>1, <2>2, <2>3 DEF Created
  <2>4. CASE x # r
    BY <2>1, <2>4 DEF Drafted
  <2> QED BY <2>3, <2>4
<1>2. ASSUME NEW u \in Users, NEW r \in Records, Update(u, r)
      PROVE  record'[x] = record[x] \/ Rewritten(x)
  <2>1. PICK per \in Periods, v \in Values, s \in Sites, lib \in 1 .. library :
          Edited(r, per, v, s, lib)
    BY <1>2, UpdateEffect
  <2>2. CASE x = r
    BY <2>1, <2>2 DEF Rewritten
  <2>3. CASE x # r
    BY <2>1, <2>3 DEF Edited
  <2> QED BY <2>2, <2>3
<1>3. ASSUME NEW u \in Users, NEW r \in Records, Remove(u, r)
      PROVE  record'[x] = record[x] \/ Removed(x)
  <2>1. Named("activity_record", r, record[r].status, "deleted")
    BY <1>3, AuditFields DEF Remove, DoRemove
  <2>2. /\ record'[r] = Deleted /\ closed' = closed
        /\ \A other \in Records \ {r} : record'[other] = record[other]
    BY <1>3 DEF Remove, DoRemove, LedgerTypeOK
  <2>3. record[r].status \in Editable /\ record[r].period \notin closed
    BY <1>3 DEF Remove, MayMutate, Open
  <2> QED BY <2>1, <2>2, <2>3 DEF Removed
<1>4. ASSUME NEW u \in Users, NEW r \in Records, TransitionOp(u, r)
      PROVE  record'[x] = record[x] \/ Moved(x)
  <2>1. PICK to \in Live : Reviewed(u, r, to)
    BY <1>4, TransitionEffect
  <2>2. PICK action \in Actions, on \in Live : DoTransition(u, r, action, record[r].status, on)
    BY <1>4 DEF TransitionOp, Submit, StartReview, Approve, Reject, Void, Actions
  <2>3. record'[r].status = on
    BY <2>1, <2>2 DEF DoTransition, LedgerTypeOK, Reviewed, Row
  <2>4. on = to
    BY <2>1, <2>3 DEF Reviewed
  <2>5. Named("activity_record", r, record[r].status, to)
    BY <2>2, <2>4, AuditFields DEF DoTransition
  <2>6. CASE x = r
    BY <2>1, <2>5, <2>6 DEF Moved
  <2>7. CASE x # r
    BY <2>1, <2>7 DEF Reviewed
  <2> QED BY <2>6, <2>7
<1>5. ASSUME NEW u \in Users, NEW per \in Periods, Lock(u, per)
      PROVE  record'[x] = record[x] \/ Turned(x, "approved", "locked")
  <2>1. /\ closed' = closed \cup {per} /\ record' = Flipped(per, "approved", "locked")
        /\ Named("period_lock", per, "approved", "locked")
    BY <1>5, AuditFields DEF Lock, DoLock
  <2> QED BY <2>1, FlipEffect DEF Turned
<1>6. ASSUME NEW u \in Users, NEW per \in Periods, Unlock(u, per)
      PROVE  record'[x] = record[x] \/ Turned(x, "locked", "approved")
  <2>1. /\ closed' = closed \ {per} /\ record' = Flipped(per, "locked", "approved")
        /\ Named("period_lock", per, "locked", "approved")
    BY <1>6, AuditFields DEF Unlock, DoUnlock
  <2> QED BY <2>1, FlipEffect DEF Turned
<1>7. ASSUME NEW u \in Users, NEW f \in Files,
             \/ \E rs \in SUBSET Records : Upload(u, rs, f)
             \/ \E r \in Records : Detach(u, r, f)
             \/ RemoveFile(u, f)
      PROVE  record' = record
  BY <1>7 DEF Upload, DoUpload, Detach, DoDetach, RemoveFile, DoRemoveFile
<1>8. CASE Publish \/ UNCHANGED ledgerVars
  BY <1>8 DEF Publish, ledgerVars
<1> QED
  BY <1>1, <1>2, <1>3, <1>4, <1>5, <1>6, <1>7, <1>8 DEF LedgerNext, TransitionOp

-----------------------------------------------------------------------------
(* The figure and its inputs.                                              *)

LEMMA FigureNext ==
    ASSUME LedgerTypeOK, FigureOfItsInputs, [LedgerNext]_ledgerVars
    PROVE  FigureOfItsInputs'
<1> SUFFICES ASSUME NEW x \in Records, Exists(x)'
             PROVE  /\ record'[x].figure.value = record'[x].value
                    /\ record'[x].figure.site = record'[x].site
  BY DEF FigureOfItsInputs
<1>1. CASE record'[x] = record[x]
  BY <1>1 DEF FigureOfItsInputs
<1>2. CASE Created(x)
  <2>1. PICK u \in Users, per \in Periods, v \in Values, s \in Sites, lib \in 1 .. library :
          record'[x] = NewDraft(u, per, v, s, lib)
    BY <1>2 DEF Created, Drafted
  <2>2. /\ record'[x].figure = Figure(v, s, lib)
        /\ record'[x].value = v /\ record'[x].site = s
    BY <2>1, DraftStatus
  <2> QED BY <2>2 DEF Figure
<1>3. CASE Rewritten(x)
  BY <1>3 DEF Rewritten, Edited, Figure
<1>4. CASE Removed(x)
  BY <1>4 DEF Removed, Deleted
<1>5. ASSUME SameInput(x), record[x] \in Row
      PROVE  /\ record'[x].figure.value = record'[x].value
             /\ record'[x].figure.site = record'[x].site
  BY <1>5 DEF SameInput, FigureOfItsInputs, Row
<1>6. CASE Moved(x)
  BY <1>5, <1>6 DEF Moved, Reviewed
<1>7. CASE Turned(x, "approved", "locked") \/ Turned(x, "locked", "approved")
  BY <1>5, <1>7 DEF Turned
<1> QED
  BY <1>1, <1>2, <1>3, <1>4, <1>6, <1>7, OneRecord

(* A stored figure is always one of its own row's inputs.                  *)
THEOREM FigureCorrect == LedgerSpec => []FigureOfItsInputs
<1>1. LedgerInit => FigureOfItsInputs
  <2> SUFFICES ASSUME LedgerInit, NEW r \in Records, Exists(r)
               PROVE  /\ record[r].figure.value = record[r].value
                      /\ record[r].figure.site = record[r].site
    BY DEF FigureOfItsInputs
  <2>1. record[r].figure = Figure(record[r].value, record[r].site, 1)
    BY LedgerAssumption DEF LedgerInit, Unused
  <2> QED BY <2>1 DEF Figure
<1>2. LedgerTypeOK /\ FigureOfItsInputs /\ [LedgerNext]_ledgerVars => FigureOfItsInputs'
  BY FigureNext
<1> QED
  BY <1>1, <1>2, LedgerTypeCorrect, PTL DEF LedgerSpec

-----------------------------------------------------------------------------
(* What a step may never do.                                               *)

(* A status never changes without the audit row that says so.              *)
THEOREM AuditCorrect == LedgerSpec => AuditExplains
<1>1. ASSUME LedgerTypeOK, [LedgerNext]_ledgerVars
      PROVE  [\A r \in Records : record'[r].status # record[r].status =>
         /\ audit'.from = record[r].status
         /\ audit'.to = record'[r].status
         /\ \/ audit'.entity = "activity_record" /\ audit'.on = r
            \/ audit'.entity = "period_lock" /\ audit'.on = record[r].period]_ledgerVars
  <2>1. SUFFICES ASSUME NEW r \in Records, record'[r].status # record[r].status
                 PROVE  /\ audit'.from = record[r].status
                        /\ audit'.to = record'[r].status
                        /\ \/ audit'.entity = "activity_record" /\ audit'.on = r
                           \/ audit'.entity = "period_lock" /\ audit'.on = record[r].period
    OBVIOUS
  <2>2. CASE Created(r)
    BY <2>2, DraftStatus DEF Created, Drafted, Named, Unused
  <2>3. CASE Rewritten(r)
    BY <2>1, <2>3 DEF Rewritten, Edited
  <2>4. CASE Removed(r)
    BY <2>4 DEF Removed, Named, Deleted
  <2>5. CASE Moved(r)
    BY <2>5 DEF Moved, Reviewed, Named
  <2>6. CASE Turned(r, "approved", "locked") \/ Turned(r, "locked", "approved")
    BY <2>6 DEF Turned, Named
  <2> QED
    BY <2>1, <2>2, <2>3, <2>4, <2>5, <2>6, <1>1, OneRecord
<1> QED
  BY <1>1, LedgerTypeCorrect, PTL DEF LedgerSpec, AuditExplains

(* A figure in review or counted keeps its period, its inputs and its      *)
(* value; a voided one never changes again.                                *)
THEOREM CommittedKept == LedgerSpec => CommittedFigureKept
<1>1. ASSUME LedgerTypeOK, [LedgerNext]_ledgerVars
      PROVE  [\A r \in Records : record[r].status \in Live \ Editable =>
         /\ Exists(r)'
         /\ <<record'[r].period, record'[r].value, record'[r].site, record'[r].figure>>
              = <<record[r].period, record[r].value, record[r].site, record[r].figure>>
         /\ record[r].status = "voided" => record'[r] = record[r]]_ledgerVars
  <2>1. SUFFICES ASSUME NEW r \in Records, record[r].status \in Live \ Editable
                 PROVE  /\ Exists(r)'
                        /\ <<record'[r].period, record'[r].value, record'[r].site, record'[r].figure>>
                             = <<record[r].period, record[r].value, record[r].site, record[r].figure>>
                        /\ record[r].status = "voided" => record'[r] = record[r]
    OBVIOUS
  <2>2. CASE record'[r] = record[r]
    BY <2>1, <2>2
  <2>3. ~Created(r) /\ ~Rewritten(r) /\ ~Removed(r)
    BY <2>1 DEF Created, Drafted, Rewritten, Edited, Removed, Unused
  <2>4. CASE Moved(r)
    BY <2>1, <2>4 DEF Moved, Reviewed, SameInput, MaySubmit, MayApproveRecord
  <2>5. CASE Turned(r, "approved", "locked") \/ Turned(r, "locked", "approved")
    BY <2>1, <2>5 DEF Turned, SameInput
  <2> QED
    BY <2>2, <2>3, <2>4, <2>5, <1>1, OneRecord
<1> QED
  BY <1>1, LedgerTypeCorrect, PTL DEF LedgerSpec, CommittedFigureKept
(* A record of a closed period keeps the files it is backed by.            *)
LEMMA FilesKept ==
    ASSUME LedgerTypeOK, [LedgerNext]_ledgerVars, NEW x \in Records, record[x].period \in closed
    PROVE  FilesOf(x)' = FilesOf(x)
<1>1. ASSUME links' = links
      PROVE  FilesOf(x)' = FilesOf(x)
  BY <1>1 DEF FilesOf
<1>2. ASSUME NEW u \in Users, NEW r \in Records,
             Create(u, r) \/ Update(u, r) \/ TransitionOp(u, r)
      PROVE  links' = links
  BY <1>2 DEF Create, DoCreate, Update, DoUpdate, TransitionOp, Submit, StartReview, Approve,
              Reject, Void, DoTransition
<1>3. ASSUME NEW u \in Users, NEW r \in Records, Remove(u, r)
      PROVE  FilesOf(x)' = FilesOf(x)
  <2>1. r # x /\ links' = links \ LinksOf(r)
    BY <1>3 DEF Remove, Open, DoRemove, DropLinks
  <2> QED BY <2>1 DEF FilesOf, LinksOf
<1>4. ASSUME NEW u \in Users, NEW f \in Files, NEW rs \in SUBSET Records, Upload(u, rs, f)
      PROVE  FilesOf(x)' = FilesOf(x)
  <2>1. x \notin rs /\ links' = links \cup (rs \X {f})
    BY <1>4 DEF Upload, Open, DoUpload
  <2> QED BY <2>1 DEF FilesOf
<1>5. ASSUME NEW u \in Users, NEW f \in Files, NEW r \in Records, Detach(u, r, f)
      PROVE  FilesOf(x)' = FilesOf(x)
  <2>1. x # r /\ links' = links \ {<<r, f>>}
    BY <1>5 DEF Detach, Open, DoDetach, DropLinks
  <2> QED BY <2>1 DEF FilesOf
<1>6. ASSUME NEW u \in Users, NEW f \in Files, RemoveFile(u, f)
      PROVE  FilesOf(x)' = FilesOf(x)
  <2>1. <<x, f>> \notin links /\ links' = {l \in links : l[2] # f}
    BY <1>6 DEF RemoveFile, HoldersOf, Open, DoRemoveFile
  <2> QED BY <2>1 DEF FilesOf
<1>7. ASSUME NEW u \in Users, NEW per \in Periods, Lock(u, per) \/ Unlock(u, per)
      PROVE  links' = links
  BY <1>7 DEF Lock, DoLock, Unlock, DoUnlock
<1>8. CASE Publish \/ UNCHANGED ledgerVars
  BY <1>1, <1>8 DEF Publish, ledgerVars
<1> QED
  BY <1>1, <1>2, <1>3, <1>4, <1>5, <1>6, <1>7, <1>8 DEF LedgerNext, TransitionOp

(* While a period stays closed nothing in it changes: no record enters or  *)
(* leaves it or is rewritten, and the evidence of none is added to or      *)
(* taken off.                                                              *)
THEOREM FrozenCorrect == LedgerSpec => ClosedPeriodFrozen
<1>1. ASSUME LedgerTypeOK, ClosedPeriodSealed, [LedgerNext]_ledgerVars
      PROVE  [\A r \in Records :
         /\ Exists(r) /\ record[r].period \in closed \cap closed'
              => record'[r] = record[r] /\ FilesOf(r)' = FilesOf(r)
         /\ Exists(r)' /\ record'[r].period \in closed \cap closed'
              => record'[r] = record[r]]_ledgerVars
  <2>1. ASSUME NEW r \in Records, record'[r] # record[r]
        PROVE  /\ Exists(r) => record[r].period \notin closed \cap closed'
               /\ Exists(r)' => record'[r].period \notin closed \cap closed'
    <3>1. CASE Created(r)
      BY <3>1, DraftStatus DEF Created, Drafted, Unused
    <3>2. CASE Rewritten(r)
      BY <3>2 DEF Rewritten, Edited
    <3>3. CASE Removed(r)
      BY <3>3 DEF Removed, Deleted
    <3>4. CASE Moved(r)
      BY <3>4 DEF Moved, Reviewed, SameInput
    <3>5. CASE Turned(r, "approved", "locked")
      BY <3>5, <1>1 DEF Turned, SameInput, ClosedPeriodSealed
    <3>6. CASE Turned(r, "locked", "approved")
      BY <3>6 DEF Turned, SameInput
    <3> QED BY <2>1, <3>1, <3>2, <3>3, <3>4, <3>5, <3>6, <1>1, OneRecord
  <2> QED BY <2>1, <1>1, FilesKept
<1> QED
  BY <1>1, LedgerTypeCorrect, SealedCorrect, PTL DEF LedgerSpec, ClosedPeriodFrozen
-----------------------------------------------------------------------------
(* The inductive invariant.                                                *)

Guarded(p) == held[p].shared \cup held[p].exclusive

(* Locks exclude as PostgreSQL's do.                                       *)
LockExclusion ==
    \A p \in Procs, q \in Procs : p # q =>
        /\ held[p].exclusive \cap Guarded(q) = {}
        /\ held[p].rows \cap held[q].rows = {}
        /\ held[p].files \cap held[q].files = {}

(* A lock or unlock takes its period exclusive, everything else shared; a  *)
(* locked row or file is there.                                            *)
LocksOfRequest(p) ==
    /\ req[p].op \in PeriodOps => held[p].shared = {}
    /\ req[p].op \notin PeriodOps => held[p].exclusive = {}
    /\ \A r \in held[p].rows : Exists(r)
    /\ \A f \in held[p].files : files[f] = "stored"
    /\ stage[p] = "idle" => req[p] = NoRequest /\ held[p] = NoLocks

(* What the endpoint asked before its transaction, and nobody can change.  *)
Asked(p) ==
    /\ stage[p] # "idle" =>
         req[p].op \in Ops /\ req[p].user \in Users /\ req[p].library \in 1 .. library
    /\ req[p].op \in {"create", "update"} => req[p].period \in Periods /\ req[p].value \in Values
    /\ req[p].op = "create" => MayAuthor(req[p].user) /\ req[p].site \in Sites
    /\ req[p].op \in PeriodOps =>
         MayApprove(req[p].user) /\ req[p].period \in Periods /\ req[p].records = {}
    /\ req[p].op = "upload" => req[p].records # {}
    /\ req[p].op \in UnlinkOps => \E r \in Records : req[p].records = {r}
    /\ req[p].op # "upload" => \A f \in req[p].files : files[f] # "none"

(* The id of a new row and the id of a new file are the request's own.     *)
Reserved(p) ==
    /\ req[p].op = "create" => \A r \in req[p].records :
         record[r] = Unused /\ \A q \in Procs \ {p} : r \notin req[q].records
    /\ req[p].op = "upload" => \A f \in req[p].files :
         files[f] = "none" /\ \A q \in Procs \ {p} : f \notin req[q].files

(* While no commit has rewritten the row, an edit's early checks stand.    *)
ReadStands(p) ==
    req[p].op = "update" /\ ~req[p].stale => \A r \in req[p].records :
        Exists(r) /\ MayMutate(req[p].user, r) /\ Seen(r) = req[p].seen[r]

(* Once the gates have passed: the periods are locked, the gates hold, and *)
(* what was read under the locks is still so.                              *)
Checked(p) ==
    stage[p] \in {"checked", "swept"} =>
        /\ PeriodsOf(req[p]) \subseteq Guarded(p)
        /\ Admitted(p)
        /\ req[p].op \in Transitions =>
             \A r \in req[p].records : record[r].status = req[p].current
        /\ req[p].op = "remove" => \A r \in req[p].records : req[p].files = FilesOf(r)

DoomedRight(p) ==
    stage[p] = "swept" =>
        /\ req[p].op \in UnlinkOps
        /\ FilesWanted(p) \subseteq held[p].files
        /\ \A r \in req[p].records :
             req[p].doomed =
                Unlinked(req[p].files,
                         links \ (IF req[p].op = "remove" THEN LinksOf(r)
                                                         ELSE {r} \X req[p].files))

LifecycleInv ==
    /\ TypeOK
    /\ NoOrphanFile
    /\ LockExclusion
    /\ \A p \in Procs :
         /\ LocksOfRequest(p)
         /\ Asked(p)
         /\ Reserved(p)
         /\ ReadStands(p)
         /\ Checked(p)
         /\ DoomedRight(p)

-----------------------------------------------------------------------------
(* Types.                                                                  *)

LEMMA SeenType ==
    ASSUME LedgerTypeOK, NEW r \in Records, Exists(r)
    PROVE  Seen(r) \in SeenRows
<1>1. record[r] \in Row
  BY DEF LedgerTypeOK, Unused, Deleted
<1> QED
  BY <1>1 DEF Row, Seen, SeenRows

(* A request that begins: the types, and that nothing else moves.          *)
LEMMA BeginType ==
    ASSUME TypeOK, NEW p \in Procs, NEW op \in Ops, NEW u \in Users,
           NEW rs \in SUBSET Records, NEW fs \in SUBSET Files,
           NEW per \in Periods \cup {None}, NEW v \in Values \cup {None},
           NEW s \in Sites \cup {None},
           Begin(p, op, u, rs, fs, per, v, s)
    PROVE  TypeOK'
<1> DEFINE seen == [r \in Records |-> IF r \in rs /\ Exists(r) THEN Seen(r) ELSE None]
           q == [op |-> op, user |-> u, records |-> rs, files |-> fs, period |-> per,
                 value |-> v, site |-> s, library |-> library, seen |-> seen,
                 stale |-> FALSE, current |-> "none", doomed |-> {}]
<1>1. seen \in [Records -> SeenRows \cup {None}]
  BY SeenType DEF TypeOK
<1>2. library \in 0 .. MaxLibrary
  BY LedgerAssumption DEF TypeOK, LedgerTypeOK
<1> HIDE DEF seen
<1>3. q \in Requests
  <2>1. op \in Ops \cup {"none"} /\ u \in Users \cup {None} /\ FALSE \in BOOLEAN
        /\ "none" \in Statuses /\ {} \in SUBSET Files
    OBVIOUS
  <2> QED
    BY <1>1, <1>2, <2>1, Zenon DEF Requests
<1>4. req' = [req EXCEPT ![p] = q] /\ stage' = [stage EXCEPT ![p] = "locking"]
      /\ UNCHANGED <<ledgerVars, held>>
  BY DEF Begin, seen
<1> HIDE DEF q
<1>5. req' \in [Procs -> Requests] /\ stage' \in [Procs -> {"idle", "locking", "checked", "swept"}]
  BY <1>3, <1>4 DEF TypeOK
<1> QED
  BY <1>4, <1>5 DEF TypeOK, LedgerTypeOK, ledgerVars

LEMMA BeginAnyType ==
    ASSUME TypeOK, NEW p \in Procs, BeginAny(p)
    PROVE  TypeOK'
<1>1. CASE BeginCreate(p)
  BY <1>1, BeginType DEF BeginCreate, Ops
<1>2. CASE BeginUpdate(p)
  BY <1>2, BeginType DEF BeginUpdate, Ops, RowOps, EditOps
<1>3. CASE BeginRemove(p)
  BY <1>3, BeginType DEF BeginRemove, Ops, RowOps, EditOps
<1>4. CASE BeginTransition(p)
  BY <1>4, BeginType DEF BeginTransition, Ops, RowOps
<1>5. CASE BeginUpload(p)
  BY <1>5, BeginType DEF BeginUpload, Ops, RowOps, FileOps
<1>6. CASE BeginDetach(p)
  <2>1. PICK u \in Users, l \in links : Begin(p, "detach", u, {l[1]}, {l[2]}, None, None, None)
    BY <1>6 DEF BeginDetach
  <2>2. {l[1]} \in SUBSET Records /\ {l[2]} \in SUBSET Files
    BY DEF TypeOK, LedgerTypeOK
  <2> QED
    BY <2>1, <2>2, BeginType DEF Ops, RowOps, FileOps
<1>7. CASE BeginRemoveFile(p)
  <2>1. \A f \in Files : HoldersOf(f) \in SUBSET Records
    BY DEF HoldersOf
  <2> QED
    BY <1>7, <2>1, BeginType DEF BeginRemoveFile, Ops, RowOps, FileOps
<1>8. CASE BeginLock(p)
  BY <1>8, BeginType DEF BeginLock, Ops, PeriodOps
<1>9. CASE BeginUnlock(p)
  BY <1>9, BeginType DEF BeginUnlock, Ops, PeriodOps
<1> QED
  BY <1>1, <1>2, <1>3, <1>4, <1>5, <1>6, <1>7, <1>8, <1>9 DEF BeginAny

LEMMA TakeType ==
    ASSUME TypeOK, NEW p \in Procs, TakePeriod(p) \/ TakeRow(p) \/ TakeFile(p)
    PROVE  TypeOK'
<1>1. MissingPeriods(p) \subseteq Periods /\ MissingRows(p) \subseteq Records
      /\ MissingFiles(p) \subseteq Files
  BY DEF MissingPeriods, PeriodsOf, MissingRows, RowsWanted, InPeriod, MissingFiles, FilesWanted,
         TypeOK, Requests
<1>2. held' \in [Procs -> LockSets]
  BY <1>1 DEF TypeOK, TakePeriod, TakeRow, TakeFile, LockSets
<1>3. UNCHANGED <<ledgerVars, stage, req>>
  BY DEF TakePeriod, TakeRow, TakeFile
<1> QED
  BY <1>2, <1>3 DEF TypeOK, LedgerTypeOK, ledgerVars

LEMMA UpdateRequestType ==
    ASSUME NEW x \in Requests
    PROVE  /\ \A b \in BOOLEAN : [x EXCEPT !.stale = b] \in Requests
           /\ \A fs \in SUBSET Files : [x EXCEPT !.doomed = fs] \in Requests
           /\ \A c \in Statuses, fs \in SUBSET Files :
                [x EXCEPT !.current = c, !.files = fs] \in Requests
<1> HIDE DEF Statuses
<1> QED
  BY DEF Requests

LEMMA GateType ==
    ASSUME TypeOK, NEW p \in Procs, Gate(p)
    PROVE  TypeOK'
<1> DEFINE fs == IF req[p].op = "remove" THEN UNION {FilesOf(r) : r \in req[p].records}
                                         ELSE req[p].files
<1>1. PICK s \in Statuses : req' = [req EXCEPT ![p].current = s, ![p].files = fs]
  BY DEF Gate
<1>2. fs \in SUBSET Files
  BY DEF TypeOK, Requests, FilesOf
<1>3. req' = [req EXCEPT ![p] = [req[p] EXCEPT !.current = s, !.files = fs]]
  BY <1>1 DEF TypeOK
<1>4. [req[p] EXCEPT !.current = s, !.files = fs] \in Requests
  BY <1>2, UpdateRequestType DEF TypeOK
<1>5. req' \in [Procs -> Requests]
  BY <1>3, <1>4 DEF TypeOK
<1> QED
  BY <1>5 DEF Gate, TypeOK, LedgerTypeOK, ledgerVars

LEMMA SweepType ==
    ASSUME TypeOK, NEW p \in Procs, Sweep(p)
    PROVE  TypeOK'
<1>1. PICK fs \in SUBSET Files : req' = [req EXCEPT ![p].doomed = fs]
  BY UnlinkedType DEF Sweep, TypeOK, Requests
<1>2. req' = [req EXCEPT ![p] = [req[p] EXCEPT !.doomed = fs]]
  BY <1>1 DEF TypeOK
<1>3. req' \in [Procs -> Requests]
  BY <1>2, UpdateRequestType DEF TypeOK
<1> QED
  BY <1>3 DEF Sweep, TypeOK, LedgerTypeOK, ledgerVars

LEMMA NoRequestType == NoRequest \in Requests
  BY LedgerAssumption DEF NoRequest, Requests

LEMMA FinishType ==
    ASSUME TypeOK, LedgerTypeOK', NEW p \in Procs, NEW wrote, NEW reopened,
           Finish(p, wrote, reopened)
    PROVE  TypeOK'
<1>1. \A q \in Procs : req'[q] \in Requests
  <2> SUFFICES ASSUME NEW q \in Procs PROVE req'[q] \in Requests
    OBVIOUS
  <2> DEFINE b == \/ req[q].stale
                  \/ req[q].records \cap wrote # {}
                  \/ req[q].op = "unlock" /\ req[q].period \in reopened
  <2>1. b \in BOOLEAN
    BY DEF TypeOK, Requests
  <2>2. req'[q] = IF q = p THEN NoRequest ELSE [req[q] EXCEPT !.stale = b]
    BY DEF Finish
  <2> HIDE DEF b
  <2>3. req[q] \in Requests
    BY DEF TypeOK
  <2>4. [req[q] EXCEPT !.stale = b] \in Requests
    BY <2>1, <2>3, UpdateRequestType
  <2> QED
    BY <2>2, <2>4, NoRequestType
<1>2. req' \in [Procs -> Requests]
  BY <1>1 DEF Finish
<1>3. /\ stage' \in [Procs -> {"idle", "locking", "checked", "swept"}]
      /\ held' \in [Procs -> LockSets]
  BY DEF Finish, TypeOK, NoLocks, LockSets
<1> QED
  BY <1>2, <1>3 DEF TypeOK

-----------------------------------------------------------------------------
(* Every commit is a step of the ledger: the gates that were evaluated     *)
(* under the locks still hold when the write lands.                        *)

LEMMA ReadyFacts ==
    ASSUME LifecycleInv, NEW p \in Procs, NEW op \in Ops, Ready(p, op)
    PROVE  /\ req[p].op = op
           /\ req[p].user \in Users
           /\ req[p].library \in 1 .. library
           /\ Admitted(p)
           /\ PeriodsOf(req[p]) \subseteq Guarded(p)
           /\ MissingRows(p) = {} /\ MissingFiles(p) = {}
  BY DEF LifecycleInv, Ready, Asked, Checked, Locked

LEMMA AdmittedRow ==
    ASSUME NEW p, Admitted(p), NEW r \in req[p].records,
           req[p].op \notin PeriodOps \cup {"create", "removeFile"}
    PROVE  RecordGate(p, r)
  BY DEF Admitted, PeriodOps

LEMMA WriteCreateImplements ==
    ASSUME LifecycleInv, NEW p \in Procs, WriteCreate(p)
    PROVE  \E u \in Users, r \in Records : Create(u, r)
<1>1. PICK r \in Records :
        /\ Ready(p, "create") /\ Only(p, r)
        /\ SlotFree(r, req[p].period, req[p].site)
        /\ DoCreate(req[p].user, r, req[p].period, req[p].value, req[p].site, req[p].library)
  BY DEF WriteCreate
<1>2. req[p].period \notin closed /\ req[p].user \in Users /\ req[p].library \in 1 .. library
      /\ req[p].op = "create"
  BY <1>1, ReadyFacts DEF Admitted, Ops
<1>3. /\ MayAuthor(req[p].user) /\ req[p].period \in Periods /\ req[p].value \in Values
      /\ req[p].site \in Sites /\ record[r] = Unused
  BY <1>1, <1>2 DEF LifecycleInv, Asked, Reserved, Only
<1> QED
  BY <1>1, <1>2, <1>3 DEF Create

LEMMA WriteUpdateImplements ==
    ASSUME LifecycleInv, NEW p \in Procs, WriteUpdate(p)
    PROVE  \E u \in Users, r \in Records : Update(u, r)
<1> DEFINE q == req[p]
           site(r) == IF q.site = None THEN q.seen[r].site ELSE q.site
<1>1. PICK r \in Records :
        /\ Ready(p, "update") /\ Only(p, r)
        /\ SlotFree(r, q.period, site(r))
        /\ DoUpdate(q.user, r, q.period, q.value, q.site, Figure(q.value, site(r), q.library))
  BY DEF WriteUpdate
<1>2. q.op = "update" /\ q.user \in Users /\ q.library \in 1 .. library /\ Admitted(p)
      /\ r \in q.records
  BY <1>1, ReadyFacts DEF Ops, RowOps, EditOps, Only
<1>3. UpdateGate(p, r)
  <2>1. RecordGate(p, r)
    BY <1>2, AdmittedRow DEF PeriodOps
  <2> QED
    BY <1>2, <2>1 DEF RecordGate, Transitions
<1>4. Exists(r) /\ MayMutate(q.user, r) /\ Seen(r) = q.seen[r] /\ Open(r) /\ q.period \notin closed
  BY <1>2, <1>3 DEF LifecycleInv, ReadStands, UpdateGate
<1>5. q.period \in Periods /\ q.value \in Values /\ q.site \in Sites \cup {None}
  BY <1>2 DEF LifecycleInv, Asked, TypeOK, Requests
<1>6. site(r) = IF q.site = None THEN record[r].site ELSE q.site
  BY <1>4 DEF Seen
<1> HIDE DEF q, site
<1> QED
  BY <1>1, <1>2, <1>4, <1>5, <1>6 DEF Update

LEMMA WriteRemoveImplements ==
    ASSUME LifecycleInv, NEW p \in Procs, WriteRemove(p)
    PROVE  \E u \in Users, r \in Records : Remove(u, r)
<1>1. PICK r \in Records :
        Ready(p, "remove") /\ Only(p, r) /\ DoRemove(req[p].user, r, req[p].doomed)
  BY DEF WriteRemove
<1>2. /\ req[p].op = "remove" /\ req[p].user \in Users /\ Admitted(p) /\ r \in req[p].records
      /\ stage[p] = "swept"
  BY <1>1, ReadyFacts DEF Ops, RowOps, EditOps, Only, Ready, UnlinkOps
<1>3. RecordGate(p, r)
  BY <1>2, AdmittedRow DEF PeriodOps
<1>4. Exists(r) /\ MayMutate(req[p].user, r) /\ Open(r)
  BY <1>2, <1>3 DEF RecordGate, SamePeriod, Transitions
<1>5. req[p].files = FilesOf(r)
  BY <1>2 DEF LifecycleInv, Checked
<1>6. req[p].doomed = Unlinked(FilesOf(r), links \ LinksOf(r))
  BY <1>2, <1>5 DEF LifecycleInv, DoomedRight
<1> QED
  BY <1>1, <1>2, <1>4, <1>6 DEF Remove

LEMMA WriteTransitionImplements ==
    ASSUME LifecycleInv, NEW p \in Procs, WriteTransition(p)
    PROVE  \E u \in Users, r \in Records : TransitionOp(u, r)
<1>1. PICK op \in Transitions, r \in Records :
        /\ Ready(p, op) /\ Only(p, r) /\ record[r].status = req[p].current
        /\ DoTransition(req[p].user, r, AuditAction(op), req[p].current, Outcome(op))
  BY DEF WriteTransition
<1> DEFINE u == req[p].user
<1>2. /\ req[p].op = op /\ u \in Users /\ req[p].library \in 1 .. library /\ Admitted(p)
      /\ r \in req[p].records
  BY <1>1, ReadyFacts DEF Ops, RowOps, Only
<1>3. TransitionGate(p, r)
  <2>1. RecordGate(p, r)
    BY <1>2, AdmittedRow DEF PeriodOps, Transitions
  <2> QED
    BY <1>2, <2>1 DEF RecordGate, Transitions
<1>4. DoTransition(u, r, AuditAction(op), record[r].status, Outcome(op))
  BY <1>1
<1> HIDE DEF u
<1>5. CASE op = "submit"
  BY <1>2, <1>3, <1>4, <1>5 DEF TransitionGate, AuditAction, Outcome, TransitionOp, Submit, u
<1>6. CASE op = "startReview"
  BY <1>2, <1>3, <1>4, <1>6 DEF TransitionGate, AuditAction, Outcome, TransitionOp, StartReview, u
<1>7. CASE op = "approve"
  BY <1>2, <1>3, <1>4, <1>7 DEF TransitionGate, AuditAction, Outcome, TransitionOp, Approve, u
<1>8. CASE op = "reject"
  BY <1>2, <1>3, <1>4, <1>8 DEF TransitionGate, AuditAction, Outcome, TransitionOp, Reject, u
<1>9. CASE op = "void"
  BY <1>2, <1>3, <1>4, <1>9 DEF TransitionGate, AuditAction, Outcome, TransitionOp, Void, u
<1> QED
  BY <1>5, <1>6, <1>7, <1>8, <1>9 DEF Transitions

LEMMA WriteFileImplements ==
    ASSUME LifecycleInv, NEW p \in Procs, WriteUpload(p) \/ WriteDetach(p) \/ WriteRemoveFile(p)
    PROVE  \E u \in Users, f \in Files :
             \/ \E rs \in SUBSET Records : Upload(u, rs, f)
             \/ \E r \in Records : Detach(u, r, f)
             \/ RemoveFile(u, f)
<1>1. CASE WriteUpload(p)
  <2>1. PICK f \in Files :
          /\ Ready(p, "upload") /\ req[p].files = {f}
          /\ DoUpload(req[p].user, req[p].records, f)
    BY <1>1 DEF WriteUpload
  <2>2. /\ req[p].op = "upload" /\ req[p].user \in Users /\ Admitted(p)
        /\ req[p].records \in SUBSET Records
    BY <2>1, ReadyFacts DEF Ops, RowOps, FileOps, LifecycleInv, TypeOK, Requests
  <2>3. req[p].records # {}
    BY <2>2 DEF LifecycleInv, Asked
  <2>4. \A r \in req[p].records : Exists(r) /\ MayMutate(req[p].user, r) /\ Open(r)
    BY <2>2, AdmittedRow DEF PeriodOps, RecordGate, SamePeriod, Transitions
  <2>5. files[f] = "none"
    BY <2>1, <2>2 DEF LifecycleInv, Reserved
  <2> QED
    BY <2>1, <2>2, <2>3, <2>4, <2>5 DEF Upload
<1>2. CASE WriteDetach(p)
  <2>1. PICK r \in Records, f \in Files :
          /\ Ready(p, "detach") /\ Only(p, r) /\ req[p].files = {f}
          /\ <<r, f>> \in links
          /\ DoDetach(req[p].user, r, f, req[p].doomed)
    BY <1>2 DEF WriteDetach
  <2>2. /\ req[p].op = "detach" /\ req[p].user \in Users /\ Admitted(p) /\ r \in req[p].records
        /\ stage[p] = "swept"
    BY <2>1, ReadyFacts DEF Ops, RowOps, FileOps, Only, Ready, UnlinkOps
  <2>3. Exists(r) /\ MayMutate(req[p].user, r) /\ Open(r)
    BY <2>2, AdmittedRow DEF PeriodOps, RecordGate, SamePeriod, Transitions
  <2>4. {r} \X {f} = {<<r, f>>}
    OBVIOUS
  <2>5. req[p].doomed = Unlinked(req[p].files, links \ ({r} \X req[p].files))
    BY <2>2 DEF LifecycleInv, DoomedRight
  <2>6. req[p].doomed = Unlinked({f}, links \ {<<r, f>>})
    BY <2>1, <2>4, <2>5
  <2> QED
    BY <2>1, <2>2, <2>3, <2>6 DEF Detach
<1>3. CASE WriteRemoveFile(p)
  <2>1. PICK f \in Files :
          Ready(p, "removeFile") /\ req[p].files = {f} /\ DoRemoveFile(req[p].user, f)
    BY <1>3 DEF WriteRemoveFile
  <2>2. req[p].op = "removeFile" /\ req[p].user \in Users /\ Admitted(p)
    BY <2>1, ReadyFacts DEF Ops, RowOps, FileOps
  <2>3. RemoveFileGate(p)
    BY <2>2 DEF Admitted
  <2>4. files[f] = "stored"
    BY <2>1, <2>3 DEF RemoveFileGate, LifecycleInv, LocksOfRequest
  <2>5. \A r \in HoldersOf(f) : MayMutate(req[p].user, r) /\ Open(r)
    BY <2>1, <2>2, <2>3 DEF RemoveFileGate, RecordGate, Transitions
  <2> QED
    BY <2>1, <2>2, <2>4, <2>5 DEF RemoveFile
<1> QED
  BY <1>1, <1>2, <1>3

LEMMA WritePeriodImplements ==
    ASSUME LifecycleInv, NEW p \in Procs, WriteLock(p) \/ WriteUnlock(p)
    PROVE  \E u \in Users, per \in Periods : Lock(u, per) \/ Unlock(u, per)
<1>1. CASE WriteLock(p)
  <2>1. req[p].op = "lock" /\ req[p].user \in Users /\ Admitted(p)
    BY <1>1, ReadyFacts DEF WriteLock, Ops, PeriodOps
  <2>2. MayApprove(req[p].user) /\ req[p].period \in Periods
    BY <2>1 DEF LifecycleInv, Asked, PeriodOps
  <2> QED
    BY <1>1, <2>1, <2>2 DEF WriteLock, Admitted, Lock, MayLock
<1>2. CASE WriteUnlock(p)
  <2>1. req[p].op = "unlock" /\ req[p].user \in Users /\ Admitted(p)
    BY <1>2, ReadyFacts DEF WriteUnlock, Ops, PeriodOps
  <2>2. MayApprove(req[p].user) /\ req[p].period \in Periods
    BY <2>1 DEF LifecycleInv, Asked, PeriodOps
  <2> QED
    BY <1>2, <2>1, <2>2 DEF WriteUnlock, Admitted, Unlock, MayUnlock
<1> QED
  BY <1>1, <1>2

LEMMA WriteImplements ==
    ASSUME LifecycleInv, NEW p \in Procs, Write(p)
    PROVE  LedgerNext
  BY WriteCreateImplements, WriteUpdateImplements, WriteRemoveImplements,
     WriteTransitionImplements, WriteFileImplements, WritePeriodImplements
  DEF Write, LedgerNext, TransitionOp

-----------------------------------------------------------------------------
(* What a step of one request may do to another, x, and why x does not     *)
(* notice.                                                                 *)

RequestKept(x) ==
    /\ stage'[x] = stage[x] /\ held'[x] = held[x]
    /\ req'[x].op = req[x].op /\ req'[x].user = req[x].user
    /\ req'[x].records = req[x].records /\ req'[x].files = req[x].files
    /\ req'[x].period = req[x].period /\ req'[x].value = req[x].value
    /\ req'[x].site = req[x].site /\ req'[x].library = req[x].library
    /\ req'[x].seen = req[x].seen /\ req'[x].current = req[x].current
    /\ req'[x].doomed = req[x].doomed
    /\ req[x].stale => req'[x].stale
    /\ stage[x] = "idle" => req'[x] = req[x]

(* Rows and files x has locked do not change, nothing enters or leaves a   *)
(* period it has locked, links never grow but to a new file, and a request *)
(* whose rows are all locked does not go stale.                            *)
Undisturbed(x) ==
    /\ RequestKept(x)
    /\ library <= library' /\ library' \in Nat
    /\ \A r \in held[x].rows : record'[r] = record[r] /\ FilesOf(r)' = FilesOf(r)
    /\ \A k \in Guarded(x) : k \in closed' <=> k \in closed
    /\ \A r \in Records : record'[r] # record[r] =>
         /\ Exists(r) => record[r].period \notin held[x].exclusive
         /\ Exists(r)' => record'[r].period \notin held[x].exclusive
         /\ r \in req[x].records => req'[x].stale
    /\ \A f \in Files : files[f] # "none" =>
         /\ files'[f] # "none"
         /\ files'[f] = "stored" => files[f] = "stored"
         /\ HoldersOf(f)' \subseteq HoldersOf(f)
    /\ \A f \in held[x].files : files'[f] = files[f] /\ HoldersOf(f)' = HoldersOf(f)
    /\ \/ (req'[x].stale => req[x].stale)
       \/ \E r \in req[x].records : r \notin held[x].rows
       \/ req[x].op = "unlock" /\ req[x].period \notin Guarded(x)

LEMMA RowStable ==
    ASSUME NEW x \in Procs, Undisturbed(x), NEW r \in req[x].records,
           SamePeriod(x, r), PeriodsOf(req[x]) \subseteq Guarded(x), TypeOK
    PROVE  /\ SamePeriod(x, r)'
           /\ record'[r] = record[r]
           /\ Open(r)' <=> Open(r)
           /\ FilesOf(r)' = FilesOf(r)
<1>1. r \in held[x].rows /\ Exists(r) /\ r \in Records
  BY DEF SamePeriod, TypeOK, Requests
<1>2. record'[r] = record[r] /\ FilesOf(r)' = FilesOf(r)
  BY <1>1 DEF Undisturbed
<1>3. record[r].period \in Periods
  BY <1>1 DEF TypeOK, LedgerTypeOK, Row, Unused, Deleted
<1>4. record[r].period \in Guarded(x)
  BY <1>3 DEF SamePeriod, PeriodsOf
<1>5. record[r].period \in closed' <=> record[r].period \in closed
  BY <1>4 DEF Undisturbed
<1>6. SamePeriod(x, r)'
  BY <1>2 DEF SamePeriod, Undisturbed, RequestKept
<1> QED
  BY <1>2, <1>5, <1>6 DEF Open

LEMMA TransitionGateStable ==
    ASSUME NEW x \in Procs, Undisturbed(x), NEW r,
           record'[r] = record[r], Open(r)' <=> Open(r), FilesOf(r)' = FilesOf(r),
           TransitionGate(x, r)
    PROVE  TransitionGate(x, r)'
<1>1. /\ req'[x].op = req[x].op /\ req'[x].user = req[x].user
      /\ req'[x].library = req[x].library /\ req'[x].seen = req[x].seen
  BY DEF Undisturbed, RequestKept
<1>2. CASE req[x].op = "submit"
  BY <1>1, <1>2 DEF TransitionGate, MaySubmit, MayAuthor, EvidencePresent, SameInputs, Seen, Fresh
<1>3. CASE req[x].op = "startReview"
  BY <1>1, <1>3 DEF TransitionGate, MayStartReview, MayReview
<1>4. CASE req[x].op = "approve"
  BY <1>1, <1>4 DEF TransitionGate, MayApproveRecord, MayApprove, SameInputs, Seen, Fresh
<1>5. CASE req[x].op = "reject"
  BY <1>1, <1>5 DEF TransitionGate, MayReject, MayReview
<1>6. CASE req[x].op \notin {"submit", "startReview", "approve", "reject"}
  BY <1>1, <1>6 DEF TransitionGate, MayVoid, MayApprove
<1> QED
  BY <1>2, <1>3, <1>4, <1>5, <1>6

LEMMA RecordGateStable ==
    ASSUME NEW x \in Procs, Undisturbed(x), NEW r \in req[x].records,
           RecordGate(x, r), PeriodsOf(req[x]) \subseteq Guarded(x), TypeOK,
           req[x].op = "update" => (req'[x].stale => req[x].stale) /\ req[x].period \in Periods
    PROVE  RecordGate(x, r)'
<1>1. /\ SamePeriod(x, r)'
      /\ record'[r] = record[r]
      /\ Open(r)' <=> Open(r)
      /\ FilesOf(r)' = FilesOf(r)
  BY RowStable DEF RecordGate
<1>2. /\ req'[x].op = req[x].op /\ req'[x].user = req[x].user /\ req'[x].period = req[x].period
  BY DEF Undisturbed, RequestKept
<1>3. CASE req[x].op = "update"
  <2>1. UpdateGate(x, r)
    BY <1>3 DEF RecordGate, Transitions
  <2>2. req[x].period \in Guarded(x)
    BY <1>3 DEF PeriodsOf
  <2>3. UpdateGate(x, r)'
    BY <1>1, <1>2, <1>3, <2>1, <2>2 DEF UpdateGate, Undisturbed
  <2> QED
    BY <1>1, <1>2, <1>3, <2>3 DEF RecordGate, Transitions
<1>4. CASE req[x].op \in Transitions
  <2>1. TransitionGate(x, r)
    BY <1>4 DEF RecordGate, Transitions
  <2>2. TransitionGate(x, r)'
    BY <1>1, <2>1, TransitionGateStable
  <2> QED
    BY <1>1, <1>2, <1>4, <2>2 DEF RecordGate, Transitions
<1>5. CASE req[x].op \notin Transitions \cup {"update"}
  BY <1>1, <1>2, <1>5 DEF RecordGate, MayMutate, MayAuthor, Transitions
<1> QED
  BY <1>3, <1>4, <1>5

(* The gates that passed still pass.                                       *)
LEMMA AdmittedStable ==
    ASSUME LifecycleInv, NEW x \in Procs, Undisturbed(x),
           Admitted(x), PeriodsOf(req[x]) \subseteq Guarded(x), stage[x] # "idle"
    PROVE  Admitted(x)'
<1>1. /\ req'[x].op = req[x].op /\ req'[x].user = req[x].user /\ req'[x].period = req[x].period
      /\ req'[x].records = req[x].records /\ req'[x].files = req[x].files
      /\ held'[x] = held[x]
  BY DEF Undisturbed, RequestKept
<1>2. TypeOK /\ Asked(x) /\ LocksOfRequest(x) /\ NoOrphanFile
  BY DEF LifecycleInv
<1>3. req[x].op \in PeriodOps \cup {"create", "update"} => req[x].period \in Guarded(x)
  BY <1>2 DEF Asked, PeriodsOf
<1>4. CASE req[x].op = "create"
  BY <1>1, <1>3, <1>4 DEF Admitted, Undisturbed
<1>5. CASE req[x].op = "lock"
  <2>1. req[x].period \in held[x].exclusive
    BY <1>2, <1>3, <1>5 DEF Guarded, LocksOfRequest, PeriodOps
  <2>2. InPeriod(req[x].period, LockBlocking) = {}
    BY <1>5 DEF Admitted
  <2>3. ASSUME NEW r \in Records, Exists(r)', record'[r].period = req[x].period,
               record'[r].status \in LockBlocking
        PROVE  FALSE
    <3>1. record'[r] = record[r]
      BY <2>1, <2>3 DEF Undisturbed
    <3> QED
      BY <2>2, <2>3, <3>1 DEF InPeriod
  <2>4. InPeriod(req[x].period, LockBlocking)' = {}
    BY <1>1, <2>3 DEF InPeriod, LockBlocking
  <2> QED
    BY <1>1, <1>5, <2>4 DEF Admitted
<1>6. CASE req[x].op = "unlock"
  <2>1. (req'[x].stale => req[x].stale)
    BY <1>2, <1>3, <1>6 DEF Undisturbed, Asked, PeriodOps
  <2> QED
    BY <1>1, <1>3, <1>6, <2>1 DEF Admitted, Undisturbed, PeriodOps
<1>7. CASE req[x].op = "removeFile"
  <2> SUFFICES ASSUME NEW f \in req[x].files
               PROVE  /\ f \in held[x].files
                      /\ \A r \in HoldersOf(f)' : r \in req[x].records /\ RecordGate(x, r)'
    BY <1>1, <1>7 DEF Admitted, RemoveFileGate
  <2>1. RemoveFileGate(x)
    BY <1>7 DEF Admitted
  <2>2. f \in held[x].files /\ \A r \in HoldersOf(f) : r \in req[x].records /\ RecordGate(x, r)
    BY <2>1 DEF RemoveFileGate
  <2>3. HoldersOf(f)' = HoldersOf(f)
    BY <2>2 DEF Undisturbed
  <2> QED
    BY <1>2, <1>7, <2>2, <2>3, RecordGateStable
<1>8. CASE req[x].op \notin PeriodOps \cup {"create", "removeFile"}
  <2>1. \A r \in req[x].records : RecordGate(x, r)
    BY <1>8, AdmittedRow
  <2>2. req[x].op = "update" => (req'[x].stale => req[x].stale) /\ req[x].period \in Periods
    BY <1>2, <2>1 DEF Undisturbed, Asked, RecordGate, SamePeriod
  <2>3. \A r \in req[x].records : RecordGate(x, r)'
    BY <1>2, <2>1, <2>2, RecordGateStable
  <2> QED
    BY <1>1, <1>8, <2>3 DEF Admitted, PeriodOps
<1> QED
  BY <1>4, <1>5, <1>6, <1>7, <1>8 DEF PeriodOps

(* The whole of a request's part of the invariant survives.                *)
RequestInv(x) ==
    /\ LocksOfRequest(x)
    /\ Asked(x)
    /\ ReadStands(x)
    /\ Checked(x)
    /\ DoomedRight(x)

LEMMA PeriodsOfStable ==
    ASSUME NEW x \in Procs, RequestKept(x)
    PROVE  PeriodsOf(req[x])' = PeriodsOf(req[x]) /\ Guarded(x)' = Guarded(x)
  BY DEF RequestKept, PeriodsOf, Guarded

LEMMA CheckedStable ==
    ASSUME LifecycleInv, NEW x \in Procs, Undisturbed(x)
    PROVE  Checked(x)'
<1> SUFFICES ASSUME stage[x] \in {"checked", "swept"}
             PROVE  Checked(x)'
  BY DEF Checked, Undisturbed, RequestKept
<1>1. /\ PeriodsOf(req[x]) \subseteq Guarded(x) /\ Admitted(x)
      /\ req[x].op \in Transitions => \A r \in req[x].records : record[r].status = req[x].current
      /\ req[x].op = "remove" => \A r \in req[x].records : req[x].files = FilesOf(r)
  BY DEF LifecycleInv, Checked
<1>2. PeriodsOf(req[x])' \subseteq Guarded(x)'
  BY <1>1, PeriodsOfStable DEF Undisturbed
<1>3. Admitted(x)'
  BY <1>1, AdmittedStable
<1>4. ASSUME NEW r \in req[x].records, req[x].op \in Transitions \cup {"remove"}
      PROVE  record'[r] = record[r] /\ FilesOf(r)' = FilesOf(r)
  <2>1. RecordGate(x, r)
    BY <1>1, <1>4, AdmittedRow DEF Transitions, PeriodOps
  <2> QED
    BY <1>1, <2>1, RowStable DEF RecordGate, LifecycleInv
<1>5. /\ req'[x].op = req[x].op /\ req'[x].records = req[x].records
      /\ req'[x].files = req[x].files /\ req'[x].current = req[x].current
  BY DEF Undisturbed, RequestKept
<1> QED
  BY <1>1, <1>2, <1>3, <1>4, <1>5 DEF Checked

LEMMA DoomedStable ==
    ASSUME LifecycleInv, NEW x \in Procs, Undisturbed(x)
    PROVE  DoomedRight(x)'
<1> SUFFICES ASSUME stage[x] = "swept"
             PROVE  DoomedRight(x)'
  BY DEF DoomedRight, Undisturbed, RequestKept
<1>1. /\ req'[x].op = req[x].op /\ req'[x].records = req[x].records
      /\ req'[x].files = req[x].files /\ req'[x].doomed = req[x].doomed
      /\ held'[x] = held[x] /\ stage'[x] = stage[x]
  BY DEF Undisturbed, RequestKept
<1>2. /\ req[x].op \in UnlinkOps
      /\ FilesWanted(x) \subseteq held[x].files
      /\ req[x].files \subseteq Files /\ req[x].records \subseteq Records
      /\ \A f \in req[x].files : files[f] # "none"
  BY DEF LifecycleInv, DoomedRight, Asked, UnlinkOps, TypeOK, Requests
<1>3. ASSUME NEW f \in req[x].files
      PROVE  /\ HoldersOf(f)' = HoldersOf(f)
             /\ files'[f] = "stored" => f \in held[x].files
  <2>1. CASE files[f] = "stored"
    <3>1. f \in held[x].files
      BY <1>2, <2>1 DEF FilesWanted, UnlinkOps
    <3> QED
      BY <3>1 DEF Undisturbed
  <2>2. CASE files[f] # "stored"
    <3>1. HoldersOf(f) = {}
      BY <1>2, <2>2 DEF LifecycleInv, NoOrphanFile
    <3> QED
      BY <1>2, <2>2, <3>1 DEF Undisturbed
  <2> QED
    BY <2>1, <2>2
<1>4. FilesWanted(x)' \subseteq held'[x].files
  BY <1>1, <1>3 DEF FilesWanted
<1>5. ASSUME NEW r \in req[x].records
      PROVE  req[x].doomed =
                Unlinked(req[x].files,
                         links' \ (IF req[x].op = "remove" THEN LinksOf(r)'
                                                          ELSE {r} \X req[x].files))
  <2>1. ASSUME NEW f \in req[x].files, NEW other \in Records
        PROVE  <<other, f>> \in links' <=> <<other, f>> \in links
    BY <1>3 DEF HoldersOf
  <2>2. req[x].doomed =
           Unlinked(req[x].files,
                    links \ (IF req[x].op = "remove" THEN LinksOf(r) ELSE {r} \X req[x].files))
    BY DEF LifecycleInv, DoomedRight
  <2>3. CASE req[x].op = "remove"
    <3>1. \A f \in req[x].files, other \in Records :
            <<other, f>> \in links' \ LinksOf(r)' <=> <<other, f>> \in links \ LinksOf(r)
      BY <2>1 DEF LinksOf
    <3> QED
      BY <2>2, <2>3, <3>1 DEF Unlinked
  <2>4. CASE req[x].op # "remove"
    <3>1. \A f \in req[x].files, other \in Records :
            <<other, f>> \in links' \ ({r} \X req[x].files)
              <=> <<other, f>> \in links \ ({r} \X req[x].files)
      BY <2>1
    <3> QED
      BY <2>2, <2>4, <3>1 DEF Unlinked
  <2> QED
    BY <2>3, <2>4
<1> QED
  BY <1>1, <1>2, <1>4, <1>5 DEF DoomedRight

LEMMA RequestStable ==
    ASSUME LifecycleInv, NEW x \in Procs, Undisturbed(x)
    PROVE  RequestInv(x)'
<1>1. LocksOfRequest(x)'
  <2>1. /\ \A r \in held[x].rows : record'[r] = record[r]
        /\ \A f \in held[x].files : files'[f] = files[f]
    BY DEF Undisturbed
  <2> QED
    BY <2>1 DEF LifecycleInv, LocksOfRequest, Undisturbed, RequestKept
<1>2. Asked(x)'
  <2>1. req[x].files \subseteq Files
    BY DEF LifecycleInv, TypeOK, Requests
  <2>2. req[x].op # "upload" => \A f \in req[x].files : files'[f] # "none"
    BY <2>1 DEF LifecycleInv, Asked, Undisturbed
  <2>3. stage[x] # "idle" => req[x].library \in 1 .. library'
    BY LedgerAssumption DEF LifecycleInv, Asked, Undisturbed, TypeOK, LedgerTypeOK
  <2> QED
    BY <2>2, <2>3 DEF LifecycleInv, Asked, Undisturbed, RequestKept, MayAuthor, MayApprove
<1>3. ReadStands(x)'
  <2> SUFFICES ASSUME req[x].op = "update", ~req'[x].stale, NEW r \in req[x].records
               PROVE  Exists(r)' /\ MayMutate(req[x].user, r)' /\ Seen(r)' = req[x].seen[r]
    BY DEF ReadStands, Undisturbed, RequestKept
  <2>1. ~req[x].stale
    BY DEF Undisturbed, RequestKept
  <2>2. record'[r] = record[r]
    BY DEF Undisturbed, LifecycleInv, TypeOK, Requests
  <2>3. Exists(r) /\ MayMutate(req[x].user, r) /\ Seen(r) = req[x].seen[r]
    BY <2>1 DEF LifecycleInv, ReadStands
  <2> QED
    BY <2>2, <2>3 DEF Seen, MayMutate, MayAuthor, Undisturbed, RequestKept
<1> QED
  BY <1>1, <1>2, <1>3, CheckedStable, DoomedStable DEF RequestInv

-----------------------------------------------------------------------------
(* What a commit of p touches is covered by p's locks, or new.             *)

Footprint(p, wrote, reopened) ==
    /\ library' = library
    /\ \A r \in Records : record'[r] # record[r] => r \in wrote
    /\ \A r \in wrote :
         \/ r \in held[p].rows
         \/ req[p].op = "create" /\ r \in req[p].records
    /\ \A r \in wrote : r \in Records =>
         /\ Exists(r) => record[r].period \in Guarded(p)
         /\ Exists(r)' => record'[r].period \in Guarded(p)
    /\ \A r \in Records : FilesOf(r)' # FilesOf(r) => r \in held[p].rows
    /\ \A k : (k \in closed' <=> k \in closed) \/ k \in held[p].exclusive
    /\ reopened \subseteq held[p].exclusive
    /\ \A f \in Files : files[f] # "none" =>
         /\ files'[f] # "none"
         /\ files'[f] = "stored" => files[f] = "stored"
         /\ HoldersOf(f)' \subseteq HoldersOf(f)
    /\ \A f \in Files : files[f] = "none" /\ f \notin req[p].files => files'[f] = "none"
    /\ \A f \in Files : files[f] = "stored" =>
         \/ f \in held[p].files
         \/ files'[f] = files[f] /\ HoldersOf(f)' = HoldersOf(f)

GoesStale(x, wrote, reopened) ==
    \/ req[x].stale
    \/ req[x].records \cap wrote # {}
    \/ req[x].op = "unlock" /\ req[x].period \in reopened

LEMMA FinishKeeps ==
    ASSUME LifecycleInv, NEW p \in Procs, NEW wrote, NEW reopened, Finish(p, wrote, reopened),
           NEW x \in Procs, x # p
    PROVE  RequestKept(x) /\ (req'[x].stale <=> GoesStale(x, wrote, reopened))
<1> DEFINE b == GoesStale(x, wrote, reopened)
<1>1. req[x] \in Requests
  BY DEF LifecycleInv, TypeOK
<1>2. b \in BOOLEAN /\ (req[x].stale => b)
  BY <1>1 DEF Requests, GoesStale
<1>3. req'[x] = [req[x] EXCEPT !.stale = b]
  BY DEF Finish, GoesStale
<1>4. stage'[x] = stage[x] /\ held'[x] = held[x]
  BY DEF Finish, LifecycleInv, TypeOK
<1>5. stage[x] = "idle" => b = req[x].stale
  <2>1. stage[x] = "idle" => req[x] = NoRequest
    BY DEF LifecycleInv, LocksOfRequest
  <2>2. NoRequest.records = {} /\ NoRequest.op = "none" /\ NoRequest.stale = FALSE
    BY DEF NoRequest
  <2> QED
    BY <2>1, <2>2 DEF GoesStale
<1> HIDE DEF b
<1>6. stage[x] = "idle" => req'[x] = req[x]
  BY <1>1, <1>3, <1>5 DEF Requests
<1>7. /\ req'[x].op = req[x].op /\ req'[x].user = req[x].user
      /\ req'[x].records = req[x].records /\ req'[x].files = req[x].files
      /\ req'[x].period = req[x].period /\ req'[x].value = req[x].value
      /\ req'[x].site = req[x].site /\ req'[x].library = req[x].library
      /\ req'[x].seen = req[x].seen /\ req'[x].current = req[x].current
      /\ req'[x].doomed = req[x].doomed
      /\ req'[x].stale = b
  BY <1>1, <1>3 DEF Requests
<1>8. RequestKept(x)
  BY <1>2, <1>4, <1>6, <1>7 DEF RequestKept
<1>9. req'[x].stale <=> b
  BY <1>7
<1> QED
  BY <1>8, <1>9 DEF b

LEMMA FootprintUndisturbs ==
    ASSUME LifecycleInv, LedgerTypeOK', NEW p \in Procs, NEW wrote, NEW reopened,
           Finish(p, wrote, reopened), Footprint(p, wrote, reopened), NEW x \in Procs, x # p
    PROVE  Undisturbed(x)
<1>1. RequestKept(x) /\ (req'[x].stale <=> GoesStale(x, wrote, reopened))
  BY FinishKeeps
<1>2. /\ held[p].exclusive \cap Guarded(x) = {}
      /\ held[x].exclusive \cap Guarded(p) = {}
      /\ held[p].rows \cap held[x].rows = {}
      /\ held[p].files \cap held[x].files = {}
  BY DEF LifecycleInv, LockExclusion
<1>3. /\ held[x].rows \subseteq Records /\ held[x].files \subseteq Files
      /\ req[x].records \subseteq Records
  BY DEF LifecycleInv, TypeOK, LockSets, Requests
<1>4. library <= library' /\ library' \in Nat
  BY LedgerAssumption DEF Footprint, LedgerTypeOK
<1>5. \A r \in Records : req[p].op = "create" /\ r \in req[p].records =>
        record[r] = Unused /\ r \notin req[x].records
  BY DEF LifecycleInv, Reserved
<1>6. ASSUME NEW r \in held[x].rows
      PROVE  record'[r] = record[r] /\ FilesOf(r)' = FilesOf(r)
  <2>1. Exists(r)
    BY DEF LifecycleInv, LocksOfRequest
  <2>2. record[r] # Unused
    BY <2>1 DEF Unused
  <2> QED
    BY <1>2, <1>3, <1>5, <2>2 DEF Footprint
<1>7. \A k \in Guarded(x) : k \in closed' <=> k \in closed
  BY <1>2 DEF Footprint
<1>8. ASSUME NEW r \in Records, record'[r] # record[r]
      PROVE  /\ Exists(r) => record[r].period \notin held[x].exclusive
             /\ Exists(r)' => record'[r].period \notin held[x].exclusive
             /\ r \in req[x].records => req'[x].stale
  <2>1. r \in wrote
    BY <1>8 DEF Footprint
  <2>2. /\ Exists(r) => record[r].period \in Guarded(p)
        /\ Exists(r)' => record'[r].period \in Guarded(p)
    BY <2>1 DEF Footprint
  <2>3. r \in req[x].records => req'[x].stale
    BY <1>1, <2>1 DEF GoesStale
  <2> QED
    BY <1>2, <2>2, <2>3
<1>9. ASSUME NEW f \in held[x].files
      PROVE  files'[f] = files[f] /\ HoldersOf(f)' = HoldersOf(f)
  <2>1. files[f] = "stored" /\ f \in Files /\ f \notin held[p].files
    BY <1>2, <1>3 DEF LifecycleInv, LocksOfRequest
  <2> QED
    BY <2>1 DEF Footprint
<1>10. \/ (req'[x].stale => req[x].stale)
       \/ \E r \in req[x].records : r \notin held[x].rows
       \/ req[x].op = "unlock" /\ req[x].period \notin Guarded(x)
  <2>1. CASE req[x].records \cap wrote # {}
    <3>1. PICK r \in req[x].records : r \in wrote
      BY <2>1
    <3>2. r \in held[p].rows
      BY <1>3, <1>5, <3>1 DEF Footprint
    <3> QED
      BY <1>2, <3>1, <3>2
  <2>2. CASE req[x].op = "unlock" /\ req[x].period \in reopened
    BY <1>2, <2>2 DEF Footprint
  <2> QED
    BY <1>1, <2>1, <2>2 DEF GoesStale
<1> QED
  BY <1>1, <1>4, <1>6, <1>7, <1>8, <1>9, <1>10 DEF Undisturbed, Footprint

HasFootprint(p) ==
    \E wrote \in SUBSET Records, reopened \in SUBSET Periods :
        Finish(p, wrote, reopened) /\ Footprint(p, wrote, reopened)

(* A request that passed a row's gate holds the row and its period.        *)
LEMMA GatedRow ==
    ASSUME LifecycleInv, NEW p \in Procs, NEW r \in req[p].records, RecordGate(p, r),
           PeriodsOf(req[p]) \subseteq Guarded(p)
    PROVE  /\ r \in held[p].rows /\ record[r].period \in Guarded(p)
           /\ record[r] \in Row
<1>1. r \in held[p].rows /\ record[r].period = req[p].seen[r].period /\ req[p].seen[r] # None
      /\ Exists(r) /\ r \in Records
  BY DEF RecordGate, SamePeriod, LifecycleInv, TypeOK, Requests
<1>2. record[r] \in Row
  BY <1>1 DEF LifecycleInv, TypeOK, LedgerTypeOK, Unused, Deleted
<1>3. record[r].period \in Periods
  BY <1>2 DEF Row
<1> QED
  BY <1>1, <1>2, <1>3 DEF PeriodsOf

LEMMA WriteCreateFootprint ==
    ASSUME LifecycleInv, NEW p \in Procs, WriteCreate(p)
    PROVE  HasFootprint(p)
<1>1. PICK r \in Records :
        /\ Ready(p, "create") /\ Only(p, r)
        /\ DoCreate(req[p].user, r, req[p].period, req[p].value, req[p].site, req[p].library)
        /\ Finish(p, {r}, {})
  BY DEF WriteCreate
<1>2. req[p].op = "create" /\ PeriodsOf(req[p]) \subseteq Guarded(p) /\ r \in req[p].records
  BY <1>1, ReadyFacts DEF Ops, Only
<1>3. req[p].period \in Guarded(p) /\ record[r] = Unused
  BY <1>2 DEF LifecycleInv, Asked, PeriodsOf, Reserved
<1>4. record' = [record EXCEPT ![r] = NewDraft(req[p].user, req[p].period, req[p].value,
                                               req[p].site, req[p].library)]
      /\ UNCHANGED <<closed, links, files, library>>
  BY <1>1 DEF DoCreate
<1>5. record'[r].period = req[p].period
  BY <1>4, DraftStatus DEF LifecycleInv, TypeOK, LedgerTypeOK
<1>6. \A other \in Records : record'[other] # record[other] => other \in {r}
  BY <1>4 DEF LifecycleInv, TypeOK, LedgerTypeOK
<1>7. ~Exists(r)
  BY <1>3 DEF Unused
<1>8. Footprint(p, {r}, {})
  BY <1>2, <1>3, <1>4, <1>5, <1>6, <1>7 DEF Footprint, FilesOf, HoldersOf
<1> QED
  BY <1>1, <1>8 DEF HasFootprint

LEMMA WriteUpdateFootprint ==
    ASSUME LifecycleInv, NEW p \in Procs, WriteUpdate(p)
    PROVE  HasFootprint(p)
<1>0. PICK r \in Records :
        /\ Ready(p, "update") /\ Only(p, r)
        /\ \E fig : DoUpdate(req[p].user, r, req[p].period, req[p].value, req[p].site, fig)
        /\ Finish(p, {r}, {})
  BY DEF WriteUpdate
<1>f. PICK fig : DoUpdate(req[p].user, r, req[p].period, req[p].value, req[p].site, fig)
  BY <1>0
<1>1. /\ Ready(p, "update") /\ Only(p, r)
      /\ DoUpdate(req[p].user, r, req[p].period, req[p].value, req[p].site, fig)
      /\ Finish(p, {r}, {})
  BY <1>0, <1>f
<1>2. /\ req[p].op = "update" /\ Admitted(p) /\ PeriodsOf(req[p]) \subseteq Guarded(p)
      /\ r \in req[p].records
  BY <1>1, ReadyFacts DEF Ops, RowOps, EditOps, Only
<1>3. RecordGate(p, r)
  BY <1>2, AdmittedRow DEF PeriodOps
<1>4. r \in held[p].rows /\ record[r].period \in Guarded(p) /\ record[r] \in Row
  BY <1>2, <1>3, GatedRow
<1>5. req[p].period \in Guarded(p)
  BY <1>2 DEF LifecycleInv, Asked, PeriodsOf
<1>6. /\ \A other \in Records : record'[other] # record[other] => other \in {r}
      /\ record'[r].period = req[p].period
      /\ UNCHANGED <<closed, links, files, library>>
  BY <1>1, <1>4 DEF DoUpdate, LifecycleInv, TypeOK, LedgerTypeOK, Row
<1>7. Footprint(p, {r}, {})
  BY <1>4, <1>5, <1>6 DEF Footprint, FilesOf, HoldersOf
<1> QED
  BY <1>1, <1>7 DEF HasFootprint

LEMMA WriteTransitionFootprint ==
    ASSUME LifecycleInv, NEW p \in Procs, WriteTransition(p)
    PROVE  HasFootprint(p)
<1>1. PICK op \in Transitions, r \in Records :
        /\ Ready(p, op) /\ Only(p, r)
        /\ DoTransition(req[p].user, r, AuditAction(op), req[p].current, Outcome(op))
        /\ Finish(p, {r}, {})
  BY DEF WriteTransition
<1>2. /\ req[p].op = op /\ Admitted(p) /\ PeriodsOf(req[p]) \subseteq Guarded(p)
      /\ r \in req[p].records
  BY <1>1, ReadyFacts DEF Ops, RowOps, Only
<1>3. RecordGate(p, r)
  BY <1>2, AdmittedRow DEF PeriodOps, Transitions
<1>4. r \in held[p].rows /\ record[r].period \in Guarded(p) /\ record[r] \in Row
  BY <1>2, <1>3, GatedRow
<1>5. /\ \A other \in Records : record'[other] # record[other] => other \in {r}
      /\ record'[r].period = record[r].period
      /\ UNCHANGED <<closed, links, files, library>>
  BY <1>1, <1>4 DEF DoTransition, LifecycleInv, TypeOK, LedgerTypeOK, Row
<1>6. Footprint(p, {r}, {})
  BY <1>4, <1>5 DEF Footprint, FilesOf, HoldersOf
<1> QED
  BY <1>1, <1>6 DEF HasFootprint

(* Links that go, with the files they leave unlinked, all locked.          *)
LEMMA DropLinksFootprint ==
    ASSUME LifecycleInv, NEW p \in Procs, NEW gone \in SUBSET links,
           NEW doomed \in SUBSET Files, DropLinks(gone, doomed),
           UNCHANGED <<closed, library>>,
           \A l \in gone : l[1] \in held[p].rows,
           \A f \in Files : f \in doomed \/ (\E r \in Records : <<r, f>> \in gone) =>
               /\ files[f] # "none"
               /\ files[f] = "stored" => f \in held[p].files,
           NEW wrote \in SUBSET held[p].rows,
           \A r \in Records : record'[r] # record[r] => r \in wrote,
           \A r \in wrote : Exists(r) => record[r].period \in Guarded(p),
           \A r \in wrote : ~Exists(r)'
    PROVE  Footprint(p, wrote, {})
<1>1. links' = links \ gone
  BY DEF DropLinks
<1>2. \A f \in Files : files'[f] = IF f \in doomed THEN "deleted" ELSE files[f]
  BY DEF DropLinks
<1>3. ASSUME NEW r \in Records, FilesOf(r)' # FilesOf(r)
      PROVE  r \in held[p].rows
  <2>1. PICK f \in Files : <<r, f>> \in gone
    BY <1>1, <1>3 DEF FilesOf
  <2> QED
    BY <2>1
<1>4. ASSUME NEW f \in Files
      PROVE  HoldersOf(f)' \subseteq HoldersOf(f)
  BY <1>1 DEF HoldersOf
<1>5. ASSUME NEW f \in Files, files[f] = "stored", f \notin held[p].files
      PROVE  files'[f] = files[f] /\ HoldersOf(f)' = HoldersOf(f)
  <2>1. f \notin doomed /\ \A r \in Records : <<r, f>> \notin gone
    BY <1>5
  <2> QED
    BY <1>1, <1>2, <2>1 DEF HoldersOf
<1> QED
  BY <1>2, <1>3, <1>4, <1>5 DEF Footprint

LEMMA WriteRemoveFootprint ==
    ASSUME LifecycleInv, NEW p \in Procs, WriteRemove(p)
    PROVE  HasFootprint(p)
<1>1. PICK r \in Records :
        /\ Ready(p, "remove") /\ Only(p, r)
        /\ DoRemove(req[p].user, r, req[p].doomed)
        /\ Finish(p, {r}, {})
  BY DEF WriteRemove
<1>2. /\ req[p].op = "remove" /\ Admitted(p) /\ PeriodsOf(req[p]) \subseteq Guarded(p)
      /\ r \in req[p].records /\ stage[p] = "swept"
  BY <1>1, ReadyFacts DEF Ops, RowOps, EditOps, Only, Ready, UnlinkOps
<1>3. RecordGate(p, r)
  BY <1>2, AdmittedRow DEF PeriodOps
<1>4. r \in held[p].rows /\ record[r].period \in Guarded(p)
  BY <1>2, <1>3, GatedRow
<1>5. req[p].files = FilesOf(r) /\ FilesWanted(p) \subseteq held[p].files
  BY <1>2 DEF LifecycleInv, Checked, DoomedRight
<1>6. \A f \in FilesOf(r) : files[f] # "none" /\ (files[f] = "stored" => f \in held[p].files)
  BY <1>2, <1>5 DEF LifecycleInv, Asked, FilesWanted, UnlinkOps
<1>7. req[p].doomed \subseteq FilesOf(r)
  <2>1. req[p].doomed = Unlinked(FilesOf(r), links \ LinksOf(r))
    BY <1>2, <1>5 DEF LifecycleInv, DoomedRight
  <2> QED
    BY <2>1 DEF Unlinked
<1>8. \A f \in Files : f \in req[p].doomed \/ (\E o \in Records : <<o, f>> \in LinksOf(r))
        => f \in FilesOf(r)
  BY <1>7 DEF LinksOf, FilesOf
<1>9. DropLinks(LinksOf(r), req[p].doomed) /\ UNCHANGED <<closed, library>>
  BY <1>1 DEF DoRemove
<1>10. /\ \A o \in Records : record'[o] # record[o] => o \in {r}
       /\ ~Exists(r)'
  BY <1>1 DEF DoRemove, Deleted, LifecycleInv, TypeOK, LedgerTypeOK
<1>11. LinksOf(r) \in SUBSET links /\ \A l \in LinksOf(r) : l[1] \in held[p].rows
  BY <1>4 DEF LinksOf
<1>12. req[p].doomed \in SUBSET Files
  BY DEF LifecycleInv, TypeOK, Requests
<1>13. Footprint(p, {r}, {})
  BY <1>4, <1>6, <1>8, <1>9, <1>10, <1>11, <1>12, DropLinksFootprint
<1> QED
  BY <1>1, <1>13 DEF HasFootprint

LEMMA WriteDetachFootprint ==
    ASSUME LifecycleInv, NEW p \in Procs, WriteDetach(p)
    PROVE  HasFootprint(p)
<1>1. PICK r \in Records, f \in Files :
        /\ Ready(p, "detach") /\ Only(p, r) /\ req[p].files = {f} /\ <<r, f>> \in links
        /\ DoDetach(req[p].user, r, f, req[p].doomed)
        /\ Finish(p, {}, {})
  BY DEF WriteDetach
<1>2. /\ req[p].op = "detach" /\ Admitted(p) /\ PeriodsOf(req[p]) \subseteq Guarded(p)
      /\ r \in req[p].records /\ stage[p] = "swept"
  BY <1>1, ReadyFacts DEF Ops, RowOps, FileOps, Only, Ready, UnlinkOps
<1>3. RecordGate(p, r)
  BY <1>2, AdmittedRow DEF PeriodOps
<1>4. r \in held[p].rows
  BY <1>2, <1>3, GatedRow
<1>5. FilesWanted(p) \subseteq held[p].files
  BY <1>2 DEF LifecycleInv, DoomedRight
<1>6. files[f] # "none" /\ (files[f] = "stored" => f \in held[p].files)
  BY <1>1, <1>2, <1>5 DEF LifecycleInv, Asked, FilesWanted, UnlinkOps
<1>7. req[p].doomed \subseteq {f}
  BY <1>1, <1>2 DEF LifecycleInv, DoomedRight, Unlinked
<1>8. /\ DropLinks({<<r, f>>}, req[p].doomed) /\ UNCHANGED <<closed, library>>
      /\ record' = record
  BY <1>1 DEF DoDetach
<1>9. \A g \in Files : g \in req[p].doomed \/ (\E o \in Records : <<o, g>> \in {<<r, f>>})
        => g = f
  BY <1>7
<1>10. {<<r, f>>} \in SUBSET links /\ \A l \in {<<r, f>>} : l[1] \in held[p].rows
  BY <1>1, <1>4
<1>11. req[p].doomed \in SUBSET Files
  BY DEF LifecycleInv, TypeOK, Requests
<1>12. Footprint(p, {}, {})
  BY <1>6, <1>8, <1>9, <1>10, <1>11, DropLinksFootprint
<1> QED
  BY <1>1, <1>12 DEF HasFootprint

LEMMA WriteUploadFootprint ==
    ASSUME LifecycleInv, NEW p \in Procs, WriteUpload(p)
    PROVE  HasFootprint(p)
<1>1. PICK f \in Files :
        /\ Ready(p, "upload") /\ req[p].files = {f}
        /\ DoUpload(req[p].user, req[p].records, f)
        /\ Finish(p, {}, {})
  BY DEF WriteUpload
<1>2. /\ req[p].op = "upload" /\ Admitted(p) /\ PeriodsOf(req[p]) \subseteq Guarded(p)
  BY <1>1, ReadyFacts DEF Ops, RowOps, FileOps
<1>3. \A r \in req[p].records : r \in held[p].rows
  BY <1>2, AdmittedRow, GatedRow DEF PeriodOps
<1>4. files[f] = "none"
  BY <1>1, <1>2 DEF LifecycleInv, Reserved
<1>5. /\ files' = [files EXCEPT ![f] = "stored"] /\ links' = links \cup (req[p].records \X {f})
      /\ UNCHANGED <<record, closed, library>>
  BY <1>1 DEF DoUpload
<1>6. \A r \in Records : FilesOf(r)' # FilesOf(r) => r \in held[p].rows
  BY <1>3, <1>5 DEF FilesOf
<1>7. \A g \in Files : files[g] # "none" =>
         g # f /\ files'[g] = files[g] /\ HoldersOf(g)' = HoldersOf(g)
  BY <1>4, <1>5 DEF HoldersOf, LifecycleInv, TypeOK, LedgerTypeOK
<1>8. \A g \in Files : g \notin req[p].files => files'[g] = files[g]
  BY <1>1, <1>5 DEF LifecycleInv, TypeOK, LedgerTypeOK
<1>9. Footprint(p, {}, {})
  BY <1>5, <1>6, <1>7, <1>8 DEF Footprint
<1> QED
  BY <1>1, <1>9 DEF HasFootprint

LEMMA WriteRemoveFileFootprint ==
    ASSUME LifecycleInv, NEW p \in Procs, WriteRemoveFile(p)
    PROVE  HasFootprint(p)
<1>1. PICK f \in Files :
        /\ Ready(p, "removeFile") /\ req[p].files = {f}
        /\ DoRemoveFile(req[p].user, f)
        /\ Finish(p, {}, {})
  BY DEF WriteRemoveFile
<1>2. req[p].op = "removeFile" /\ Admitted(p)
  BY <1>1, ReadyFacts DEF Ops, RowOps, FileOps
<1>3. RemoveFileGate(p)
  BY <1>2 DEF Admitted
<1>4. f \in held[p].files /\ \A r \in HoldersOf(f) : r \in held[p].rows
  BY <1>1, <1>3 DEF RemoveFileGate, RecordGate, SamePeriod
<1>5. /\ files' = [files EXCEPT ![f] = "deleted"] /\ links' = {l \in links : l[2] # f}
      /\ UNCHANGED <<record, closed, library>>
  BY <1>1 DEF DoRemoveFile
<1>6. \A r \in Records : FilesOf(r)' # FilesOf(r) => r \in held[p].rows
  BY <1>4, <1>5 DEF FilesOf, HoldersOf
<1>7. \A g \in Files :
         /\ files'[g] = IF g = f THEN "deleted" ELSE files[g]
         /\ HoldersOf(g)' \subseteq HoldersOf(g)
         /\ g # f => HoldersOf(g)' = HoldersOf(g)
  BY <1>5 DEF HoldersOf, LifecycleInv, TypeOK, LedgerTypeOK
<1>8. Footprint(p, {}, {})
  BY <1>1, <1>4, <1>5, <1>6, <1>7 DEF Footprint
<1> QED
  BY <1>1, <1>8 DEF HasFootprint

LEMMA WritePeriodFootprint ==
    ASSUME LifecycleInv, NEW p \in Procs, WriteLock(p) \/ WriteUnlock(p)
    PROVE  HasFootprint(p)
<1> DEFINE per == req[p].period
<1>1. PICK from \in Committed, to \in Committed, reopened \in SUBSET {per} :
        /\ req[p].op = (IF from = "approved" THEN "lock" ELSE "unlock")
        /\ stage[p] = "checked"
        /\ Ready(p, req[p].op)
        /\ record' = Flipped(per, from, to)
        /\ \A k : k # per => (k \in closed' <=> k \in closed)
        /\ UNCHANGED <<links, files, library>>
        /\ Finish(p, InPeriod(per, {from}), reopened)
  <2>1. CASE WriteLock(p)
    BY <2>1 DEF WriteLock, Ready, DoLock, UnlinkOps
  <2>2. CASE WriteUnlock(p)
    BY <2>2 DEF WriteUnlock, Ready, DoUnlock, UnlinkOps
  <2> QED
    BY <2>1, <2>2
<1>2. /\ req[p].op \in PeriodOps /\ PeriodsOf(req[p]) \subseteq Guarded(p)
      /\ MissingRows(p) = {}
  BY <1>1, ReadyFacts DEF PeriodOps, Ops
<1>3. per \in Periods /\ per \in held[p].exclusive /\ per \in Guarded(p)
  BY <1>2 DEF LifecycleInv, Asked, PeriodsOf, LocksOfRequest, Guarded
<1>4. InPeriod(per, {from}) \subseteq held[p].rows
  BY <1>1, <1>2 DEF MissingRows, RowsWanted
<1>5. ASSUME NEW r \in Records
      PROVE  /\ record'[r] # record[r] => r \in InPeriod(per, {from})
             /\ r \in InPeriod(per, {from}) => record[r].period = per /\ record'[r].period = per
  <2>1. LedgerTypeOK
    BY DEF LifecycleInv, TypeOK
  <2>2. CASE /\ record[r] \in Row /\ record[r].period = per /\ record[r].status = from
             /\ SameInput(r)
    BY <2>2 DEF InPeriod, SameInput
  <2>3. CASE /\ ~(Exists(r) /\ record[r].period = per /\ record[r].status = from)
             /\ record'[r] = record[r]
    BY <2>3 DEF InPeriod
  <2>4. from \in Live /\ to \in Live
    BY DEF Live
  <2>5. record' = Flipped(per, from, to)
    BY <1>1
  <2>6. \/ /\ record[r] \in Row /\ record[r].period = per /\ record[r].status = from
           /\ record'[r].status = to /\ SameInput(r)
           /\ record'[r].submittedBy = record[r].submittedBy
           /\ record'[r].reviewedBy = record[r].reviewedBy
        \/ /\ ~(Exists(r) /\ record[r].period = per /\ record[r].status = from)
           /\ record'[r] = record[r]
    BY <2>1, <2>4, <2>5, FlipEffect
  <2> QED
    BY <2>2, <2>3, <2>6
<1>6. Footprint(p, InPeriod(per, {from}), reopened)
  BY <1>1, <1>3, <1>4, <1>5 DEF Footprint, FilesOf, HoldersOf
<1>7. InPeriod(per, {from}) \in SUBSET Records
  BY DEF InPeriod
<1> QED
  BY <1>1, <1>3, <1>6, <1>7 DEF HasFootprint

LEMMA WriteFootprint ==
    ASSUME LifecycleInv, NEW p \in Procs, Write(p)
    PROVE  HasFootprint(p)
  BY WriteCreateFootprint, WriteUpdateFootprint, WriteRemoveFootprint, WriteTransitionFootprint,
     WriteUploadFootprint, WriteDetachFootprint, WriteRemoveFileFootprint, WritePeriodFootprint
  DEF Write

-----------------------------------------------------------------------------
(* The commit of p keeps the invariant.                                    *)

LEMMA CommitPreserves ==
    ASSUME LifecycleInv, NEW p \in Procs, Write(p)
    PROVE  LifecycleInv'
<1>1. PICK wrote \in SUBSET Records, reopened \in SUBSET Periods :
        Finish(p, wrote, reopened) /\ Footprint(p, wrote, reopened)
  BY WriteFootprint DEF HasFootprint
<1>2. LedgerTypeOK' /\ NoOrphanFile'
  BY WriteImplements, LedgerNextType, NoOrphanNext DEF LifecycleInv, TypeOK
<1>3. TypeOK'
  BY <1>1, <1>2, FinishType DEF LifecycleInv
<1>4. \A x \in Procs : x # p => Undisturbed(x)
  BY <1>1, <1>2, FootprintUndisturbs
<1>5. stage'[p] = "idle" /\ req'[p] = NoRequest /\ held'[p] = NoLocks
  BY <1>1 DEF Finish, LifecycleInv, TypeOK
<1>6. \A x \in Procs : x # p => RequestKept(x)
  BY <1>4 DEF Undisturbed
<1>7. LockExclusion'
  BY <1>5, <1>6 DEF LifecycleInv, LockExclusion, RequestKept, Guarded, NoLocks
<1>8. ASSUME NEW x \in Procs
      PROVE  RequestInv(x)'
  <2>1. CASE x = p
    BY <1>5, <2>1 DEF RequestInv, LocksOfRequest, Asked, ReadStands, Checked, DoomedRight,
                      NoRequest, NoLocks, PeriodOps, UnlinkOps
  <2>2. CASE x # p
    BY <1>4, <2>2, RequestStable
  <2> QED
    BY <2>1, <2>2
<1>9. ASSUME NEW x \in Procs
      PROVE  Reserved(x)'
  <2>1. CASE x = p
    BY <1>5, <2>1 DEF Reserved, NoRequest
  <2>2. CASE x # p
    <3>1. Reserved(x) /\ RequestKept(x)
      BY <1>6, <2>2 DEF LifecycleInv
    <3>2. \A q \in Procs : \/ req'[q].records = req[q].records /\ req'[q].files = req[q].files
                           \/ req'[q].records = {} /\ req'[q].files = {}
      BY <1>5, <1>6 DEF RequestKept, NoRequest
    <3>3. ASSUME req[x].op = "create", NEW r \in req[x].records
          PROVE  record'[r] = Unused
      <4>1. record[r] = Unused /\ r \notin req[p].records /\ r \in Records
        BY <2>2, <3>1, <3>3 DEF Reserved, LifecycleInv, TypeOK, Requests
      <4>2. r \notin held[p].rows
        BY <4>1 DEF LifecycleInv, LocksOfRequest, Unused
      <4> QED
        BY <1>1, <4>1, <4>2 DEF Footprint
    <3>4. ASSUME req[x].op = "upload", NEW f \in req[x].files
          PROVE  files'[f] = "none"
      <4>1. files[f] = "none" /\ f \notin req[p].files /\ f \in Files
        BY <2>2, <3>1, <3>4 DEF Reserved, LifecycleInv, TypeOK, Requests
      <4> QED
        BY <1>1, <4>1 DEF Footprint
    <3> QED
      BY <3>1, <3>2, <3>3, <3>4 DEF Reserved, RequestKept
  <2> QED
    BY <2>1, <2>2
<1> QED
  BY <1>2, <1>3, <1>7, <1>8, <1>9 DEF LifecycleInv, RequestInv

-----------------------------------------------------------------------------
(* Steps that commit nothing.                                              *)

LEMMA QuietUndisturbs ==
    ASSUME LifecycleInv, NEW x \in Procs, UNCHANGED <<record, closed, links, files>>,
           library <= library', library' \in Nat, RequestKept(x), req'[x].stale => req[x].stale
    PROVE  Undisturbed(x)
<1>1. \A r : FilesOf(r)' = FilesOf(r)
  BY DEF FilesOf
<1>2. \A f : HoldersOf(f)' = HoldersOf(f)
  BY DEF HoldersOf
<1> QED
  BY <1>1, <1>2 DEF Undisturbed

(* When only p moves, the other requests keep their part.                  *)
LEMMA OthersKeep ==
    ASSUME LifecycleInv, NEW p \in Procs, UNCHANGED ledgerVars, NEW x \in Procs,
           stage'[x] = stage[x], held'[x] = held[x], req'[x] = req[x]
    PROVE  RequestInv(x)'
<1>1. RequestKept(x)
  BY DEF RequestKept
<1>2. library \in Nat
  BY LedgerAssumption DEF LifecycleInv, TypeOK, LedgerTypeOK
<1>3. Undisturbed(x)
  BY <1>1, <1>2, QuietUndisturbs DEF ledgerVars
<1> QED
  BY <1>3, RequestStable

LEMMA NoOrphanUnchanged ==
    ASSUME NoOrphanFile, UNCHANGED ledgerVars
    PROVE  NoOrphanFile'
  BY DEF NoOrphanFile, ledgerVars, HoldersOf

LEMMA PublishPreserves ==
    ASSUME LifecycleInv, PublishRelease
    PROVE  LifecycleInv'
<1>1. LedgerTypeOK'
  BY PublishType DEF PublishRelease, LifecycleInv, TypeOK
<1>2. /\ UNCHANGED <<record, closed, links, files, stage, req, held>>
      /\ library <= library' /\ library' \in Nat
  BY <1>1, LedgerAssumption DEF PublishRelease, Publish, LifecycleInv, TypeOK, LedgerTypeOK
<1>3. TypeOK'
  BY <1>1, <1>2 DEF TypeOK, LifecycleInv
<1>4. NoOrphanFile'
  BY <1>2 DEF LifecycleInv, NoOrphanFile, HoldersOf
<1>5. ASSUME NEW x \in Procs
      PROVE  RequestInv(x)'
  <2>1. RequestKept(x)
    BY <1>2 DEF RequestKept
  <2> QED
    BY <1>2, <2>1, QuietUndisturbs, RequestStable
<1>6. LockExclusion' /\ \A x \in Procs : Reserved(x)'
  BY <1>2 DEF LifecycleInv, LockExclusion, Guarded, Reserved
<1> QED
  BY <1>3, <1>4, <1>5, <1>6 DEF LifecycleInv, RequestInv

LEMMA RollbackPreserves ==
    ASSUME LifecycleInv, NEW p \in Procs, Rollback(p)
    PROVE  LifecycleInv'
<1>1. Finish(p, {}, {}) /\ UNCHANGED ledgerVars
  BY DEF Rollback
<1>2. LedgerTypeOK'
  BY <1>1 DEF LifecycleInv, TypeOK, LedgerTypeOK, ledgerVars
<1>3. Footprint(p, {}, {})
  BY <1>1 DEF Footprint, ledgerVars, FilesOf, HoldersOf
<1>4. TypeOK' /\ NoOrphanFile'
  BY <1>1, <1>2, FinishType, NoOrphanUnchanged DEF LifecycleInv
<1>5. \A x \in Procs : x # p => Undisturbed(x)
  BY <1>1, <1>2, <1>3, FootprintUndisturbs
<1>6. stage'[p] = "idle" /\ req'[p] = NoRequest /\ held'[p] = NoLocks
  BY <1>1 DEF Finish, LifecycleInv, TypeOK
<1>7. \A x \in Procs : x # p => RequestKept(x)
  BY <1>5 DEF Undisturbed
<1>8. LockExclusion'
  BY <1>6, <1>7 DEF LifecycleInv, LockExclusion, RequestKept, Guarded, NoLocks
<1>9. ASSUME NEW x \in Procs
      PROVE  RequestInv(x)'
  <2>1. CASE x = p
    BY <1>6, <2>1 DEF RequestInv, LocksOfRequest, Asked, ReadStands, Checked, DoomedRight,
                      NoRequest, NoLocks, PeriodOps, UnlinkOps
  <2>2. CASE x # p
    BY <1>5, <2>2, RequestStable
  <2> QED
    BY <2>1, <2>2
<1>10. ASSUME NEW x \in Procs
       PROVE  Reserved(x)'
  <2>1. \A q \in Procs : \/ req'[q].records = req[q].records /\ req'[q].files = req[q].files
                         \/ req'[q].records = {} /\ req'[q].files = {}
    BY <1>6, <1>7 DEF RequestKept, NoRequest
  <2>2. req'[x].op = req[x].op \/ req'[x].op = "none"
    BY <1>6, <1>7 DEF RequestKept, NoRequest
  <2> QED
    BY <1>1, <2>1, <2>2 DEF LifecycleInv, Reserved, ledgerVars
<1> QED
  BY <1>4, <1>8, <1>9, <1>10 DEF LifecycleInv, RequestInv

-----------------------------------------------------------------------------
(* A request begins.                                                       *)

(* What the early answers of every endpoint let through.                   *)
Admissible(op, u, rs, fs, per, v) ==
    /\ op \in Ops /\ u \in Users /\ rs \in SUBSET Records /\ fs \in SUBSET Files
    /\ op \in {"create", "update"} => per \in Periods /\ v \in Values
    /\ op = "create" => MayAuthor(u) /\ \A r \in rs :
         record[r] = Unused /\ \A q \in Procs : r \notin req[q].records
    /\ op # "create" => \A r \in rs : Exists(r)
    /\ op = "update" => \A r \in rs : MayMutate(u, r)
    /\ op \in PeriodOps => MayApprove(u) /\ per \in Periods /\ rs = {}
    /\ op = "upload" => rs # {} /\ \A f \in fs :
         files[f] = "none" /\ \A q \in Procs : f \notin req[q].files
    /\ op # "upload" => \A f \in fs : files[f] = "stored"
    /\ op \in UnlinkOps => \E r \in Records : rs = {r}
    /\ op \in RowOps \ {"upload", "removeFile"} => \A r \in rs, other \in rs : r = other

BeginsWell(p) ==
    \E op, u, rs, fs, per, v, s :
        /\ Begin(p, op, u, rs, fs, per, v, s)
        /\ Admissible(op, u, rs, fs, per, v)
        /\ op = "create" => s \in Sites

LEMMA BeginFacts ==
    ASSUME LifecycleInv, NEW p \in Procs, BeginAny(p)
    PROVE  BeginsWell(p)
<1> USE DEF Ops, RowOps, PeriodOps, UnlinkOps, EditOps, FileOps, Transitions
<1>1. CASE BeginCreate(p)
  <2>1. PICK u \in Users, r \in Records, per \in Periods, v \in Values, s \in Sites :
          /\ MayAuthor(u)
          /\ record[r] = Unused
          /\ \A q \in Procs : r \notin req[q].records
          /\ Begin(p, "create", u, {r}, {}, per, v, s)
    BY <1>1 DEF BeginCreate
  <2>2. Admissible("create", u, {r}, {}, per, v)
    BY <2>1 DEF Admissible
  <2> QED
    BY <2>1, <2>2 DEF BeginsWell
<1>2. CASE BeginUpdate(p)
  <2>1. PICK u \in Users, r \in Records, per \in Periods, v \in Values, s \in Sites \cup {None} :
          /\ Exists(r) /\ MayMutate(u, r)
          /\ Begin(p, "update", u, {r}, {}, per, v, s)
    BY <1>2 DEF BeginUpdate
  <2>2. Admissible("update", u, {r}, {}, per, v)
    BY <2>1 DEF Admissible
  <2> QED
    BY <2>1, <2>2 DEF BeginsWell
<1>3. CASE BeginRemove(p)
  <2>1. PICK u \in Users, r \in Records :
          Exists(r) /\ Begin(p, "remove", u, {r}, {}, None, None, None)
    BY <1>3 DEF BeginRemove
  <2>2. Admissible("remove", u, {r}, {}, None, None)
    BY <2>1 DEF Admissible
  <2> QED
    BY <2>1, <2>2 DEF BeginsWell
<1>4. CASE BeginTransition(p)
  <2>1. PICK op \in Transitions, u \in Users, r \in Records :
          Exists(r) /\ Begin(p, op, u, {r}, {}, None, None, None)
    BY <1>4 DEF BeginTransition
  <2>2. Admissible(op, u, {r}, {}, None, None)
    BY <2>1 DEF Admissible
  <2> QED
    BY <2>1, <2>2 DEF BeginsWell
<1>5. CASE BeginUpload(p)
  <2>1. PICK u \in Users, f \in Files, rs \in SUBSET Records :
          /\ rs # {} /\ files[f] = "none"
          /\ \A q \in Procs : f \notin req[q].files
          /\ \A r \in rs : Exists(r)
          /\ Begin(p, "upload", u, rs, {f}, None, None, None)
    BY <1>5 DEF BeginUpload
  <2>2. Admissible("upload", u, rs, {f}, None, None)
    BY <2>1 DEF Admissible
  <2> QED
    BY <2>1, <2>2 DEF BeginsWell
<1>6. CASE BeginDetach(p)
  <2>1. PICK u \in Users, l \in links :
          Begin(p, "detach", u, {l[1]}, {l[2]}, None, None, None)
    BY <1>6 DEF BeginDetach
  <2>2. l[1] \in Records /\ l[2] \in Files /\ l = <<l[1], l[2]>>
    BY DEF LifecycleInv, TypeOK, LedgerTypeOK
  <2>3. Exists(l[1]) /\ files[l[2]] = "stored"
    BY <2>2 DEF LifecycleInv, NoOrphanFile, HoldersOf
  <2>4. Admissible("detach", u, {l[1]}, {l[2]}, None, None)
    BY <2>2, <2>3 DEF Admissible
  <2> QED
    BY <2>1, <2>4 DEF BeginsWell
<1>7. CASE BeginRemoveFile(p)
  <2>1. PICK u \in Users, f \in Files :
          /\ files[f] = "stored"
          /\ Begin(p, "removeFile", u, HoldersOf(f), {f}, None, None, None)
    BY <1>7 DEF BeginRemoveFile
  <2>2. \A r \in HoldersOf(f) : r \in Records /\ Exists(r)
    BY DEF LifecycleInv, NoOrphanFile, HoldersOf
  <2>3. Admissible("removeFile", u, HoldersOf(f), {f}, None, None)
    BY <2>1, <2>2 DEF Admissible
  <2> QED
    BY <2>1, <2>3 DEF BeginsWell
<1>8. CASE BeginLock(p)
  <2>1. PICK u \in Users, per \in Periods :
          MayApprove(u) /\ Begin(p, "lock", u, {}, {}, per, None, None)
    BY <1>8 DEF BeginLock
  <2>2. Admissible("lock", u, {}, {}, per, None)
    BY <2>1 DEF Admissible
  <2> QED
    BY <2>1, <2>2 DEF BeginsWell
<1>9. CASE BeginUnlock(p)
  <2>1. PICK u \in Users, per \in Periods :
          MayApprove(u) /\ Begin(p, "unlock", u, {}, {}, per, None, None)
    BY <1>9 DEF BeginUnlock
  <2>2. Admissible("unlock", u, {}, {}, per, None)
    BY <2>1 DEF Admissible
  <2> QED
    BY <2>1, <2>2 DEF BeginsWell
<1> QED
  BY <1>1, <1>2, <1>3, <1>4, <1>5, <1>6, <1>7, <1>8, <1>9 DEF BeginAny

LEMMA BeginPreserves ==
    ASSUME LifecycleInv, NEW p \in Procs, BeginAny(p)
    PROVE  LifecycleInv'
<1>1. PICK op, u, rs, fs, per, v, s :
        /\ Begin(p, op, u, rs, fs, per, v, s)
        /\ Admissible(op, u, rs, fs, per, v)
        /\ op = "create" => s \in Sites
  BY BeginFacts DEF BeginsWell
<1>2. /\ UNCHANGED <<record, closed, links, files, library, audit, held>>
      /\ stage[p] = "idle" /\ stage'[p] = "locking"
      /\ \A x \in Procs : x # p => stage'[x] = stage[x] /\ req'[x] = req[x]
  BY <1>1 DEF Begin, ledgerVars, LifecycleInv, TypeOK
<1>3. /\ req'[p].op = op /\ req'[p].user = u /\ req'[p].records = rs /\ req'[p].files = fs
      /\ req'[p].period = per /\ req'[p].value = v /\ req'[p].site = s
      /\ req'[p].library = library /\ req'[p].stale = FALSE
      /\ req'[p].seen = [r \in Records |-> IF r \in rs /\ Exists(r) THEN Seen(r) ELSE None]
  BY <1>1 DEF Begin, LifecycleInv, TypeOK
<1>4. TypeOK' /\ NoOrphanFile' /\ LockExclusion'
  BY <1>2, BeginAnyType, NoOrphanUnchanged DEF LifecycleInv, ledgerVars, LockExclusion, Guarded
<1>5. held'[p] = NoLocks
  BY <1>2 DEF LifecycleInv, LocksOfRequest
<1>6. RequestInv(p)'
  <2>1. LocksOfRequest(p)'
    BY <1>2, <1>5 DEF LocksOfRequest, NoLocks
  <2>2. library \in 1 .. library
    BY LedgerAssumption DEF LifecycleInv, TypeOK, LedgerTypeOK
  <2>3. Asked(p)'
    BY <1>1, <1>2, <1>3, <2>2 DEF Asked, Admissible, MayAuthor, MayApprove
  <2>4. ReadStands(p)'
    BY <1>1, <1>2, <1>3 DEF ReadStands, Admissible, MayMutate, MayAuthor, Seen
  <2> QED
    BY <1>2, <2>1, <2>3, <2>4 DEF RequestInv, Checked, DoomedRight
<1>7. \A x \in Procs : x # p => RequestInv(x)'
  BY <1>2, OthersKeep DEF ledgerVars
<1>8. ASSUME NEW x \in Procs
      PROVE  Reserved(x)'
  <2>1. CASE x = p
    BY <1>1, <1>2, <1>3, <2>1 DEF Reserved, Admissible
  <2>2. CASE x # p
    <3>1. Reserved(x) /\ req'[x] = req[x] /\ \A q \in Procs : q # p => req'[q] = req[q]
      BY <1>2, <2>2 DEF LifecycleInv
    <3>2. req[x].op = "create" => \A r \in req[x].records : r \notin rs
      BY <1>1, <3>1 DEF Reserved, Admissible, Unused
    <3>3. req[x].op = "upload" => \A f \in req[x].files : f \notin fs
      BY <1>1, <3>1 DEF Reserved, Admissible
    <3> QED
      BY <1>2, <1>3, <3>1, <3>2, <3>3 DEF Reserved
  <2> QED
    BY <2>1, <2>2
<1> QED
  BY <1>4, <1>6, <1>7, <1>8 DEF LifecycleInv, RequestInv

-----------------------------------------------------------------------------
(* A lock is taken.                                                        *)

(* Taking one more lock takes no gate away.                                *)
LEMMA AdmittedGrows ==
    ASSUME NEW p \in Procs, UNCHANGED <<ledgerVars, req>>,
           held[p].rows \subseteq held'[p].rows, held[p].files \subseteq held'[p].files,
           Admitted(p)
    PROVE  Admitted(p)'
<1>1. ASSUME NEW r, RecordGate(p, r)
      PROVE  RecordGate(p, r)'
  <2>1. TransitionGate(p, r)' <=> TransitionGate(p, r)
    BY DEF ledgerVars, TransitionGate, MaySubmit, MayAuthor, EvidencePresent, FilesOf, SameInputs,
           Seen, Fresh, Open, MayStartReview, MayReview, MayApproveRecord, MayApprove, MayReject,
           MayVoid
  <2>2. UpdateGate(p, r)' <=> UpdateGate(p, r)
    BY DEF ledgerVars, UpdateGate, Open
  <2>3. SamePeriod(p, r)'
    BY <1>1 DEF ledgerVars, RecordGate, SamePeriod
  <2> QED
    BY <1>1, <2>1, <2>2, <2>3 DEF ledgerVars, RecordGate, MayMutate, MayAuthor, Open, Transitions
<1>2. \A f : HoldersOf(f)' = HoldersOf(f)
  BY DEF ledgerVars, HoldersOf
<1>3. RemoveFileGate(p) => RemoveFileGate(p)'
  BY <1>1, <1>2 DEF RemoveFileGate
<1>4. InPeriod(req[p].period, LockBlocking)' = InPeriod(req[p].period, LockBlocking)
  BY DEF ledgerVars, InPeriod, LockBlocking
<1> QED
  BY <1>1, <1>3, <1>4 DEF Admitted, ledgerVars

(* Every lock is granted only when no other request holds it in a way that *)
(* excludes it, and grows one class of one request's locks.                *)
LockGranted(p) ==
    /\ UNCHANGED <<ledgerVars, stage, req>>
    /\ stage[p] # "idle"
    /\ \A q \in Procs : q # p => held'[q] = held[q]
    /\ held[p].shared \subseteq held'[p].shared /\ held[p].exclusive \subseteq held'[p].exclusive
    /\ held[p].rows \subseteq held'[p].rows /\ held[p].files \subseteq held'[p].files
    /\ \A k \in held'[p].shared \ held[p].shared :
         req[p].op \notin PeriodOps /\ SharedFree(p, k)
    /\ \A k \in held'[p].exclusive \ held[p].exclusive :
         req[p].op \in PeriodOps /\ ExclusiveFree(p, k)
    /\ \A r \in held'[p].rows \ held[p].rows : RowFree(p, r) /\ Exists(r)
    /\ \A f \in held'[p].files \ held[p].files : FileFree(p, f) /\ files[f] = "stored"

LEMMA TakeGrants ==
    ASSUME LifecycleInv, NEW p \in Procs, TakePeriod(p) \/ TakeRow(p) \/ TakeFile(p)
    PROVE  LockGranted(p)
<1>1. held \in [Procs -> LockSets]
  BY DEF LifecycleInv, TypeOK
<1>2. CASE TakePeriod(p)
  <2>1. PICK k \in MissingPeriods(p) :
          \/ /\ req[p].op \in PeriodOps
             /\ ExclusiveFree(p, k)
             /\ held' = [held EXCEPT ![p].exclusive = @ \cup {k}]
          \/ /\ req[p].op \notin PeriodOps
             /\ SharedFree(p, k)
             /\ held' = [held EXCEPT ![p].shared = @ \cup {k}]
    BY <1>2 DEF TakePeriod
  <2> QED
    BY <1>1, <1>2, <2>1 DEF TakePeriod, LockGranted, LockSets
<1>3. CASE TakeRow(p)
  <2>1. PICK r \in MissingRows(p) :
          RowFree(p, r) /\ held' = [held EXCEPT ![p].rows = @ \cup {r}]
    BY <1>3 DEF TakeRow
  <2>2. Exists(r)
    BY DEF MissingRows, RowsWanted, InPeriod
  <2> QED
    BY <1>1, <1>3, <2>1, <2>2 DEF TakeRow, LockGranted, LockSets
<1>4. CASE TakeFile(p)
  <2>1. PICK f \in MissingFiles(p) :
          FileFree(p, f) /\ held' = [held EXCEPT ![p].files = @ \cup {f}]
    BY <1>4 DEF TakeFile
  <2>2. files[f] = "stored"
    BY DEF MissingFiles, FilesWanted
  <2> QED
    BY <1>1, <1>4, <2>1, <2>2 DEF TakeFile, LockGranted, LockSets
<1> QED
  BY <1>2, <1>3, <1>4

LEMMA TakePreserves ==
    ASSUME LifecycleInv, NEW p \in Procs, TakePeriod(p) \/ TakeRow(p) \/ TakeFile(p)
    PROVE  LifecycleInv'
<1>1. LockGranted(p)
  BY TakeGrants
<1>2. TypeOK' /\ NoOrphanFile'
  BY <1>1, TakeType, NoOrphanUnchanged DEF LockGranted, LifecycleInv
<1>3. LockExclusion'
  <2> SUFFICES ASSUME NEW x \in Procs, NEW y \in Procs, x # y
               PROVE  /\ held'[x].exclusive \cap Guarded(y)' = {}
                      /\ held'[x].rows \cap held'[y].rows = {}
                      /\ held'[x].files \cap held'[y].files = {}
    BY DEF LockExclusion
  <2>1. /\ held[x].exclusive \cap Guarded(y) = {}
        /\ held[x].rows \cap held[y].rows = {}
        /\ held[x].files \cap held[y].files = {}
    BY DEF LifecycleInv, LockExclusion
  <2>2. CASE x = p
    BY <1>1, <2>1, <2>2 DEF LockGranted, Guarded, ExclusiveFree, RowFree, FileFree
  <2>3. CASE y = p
    BY <1>1, <2>1, <2>3 DEF LockGranted, Guarded, ExclusiveFree, SharedFree, RowFree, FileFree
  <2>4. CASE x # p /\ y # p
    BY <1>1, <2>1, <2>4 DEF LockGranted, Guarded
  <2> QED
    BY <2>2, <2>3, <2>4
<1>4. RequestInv(p)'
  <2>1. LocksOfRequest(p)'
    BY <1>1 DEF LockGranted, LifecycleInv, LocksOfRequest, ledgerVars
  <2>2. Asked(p)' /\ ReadStands(p)'
    BY <1>1 DEF LockGranted, LifecycleInv, Asked, ReadStands, ledgerVars, MayAuthor, MayApprove,
                MayMutate, Seen
  <2>3. Checked(p)'
    <3>1. PeriodsOf(req[p])' = PeriodsOf(req[p]) /\ Guarded(p) \subseteq Guarded(p)'
      BY <1>1 DEF LockGranted, PeriodsOf, Guarded
    <3>2. Admitted(p) => Admitted(p)'
      BY <1>1, AdmittedGrows DEF LockGranted
    <3>3. \A r : FilesOf(r)' = FilesOf(r)
      BY <1>1 DEF LockGranted, ledgerVars, FilesOf
    <3> QED
      BY <1>1, <3>1, <3>2, <3>3 DEF LockGranted, LifecycleInv, Checked, ledgerVars
  <2>4. DoomedRight(p)'
    <3>1. \A r : LinksOf(r)' = LinksOf(r)
      BY <1>1 DEF LockGranted, ledgerVars, LinksOf
    <3>2. FilesWanted(p)' = FilesWanted(p)
      BY <1>1 DEF LockGranted, ledgerVars, FilesWanted
    <3> QED
      BY <1>1, <3>1, <3>2 DEF LockGranted, LifecycleInv, DoomedRight, ledgerVars, Unlinked
  <2> QED
    BY <2>1, <2>2, <2>3, <2>4 DEF RequestInv
<1>5. \A x \in Procs : x # p => RequestInv(x)'
  BY <1>1, OthersKeep DEF LockGranted
<1>6. \A x \in Procs : Reserved(x)'
  BY <1>1 DEF LockGranted, LifecycleInv, Reserved, ledgerVars
<1> QED
  BY <1>2, <1>3, <1>4, <1>5, <1>6 DEF LifecycleInv, RequestInv

-----------------------------------------------------------------------------
(* The gates pass; the files an unlink orphans are read.                   *)

LEMMA GatePreserves ==
    ASSUME LifecycleInv, NEW p \in Procs, Gate(p)
    PROVE  LifecycleInv'
<1> DEFINE fs == IF req[p].op = "remove" THEN UNION {FilesOf(r) : r \in req[p].records}
                                         ELSE req[p].files
<1>1. PICK s \in Statuses :
        /\ req[p].op \in Transitions => \A r \in req[p].records : record[r].status = s
        /\ req' = [req EXCEPT ![p].current = s, ![p].files = fs]
  BY DEF Gate
<1>2. /\ UNCHANGED <<ledgerVars, held>> /\ stage[p] = "locking" /\ stage'[p] = "checked"
      /\ Locked(p) /\ Admitted(p)
      /\ \A x \in Procs : x # p => stage'[x] = stage[x] /\ req'[x] = req[x]
  BY <1>1 DEF Gate, LifecycleInv, TypeOK
<1>3. /\ req'[p].op = req[p].op /\ req'[p].user = req[p].user
      /\ req'[p].records = req[p].records /\ req'[p].files = fs
      /\ req'[p].period = req[p].period /\ req'[p].value = req[p].value
      /\ req'[p].site = req[p].site /\ req'[p].library = req[p].library
      /\ req'[p].seen = req[p].seen /\ req'[p].stale = req[p].stale
      /\ req'[p].current = s
  <2>1. req[p] \in Requests
    BY DEF LifecycleInv, TypeOK
  <2> QED
    BY <1>1, <2>1 DEF LifecycleInv, TypeOK, Requests
<1>4. \A f \in fs : f \in Files /\ (req[p].op # "upload" => files[f] # "none")
  <2>1. CASE req[p].op = "remove"
    <3> SUFFICES ASSUME NEW f \in fs
                 PROVE  f \in Files /\ files[f] # "none"
      BY <2>1
    <3>1. PICK r \in Records : f \in Files /\ <<r, f>> \in links
      BY <2>1 DEF FilesOf, LifecycleInv, TypeOK, Requests
    <3> QED
      BY <3>1 DEF LifecycleInv, NoOrphanFile, HoldersOf
  <2>2. CASE req[p].op # "remove"
    BY <2>2 DEF LifecycleInv, Asked, TypeOK, Requests
  <2> QED
    BY <2>1, <2>2
<1>5. req[p].op = "remove" => \A r \in req[p].records : fs = FilesOf(r)
  BY DEF LifecycleInv, Asked, UnlinkOps
<1>6. req[p].op # "remove" => fs = req[p].files
  OBVIOUS
<1> HIDE DEF fs
<1>7. TypeOK' /\ NoOrphanFile' /\ LockExclusion'
  BY <1>2, GateType, NoOrphanUnchanged DEF LifecycleInv, LockExclusion, Guarded
<1>8. RequestInv(p)'
  <2>1. LocksOfRequest(p)' /\ ReadStands(p)'
    BY <1>2, <1>3 DEF LifecycleInv, LocksOfRequest, ReadStands, ledgerVars, MayMutate, MayAuthor, Seen
  <2>2. Asked(p)'
    BY <1>2, <1>3, <1>4 DEF LifecycleInv, Asked, ledgerVars, MayAuthor, MayApprove
  <2>3. Admitted(p)'
    <3>1. /\ \A r : Open(r)' = Open(r) /\ FilesOf(r)' = FilesOf(r)
          /\ \A f : HoldersOf(f)' = HoldersOf(f)
      BY <1>2 DEF ledgerVars, Open, FilesOf, HoldersOf
    <3>2. ASSUME NEW r, RecordGate(p, r)
          PROVE  RecordGate(p, r)'
      <4>1. TransitionGate(p, r)' <=> TransitionGate(p, r)
        BY <1>2, <1>3, <3>1 DEF ledgerVars, TransitionGate, MaySubmit, MayAuthor, EvidencePresent,
             SameInputs, Seen, Fresh, MayStartReview, MayReview, MayApproveRecord, MayApprove,
             MayReject, MayVoid
      <4>2. UpdateGate(p, r)' <=> UpdateGate(p, r)
        BY <1>2, <1>3, <3>1 DEF ledgerVars, UpdateGate
      <4>3. SamePeriod(p, r)'
        BY <1>2, <1>3, <3>2 DEF ledgerVars, RecordGate, SamePeriod
      <4> QED
        BY <1>2, <1>3, <3>1, <3>2, <4>1, <4>2, <4>3
        DEF ledgerVars, RecordGate, MayMutate, MayAuthor, Transitions
    <3>3. req[p].op = "removeFile" => (RemoveFileGate(p) => RemoveFileGate(p)')
      BY <1>2, <1>3, <1>6, <3>1, <3>2 DEF RemoveFileGate
    <3>4. InPeriod(req[p].period, LockBlocking)' = InPeriod(req[p].period, LockBlocking)
      BY <1>2, <1>3 DEF ledgerVars, InPeriod, LockBlocking
    <3> QED
      BY <1>2, <1>3, <3>2, <3>3, <3>4 DEF Admitted, ledgerVars
  <2>4. PeriodsOf(req[p])' \subseteq Guarded(p)'
    BY <1>2, <1>3 DEF PeriodsOf, Guarded, Locked, MissingPeriods
  <2>5. \A r : FilesOf(r)' = FilesOf(r)
    BY <1>2 DEF ledgerVars, FilesOf
  <2>6. Checked(p)'
    BY <1>1, <1>2, <1>3, <1>5, <2>3, <2>4, <2>5 DEF Checked, ledgerVars
  <2> QED
    BY <1>2, <2>1, <2>2, <2>6 DEF RequestInv, DoomedRight
<1>9. \A x \in Procs : x # p => RequestInv(x)'
  BY <1>2, OthersKeep
<1>10. ASSUME NEW x \in Procs
       PROVE  Reserved(x)'
  <2>1. Reserved(x) /\ Reserved(p)
    BY DEF LifecycleInv
  <2>2. CASE x = p
    <3>1. req[p].op = "upload" => \A q \in Procs \ {p} : req'[q].files = req[q].files
      BY <1>2
    <3> QED
      BY <1>2, <1>3, <1>6, <2>1, <2>2 DEF Reserved, ledgerVars
  <2>3. CASE x # p
    <3>1. req[x].op = "upload" => \A f \in req[x].files : f \notin fs
      <4>1. CASE req[p].op = "remove"
        BY <1>4, <2>1, <4>1 DEF Reserved
      <4>2. CASE req[p].op # "remove"
        BY <1>6, <2>1, <2>3, <4>2 DEF Reserved
      <4> QED
        BY <4>1, <4>2
    <3> QED
      BY <1>2, <1>3, <2>1, <2>3, <3>1 DEF Reserved, ledgerVars
  <2> QED
    BY <2>2, <2>3
<1> QED
  BY <1>7, <1>8, <1>9, <1>10 DEF LifecycleInv, RequestInv

LEMMA SweepPreserves ==
    ASSUME LifecycleInv, NEW p \in Procs, Sweep(p)
    PROVE  LifecycleInv'
<1> DEFINE gone(r) == IF req[p].op = "remove" THEN LinksOf(r) ELSE {r} \X req[p].files
<1>1. PICK r0 \in req[p].records :
        req' = [req EXCEPT ![p].doomed = Unlinked(req[p].files, links \ gone(r0))]
  BY DEF Sweep
<1>2. /\ UNCHANGED <<ledgerVars, held>> /\ stage[p] = "checked" /\ stage'[p] = "swept"
      /\ Locked(p) /\ req[p].op \in UnlinkOps
      /\ \A x \in Procs : x # p => stage'[x] = stage[x] /\ req'[x] = req[x]
  BY <1>1 DEF Sweep, LifecycleInv, TypeOK
<1>3. /\ req'[p].op = req[p].op /\ req'[p].user = req[p].user
      /\ req'[p].records = req[p].records /\ req'[p].files = req[p].files
      /\ req'[p].period = req[p].period /\ req'[p].value = req[p].value
      /\ req'[p].site = req[p].site /\ req'[p].library = req[p].library
      /\ req'[p].seen = req[p].seen /\ req'[p].stale = req[p].stale
      /\ req'[p].current = req[p].current
      /\ req'[p].doomed = Unlinked(req[p].files, links \ gone(r0))
  <2>1. req[p] \in Requests
    BY DEF LifecycleInv, TypeOK
  <2> QED
    BY <1>1, <2>1 DEF LifecycleInv, TypeOK, Requests
<1>4. req[p].records = {r0}
  BY <1>2 DEF LifecycleInv, Asked
<1>5. TypeOK' /\ NoOrphanFile' /\ LockExclusion'
  BY <1>2, SweepType, NoOrphanUnchanged DEF LifecycleInv, LockExclusion, Guarded
<1>6. RequestInv(p)'
  <2>1. LocksOfRequest(p)' /\ ReadStands(p)'
    BY <1>2, <1>3 DEF LifecycleInv, LocksOfRequest, ReadStands, ledgerVars, MayMutate, MayAuthor, Seen
  <2>2. Asked(p)'
    BY <1>2, <1>3 DEF LifecycleInv, Asked, ledgerVars, MayAuthor, MayApprove
  <2>3. Checked(p)'
    <3>1. /\ \A r : RecordGate(p, r) => RecordGate(p, r)'
          /\ PeriodsOf(req[p])' = PeriodsOf(req[p]) /\ Guarded(p)' = Guarded(p)
          /\ \A r : FilesOf(r)' = FilesOf(r)
      BY <1>2, <1>3 DEF ledgerVars, RecordGate, SamePeriod, MayMutate, MayAuthor, Open, UnlinkOps,
           Transitions, PeriodsOf, Guarded, FilesOf
    <3> QED
      BY <1>2, <1>3, <3>1 DEF LifecycleInv, Checked, Admitted, ledgerVars, UnlinkOps, Transitions
  <2>4. DoomedRight(p)'
    <3>1. FilesWanted(p)' \subseteq held'[p].files
      BY <1>2, <1>3 DEF FilesWanted, Locked, MissingFiles, ledgerVars, UnlinkOps
    <3>2. LinksOf(r0)' = LinksOf(r0) /\ links' = links
      BY <1>2 DEF LinksOf, ledgerVars
    <3>3. req'[p].doomed = Unlinked(req[p].files, links \ gone(r0))'
      BY <1>2, <1>3, <3>2 DEF Unlinked
    <3> QED
      BY <1>2, <1>3, <1>4, <3>1, <3>3 DEF DoomedRight
  <2> QED
    BY <2>1, <2>2, <2>3, <2>4 DEF RequestInv
<1>7. \A x \in Procs : x # p => RequestInv(x)'
  BY <1>2, OthersKeep
<1>8. ASSUME NEW x \in Procs
      PROVE  Reserved(x)'
  <2>1. \A q \in Procs : /\ req'[q].records = req[q].records /\ req'[q].files = req[q].files
                         /\ req'[q].op = req[q].op
    BY <1>2, <1>3
  <2> QED
    BY <1>2, <2>1 DEF LifecycleInv, Reserved, ledgerVars
<1> QED
  BY <1>5, <1>6, <1>7, <1>8 DEF LifecycleInv, RequestInv

-----------------------------------------------------------------------------
(* The theorems.                                                           *)

LEMMA InitInv == Init => LifecycleInv
<1> SUFFICES ASSUME Init PROVE LifecycleInv
  OBVIOUS
<1>1. LedgerTypeOK /\ NoOrphanFile
  BY LedgerInitType DEF Init, LedgerInit, NoOrphanFile, HoldersOf
<1>2. NoRequest \in Requests /\ NoLocks \in LockSets
  BY NoRequestType DEF NoLocks, LockSets
<1>3. TypeOK
  BY <1>1, <1>2 DEF Init, TypeOK
<1>4. LockExclusion
  BY DEF Init, LockExclusion, Guarded, NoLocks
<1>5. ASSUME NEW p \in Procs
      PROVE  RequestInv(p) /\ Reserved(p)
  <2>1. stage[p] = "idle" /\ req[p] = NoRequest /\ held[p] = NoLocks
    BY DEF Init
  <2> QED
    BY <2>1 DEF RequestInv, LocksOfRequest, Asked, ReadStands, Checked, DoomedRight, Reserved,
                NoRequest, NoLocks, PeriodOps, UnlinkOps
<1> QED
  BY <1>1, <1>3, <1>4, <1>5 DEF LifecycleInv, RequestInv

LEMMA NextInv ==
    ASSUME LifecycleInv, [Next]_vars
    PROVE  LifecycleInv'
<1>1. CASE UNCHANGED vars
  <2>1. UNCHANGED <<ledgerVars, stage, req, held>>
    BY <1>1 DEF vars, ledgerVars
  <2>2. TypeOK' /\ NoOrphanFile' /\ LockExclusion'
    BY <2>1, NoOrphanUnchanged
    DEF LifecycleInv, TypeOK, LedgerTypeOK, ledgerVars, LockExclusion, Guarded
  <2>3. \A x \in Procs : RequestInv(x)' /\ Reserved(x)'
    BY <2>1, OthersKeep DEF LifecycleInv, Reserved, ledgerVars
  <2> QED
    BY <2>2, <2>3 DEF LifecycleInv, RequestInv
<1>2. CASE Next
  BY <1>2, BeginPreserves, TakePreserves, GatePreserves, SweepPreserves, CommitPreserves,
     RollbackPreserves, PublishPreserves
  DEF Next, Step
<1> QED
  BY <1>1, <1>2

(* The locks, what was read and what was checked stay in step in every     *)
(* reachable state, however the requests interleave.                       *)
THEOREM LifecycleInvariant == Spec => []LifecycleInv
<1>1. Init => LifecycleInv
  BY InitInv
<1>2. LifecycleInv /\ [Next]_vars => LifecycleInv'
  BY NextInv
<1> QED
  BY <1>1, <1>2, PTL DEF Spec

(* Every variable of the protocol stays in its domain.                     *)
THEOREM TypeCorrect == Spec => []TypeOK
<1>1. LifecycleInv => TypeOK
  BY DEF LifecycleInv
<1> QED
  BY <1>1, LifecycleInvariant, PTL

(* What regate() found under the locks is still so when the write commits. *)
THEOREM GatesHoldCorrect == Spec => []GatesHold
<1>1. LifecycleInv => GatesHold
  BY DEF LifecycleInv, Checked, GatesHold
<1> QED
  BY <1>1, LifecycleInvariant, PTL

LEMMA StepImplements ==
    ASSUME LifecycleInv, [Next]_vars
    PROVE  [LedgerNext]_ledgerVars
<1>1. CASE UNCHANGED vars
  BY <1>1 DEF vars, ledgerVars
<1>2. ASSUME NEW p \in Procs, BeginAny(p)
      PROVE  UNCHANGED ledgerVars
  BY <1>2, BeginFacts DEF BeginsWell, Begin
<1>3. ASSUME NEW p \in Procs, Step(p)
      PROVE  [LedgerNext]_ledgerVars
  BY <1>3, WriteImplements DEF Step, TakePeriod, TakeRow, TakeFile, Gate, Sweep
<1>4. ASSUME NEW p \in Procs, Rollback(p)
      PROVE  UNCHANGED ledgerVars
  BY <1>4 DEF Rollback
<1>5. CASE PublishRelease
  BY <1>5 DEF PublishRelease, LedgerNext
<1> QED
  BY <1>1, <1>2, <1>3, <1>4, <1>5 DEF Next

(* The transactions implement the atomic ledger: every request that is     *)
(* answered 2xx takes effect in one step from a state that allows it.      *)
THEOREM ImplementsLedger == Spec => LedgerSpec
<1>1. Init => LedgerInit
  BY DEF Init
<1>2. LifecycleInv /\ [Next]_vars => [LedgerNext]_ledgerVars
  BY StepImplements
<1> QED
  BY <1>1, <1>2, LifecycleInvariant, PTL DEF Spec, LedgerSpec

(* A closed period holds no record awaiting review and no approved figure  *)
(* the flip missed, under every interleaving of requests.                  *)
THEOREM ClosedPeriodSealedHolds == Spec => []ClosedPeriodSealed
  BY ImplementsLedger, SealedCorrect, PTL

(* No figure is approved by whoever created or submitted it, under every   *)
(* interleaving of requests.                                               *)
THEOREM FourEyesHolds == Spec => []FourEyes
  BY ImplementsLedger, FourEyesCorrect, PTL

(* A counted figure that needs a supporting file has a stored one, under   *)
(* every interleaving of detaches, deletes, uploads and transitions.       *)
THEOREM EvidenceKeptHolds == Spec => []EvidenceKept
  BY ImplementsLedger, EvidenceKeptCorrect, PTL

(* A file row exists exactly while a record links it, under every          *)
(* interleaving of unlinks of a shared file.                               *)
THEOREM NoOrphanFileHolds == Spec => []NoOrphanFile
  BY ImplementsLedger, NoOrphanCorrect, PTL

(* A stored figure is the one computed from its own row's inputs, under    *)
(* every interleaving of edits that each read before they write.           *)
THEOREM FigureOfItsInputsHolds == Spec => []FigureOfItsInputs
  BY ImplementsLedger, FigureCorrect, PTL

(* The audit trail replays every record's status, under every interleaving *)
(* of transitions, deletes, locks and unlocks.                             *)
THEOREM AuditExplainsHolds == Spec => AuditExplains
  BY ImplementsLedger, AuditCorrect, PTL

(* A figure in review or counted is neither rewritten nor moved, under     *)
(* every interleaving with edits that read it while it was a draft.        *)
THEOREM CommittedFigureKeptHolds == Spec => CommittedFigureKept
  BY ImplementsLedger, CommittedKept, PTL

(* While a period stays closed nothing in it changes, under every          *)
(* interleaving with requests that read it while it was open.              *)
THEOREM ClosedPeriodFrozenHolds == Spec => ClosedPeriodFrozen
  BY ImplementsLedger, FrozenCorrect, PTL

-----------------------------------------------------------------------------
(* No deadlock.  Whoever waits waits for a lock beyond all those it holds: *)
(* period locks come first, then rows, then files, each in ascending order.*)

PeriodsInOrder(p) ==
    /\ \A k \in Guarded(p), m \in MissingPeriods(p) : k < m
    /\ held[p].rows # {} \/ held[p].files # {} => MissingPeriods(p) = {}

(* Only an upload and a file's removal lock more than one row; a lock or   *)
(* unlock locks rows of its own period, in any order.                      *)
RowsInOrder(p) ==
    /\ req[p].op \in RowOps =>
         /\ held[p].rows \subseteq req[p].records
         /\ \A r \in req[p].records : record[r] # Unused
         /\ \A r \in held[p].rows, m \in MissingRows(p) : r < m
    /\ req[p].op \in RowOps \ {"upload", "removeFile"} =>
         \A r \in req[p].records, other \in req[p].records : r = other
    /\ req[p].op \in PeriodOps => \A r \in held[p].rows : record[r].period = req[p].period

FilesInOrder(p) ==
    /\ held[p].files # {} =>
         /\ MissingRows(p) = {}
         /\ \/ req[p].op = "removeFile"
            \/ req[p].op \in UnlinkOps /\ stage[p] # "locking"
    /\ \A f \in held[p].files, g \in MissingFiles(p) : f < g

LockOrder == \A p \in Procs : PeriodsInOrder(p) /\ RowsInOrder(p) /\ FilesInOrder(p)

(* The rows an upload or a file's removal has locked so far are still in   *)
(* the periods it locked.  What escapes this, and the order with it, is a  *)
(* record that was moved between the read and the row lock.                *)
NoStrayRow ==
    \A p \in Procs : req[p].op \in {"upload", "removeFile"} /\ MissingRows(p) # {} =>
        \A r \in held[p].rows : record[r].period \in held[p].shared

(* A record's row is never taken back to unused, nor brought back.         *)
LEMMA RowsOnlyGo ==
    ASSUME LedgerTypeOK, [LedgerNext]_ledgerVars, NEW r \in Records, record[r] # Unused
    PROVE  record'[r] # Unused /\ (Exists(r)' => Exists(r))
<1>1. record[r] \in Row \/ record[r] = Deleted
  BY DEF LedgerTypeOK
<1> QED
  BY <1>1, OneRecord DEF Created, Rewritten, Removed, Moved, Turned, Drafted, Edited, Reviewed,
     Unused, Deleted, Row

(* Nobody but p notices a step of p.                                       *)
LEMMA OthersUndisturbed ==
    ASSUME LifecycleInv, NEW p \in Procs, BeginAny(p) \/ Step(p) \/ Rollback(p),
           NEW x \in Procs, x # p
    PROVE  Undisturbed(x)
<1>1. library \in Nat
  BY LedgerAssumption DEF LifecycleInv, TypeOK, LedgerTypeOK
<1>2. CASE /\ UNCHANGED ledgerVars
           /\ stage'[x] = stage[x] /\ held'[x] = held[x] /\ req'[x] = req[x]
  BY <1>1, <1>2, QuietUndisturbs DEF ledgerVars, RequestKept
<1>3. CASE BeginAny(p)
  BY <1>2, <1>3, BeginFacts DEF BeginsWell, Begin, LifecycleInv, TypeOK
<1>4. CASE TakePeriod(p) \/ TakeRow(p) \/ TakeFile(p)
  BY <1>2, <1>4, TakeGrants DEF LockGranted
<1>5. CASE Gate(p) \/ Sweep(p)
  BY <1>2, <1>5 DEF Gate, Sweep, LifecycleInv, TypeOK
<1>6. CASE Write(p)
  <2>1. LedgerTypeOK'
    BY <1>6, WriteImplements, LedgerNextType DEF LifecycleInv, TypeOK
  <2> QED
    BY <1>6, <2>1, WriteFootprint, FootprintUndisturbs DEF HasFootprint
<1>7. CASE Rollback(p)
  <2>1. LedgerTypeOK' /\ Footprint(p, {}, {}) /\ Finish(p, {}, {})
    BY <1>7 DEF Rollback, Footprint, LifecycleInv, TypeOK, LedgerTypeOK, ledgerVars, FilesOf, HoldersOf
  <2> QED
    BY <2>1, FootprintUndisturbs
<1> QED
  BY <1>3, <1>4, <1>5, <1>6, <1>7 DEF Step

(* What x still wants shrinks as others commit, and what it has stays.     *)
LEMMA OrderStable ==
    ASSUME LifecycleInv, [LedgerNext]_ledgerVars, NEW x \in Procs, Undisturbed(x),
           PeriodsInOrder(x), RowsInOrder(x), FilesInOrder(x)
    PROVE  PeriodsInOrder(x)' /\ RowsInOrder(x)' /\ FilesInOrder(x)'
<1>1. /\ stage'[x] = stage[x] /\ held'[x] = held[x] /\ req'[x].op = req[x].op
      /\ req'[x].records = req[x].records /\ req'[x].files = req[x].files
      /\ req'[x].period = req[x].period
  BY DEF Undisturbed, RequestKept
<1>2. Guarded(x)' = Guarded(x) /\ MissingPeriods(x)' = MissingPeriods(x)
  BY <1>1, PeriodsOfStable DEF Undisturbed, MissingPeriods
<1>3. /\ req[x].records \subseteq Records /\ req[x].files \subseteq Files
      /\ held[x].rows \subseteq Records
      /\ req[x].op # "upload" => \A f \in req[x].files : files[f] # "none"
  BY DEF LifecycleInv, TypeOK, Requests, LockSets, Asked
<1>4. PeriodsInOrder(x)'
  BY <1>1, <1>2 DEF PeriodsInOrder
<1>5. req[x].op \in RowOps =>
        /\ \A r \in req[x].records : record'[r] # Unused
        /\ MissingRows(x)' \subseteq MissingRows(x)
  <2> SUFFICES ASSUME req[x].op \in RowOps
               PROVE  /\ \A r \in req[x].records : record'[r] # Unused
                      /\ MissingRows(x)' \subseteq MissingRows(x)
    OBVIOUS
  <2>1. \A r \in req[x].records : record'[r] # Unused /\ (Exists(r)' => Exists(r))
    BY <1>3, RowsOnlyGo DEF RowsInOrder, LifecycleInv, TypeOK
  <2>2. RowsWanted(x) = {r \in req[x].records : Exists(r)}
    BY DEF RowsWanted, RowOps, Transitions, EditOps, FileOps
  <2>3. RowsWanted(x)' = {r \in req[x].records : Exists(r)'}
    BY <1>1 DEF RowsWanted, RowOps, Transitions, EditOps, FileOps
  <2> QED
    BY <1>1, <2>1, <2>2, <2>3 DEF MissingRows
<1>6. \A r \in held[x].rows : record'[r] = record[r]
  BY DEF Undisturbed
<1>7. RowsInOrder(x)'
  BY <1>1, <1>5, <1>6 DEF RowsInOrder
<1>8. MissingFiles(x)' \subseteq MissingFiles(x)
  <2>1. req[x].op # "upload" => \A f \in req[x].files : files'[f] = "stored" => files[f] = "stored"
    BY <1>3 DEF Undisturbed
  <2> QED
    BY <1>1, <2>1 DEF MissingFiles, FilesWanted, UnlinkOps
<1>9. held[x].files # {} => req[x].op \in RowOps
  BY DEF FilesInOrder, RowOps, FileOps, EditOps, UnlinkOps
<1>10. FilesInOrder(x)'
  BY <1>1, <1>5, <1>8, <1>9 DEF FilesInOrder
<1> QED
  BY <1>4, <1>7, <1>10

(* A request begins with nothing locked, from rows that were there; it     *)
(* ends with nothing locked.                                               *)
LEMMA BeginOrder ==
    ASSUME LifecycleInv, NEW p \in Procs, BeginAny(p)
    PROVE  PeriodsInOrder(p)' /\ RowsInOrder(p)' /\ FilesInOrder(p)'
<1>1. PICK op, u, rs, fs, per, v, s :
        Begin(p, op, u, rs, fs, per, v, s) /\ Admissible(op, u, rs, fs, per, v)
  BY BeginFacts DEF BeginsWell
<1>2. req'[p].op = op /\ req'[p].records = rs /\ record' = record
  BY <1>1 DEF Begin, LifecycleInv, TypeOK, ledgerVars
<1>3. held'[p] = NoLocks
  BY <1>1 DEF Begin, LifecycleInv, LocksOfRequest
<1>4. op \in RowOps => \A r \in rs : record[r] # Unused
  BY <1>1 DEF Admissible, Unused, RowOps, Transitions, EditOps, FileOps
<1> QED
  BY <1>1, <1>2, <1>3, <1>4
  DEF Admissible, PeriodsInOrder, RowsInOrder, FilesInOrder, Guarded, NoLocks

LEMMA EndOrder ==
    ASSUME LifecycleInv, NEW p \in Procs, Write(p) \/ Rollback(p)
    PROVE  PeriodsInOrder(p)' /\ RowsInOrder(p)' /\ FilesInOrder(p)'
<1>1. req'[p] = NoRequest /\ held'[p] = NoLocks
  BY WriteFootprint DEF HasFootprint, Rollback, Finish, LifecycleInv, TypeOK
<1> QED
  BY <1>1 DEF PeriodsInOrder, RowsInOrder, FilesInOrder, Guarded, NoLocks, NoRequest,
     RowOps, PeriodOps, Transitions, EditOps, FileOps

(* Each lock taken is the least one missing of its class, and its class    *)
(* the first with one missing.                                             *)
LEMMA TakeOrder ==
    ASSUME LifecycleInv, NEW p \in Procs, TakePeriod(p) \/ TakeRow(p) \/ TakeFile(p),
           PeriodsInOrder(p), RowsInOrder(p), FilesInOrder(p)
    PROVE  PeriodsInOrder(p)' /\ RowsInOrder(p)' /\ FilesInOrder(p)'
<1>1. /\ held \in [Procs -> LockSets]
      /\ MissingPeriods(p) \subseteq Nat /\ MissingRows(p) \subseteq Nat
      /\ MissingFiles(p) \subseteq Nat
  BY LedgerAssumption DEF LifecycleInv, TypeOK, Requests, MissingPeriods, PeriodsOf, MissingRows,
     RowsWanted, InPeriod, MissingFiles, FilesWanted
<1>2. /\ UNCHANGED <<ledgerVars, stage, req>>
      /\ PeriodsOf(req[p])' = PeriodsOf(req[p])
      /\ RowsWanted(p)' = RowsWanted(p) /\ FilesWanted(p)' = FilesWanted(p)
  BY DEF TakePeriod, TakeRow, TakeFile, PeriodsOf, RowsWanted, FilesWanted, InPeriod, ledgerVars
<1>3. CASE TakePeriod(p)
  <2>1. PICK k \in MissingPeriods(p) :
          /\ \A other \in MissingPeriods(p) : k <= other
          /\ \/ held' = [held EXCEPT ![p].exclusive = @ \cup {k}]
             \/ held' = [held EXCEPT ![p].shared = @ \cup {k}]
    BY <1>3 DEF TakePeriod
  <2>2. /\ held[p].rows = {} /\ held[p].files = {}
        /\ held'[p].rows = {} /\ held'[p].files = {}
        /\ Guarded(p)' = Guarded(p) \cup {k}
    BY <1>1, <2>1 DEF PeriodsInOrder, Guarded, LockSets
  <2>3. MissingPeriods(p)' = MissingPeriods(p) \ {k}
    BY <1>2, <2>2 DEF MissingPeriods, Guarded
  <2>4. \A m \in MissingPeriods(p)' : k < m
    BY <1>1, <2>1, <2>3
  <2>5. PeriodsInOrder(p)'
    BY <2>2, <2>3, <2>4 DEF PeriodsInOrder
  <2> QED
    BY <1>2, <2>2, <2>5 DEF RowsInOrder, FilesInOrder, ledgerVars
<1>4. CASE TakeRow(p)
  <2>1. PICK r \in MissingRows(p) :
          /\ req[p].op \in PeriodOps \/ \A other \in MissingRows(p) : r <= other
          /\ held' = [held EXCEPT ![p].rows = @ \cup {r}]
    BY <1>4 DEF TakeRow
  <2>2. MissingPeriods(p) = {} /\ held[p].files = {}
    BY <1>4, <2>1 DEF TakeRow, FilesInOrder
  <2>3. /\ held'[p].rows = held[p].rows \cup {r} /\ held'[p].files = {}
        /\ Guarded(p)' = Guarded(p)
    BY <1>1, <2>1, <2>2 DEF LockSets, Guarded
  <2>4. MissingPeriods(p)' = {} /\ MissingRows(p)' = MissingRows(p) \ {r}
    BY <1>2, <2>2, <2>3 DEF MissingPeriods, MissingRows, Guarded
  <2>5. PeriodsInOrder(p)' /\ FilesInOrder(p)'
    BY <2>3, <2>4 DEF PeriodsInOrder, FilesInOrder
  <2>6. CASE req[p].op \in RowOps
    <3>1. req[p].op \notin PeriodOps /\ r \in req[p].records
      BY <2>6 DEF RowOps, PeriodOps, Transitions, EditOps, FileOps, MissingRows, RowsWanted
    <3>2. \A m \in MissingRows(p)' : r < m
      BY <1>1, <2>1, <2>4, <3>1
    <3> QED
      BY <1>2, <2>3, <2>4, <2>5, <2>6, <3>1, <3>2 DEF RowsInOrder, ledgerVars
  <2>7. CASE req[p].op \notin RowOps
    <3>1. record[r].period = req[p].period
      BY <2>7 DEF MissingRows, RowsWanted, InPeriod
    <3> QED
      BY <1>2, <2>3, <2>5, <2>7, <3>1 DEF RowsInOrder, ledgerVars
  <2> QED
    BY <2>6, <2>7
<1>5. CASE TakeFile(p)
  <2>1. PICK f \in MissingFiles(p) :
          /\ \A other \in MissingFiles(p) : f <= other
          /\ held' = [held EXCEPT ![p].files = @ \cup {f}]
    BY <1>5 DEF TakeFile
  <2>2. MissingPeriods(p) = {} /\ MissingRows(p) = {}
    BY <1>5 DEF TakeFile
  <2>3. /\ held'[p].files = held[p].files \cup {f} /\ held'[p].rows = held[p].rows
        /\ Guarded(p)' = Guarded(p)
    BY <1>1, <2>1 DEF LockSets, Guarded
  <2>4. /\ MissingPeriods(p)' = {} /\ MissingRows(p)' = {}
        /\ MissingFiles(p)' = MissingFiles(p) \ {f}
    BY <1>2, <2>2, <2>3 DEF MissingPeriods, MissingRows, MissingFiles, Guarded
  <2>5. \A g \in MissingFiles(p)' : f < g
    BY <1>1, <2>1, <2>4
  <2>6. \/ req[p].op = "removeFile"
        \/ req[p].op \in UnlinkOps /\ stage[p] # "locking"
    BY DEF MissingFiles, FilesWanted
  <2>7. RowsInOrder(p)'
    BY <1>2, <2>3, <2>4 DEF RowsInOrder, ledgerVars
  <2> QED
    BY <1>2, <2>3, <2>4, <2>5, <2>6, <2>7 DEF PeriodsInOrder, FilesInOrder
<1> QED
  BY <1>3, <1>4, <1>5

(* The gates and the sweep only add to what comes later in the order.      *)
LEMMA CheckOrder ==
    ASSUME LifecycleInv, NEW p \in Procs, Gate(p) \/ Sweep(p),
           PeriodsInOrder(p), RowsInOrder(p), FilesInOrder(p)
    PROVE  PeriodsInOrder(p)' /\ RowsInOrder(p)' /\ FilesInOrder(p)'
<1>1. /\ UNCHANGED <<ledgerVars, held>>
      /\ Locked(p)
      /\ stage'[p] # "locking"
  BY DEF Gate, Sweep, LifecycleInv, TypeOK
<1>2. /\ req'[p].op = req[p].op /\ req'[p].records = req[p].records
      /\ req'[p].period = req[p].period /\ req'[p].seen = req[p].seen
      /\ req'[p].files = req[p].files \/ (req[p].op = "remove" /\ stage[p] = "locking")
  <2>1. req \in [Procs -> Requests] /\ req[p] \in Requests
    BY DEF LifecycleInv, TypeOK
  <2>2. CASE Gate(p)
    <3>1. PICK s, fs :
            /\ req[p].op # "remove" => fs = req[p].files
            /\ req' = [req EXCEPT ![p].current = s, ![p].files = fs]
      BY <2>2 DEF Gate
    <3>2. req' = [req EXCEPT ![p] = [req[p] EXCEPT !.current = s, !.files = fs]]
      BY <2>1, <3>1
    <3>3. stage[p] = "locking"
      BY <2>2 DEF Gate
    <3> QED
      BY <2>1, <3>1, <3>2, <3>3 DEF Requests
  <2>3. CASE Sweep(p)
    <3>1. PICK fs : req' = [req EXCEPT ![p].doomed = fs]
      BY <2>3 DEF Sweep
    <3>2. req' = [req EXCEPT ![p] = [req[p] EXCEPT !.doomed = fs]]
      BY <2>1, <3>1
    <3> QED
      BY <2>1, <3>2 DEF Requests
  <2> QED
    BY <2>2, <2>3
<1>3. MissingPeriods(p)' = {}
  BY <1>1, <1>2 DEF Locked, MissingPeriods, PeriodsOf
<1>4. req[p].op \in RowOps => MissingRows(p)' = {}
  BY <1>1, <1>2 DEF Locked, MissingRows, RowsWanted, RowOps, Transitions, EditOps, FileOps, ledgerVars
<1>5. held[p].files # {} =>
        /\ req[p].op \in RowOps
        /\ MissingFiles(p)' = {}
        /\ \/ req[p].op = "removeFile"
           \/ req[p].op \in UnlinkOps /\ stage[p] # "locking"
  BY <1>1, <1>2 DEF FilesInOrder, Locked, MissingFiles, FilesWanted, UnlinkOps, RowOps, EditOps,
     FileOps, ledgerVars
<1>6. PeriodsInOrder(p)'
  BY <1>3 DEF PeriodsInOrder
<1>7. RowsInOrder(p)'
  BY <1>1, <1>2, <1>4 DEF RowsInOrder, ledgerVars
<1>8. FilesInOrder(p)'
  BY <1>1, <1>2, <1>4, <1>5 DEF FilesInOrder
<1> QED
  BY <1>6, <1>7, <1>8

LEMMA LockOrderNext ==
    ASSUME LifecycleInv, LockOrder, [Next]_vars
    PROVE  LockOrder'
<1>1. [LedgerNext]_ledgerVars
  BY StepImplements
<1>2. \A x \in Procs : Undisturbed(x) => PeriodsInOrder(x)' /\ RowsInOrder(x)' /\ FilesInOrder(x)'
  BY <1>1, OrderStable DEF LockOrder
<1>3. ASSUME NEW p \in Procs, BeginAny(p) \/ Step(p) \/ Rollback(p)
      PROVE  LockOrder'
  <2>1. PeriodsInOrder(p)' /\ RowsInOrder(p)' /\ FilesInOrder(p)'
    BY <1>3, BeginOrder, EndOrder, TakeOrder, CheckOrder DEF Step, LockOrder
  <2> QED
    BY <1>2, <1>3, <2>1, OthersUndisturbed DEF LockOrder
<1>4. CASE PublishRelease \/ UNCHANGED vars
  <2>1. library \in Nat /\ library <= library' /\ library' \in Nat
    BY <1>4, LedgerAssumption DEF PublishRelease, Publish, vars, LifecycleInv, TypeOK, LedgerTypeOK
  <2>2. \A x \in Procs : Undisturbed(x)
    BY <1>4, <2>1, QuietUndisturbs DEF PublishRelease, Publish, vars, RequestKept
  <2> QED
    BY <1>2, <2>2 DEF LockOrder
<1> QED
  BY <1>3, <1>4 DEF Next

(* p waits at a lower lock than q: of an earlier class, or a lesser one of *)
(* the same.                                                               *)
Class(p) ==
    IF MissingPeriods(p) # {} THEN 1
    ELSE IF MissingRows(p) # {} THEN IF req[p].op \in PeriodOps THEN 3 ELSE 2
    ELSE 4
Wanted(p) ==
    IF Class(p) = 1 THEN MissingPeriods(p)
    ELSE IF Class(p) = 4 THEN MissingFiles(p)
    ELSE MissingRows(p)
Behind(p, q) ==
    \/ Class(p) < Class(q)
    \/ Class(p) = Class(q) /\ \E k \in Wanted(p) : \A m \in Wanted(q) : k < m

LEMMA BehindIsOrder ==
    ASSUME LifecycleInv, NEW p \in Procs, NEW q \in Procs, NEW o \in Procs
    PROVE  ~Behind(p, p) /\ (Behind(p, q) /\ Behind(q, o) => Behind(p, o))
<1>1. \A x \in Procs : Wanted(x) \subseteq Nat /\ Class(x) \in 1 .. 4
  <2> SUFFICES ASSUME NEW x \in Procs PROVE Wanted(x) \subseteq Nat /\ Class(x) \in 1 .. 4
    OBVIOUS
  <2>1. MissingPeriods(x) \subseteq Nat
    BY LedgerAssumption DEF MissingPeriods, PeriodsOf
  <2>2. req[x].records \subseteq Nat /\ req[x].files \subseteq Nat
    BY LedgerAssumption DEF LifecycleInv, TypeOK, Requests
  <2>3. MissingRows(x) \subseteq Nat /\ MissingFiles(x) \subseteq Nat
    BY <2>2, LedgerAssumption DEF MissingRows, RowsWanted, InPeriod, MissingFiles, FilesWanted
  <2>4. Class(x) \in 1 .. 4
    BY DEF Class
  <2> QED
    BY <2>1, <2>3, <2>4 DEF Wanted
<1>2. ~Behind(p, p)
  <2>1. \A k \in Wanted(p) : ~(k < k) /\ ~(Class(p) < Class(p))
    BY <1>1
  <2>2. ~(Class(p) < Class(p))
    BY <1>1
  <2> QED
    BY <2>1, <2>2 DEF Behind
<1>3. ASSUME Behind(p, q), Behind(q, o)
      PROVE  Behind(p, o)
  <2>1. CASE Class(p) < Class(q) \/ Class(q) < Class(o)
    <3>1. Class(p) <= Class(q) /\ Class(q) <= Class(o)
      BY <1>1, <1>3 DEF Behind
    <3>2. Class(p) < Class(o)
      BY <1>1, <2>1, <3>1
    <3> QED
      BY <3>2 DEF Behind
  <2>2. CASE ~(Class(p) < Class(q) \/ Class(q) < Class(o))
    <3>1. PICK k \in Wanted(p) : \A m \in Wanted(q) : k < m
      BY <1>3, <2>2 DEF Behind
    <3>2. PICK n \in Wanted(q) : \A m \in Wanted(o) : n < m
      BY <1>3, <2>2 DEF Behind
    <3>3. \A m \in Wanted(o) : k < m
      BY <1>1, <3>1, <3>2
    <3> QED
      BY <1>3, <2>2, <3>3 DEF Behind
  <2> QED
    BY <2>1, <2>2
<1> QED
  BY <1>2, <1>3

(* Who holds what p waits for and waits itself is further along the order. *)
LEMMA BlockerIsAhead ==
    ASSUME LifecycleInv, LockOrder, NoStrayRow, NEW p \in Procs, NEW q \in Procs,
           NEW o \in Procs, BlockedBy(p, q), BlockedBy(q, o)
    PROVE  Behind(p, q)
<1>1. /\ PeriodsInOrder(q) /\ RowsInOrder(q) /\ FilesInOrder(q)
      /\ RowsInOrder(p)
  BY DEF LockOrder
<1>2. CASE MissingPeriods(p) # {}
  <2>1. PICK k \in MissingPeriods(p) : k \in Guarded(q)
    BY <1>2 DEF BlockedBy, Guarded
  <2>2. CASE MissingPeriods(q) = {}
    BY <1>2, <2>2 DEF Behind, Class
  <2>3. CASE MissingPeriods(q) # {}
    BY <1>1, <1>2, <2>1, <2>3 DEF Behind, Class, Wanted, PeriodsInOrder
  <2> QED
    BY <2>2, <2>3
<1>3. CASE MissingPeriods(p) = {} /\ MissingRows(p) # {}
  <2>1. PICK r \in MissingRows(p) : r \in held[q].rows
    BY <1>3 DEF BlockedBy
  <2>2. MissingPeriods(q) = {}
    BY <1>1, <2>1 DEF PeriodsInOrder
  <2>3. r \notin held[p].rows /\ p # q
    BY <2>1 DEF MissingRows
  <2>4. req[p].op \in RowOps \cup PeriodOps /\ (MissingRows(q) # {} => req[q].op \in RowOps \cup PeriodOps)
    BY <1>3 DEF MissingRows, RowsWanted, PeriodOps
  <2>5. RowOps \cap PeriodOps = {}
    BY DEF RowOps, PeriodOps, Transitions, EditOps, FileOps
  <2>6. CASE req[p].op \in RowOps
    <3>1. Class(p) = 2
      BY <1>3, <2>5, <2>6 DEF Class
    <3>2. CASE MissingRows(q) # {} /\ req[q].op \in RowOps
      BY <1>1, <2>1, <2>2, <2>5, <3>1, <3>2 DEF Behind, Class, Wanted, RowsInOrder
    <3>3. CASE MissingRows(q) = {} \/ req[q].op \in PeriodOps
      BY <2>2, <3>1, <3>3 DEF Behind, Class
    <3> QED
      BY <2>4, <3>2, <3>3
  <2>7. CASE req[p].op \in PeriodOps
    <3>1. Class(p) = 3
      BY <1>3, <2>7 DEF Class
    <3>2. record[r].period = req[p].period
      BY <2>5, <2>7 DEF MissingRows, RowsWanted, InPeriod
    <3>3. req[p].period \in held[p].exclusive
      BY <1>3, <2>7 DEF LifecycleInv, Asked, LocksOfRequest, MissingPeriods, PeriodsOf
    <3>4. req[p].period \notin Guarded(q)
      BY <2>3, <3>3 DEF LifecycleInv, LockExclusion
    <3>5. CASE MissingRows(q) # {} /\ req[q].op \in RowOps
      <4>1. CASE req[q].op \in {"upload", "removeFile"}
        BY <2>1, <3>2, <3>4, <3>5, <4>1 DEF NoStrayRow, Guarded
      <4>2. CASE req[q].op \notin {"upload", "removeFile"}
        <5>1. PICK m \in MissingRows(q) : TRUE
          BY <3>5
        <5>2. m \in req[q].records /\ m \notin held[q].rows
          BY <2>5, <3>5 DEF MissingRows, RowsWanted, PeriodOps
        <5> QED
          BY <1>1, <2>1, <3>5, <4>2, <5>2 DEF RowsInOrder
      <4> QED
        BY <4>1, <4>2
    <3>6. CASE MissingRows(q) # {} /\ req[q].op \in PeriodOps
      <4>1. record[r].period = req[q].period
        BY <1>1, <2>1, <3>6 DEF RowsInOrder
      <4>2. req[q].period \in Guarded(q)
        BY <2>2, <3>6 DEF LifecycleInv, Asked, MissingPeriods, PeriodsOf, Guarded
      <4> QED
        BY <3>2, <3>4, <4>1, <4>2
    <3>7. CASE MissingRows(q) = {}
      BY <2>2, <3>1, <3>7 DEF Behind, Class
    <3> QED
      BY <2>4, <3>5, <3>6, <3>7
  <2> QED
    BY <2>4, <2>6, <2>7
<1>4. CASE MissingPeriods(p) = {} /\ MissingRows(p) = {}
  <2>1. PICK f \in MissingFiles(p) : f \in held[q].files
    BY <1>4 DEF BlockedBy
  <2>2. MissingPeriods(q) = {} /\ MissingRows(q) = {}
    BY <1>1, <2>1 DEF PeriodsInOrder, FilesInOrder
  <2> QED
    BY <1>1, <1>4, <2>1, <2>2 DEF Behind, Class, Wanted, FilesInOrder
<1> QED
  BY <1>2, <1>3, <1>4

(* Among finitely many that all wait on each other one would be ahead of   *)
(* all it waits for.                                                       *)
LEMMA OrderBreaksCycles ==
    ASSUME LifecycleInv, LockOrder, NoStrayRow
    PROVE  NoWaitCycle
<1> SUFFICES ASSUME NEW S \in SUBSET Procs, S # {},
                    \A p \in S : \E q \in S : BlockedBy(p, q)
             PROVE  FALSE
  BY DEF NoWaitCycle
<1> DEFINE Ahead(p) == {q \in S : Behind(p, q)}
           T == {Ahead(p) : p \in S}
<1>1. IsFiniteSet(S)
  BY LifecycleAssumption, FS_Subset
<1>2. IsWellFoundedOn(StrictSubsetOrdering(S), SUBSET S)
  BY <1>1, FS_FiniteSubsetsOfFinite, FS_StrictSubsetOrderingWellFounded
<1>3. T \subseteq SUBSET S /\ T # {}
  OBVIOUS
<1> HIDE DEF T
<1>4. PICK least \in T : \A other \in T : <<other, least>> \notin StrictSubsetOrdering(S)
  BY <1>2, <1>3, WFMin
<1>5. PICK p \in S : least = Ahead(p)
  BY DEF T
<1>6. PICK q \in S : BlockedBy(p, q)
  OBVIOUS
<1>7. PICK o \in S : BlockedBy(q, o)
  OBVIOUS
<1>8. Behind(p, q)
  BY <1>6, <1>7, BlockerIsAhead
<1>9. /\ Ahead(q) \subseteq Ahead(p)
      /\ q \in Ahead(p) /\ q \notin Ahead(q)
  BY <1>8, BehindIsOrder
<1>10. Ahead(q) \in T /\ Ahead(q) \in SUBSET S /\ Ahead(p) \in SUBSET S
  BY DEF T
<1> HIDE DEF Ahead
<1>11. <<Ahead(q), Ahead(p)>> \in StrictSubsetOrdering(S)
  BY <1>9, <1>10 DEF StrictSubsetOrdering
<1> QED
  BY <1>4, <1>5, <1>10, <1>11

(* No set of requests waits on itself, in every reachable state in which   *)
(* no record was moved from under an upload or a file's removal: what the  *)
(* run lock_order shows is the only way a deadlock comes about.            *)
THEOREM OrderedLocksNeverDeadlock == Spec => [](NoStrayRow => NoWaitCycle)
<1>1. Init => LockOrder
  <2> SUFFICES ASSUME Init, NEW p \in Procs
               PROVE  PeriodsInOrder(p) /\ RowsInOrder(p) /\ FilesInOrder(p)
    BY DEF LockOrder
  <2>1. req[p] = NoRequest /\ held[p] = NoLocks
    BY DEF Init
  <2> QED
    BY <2>1 DEF PeriodsInOrder, RowsInOrder, FilesInOrder, Guarded, NoLocks, NoRequest,
       RowOps, PeriodOps, Transitions, EditOps, FileOps
<1>2. LifecycleInv /\ LockOrder /\ [Next]_vars => LockOrder'
  BY LockOrderNext
<1>3. LifecycleInv /\ LockOrder => (NoStrayRow => NoWaitCycle)
  BY OrderBreaksCycles
<1> QED
  BY <1>1, <1>2, <1>3, LifecycleInvariant, PTL DEF Spec
=============================================================================
