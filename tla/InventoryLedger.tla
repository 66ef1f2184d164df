--------------------------- MODULE InventoryLedger ---------------------------
(***************************************************************************)
(* What the record, period-lock and evidence endpoints promise: every      *)
(* request that answers 2xx is one atomic step on the ledger (the activity *)
(* records, the closed periods, the evidence files and their links), taken *)
(* from a state in which every gate of that request holds, together with   *)
(* its audit row.  RecordLifecycle is the protocol that implements this    *)
(* with transactions and locks; it shares the gates (May...) and effects   *)
(* (Do...) defined here, but evaluates them in different steps.            *)
(***************************************************************************)
EXTENDS Integers, FiniteSets

CONSTANTS
    Records,          \* activity record ids; a deleted id never returns (uuid)
    Periods,          \* reporting periods of one subsidiary, in lock-key order
    Files,            \* evidence file ids, each uploaded at most once
    Users,            \* the organisation's users
    Role,             \* Role[u], as the request's RequestUser carries it
    EvidenceRequired, \* records of a category that needs a supporting file
    Values,           \* figures an author can enter (activityValue)
    Sites,            \* what else names the record's slot: site, category, type
    MaxLibrary,       \* bound on published factor releases
    InitialRecords,   \* the records the ledger may start with: none, or drafts
    None

Roles == {"data_entry", "consultant", "super_admin", "executive_viewer"}

Editable == {"draft", "rejected"}
PendingReview == {"submitted", "under_review"}
Committed == {"approved", "locked"}
Live == Editable \cup PendingReview \cup Committed \cup {"voided"}
Statuses == Live \cup {"none", "deleted"}

(* The engine's snapshot: the inputs it was computed from and the factor   *)
(* release it was computed with.                                           *)
Figure(v, s, lib) == [value |-> v, site |-> s, library |-> lib]
Figures == [value: Values, site: Sites, library: 1 .. MaxLibrary]

(* submittedBy is a history variable: the table keeps submittedAt only, and *)
(* no gate reads it.                                                       *)
Row == [status: Live, period: Periods, value: Values, site: Sites,
        figure: Figures, createdBy: Users,
        submittedBy: Users \cup {None}, reviewedBy: Users \cup {None}]
Unused == [status |-> "none"]
Deleted == [status |-> "deleted"]

Actions == {"create", "update", "delete", "submit", "review", "approve", "reject",
            "void", "lock", "unlock", "detach"}
Entities == {"activity_record", "period_lock", "evidence"}
AuditRow == [action: Actions, entity: Entities, on: Records \cup Periods \cup Files,
             from: Statuses, to: Statuses, by: Users]

ASSUME LedgerAssumption ==
    /\ Records \subseteq Nat /\ Periods \subseteq Nat /\ Files \subseteq Nat
    /\ Role \in [Users -> Roles]
    /\ EvidenceRequired \subseteq Records
    /\ MaxLibrary \in Nat \ {0}
    /\ None \notin Users /\ None \notin Sites
    /\ \A initial \in InitialRecords :
         /\ initial \in [Records -> Row \cup {Unused}]
         /\ \A r \in Records : initial[r] # Unused =>
              /\ initial[r].status = "draft"
              /\ initial[r].submittedBy = None /\ initial[r].reviewedBy = None
              /\ initial[r].figure = Figure(initial[r].value, initial[r].site, 1)

VARIABLES
    record,   \* activity_records: [Records -> Row or Unused or Deleted]
    closed,   \* the periods that have a period_locks row
    links,    \* activity_record_evidence: pairs <<record, file>>
    files,    \* evidence: none, stored or deleted
    library,  \* the newest published factor release
    audit     \* the newest audit_log row

ledgerVars == <<record, closed, links, files, library, audit>>

Exists(r) == record[r].status \in Live
FilesOf(r) == {f \in Files : <<r, f>> \in links}
HoldersOf(f) == {r \in Records : <<r, f>> \in links}
Open(r) == record[r].period \notin closed

LedgerInit ==
    /\ record \in InitialRecords
    /\ closed = {}
    /\ links = {}
    /\ files = [f \in Files |-> "none"]
    /\ library = 1
    /\ audit = None

-----------------------------------------------------------------------------
(* Gates.                                                                  *)

MayAuthor(u) == Role[u] \in {"data_entry", "super_admin"}
MayReview(u) == Role[u] \in {"consultant", "super_admin"}
MayApprove(u) == Role[u] = "super_admin"

(* assertCanMutate, and the evidence endpoints' refusalFor.                *)
MayMutate(u, r) ==
    /\ MayAuthor(u)
    /\ Role[u] = "super_admin" \/ record[r].createdBy = u
    /\ record[r].status \in Editable

(* The reporting-entity unique index: one record per slot, voided excepted. *)
InIndex(r) == Exists(r) /\ record[r].status # "voided"
SlotFree(r, per, s) ==
    \A other \in Records \ {r} :
        InIndex(other) => record[other].period # per \/ record[other].site # s

EvidencePresent(r) == r \in EvidenceRequired => FilesOf(r) # {}

MaySubmit(u, r) ==
    /\ MayAuthor(u)
    /\ record[r].status \in Editable
    /\ record[r].createdBy = u
    /\ Open(r)
    /\ EvidencePresent(r)

MayStartReview(u, r) ==
    /\ MayReview(u)
    /\ record[r].status = "submitted"
    /\ Open(r)

MayReject(u, r) ==
    /\ MayReview(u)
    /\ record[r].status \in PendingReview
    /\ Open(r)

(* Mutant: a super_admin approves any record, their own included.          *)
MayApproveOwn(u, r) ==
    MayApprove(u) /\ record[r].status \in PendingReview /\ Open(r)

MayApproveRecord(u, r) ==
    /\ MayApprove(u)
    /\ record[r].status \in PendingReview
    /\ record[r].createdBy # u
    /\ Open(r)

MayVoid(u, r) ==
    /\ MayApprove(u)
    /\ record[r].status = "approved"
    /\ Open(r)

(* assertFresh: the stored figure is what the engine computes, with the    *)
(* release it read, from the record's own inputs.                          *)
Fresh(r, lib) == record[r].figure = Figure(record[r].value, record[r].site, lib)

InPeriod(per, statuses) ==
    {r \in Records : Exists(r) /\ record[r].period = per /\ record[r].status \in statuses}

(* Mutant: a rejected record does not hold its period open.                *)
LockBlockingPending == PendingReview
LockBlocking == PendingReview \cup {"rejected"}

MayLock(u, per) ==
    /\ MayApprove(u)
    /\ InPeriod(per, LockBlocking) = {}
    /\ per \notin closed

MayUnlock(u, per) == MayApprove(u) /\ per \in closed

-----------------------------------------------------------------------------
(* Effects.  Every one writes its audit row in the same step.              *)

Audited(u, action, entity, on, from, to) ==
    audit' = [action |-> action, entity |-> entity, on |-> on,
              from |-> from, to |-> to, by |-> u]

NewDraft(u, per, v, s, lib) ==
    [status |-> "draft", period |-> per, value |-> v, site |-> s,
     figure |-> Figure(v, s, lib), createdBy |-> u,
     submittedBy |-> None, reviewedBy |-> None]

DoCreate(u, r, per, v, s, lib) ==
    /\ record' = [record EXCEPT ![r] = NewDraft(u, per, v, s, lib)]
    /\ Audited(u, "create", "activity_record", r, "none", "draft")
    /\ UNCHANGED <<closed, links, files, library>>

(* activityValue and the period are always written; the site only when the *)
(* request sent one.                                                       *)
DoUpdate(u, r, per, v, s, fig) ==
    /\ record' = [record EXCEPT ![r].period = per,
                                ![r].value = v,
                                ![r].site = IF s = None THEN @ ELSE s,
                                ![r].figure = fig]
    /\ Audited(u, "update", "activity_record", r, record[r].status, record[r].status)
    /\ UNCHANGED <<closed, links, files, library>>

(* deleteUnlinkedRows: the files of fs that no link in ls names.           *)
Unlinked(fs, ls) == {f \in fs : \A r \in Records : <<r, f>> \notin ls}

LinksOf(r) == {l \in links : l[1] = r}

(* Links go, and with them the file rows found to have lost their last one. *)
DropLinks(gone, doomed) ==
    /\ links' = links \ gone
    /\ files' = [f \in Files |-> IF f \in doomed THEN "deleted" ELSE files[f]]

(* The record's links go with it (ON DELETE CASCADE).                      *)
DoRemove(u, r, doomed) ==
    /\ record' = [record EXCEPT ![r] = Deleted]
    /\ DropLinks(LinksOf(r), doomed)
    /\ Audited(u, "delete", "activity_record", r, record[r].status, "deleted")
    /\ UNCHANGED <<closed, library>>

IsReviewOutcome(to) == to \in {"under_review", "approved", "rejected"}

(* transition(): `from` is the status of the row as it was locked.         *)
DoTransition(u, r, action, from, to) ==
    /\ record' = [record EXCEPT
                    ![r].status = to,
                    ![r].submittedBy = IF to = "submitted" THEN u ELSE @,
                    ![r].reviewedBy = IF IsReviewOutcome(to) THEN u ELSE @]
    /\ Audited(u, action, "activity_record", r, from, to)
    /\ UNCHANGED <<closed, links, files, library>>

(* Mutant: the flip also takes the records still in review.                *)
FlippedEarly(per, from, to) ==
    [r \in Records |-> IF r \in InPeriod(per, {from, "draft"})
                         THEN [record[r] EXCEPT !.status = to] ELSE record[r]]

Flipped(per, from, to) ==
    [r \in Records |-> IF r \in InPeriod(per, {from})
                         THEN [record[r] EXCEPT !.status = to] ELSE record[r]]

DoLock(u, per) ==
    /\ closed' = closed \cup {per}
    /\ record' = Flipped(per, "approved", "locked")
    /\ Audited(u, "lock", "period_lock", per, "approved", "locked")
    /\ UNCHANGED <<links, files, library>>

DoUnlock(u, per) ==
    /\ closed' = closed \ {per}
    /\ record' = Flipped(per, "locked", "approved")
    /\ Audited(u, "unlock", "period_lock", per, "locked", "approved")
    /\ UNCHANGED <<links, files, library>>

DoUpload(u, rs, f) ==
    /\ files' = [files EXCEPT ![f] = "stored"]
    /\ links' = links \cup (rs \X {f})
    /\ Audited(u, "create", "evidence", f, "none", "none")
    /\ UNCHANGED <<record, closed, library>>

DoDetach(u, r, f, doomed) ==
    /\ DropLinks({<<r, f>>}, doomed)
    /\ Audited(u, IF f \in doomed THEN "delete" ELSE "detach", "evidence", f, "none", "none")
    /\ UNCHANGED <<record, closed, library>>

DoRemoveFile(u, f) ==
    /\ files' = [files EXCEPT ![f] = "deleted"]
    /\ links' = {l \in links : l[2] # f}
    /\ Audited(u, "delete", "evidence", f, "none", "none")
    /\ UNCHANGED <<record, closed, library>>

-----------------------------------------------------------------------------
(* The atomic operations.                                                  *)

Create(u, r) ==
    \E per \in Periods, v \in Values, s \in Sites, lib \in 1 .. library :
        /\ MayAuthor(u)
        /\ record[r] = Unused
        /\ per \notin closed
        /\ SlotFree(r, per, s)
        /\ DoCreate(u, r, per, v, s, lib)

Update(u, r) ==
    \E per \in Periods, v \in Values, s \in Sites \cup {None}, lib \in 1 .. library :
        LET site == IF s = None THEN record[r].site ELSE s IN
        /\ Exists(r)
        /\ MayMutate(u, r)
        /\ Open(r)
        /\ per \notin closed
        /\ SlotFree(r, per, site)
        /\ DoUpdate(u, r, per, v, s, Figure(v, site, lib))

Remove(u, r) ==
    /\ Exists(r)
    /\ MayMutate(u, r)
    /\ Open(r)
    /\ DoRemove(u, r, Unlinked(FilesOf(r), links \ LinksOf(r)))

Submit(u, r) ==
    \E lib \in 1 .. library :
        /\ MaySubmit(u, r)
        /\ Fresh(r, lib)
        /\ DoTransition(u, r, "submit", record[r].status, "submitted")

StartReview(u, r) ==
    MayStartReview(u, r) /\ DoTransition(u, r, "review", record[r].status, "under_review")

Approve(u, r) ==
    \E lib \in 1 .. library :
        /\ MayApproveRecord(u, r)
        /\ Fresh(r, lib)
        /\ DoTransition(u, r, "approve", record[r].status, "approved")

Reject(u, r) ==
    MayReject(u, r) /\ DoTransition(u, r, "reject", record[r].status, "rejected")

Void(u, r) ==
    MayVoid(u, r) /\ DoTransition(u, r, "void", record[r].status, "voided")

Lock(u, per) == MayLock(u, per) /\ DoLock(u, per)
Unlock(u, per) == MayUnlock(u, per) /\ DoUnlock(u, per)

Upload(u, rs, f) ==
    /\ rs # {}
    /\ files[f] = "none"
    /\ \A r \in rs : Exists(r) /\ MayMutate(u, r) /\ Open(r)
    /\ DoUpload(u, rs, f)

Detach(u, r, f) ==
    /\ <<r, f>> \in links
    /\ Exists(r)
    /\ MayMutate(u, r)
    /\ Open(r)
    /\ DoDetach(u, r, f, Unlinked({f}, links \ {<<r, f>>}))

RemoveFile(u, f) ==
    /\ files[f] = "stored"
    /\ \A r \in HoldersOf(f) : MayMutate(u, r) /\ Open(r)
    /\ DoRemoveFile(u, f)

(* A factor release is loaded by an operator's tool, outside the API.      *)
Publish ==
    /\ library < MaxLibrary
    /\ library' = library + 1
    /\ UNCHANGED <<record, closed, links, files, audit>>

LedgerNext ==
    \/ \E u \in Users, r \in Records :
         \/ Create(u, r) \/ Update(u, r) \/ Remove(u, r)
         \/ Submit(u, r) \/ StartReview(u, r) \/ Approve(u, r)
         \/ Reject(u, r) \/ Void(u, r)
    \/ \E u \in Users, per \in Periods : Lock(u, per) \/ Unlock(u, per)
    \/ \E u \in Users, f \in Files :
         \/ \E rs \in SUBSET Records : Upload(u, rs, f)
         \/ \E r \in Records : Detach(u, r, f)
         \/ RemoveFile(u, f)
    \/ Publish

LedgerSpec == LedgerInit /\ [][LedgerNext]_ledgerVars

-----------------------------------------------------------------------------
(* Properties of the ledger.                                               *)

(* Every variable stays within the schema the migrations declare.          *)
LedgerTypeOK ==
    /\ record \in [Records -> Row \cup {Unused, Deleted}]
    /\ closed \subseteq Periods
    /\ links \subseteq Records \X Files
    /\ files \in [Files -> {"none", "stored", "deleted"}]
    /\ library \in 1 .. MaxLibrary
    /\ audit \in AuditRow \cup {None}

(* A closed period holds only drafts, locked figures and withdrawn ones:   *)
(* nothing awaiting review is stranded in it, no approved figure in it was *)
(* missed by the flip, and a locked figure is never in an open period.     *)
ClosedPeriodSealed ==
    \A r \in Records : Exists(r) =>
        /\ record[r].period \in closed => record[r].status \in {"draft", "locked", "voided"}
        /\ record[r].status = "locked" => record[r].period \in closed

(* While a period stays closed nothing in it changes: no record enters,    *)
(* leaves or is rewritten, and no evidence is added to or taken off one.   *)
ClosedPeriodFrozen ==
    [][\A r \in Records :
         /\ Exists(r) /\ record[r].period \in closed \cap closed'
              => record'[r] = record[r] /\ FilesOf(r)' = FilesOf(r)
         /\ Exists(r)' /\ record'[r].period \in closed \cap closed'
              => record'[r] = record[r]]_ledgerVars

(* Four eyes: whoever approved a figure neither created it nor submitted   *)
(* it, whatever happened to it in between (rejections, edits, resubmits).  *)
FourEyes ==
    \A r \in Records : record[r].status \in Committed \cup {"voided"} =>
        /\ record[r].reviewedBy \in Users
        /\ MayApprove(record[r].reviewedBy)
        /\ record[r].reviewedBy \notin {record[r].createdBy, record[r].submittedBy}

(* A figure that counts towards the inventory keeps its supporting file    *)
(* from the submit that needed it for as long as it counts.                *)
EvidenceKept ==
    \A r \in EvidenceRequired :
        record[r].status \in PendingReview \cup Committed \cup {"voided"} =>
            \E f \in FilesOf(r) : files[f] = "stored"

(* No file outlives its last link and no link its file or its record: the  *)
(* row that names the blob goes with the last record the file backs.       *)
NoOrphanFile ==
    /\ \A f \in Files : files[f] = "stored" <=> HoldersOf(f) # {}
    /\ \A l \in links : Exists(l[1])

(* The stored figure is always the one computed from the row's own inputs: *)
(* two edits that each send a different input never leave a figure of      *)
(* neither.                                                                *)
FigureOfItsInputs ==
    \A r \in Records : Exists(r) =>
        /\ record[r].figure.value = record[r].value
        /\ record[r].figure.site = record[r].site

(* A figure handed to review is not rewritten or moved until it comes back *)
(* to its author as rejected; a voided one never changes again.            *)
CommittedFigureKept ==
    [][\A r \in Records : record[r].status \in Live \ Editable =>
         /\ Exists(r)'
         /\ <<record'[r].period, record'[r].value, record'[r].site, record'[r].figure>>
              = <<record[r].period, record[r].value, record[r].site, record[r].figure>>
         /\ record[r].status = "voided" => record'[r] = record[r]]_ledgerVars

(* The audit trail replays the ledger: a record's status never changes     *)
(* without the audit row, of the same commit, that names the status it had *)
(* and the one it got - or the lock or unlock of its period.               *)
AuditExplains ==
    [][\A r \in Records : record'[r].status # record[r].status =>
         /\ audit'.from = record[r].status
         /\ audit'.to = record'[r].status
         /\ \/ audit'.entity = "activity_record" /\ audit'.on = r
            \/ audit'.entity = "period_lock" /\ audit'.on = record[r].period]_ledgerVars
=============================================================================
