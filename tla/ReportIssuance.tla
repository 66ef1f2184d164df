---------------------------- MODULE ReportIssuance ----------------------------
(***************************************************************************)
(* Issuing a retained dataset as a PDF (ReportIssuancesService), on top of *)
(* the storage protocol: a request renders one artifact, so an object of   *)
(* StorageIntents is the request whose artifact it is, and a row that owns *)
(* an object is that request's report_issuances row.                       *)
(*                                                                         *)
(* A dataset is retained and its version frozen (InventoryBoundary), so    *)
(* the status the gate derives from it (InventoryCoverage) is a constant.  *)
(* A row is never updated, and goes only with its organisation.            *)
(***************************************************************************)
EXTENDS StorageIntents

CONSTANTS
    Datasets,     \* retained datasets of one organisation
    Editions,     \* language, template and options
    Verdict,      \* the status deriveIssuance gives a dataset
    Issuers,      \* the requests of a super_admin; the others are a consultant's
    Printers,     \* replicas, each with its one Chromium
    At            \* the replica that serves a request

ASSUME IssuanceAssumption ==
    /\ Verdict \in [Datasets -> {"final", "partial"}]
    /\ Issuers \subseteq Objects
    /\ At \in [Objects -> Printers]
    /\ None \notin Datasets \cup Editions

VARIABLES
    asked,    \* asked[r]: the dataset and the edition the request read
    phase,    \* phase[r]: how far it is, or what it answered
    stored,   \* stored[r]: what Storage holds under its key once bytes landed
    printer,  \* printer[p]: the request whose render owns replica p's renderer
    audit     \* the requests with an `issue` row in the audit log

issueVars == <<asked, phase, stored, printer, audit>>
allVars == <<storageVars, issueVars>>

Nothing == [dataset |-> None, edition |-> None]

(* "repeated": its insert met another row of its edition; "broken": it     *)
(* failed some other way; "unsure": it committed and does not know it.     *)
Working == {"read", "rendering", "rendered", "sent", "checked", "inserted",
            "repeated", "broken", "late", "unsure"}
IssueAnswers == {"issued", "already_issued", "final_forbidden", "busy", "too_broad",
            "upload_expired", "error", "dead"}

IssueInit ==
    /\ StorageInit
    /\ asked = [r \in Objects |-> Nothing]
    /\ phase = [r \in Objects |-> "none"]
    /\ stored = [r \in Objects |-> None]
    /\ printer = [p \in Printers |-> None]
    /\ audit = {}

-----------------------------------------------------------------------------
(* The table: a row's key, and who may see it.                             *)

Issued(r) == row[r] = "owned"
SameEdition(q, r) == asked[q] = asked[r]

Advances(r, next) == phase' = [phase EXCEPT ![r] = next]

(* One REPEATABLE READ snapshot: the dataset, and whether the edition is   *)
(* issued already; then the gate, from the dataset alone.                  *)

(* Mutant: an issuance of any language and template counts.                *)
RepeatsDataset(d, e) == \E q \in Objects : Issued(q) /\ asked[q].dataset = d
Repeats(d, e) == \E q \in Objects : Issued(q) /\ asked[q] = [dataset |-> d, edition |-> e]
Refused(r, d) == Verdict[d] = "final" /\ r \notin Issuers
ReadDataset(r, d, e) ==
    /\ phase[r] = "none"
    /\ asked' = [asked EXCEPT ![r] = [dataset |-> d, edition |-> e]]
    /\ \/ Repeats(d, e) /\ Advances(r, "already_issued")
       \/ ~Repeats(d, e) /\ Refused(r, d) /\ Advances(r, "final_forbidden")
       \/ ~Repeats(d, e) /\ ~Refused(r, d) /\ Advances(r, "read")
    /\ UNCHANGED <<storageVars, stored, printer, audit>>

(* One render at a time and replica; another is refused, never queued.     *)
Render(r) ==
    /\ phase[r] = "read"
    /\ \/ /\ printer[At[r]] = None
          /\ Advances(r, "rendering")
          /\ printer' = [printer EXCEPT ![At[r]] = r]
       \/ /\ printer[At[r]] # None
          /\ Advances(r, "busy")
          /\ UNCHANGED printer
    /\ UNCHANGED <<storageVars, asked, stored, audit>>

Frees(r) == printer' = [p \in Printers |-> IF printer[p] = r THEN None ELSE printer[p]]

(* It prints, or is refused for its size or its time (the browser is       *)
(* killed), or fails; whichever, the renderer is free again.               *)
EndRender(r) ==
    /\ phase[r] = "rendering"
    /\ \E next \in {"rendered", "too_broad", "error"} : Advances(r, next)
    /\ Frees(r)
    /\ UNCHANGED <<storageVars, asked, stored, audit>>

-----------------------------------------------------------------------------
(* The bytes.                                                              *)

(* Mutant: the bytes go up before any intent names them.                   *)
SendUnnamed(r) ==
    /\ phase[r] = "rendered"
    /\ Reaches(r, "sending")
    /\ Advances(r, "sent")
    /\ UNCHANGED <<bytes, row, intent, minted, claim, asked, stored, printer, audit>>
Send(r) ==
    /\ phase[r] = "rendered"
    /\ BeginUpload(r)
    /\ Advances(r, "sent")
    /\ UNCHANGED <<asked, stored, printer, audit>>

(* Storage may hold other bytes than were sent.                            *)
Arrive(r) ==
    /\ phase[r] = "sent"
    /\ Land(r)
    /\ \E what \in {"pdf", "other"} : stored' = [stored EXCEPT ![r] = what]
    /\ UNCHANGED <<asked, phase, printer, audit>>

(* Mutant: what Storage holds is not read back.                            *)
ReadsAnything(r) ==
    /\ phase[r] = "sent" /\ stage[r] = "answered"
    /\ Advances(r, "checked")
    /\ UNCHANGED <<storageVars, asked, stored, printer, audit>>
(* The stored bytes are downloaded and hashed: they are the rendered ones. *)
ReadBack(r) ==
    /\ phase[r] = "sent" /\ stage[r] = "answered"
    /\ stored[r] = "pdf"
    /\ Advances(r, "checked")
    /\ UNCHANGED <<storageVars, asked, stored, printer, audit>>

FailUpload(r) ==
    /\ phase[r] = "sent"
    /\ UploadFails(r)
    /\ Advances(r, "broken")
    /\ UNCHANGED <<asked, stored, printer, audit>>

-----------------------------------------------------------------------------
(* The owning transaction.                                                 *)

(* The row takes the object over first, unless the transaction fails.      *)
Adopt(r) ==
    /\ phase[r] = "checked"
    /\ AdoptUpload(r)
    /\ phase' = [phase EXCEPT ![r] = CASE stage'[r] = "open" -> "checked"
                                       [] stage'[r] = "expired" -> "late"
                                       [] stage'[r] = "unopened" -> "broken"]
    /\ UNCHANGED <<asked, stored, printer, audit>>

Uncommitted(q) == stage[q] = "open" /\ phase[q] = "inserted"

(* Mutant: the edition's uniqueness is left to the first read.             *)
InsertAnyway(r) ==
    /\ stage[r] = "open" /\ phase[r] = "checked"
    /\ Advances(r, "inserted")
    /\ UNCHANGED <<storageVars, asked, stored, printer, audit>>
(* The unique index: an insert waits for an uncommitted one of its edition *)
(* and fails after a committed one, which rolls the adoption back.         *)
InsertRow(r) ==
    /\ stage[r] = "open" /\ phase[r] = "checked"
    /\ ~\E q \in Objects : Uncommitted(q) /\ SameEdition(q, r)
    /\ \/ /\ ~\E q \in Objects : Issued(q) /\ SameEdition(q, r)
          /\ Advances(r, "inserted")
          /\ UNCHANGED storageVars
       \/ /\ \E q \in Objects : Issued(q) /\ SameEdition(q, r)
          /\ Advances(r, "repeated")
          /\ Rollback(r)
    /\ UNCHANGED <<asked, stored, printer, audit>>

(* The row, its audit row and the adopted intent commit together.          *)
CommitIssue(r) ==
    /\ phase[r] = "inserted"
    /\ CommitRow(r)
    /\ phase' = [phase EXCEPT ![r] = IF stage'[r] = "ended" THEN "issued" ELSE "unsure"]
    /\ audit' = audit \cup {r}
    /\ UNCHANGED <<asked, stored, printer>>

(* A statement fails, or the transaction runs out of its time.             *)
Fail(r) ==
    /\ Rollback(r)
    /\ Advances(r, "broken")
    /\ UNCHANGED <<asked, stored, printer, audit>>

(* The upload is abandoned, then the request answers.                      *)
Answer(r) ==
    /\ AbandonUpload(r) \/ AbandonUnowned(r)
    /\ \/ phase[r] = "repeated" /\ Advances(r, "already_issued")
       \/ phase[r] = "late" /\ Advances(r, "upload_expired")
       \/ phase[r] \in {"broken", "unsure"} /\ Advances(r, "error")
    /\ UNCHANGED <<asked, stored, printer, audit>>

(* The process dies; a transaction it had open rolls back first (Fail).    *)
Die(r) ==
    /\ phase[r] \in Working
    /\ stage[r] # "open"
    /\ IF stage[r] \in Alive THEN Crash(r) ELSE UNCHANGED storageVars
    /\ Advances(r, "dead")
    /\ Frees(r)
    /\ UNCHANGED <<asked, stored, audit>>

IssueStep(r) ==
    \/ Render(r) \/ EndRender(r) \/ Send(r) \/ Arrive(r) \/ ReadBack(r) \/ FailUpload(r)
    \/ Adopt(r) \/ InsertRow(r) \/ CommitIssue(r) \/ Fail(r) \/ Answer(r)

(* The sweeper and the operator's reclaim work beside the requests.        *)
Sweep ==
    /\ \/ \E r \in Objects : Reclaim(r) \/ AbandonStale(r) \/ LeaseExpires(r)
       \/ \E w \in Tidiers :
            \/ \E r \in Objects : Claim(w, r)
            \/ Judge(w) \/ RemoveBytes(w) \/ RemoveFails(w)
            \/ CloseUnderLease(w) \/ Release(w) \/ WorkerCrash(w)
    /\ UNCHANGED issueVars

IssueNext ==
    \/ \E r \in Objects, d \in Datasets, e \in Editions : ReadDataset(r, d, e)
    \/ \E r \in Objects : IssueStep(r) \/ Die(r)
    \/ Sweep

IssueSpec == IssueInit /\ [][IssueNext]_allVars

(* A request goes on: the render, Storage's calls and the transaction all  *)
(* have a deadline.  The rest is the storage protocol's fairness.          *)
IssueFairness ==
    /\ SweeperFairness
    /\ \A r \in Objects : WF_allVars(IssueStep(r))

IssueFairSpec == IssueSpec /\ IssueFairness

-----------------------------------------------------------------------------
(* Properties.                                                             *)

IssueTypeOK ==
    /\ StorageTypeOK
    /\ asked \in [Objects -> [dataset: Datasets, edition: Editions] \cup {Nothing}]
    /\ phase \in [Objects -> {"none"} \cup Working \cup IssueAnswers]
    /\ stored \in [Objects -> {"pdf", "other", None}]
    /\ printer \in [Printers -> Objects \cup {None}]
    /\ audit \subseteq Objects

(* An issuance can be downloaded and passes its hash, for as long as its   *)
(* row stands: nothing ever removes or replaces its artifact.              *)
ServedAsIssued == \A r \in Objects : Issued(r) => bytes[r] /\ stored[r] = "pdf"

(* "one issuance per dataset, language, template and options", however     *)
(* many requests passed the first read before any of them committed.       *)
IssuedOnce ==
    \A q, r \in Objects : Issued(q) /\ Issued(r) /\ SameEdition(q, r) => q = r

(* The log names the issuances and nothing else, whatever was lost.        *)
IssuesAudited == audit = {r \in Objects : Issued(r)}

(* What a request answered is true: success has its row; a repeat is of an *)
(* issuance someone committed; a refusal before the commit left no row.    *)
AnswersTrue ==
    \A r \in Objects :
        /\ phase[r] = "issued" => Issued(r)
        /\ phase[r] = "already_issued" =>
             ~Issued(r) /\ \E q \in Objects : Issued(q) /\ SameEdition(q, r)
        /\ phase[r] \in {"final_forbidden", "busy", "too_broad", "upload_expired"} => ~Issued(r)

(* One render at a time on a replica: cancelling one kills its Chromium.   *)
OneRender ==
    \A q, r \in Objects :
        phase[q] = "rendering" /\ phase[r] = "rendering" /\ At[q] = At[r] => q = r

(* Every request is answered, or its process died.                         *)
EveryIssueEnds == \A r \in Objects : phase[r] \in Working ~> phase[r] \in IssueAnswers

(* Issuing uses the storage protocol as it is meant to be used.            *)
UsesStorage == StorageSpec
=============================================================================
