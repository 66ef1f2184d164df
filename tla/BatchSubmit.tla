------------------------------ MODULE BatchSubmit ------------------------------
(***************************************************************************)
(* Sending many drafts for review at once (BulkSubmitService, and through  *)
(* it an import batch's submit), and repairing stale anomaly verdicts      *)
(* (anomaly:recompute), beside the requests that write single records.     *)
(*                                                                         *)
(* A single record's write is one step here: RecordLifecycle has its locks *)
(* and its gates.  No transaction spans a batch or a repair.               *)
(***************************************************************************)
EXTENDS AnomalyBaseline

CONSTANTS
    Batches,      \* bulk submits, each with its caller
    Caller,
    Author,       \* a record's author
    Bare,         \* records that still need an evidence file
    Touched,      \* bound: records that single requests edit, review and void
    Periods,      \* bound: the periods that are closed and opened
    Figures,      \* figures of a record; None when its category has none
    Reasons,      \* bound: whether a save gives a varianceReason
    SubmitFaults,       \* bound: the codes of a record's submit that fails
    Repairs       \* bound: whether anomaly:recompute runs

NotProcessed == "not_processed_deadline"
BatchCodes ==
    {"not_found", "not_submittable", "not_author", "period_locked", "evidence_required",
     "calculation_stale", "variance_reason_required", "unexpected", NotProcessed}

(* What the constants are.                                                 *)
BatchAssumption ==
    /\ BaselineAssumption
    /\ None \notin Batches \cup Records \cup BatchCodes
    /\ Figures \subseteq Nat \cup {None}
    /\ Touched \subseteq Records /\ Bare \subseteq Records
    /\ Reasons \subseteq BOOLEAN /\ SubmitFaults \subseteq {"calculation_stale", "not_submittable", "unexpected"}

VARIABLES
    status, figure, reason, verdict,  \* the records; reason: a varianceReason
    locked,   \* places whose period is locked
    batch,    \* batch[b]: a bulk submit
    batchRows,     \* rows[b]: the bulk_submit rows it left in the audit log
    repair    \* the one run of anomaly:recompute

recordVars == <<status, figure, reason, verdict>>
batchVars == <<recordVars, locked, batch, batchRows, repair>>

Fresh(r) == VerdictOf(r, status, figure)

Unsent == [phase |-> "none", asked |-> {}, todo |-> {}, sent |-> {},
         codes |-> [r \in Records |-> None], tries |-> 0, calm |-> TRUE]
NoRepair == [phase |-> "none", new |-> [r \in Records |-> None], todo |-> {}, held |-> None,
             same |-> Records, left |-> 0, calm |-> TRUE]

BatchInit ==
    /\ status = [r \in Records |-> "absent"]
    /\ figure = [r \in Records |-> None]
    /\ reason = [r \in Records |-> FALSE]
    /\ verdict = [r \in Records |-> NotEvaluated(None)]
    /\ locked = {}
    /\ batch = [b \in Batches |-> Unsent]
    /\ batchRows = [b \in Batches |-> {}]
    /\ repair = NoRepair

(* What a write of record r does to those who read it before: its updated_at *)
(* moves, and the pool a batch or a repair judges by has moved.            *)
Stirs(others, r) ==
    /\ batch' = [b \in Batches |-> [batch[b] EXCEPT !.calm = @ /\ b \notin others]]
    /\ repair' = [repair EXCEPT !.same = @ \ {r}, !.calm = FALSE]

-----------------------------------------------------------------------------
(* Single requests.                                                        *)

Moves(r, next) == status' = [status EXCEPT ![r] = next]

(* Creating and saving judge the figure at once; uniqueness is the place's. *)
Save(r, f, why) ==
    /\ \/ status[r] = "absent"
       \/ status[r] \in {"draft", "rejected"} /\ r \in Touched
    /\ Place[r] \notin locked
    /\ Moves(r, IF status[r] = "absent" THEN "draft" ELSE status[r])
    /\ figure' = [figure EXCEPT ![r] = f]
    /\ reason' = [reason EXCEPT ![r] = why]
    /\ verdict' = [verdict EXCEPT ![r] = VerdictOf(r, status, figure')]
    /\ Stirs(Batches, r)
    /\ UNCHANGED <<locked, batchRows>>

Gone(r) == status[r] \in {"absent", "removed"}

RemoveDraft(r) ==
    /\ r \in Touched
    /\ status[r] \in {"draft", "rejected"} /\ Place[r] \notin locked
    /\ Moves(r, "removed")
    /\ Stirs(Batches, r)
    /\ UNCHANGED <<figure, reason, verdict, locked, batchRows>>

Review(r) ==
    /\ r \in Touched
    /\ status[r] = "submitted"
    /\ \E next \in {"approved", "rejected"} : Moves(r, next)
    /\ Stirs(Batches, r)
    /\ UNCHANGED <<figure, reason, verdict, locked, batchRows>>

Void(r) ==
    /\ r \in Touched
    /\ status[r] = "approved" /\ Place[r] \notin locked
    /\ Moves(r, "voided")
    /\ Stirs(Batches, r)
    /\ UNCHANGED <<figure, reason, verdict, locked, batchRows>>

(* A lock refuses pending and rejected records, flips the approved ones    *)
(* and leaves the drafts.                                                  *)
Close(p) ==
    /\ p \in Periods \ locked
    /\ \A r \in Records : Place[r] = p => status[r] \notin {"submitted", "rejected"}
    /\ locked' = locked \cup {p}
    /\ status' = [r \in Records |-> IF Place[r] = p /\ status[r] = "approved" THEN "locked"
                                    ELSE status[r]]
    /\ repair' = [repair EXCEPT !.same = {r \in @ : status'[r] = status[r]}]
    /\ UNCHANGED <<figure, reason, verdict, batch, batchRows>>

-----------------------------------------------------------------------------
(* A submit of one record, alone or for a batch.                           *)

Judged(r) == Fresh(r)

(* The refusal, in the order of the gates, or None.                        *)
Refusal(r, who) ==
    IF Gone(r) THEN "not_found"
    ELSE IF status[r] \notin {"draft", "rejected"} THEN "not_submittable"
    ELSE IF Author[r] # who THEN "not_author"
    ELSE IF Place[r] \in locked THEN "period_locked"
    ELSE IF r \in Bare THEN "evidence_required"
    ELSE IF Judged(r).anomalous /\ ~reason[r] THEN "variance_reason_required"
    ELSE None

Submits(r) ==
    /\ Moves(r, "submitted")
    /\ verdict' = [verdict EXCEPT ![r] = Judged(r)]
    /\ UNCHANGED <<figure, reason>>

SubmitAlone(r) ==
    /\ r \in Touched
    /\ Refusal(r, Author[r]) = None
    /\ Submits(r)
    /\ Stirs(Batches, r)
    /\ UNCHANGED <<locked, batchRows>>

-----------------------------------------------------------------------------
(* A bulk submit.                                                          *)

InPhase(b, phase) == batch[b].phase = phase

(* One query: what it turns away.                                          *)
TurnedAway(b, r) ==
    IF Gone(r) THEN "not_found"
    ELSE IF status[r] # "draft" THEN "not_submittable"
    ELSE IF Author[r] # Caller[b] THEN "not_author"
    ELSE None

(* Out of time already: nothing is started, and every id says so.          *)
AllLate(b, asked) == [r \in Records |-> IF r \in asked THEN NotProcessed ELSE None]

Preflight(b, asked) ==
    /\ InPhase(b, "none")
    /\ LET eligible == {r \in asked : TurnedAway(b, r) = None}
           answered == [r \in Records |-> IF r \in asked THEN TurnedAway(b, r) ELSE None]
       IN  \/ batch' = [batch EXCEPT ![b] = [Unsent EXCEPT
                  !.phase = "working", !.asked = asked, !.todo = eligible, !.codes = answered]]
           \/ batch' = [batch EXCEPT ![b] = [Unsent EXCEPT
                  !.phase = "working", !.asked = asked, !.codes = AllLate(b, asked)]]
    /\ UNCHANGED <<recordVars, locked, batchRows, repair>>

(* Mutant: in the order the client sent them.                              *)
NextUnsorted(b, r) == r \in batch[b].todo
(* In calendar order.                                                      *)
NextUp(b, r) == r \in batch[b].todo /\ \A q \in batch[b].todo : Place[r] <= Place[q]

Answers(b, r, sent, code) ==
    [batch[b] EXCEPT !.todo = @ \ {r}, !.sent = @ \cup sent, !.codes[r] = code]

(* Another batch, and a repair, see this batch's writes as someone else's. *)
Tells(b, r, sent, code) ==
    /\ batch' = [x \in Batches |->
                    IF x = b THEN Answers(b, r, sent, code) ELSE [batch[x] EXCEPT !.calm = FALSE]]
    /\ repair' = [repair EXCEPT !.same = @ \ {r}, !.calm = FALSE]

SubmitNext(b, r) ==
    /\ InPhase(b, "working") /\ NextUp(b, r)
    /\ \/ /\ Refusal(r, Caller[b]) = None
          /\ Submits(r)
          /\ Tells(b, r, {r}, None)
       \/ /\ Refusal(r, Caller[b]) # None
          /\ batch' = [batch EXCEPT ![b] = Answers(b, r, {}, Refusal(r, Caller[b]))]
          /\ UNCHANGED <<recordVars, repair>>
    /\ UNCHANGED <<locked, batchRows>>

(* The recompute differs, the record has changed since the batch read it, a *)
(* statement fails, or the commit's answer is lost.                        *)
SubmitFails(b, r) ==
    /\ InPhase(b, "working") /\ NextUp(b, r)
    /\ \/ /\ \E code \in SubmitFaults :
                batch' = [batch EXCEPT ![b] = Answers(b, r, {}, code)]
          /\ UNCHANGED <<recordVars, repair>>
       \/ /\ Refusal(r, Caller[b]) = None
          /\ Submits(r)
          /\ Tells(b, r, {}, "unexpected")
    /\ UNCHANGED <<locked, batchRows>>

(* The deadline passes: what is not started is answered so.                *)
DeferRest(b) ==
    /\ InPhase(b, "working") /\ batch[b].todo # {}
    /\ batch' = [batch EXCEPT
          ![b].todo = {},
          ![b].codes = [r \in Records |-> IF r \in batch[b].todo THEN NotProcessed ELSE batch[b].codes[r]]]
    /\ UNCHANGED <<recordVars, locked, batchRows, repair>>

Attempted(b, tries, phase) == batch' = [batch EXCEPT ![b].tries = tries, ![b].phase = phase]
Row(b) == [sent |-> batch[b].sent, failed |-> {r \in Records : batch[b].codes[r] # None},
           try |-> 0]

(* An attempt looks for its own row first: its id is the same each time.   *)
WritesRow(b) ==
    \/ batchRows[b] = {} /\ batchRows' = [batchRows EXCEPT ![b] = {Row(b)}]
    \/ batchRows[b] # {} /\ UNCHANGED batchRows

(* audit.finalize: three attempts; a failure of all of them is logged, and *)
(* the caller has the report in any case.                                  *)
FinalizeBatch(b) ==
    /\ InPhase(b, "working") /\ batch[b].todo = {}
    /\ \/ WritesRow(b) /\ Attempted(b, batch[b].tries + 1, "audited")
       \/ /\ WritesRow(b) \/ UNCHANGED batchRows
          /\ Attempted(b, batch[b].tries + 1, IF batch[b].tries < 2 THEN "working" ELSE "unsure")
    /\ UNCHANGED <<recordVars, locked, repair>>

BatchDies(b) ==
    /\ InPhase(b, "working")
    /\ batch' = [batch EXCEPT ![b].phase = "dead"]
    /\ UNCHANGED <<recordVars, locked, batchRows, repair>>

-----------------------------------------------------------------------------
(* anomaly:recompute --apply.                                              *)

Rewritable == {"draft", "rejected", "submitted", "under_review"}
Scored(r) == ~Gone(r) /\ status[r] # "voided"

(* Every record, in one query; what is stale is decided from it alone.     *)
ReadRecords ==
    /\ Repairs /\ repair.phase = "none"
    /\ LET stale == {r \in Records : Scored(r) /\ verdict[r] # Fresh(r)}
       IN  repair' = [NoRepair EXCEPT
             !.phase = "read",
             !.new = [r \in Records |-> IF r \in stale THEN Fresh(r) ELSE None],
             !.todo = {r \in stale : status[r] \in Rewritable},
             !.left = Cardinality({r \in stale : status[r] \notin Rewritable})]
    /\ UNCHANGED <<recordVars, locked, batch, batchRows>>

(* The locks, in another query.                                            *)
ReadLocks ==
    /\ repair.phase = "read"
    /\ LET shut == {r \in repair.todo : Place[r] \in locked}
       IN  repair' = [repair EXCEPT !.phase = "writing", !.todo = @ \ shut,
                                    !.left = @ + Cardinality(shut)]
    /\ UNCHANGED <<recordVars, locked, batch, batchRows>>

(* A record's own transaction: its lock is looked for ...                  *)
LookForLock(r) ==
    /\ repair.phase = "writing" /\ repair.held = None /\ r \in repair.todo
    /\ repair' = IF Place[r] \in locked
                 THEN [repair EXCEPT !.todo = @ \ {r}, !.left = @ + 1]
                 ELSE [repair EXCEPT !.todo = @ \ {r}, !.held = r]
    /\ UNCHANGED <<recordVars, locked, batch, batchRows>>

(* ... then it is written, where nothing has written it since.             *)
StillThat(r) == status[r] \in Rewritable /\ r \in repair.same
Rewrite ==
    /\ repair.held # None
    /\ LET r == repair.held
       IN  \/ /\ StillThat(r)
              /\ verdict' = [verdict EXCEPT ![r] = repair.new[r]]
              /\ repair' = [repair EXCEPT !.held = None, !.same = @ \ {r}]
           \/ /\ ~StillThat(r)
              /\ repair' = [repair EXCEPT !.held = None, !.left = @ + 1]
              /\ UNCHANGED verdict
    /\ UNCHANGED <<status, figure, reason, locked, batch, batchRows>>

ExitCode == IF repair.left > 0 THEN 1 ELSE 0
RepairEnds ==
    /\ repair.phase = "writing" /\ repair.held = None /\ repair.todo = {}
    /\ repair' = [repair EXCEPT !.phase = IF ExitCode = 0 THEN "clean" ELSE "drift"]
    /\ UNCHANGED <<recordVars, locked, batch, batchRows>>
RepairFails ==
    /\ repair.phase \in {"read", "writing"}
    /\ repair' = [repair EXCEPT !.phase = "failed", !.held = None]
    /\ UNCHANGED <<recordVars, locked, batch, batchRows>>

-----------------------------------------------------------------------------
Single ==
    \/ \E r \in Records, f \in Figures, why \in Reasons : Save(r, f, why)
    \/ \E r \in Records : RemoveDraft(r) \/ Review(r) \/ Void(r) \/ SubmitAlone(r)
    \/ \E p \in Periods : Close(p)

Bulk(b) ==
    \/ \E r \in Records : SubmitNext(b, r) \/ SubmitFails(b, r)
    \/ DeferRest(b) \/ FinalizeBatch(b)

Repair ==
    \/ ReadRecords \/ ReadLocks \/ Rewrite \/ RepairEnds \/ RepairFails
    \/ \E r \in Records : LookForLock(r)

BatchNext ==
    \/ Single
    \/ \E b \in Batches :
         \/ \E asked \in SUBSET Records : Preflight(b, asked)
         \/ Bulk(b) \/ BatchDies(b)
    \/ Repair

BatchSpec == BatchInit /\ [][BatchNext]_batchVars
FairBatches == BatchSpec /\ \A b \in Batches : WF_batchVars(Bulk(b))

-----------------------------------------------------------------------------
(* Properties.                                                             *)

Statuses == {"absent", "removed", "draft", "submitted", "rejected", "approved", "locked", "voided"}
Done(b) == batch[b].phase \in {"audited", "unsure"}

(* Every variable stays in its domain.                                     *)
BatchTypeOK ==
    /\ status \in [Records -> Statuses]
    /\ figure \in [Records -> Figures \cup {None}]
    /\ reason \in [Records -> BOOLEAN]
    /\ \A r \in Records : verdict[r].anomalous \in BOOLEAN /\ verdict[r].priors \in 0..Window \cup {None}
    /\ locked \subseteq Periods
    /\ \A b \in Batches :
         /\ batch[b].phase \in {"none", "working", "audited", "unsure", "dead"}
         /\ batch[b].codes \in [Records -> BatchCodes \cup {None}]
         /\ batch[b].tries \in 0..3
    /\ repair.phase \in {"none", "read", "writing", "clean", "drift", "failed"}
    /\ repair.held \in Records \cup {None}

(* A stored verdict is of the stored figure: no repair, however late, puts *)
(* the judgement of an older figure beside a new one.                      *)
VerdictOfItsFigure ==
    \A r \in Records :
        /\ verdict[r].priors = None <=> figure[r] = None
        /\ verdict[r].total # None => verdict[r].anomalous = Deviates(figure[r], verdict[r].total)

(* A bulk submit answers every id it was asked for, once.                  *)
EveryIdAnswered ==
    \A b \in Batches : Done(b) =>
        \A r \in batch[b].asked : (r \in batch[b].sent) # (batch[b].codes[r] # None)

(* Undisturbed, it leaves the verdicts that a submit of each record alone, *)
(* in calendar order, leaves - "the outcome is reproducible".              *)
BatchVerdictsStand ==
    \A b \in Batches : Done(b) /\ batch[b].calm =>
        \A r \in batch[b].sent : status[r] = "submitted" => verdict[r] = Fresh(r)

(* One row in the audit log, of what the caller was told, however often    *)
(* its write was tried; and one at least when the caller was not misled.   *)
BatchAuditedOnce ==
    \A b \in Batches :
        /\ Cardinality(batchRows[b]) <= 1
        /\ batch[b].phase = "audited" => batchRows[b] = {Row(b)}

(* A repair that reports no drift left none, if nothing else was written.  *)
CleanRepairIsFresh ==
    repair.phase = "clean" /\ repair.calm =>
        \A r \in Records : Scored(r) => verdict[r] = Fresh(r)

(* A bulk submit answers every id once, and undisturbed it leaves the      *)
(* verdicts that a submit of each record alone, in calendar order, leaves; *)
(* its audit row tells what it told the caller.  A verdict, whoever wrote  *)
(* it, is of its figure, and a clean repair leaves none that is stale.     *)
BatchStandsForItsRecords ==
    /\ EveryIdAnswered /\ BatchVerdictsStand /\ BatchAuditedOnce
    /\ VerdictOfItsFigure /\ CleanRepairIsFresh

(* "`draft` only.  A `rejected` record reverses a reviewer's decision, and *)
(* this route is not a mass-reversal endpoint."                            *)
DraftsOnly ==
    [][\A b \in Batches : \A r \in batch'[b].sent \ batch[b].sent : status[r] = "draft"]_batchVars

(* "This record could not be submitted. Its status is unchanged."          *)
UnexpectedMeansUnchanged ==
    [][\A b \in Batches, r \in Records :
         batch'[b].codes[r] # batch[b].codes[r] /\ batch'[b].codes[r] = "unexpected"
            => status'[r] = status[r]]_batchVars

(* "any record inside a LOCKED PERIOD, whatever its status" is not touched. *)
ClosedPeriodsUntouched ==
    [][\A r \in Records : Place[r] \in locked => verdict'[r] = verdict[r]]_batchVars

=============================================================================
