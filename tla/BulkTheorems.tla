----------------------------- MODULE BulkTheorems ----------------------------
(***************************************************************************)
(* Figures that come in many at a time, for any number of records, callers *)
(* and failures.                                                           *)
(*                                                                         *)
(* A bulk submit answers every id once and its audit row says what it      *)
(* answered; a batch that nothing disturbs leaves the verdicts that one    *)
(* submit each would; a verdict is of its record's figure, and a clean     *)
(* repair that nothing disturbs leaves none that is stale.                 *)
(*                                                                         *)
(* An import's report names every row of the file once and tells what was  *)
(* written; and while nothing else writes and nothing fails, a dry run     *)
(* reports what the apply will do.                                         *)
(***************************************************************************)
EXTENDS BatchSubmit, BulkImport, FiniteSetTheorems, WellFoundedInduction, TLAPS

-----------------------------------------------------------------------------
(* Verdicts.  A record's is a matter of its figure and of the committed    *)
(* records of its series before it.                                        *)

JudgesFigure(v, f) ==
    /\ v.priors = None <=> f = None
    /\ v.total # None => v.anomalous = Deviates(f, v.total)

LEMMA VerdictJudges ==
    ASSUME BatchAssumption, NEW r \in Records, NEW st, NEW fig
    PROVE  JudgesFigure(VerdictOf(r, st, fig), fig[r])
<1> DEFINE used == {q \in InWindow(r, st) : fig[q] # None}
           total == Total(fig, used)
<1>1. Cardinality(used) \in Nat
  <2>1. used \subseteq Records
    BY DEF InWindow, Priors
  <2>2. IsFiniteSet(Records)
    BY DEF BatchAssumption, BaselineAssumption
  <2> QED
    BY <2>1, <2>2, FS_Subset, FS_CardinalityType
<1>2. None \notin Nat /\ Window \in Nat
  BY DEF BatchAssumption, BaselineAssumption
<1>3. VerdictOf(r, st, fig) =
        IF fig[r] = None THEN NotEvaluated(None)
        ELSE IF Cardinality(used) < Window THEN NotEvaluated(Cardinality(used))
        ELSE [anomalous |-> Deviates(fig[r], total), priors |-> Window, total |-> total]
  BY DEF VerdictOf
<1> HIDE DEF used, total
<1>4. CASE fig[r] = None
  BY <1>3, <1>4 DEF JudgesFigure, NotEvaluated
<1>5. CASE fig[r] # None /\ Cardinality(used) < Window
  BY <1>1, <1>2, <1>3, <1>5 DEF JudgesFigure, NotEvaluated
<1>6. CASE fig[r] # None /\ ~(Cardinality(used) < Window)
  BY <1>2, <1>3, <1>6 DEF JudgesFigure
<1> QED
  BY <1>4, <1>5, <1>6

LEMMA SamePriors ==
    ASSUME NEW r \in Records, NEW st1, NEW st2, NEW fig,
           \A q \in Records : Place[q] < Place[r] => (st1[q] \in Counted <=> st2[q] \in Counted)
    PROVE  VerdictOf(r, st2, fig) = VerdictOf(r, st1, fig)
<1>1. Priors(r, st1) = Priors(r, st2)
  BY DEF Priors
<1>2. InWindow(r, st1) = InWindow(r, st2)
  BY <1>1 DEF InWindow
<1> QED
  BY <1>2 DEF VerdictOf

-----------------------------------------------------------------------------
(* What the variables are.  Nothing is said of a verdict but that there    *)
(* is one: its total is a sum.                                             *)

BatchType ==
    [phase : {"none", "working", "audited", "unsure", "dead"},
     asked : SUBSET Records, todo : SUBSET Records, sent : SUBSET Records,
     codes : [Records -> BatchCodes \cup {None}], tries : Nat, calm : BOOLEAN]
RepairType(x) ==
    [phase : {"none", "read", "writing", "clean", "drift", "failed"}, new : {x.new},
     todo : SUBSET Records, held : Records \cup {None}, same : SUBSET Records, left : Nat,
     calm : BOOLEAN]

BatchDomains ==
    /\ status \in [Records -> Statuses]
    /\ figure \in [Records -> Figures \cup {None}]
    /\ reason \in [Records -> BOOLEAN]
    /\ verdict = [r \in Records |-> verdict[r]]
    /\ batch \in [Batches -> BatchType]
    /\ batchRows = [b \in Batches |-> batchRows[b]]
    /\ repair \in RepairType(repair)

-----------------------------------------------------------------------------
(* The steps, in five kinds.                                               *)

OtherThan(r) == Records \ {r}
RecordsBut(r) ==
    /\ \A q \in OtherThan(r) : status'[q] = status[q] /\ figure'[q] = figure[q] /\ verdict'[q] = verdict[q]

(* A single request writes one record, and stirs all who read before.      *)
Stirred(r) ==
    /\ RecordsBut(r) /\ Stirs(Batches, r) /\ UNCHANGED batchRows
    /\ JudgesFigure(verdict'[r], figure'[r]) \/ (verdict'[r] = verdict[r] /\ figure'[r] = figure[r])

(* A submit of a batch.                                                    *)
Sends(b, r, sent, code) ==
    /\ InPhase(b, "working") /\ NextUp(b, r)
    /\ Submits(r) /\ Tells(b, r, sent, code) /\ UNCHANGED batchRows
    /\ \/ sent = {r} /\ code = None
       \/ sent = {} /\ code \in BatchCodes

(* A batch goes on without a write of a record.                            *)
BatchOnly == UNCHANGED <<recordVars, repair>>

RepairOnly == UNCHANGED <<status, figure, reason, batch, batchRows>>

LEMMA RefusesWithCode ==
    ASSUME NEW r, NEW who
    PROVE  Refusal(r, who) \in BatchCodes \cup {None}
  BY DEF Refusal, BatchCodes

LEMMA SingleWrites ==
    ASSUME BatchAssumption, BatchDomains,
           \/ \E r \in Records, f \in Figures, why \in Reasons : Save(r, f, why)
           \/ \E r \in Records : RemoveDraft(r) \/ Review(r) \/ Void(r) \/ SubmitAlone(r)
    PROVE  /\ \E r \in Records : Stirred(r)
           /\ status' \in [Records -> Statuses] /\ figure' \in [Records -> Figures \cup {None}]
           /\ reason' \in [Records -> BOOLEAN] /\ verdict' = [r \in Records |-> verdict'[r]]
<1>0. /\ status \in [Records -> Statuses] /\ figure \in [Records -> Figures \cup {None}]
      /\ reason \in [Records -> BOOLEAN] /\ verdict = [r \in Records |-> verdict[r]]
      /\ Reasons \subseteq BOOLEAN
  BY DEF BatchDomains, BatchAssumption
<1>1. ASSUME NEW r \in Records, NEW f \in Figures, NEW why \in Reasons, Save(r, f, why)
      PROVE  /\ Stirred(r) /\ status' \in [Records -> Statuses] /\ figure' \in [Records -> Figures \cup {None}]
             /\ reason' \in [Records -> BOOLEAN] /\ verdict' = [q \in Records |-> verdict'[q]]
  <2> DEFINE next == IF status[r] = "absent" THEN "draft" ELSE status[r]
  <2>1. /\ status' = [status EXCEPT ![r] = next] /\ next \in Statuses
        /\ figure' = [figure EXCEPT ![r] = f] /\ reason' = [reason EXCEPT ![r] = why]
        /\ verdict' = [verdict EXCEPT ![r] = VerdictOf(r, status, figure')]
        /\ Stirs(Batches, r) /\ UNCHANGED batchRows
    BY <1>0, <1>1 DEF Save, Moves, Statuses
  <2> HIDE DEF next
  <2>2. figure'[r] = f /\ verdict'[r] = VerdictOf(r, status, figure')
    BY <1>0, <2>1
  <2>3. JudgesFigure(verdict'[r], figure'[r])
    BY <2>2, VerdictJudges
  <2>4. RecordsBut(r)
    BY <1>0, <2>1 DEF RecordsBut, OtherThan
  <2>5. status' \in [Records -> Statuses] /\ figure' \in [Records -> Figures \cup {None}]
        /\ reason' \in [Records -> BOOLEAN] /\ verdict' = [q \in Records |-> verdict'[q]]
    BY <1>0, <2>1
  <2> QED
    BY <2>1, <2>3, <2>4, <2>5 DEF Stirred
<1>2. ASSUME NEW r \in Records, RemoveDraft(r) \/ Review(r) \/ Void(r)
      PROVE  /\ Stirred(r) /\ status' \in [Records -> Statuses] /\ figure' \in [Records -> Figures \cup {None}]
             /\ reason' \in [Records -> BOOLEAN] /\ verdict' = [q \in Records |-> verdict'[q]]
  <2>1. PICK next \in {"removed", "approved", "rejected", "voided"} : status' = [status EXCEPT ![r] = next]
    BY <1>2 DEF RemoveDraft, Review, Void, Moves
  <2>2. UNCHANGED <<figure, reason, verdict, batchRows>> /\ Stirs(Batches, r)
    BY <1>2 DEF RemoveDraft, Review, Void
  <2>3. next \in Statuses
    BY DEF Statuses
  <2> QED
    BY <1>0, <2>1, <2>2, <2>3 DEF Stirred, RecordsBut, OtherThan
<1>3. ASSUME NEW r \in Records, SubmitAlone(r)
      PROVE  /\ Stirred(r) /\ status' \in [Records -> Statuses] /\ figure' \in [Records -> Figures \cup {None}]
             /\ reason' \in [Records -> BOOLEAN] /\ verdict' = [q \in Records |-> verdict'[q]]
  <2>1. /\ status' = [status EXCEPT ![r] = "submitted"] /\ verdict' = [verdict EXCEPT ![r] = Fresh(r)]
        /\ UNCHANGED <<figure, reason, batchRows>> /\ Stirs(Batches, r)
    BY <1>3 DEF SubmitAlone, Submits, Judged, Moves
  <2>2. verdict'[r] = Fresh(r) /\ figure'[r] = figure[r]
    BY <1>0, <2>1
  <2>3. JudgesFigure(verdict'[r], figure'[r])
    BY <2>2, VerdictJudges DEF Fresh
  <2>4. "submitted" \in Statuses
    BY DEF Statuses
  <2>5. RecordsBut(r) /\ status' \in [Records -> Statuses] /\ verdict' = [q \in Records |-> verdict'[q]]
    BY <1>0, <2>1, <2>4 DEF RecordsBut, OtherThan
  <2> QED
    BY <1>0, <2>1, <2>3, <2>5 DEF Stirred
<1> QED
  BY <1>1, <1>2, <1>3

(* What a submit does, of a batch or alone.                                *)
LEMMA SubmitsOne ==
    ASSUME BatchDomains, NEW r \in Records, Submits(r)
    PROVE  /\ status'[r] = "submitted" /\ verdict'[r] = Fresh(r) /\ UNCHANGED figure
           /\ RecordsBut(r)
           /\ status' \in [Records -> Statuses] /\ verdict' = [q \in Records |-> verdict'[q]]
           /\ reason' \in [Records -> BOOLEAN]
<1>1. status \in [Records -> Statuses] /\ verdict = [q \in Records |-> verdict[q]] /\ reason \in [Records -> BOOLEAN]
  BY DEF BatchDomains
<1>2. /\ status' = [status EXCEPT ![r] = "submitted"] /\ verdict' = [verdict EXCEPT ![r] = Fresh(r)]
      /\ UNCHANGED <<figure, reason>> /\ "submitted" \in Statuses
  BY DEF Submits, Judged, Moves, Statuses
<1> QED
  BY <1>1, <1>2 DEF RecordsBut, OtherThan

LEMMA BatchWrites ==
    ASSUME BatchAssumption, NEW b \in Batches, NEW r \in Records, SubmitNext(b, r) \/ SubmitFails(b, r)
    PROVE  \/ Sends(b, r, {r}, None) \/ Sends(b, r, {}, "unexpected")
           \/ /\ BatchOnly /\ UNCHANGED batchRows /\ InPhase(b, "working") /\ NextUp(b, r)
              /\ \E code \in BatchCodes : batch' = [batch EXCEPT ![b] = Answers(b, r, {}, code)]
<1>1. SubmitFaults \subseteq BatchCodes /\ "unexpected" \in BatchCodes
  BY DEF BatchAssumption, BatchCodes
<1>2. CASE SubmitNext(b, r)
  BY <1>2, RefusesWithCode DEF SubmitNext, Sends, BatchOnly
<1>3. CASE SubmitFails(b, r)
  BY <1>1, <1>3 DEF SubmitFails, Sends, BatchOnly
<1> QED
  BY <1>2, <1>3

LEMMA StirsTyped ==
    ASSUME BatchDomains, NEW r \in Records, Stirs(Batches, r)
    PROVE  /\ batch' \in [Batches -> BatchType] /\ repair' \in RepairType(repair')
           /\ \A b \in Batches :
                /\ batch'[b].calm = FALSE
                /\ batch'[b].phase = batch[b].phase /\ batch'[b].asked = batch[b].asked
                /\ batch'[b].todo = batch[b].todo /\ batch'[b].sent = batch[b].sent
                /\ batch'[b].codes = batch[b].codes
           /\ repair'.same = repair.same \ {r} /\ repair'.calm = FALSE
           /\ repair'.phase = repair.phase /\ repair'.new = repair.new
           /\ repair'.todo = repair.todo /\ repair'.held = repair.held /\ repair'.left = repair.left
<1>0. batch \in [Batches -> BatchType] /\ repair \in RepairType(repair)
  BY DEF BatchDomains
<1>1. batch' = [b \in Batches |-> [batch[b] EXCEPT !.calm = @ /\ b \notin Batches]]
  BY DEF Stirs
<1>2. ASSUME NEW b \in Batches
      PROVE  /\ batch'[b] \in BatchType /\ batch'[b].calm = FALSE
             /\ batch'[b].phase = batch[b].phase /\ batch'[b].asked = batch[b].asked
             /\ batch'[b].todo = batch[b].todo /\ batch'[b].sent = batch[b].sent
             /\ batch'[b].codes = batch[b].codes
  <2>1. batch[b] \in BatchType /\ batch'[b] = [batch[b] EXCEPT !.calm = FALSE]
    BY <1>0, <1>1 DEF BatchType
  <2> QED
    BY <2>1 DEF BatchType
<1>3. repair' = [repair EXCEPT !.same = @ \ {r}, !.calm = FALSE]
  BY DEF Stirs
<1>4. /\ repair' \in RepairType(repair')
      /\ repair'.same = repair.same \ {r} /\ repair'.calm = FALSE
      /\ repair'.phase = repair.phase /\ repair'.new = repair.new
      /\ repair'.todo = repair.todo /\ repair'.held = repair.held /\ repair'.left = repair.left
  BY <1>0, <1>3 DEF RepairType
<1>5. batch' \in [Batches -> BatchType]
  BY <1>1, <1>2
<1> QED
  BY <1>2, <1>4, <1>5

LEMMA AnswersTyped ==
    ASSUME BatchDomains, NEW b \in Batches, NEW r \in Records, NEW sent, sent \subseteq Records,
           NEW code \in BatchCodes \cup {None}
    PROVE  /\ Answers(b, r, sent, code) \in BatchType
           /\ Answers(b, r, sent, code).phase = batch[b].phase
           /\ Answers(b, r, sent, code).asked = batch[b].asked
           /\ Answers(b, r, sent, code).todo = batch[b].todo \ {r}
           /\ Answers(b, r, sent, code).sent = batch[b].sent \cup sent
           /\ Answers(b, r, sent, code).codes = [batch[b].codes EXCEPT ![r] = code]
           /\ Answers(b, r, sent, code).calm = batch[b].calm
<1>1. batch[b] \in BatchType
  BY DEF BatchDomains
<1> QED
  BY <1>1 DEF Answers, BatchType

LEMMA TellsTyped ==
    ASSUME BatchDomains, NEW b \in Batches, NEW r \in Records, NEW sent, sent \subseteq Records,
           NEW code \in BatchCodes \cup {None}, Tells(b, r, sent, code)
    PROVE  /\ batch' \in [Batches -> BatchType] /\ repair' \in RepairType(repair')
           /\ batch'[b] = Answers(b, r, sent, code)
           /\ \A x \in Batches \ {b} :
                /\ batch'[x].calm = FALSE
                /\ batch'[x].phase = batch[x].phase /\ batch'[x].asked = batch[x].asked
                /\ batch'[x].todo = batch[x].todo /\ batch'[x].sent = batch[x].sent
                /\ batch'[x].codes = batch[x].codes
           /\ repair'.same = repair.same \ {r} /\ repair'.calm = FALSE
           /\ repair'.phase = repair.phase /\ repair'.new = repair.new
           /\ repair'.todo = repair.todo /\ repair'.held = repair.held /\ repair'.left = repair.left
<1>0. batch \in [Batches -> BatchType] /\ repair \in RepairType(repair)
  BY DEF BatchDomains
<1> DEFINE own == Answers(b, r, sent, code)
<1>1. own \in BatchType
  BY AnswersTyped
<1> HIDE DEF own
<1>2. batch' = [x \in Batches |-> IF x = b THEN own ELSE [batch[x] EXCEPT !.calm = FALSE]]
  BY DEF Tells, own
<1>3. ASSUME NEW x \in Batches \ {b}
      PROVE  /\ batch'[x] \in BatchType /\ batch'[x].calm = FALSE
             /\ batch'[x].phase = batch[x].phase /\ batch'[x].asked = batch[x].asked
             /\ batch'[x].todo = batch[x].todo /\ batch'[x].sent = batch[x].sent
             /\ batch'[x].codes = batch[x].codes
  <2>1. batch[x] \in BatchType /\ batch'[x] = [batch[x] EXCEPT !.calm = FALSE]
    BY <1>0, <1>2
  <2> QED
    BY <2>1 DEF BatchType
<1>4. batch'[b] = own
  BY <1>2
<1>5. \A x \in Batches : batch'[x] \in BatchType
  BY <1>1, <1>3, <1>4
<1>6. batch' \in [Batches -> BatchType]
  BY <1>2, <1>5
<1>7. repair' = [repair EXCEPT !.same = @ \ {r}, !.calm = FALSE]
  BY DEF Tells
<1>8. /\ repair' \in RepairType(repair')
      /\ repair'.same = repair.same \ {r} /\ repair'.calm = FALSE
      /\ repair'.phase = repair.phase /\ repair'.new = repair.new
      /\ repair'.todo = repair.todo /\ repair'.held = repair.held /\ repair'.left = repair.left
  BY <1>0, <1>7 DEF RepairType
<1> QED
  BY <1>3, <1>4, <1>6, <1>8 DEF own

LEMMA RepairTyped ==
    ASSUME BatchAssumption, BatchDomains, Repair
    PROVE  verdict' = [r \in Records |-> verdict'[r]] /\ repair' \in RepairType(repair')
<1>0. repair \in RepairType(repair) /\ verdict = [r \in Records |-> verdict[r]]
  BY DEF BatchDomains
<1>1. \A S \in SUBSET Records : Cardinality(S) \in Nat
  BY FS_Subset, FS_CardinalityType DEF BatchAssumption, BaselineAssumption
<1>2. CASE ReadRecords
  <2> DEFINE stale == {r \in Records : Scored(r) /\ verdict[r] # Fresh(r)}
             new == [r \in Records |-> IF r \in stale THEN Fresh(r) ELSE None]
             todo == {r \in stale : status[r] \in Rewritable}
             left == Cardinality({r \in stale : status[r] \notin Rewritable})
  <2>1. todo \in SUBSET Records /\ left \in Nat
    BY <1>1
  <2>2. repair' = [NoRepair EXCEPT !.phase = "read", !.new = new, !.todo = todo, !.left = left] /\ UNCHANGED verdict
    BY <1>2 DEF ReadRecords, recordVars
  <2> HIDE DEF stale, new, todo, left
  <2> QED
    BY <1>0, <2>1, <2>2 DEF RepairType, NoRepair
<1>3. CASE ReadLocks
  <2> DEFINE shut == {r \in repair.todo : Place[r] \in locked}
             n == Cardinality(shut)
  <2>1. n \in Nat
    BY <1>0, <1>1 DEF RepairType
  <2>2. repair' = [repair EXCEPT !.phase = "writing", !.todo = @ \ shut, !.left = @ + n] /\ UNCHANGED verdict
    BY <1>3 DEF ReadLocks, recordVars
  <2> HIDE DEF shut, n
  <2>3. repair.todo \ shut \in SUBSET Records /\ repair.left + n \in Nat
    BY <1>0, <2>1 DEF RepairType
  <2>4. repair'.new = repair.new
    BY <1>0, <2>2 DEF RepairType
  <2>5. repair' \in RepairType(repair')
    BY <1>0, <2>2, <2>3, <2>4 DEF RepairType
  <2> QED
    BY <1>0, <2>2, <2>5
<1>4. ASSUME NEW r \in Records, LookForLock(r)
      PROVE  UNCHANGED verdict /\ repair' \in RepairType(repair')
  <2>1. UNCHANGED verdict
    BY <1>4 DEF LookForLock, recordVars
  <2>2. repair.todo \ {r} \in SUBSET Records /\ repair.left + 1 \in Nat
    BY <1>0 DEF RepairType
  <2>3. CASE Place[r] \in locked
    <3>1. repair' = [repair EXCEPT !.todo = @ \ {r}, !.left = @ + 1]
      BY <1>4, <2>3 DEF LookForLock
    <3>2. repair'.new = repair.new
      BY <1>0, <3>1 DEF RepairType
    <3>3. repair' \in RepairType(repair')
      BY <1>0, <2>2, <3>1, <3>2 DEF RepairType
    <3> QED
      BY <2>1, <3>3
  <2>4. CASE Place[r] \notin locked
    <3>1. repair' = [repair EXCEPT !.todo = @ \ {r}, !.held = r]
      BY <1>4, <2>4 DEF LookForLock
    <3>2. repair'.new = repair.new
      BY <1>0, <3>1 DEF RepairType
    <3>3. repair' \in RepairType(repair')
      BY <1>0, <2>2, <3>1, <3>2 DEF RepairType
    <3> QED
      BY <2>1, <3>3
  <2> QED
    BY <2>3, <2>4
<1>5. CASE Rewrite
  <2> DEFINE h == repair.held
  <2>1. h \in Records
    BY <1>0, <1>5 DEF Rewrite, RepairType
  <2>2. \/ /\ verdict' = [verdict EXCEPT ![h] = repair.new[h]]
           /\ repair' = [repair EXCEPT !.held = None, !.same = @ \ {h}]
        \/ /\ repair' = [repair EXCEPT !.held = None, !.left = @ + 1]
           /\ UNCHANGED verdict
    BY <1>5 DEF Rewrite
  <2> HIDE DEF h
  <2>3. verdict' = [r \in Records |-> verdict'[r]]
    BY <1>0, <2>1, <2>2
  <2>4. repair.same \ {h} \in SUBSET Records /\ repair.left + 1 \in Nat
    BY <1>0 DEF RepairType
  <2>5. CASE repair' = [repair EXCEPT !.held = None, !.same = @ \ {h}]
    <3>1. repair'.new = repair.new
      BY <1>0, <2>5 DEF RepairType
    <3>2. repair' \in RepairType(repair')
      BY <1>0, <2>4, <2>5, <3>1 DEF RepairType
    <3> QED
      BY <2>3, <3>2
  <2>6. CASE repair' = [repair EXCEPT !.held = None, !.left = @ + 1]
    <3>1. repair'.new = repair.new
      BY <1>0, <2>6 DEF RepairType
    <3>2. repair' \in RepairType(repair')
      BY <1>0, <2>4, <2>6, <3>1 DEF RepairType
    <3> QED
      BY <2>3, <3>2
  <2> QED
    BY <2>2, <2>5, <2>6
<1>6. CASE RepairEnds \/ RepairFails
  BY <1>0, <1>6 DEF RepairEnds, RepairFails, RepairType, recordVars
<1> QED
  BY <1>0, <1>2, <1>3, <1>4, <1>5, <1>6 DEF Repair

-----------------------------------------------------------------------------
(* A batch's report.  An id that is still to do has no answer, any other   *)
(* has one; an audit row is of the report, which is complete by then.      *)

AnsweredFor(b) ==
    /\ batch[b].todo \subseteq batch[b].asked
    /\ \A r \in batch[b].todo : r \notin batch[b].sent /\ batch[b].codes[r] = None
    /\ \A r \in batch[b].asked \ batch[b].todo : (r \in batch[b].sent) # (batch[b].codes[r] # None)
    /\ Done(b) => batch[b].todo = {}
AuditedFor(b) ==
    /\ batchRows[b] # {} => batchRows[b] = {Row(b)} /\ batch[b].todo = {} /\ ~InPhase(b, "none")
    /\ InPhase(b, "audited") => batchRows[b] # {}

ReportInv == BatchDomains /\ \A b \in Batches : AnsweredFor(b) /\ AuditedFor(b)

LEMMA PreflightSteps ==
    ASSUME BatchAssumption, ReportInv, NEW b \in Batches, NEW asked \in SUBSET Records, Preflight(b, asked)
    PROVE  /\ batch' \in [Batches -> BatchType]
           /\ \A x \in Batches \ {b} : batch'[x] = batch[x]
           /\ AnsweredFor(b)' /\ AuditedFor(b)'
           /\ batch'[b].sent = {}
<1>0. batch \in [Batches -> BatchType] /\ None \notin BatchCodes
  BY DEF ReportInv, BatchDomains, BatchAssumption
<1> DEFINE eligible == {r \in asked : TurnedAway(b, r) = None}
           answered == [r \in Records |-> IF r \in asked THEN TurnedAway(b, r) ELSE None]
           late == AllLate(b, asked)
<1>1. Unsent \in BatchType
  BY DEF Unsent, BatchType
<1>2. \A r : TurnedAway(b, r) \in BatchCodes \cup {None}
  BY DEF TurnedAway, BatchCodes
<1>3. /\ answered \in [Records -> BatchCodes \cup {None}]
      /\ \A r \in eligible : answered[r] = None
      /\ \A r \in asked \ eligible : answered[r] # None
      /\ eligible \in SUBSET asked
  BY <1>2
<1>4. late \in [Records -> BatchCodes \cup {None}] /\ \A r \in asked : late[r] # None
  BY <1>0 DEF AllLate, BatchCodes
<1> HIDE DEF eligible, answered, late
<1>5. batchRows[b] = {} /\ UNCHANGED batchRows
  BY DEF Preflight, ReportInv, AuditedFor, InPhase
<1>6. ASSUME NEW own \in BatchType, batch' = [batch EXCEPT ![b] = own],
             own.phase = "working", own.asked = asked, own.todo \in SUBSET asked, own.sent = {},
             \A r \in own.todo : own.codes[r] = None,
             \A r \in asked \ own.todo : own.codes[r] # None
      PROVE  /\ batch' \in [Batches -> BatchType]
             /\ \A x \in Batches \ {b} : batch'[x] = batch[x]
             /\ AnsweredFor(b)' /\ AuditedFor(b)'
             /\ batch'[b].sent = {}
  <2>1. batch'[b] = own /\ batch' \in [Batches -> BatchType] /\ \A x \in Batches \ {b} : batch'[x] = batch[x]
    BY <1>0, <1>6
  <2>2. /\ batch'[b].todo \subseteq batch'[b].asked
        /\ \A r \in batch'[b].todo : r \notin batch'[b].sent /\ batch'[b].codes[r] = None
        /\ ~(batch'[b].phase \in {"audited", "unsure"})
    BY <1>6, <2>1
  <2>3. ASSUME NEW r \in batch'[b].asked \ batch'[b].todo
        PROVE  (r \in batch'[b].sent) # (batch'[b].codes[r] # None)
    BY <1>6, <2>1
  <2>4. AnsweredFor(b)'
    BY <2>2, <2>3 DEF AnsweredFor, Done
  <2>5. AuditedFor(b)'
    BY <1>5, <1>6, <2>1 DEF AuditedFor, InPhase
  <2> QED
    BY <1>6, <2>1, <2>4, <2>5
<1>7. CASE batch' = [batch EXCEPT ![b] = [Unsent EXCEPT
             !.phase = "working", !.asked = asked, !.todo = eligible, !.codes = answered]]
  <2> DEFINE own == [Unsent EXCEPT !.phase = "working", !.asked = asked, !.todo = eligible, !.codes = answered]
  <2>1. /\ own \in BatchType /\ own.phase = "working" /\ own.asked = asked /\ own.todo = eligible
        /\ own.codes = answered /\ own.sent = {}
    BY <1>1, <1>3 DEF BatchType, Unsent
  <2>2. batch' = [batch EXCEPT ![b] = own]
    BY <1>7
  <2> HIDE DEF own
  <2> QED
    BY <1>3, <1>6, <2>1, <2>2
<1>8. CASE batch' = [batch EXCEPT ![b] = [Unsent EXCEPT
             !.phase = "working", !.asked = asked, !.codes = late]]
  <2> DEFINE own == [Unsent EXCEPT !.phase = "working", !.asked = asked, !.codes = late]
  <2>1. /\ own \in BatchType /\ own.phase = "working" /\ own.asked = asked /\ own.todo = {}
        /\ own.codes = late /\ own.sent = {}
    BY <1>1, <1>4 DEF BatchType, Unsent
  <2>2. batch' = [batch EXCEPT ![b] = own]
    BY <1>8
  <2> HIDE DEF own
  <2> QED
    BY <1>4, <1>6, <2>1, <2>2
<1> QED
  BY <1>7, <1>8 DEF Preflight, eligible, answered, late

(* A record of a batch is answered.                                        *)
LEMMA AnsweringSteps ==
    ASSUME BatchAssumption, ReportInv, NEW b \in Batches, NEW r \in Records, InPhase(b, "working"),
           r \in batch[b].todo, UNCHANGED batchRows,
           NEW sent, NEW code, (sent = {r} /\ code = None) \/ (sent = {} /\ code \in BatchCodes),
           batch'[b] = Answers(b, r, sent, code)
    PROVE  AnsweredFor(b)' /\ AuditedFor(b)'
<1>0. batch[b] \in BatchType /\ None \notin BatchCodes /\ AnsweredFor(b) /\ AuditedFor(b)
  BY DEF ReportInv, BatchDomains, BatchAssumption
<1>1. sent \subseteq Records /\ code \in BatchCodes \cup {None} /\ BatchDomains
  BY DEF ReportInv
<1>2. /\ batch'[b].phase = "working" /\ batch'[b].asked = batch[b].asked
      /\ batch'[b].todo = batch[b].todo \ {r} /\ batch'[b].sent = batch[b].sent \cup sent
      /\ batch'[b].codes = [batch[b].codes EXCEPT ![r] = code]
  <2>1. batch[b].phase = "working"
    BY DEF InPhase
  <2>2. /\ Answers(b, r, sent, code).phase = batch[b].phase
        /\ Answers(b, r, sent, code).asked = batch[b].asked
        /\ Answers(b, r, sent, code).todo = batch[b].todo \ {r}
        /\ Answers(b, r, sent, code).sent = batch[b].sent \cup sent
        /\ Answers(b, r, sent, code).codes = [batch[b].codes EXCEPT ![r] = code]
    BY <1>0, <1>1 DEF Answers, BatchType
  <2> QED
    BY <2>1, <2>2
<1>3. batch[b].codes \in [Records -> BatchCodes \cup {None}] /\ batch[b].asked \in SUBSET Records
  BY <1>0 DEF BatchType
<1>4. batch'[b].codes[r] = code /\ \A q \in Records \ {r} : batch'[b].codes[q] = batch[b].codes[q]
  BY <1>2, <1>3
<1>5. AnsweredFor(b)'
  <2>1. \A q \in batch'[b].todo : q \notin batch'[b].sent /\ batch'[b].codes[q] = None
    BY <1>0, <1>2, <1>3, <1>4 DEF AnsweredFor
  <2>2. ASSUME NEW q \in batch'[b].asked \ batch'[b].todo
        PROVE  (q \in batch'[b].sent) # (batch'[b].codes[q] # None)
    <3>1. CASE q = r
      BY <1>0, <1>2, <1>4, <3>1 DEF AnsweredFor
    <3>2. CASE q # r
      BY <1>0, <1>2, <1>3, <1>4, <3>2 DEF AnsweredFor
    <3> QED
      BY <3>1, <3>2
  <2> QED
    BY <1>0, <1>2, <2>1, <2>2 DEF AnsweredFor, Done
<1>6. AuditedFor(b)'
  BY <1>0, <1>2 DEF AuditedFor, InPhase
<1> QED
  BY <1>5, <1>6

LEMMA ReportInitially == ASSUME BatchAssumption PROVE BatchInit => ReportInv
<1> SUFFICES ASSUME BatchInit PROVE ReportInv
  OBVIOUS
<1>1. Unsent \in BatchType /\ NoRepair \in RepairType(NoRepair)
  BY DEF Unsent, BatchType, NoRepair, RepairType
<1>2. batch \in [Batches -> BatchType] /\ \A b \in Batches : batch[b] = Unsent /\ batchRows[b] = {}
  BY <1>1 DEF BatchInit
<1>3. BatchDomains
  BY <1>1, <1>2 DEF BatchInit, BatchDomains, Statuses
<1>4. ASSUME NEW b \in Batches
      PROVE  AnsweredFor(b) /\ AuditedFor(b)
  BY <1>2 DEF AnsweredFor, AuditedFor, Unsent, Done, InPhase
<1> QED
  BY <1>3, <1>4 DEF ReportInv

LEMMA ReportSteps == ASSUME BatchAssumption PROVE ReportInv /\ [BatchNext]_batchVars => ReportInv'
<1> SUFFICES ASSUME ReportInv, [BatchNext]_batchVars
             PROVE  ReportInv'
  OBVIOUS
<1>0. /\ BatchDomains /\ \A b \in Batches : AnsweredFor(b) /\ AuditedFor(b)
      /\ status \in [Records -> Statuses] /\ figure \in [Records -> Figures \cup {None}]
      /\ reason \in [Records -> BOOLEAN] /\ verdict = [r \in Records |-> verdict[r]]
      /\ batch \in [Batches -> BatchType] /\ batchRows = [b \in Batches |-> batchRows[b]]
      /\ repair \in RepairType(repair)
  BY DEF ReportInv, BatchDomains
<1>1. ASSUME NEW b \in Batches, UNCHANGED batchRows,
             /\ batch'[b].phase = batch[b].phase /\ batch'[b].asked = batch[b].asked
             /\ batch'[b].todo = batch[b].todo /\ batch'[b].sent = batch[b].sent
             /\ batch'[b].codes = batch[b].codes
      PROVE  AnsweredFor(b)' /\ AuditedFor(b)'
  BY <1>0, <1>1 DEF AnsweredFor, AuditedFor, Done, InPhase, Row
<1>2. CASE \/ \E r \in Records, f \in Figures, why \in Reasons : Save(r, f, why)
           \/ \E r \in Records : RemoveDraft(r) \/ Review(r) \/ Void(r) \/ SubmitAlone(r)
  <2>1. PICK r \in Records : Stirred(r)
    BY <1>0, <1>2, SingleWrites
  <2>2. Stirs(Batches, r) /\ UNCHANGED batchRows
    BY <2>1 DEF Stirred
  <2>3. BatchDomains'
    BY <1>0, <1>2, <2>2, SingleWrites, StirsTyped DEF BatchDomains
  <2> QED
    BY <1>0, <1>1, <2>2, <2>3, StirsTyped DEF ReportInv
<1>3. ASSUME NEW p \in Periods, Close(p)
      PROVE  ReportInv'
  <2>1. /\ status' = [r \in Records |-> IF Place[r] = p /\ status[r] = "approved" THEN "locked" ELSE status[r]]
        /\ UNCHANGED <<figure, reason, verdict, batch, batchRows>>
        /\ repair' = [repair EXCEPT !.same = {r \in @ : status'[r] = status[r]}]
    BY <1>3 DEF Close
  <2>2. status' \in [Records -> Statuses]
    BY <1>0, <2>1 DEF Statuses
  <2>3. repair' \in RepairType(repair')
    BY <1>0, <2>1 DEF RepairType
  <2> QED
    BY <1>0, <1>1, <2>1, <2>2, <2>3 DEF ReportInv, BatchDomains
<1>4. ASSUME NEW b \in Batches, NEW asked \in SUBSET Records, Preflight(b, asked)
      PROVE  ReportInv'
  <2>1. UNCHANGED <<recordVars, batchRows, repair>>
    BY <1>4 DEF Preflight
  <2> QED
    BY <1>0, <1>1, <1>4, <2>1, PreflightSteps DEF ReportInv, BatchDomains, recordVars
<1>5. ASSUME NEW b \in Batches, NEW r \in Records, SubmitNext(b, r) \/ SubmitFails(b, r)
      PROVE  ReportInv'
  <2>1. ASSUME NEW sent, sent \subseteq Records, NEW code \in BatchCodes \cup {None}, Sends(b, r, sent, code)
        PROVE  ReportInv'
    <3>1. /\ InPhase(b, "working") /\ r \in batch[b].todo /\ Submits(r) /\ Tells(b, r, sent, code)
          /\ UNCHANGED batchRows /\ ((sent = {r} /\ code = None) \/ (sent = {} /\ code \in BatchCodes))
      BY <2>1 DEF Sends, NextUp
    <3>2. BatchDomains'
      BY <1>0, <3>1, SubmitsOne, TellsTyped DEF BatchDomains
    <3>3. AnsweredFor(b)' /\ AuditedFor(b)'
      <4>1. batch' = [x \in Batches |->
                         IF x = b THEN Answers(b, r, sent, code) ELSE [batch[x] EXCEPT !.calm = FALSE]]
        BY <3>1 DEF Tells
      <4>2. batch'[b] = Answers(b, r, sent, code)
        BY <4>1
      <4> QED
        BY <3>1, <4>2, AnsweringSteps
    <3>4. \A x \in Batches \ {b} : AnsweredFor(x)' /\ AuditedFor(x)'
      BY <1>0, <1>1, <3>1, TellsTyped
    <3> QED
      BY <3>2, <3>3, <3>4 DEF ReportInv
  <2>2. ASSUME BatchOnly, UNCHANGED batchRows, InPhase(b, "working"), NextUp(b, r),
               NEW code \in BatchCodes, batch' = [batch EXCEPT ![b] = Answers(b, r, {}, code)]
        PROVE  ReportInv'
    <3>1. Answers(b, r, {}, code) \in BatchType
      BY <1>0, AnswersTyped
    <3>2. /\ batch' \in [Batches -> BatchType] /\ batch'[b] = Answers(b, r, {}, code)
          /\ \A x \in Batches \ {b} : batch'[x] = batch[x]
      BY <1>0, <2>2, <3>1
    <3>3. AnsweredFor(b)' /\ AuditedFor(b)'
      BY <2>2, <3>2, AnsweringSteps DEF NextUp
    <3>4. \A x \in Batches \ {b} : AnsweredFor(x)' /\ AuditedFor(x)'
      BY <1>1, <2>2, <3>2
    <3>5. BatchDomains'
      BY <1>0, <2>2, <3>2 DEF BatchDomains, BatchOnly, recordVars
    <3> QED
      BY <3>3, <3>4, <3>5 DEF ReportInv
  <2>3. "unexpected" \in BatchCodes
    BY DEF BatchCodes
  <2> QED
    BY <1>5, <2>1, <2>2, <2>3, BatchWrites
<1>6. ASSUME NEW b \in Batches, UNCHANGED <<recordVars, repair>>,
             NEW own \in BatchType, batch' = [batch EXCEPT ![b] = own],
             AnsweredFor(b)' /\ AuditedFor(b)',
             batchRows' = [x \in Batches |-> batchRows'[x]],
             \A x \in Batches \ {b} : batchRows'[x] = batchRows[x]
      PROVE  ReportInv'
  <2>1. batch' \in [Batches -> BatchType] /\ \A x \in Batches \ {b} : batch'[x] = batch[x]
    BY <1>0, <1>6
  <2>2. \A x \in Batches \ {b} : AnsweredFor(x)' /\ AuditedFor(x)'
    BY <1>0, <1>6, <2>1 DEF AnsweredFor, AuditedFor, Done, InPhase, Row
  <2>3. BatchDomains'
    BY <1>0, <1>6, <2>1 DEF BatchDomains, recordVars
  <2> QED
    BY <1>6, <2>2, <2>3 DEF ReportInv
<1>7. ASSUME NEW b \in Batches, DeferRest(b)
      PROVE  ReportInv'
  <2> DEFINE codes == [r \in Records |-> IF r \in batch[b].todo THEN NotProcessed ELSE batch[b].codes[r]]
             own == [batch[b] EXCEPT !.todo = {}, !.codes = codes]
  <2>1. batch[b] \in BatchType /\ None \notin BatchCodes
    BY <1>0 DEF BatchAssumption
  <2>2. batch' = [batch EXCEPT ![b] = own] /\ UNCHANGED <<recordVars, batchRows, repair>> /\ InPhase(b, "working")
    BY <1>0, <1>7 DEF DeferRest
  <2>3. codes \in [Records -> BatchCodes \cup {None}]
    BY <2>1 DEF BatchCodes, BatchType
  <2>4. \A r \in Records : codes[r] = IF r \in batch[b].todo THEN NotProcessed ELSE batch[b].codes[r]
    OBVIOUS
  <2> HIDE DEF codes
  <2>5. own \in BatchType /\ own.phase = batch[b].phase /\ own.asked = batch[b].asked
        /\ own.todo = {} /\ own.sent = batch[b].sent /\ own.codes = codes
    BY <2>1, <2>3 DEF BatchType
  <2> HIDE DEF own
  <2>6. batch'[b] = own /\ batch[b].asked \in SUBSET Records
    BY <1>0, <2>1, <2>2 DEF BatchType
  <2>7. AnsweredFor(b)'
    <3>1. ASSUME NEW r \in batch[b].asked
          PROVE  (r \in batch[b].sent) # (codes[r] # None)
      BY <1>0, <2>1, <2>4, <2>6 DEF AnsweredFor, BatchCodes
    <3> QED
      BY <2>5, <2>6, <3>1 DEF AnsweredFor
  <2>8. batchRows[b] = {}
    BY <1>0, <1>7 DEF DeferRest, AuditedFor
  <2>9. AuditedFor(b)'
    BY <2>2, <2>5, <2>6, <2>8 DEF AuditedFor, InPhase
  <2> QED
    BY <1>0, <1>6, <2>2, <2>5, <2>7, <2>9
<1>8. ASSUME NEW b \in Batches, BatchDies(b)
      PROVE  ReportInv'
  <2> DEFINE own == [batch[b] EXCEPT !.phase = "dead"]
  <2>1. batch[b] \in BatchType /\ batch' = [batch EXCEPT ![b] = own] /\ UNCHANGED <<recordVars, batchRows, repair>>
    BY <1>0, <1>8 DEF BatchDies
  <2>2. own \in BatchType /\ own.phase = "dead" /\ own.asked = batch[b].asked
        /\ own.todo = batch[b].todo /\ own.sent = batch[b].sent /\ own.codes = batch[b].codes
    BY <2>1 DEF BatchType
  <2> HIDE DEF own
  <2>3. batch'[b] = own
    BY <1>0, <2>1
  <2>4. AnsweredFor(b)' /\ AuditedFor(b)'
    BY <1>0, <2>1, <2>2, <2>3 DEF AnsweredFor, AuditedFor, Done, InPhase, Row
  <2> QED
    BY <1>0, <1>6, <2>1, <2>2, <2>4
<1>9. ASSUME NEW b \in Batches, FinalizeBatch(b)
      PROVE  ReportInv'
  <2>1. PICK tries \in Nat, phase \in {"working", "audited", "unsure"} :
           /\ batch' = [batch EXCEPT ![b].tries = tries, ![b].phase = phase]
           /\ WritesRow(b) \/ UNCHANGED batchRows
           /\ phase = "audited" => WritesRow(b)
    <3>1. batch[b].tries + 1 \in Nat
      BY <1>0 DEF BatchType
    <3> QED
      BY <1>9, <3>1 DEF FinalizeBatch, Attempted
  <2>2. UNCHANGED <<recordVars, repair>> /\ InPhase(b, "working") /\ batch[b].todo = {} /\ batch[b] \in BatchType
    BY <1>0, <1>9 DEF FinalizeBatch
  <2> DEFINE own == [batch[b] EXCEPT !.tries = tries, !.phase = phase]
  <2>3. own \in BatchType /\ own.phase = phase /\ own.asked = batch[b].asked
        /\ own.todo = {} /\ own.sent = batch[b].sent /\ own.codes = batch[b].codes
    BY <2>2 DEF BatchType
  <2>4. batch' = [batch EXCEPT ![b] = own]
    BY <1>0, <2>1
  <2> HIDE DEF own
  <2>5. batch'[b] = own
    BY <1>0, <2>4
  <2>6. Row(b)' = Row(b)
    BY <2>3, <2>5 DEF Row
  <2>7. /\ batchRows' = [x \in Batches |-> batchRows'[x]]
        /\ \A x \in Batches \ {b} : batchRows'[x] = batchRows[x]
        /\ batchRows'[b] = batchRows[b] \/ (batchRows[b] = {} /\ batchRows'[b] = {Row(b)})
        /\ WritesRow(b) => batchRows'[b] # {}
    BY <1>0, <2>1 DEF WritesRow
  <2>8. AnsweredFor(b)'
    BY <1>0, <2>2, <2>3, <2>5 DEF AnsweredFor
  <2>9. AuditedFor(b)'
    BY <1>0, <2>1, <2>2, <2>3, <2>5, <2>6, <2>7 DEF AuditedFor, InPhase
  <2> QED
    BY <1>6, <2>2, <2>3, <2>4, <2>7, <2>8, <2>9
<1>10. CASE Repair
  <2>1. UNCHANGED <<status, figure, reason, batch, batchRows>>
    BY <1>10 DEF Repair, ReadRecords, ReadLocks, Rewrite, RepairEnds, RepairFails, LookForLock, recordVars
  <2>2. verdict' = [r \in Records |-> verdict'[r]] /\ repair' \in RepairType(repair')
    BY <1>0, <1>10, RepairTyped
  <2> QED
    BY <1>0, <1>1, <2>1, <2>2 DEF ReportInv, BatchDomains
<1>11. CASE UNCHANGED batchVars
  BY <1>0, <1>1, <1>11 DEF batchVars, recordVars, ReportInv, BatchDomains
<1> QED
  BY <1>2, <1>3, <1>4, <1>5, <1>7, <1>8, <1>9, <1>10, <1>11 DEF BatchNext, Single, Bulk

LEMMA ReportInvariant == ASSUME BatchAssumption PROVE BatchSpec => []ReportInv
<1> QED
  BY ReportInitially, ReportSteps, PTL DEF BatchSpec

-----------------------------------------------------------------------------
(* The kinds of a step, for what is said of verdicts.                      *)

(* What a batch that writes no record does to its lists.                   *)
Keeps(b) ==
    batch'[b].calm =>
        \/ batch[b].calm /\ batch'[b].sent = batch[b].sent /\ batch'[b].todo \subseteq batch[b].todo
        \/ batch'[b].sent = {}

LEMMA StepKinds ==
    ASSUME BatchAssumption, ReportInv, [BatchNext]_batchVars
    PROVE  \/ \E r \in Records : Stirred(r)
           \/ \E p \in Periods : Close(p)
           \/ \E b \in Batches, r \in Records : Sends(b, r, {r}, None) \/ Sends(b, r, {}, "unexpected")
           \/ BatchOnly /\ \A b \in Batches : Keeps(b)
           \/ Repair /\ RepairOnly
<1>0. BatchDomains /\ batch \in [Batches -> BatchType]
  BY DEF ReportInv, BatchDomains
<1>1. CASE \/ \E r \in Records, f \in Figures, why \in Reasons : Save(r, f, why)
           \/ \E r \in Records : RemoveDraft(r) \/ Review(r) \/ Void(r) \/ SubmitAlone(r)
  BY <1>0, <1>1, SingleWrites
<1>2. ASSUME NEW b \in Batches, NEW asked \in SUBSET Records, Preflight(b, asked)
      PROVE  BatchOnly /\ \A x \in Batches : Keeps(x)
  <2>1. BatchOnly
    BY <1>2 DEF Preflight, BatchOnly
  <2>2. batch'[b].sent = {} /\ \A x \in Batches \ {b} : batch'[x] = batch[x]
    BY <1>2, PreflightSteps
  <2> QED
    BY <2>1, <2>2 DEF Keeps
<1>3. ASSUME NEW b \in Batches, NEW r \in Records, SubmitNext(b, r) \/ SubmitFails(b, r)
      PROVE  \/ Sends(b, r, {r}, None) \/ Sends(b, r, {}, "unexpected")
             \/ BatchOnly /\ \A x \in Batches : Keeps(x)
  <2>1. ASSUME BatchOnly, NEW code \in BatchCodes, batch' = [batch EXCEPT ![b] = Answers(b, r, {}, code)]
        PROVE  \A x \in Batches : Keeps(x)
    <3>1. batch'[b] = Answers(b, r, {}, code) /\ \A x \in Batches \ {b} : batch'[x] = batch[x]
      BY <1>0, <2>1
    <3>2. /\ Answers(b, r, {}, code).todo = batch[b].todo \ {r}
          /\ Answers(b, r, {}, code).sent = batch[b].sent
          /\ Answers(b, r, {}, code).calm = batch[b].calm
      BY <1>0 DEF Answers, BatchType
    <3> QED
      BY <3>1, <3>2 DEF Keeps
  <2> QED
    BY <1>3, <2>1, BatchWrites
<1>4. ASSUME NEW b \in Batches, DeferRest(b) \/ FinalizeBatch(b) \/ BatchDies(b)
      PROVE  BatchOnly /\ \A x \in Batches : Keeps(x)
  <2>1. BatchOnly
    BY <1>4 DEF DeferRest, FinalizeBatch, BatchDies, BatchOnly
  <2>2. \A x \in Batches \ {b} : batch'[x] = batch[x]
    BY <1>0, <1>4 DEF DeferRest, FinalizeBatch, BatchDies, Attempted
  <2>3. /\ batch'[b].sent = batch[b].sent /\ batch'[b].calm = batch[b].calm
        /\ batch'[b].todo \subseteq batch[b].todo
    <3>1. CASE DeferRest(b)
      BY <1>0, <3>1 DEF DeferRest, BatchType
    <3>2. CASE FinalizeBatch(b)
      BY <1>0, <3>2 DEF FinalizeBatch, Attempted, BatchType
    <3>3. CASE BatchDies(b)
      BY <1>0, <3>3 DEF BatchDies, BatchType
    <3> QED
      BY <1>4, <3>1, <3>2, <3>3
  <2> QED
    BY <2>1, <2>2, <2>3 DEF Keeps
<1>5. CASE Repair
  BY <1>5 DEF Repair, RepairOnly, ReadRecords, ReadLocks, Rewrite, RepairEnds, RepairFails, LookForLock, recordVars
<1>6. CASE UNCHANGED batchVars
  BY <1>6 DEF batchVars, BatchOnly, recordVars, Keeps
<1> QED
  BY <1>1, <1>2, <1>3, <1>4, <1>5, <1>6 DEF BatchNext, Single, Bulk

(* A verdict that is fresh stays so while no record before it starts or    *)
(* ceases to count.                                                        *)
LEMMA FreshStays ==
    ASSUME NEW r \in Records, UNCHANGED figure,
           \A q \in Records : Place[q] < Place[r] => (status[q] \in Counted <=> status'[q] \in Counted)
    PROVE  Fresh(r)' = Fresh(r)
<1>1. VerdictOf(r, status', figure) = VerdictOf(r, status, figure)
  BY SamePriors
<1> QED
  BY <1>1 DEF Fresh

(* A period that closes moves no verdict.                                  *)
LEMMA CloseKeepsFresh ==
    ASSUME BatchDomains, NEW p \in Periods, Close(p)
    PROVE  \A r \in Records :
             /\ Fresh(r)' = Fresh(r) /\ verdict'[r] = verdict[r]
             /\ status[r] = "submitted" => status'[r] = "submitted"
             /\ Scored(r)' = Scored(r)
<1>1. /\ status' = [r \in Records |-> IF Place[r] = p /\ status[r] = "approved" THEN "locked" ELSE status[r]]
      /\ UNCHANGED <<figure, verdict>>
  BY DEF Close
<1>2. \A r \in Records : status'[r] = status[r] \/ (status[r] = "approved" /\ status'[r] = "locked")
  BY <1>1
<1>3. ASSUME NEW r \in Records PROVE Fresh(r)' = Fresh(r)
  BY <1>1, <1>2, FreshStays DEF Counted
<1>4. ASSUME NEW r \in Records PROVE Scored(r)' = Scored(r)
  BY <1>2 DEF Scored, Gone
<1> QED
  BY <1>1, <1>2, <1>3, <1>4

-----------------------------------------------------------------------------
(* Verdicts are of their figures: the stored ones, and those a repair may  *)
(* still write.                                                            *)

Pending(r) == r \in repair.todo \/ r = repair.held
JudgedInv ==
    \A r \in Records :
        /\ JudgesFigure(verdict[r], figure[r])
        /\ r \in repair.same /\ Pending(r) => JudgesFigure(repair.new[r], figure[r])

LEMMA JudgedInitially == ASSUME BatchAssumption PROVE BatchInit => JudgedInv
  BY DEF BatchInit, JudgedInv, JudgesFigure, NotEvaluated, NoRepair, Pending, BatchAssumption

LEMMA JudgedSteps ==
    ASSUME BatchAssumption PROVE ReportInv /\ ReportInv' /\ JudgedInv /\ [BatchNext]_batchVars => JudgedInv'
<1> SUFFICES ASSUME ReportInv, ReportInv', JudgedInv, [BatchNext]_batchVars
             PROVE  JudgedInv'
  OBVIOUS
<1>0. BatchDomains /\ repair \in RepairType(repair) /\ verdict = [r \in Records |-> verdict[r]]
  BY DEF ReportInv, BatchDomains
<1>1. \A r \in Records : /\ JudgesFigure(verdict[r], figure[r])
                         /\ r \in repair.same /\ Pending(r) => JudgesFigure(repair.new[r], figure[r])
  BY DEF JudgedInv
<1>2. ASSUME NEW r \in Records, Stirred(r)
      PROVE  JudgedInv'
  <2>1. /\ repair'.same = repair.same \ {r} /\ repair'.new = repair.new
        /\ repair'.todo = repair.todo /\ repair'.held = repair.held
    BY <1>0, <1>2, StirsTyped DEF Stirred
  <2>2. /\ \A q \in Records \ {r} : figure'[q] = figure[q] /\ verdict'[q] = verdict[q]
        /\ JudgesFigure(verdict'[r], figure'[r])
    BY <1>1, <1>2 DEF Stirred, RecordsBut, OtherThan
  <2> QED
    BY <1>1, <2>1, <2>2 DEF JudgedInv, Pending
<1>3. ASSUME NEW p \in Periods, Close(p)
      PROVE  JudgedInv'
  <2>1. repair' = [repair EXCEPT !.same = {r \in @ : status'[r] = status[r]}] /\ UNCHANGED <<figure, verdict>>
    BY <1>3 DEF Close
  <2>2. /\ repair'.same \subseteq repair.same /\ repair'.new = repair.new
        /\ repair'.todo = repair.todo /\ repair'.held = repair.held
    BY <1>0, <2>1 DEF RepairType
  <2> QED
    BY <1>1, <2>1, <2>2 DEF JudgedInv, Pending
<1>4. ASSUME NEW b \in Batches, NEW r \in Records, Sends(b, r, {r}, None) \/ Sends(b, r, {}, "unexpected")
      PROVE  JudgedInv'
  <2>1. Submits(r) /\ (Tells(b, r, {r}, None) \/ Tells(b, r, {}, "unexpected"))
    BY <1>4 DEF Sends
  <2>2. repair' = [repair EXCEPT !.same = @ \ {r}, !.calm = FALSE]
    BY <2>1 DEF Tells
  <2>3. /\ repair'.same = repair.same \ {r} /\ repair'.new = repair.new
        /\ repair'.todo = repair.todo /\ repair'.held = repair.held
    BY <1>0, <2>2 DEF RepairType
  <2>4. /\ verdict'[r] = Fresh(r) /\ UNCHANGED figure
        /\ \A q \in Records \ {r} : verdict'[q] = verdict[q]
    BY <1>0, <2>1, SubmitsOne DEF RecordsBut, OtherThan
  <2>5. JudgesFigure(Fresh(r), figure[r])
    BY VerdictJudges DEF Fresh
  <2> QED
    BY <1>1, <2>3, <2>4, <2>5 DEF JudgedInv, Pending
<1>5. CASE BatchOnly
  BY <1>1, <1>5 DEF BatchOnly, recordVars, JudgedInv, Pending
<1>6. CASE Repair /\ RepairOnly
  <2>0. UNCHANGED figure
    BY <1>6 DEF RepairOnly
  <2>1. CASE ReadRecords
    <3>1. UNCHANGED verdict
      BY <2>1 DEF ReadRecords, recordVars
    <3>2. \A r \in Records : r \in repair'.todo => repair'.new[r] = Fresh(r)
      BY <2>1 DEF ReadRecords, NoRepair
    <3>3. repair'.held = None
      BY <2>1 DEF ReadRecords, NoRepair
    <3>4. \A r \in Records : JudgesFigure(Fresh(r), figure[r])
      BY VerdictJudges DEF Fresh
    <3> QED
      BY <1>1, <2>0, <3>1, <3>2, <3>3, <3>4 DEF JudgedInv, Pending, BatchAssumption
  <2>2. ASSUME UNCHANGED verdict, repair'.new = repair.new, repair'.same \subseteq repair.same,
               \A r \in Records : Pending(r)' => Pending(r)
        PROVE  JudgedInv'
    BY <1>1, <2>0, <2>2 DEF JudgedInv
  <2>3. CASE ReadLocks
    <3>1. /\ UNCHANGED verdict /\ repair'.new = repair.new /\ repair'.same = repair.same
          /\ repair'.todo \subseteq repair.todo /\ repair'.held = repair.held
      BY <1>0, <2>3 DEF ReadLocks, RepairType, recordVars
    <3> QED
      BY <2>2, <3>1 DEF Pending
  <2>4. ASSUME NEW h \in Records, LookForLock(h)
        PROVE  JudgedInv'
    <3>1. /\ UNCHANGED verdict /\ repair'.new = repair.new /\ repair'.same = repair.same
          /\ repair'.todo \subseteq repair.todo /\ (repair'.held = repair.held \/ repair'.held = h)
          /\ h \in repair.todo
      BY <1>0, <2>4 DEF LookForLock, RepairType, recordVars
    <3> QED
      BY <2>2, <3>1 DEF Pending
  <2>5. CASE Rewrite
    <3> DEFINE h == repair.held
    <3>1. h \in Records
      BY <1>0, <2>5 DEF Rewrite, RepairType
    <3>2. CASE /\ StillThat(h) /\ verdict' = [verdict EXCEPT ![h] = repair.new[h]]
               /\ repair' = [repair EXCEPT !.held = None, !.same = @ \ {h}]
      <4>1. /\ repair'.new = repair.new /\ repair'.same = repair.same \ {h}
            /\ repair'.todo = repair.todo /\ repair'.held = None
        BY <1>0, <3>2 DEF RepairType
      <4>2. verdict'[h] = repair.new[h] /\ \A r \in Records \ {h} : verdict'[r] = verdict[r]
        BY <1>0, <3>1, <3>2
      <4>3. JudgesFigure(repair.new[h], figure[h])
        BY <1>1, <3>1, <3>2 DEF StillThat, Pending
      <4> QED
        BY <1>1, <2>0, <4>1, <4>2, <4>3 DEF JudgedInv, Pending, BatchAssumption
    <3>3. CASE UNCHANGED verdict /\ repair' = [repair EXCEPT !.held = None, !.left = @ + 1]
      <4>1. /\ repair'.new = repair.new /\ repair'.same = repair.same
            /\ repair'.todo = repair.todo /\ repair'.held = None
        BY <1>0, <3>3 DEF RepairType
      <4> QED
        BY <2>2, <3>3, <4>1 DEF Pending, BatchAssumption
    <3> QED
      BY <2>5, <3>2, <3>3 DEF Rewrite
  <2>6. CASE RepairEnds \/ RepairFails
    <3>1. /\ UNCHANGED verdict /\ repair'.new = repair.new /\ repair'.same = repair.same
          /\ repair'.todo = repair.todo /\ (repair'.held = repair.held \/ repair'.held = None)
      BY <1>0, <2>6 DEF RepairEnds, RepairFails, RepairType, recordVars
    <3> QED
      BY <2>2, <3>1 DEF Pending, BatchAssumption
  <2> QED
    BY <1>6, <2>1, <2>3, <2>4, <2>5, <2>6 DEF Repair
<1> QED
  BY <1>2, <1>3, <1>4, <1>5, <1>6, StepKinds

LEMMA JudgedInvariant == ASSUME BatchAssumption PROVE BatchSpec => []JudgedInv
<1> QED
  BY JudgedInitially, JudgedSteps, ReportInvariant, PTL DEF BatchSpec

-----------------------------------------------------------------------------
(* The verdicts of a batch that nothing disturbed.  It submits in calendar *)
(* order, so no later submit counts for an earlier one; and a repair finds *)
(* nothing stale in what it sent.                                          *)

Stands(r) ==
    status[r] = "submitted" /\ verdict[r] = Fresh(r) /\ ~(r \in repair.same /\ Pending(r))
StandsFor(b) ==
    batch[b].calm =>
        \A r \in batch[b].sent : Stands(r) /\ \A q \in batch[b].todo : Place[r] <= Place[q]
StandsInv == \A b \in Batches : StandsFor(b)

LEMMA StandsInitially == BatchInit => StandsInv
  BY DEF BatchInit, StandsInv, StandsFor, Unsent

LEMMA StandsSteps ==
    ASSUME BatchAssumption PROVE ReportInv /\ StandsInv /\ [BatchNext]_batchVars => StandsInv'
<1> SUFFICES ASSUME ReportInv, StandsInv, [BatchNext]_batchVars
             PROVE  StandsInv'
  OBVIOUS
<1>0. /\ BatchDomains /\ repair \in RepairType(repair) /\ verdict = [r \in Records |-> verdict[r]]
      /\ batch \in [Batches -> BatchType] /\ status \in [Records -> Statuses]
      /\ Place \in [Records -> Nat]
  BY DEF ReportInv, BatchDomains, BatchAssumption, BaselineAssumption
<1>1. \A b \in Batches : batch[b].sent \subseteq Records /\ batch[b].todo \subseteq Records
  BY <1>0 DEF BatchType
<1>2. ASSUME UNCHANGED batch, \A r \in Records : Stands(r) => Stands(r)'
      PROVE  StandsInv'
  BY <1>1, <1>2 DEF StandsInv, StandsFor
<1>3. ASSUME NEW r \in Records, Stirred(r)
      PROVE  StandsInv'
  BY <1>0, <1>3, StirsTyped DEF Stirred, StandsInv, StandsFor
<1>4. ASSUME NEW p \in Periods, Close(p)
      PROVE  StandsInv'
  <2>1. repair' = [repair EXCEPT !.same = {r \in @ : status'[r] = status[r]}] /\ UNCHANGED batch
    BY <1>4 DEF Close
  <2>2. repair'.same \subseteq repair.same /\ repair'.todo = repair.todo /\ repair'.held = repair.held
    BY <1>0, <2>1 DEF RepairType
  <2>3. \A r \in Records : /\ Fresh(r)' = Fresh(r) /\ verdict'[r] = verdict[r]
                           /\ status[r] = "submitted" => status'[r] = "submitted"
    BY <1>0, <1>4, CloseKeepsFresh
  <2> QED
    BY <1>2, <2>1, <2>2, <2>3 DEF Stands, Pending
<1>5. ASSUME NEW b \in Batches, NEW r \in Records, NEW sent \in {{}, {r}},
             Sends(b, r, sent, None) \/ Sends(b, r, sent, "unexpected")
      PROVE  StandsInv'
  <2>1. PICK code \in BatchCodes \cup {None} :
           /\ NextUp(b, r) /\ Submits(r) /\ Tells(b, r, sent, code)
    BY <1>5 DEF Sends, BatchCodes
  <2>2. /\ batch' = [x \in Batches |->
               IF x = b THEN Answers(b, r, sent, code) ELSE [batch[x] EXCEPT !.calm = FALSE]]
        /\ repair' = [repair EXCEPT !.same = @ \ {r}, !.calm = FALSE]
    BY <2>1 DEF Tells
  <2>3. /\ Answers(b, r, sent, code).sent = batch[b].sent \cup sent
        /\ Answers(b, r, sent, code).todo = batch[b].todo \ {r}
        /\ Answers(b, r, sent, code).calm = batch[b].calm
    BY <1>0 DEF Answers, BatchType
  <2>4. \A x \in Batches \ {b} : ~batch'[x].calm
    BY <1>0, <2>2 DEF BatchType
  <2>5. /\ batch'[b].sent = batch[b].sent \cup sent /\ batch'[b].todo = batch[b].todo \ {r}
        /\ batch'[b].calm = batch[b].calm
    BY <2>2, <2>3
  <2>6. /\ repair'.same = repair.same \ {r} /\ repair'.todo = repair.todo /\ repair'.held = repair.held
    BY <1>0, <2>2 DEF RepairType
  <2>7. /\ status'[r] = "submitted" /\ verdict'[r] = Fresh(r) /\ UNCHANGED figure
        /\ \A q \in Records \ {r} : status'[q] = status[q] /\ verdict'[q] = verdict[q]
    BY <1>0, <2>1, SubmitsOne DEF RecordsBut, OtherThan
  <2>8. ASSUME NEW q \in Records, Place[q] <= Place[r]
        PROVE  Fresh(q)' = Fresh(q)
    <3>1. \A x \in Records : Place[x] < Place[q] => status'[x] = status[x]
      BY <1>0, <2>7, <2>8
    <3> QED
      BY <2>7, <3>1, FreshStays
  <2>9. ASSUME batch'[b].calm, NEW q \in batch'[b].sent
        PROVE  Stands(q)' /\ \A x \in batch'[b].todo : Place[q] <= Place[x]
    <3>0. q \in Records
      BY <1>1, <2>5, <2>9
    <3>1. CASE q = r
      <4>1. Place[r] <= Place[r]
        BY <1>0
      <4>2. verdict'[r] = Fresh(r)'
        BY <2>7, <2>8, <4>1
      <4>3. Stands(r)'
        BY <2>6, <2>7, <4>2 DEF Stands
      <4>4. \A x \in batch'[b].todo : Place[r] <= Place[x]
        BY <2>1, <2>5 DEF NextUp
      <4> QED
        BY <3>1, <4>3, <4>4
    <3>2. CASE q # r
      <4>1. q \in batch[b].sent /\ batch[b].calm /\ r \in batch[b].todo
        BY <2>1, <2>5, <2>9, <3>2 DEF NextUp
      <4>2. Stands(q) /\ \A x \in batch[b].todo : Place[q] <= Place[x]
        BY <4>1 DEF StandsInv, StandsFor
      <4>3. Fresh(q)' = Fresh(q)
        BY <2>8, <3>0, <4>1, <4>2
      <4>4. Stands(q)'
        BY <2>6, <2>7, <3>0, <3>2, <4>2, <4>3 DEF Stands, Pending
      <4> QED
        BY <2>5, <4>2, <4>4
    <3> QED
      BY <3>1, <3>2
  <2> QED
    BY <2>4, <2>9 DEF StandsInv, StandsFor
<1>6. CASE BatchOnly /\ \A b \in Batches : Keeps(b)
  <2>1. \A r \in Records : Stands(r)' = Stands(r)
    BY <1>6 DEF BatchOnly, recordVars, Stands, Pending, Fresh
  <2>2. ASSUME NEW b \in Batches, batch'[b].calm, NEW r \in batch'[b].sent
        PROVE  Stands(r)' /\ \A q \in batch'[b].todo : Place[r] <= Place[q]
    <3>1. batch[b].calm /\ r \in batch[b].sent /\ batch'[b].todo \subseteq batch[b].todo
      BY <1>6, <2>2 DEF Keeps
    <3> QED
      BY <1>1, <2>1, <3>1 DEF StandsInv, StandsFor
  <2> QED
    BY <2>2 DEF StandsInv, StandsFor
<1>7. CASE Repair /\ RepairOnly
  <2>1. \A r \in Records : Fresh(r)' = Fresh(r)
    BY <1>7 DEF RepairOnly, Fresh
  <2>2. UNCHANGED <<batch, status>>
    BY <1>7 DEF RepairOnly
  <2>3. CASE ReadRecords
    <3>1. UNCHANGED verdict /\ repair'.held = None
          /\ repair'.todo \subseteq {r \in Records : verdict[r] # Fresh(r)}
      BY <2>3 DEF ReadRecords, NoRepair, recordVars
    <3> QED
      BY <1>2, <2>1, <2>2, <3>1 DEF Stands, Pending, BatchAssumption
  <2>4. ASSUME UNCHANGED verdict, repair'.same \subseteq repair.same,
               \A r \in Records : Pending(r)' => Pending(r)
        PROVE  StandsInv'
    BY <1>2, <2>1, <2>2, <2>4 DEF Stands
  <2>5. CASE ReadLocks
    <3>1. /\ UNCHANGED verdict /\ repair'.same = repair.same
          /\ repair'.todo \subseteq repair.todo /\ repair'.held = repair.held
      BY <1>0, <2>5 DEF ReadLocks, RepairType, recordVars
    <3> QED
      BY <2>4, <3>1 DEF Pending
  <2>6. ASSUME NEW h \in Records, LookForLock(h)
        PROVE  StandsInv'
    <3>1. /\ UNCHANGED verdict /\ repair'.same = repair.same
          /\ repair'.todo \subseteq repair.todo /\ (repair'.held = repair.held \/ repair'.held = h)
          /\ h \in repair.todo
      BY <1>0, <2>6 DEF LookForLock, RepairType, recordVars
    <3> QED
      BY <2>4, <3>1 DEF Pending
  <2>7. CASE Rewrite
    <3> DEFINE h == repair.held
    <3>1. h \in Records
      BY <1>0, <2>7 DEF Rewrite, RepairType
    <3>2. CASE /\ StillThat(h) /\ verdict' = [verdict EXCEPT ![h] = repair.new[h]]
               /\ repair' = [repair EXCEPT !.held = None, !.same = @ \ {h}]
      <4>1. /\ repair'.same = repair.same \ {h} /\ repair'.todo = repair.todo /\ repair'.held = None
        BY <1>0, <3>2 DEF RepairType
      <4>2. \A r \in Records \ {h} : verdict'[r] = verdict[r]
        BY <1>0, <3>1, <3>2
      <4>3. ~Stands(h)
        BY <3>2 DEF StillThat, Stands, Pending
      <4> QED
        BY <1>2, <2>1, <2>2, <4>1, <4>2, <4>3 DEF Stands, Pending, BatchAssumption
    <3>3. CASE UNCHANGED verdict /\ repair' = [repair EXCEPT !.held = None, !.left = @ + 1]
      <4>1. /\ repair'.same = repair.same /\ repair'.todo = repair.todo /\ repair'.held = None
        BY <1>0, <3>3 DEF RepairType
      <4> QED
        BY <2>4, <3>3, <4>1 DEF Pending, BatchAssumption
    <3> QED
      BY <2>7, <3>2, <3>3 DEF Rewrite
  <2>8. CASE RepairEnds \/ RepairFails
    <3>1. /\ UNCHANGED verdict /\ repair'.same = repair.same
          /\ repair'.todo = repair.todo /\ (repair'.held = repair.held \/ repair'.held = None)
      BY <1>0, <2>8 DEF RepairEnds, RepairFails, RepairType, recordVars
    <3> QED
      BY <2>4, <3>1 DEF Pending, BatchAssumption
  <2> QED
    BY <1>7, <2>3, <2>5, <2>6, <2>7, <2>8 DEF Repair
<1> QED
  BY <1>3, <1>4, <1>5, <1>6, <1>7, StepKinds

LEMMA StandsInvariant == ASSUME BatchAssumption PROVE BatchSpec => []StandsInv
<1> QED
  BY StandsInitially, StandsSteps, ReportInvariant, PTL DEF BatchSpec

-----------------------------------------------------------------------------
(* A repair beside which nothing is written: what was stale is still to do *)
(* with the verdict it should have, or it is counted as left.              *)

StillReads == repair.phase \in {"read", "writing"}
CleanInv ==
    /\ repair.held # None => repair.phase = "writing"
    /\ repair.calm /\ (StillReads \/ repair.phase = "clean") =>
          \A r \in Records : Scored(r) => verdict[r] = Fresh(r) \/ Pending(r) \/ repair.left > 0
    /\ repair.calm /\ StillReads => \A r \in Records : Pending(r) => repair.new[r] = Fresh(r)
    /\ repair.phase = "clean" => repair.todo = {} /\ repair.held = None /\ repair.left = 0

LEMMA CleanInitially == BatchInit => CleanInv
  BY DEF BatchInit, CleanInv, NoRepair, StillReads

LEMMA CleanSteps ==
    ASSUME BatchAssumption PROVE ReportInv /\ CleanInv /\ [BatchNext]_batchVars => CleanInv'
<1> SUFFICES ASSUME ReportInv, CleanInv, [BatchNext]_batchVars
             PROVE  CleanInv'
  OBVIOUS
<1>0. /\ BatchDomains /\ repair \in RepairType(repair) /\ verdict = [r \in Records |-> verdict[r]]
      /\ None \notin Records
      /\ repair.left \in Nat /\ repair.todo \subseteq Records /\ repair.held \in Records \cup {None}
  BY DEF ReportInv, BatchDomains, BatchAssumption, RepairType
<1>1. CleanInv
  OBVIOUS
<1>2. ASSUME ~repair'.calm, repair'.phase = repair.phase, repair'.todo = repair.todo,
             repair'.held = repair.held, repair'.left = repair.left
      PROVE  CleanInv'
  BY <1>1, <1>2 DEF CleanInv, StillReads
<1>3. ASSUME NEW r \in Records, Stirred(r)
      PROVE  CleanInv'
  BY <1>0, <1>2, <1>3, StirsTyped DEF Stirred
<1>4. ASSUME NEW p \in Periods, Close(p)
      PROVE  CleanInv'
  <2>1. repair' = [repair EXCEPT !.same = {r \in @ : status'[r] = status[r]}]
    BY <1>4 DEF Close
  <2>2. /\ repair'.phase = repair.phase /\ repair'.new = repair.new /\ repair'.todo = repair.todo
        /\ repair'.held = repair.held /\ repair'.left = repair.left /\ repair'.calm = repair.calm
    BY <1>0, <2>1 DEF RepairType
  <2>3. \A r \in Records : Fresh(r)' = Fresh(r) /\ verdict'[r] = verdict[r] /\ Scored(r)' = Scored(r)
    BY <1>0, <1>4, CloseKeepsFresh
  <2> QED
    BY <1>1, <2>2, <2>3 DEF CleanInv, StillReads, Pending
<1>5. ASSUME NEW b \in Batches, NEW r \in Records, NEW sent, NEW code, Tells(b, r, sent, code)
      PROVE  CleanInv'
  <2>1. repair' = [repair EXCEPT !.same = @ \ {r}, !.calm = FALSE]
    BY <1>5 DEF Tells
  <2>2. /\ repair'.phase = repair.phase /\ repair'.todo = repair.todo
        /\ repair'.held = repair.held /\ repair'.left = repair.left /\ ~repair'.calm
    BY <1>0, <2>1 DEF RepairType
  <2> QED
    BY <1>2, <2>2
<1>6. CASE BatchOnly
  BY <1>1, <1>6 DEF BatchOnly, recordVars, CleanInv, StillReads, Pending, Fresh, Scored, Gone
<1>7. CASE Repair /\ RepairOnly
  <2>1. \A r \in Records : Fresh(r)' = Fresh(r) /\ Scored(r)' = Scored(r)
    BY <1>7 DEF RepairOnly, Fresh, Scored, Gone
  <2>2. CASE ReadRecords
    <3> DEFINE stale == {r \in Records : Scored(r) /\ verdict[r] # Fresh(r)}
               lost == {r \in stale : status[r] \notin Rewritable}
               n == Cardinality(lost)
    <3>1. /\ repair'.phase = "read" /\ repair'.calm /\ repair'.held = None
          /\ repair'.todo = {r \in stale : status[r] \in Rewritable}
          /\ repair'.left = n
          /\ \A r \in stale : repair'.new[r] = Fresh(r)
      BY <2>2 DEF ReadRecords, NoRepair
    <3>2. ASSUME NEW r \in lost PROVE n > 0
      <4>1. IsFiniteSet(lost)
        BY FS_Subset DEF BatchAssumption, BaselineAssumption
      <4>2. n \in Nat /\ n # 0
        BY <4>1, FS_CardinalityType, FS_EmptySet
      <4> QED
        BY <4>2
    <3>3. \A r \in Records : Scored(r) => verdict[r] = Fresh(r) \/ r \in repair'.todo \/ repair'.left > 0
      <4> SUFFICES ASSUME NEW r \in Records, Scored(r), verdict[r] # Fresh(r), r \notin repair'.todo
                   PROVE  repair'.left > 0
        OBVIOUS
      <4>1. r \in lost
        BY <3>1
      <4> QED
        BY <3>1, <3>2, <4>1
    <3>4. \A r \in Records : Pending(r)' => r \in stale
      BY <1>0, <3>1 DEF Pending
    <3>5. UNCHANGED verdict
      BY <2>2 DEF ReadRecords, recordVars
    <3> HIDE DEF stale, n
    <3> QED
      BY <2>1, <3>1, <3>3, <3>4, <3>5 DEF CleanInv, StillReads, Pending
  <2>3. CASE ReadLocks
    <3> DEFINE shut == {r \in repair.todo : Place[r] \in locked}
               n == Cardinality(shut)
    <3>1. IsFiniteSet(shut)
      BY <1>0, FS_Subset DEF BatchAssumption, BaselineAssumption
    <3>2. n \in Nat /\ (shut # {} => n > 0)
      BY <3>1, FS_CardinalityType, FS_EmptySet
    <3>3. repair' = [repair EXCEPT !.phase = "writing", !.todo = @ \ shut, !.left = @ + n]
          /\ UNCHANGED verdict /\ repair.phase = "read"
      BY <2>3 DEF ReadLocks, recordVars
    <3>4. shut \subseteq Records
      BY <1>0
    <3> HIDE DEF shut, n
    <3>5. /\ repair'.phase = "writing" /\ repair'.new = repair.new /\ repair'.todo = repair.todo \ shut
          /\ repair'.held = repair.held /\ repair'.left = repair.left + n /\ repair'.calm = repair.calm
      BY <1>0, <3>3 DEF RepairType
    <3>6. /\ repair.left > 0 => repair'.left > 0
          /\ shut # {} => repair'.left > 0
      BY <1>0, <3>2, <3>5
    <3>7. /\ repair'.calm => \A r \in Records :
                Scored(r) => verdict[r] = Fresh(r) \/ Pending(r)' \/ repair'.left > 0
          /\ repair'.calm => \A r \in Records : Pending(r)' => repair'.new[r] = Fresh(r)
      BY <1>1, <3>3, <3>5, <3>6 DEF CleanInv, StillReads, Pending
    <3> QED
      BY <2>1, <3>3, <3>5, <3>7 DEF CleanInv, StillReads
  <2>4. ASSUME NEW h \in Records, LookForLock(h)
        PROVE  CleanInv'
    <3>1. repair.phase = "writing" /\ repair.held = None /\ h \in repair.todo /\ UNCHANGED verdict
      BY <2>4 DEF LookForLock, recordVars
    <3>2. /\ repair'.phase = "writing" /\ repair'.new = repair.new /\ repair'.todo = repair.todo \ {h}
          /\ repair'.calm = repair.calm
          /\ \/ repair'.held = None /\ repair'.left = repair.left + 1
             \/ repair'.held = h /\ repair'.left = repair.left
      <4>1. CASE Place[h] \in locked
        <5>1. repair' = [repair EXCEPT !.todo = @ \ {h}, !.left = @ + 1]
          BY <2>4, <4>1 DEF LookForLock
        <5> QED
          BY <1>0, <3>1, <5>1 DEF RepairType
      <4>2. CASE Place[h] \notin locked
        <5>1. repair' = [repair EXCEPT !.todo = @ \ {h}, !.held = h]
          BY <2>4, <4>2 DEF LookForLock
        <5> QED
          BY <1>0, <3>1, <5>1 DEF RepairType
      <4> QED
        BY <4>1, <4>2
    <3>3. repair'.left \in Nat /\ (repair.left > 0 => repair'.left > 0)
          /\ (repair'.left = repair.left + 1 => repair'.left > 0)
      BY <1>0, <3>2
    <3>4. /\ repair'.calm => \A r \in Records :
                Scored(r) => verdict[r] = Fresh(r) \/ Pending(r)' \/ repair'.left > 0
          /\ repair'.calm => \A r \in Records : Pending(r)' => repair'.new[r] = Fresh(r)
      BY <1>0, <1>1, <3>1, <3>2, <3>3 DEF CleanInv, StillReads, Pending
    <3> QED
      BY <2>1, <3>1, <3>2, <3>4 DEF CleanInv, StillReads
  <2>5. CASE Rewrite
    <3> DEFINE h == repair.held
    <3>1. h \in Records /\ repair.phase = "writing"
      BY <1>0, <1>1, <2>5 DEF Rewrite, CleanInv
    <3>2. CASE /\ StillThat(h) /\ verdict' = [verdict EXCEPT ![h] = repair.new[h]]
               /\ repair' = [repair EXCEPT !.held = None, !.same = @ \ {h}]
      <4>1. /\ repair'.phase = repair.phase /\ repair'.new = repair.new /\ repair'.todo = repair.todo
            /\ repair'.held = None /\ repair'.left = repair.left /\ repair'.calm = repair.calm
        BY <1>0, <3>2 DEF RepairType
      <4>2. verdict'[h] = repair.new[h] /\ \A r \in Records \ {h} : verdict'[r] = verdict[r]
        BY <1>0, <3>1, <3>2
      <4>3. repair.calm => verdict'[h] = Fresh(h)
        BY <1>1, <3>1, <4>2 DEF CleanInv, StillReads, Pending
      <4>4. /\ repair'.calm => \A r \in Records :
                  Scored(r) => verdict'[r] = Fresh(r) \/ Pending(r)' \/ repair'.left > 0
            /\ repair'.calm => \A r \in Records : Pending(r)' => repair'.new[r] = Fresh(r)
        BY <1>0, <1>1, <3>1, <4>1, <4>2, <4>3 DEF CleanInv, StillReads, Pending
      <4> QED
        BY <2>1, <3>1, <4>1, <4>4 DEF CleanInv, StillReads
    <3>3. CASE UNCHANGED verdict /\ repair' = [repair EXCEPT !.held = None, !.left = @ + 1]
      <4>1. /\ repair'.phase = repair.phase /\ repair'.new = repair.new /\ repair'.todo = repair.todo
            /\ repair'.held = None /\ repair'.left = repair.left + 1 /\ repair'.calm = repair.calm
        BY <1>0, <3>3 DEF RepairType
      <4>2. repair'.left > 0
        BY <1>0, <4>1
      <4>3. repair'.calm => \A r \in Records : Pending(r)' => repair'.new[r] = Fresh(r)
        BY <1>0, <1>1, <3>1, <4>1 DEF CleanInv, StillReads, Pending
      <4> QED
        BY <2>1, <3>1, <4>1, <4>2, <4>3 DEF CleanInv, StillReads
    <3> QED
      BY <2>5, <3>2, <3>3 DEF Rewrite
  <2>6. CASE RepairEnds
    <3>1. /\ repair.phase = "writing" /\ repair.held = None /\ repair.todo = {} /\ UNCHANGED verdict
          /\ repair' = [repair EXCEPT !.phase = IF ExitCode = 0 THEN "clean" ELSE "drift"]
      BY <2>6 DEF RepairEnds, recordVars
    <3>2. /\ repair'.new = repair.new /\ repair'.todo = {} /\ repair'.held = None
          /\ repair'.left = repair.left /\ repair'.calm = repair.calm
      BY <1>0, <3>1 DEF RepairType
    <3>3. CASE ExitCode = 0
      <4>1. repair'.phase = "clean" /\ repair.left = 0
        BY <1>0, <3>1, <3>3 DEF ExitCode, RepairType
      <4> QED
        BY <1>1, <2>1, <3>1, <3>2, <4>1 DEF CleanInv, StillReads, Pending
    <3>4. CASE ExitCode # 0
      <4>1. repair'.phase = "drift"
        BY <1>0, <3>1, <3>4 DEF RepairType
      <4> QED
        BY <3>2, <4>1 DEF CleanInv, StillReads
    <3> QED
      BY <3>3, <3>4
  <2>7. CASE RepairFails
    <3>1. repair'.phase = "failed" /\ repair'.held = None
      BY <1>0, <2>7 DEF RepairFails, RepairType
    <3> QED
      BY <3>1 DEF CleanInv, StillReads
  <2> QED
    BY <1>7, <2>2, <2>3, <2>4, <2>5, <2>6, <2>7 DEF Repair
<1> QED
  BY <1>3, <1>4, <1>5, <1>6, <1>7, StepKinds DEF Sends

LEMMA CleanInvariant == ASSUME BatchAssumption PROVE BatchSpec => []CleanInv
<1> QED
  BY CleanInitially, CleanSteps, ReportInvariant, PTL DEF BatchSpec

-----------------------------------------------------------------------------
(* A bulk submit answers every id once; undisturbed, it leaves the         *)
(* verdicts of its records as one submit each would; its audit row tells   *)
(* what the caller was told, and is there when the caller was told so.  A  *)
(* verdict is of its figure, and a clean repair that nothing disturbed     *)
(* leaves none stale: whatever runs beside them, dies or fails.            *)
THEOREM BatchStandsForItsRecordsHolds == BatchAssumption /\ BatchSpec => []BatchStandsForItsRecords
<1> SUFFICES ASSUME BatchAssumption
             PROVE  BatchSpec => []BatchStandsForItsRecords
  OBVIOUS
<1>1. ReportInv => EveryIdAnswered /\ BatchAuditedOnce
  <2> SUFFICES ASSUME ReportInv PROVE EveryIdAnswered /\ BatchAuditedOnce
    OBVIOUS
  <2>1. EveryIdAnswered
    BY DEF ReportInv, AnsweredFor, EveryIdAnswered
  <2>2. ASSUME NEW b \in Batches
        PROVE  /\ Cardinality(batchRows[b]) <= 1
               /\ batch[b].phase = "audited" => batchRows[b] = {Row(b)}
    <3>1. batchRows[b] = {} \/ batchRows[b] = {Row(b)}
      BY DEF ReportInv, AuditedFor
    <3>2. Cardinality({}) = 0 /\ \A x : Cardinality({x}) = 1
      BY FS_EmptySet, FS_Singleton
    <3>3. Cardinality(batchRows[b]) = 0 \/ Cardinality(batchRows[b]) = 1
      BY <3>1, <3>2
    <3>4. batch[b].phase = "audited" => batchRows[b] = {Row(b)}
      BY DEF ReportInv, AuditedFor, InPhase
    <3> QED
      BY <3>3, <3>4
  <2> QED
    BY <2>1, <2>2 DEF BatchAuditedOnce
<1>2. StandsInv => BatchVerdictsStand
  BY DEF StandsInv, StandsFor, Stands, BatchVerdictsStand
<1>3. JudgedInv => VerdictOfItsFigure
  BY DEF JudgedInv, JudgesFigure, VerdictOfItsFigure
<1>4. BatchAssumption /\ CleanInv => CleanRepairIsFresh
  BY DEF CleanInv, CleanRepairIsFresh, Pending, BatchAssumption
<1> QED
  BY <1>1, <1>2, <1>3, <1>4, ReportInvariant, StandsInvariant, JudgedInvariant, CleanInvariant, PTL
     DEF BatchStandsForItsRecords

-----------------------------------------------------------------------------
(* The file.  Its rows fall into records: a row is of the record of its    *)
(* key once one of that key is an equipment line, and by itself if not.    *)

LEMMA LeastOf ==
    ASSUME NEW S \in SUBSET Nat, S # {}
    PROVE  \E x \in S : \A y \in S : x <= y
<1> DEFINE R == OpToRel(<, Nat)
<1>1. PICK x \in S : \A y \in S : ~(<<y, x>> \in R)
  BY NatLessThanWellFounded, WFMin
<1>2. \A y \in S : ~(y < x)
  BY <1>1 DEF OpToRel
<1> QED
  BY <1>2

LEMMA FileRows ==
    ASSUME ImportAssumption, NEW file \in Files
    PROVE  /\ DOMAIN file \in SUBSET Nat /\ IsFiniteSet(DOMAIN file)
           /\ RecordsOf(file) \in SUBSET Nat /\ IsFiniteSet(RecordsOf(file))
           /\ \A n \in DOMAIN file : file[n].slot \in FileSlots \cup {None} /\ file[n].type \in Types \cup {None}
<1>1. Len(file) \in Nat /\ DOMAIN file = 1..Len(file)
  BY DEF ImportAssumption
<1>2. IsFiniteSet(1..Len(file))
  BY <1>1, FS_Interval
<1>3. RecordsOf(file) \subseteq DOMAIN file
  BY DEF RecordsOf
<1>4. IsFiniteSet(RecordsOf(file))
  BY <1>1, <1>2, <1>3, FS_Subset
<1> QED
  BY <1>1, <1>2, <1>3, <1>4 DEF ImportAssumption

LEMMA LinesMeet ==
    ASSUME ImportAssumption, NEW file \in Files, NEW m \in DOMAIN file, NEW n \in DOMAIN file
    PROVE  /\ m \in Lines(file, m)
           /\ m \in Lines(file, n) => Lines(file, n) = Lines(file, m)
           /\ Lines(file, n) \subseteq DOMAIN file
<1>1. m \in Lines(file, m) /\ Lines(file, n) \subseteq DOMAIN file
  BY DEF Lines, Lined
<1>2. ASSUME m \in Lines(file, n)
      PROVE  Lines(file, n) = Lines(file, m)
  <2>1. CASE ~Lined(file, n)
    BY <1>2, <2>1 DEF Lines
  <2>2. CASE Lined(file, n)
    <3>1. Refrigerant(file[m]) /\ RecordKey(file[m]) = RecordKey(file[n])
      BY <1>2, <2>2 DEF Lines
    <3>2. Lined(file, m)
      BY <2>2, <3>1 DEF Lined
    <3> QED
      BY <2>2, <3>1, <3>2 DEF Lines
  <2> QED
    BY <2>1, <2>2
<1> QED
  BY <1>1, <1>2

(* Every row is of one record, which stands where its first row was.       *)
LEMMA OneRecordOfRow ==
    ASSUME ImportAssumption, NEW file \in Files, NEW m \in DOMAIN file
    PROVE  Cardinality({n \in RecordsOf(file) : m \in Lines(file, n)}) = 1
<1>1. m \in Lines(file, m) /\ Lines(file, m) \subseteq DOMAIN file
  BY LinesMeet
<1>2. Lines(file, m) \in SUBSET Nat /\ Lines(file, m) # {}
  BY <1>1, FileRows
<1>3. PICK x \in Lines(file, m) : \A y \in Lines(file, m) : x <= y
  BY <1>2, LeastOf
<1>4. x \in DOMAIN file /\ Lines(file, x) = Lines(file, m)
  BY <1>1, <1>3, LinesMeet
<1>5. x \in RecordsOf(file) /\ m \in Lines(file, x)
  BY <1>1, <1>3, <1>4 DEF RecordsOf
<1>6. ASSUME NEW n \in RecordsOf(file), m \in Lines(file, n)
      PROVE  n = x
  <2>1. n \in DOMAIN file /\ \A y \in Lines(file, n) : n <= y
    BY DEF RecordsOf
  <2>2. Lines(file, n) = Lines(file, m) /\ n \in Lines(file, n)
    BY <1>6, <2>1, LinesMeet
  <2>3. x \in Nat /\ n \in Nat /\ n <= x /\ x <= n
    BY <1>2, <1>3, <2>1, <2>2
  <2> QED
    BY <2>3
<1>7. {n \in RecordsOf(file) : m \in Lines(file, n)} = {x}
  BY <1>5, <1>6
<1> QED
  BY <1>7, FS_Singleton

LEMMA GroupOfWhole ==
    ASSUME ImportAssumption, NEW file \in Files, NEW n \in DOMAIN file, CellFault(file, n) = None,
           \E m \in Lines(file, n) : Refrigerant(file[m]) /\ file[m].equip # None,
           NEW m \in DOMAIN file
    PROVE  /\ Key(file[m]) = Key(file[n]) => m \in Lines(file, n)
           /\ m \in Lines(file, n) => file[m].equip # None
<1>1. Lined(file, n)
  BY DEF Lines, Lined
<1>2. ~EquipmentFault(file, Lines(file, n))
  BY <1>1 DEF CellFault, ImportAssumption, Codes
<1>3. m \in Lines(file, n) => file[m].equip # None
  BY <1>2 DEF EquipmentFault
<1>4. ASSUME Key(file[m]) = Key(file[n])
      PROVE  m \in Lines(file, n)
  <2>1. file[m].slot = file[n].slot
    BY <1>4 DEF Key
  <2>2. Refrigerant(file[m])
    BY <1>1, <2>1 DEF Lined, Refrigerant
  <2> QED
    BY <1>1, <1>4, <2>2 DEF Lines, RecordKey
<1> QED
  BY <1>3, <1>4

-----------------------------------------------------------------------------
(* What the variables are.                                                 *)

Reportable == Codes \cup {None}
Reports0 == UNION {[S -> Reportable] : S \in SUBSET Nat}
ImportType ==
    [phase : {"none", "refused", "read", "failed", "rows", "writing", "done", "unsure", "dead"},
     file : Files \cup {<<>>}, snapshot : SUBSET Keys, seen : SUBSET Keys, todo : SUBSET Nat,
     codes : Reports0, tries : 0..2]
RowType == [status : {None, "processing", "completed", "failed"}, accepted : Int, rejected : Int]

ImportDomains ==
    /\ stored = [k \in Keys |-> stored[k]]
    /\ imp \in [Imports -> ImportType]
    /\ importRows \in [Imports -> RowType]
    /\ trail = [i \in Imports |-> trail[i]]
    /\ written = [i \in Imports |-> written[i]]

Started(s) == s.phase \notin {"none", "refused"}

(* A row that passed its cells claims its key.                             *)
Claims(file, n) == Claimed(file, n) # None /\ ~TypeFault(file[n])
KeysOf(file, ns) == {Key(file[n]) : n \in {m \in ns : Claims(file, m)}}

FaultAt(file, n, seen, snapshot) ==
    IF CellFault(file, n) # None THEN CellFault(file, n)
    ELSE IF TypeFault(file[n]) THEN "invalid"
    ELSE IF file[n].slot = None THEN None
    ELSE IF Key(file[n]) \in seen THEN "duplicate_in_file"
    ELSE IF Held(Key(file[n]), snapshot) THEN "duplicate_existing"
    ELSE None

Least(n, ns) == n \in ns /\ \A m \in ns : n <= m
With(codes, ns, code) == [m \in DOMAIN codes \cup ns |-> IF m \in ns THEN code ELSE codes[m]]
Accepted(codes) == {n \in DOMAIN codes : codes[n] = None}
Deferred(codes) == {n \in DOMAIN codes : codes[n] = Late}

LEMMA FaultIsCode ==
    ASSUME NEW file, NEW n, NEW seen, NEW snapshot
    PROVE  FaultAt(file, n, seen, snapshot) \in Reportable
  BY DEF FaultAt, Reportable, Codes, CellFault

LEMMA WithTyped ==
    ASSUME NEW codes, codes \in Reports0, NEW ns, ns \subseteq Nat, NEW code, code \in Reportable
    PROVE  With(codes, ns, code) \in Reports0
<1>1. PICK S \in SUBSET Nat : codes \in [S -> Reportable]
  BY DEF Reports0
<1>2. DOMAIN codes = S
  BY <1>1
<1>3. With(codes, ns, code) \in [S \cup ns -> Reportable]
  BY <1>1, <1>2 DEF With
<1>4. S \cup ns \in SUBSET Nat
  OBVIOUS
<1> QED
  BY <1>2, <1>3, <1>4 DEF With, Reports0

-----------------------------------------------------------------------------
(* How an import moves, in kinds of steps.  s is before, t after.          *)

SameWork(s, t) ==
    /\ t.file = s.file /\ t.snapshot = s.snapshot /\ t.seen = s.seen
    /\ t.todo = s.todo /\ t.codes = s.codes
(* A row is reported.                                                      *)
Reported(s, t, n, code) ==
    /\ t.phase = "rows" /\ t.file = s.file /\ t.snapshot = s.snapshot
    /\ t.seen = s.seen \cup KeysOf(s.file, {n})
    /\ t.todo = s.todo \ {n} /\ t.codes = With(s.codes, {n}, code)
(* The rows that are left are reported as not started.                     *)
TellsRest(s, t) ==
    /\ t.phase = "rows" /\ t.file = s.file /\ t.snapshot = s.snapshot /\ t.seen = s.seen
    /\ t.todo = {} /\ t.codes = With(s.codes, s.todo, Late)

Alone(i) == \A j \in Imports \ {i} : imp'[j] = imp[j]

LEMMA SetsOne ==
    ASSUME ImportDomains, NEW i \in Imports, NEW t, Sets(i, t)
    PROVE  imp'[i] = t /\ Alone(i) /\ (t \in ImportType => imp' \in [Imports -> ImportType])
  BY DEF ImportDomains, Sets, Alone

LEMMA GoesOne ==
    ASSUME ImportDomains, NEW i \in Imports,
           NEW phase \in {"none", "refused", "read", "failed", "rows", "writing", "done", "unsure", "dead"},
           Goes(i, phase)
    PROVE  /\ imp' \in [Imports -> ImportType] /\ Alone(i)
           /\ imp'[i].phase = phase /\ SameWork(imp[i], imp'[i])
<1>1. imp[i] \in ImportType
  BY DEF ImportDomains
<1> DEFINE t == [imp[i] EXCEPT !.phase = phase]
<1>2. t \in ImportType /\ t.phase = phase /\ SameWork(imp[i], t)
  BY <1>1 DEF ImportType, SameWork
<1>3. Sets(i, t)
  BY DEF Goes
<1> QED
  BY <1>2, <1>3, SetsOne

LEMMA SeenKeys ==
    ASSUME NEW i, NEW n
    PROVE  Seen(i, n) = KeysOf(imp[i].file, {n})
  BY DEF Seen, KeysOf, Claims

LEMMA KeysTyped ==
    ASSUME ImportAssumption, NEW file \in Files, NEW n \in DOMAIN file, Claims(file, n)
    PROVE  Key(file[n]) \in Keys
<1>1. file[n].slot \in FileSlots /\ file[n].type \in Types \cup {None}
  BY FileRows DEF Claims, Claimed
<1> QED
  BY <1>1 DEF Key, Keys

LEMMA ReportsOne ==
    ASSUME ImportAssumption, ImportDomains, NEW i \in Imports, imp[i].file \in Files,
           NEW n \in imp[i].todo, n \in DOMAIN imp[i].file, NEW code \in Reportable, Reports(i, n, code)
    PROVE  /\ imp' \in [Imports -> ImportType] /\ Alone(i) /\ Reported(imp[i], imp'[i], n, code)
<1>1. imp[i] \in ImportType
  BY DEF ImportDomains
<1>2. imp[i].codes \in Reports0 /\ imp[i].todo \in SUBSET Nat /\ imp[i].seen \in SUBSET Keys
  BY <1>1 DEF ImportType
<1> DEFINE codes == With(imp[i].codes, {n}, code)
           keys == KeysOf(imp[i].file, {n})
<1>3. codes \in Reports0
  <2>1. {n} \in SUBSET Nat
    BY <1>2
  <2> QED
    BY <1>2, <2>1, WithTyped
<1>4. keys \in SUBSET Keys
  BY KeysTyped DEF KeysOf
<1>5. Reports(i, n, code) = Sets(i, [imp[i] EXCEPT !.phase = "rows", !.todo = imp[i].todo \ {n}, !.codes = codes,
                           !.seen = imp[i].seen \cup keys])
  BY SeenKeys DEF Reports, Coded, With
<1> HIDE DEF codes, keys
<1> DEFINE t == [imp[i] EXCEPT !.phase = "rows", !.todo = imp[i].todo \ {n}, !.codes = codes,
                           !.seen = imp[i].seen \cup keys]
<1>6. imp[i].todo \ {n} \in SUBSET Nat /\ imp[i].seen \cup keys \in SUBSET Keys
  BY <1>2, <1>4
<1>7. /\ t \in ImportType /\ t.phase = "rows" /\ t.file = imp[i].file /\ t.snapshot = imp[i].snapshot
      /\ t.seen = imp[i].seen \cup keys /\ t.todo = imp[i].todo \ {n} /\ t.codes = codes
  BY <1>1, <1>3, <1>6 DEF ImportType
<1>8. Sets(i, t)
  BY <1>5
<1>9. imp'[i] = t /\ Alone(i) /\ imp' \in [Imports -> ImportType]
  BY <1>7, <1>8, SetsOne
<1> QED
  BY <1>7, <1>9 DEF Reported, codes, keys

-----------------------------------------------------------------------------
(* An import by itself: the rows before its place in the file are          *)
(* reported, those after it are still to do.                               *)

InOrderOf(s) ==
    /\ s.file \in Files
    /\ DOMAIN s.codes \cup s.todo = RecordsOf(s.file)
    /\ \A n \in DOMAIN s.codes, m \in s.todo : n < m
    /\ s.todo # {} => s.seen = KeysOf(s.file, DOMAIN s.codes)
(* An imported row has nothing wrong with its cells, and its key is no     *)
(* other's.                                                                *)
Imported(s) ==
    /\ \A n \in Accepted(s.codes) : CellFault(s.file, n) = None /\ Claims(s.file, n)
    /\ \A n, m \in Accepted(s.codes) : Key(s.file[n]) = Key(s.file[m]) => n = m
Writing(s) ==
    \E n \in s.todo : Least(n, s.todo) /\ FaultAt(s.file, n, s.seen, s.snapshot) = None /\ s.file[n].slot # None

Progress(s) ==
    /\ ~Started(s) => DOMAIN s.codes = {} /\ s.todo = {}
    /\ Started(s) => InOrderOf(s) /\ Imported(s)
    /\ s.phase = "read" => DOMAIN s.codes = {}
    /\ s.phase = "writing" => Writing(s)
    /\ s.phase \in {"done", "unsure"} => s.todo = {}

LEMMA WorkKeeps ==
    ASSUME NEW s, NEW t, Progress(s), SameWork(s, t), Started(s), Started(t),
           t.phase # "read", t.phase = "writing" => Writing(s),
           t.phase \in {"done", "unsure"} => s.todo = {}
    PROVE  Progress(t)
  BY DEF Progress, SameWork, InOrderOf, Imported, Writing

LEMMA TellsKeeps ==
    ASSUME ImportAssumption, NEW s \in ImportType, NEW t \in ImportType, Progress(s), Started(s),
           NEW n, Least(n, s.todo), NEW code \in Reportable, Reported(s, t, n, code),
           code = None => FaultAt(s.file, n, s.seen, s.snapshot) = None /\ s.file[n].slot # None
    PROVE  Progress(t)
<1>0. /\ s.codes \in Reports0 /\ s.todo \in SUBSET Nat /\ n \in s.todo /\ n \in Nat
      /\ {n} \in SUBSET Nat
  BY DEF ImportType, Least
<1>1. InOrderOf(s) /\ Imported(s) /\ s.file \in Files
  BY DEF Progress, InOrderOf
<1>2. RecordsOf(s.file) \in SUBSET Nat /\ n \in RecordsOf(s.file)
  BY <1>0, <1>1, FileRows DEF InOrderOf
<1>3. n \notin DOMAIN s.codes /\ DOMAIN s.codes \subseteq Nat
  BY <1>0, <1>1, <1>2 DEF InOrderOf
<1>4. /\ t.codes = With(s.codes, {n}, code) /\ DOMAIN t.codes = DOMAIN s.codes \cup {n}
      /\ t.codes[n] = code /\ \A m \in DOMAIN s.codes : t.codes[m] = s.codes[m]
      /\ t.file = s.file /\ t.todo = s.todo \ {n} /\ t.seen = s.seen \cup KeysOf(s.file, {n})
      /\ t.phase = "rows"
  <2>1. t.codes = With(s.codes, {n}, code)
    BY DEF Reported
  <2>2. DOMAIN t.codes = DOMAIN s.codes \cup {n} /\ t.codes[n] = code /\ \A m \in DOMAIN s.codes \ {n} : t.codes[m] = s.codes[m]
    BY <2>1 DEF With
  <2> QED
    BY <1>3, <2>1, <2>2 DEF Reported
<1>5. InOrderOf(t)
  <2>1. DOMAIN t.codes \cup t.todo = RecordsOf(t.file)
    BY <1>0, <1>1, <1>4 DEF InOrderOf
  <2>2. \A q \in DOMAIN t.codes, m \in t.todo : q < m
    <3>1. \A m \in s.todo : n <= m /\ m \in Nat
      BY <1>0 DEF Least
    <3>2. \A q \in DOMAIN s.codes, m \in s.todo : q < m
      BY <1>1 DEF InOrderOf
    <3> QED
      BY <1>0, <1>4, <3>1, <3>2
  <2>3. t.seen = KeysOf(t.file, DOMAIN t.codes)
    BY <1>0, <1>1, <1>4 DEF InOrderOf, KeysOf
  <2> QED
    BY <1>1, <1>4, <2>1, <2>2, <2>3 DEF InOrderOf
<1>6. ASSUME code = None
      PROVE  /\ CellFault(s.file, n) = None /\ Claims(s.file, n) /\ Key(s.file[n]) \notin s.seen
  BY <1>6 DEF FaultAt, Claims, Claimed, ImportAssumption, Codes
<1>7. \A m \in Accepted(t.codes) : m \in Accepted(s.codes) \/ (m = n /\ code = None)
  BY <1>4 DEF Accepted
<1>8. \A m \in Accepted(s.codes) : Key(s.file[m]) \in s.seen
  BY <1>0, <1>1 DEF Imported, InOrderOf, KeysOf, Accepted
<1>9. Imported(t)
  BY <1>1, <1>4, <1>6, <1>7, <1>8 DEF Imported
<1> QED
  BY <1>4, <1>5, <1>9 DEF Progress, Started

LEMMA TellsRestKeeps ==
    ASSUME ImportAssumption, NEW s \in ImportType, NEW t \in ImportType, Progress(s), Started(s),
           TellsRest(s, t)
    PROVE  Progress(t) /\ Accepted(t.codes) = Accepted(s.codes)
<1>0. s.codes \in Reports0 /\ s.todo \in SUBSET Nat /\ Late \in Reportable
  BY DEF ImportType, Reportable, Codes
<1>a. Late # None
  BY DEF ImportAssumption, Codes
<1>1. InOrderOf(s) /\ Imported(s) /\ s.file \in Files
  BY DEF Progress, InOrderOf
<1>2. RecordsOf(s.file) \in SUBSET Nat /\ DOMAIN s.codes \subseteq Nat
  BY <1>1, FileRows DEF InOrderOf
<1>3. /\ DOMAIN t.codes = DOMAIN s.codes \cup s.todo
      /\ \A m \in s.todo : t.codes[m] = Late /\ m \notin DOMAIN s.codes
      /\ \A m \in DOMAIN s.codes : t.codes[m] = s.codes[m]
      /\ t.file = s.file /\ t.todo = {} /\ t.seen = s.seen /\ t.phase = "rows"
  <2>1. \A m \in s.todo : m \notin DOMAIN s.codes
    BY <1>0, <1>1 DEF InOrderOf
  <2>2. t.codes = With(s.codes, s.todo, Late)
    BY DEF TellsRest
  <2>3. /\ DOMAIN t.codes = DOMAIN s.codes \cup s.todo /\ \A m \in s.todo : t.codes[m] = Late
        /\ \A m \in DOMAIN s.codes \ s.todo : t.codes[m] = s.codes[m]
    BY <2>2 DEF With
  <2> QED
    BY <2>1, <2>3 DEF TellsRest
<1>4. Accepted(t.codes) = Accepted(s.codes)
  BY <1>a, <1>3 DEF Accepted
<1>5. Imported(t)
  BY <1>1, <1>3, <1>4 DEF Imported
<1>6. InOrderOf(t)
  BY <1>1, <1>3 DEF InOrderOf
<1> QED
  BY <1>3, <1>4, <1>5, <1>6 DEF Progress, Started

-----------------------------------------------------------------------------
(* What was written, the batch's row and the trail, of an import s whose   *)
(* written keys are w, whose row is row and whose audit rows are told.     *)

Told(s, w) ==
    /\ \A n \in Accepted(s.codes) : Key(s.file[n]) \in w
    /\ \A k \in w : \E n \in DOMAIN s.codes : s.codes[n] \in {None, "unexpected"} /\ Key(s.file[n]) = k

AcceptedOf(s) == Cardinality(Accepted(s.codes))
RejectedOf(s) == Cardinality(DOMAIN s.codes) - AcceptedOf(s) - Cardinality(Deferred(s.codes))
EndOf(s) == [status |-> IF Deferred(s.codes) = {} THEN "completed" ELSE "failed",
             accepted |-> AcceptedOf(s), rejected |-> RejectedOf(s)]
SummaryOf(s) == [refused |-> FALSE, accepted |-> AcceptedOf(s), rejected |-> RejectedOf(s)]
NotAllowed == [refused |-> TRUE, accepted |-> 0, rejected |-> 0]

Open(s, row, told) ==
    /\ told = {} /\ s.phase # "done" /\ row.status \in {None, "processing"}
    /\ s.phase = "none" => row.status = None
Refused(s, row, told) == told = {NotAllowed} /\ s.phase = "refused" /\ row.status = None
Closed(s, row, told, dry) ==
    /\ told = {SummaryOf(s)} /\ s.todo = {} /\ s.phase \in {"rows", "done", "unsure", "dead"}
    /\ IF dry THEN row.status = None ELSE row = EndOf(s)
Trailed(s, row, told, dry) ==
    Open(s, row, told) \/ Refused(s, row, told) \/ Closed(s, row, told, dry)

Local(i) ==
    /\ Progress(imp[i])
    /\ i \in Dry => written[i] = {} /\ imp[i].phase \notin {"read", "writing"} /\ importRows[i].status = None
    /\ i \notin Dry => Told(imp[i], written[i])
    /\ Trailed(imp[i], importRows[i], trail[i], i \in Dry)
ImportInv == ImportDomains /\ \A i \in Imports : Local(i)

(* A step of one import leaves the others as they were.                    *)
OnlyOf(i) ==
    Alone(i) /\ \A j \in Imports \ {i} :
        written'[j] = written[j] /\ importRows'[j] = importRows[j] /\ trail'[j] = trail[j]

LEMMA OthersKeep ==
    ASSUME ImportInv, NEW i \in Imports, OnlyOf(i), ImportDomains', Local(i)'
    PROVE  ImportInv'
<1>1. ASSUME NEW j \in Imports, j # i
      PROVE  Local(j)'
  <2>1. imp'[j] = imp[j] /\ written'[j] = written[j] /\ importRows'[j] = importRows[j] /\ trail'[j] = trail[j]
    BY <1>1 DEF OnlyOf, Alone
  <2> QED
    BY <2>1 DEF ImportInv, Local
<1> QED
  BY <1>1 DEF ImportInv

LEMMA ToldStays ==
    ASSUME NEW s, NEW t, NEW w, Told(s, w), t.codes = s.codes, t.file = s.file
    PROVE  Told(t, w)
  BY DEF Told

LEMMA ToldOn ==
    ASSUME NEW s, NEW t, NEW n, NEW code, Reported(s, t, n, code), n \notin DOMAIN s.codes,
           NEW w, NEW w2, Told(s, w),
           \/ w2 = w /\ code # None
           \/ w2 = w \cup {Key(s.file[n])} /\ code \in {None, "unexpected"}
    PROVE  Told(t, w2)
<1>1. t.codes = [m \in DOMAIN s.codes \cup {n} |-> IF m \in {n} THEN code ELSE s.codes[m]] /\ t.file = s.file
  BY DEF Reported, With
<1>2. /\ DOMAIN t.codes = DOMAIN s.codes \cup {n} /\ t.codes[n] = code
      /\ \A m \in DOMAIN s.codes : t.codes[m] = s.codes[m]
  BY <1>1
<1>3. \A m \in Accepted(t.codes) : Key(t.file[m]) \in w2
  BY <1>1, <1>2 DEF Told, Accepted
<1>4. \A k \in w2 : \E m \in DOMAIN t.codes : t.codes[m] \in {None, "unexpected"} /\ Key(t.file[m]) = k
  BY <1>1, <1>2 DEF Told
<1> QED
  BY <1>3, <1>4 DEF Told

(* An import whose work is not over has no summary yet.                    *)
LEMMA StillOpen ==
    ASSUME NEW s, NEW row, NEW told, NEW dry, Trailed(s, row, told, dry), Started(s),
           s.todo # {} \/ s.phase \in {"read", "writing"}
    PROVE  Open(s, row, told)
  BY DEF Trailed, Refused, Closed, Started

LEMMA StaysTrailed ==
    ASSUME NEW s, NEW t, NEW row, NEW told, NEW dry, Trailed(s, row, told, dry), Started(s), SameWork(s, t),
           t.phase \in {"failed", "rows", "writing", "unsure", "dead"},
           t.phase \in {"failed", "writing"} => told = {}
    PROVE  Trailed(t, row, told, dry)
<1>1. SummaryOf(t) = SummaryOf(s) /\ EndOf(t) = EndOf(s)
  BY DEF SameWork, SummaryOf, EndOf, AcceptedOf, RejectedOf
<1> QED
  BY <1>1 DEF Trailed, Open, Refused, Closed, Started, SameWork

LEMMA InHand ==
    ASSUME ImportAssumption, ImportInv, NEW i \in Imports, imp[i].phase \notin {"none", "refused"}
    PROVE  /\ imp[i] \in ImportType /\ Progress(imp[i]) /\ Started(imp[i]) /\ imp[i].file \in Files
           /\ \A n \in imp[i].todo : n \in DOMAIN imp[i].file /\ n \in Nat /\ n \notin DOMAIN imp[i].codes
           /\ IsFiniteSet(DOMAIN imp[i].codes)
<1>1. imp[i] \in ImportType /\ Progress(imp[i]) /\ Started(imp[i])
  BY DEF ImportInv, ImportDomains, Local, Started
<1>2. InOrderOf(imp[i])
  BY <1>1 DEF Progress
<1>3. imp[i].file \in Files /\ DOMAIN imp[i].codes \cup imp[i].todo = RecordsOf(imp[i].file)
  BY <1>2 DEF InOrderOf
<1>4. \A n \in imp[i].todo : n \in DOMAIN imp[i].file /\ n \in Nat /\ n \notin DOMAIN imp[i].codes
  <2>1. \A n \in imp[i].todo : n \in Nat /\ n \in RecordsOf(imp[i].file)
    BY <1>1, <1>3 DEF ImportType
  <2>2. \A n \in imp[i].todo : n \notin DOMAIN imp[i].codes
    BY <1>2, <2>1 DEF InOrderOf
  <2> QED
    BY <2>1, <2>2 DEF RecordsOf
<1>5. IsFiniteSet(DOMAIN imp[i].codes)
  BY <1>3, FileRows, FS_Subset
<1> QED
  BY <1>1, <1>3, <1>4, <1>5

-----------------------------------------------------------------------------
(* The steps of an import.                                                 *)

LEMMA RefuseSteps ==
    ASSUME ImportAssumption, ImportInv, NEW i \in Imports, Refuse(i)
    PROVE  ImportInv'
<1>0. ImportDomains /\ Local(i) /\ imp[i].phase = "none" /\ Progress(imp[i])
  BY DEF ImportInv, Refuse, Phase, Local
<1>1. imp' \in [Imports -> ImportType] /\ Alone(i) /\ imp'[i].phase = "refused" /\ SameWork(imp[i], imp'[i])
  BY <1>0, GoesOne DEF Refuse
<1>2. trail[i] = {} /\ importRows[i].status = None
  BY <1>0 DEF Local, Trailed, Open, Refused, Closed
<1>3. /\ trail' = [trail EXCEPT ![i] = trail[i] \cup {NotAllowed}]
      /\ UNCHANGED <<stored, importRows, written>>
  BY DEF Refuse, NotAllowed
<1>4. trail'[i] = {NotAllowed} /\ trail' = [j \in Imports |-> trail'[j]] /\ \A j \in Imports \ {i} : trail'[j] = trail[j]
  BY <1>0, <1>2, <1>3 DEF ImportDomains
<1>5. ImportDomains' /\ OnlyOf(i)
  BY <1>0, <1>1, <1>3, <1>4 DEF ImportDomains, OnlyOf
<1>6. Progress(imp'[i])
  BY <1>0, <1>1 DEF Progress, Started, SameWork
<1>7. Refused(imp'[i], importRows[i], trail'[i])
  BY <1>1, <1>2, <1>4 DEF Refused
<1>8. i \notin Dry => Told(imp'[i], written[i])
  BY <1>0, <1>1, ToldStays DEF Local, SameWork
<1>9. Local(i)'
  BY <1>0, <1>1, <1>2, <1>3, <1>6, <1>7, <1>8 DEF Local, Trailed
<1> QED
  BY <1>5, <1>9, OthersKeep

LEMMA ReadSteps ==
    ASSUME ImportAssumption, ImportInv, NEW i \in Imports, NEW file \in Files, Read(i, file)
    PROVE  ImportInv'
<1>0. ImportDomains /\ Local(i) /\ imp[i].phase = "none" /\ Progress(imp[i])
  BY DEF ImportInv, Read, Phase, Local
<1> DEFINE todo == RecordsOf(file)
           seenAt == Snapshot(file)
           phase == IF i \in Dry THEN "rows" ELSE "read"
           t == [NoFile EXCEPT !.phase = phase, !.file = file, !.snapshot = seenAt, !.todo = todo]
<1>1. todo \in SUBSET Nat /\ seenAt \in SUBSET Keys
  BY FileRows DEF Snapshot
<1>2. Sets(i, t) /\ UNCHANGED <<stored, importRows, trail, written>>
  BY DEF Read
<1>a. <<>> \in Reports0
  <2>1. <<>> \in [{} -> Reportable] /\ {} \in SUBSET Nat
    OBVIOUS
  <2> QED
    BY <2>1 DEF Reports0
<1>3. /\ t \in ImportType /\ t.phase = phase /\ t.file = file /\ t.snapshot = seenAt /\ t.todo = todo
      /\ t.seen = {} /\ t.codes = <<>>
  <2>1. phase \in {"rows", "read"}
    OBVIOUS
  <2> DEFINE none == <<>>
  <2>2. /\ none \in Reports0
        /\ NoFile = [phase |-> "none", file |-> none, snapshot |-> {}, seen |-> {}, todo |-> {},
                     codes |-> none, tries |-> 0]
    BY <1>a DEF NoFile
  <2> DEFINE base == NoFile
  <2>6. /\ t = [base EXCEPT !.phase = phase, !.file = file, !.snapshot = seenAt, !.todo = todo]
        /\ base = [phase |-> "none", file |-> none, snapshot |-> {}, seen |-> {}, todo |-> {},
                     codes |-> none, tries |-> 0]
    BY <2>2
  <2> HIDE DEF todo, seenAt, phase, none, t, base
  <2>3. t = [phase |-> phase, file |-> file, snapshot |-> seenAt, seen |-> {}, todo |-> todo,
             codes |-> none, tries |-> 0]
    BY <2>6
  <2>4. t \in ImportType
    BY <1>1, <2>1, <2>2, <2>3 DEF ImportType
  <2>5. t.codes = <<>>
    BY <2>3 DEF none
  <2> QED
    BY <2>3, <2>4, <2>5
<1>4. imp'[i] = t /\ Alone(i) /\ imp' \in [Imports -> ImportType]
  BY <1>0, <1>2, <1>3, SetsOne
<1>5. ImportDomains' /\ OnlyOf(i)
  BY <1>0, <1>2, <1>4 DEF ImportDomains, OnlyOf
<1>6. DOMAIN t.codes = {}
  BY <1>3
<1> HIDE DEF t
<1>7. Progress(t)
  <2>1. KeysOf(file, {}) = {}
    BY DEF KeysOf
  <2>2. InOrderOf(t)
    BY <1>3, <1>6, <2>1 DEF InOrderOf
  <2>3. Imported(t)
    BY <1>6 DEF Imported, Accepted
  <2> QED
    BY <1>3, <1>6, <2>2, <2>3 DEF Progress, Started
<1>8. trail[i] = {} /\ importRows[i].status = None
  BY <1>0 DEF Local, Trailed, Open, Refused, Closed
<1>9. Open(t, importRows[i], trail[i])
  BY <1>3, <1>8 DEF Open
<1>10. i \notin Dry => Told(t, written[i])
  <2>1. DOMAIN imp[i].codes = {}
    BY <1>0 DEF Progress, Started
  <2> QED
    BY <1>0, <1>6, <2>1 DEF Local, Told, Accepted
<1>11. Local(i)'
  BY <1>0, <1>2, <1>3, <1>4, <1>7, <1>9, <1>10 DEF Local, Trailed
<1> QED
  BY <1>5, <1>11, OthersKeep

(* The phase alone moves.                                                  *)
LEMMA PhaseSteps ==
    ASSUME ImportAssumption, ImportInv, NEW i \in Imports,
           imp' \in [Imports -> ImportType], Alone(i), SameWork(imp[i], imp'[i]), Started(imp[i]),
           imp'[i].phase \in {"failed", "rows", "writing", "unsure", "dead"},
           imp'[i].phase \in {"failed", "writing"} => trail[i] = {},
           imp'[i].phase = "writing" => Writing(imp[i]) /\ i \notin Dry,
           imp'[i].phase = "unsure" => imp[i].todo = {},
           UNCHANGED <<stored, importRows, trail, written>>
    PROVE  ImportInv'
<1>0. ImportDomains /\ Local(i) /\ Progress(imp[i])
  BY DEF ImportInv, Local
<1>1. ImportDomains' /\ OnlyOf(i)
  BY <1>0 DEF ImportDomains, OnlyOf
<1>2. Progress(imp'[i])
  BY <1>0, WorkKeeps DEF Started
<1>3. Trailed(imp'[i], importRows[i], trail[i], i \in Dry)
  BY <1>0, StaysTrailed DEF Local
<1>4. i \notin Dry => Told(imp'[i], written[i])
  BY <1>0, ToldStays DEF Local, SameWork
<1>5. Local(i)'
  BY <1>0, <1>2, <1>3, <1>4 DEF Local
<1> QED
  BY <1>1, <1>5, OthersKeep

(* A row is reported, and written or not.                                  *)
LEMMA TellsSteps ==
    ASSUME ImportAssumption, ImportInv, NEW i \in Imports, Started(imp[i]),
           NEW n, Least(n, imp[i].todo), NEW code \in Reportable, Reports(i, n, code),
           code = None => FaultAt(imp[i].file, n, imp[i].seen, imp[i].snapshot) = None /\ imp[i].file[n].slot # None,
           \/ UNCHANGED written /\ (i \in Dry \/ code # None)
           \/ /\ written' = [written EXCEPT ![i] = written[i] \cup {Key(imp[i].file[n])}]
              /\ i \notin Dry /\ code \in {None, "unexpected"},
           stored' = [k \in Keys |-> stored'[k]], UNCHANGED <<importRows, trail>>
    PROVE  ImportInv'
<1>0. ImportDomains /\ Local(i)
  BY DEF ImportInv, Local
<1>1. /\ imp[i] \in ImportType /\ Progress(imp[i]) /\ imp[i].file \in Files
      /\ n \in imp[i].todo /\ n \in DOMAIN imp[i].file /\ n \notin DOMAIN imp[i].codes
  BY InHand DEF Started, Least
<1>2. imp' \in [Imports -> ImportType] /\ Alone(i) /\ Reported(imp[i], imp'[i], n, code)
  BY <1>0, <1>1, ReportsOne
<1>3. imp'[i] \in ImportType
  BY <1>2
<1>4. Progress(imp'[i])
  BY <1>1, <1>2, <1>3, TellsKeeps
<1>5. written' = [j \in Imports |-> written'[j]] /\ \A j \in Imports \ {i} : written'[j] = written[j]
  BY <1>0 DEF ImportDomains
<1>6. ImportDomains' /\ OnlyOf(i)
  BY <1>0, <1>2, <1>5 DEF ImportDomains, OnlyOf
<1>7. Open(imp[i], importRows[i], trail[i])
  BY <1>0, <1>1, StillOpen DEF Local
<1>8. Trailed(imp'[i], importRows[i], trail[i], i \in Dry)
  BY <1>2, <1>7 DEF Trailed, Open, Reported
<1>9. ASSUME i \notin Dry
      PROVE  Told(imp'[i], written'[i])
  <2>1. Told(imp[i], written[i])
    BY <1>0, <1>9 DEF Local
  <2>2. \/ written'[i] = written[i] /\ code # None
        \/ written'[i] = written[i] \cup {Key(imp[i].file[n])} /\ code \in {None, "unexpected"}
    BY <1>0, <1>9 DEF ImportDomains
  <2> QED
    BY <1>1, <1>2, <2>1, <2>2, ToldOn
<1>10. i \in Dry => written'[i] = {} /\ imp'[i].phase = "rows"
  BY <1>0, <1>2 DEF Local, Reported
<1>11. Local(i)'
  BY <1>0, <1>2, <1>4, <1>8, <1>9, <1>10 DEF Local
<1> QED
  BY <1>6, <1>11, OthersKeep

LEMMA RowFaultIs ==
    ASSUME NEW i, NEW n
    PROVE  RowFault(i, n) = FaultAt(imp[i].file, n, imp[i].seen, imp[i].snapshot)
  BY DEF RowFault, FaultAt

LEMMA FaultsAreCodes ==
    ASSUME NEW row, NEW key
    PROVE  PreviewFault(row) \in Reportable /\ InsertFault(key) \in Reportable
  BY DEF PreviewFault, InsertFault, Reportable, Codes

LEMMA LeastIsMin ==
    ASSUME NEW S \in SUBSET Nat, NEW n, Least(n, S)
    PROVE  Min(S) = n
<1>1. n \in S /\ \A y \in S : n <= y
  BY DEF Least
<1> DEFINE m == Min(S)
<1>2. m \in S /\ \A y \in S : m <= y
  BY <1>1 DEF Min
<1> HIDE DEF m
<1>3. m <= n /\ n <= m /\ m \in Nat /\ n \in Nat
  BY <1>1, <1>2
<1>4. m = n
  BY <1>3
<1> QED
  BY <1>4 DEF m

(* The row that is being written.                                          *)
LEMMA WritingRow ==
    ASSUME ImportAssumption, ImportInv, NEW i \in Imports, Phase(i, "writing")
    PROVE  /\ Started(imp[i]) /\ i \notin Dry /\ Least(Min(imp[i].todo), imp[i].todo)
           /\ FaultAt(imp[i].file, Min(imp[i].todo), imp[i].seen, imp[i].snapshot) = None
           /\ imp[i].file[Min(imp[i].todo)].slot # None
<1>1. Local(i) /\ imp[i].phase = "writing" /\ imp[i] \in ImportType
  BY DEF ImportInv, ImportDomains, Phase
<1>2. i \notin Dry /\ Writing(imp[i]) /\ Started(imp[i])
  BY <1>1 DEF Local, Progress, Started
<1>3. PICK n \in imp[i].todo :
          Least(n, imp[i].todo) /\ FaultAt(imp[i].file, n, imp[i].seen, imp[i].snapshot) = None
          /\ imp[i].file[n].slot # None
  BY <1>2 DEF Writing
<1>4. imp[i].todo \in SUBSET Nat
  BY <1>1 DEF ImportType
<1>5. Min(imp[i].todo) = n
  BY <1>3, <1>4, LeastIsMin
<1> QED
  BY <1>2, <1>3, <1>5

LEMMA OpenBatchSteps ==
    ASSUME ImportAssumption, ImportInv, NEW i \in Imports, OpenBatch(i)
    PROVE  ImportInv'
<1>0. ImportDomains /\ Local(i) /\ imp[i].phase = "read" /\ Started(imp[i])
  BY DEF ImportInv, OpenBatch, Phase, Started
<1>1. Open(imp[i], importRows[i], trail[i])
  BY <1>0, StillOpen DEF Local
<1>2. CASE "unopened" \in ImportFaults /\ Goes(i, "failed") /\ UNCHANGED importRows
  <2>1. imp' \in [Imports -> ImportType] /\ Alone(i) /\ imp'[i].phase = "failed" /\ SameWork(imp[i], imp'[i])
    BY <1>0, <1>2, GoesOne
  <2>2. UNCHANGED <<stored, importRows, trail, written>>
    BY <1>2 DEF OpenBatch
  <2> QED
    BY <1>0, <1>1, <2>1, <2>2, PhaseSteps DEF Open
<1>3. CASE importRows' = [importRows EXCEPT ![i].status = "processing"] /\ Goes(i, "rows")
  <2>1. imp' \in [Imports -> ImportType] /\ Alone(i) /\ imp'[i].phase = "rows" /\ SameWork(imp[i], imp'[i])
    BY <1>0, <1>3, GoesOne
  <2>2. UNCHANGED <<stored, trail, written>>
    BY DEF OpenBatch
  <2>3. importRows[i] \in RowType
    BY <1>0 DEF ImportDomains
  <2>4. [importRows[i] EXCEPT !.status = "processing"] \in RowType
    BY <2>3 DEF RowType
  <2>5. importRows' = [importRows EXCEPT ![i] = [importRows[i] EXCEPT !.status = "processing"]]
    BY <1>3
  <2>6. importRows' \in [Imports -> RowType] /\ \A j \in Imports \ {i} : importRows'[j] = importRows[j]
    BY <1>0, <2>4, <2>5 DEF ImportDomains
  <2>7. importRows'[i].status = "processing"
    BY <1>0, <2>3, <2>5 DEF ImportDomains, RowType
  <2>8. ImportDomains' /\ OnlyOf(i)
    BY <1>0, <2>1, <2>2, <2>6 DEF ImportDomains, OnlyOf
  <2>9. Progress(imp'[i])
    BY <1>0, <2>1, WorkKeeps DEF Local, Started
  <2>10. Open(imp'[i], importRows'[i], trail[i])
    BY <1>1, <2>1, <2>7 DEF Open
  <2>11. i \notin Dry => Told(imp'[i], written[i])
    BY <1>0, <2>1, ToldStays DEF Local, SameWork
  <2>12. Local(i)'
    BY <1>0, <2>1, <2>2, <2>9, <2>10, <2>11 DEF Local, Trailed
  <2> QED
    BY <2>8, <2>12, OthersKeep
<1> QED
  BY <1>2, <1>3 DEF OpenBatch

LEMMA RefuseRowSteps ==
    ASSUME ImportAssumption, ImportInv, NEW i \in Imports, NEW n, RefuseRow(i, n)
    PROVE  ImportInv'
<1>1. /\ Started(imp[i]) /\ Least(n, imp[i].todo) /\ RowFault(i, n) # None /\ Reports(i, n, RowFault(i, n))
      /\ UNCHANGED <<stored, importRows, trail, written>>
  BY DEF RefuseRow, Turn, Phase, Started, Least
<1> DEFINE code == RowFault(i, n)
<1>2. code \in Reportable
  BY RowFaultIs, FaultIsCode
<1>3. code # None /\ Reports(i, n, code)
  BY <1>1
<1> HIDE DEF code
<1>4. stored' = [k \in Keys |-> stored'[k]]
  BY <1>1 DEF ImportInv, ImportDomains
<1> QED
  BY <1>1, <1>2, <1>3, <1>4, TellsSteps

LEMMA PreviewRowSteps ==
    ASSUME ImportAssumption, ImportInv, NEW i \in Imports, NEW n, PreviewRow(i, n)
    PROVE  ImportInv'
<1>1. /\ Started(imp[i]) /\ imp[i].phase = "rows" /\ Least(n, imp[i].todo)
      /\ FaultAt(imp[i].file, n, imp[i].seen, imp[i].snapshot) = None
      /\ UNCHANGED <<stored, importRows, trail, written>>
  BY RowFaultIs DEF PreviewRow, Turn, Phase, Started, Least
<1> DEFINE code == PreviewFault(imp[i].file[n])
<1>2. code \in Reportable
  BY FaultsAreCodes
<1>3. code = None => imp[i].file[n].slot # None
  BY DEF PreviewFault, ImportAssumption, Codes
<1>4. stored' = [k \in Keys |-> stored'[k]] /\ ImportDomains /\ Local(i)
  BY <1>1 DEF ImportInv, ImportDomains
<1>5. \/ (code # None \/ i \in Dry) /\ Reports(i, n, code)
      \/ code = None /\ i \notin Dry /\ Goes(i, "writing")
  BY DEF PreviewRow, Issue
<1> HIDE DEF code
<1>6. CASE (code # None \/ i \in Dry) /\ Reports(i, n, code)
  BY <1>1, <1>2, <1>3, <1>4, <1>6, TellsSteps
<1>7. CASE code = None /\ i \notin Dry /\ Goes(i, "writing")
  <2>1. imp' \in [Imports -> ImportType] /\ Alone(i) /\ imp'[i].phase = "writing" /\ SameWork(imp[i], imp'[i])
    BY <1>4, <1>7, GoesOne
  <2>2. Writing(imp[i])
    BY <1>1, <1>3, <1>7 DEF Writing, Least
  <2>3. Open(imp[i], importRows[i], trail[i])
    BY <1>1, <1>4, StillOpen DEF Local, Least
  <2> QED
    BY <1>1, <1>7, <2>1, <2>2, <2>3, PhaseSteps DEF Open
<1> QED
  BY <1>5, <1>6, <1>7

LEMMA InsertRowSteps ==
    ASSUME ImportAssumption, ImportInv, NEW i \in Imports, InsertRow(i) \/ FailRow(i)
    PROVE  ImportInv'
<1> DEFINE n == Min(imp[i].todo)
           key == Key(imp[i].file[n])
<1>1. Phase(i, "writing") /\ UNCHANGED <<importRows, trail>>
  BY DEF InsertRow, FailRow
<1>2. /\ Started(imp[i]) /\ i \notin Dry /\ Least(n, imp[i].todo) /\ imp[i].file[n].slot # None
      /\ FaultAt(imp[i].file, n, imp[i].seen, imp[i].snapshot) = None
  BY <1>1, WritingRow
<1>3. InsertFault(key) \in Reportable /\ None \in Reportable /\ "unexpected" \in Reportable /\ "unexpected" # None
  BY FaultsAreCodes DEF Reportable, Codes, ImportAssumption
<1>4. /\ stored = [k \in Keys |-> stored[k]]
  BY DEF ImportInv, ImportDomains
<1>5. \/ /\ stored' = [stored EXCEPT ![key] = i] /\ written' = [written EXCEPT ![i] = written[i] \cup {key}]
         /\ Reports(i, n, None) \/ Reports(i, n, "unexpected")
      \/ InsertFault(key) # None /\ Reports(i, n, InsertFault(key)) /\ UNCHANGED <<stored, written>>
      \/ Reports(i, n, "unexpected") /\ UNCHANGED <<stored, written>>
  BY DEF InsertRow, FailRow, Issue
<1> DEFINE code == InsertFault(key)
<1> HIDE DEF n, code
<1>6. stored' = [k \in Keys |-> stored'[k]]
  BY <1>4, <1>5
<1>7. CASE /\ written' = [written EXCEPT ![i] = written[i] \cup {key}]
           /\ Reports(i, n, None) \/ Reports(i, n, "unexpected")
  BY <1>1, <1>2, <1>3, <1>6, <1>7, TellsSteps
<1>8. CASE code # None /\ Reports(i, n, code) /\ UNCHANGED <<stored, written>>
  <2>1. code \in Reportable
    BY <1>3 DEF code
  <2> QED
    BY <1>1, <1>2, <1>6, <1>8, <2>1, TellsSteps
<1>9. CASE Reports(i, n, "unexpected") /\ UNCHANGED <<stored, written>>
  BY <1>1, <1>2, <1>3, <1>6, <1>9, TellsSteps
<1> QED
  BY <1>5, <1>7, <1>8, <1>9 DEF code

LEMMA DeferSteps ==
    ASSUME ImportAssumption, ImportInv, NEW i \in Imports, Defer(i)
    PROVE  ImportInv'
<1>0. /\ ImportDomains /\ Local(i) /\ imp[i].phase = "rows" /\ imp[i].todo # {} /\ Started(imp[i])
      /\ UNCHANGED <<stored, importRows, trail, written>>
  BY DEF ImportInv, Defer, Phase, Started
<1>1. imp[i] \in ImportType /\ Progress(imp[i])
  BY <1>0 DEF ImportDomains, Local
<1> DEFINE codes == With(imp[i].codes, imp[i].todo, Late)
           t == [imp[i] EXCEPT !.todo = {}, !.codes = codes]
<1>2. codes \in Reports0
  <2>1. imp[i].codes \in Reports0 /\ imp[i].todo \in SUBSET Nat /\ Late \in Reportable
    BY <1>1 DEF ImportType, Reportable, Codes
  <2> QED
    BY <2>1, WithTyped
<1>3. Sets(i, t)
  BY DEF Defer, LateCodes, Coded, With
<1> HIDE DEF codes
<1>4. /\ t \in ImportType /\ t.phase = "rows" /\ t.file = imp[i].file /\ t.snapshot = imp[i].snapshot
      /\ t.seen = imp[i].seen /\ t.todo = {} /\ t.codes = codes
  BY <1>0, <1>1, <1>2 DEF ImportType
<1>5. imp'[i] = t /\ Alone(i) /\ imp' \in [Imports -> ImportType]
  BY <1>0, <1>3, <1>4, SetsOne
<1> HIDE DEF t
<1>6. TellsRest(imp[i], t)
  BY <1>4 DEF TellsRest, codes
<1>7. ImportDomains' /\ OnlyOf(i)
  BY <1>0, <1>5 DEF ImportDomains, OnlyOf
<1>8. Progress(t) /\ Accepted(t.codes) = Accepted(imp[i].codes)
  BY <1>0, <1>1, <1>4, <1>6, TellsRestKeeps
<1>9. Open(t, importRows[i], trail[i])
  BY <1>0, <1>4, StillOpen DEF Local, Open
<1>10. ASSUME i \notin Dry
       PROVE  Told(t, written[i])
  <2>1. Told(imp[i], written[i])
    BY <1>0, <1>10 DEF Local
  <2>2. \A n \in DOMAIN imp[i].codes : n \notin imp[i].todo
    BY <1>0, InHand DEF Started
  <2>3. \A n \in DOMAIN imp[i].codes : n \in DOMAIN t.codes /\ t.codes[n] = imp[i].codes[n]
    BY <1>4, <2>2 DEF codes, With
  <2> QED
    BY <1>4, <1>8, <2>1, <2>3 DEF Told
<1>11. Local(i)'
  BY <1>0, <1>4, <1>5, <1>8, <1>9, <1>10 DEF Local, Trailed
<1> QED
  BY <1>7, <1>11, OthersKeep

(* The summary and the batch's end are written once, from the same report. *)
LEMMA WritesOnce ==
    ASSUME ImportAssumption, ImportInv, NEW i \in Imports, Phase(i, "rows"), imp[i].todo = {},
           Writes(i)
    PROVE  /\ Closed(imp[i], importRows'[i], trail'[i], i \in Dry)
           /\ importRows' \in [Imports -> RowType] /\ trail' = [j \in Imports |-> trail'[j]]
           /\ \A j \in Imports \ {i} : importRows'[j] = importRows[j] /\ trail'[j] = trail[j]
<1>0. ImportDomains /\ Local(i) /\ imp[i].phase = "rows" /\ Started(imp[i])
  BY DEF ImportInv, Phase, Started
<1>1. CASE trail[i] # {}
  <2>1. UNCHANGED <<importRows, trail>>
    BY <1>1 DEF Writes
  <2>2. Closed(imp[i], importRows[i], trail[i], i \in Dry)
    BY <1>0, <1>1 DEF Local, Trailed, Open, Refused
  <2> QED
    BY <1>0, <2>1, <2>2 DEF ImportDomains
<1>2. CASE trail[i] = {}
  <2>1. Open(imp[i], importRows[i], trail[i])
    BY <1>0, <1>2 DEF Local, Trailed, Refused, Closed
  <2> DEFINE ended == EndOf(imp[i])
             told == {SummaryOf(imp[i])}
  <2>2. ended \in RowType
    <3>1. IsFiniteSet(DOMAIN imp[i].codes)
      BY <1>0, InHand DEF Started
    <3>2. IsFiniteSet(Accepted(imp[i].codes)) /\ IsFiniteSet(Deferred(imp[i].codes))
      <4>1. Accepted(imp[i].codes) \subseteq DOMAIN imp[i].codes /\ Deferred(imp[i].codes) \subseteq DOMAIN imp[i].codes
        BY DEF Accepted, Deferred
      <4> QED
        BY <3>1, <4>1, FS_Subset
    <3>3. /\ Cardinality(DOMAIN imp[i].codes) \in Nat /\ AcceptedOf(imp[i]) \in Nat
          /\ Cardinality(Deferred(imp[i].codes)) \in Nat
      BY <3>1, <3>2, FS_CardinalityType DEF AcceptedOf
    <3>4. AcceptedOf(imp[i]) \in Int /\ RejectedOf(imp[i]) \in Int
      BY <3>3 DEF RejectedOf
    <3> QED
      BY <3>4 DEF EndOf, RowType
  <2>3. /\ Summary(i) = SummaryOf(imp[i])
        /\ [status |-> IF DeferredBy(i) = {} THEN "completed" ELSE "failed",
            accepted |-> Accepts(i), rejected |-> Rejects(i)] = EndOf(imp[i])
    BY DEF Summary, SummaryOf, EndOf, AcceptedOf, RejectedOf, Accepts, Rejects, AcceptedBy, DeferredBy,
           Accepted, Deferred
  <2>4. /\ importRows' = IF i \in Dry THEN importRows ELSE [importRows EXCEPT ![i] = ended]
        /\ trail' = [trail EXCEPT ![i] = told]
    BY <1>2, <2>3 DEF Writes, Closes
  <2> HIDE DEF ended, told
  <2>5. /\ importRows' \in [Imports -> RowType] /\ trail' = [j \in Imports |-> trail'[j]]
        /\ \A j \in Imports \ {i} : importRows'[j] = importRows[j] /\ trail'[j] = trail[j]
        /\ trail'[i] = told
    BY <1>0, <2>2, <2>4 DEF ImportDomains
  <2>6. IF i \in Dry THEN importRows'[i] = importRows[i] ELSE importRows'[i] = ended
    BY <1>0, <2>4 DEF ImportDomains
  <2>7. Closed(imp[i], importRows'[i], trail'[i], i \in Dry)
    BY <1>0, <2>5, <2>6 DEF Closed, ended, told, Local
  <2> QED
    BY <2>5, <2>7
<1> QED
  BY <1>1, <1>2

LEMMA FinalizeSteps ==
    ASSUME ImportAssumption, ImportInv, NEW i \in Imports, Finalize(i)
    PROVE  ImportInv'
<1>0. /\ ImportDomains /\ Local(i) /\ imp[i].phase = "rows" /\ imp[i].todo = {} /\ Started(imp[i])
      /\ Phase(i, "rows") /\ imp[i] \in ImportType /\ UNCHANGED <<stored, written>>
  BY DEF ImportInv, ImportDomains, Finalize, Phase, Started
<1>1. PICK phase \in {"done", "rows", "unsure"} :
          /\ imp' \in [Imports -> ImportType] /\ Alone(i) /\ imp'[i].phase = phase /\ SameWork(imp[i], imp'[i])
          /\ Writes(i) \/ (phase # "done" /\ UNCHANGED <<importRows, trail>>)
  <2>1. CASE Writes(i) /\ Goes(i, "done")
    BY <1>0, <2>1, GoesOne
  <2>2. CASE /\ Writes(i) \/ UNCHANGED <<importRows, trail>>
             /\ Sets(i, [imp[i] EXCEPT !.phase = Tried(imp[i].tries), !.tries = (@ + 1) % 3])
    <3> DEFINE phase == Tried(imp[i].tries)
               tries == (imp[i].tries + 1) % 3
               t == [imp[i] EXCEPT !.phase = phase, !.tries = tries]
    <3>1. phase \in {"rows", "unsure"} /\ tries \in 0..2
      BY <1>0 DEF Tried, ImportType
    <3>2. Sets(i, t)
      BY <2>2
    <3> HIDE DEF phase, tries
    <3>3. t \in ImportType /\ t.phase = phase /\ SameWork(imp[i], t)
      BY <1>0, <3>1 DEF ImportType, SameWork
    <3>4. imp'[i] = t /\ Alone(i) /\ imp' \in [Imports -> ImportType]
      BY <1>0, <3>2, <3>3, SetsOne
    <3>5. phase \in {"done", "rows", "unsure"} /\ phase # "done"
      BY <3>1
    <3> QED
      BY <2>2, <3>3, <3>4, <3>5
  <2> QED
    BY <2>1, <2>2 DEF Finalize
<1>2. CASE phase # "done" /\ UNCHANGED <<importRows, trail>>
  BY <1>0, <1>1, <1>2, PhaseSteps
<1>3. CASE Writes(i)
  <2>1. /\ Closed(imp[i], importRows'[i], trail'[i], i \in Dry)
        /\ importRows' \in [Imports -> RowType] /\ trail' = [j \in Imports |-> trail'[j]]
        /\ \A j \in Imports \ {i} : importRows'[j] = importRows[j] /\ trail'[j] = trail[j]
    BY <1>0, <1>3, WritesOnce
  <2>2. ImportDomains' /\ OnlyOf(i)
    BY <1>0, <1>1, <2>1 DEF ImportDomains, OnlyOf
  <2>3. Progress(imp'[i])
    BY <1>0, <1>1, WorkKeeps DEF Local, Started
  <2>4. SummaryOf(imp'[i]) = SummaryOf(imp[i]) /\ EndOf(imp'[i]) = EndOf(imp[i])
    BY <1>1 DEF SameWork, SummaryOf, EndOf, AcceptedOf, RejectedOf
  <2>5. Closed(imp'[i], importRows'[i], trail'[i], i \in Dry)
    BY <1>0, <1>1, <2>1, <2>4 DEF Closed, SameWork
  <2>6. i \notin Dry => Told(imp'[i], written[i])
    BY <1>0, <1>1, ToldStays DEF Local, SameWork
  <2>7. i \in Dry => importRows'[i].status = None
    BY <2>1 DEF Closed
  <2>8. Local(i)'
    BY <1>0, <1>1, <2>3, <2>5, <2>6, <2>7 DEF Local, Trailed
  <2> QED
    BY <2>2, <2>8, OthersKeep
<1> QED
  BY <1>1, <1>2, <1>3

LEMMA DieSteps ==
    ASSUME ImportAssumption, ImportInv, NEW i \in Imports, Die(i)
    PROVE  ImportInv'
<1>0. ImportDomains /\ Started(imp[i]) /\ Goes(i, "dead") /\ UNCHANGED <<stored, importRows, trail, written>>
  BY DEF ImportInv, Die, Started
<1>1. imp' \in [Imports -> ImportType] /\ Alone(i) /\ imp'[i].phase = "dead" /\ SameWork(imp[i], imp'[i])
  BY <1>0, GoesOne
<1> QED
  BY <1>0, <1>1, PhaseSteps

LEMMA OtherSteps ==
    ASSUME ImportInv, \/ UNCHANGED importVars
                      \/ \E key \in Keys : Create(key) \/ Withdraw(key)
                      \/ \E slot \in FileSlots : Lock(slot) \/ Unlock(slot)
    PROVE  ImportInv'
<1>1. UNCHANGED <<imp, importRows, trail, written>>
  BY DEF importVars, Create, Withdraw, Lock, Unlock, OtherWrites
<1>2. stored' = [k \in Keys |-> stored'[k]]
  BY DEF importVars, Create, Withdraw, Lock, Unlock, ImportInv, ImportDomains
<1>3. ImportDomains'
  BY <1>1, <1>2 DEF ImportInv, ImportDomains
<1> QED
  BY <1>1, <1>3 DEF ImportInv, Local

LEMMA ReadsAFile ==
    ASSUME ImportInv, NEW file \in ToRead
    PROVE  file \in Files
  BY DEF ToRead, ImportInv, ImportDomains, ImportType

LEMMA ImportSteps == ASSUME ImportAssumption PROVE ImportInv /\ [ImportNext]_importVars => ImportInv'
<1> SUFFICES ASSUME ImportInv, [ImportNext]_importVars
             PROVE  ImportInv'
  OBVIOUS
<1>1. ASSUME NEW i \in Imports,
             Refuse(i) \/ (\E file \in ToRead : Read(i, file)) \/ Step(i) \/ Die(i)
      PROVE  ImportInv'
  <2>1. ASSUME NEW file \in ToRead, Read(i, file)
        PROVE  ImportInv'
    BY <2>1, ReadsAFile, ReadSteps
  <2>2. CASE Step(i)
    <3>1. CASE \E n \in DOMAIN imp[i].file : RefuseRow(i, n) \/ PreviewRow(i, n)
      BY <3>1, RefuseRowSteps, PreviewRowSteps
    <3>2. CASE OpenBatch(i) \/ InsertRow(i) \/ FailRow(i) \/ Defer(i) \/ Finalize(i)
      BY <3>2, OpenBatchSteps, InsertRowSteps, DeferSteps, FinalizeSteps
    <3> QED
      BY <2>2, <3>1, <3>2 DEF Step
  <2> QED
    BY <1>1, <2>1, <2>2, RefuseSteps, DieSteps
<1>2. CASE \/ UNCHANGED importVars
           \/ \E key \in Keys : Create(key) \/ Withdraw(key)
           \/ \E slot \in FileSlots : Lock(slot) \/ Unlock(slot)
  BY <1>2, OtherSteps
<1> QED
  BY <1>1, <1>2 DEF ImportNext

LEMMA ImportInitially == ASSUME ImportAssumption PROVE ImportInit => ImportInv
<1> SUFFICES ASSUME ImportInit
             PROVE  ImportInv
  OBVIOUS
<1> DEFINE none == <<>>
<1>1. none \in Reports0 /\ DOMAIN none = {} /\ none \in {<<>>}
  <2>1. <<>> \in [{} -> Reportable] /\ {} \in SUBSET Nat
    OBVIOUS
  <2> QED
    BY <2>1 DEF Reports0
<1>2. NoFile = [phase |-> "none", file |-> none, snapshot |-> {}, seen |-> {}, todo |-> {},
                codes |-> none, tries |-> 0]
  BY DEF NoFile
<1> HIDE DEF none
<1>3. NoFile \in ImportType
  BY <1>1, <1>2 DEF ImportType
<1>4. NoBatch \in RowType /\ NoBatch.status = None
  BY DEF NoBatch, RowType
<1>5. ImportDomains
  <2>1. stored = [k \in Keys |-> stored[k]]
    BY DEF ImportInit
  <2> QED
    BY <1>3, <1>4, <2>1 DEF ImportInit, ImportDomains
<1>6. ASSUME NEW i \in Imports
      PROVE  Local(i)
  <2>1. imp[i] = NoFile /\ importRows[i] = NoBatch /\ trail[i] = {} /\ written[i] = {}
    BY DEF ImportInit
  <2>2. NoFile.phase = "none" /\ NoFile.todo = {} /\ DOMAIN NoFile.codes = {}
    BY <1>1, <1>2
  <2>3. Progress(NoFile) /\ Told(NoFile, {}) /\ Open(NoFile, NoBatch, {})
    BY <1>4, <2>2 DEF Progress, Started, Told, Accepted, Open
  <2> QED
    BY <1>4, <2>1, <2>2, <2>3 DEF Local, Trailed
<1> QED
  BY <1>5, <1>6 DEF ImportInv

(* ImportInv holds always.                                                 *)
LEMMA ImportInvariant == ASSUME ImportAssumption PROVE ImportSpec => []ImportInv
  BY ImportInitially, ImportSteps, PTL DEF ImportSpec

-----------------------------------------------------------------------------
(* What it says of the report.                                             *)

LEMMA AnsweredInHand ==
    ASSUME ImportAssumption, ImportInv, NEW i \in Imports, Answered(i)
    PROVE  /\ Progress(imp[i]) /\ InOrderOf(imp[i]) /\ Imported(imp[i]) /\ imp[i].file \in Files
           /\ DOMAIN imp[i].codes = RecordsOf(imp[i].file) /\ IsFiniteSet(DOMAIN imp[i].codes)
<1>1. imp[i].phase \in {"done", "unsure"} /\ Started(imp[i])
  BY DEF Answered, Started
<1>2. Progress(imp[i]) /\ imp[i].todo = {}
  BY <1>1 DEF ImportInv, Local, Progress
<1>3. InOrderOf(imp[i]) /\ Imported(imp[i])
  BY <1>1, <1>2 DEF Progress
<1>4. DOMAIN imp[i].codes = RecordsOf(imp[i].file) /\ imp[i].file \in Files
  BY <1>2, <1>3 DEF InOrderOf
<1> QED
  BY <1>2, <1>3, <1>4, FileRows

LEMMA EveryRowReportedHolds == ASSUME ImportAssumption, ImportInv PROVE EveryRowReported
<1> SUFFICES ASSUME NEW i \in Imports, Answered(i), NEW m \in DOMAIN imp[i].file
             PROVE  Cardinality({n \in DOMAIN imp[i].codes : m \in Lines(imp[i].file, n)}) = 1
  BY DEF EveryRowReported
<1>1. imp[i].file \in Files /\ DOMAIN imp[i].codes = RecordsOf(imp[i].file)
  BY AnsweredInHand
<1> DEFINE file == imp[i].file
<1>2. Cardinality({n \in RecordsOf(file) : m \in Lines(file, n)}) = 1
  <2>1. file \in Files /\ m \in DOMAIN file
    BY <1>1
  <2> HIDE DEF file
  <2> QED
    BY <2>1, OneRecordOfRow
<1> QED
  BY <1>1, <1>2

LEMMA GroupsWholeHolds == ASSUME ImportAssumption, ImportInv PROVE GroupsWhole
<1> SUFFICES ASSUME NEW i \in Imports, NEW n \in AcceptedBy(i),
                    \E m \in Lines(imp[i].file, n) : Refrigerant(imp[i].file[m]) /\ imp[i].file[m].equip # None,
                    NEW m \in DOMAIN imp[i].file
             PROVE  /\ Key(imp[i].file[m]) = Key(imp[i].file[n]) => m \in Lines(imp[i].file, n)
                    /\ m \in Lines(imp[i].file, n) => imp[i].file[m].equip # None
  BY DEF GroupsWhole
<1>1. Progress(imp[i]) /\ n \in DOMAIN imp[i].codes /\ n \in Accepted(imp[i].codes)
  BY DEF ImportInv, Local, AcceptedBy, Accepted
<1>2. InOrderOf(imp[i]) /\ Imported(imp[i])
  BY <1>1 DEF Progress
<1>3. imp[i].file \in Files /\ n \in DOMAIN imp[i].file /\ CellFault(imp[i].file, n) = None
  BY <1>1, <1>2 DEF InOrderOf, Imported, RecordsOf
<1> QED
  BY <1>3, GroupOfWhole

LEMMA ReportTrueHolds == ASSUME ImportAssumption, ImportInv PROVE ReportTrue
<1> SUFFICES ASSUME NEW i \in Imports, i \notin Dry, Answered(i)
             PROVE  LET file == imp[i].file
                        keys(codes) == {Key(file[n]) : n \in {m \in DOMAIN imp[i].codes : imp[i].codes[m] \in codes}}
                    IN  /\ keys({None}) \subseteq written[i]
                        /\ written[i] \subseteq keys({None, "unexpected"})
                        /\ Cardinality(keys({None})) = Accepts(i)
  BY DEF ReportTrue
<1> DEFINE file == imp[i].file
           codes == imp[i].codes
           keys(cs) == {Key(file[n]) : n \in {m \in DOMAIN codes : codes[m] \in cs}}
           accepted == Accepted(codes)
           own == {Key(file[n]) : n \in accepted}
<1>1. Told(imp[i], written[i]) /\ Imported(imp[i]) /\ IsFiniteSet(DOMAIN codes)
  BY AnsweredInHand DEF ImportInv, Local
<1>2. {m \in DOMAIN codes : codes[m] \in {None}} = accepted
  BY DEF Accepted
<1>3. keys({None}) = own
  BY <1>2
<1>4. own \subseteq written[i]
  BY <1>1 DEF Told
<1>5. written[i] \subseteq keys({None, "unexpected"})
  BY <1>1 DEF Told
<1>6. Cardinality(own) = Cardinality(accepted)
  <2>1. \A n, m \in accepted : Key(file[n]) = Key(file[m]) => n = m
    BY <1>1 DEF Imported
  <2>2. IsFiniteSet(accepted)
    <3>1. accepted \subseteq DOMAIN codes
      BY DEF Accepted
    <3> QED
      BY <1>1, <3>1, FS_Subset
  <2> DEFINE f == [n \in accepted |-> Key(file[n])]
  <2> HIDE DEF accepted, file
  <2>3. f \in Bijection(accepted, own)
    BY <2>1 DEF Bijection, Injection, Surjection, IsInjective
  <2>4. ExistsBijection(accepted, own)
    BY <2>3 DEF ExistsBijection
  <2> HIDE DEF f, own
  <2> QED
    BY <2>2, <2>4, FS_Bijection
<1>7. Accepts(i) = Cardinality(accepted)
  BY DEF Accepts, AcceptedBy, Accepted
<1> HIDE DEF accepted, own
<1>8. /\ keys({None}) \subseteq written[i]
      /\ written[i] \subseteq keys({None, "unexpected"})
      /\ Cardinality(keys({None})) = Accepts(i)
  BY <1>3, <1>4, <1>5, <1>6, <1>7
<1> QED
  BY <1>8

LEMMA AllSettled ==
    ASSUME NEW s, IsFiniteSet(DOMAIN s.codes)
    PROVE  Deferred(s.codes) = {} <=> AcceptedOf(s) + RejectedOf(s) = Cardinality(DOMAIN s.codes)
<1> DEFINE a == AcceptedOf(s)
           d == Cardinality(DOMAIN s.codes)
           l == Cardinality(Deferred(s.codes))
<1>1. IsFiniteSet(Accepted(s.codes)) /\ IsFiniteSet(Deferred(s.codes))
  <2>1. Accepted(s.codes) \subseteq DOMAIN s.codes /\ Deferred(s.codes) \subseteq DOMAIN s.codes
    BY DEF Accepted, Deferred
  <2> QED
    BY <2>1, FS_Subset
<1>2. a \in Nat /\ d \in Nat /\ l \in Nat
  BY <1>1, FS_CardinalityType DEF AcceptedOf
<1>3. l = 0 <=> Deferred(s.codes) = {}
  BY <1>1, FS_EmptySet
<1>4. RejectedOf(s) = d - a - l
  BY DEF RejectedOf
<1> HIDE DEF a, d, l
<1>5. l = 0 <=> a + (d - a - l) = d
  BY <1>2
<1> QED
  BY <1>3, <1>4, <1>5 DEF a, d

LEMMA BatchAgreesHolds == ASSUME ImportAssumption, ImportInv PROVE BatchAgrees
<1> SUFFICES ASSUME NEW i \in Imports \ Dry
             PROVE  /\ importRows[i].status \in {"completed", "failed"} <=> \E s \in trail[i] : ~s.refused
                    /\ \A s \in trail[i] : ~s.refused =>
                         /\ s = [refused |-> FALSE, accepted |-> importRows[i].accepted, rejected |-> importRows[i].rejected]
                         /\ importRows[i].status = "completed" <=> s.accepted + s.rejected = Cardinality(RecordsOf(imp[i].file))
                    /\ imp[i].phase = "done" => trail[i] = {Summary(i)}
  BY DEF BatchAgrees
<1>1. Local(i) /\ None \notin {"completed", "failed"}
  BY DEF ImportInv, ImportAssumption, BatchStatuses
<1>2. CASE Open(imp[i], importRows[i], trail[i])
  BY <1>2, <1>1 DEF Open
<1>3. CASE Refused(imp[i], importRows[i], trail[i])
  BY <1>3, <1>1 DEF Refused, NotAllowed
<1>4. CASE Closed(imp[i], importRows[i], trail[i], i \in Dry)
  <2>1. trail[i] = {SummaryOf(imp[i])} /\ importRows[i] = EndOf(imp[i]) /\ imp[i].todo = {} /\ Started(imp[i])
    BY <1>4 DEF Closed, Started
  <2>2. DOMAIN imp[i].codes = RecordsOf(imp[i].file) /\ IsFiniteSet(DOMAIN imp[i].codes)
    <3>1. InOrderOf(imp[i])
      BY <1>1, <2>1 DEF Local, Progress
    <3> QED
      BY <2>1, <3>1, FileRows DEF InOrderOf
  <2>3. Summary(i) = SummaryOf(imp[i])
    BY DEF Summary, SummaryOf, AcceptedOf, RejectedOf, Accepts, Rejects, AcceptedBy, DeferredBy,
           Accepted, Deferred
  <2>4. /\ SummaryOf(imp[i]).refused = FALSE /\ SummaryOf(imp[i]).accepted = AcceptedOf(imp[i])
        /\ SummaryOf(imp[i]).rejected = RejectedOf(imp[i])
        /\ EndOf(imp[i]).accepted = AcceptedOf(imp[i]) /\ EndOf(imp[i]).rejected = RejectedOf(imp[i])
        /\ EndOf(imp[i]).status \in {"completed", "failed"}
        /\ EndOf(imp[i]).status = "completed" <=> Deferred(imp[i].codes) = {}
    BY DEF SummaryOf, EndOf
  <2>5. EndOf(imp[i]).status = "completed" <=> AcceptedOf(imp[i]) + RejectedOf(imp[i]) = Cardinality(RecordsOf(imp[i].file))
    <3> DEFINE s == imp[i]
    <3>1. IsFiniteSet(DOMAIN s.codes)
      BY <2>2
    <3> HIDE DEF s
    <3>2. Deferred(s.codes) = {} <=> AcceptedOf(s) + RejectedOf(s) = Cardinality(DOMAIN s.codes)
      BY <3>1, AllSettled
    <3> QED
      BY <2>2, <2>4, <3>2 DEF s
  <2>6. SummaryOf(imp[i]) = [refused |-> FALSE, accepted |-> importRows[i].accepted, rejected |-> importRows[i].rejected]
    BY <2>1, <2>4 DEF SummaryOf
  <2> QED
    BY <2>1, <2>3, <2>4, <2>5, <2>6
<1> QED
  BY <1>1, <1>2, <1>3, <1>4 DEF Local, Trailed

-----------------------------------------------------------------------------
(* A dry run's report.  While nothing else is written and nothing fails,   *)
(* what becomes of a row is a matter of the file, of the records that were *)
(* there when it was read, and of the periods that are closed.             *)

PreviewAt(row, shut) ==
    IF row.slot = None THEN "invalid"
    ELSE IF row.slot \in shut THEN "period_locked"
    ELSE IF row.value = "unpriced" THEN "no_factor"
    ELSE None
SeenBefore(file, n) == KeysOf(file, {m \in RecordsOf(file) : m < n})
Expected(file, n, snapshot, shut) ==
    IF FaultAt(file, n, SeenBefore(file, n), snapshot) # None
    THEN FaultAt(file, n, SeenBefore(file, n), snapshot)
    ELSE PreviewAt(file[n], shut)

AsExpected(s, shut) ==
    \A n \in DOMAIN s.codes : s.codes[n] = Expected(s.file, n, s.snapshot, shut)
WritesAlone(i) == \A j \in Imports \ (Dry \cup {i}) : imp[j].phase = "none"

(* What is stored in a slot the file claims was there when it was read, or *)
(* an import wrote it since.                                               *)
Known(i) ==
    \A k \in Keys :
        stored[k] # None /\ (\E n \in RecordsOf(imp[i].file) : Claimed(imp[i].file, n) = k[1])
        => k \in imp[i].snapshot \/ \E j \in Imports : k \in written[j]
WritesPriced(i) ==
    \E n \in imp[i].todo : Least(n, imp[i].todo) /\ PreviewAt(imp[i].file[n], closed) = None

Foreseen(i) ==
    /\ i \in Dry \/ WritesAlone(i) => AsExpected(imp[i], closed)
    /\ Started(imp[i]) => Known(i)
    /\ imp[i].phase = "writing" => WritesPriced(i)
ForeseenInv == quiet => \A i \in Imports : Foreseen(i)

LEMMA NextExpected ==
    ASSUME ImportAssumption, NEW s \in ImportType, InOrderOf(s), NEW n, Least(n, s.todo)
    PROVE  s.seen = SeenBefore(s.file, n)
<1>1. DOMAIN s.codes = {m \in RecordsOf(s.file) : m < n}
  <2>1. n \in s.todo /\ \A m \in s.todo : n <= m
    BY DEF Least
  <2>2. RecordsOf(s.file) \in SUBSET Nat /\ DOMAIN s.codes \cup s.todo = RecordsOf(s.file)
    BY FileRows DEF InOrderOf
  <2>3. \A q \in DOMAIN s.codes : q < n
    BY <2>1 DEF InOrderOf
  <2>4. \A m \in s.todo : ~(m < n)
    BY <2>1, <2>2
  <2> QED
    BY <2>2, <2>3, <2>4
<1>2. s.todo # {}
  BY DEF Least
<1> QED
  BY <1>1, <1>2 DEF InOrderOf, SeenBefore

(* The only keys it meets are those it refused as duplicates.              *)
LEMMA InsertsAsForeseen ==
    ASSUME ImportAssumption, ImportInv, quiet, NEW i \in Imports, i \notin Dry, Foreseen(i), WritesAlone(i),
           imp[i].phase = "writing", NEW n, Least(n, imp[i].todo),
           FaultAt(imp[i].file, n, imp[i].seen, imp[i].snapshot) = None
    PROVE  PreviewAt(imp[i].file[n], closed) = None /\ InsertFault(Key(imp[i].file[n])) = None
<1> DEFINE file == imp[i].file
           key == Key(file[n])
<1>0. /\ imp[i] \in ImportType /\ Progress(imp[i]) /\ Started(imp[i]) /\ file \in Files
      /\ n \in imp[i].todo /\ n \in DOMAIN file /\ InOrderOf(imp[i]) /\ Imported(imp[i])
      /\ Told(imp[i], written[i]) /\ n \in RecordsOf(file)
  <2>1. /\ imp[i] \in ImportType /\ Progress(imp[i]) /\ Started(imp[i]) /\ file \in Files
        /\ n \in imp[i].todo /\ n \in DOMAIN file
    BY InHand DEF Least
  <2>2. InOrderOf(imp[i]) /\ Imported(imp[i])
    BY <2>1 DEF Progress
  <2> QED
    BY <2>1, <2>2 DEF ImportInv, Local, InOrderOf
<1>1. PreviewAt(file[n], closed) = None
  <2>1. PICK m \in imp[i].todo : Least(m, imp[i].todo) /\ PreviewAt(file[m], closed) = None
    BY DEF Foreseen, WritesPriced
  <2>2. m = n
    <3>1. m <= n /\ n <= m /\ m \in Nat /\ n \in Nat
      BY <1>0, <2>1 DEF Least, ImportType
    <3> QED
      BY <3>1
  <2> QED
    BY <2>1, <2>2
<1>2. file[n].slot # None /\ file[n].slot \notin closed
  BY <1>1 DEF PreviewAt, ImportAssumption, Codes
<1>3. CellFault(file, n) = None /\ ~TypeFault(file[n]) /\ key \notin imp[i].seen /\ ~Held(key, imp[i].snapshot)
  BY <1>2 DEF FaultAt, ImportAssumption, Codes
<1>4. key[1] = file[n].slot /\ key[2] = file[n].type /\ Claimed(file, n) = key[1]
  BY <1>3 DEF Key, Claimed
<1>5. \A j \in Imports \ {i} : written[j] = {}
  <2> SUFFICES ASSUME NEW j \in Imports \ {i}, j \notin Dry
               PROVE  written[j] = {}
    BY DEF ImportInv, Local
  <2>1. imp[j].phase = "none" /\ Progress(imp[j]) /\ Told(imp[j], written[j])
    BY DEF WritesAlone, ImportInv, Local
  <2>2. DOMAIN imp[j].codes = {}
    BY <2>1 DEF Progress, Started
  <2> QED
    BY <2>1, <2>2 DEF Told
<1>6. ASSUME NEW k \in written[i]
      PROVE  k # key /\ (k[1] = key[1] => (k[2] = None) = (key[2] = None))
  <2>1. PICK m \in DOMAIN imp[i].codes : imp[i].codes[m] \in {None, "unexpected"} /\ Key(file[m]) = k
    BY <1>0 DEF Told
  <2>2. imp[i].codes[m] = Expected(file, m, imp[i].snapshot, closed)
    BY DEF Foreseen, AsExpected
  <2>3. Expected(file, m, imp[i].snapshot, closed) # "unexpected"
    BY DEF Expected, FaultAt, CellFault, PreviewAt, ImportAssumption, Codes
  <2>4. m \in Accepted(imp[i].codes)
    BY <2>1, <2>2, <2>3 DEF Accepted
  <2>5. Claims(file, m)
    BY <1>0, <2>4 DEF Imported
  <2>6. k \in imp[i].seen
    BY <1>0, <2>1, <2>5 DEF InOrderOf, KeysOf
  <2>7. ~TypeFault(file[m]) /\ file[m].slot # None
    BY <2>5 DEF Claims, Claimed
  <2>8. k[1] = file[m].slot /\ k[2] = file[m].type
    BY <2>1 DEF Key
  <2>9. k[1] = key[1] => (k[2] = None) = (key[2] = None)
    BY <1>2, <1>3, <1>4, <2>7, <2>8 DEF TypeFault
  <2> QED
    BY <1>3, <2>6, <2>9
<1>7. ASSUME NEW k \in Keys, stored[k] # None, k[1] = key[1]
      PROVE  k # key /\ (k[2] = None) = (key[2] = None)
  <2>1. k \in imp[i].snapshot \/ \E j \in Imports : k \in written[j]
    BY <1>0, <1>4, <1>7 DEF Foreseen, Known
  <2>2. CASE k \in imp[i].snapshot
    BY <1>3, <1>7, <2>2 DEF Held
  <2>3. CASE k \in written[i]
    BY <1>6, <1>7, <2>3
  <2> QED
    BY <1>5, <2>1, <2>2, <2>3
<1>8. ~Held(key, {k \in Keys : stored[k] # None})
  BY <1>7 DEF Held
<1>9. key[1] \notin closed
  BY <1>2, <1>4
<1> QED
  BY <1>1, <1>8, <1>9 DEF InsertFault

LEMMA PreviewIs ==
    ASSUME NEW row
    PROVE  PreviewFault(row) = PreviewAt(row, closed)
  BY DEF PreviewFault, PreviewAt

(* The steps of an import in which nothing fails.                          *)
Starts(i) ==
    /\ ~Started(imp[i]) /\ DOMAIN imp'[i].codes = {} /\ imp'[i].phase \in {"refused", "read", "rows"}
    /\ Started(imp'[i]) => imp'[i].snapshot = Snapshot(imp'[i].file)
    /\ UNCHANGED <<stored, written>>
Proceeds(i) ==
    /\ Started(imp[i]) /\ SameWork(imp[i], imp'[i]) /\ imp'[i].phase # "none"
    /\ imp'[i].phase = "writing" => WritesPriced(i)
    /\ UNCHANGED <<stored, written>>
AnswersRow(i) ==
    /\ Started(imp[i])
    /\ \E n \in imp[i].todo : \E code \in Reportable :
         /\ Least(n, imp[i].todo) /\ Reported(imp[i], imp'[i], n, code)
         /\ \/ code = Expected(imp[i].file, n, imp[i].snapshot, closed)
            \/ i \notin Dry /\ ~WritesAlone(i)
         /\ \/ UNCHANGED <<stored, written>>
            \/ /\ \A k \in Keys : stored'[k] # None => stored[k] # None \/ k \in written'[i]
               /\ \A j \in Imports : written[j] \subseteq written'[j]

LEMMA StartsSteps ==
    ASSUME ImportAssumption, ImportInv, NEW i \in Imports,
           Refuse(i) \/ \E file \in ToRead : Read(i, file)
    PROVE  Alone(i) /\ Starts(i)
<1>0. ImportDomains /\ Local(i)
  BY DEF ImportInv
<1>1. CASE Refuse(i)
  <2>1. Phase(i, "none") /\ Goes(i, "refused") /\ UNCHANGED <<stored, written>>
    BY <1>1 DEF Refuse
  <2>2. Alone(i) /\ imp'[i].phase = "refused" /\ SameWork(imp[i], imp'[i])
    BY <1>0, <2>1, GoesOne
  <2> QED
    BY <1>0, <2>1, <2>2 DEF Starts, Started, Phase, SameWork, Local, Progress
<1>2. ASSUME NEW file \in ToRead, Read(i, file)
      PROVE  Alone(i) /\ Starts(i)
  <2> DEFINE todo == RecordsOf(file)
             seenAt == Snapshot(file)
             phase == IF i \in Dry THEN "rows" ELSE "read"
             none == <<>>
             base == NoFile
             t == [base EXCEPT !.phase = phase, !.file = file, !.snapshot = seenAt, !.todo = todo]
  <2>1. Phase(i, "none") /\ Sets(i, t) /\ UNCHANGED <<stored, written>> /\ phase \in {"read", "rows"}
    BY <1>2 DEF Read
  <2>2. DOMAIN none = {} /\ base = [phase |-> "none", file |-> none, snapshot |-> {}, seen |-> {}, todo |-> {},
                                    codes |-> none, tries |-> 0]
    BY DEF NoFile
  <2>3. Sets(i, t) => imp'[i] = t /\ Alone(i)
    BY <1>0, SetsOne
  <2> HIDE DEF todo, phase, none, base
  <2>4. t.phase = phase /\ t.file = file /\ t.snapshot = seenAt /\ t.codes = none
    BY <2>2
  <2> HIDE DEF t
  <2> QED
    BY <2>1, <2>2, <2>3, <2>4 DEF Starts, Started, Phase
<1> QED
  BY <1>1, <1>2

LEMMA ProceedsSteps ==
    ASSUME ImportAssumption, ImportInv, NEW i \in Imports, quiet', OpenBatch(i) \/ Finalize(i) \/ Die(i)
    PROVE  Alone(i) /\ Proceeds(i)
<1>0. ImportDomains /\ imp[i] \in ImportType /\ Started(imp[i]) /\ UNCHANGED <<stored, written>>
  BY DEF ImportInv, ImportDomains, OpenBatch, Finalize, Die, Phase, Started
<1>1. CASE \E phase \in {"failed", "rows", "done", "dead"} : Goes(i, phase)
  BY <1>0, <1>1, GoesOne DEF Proceeds
<1>2. CASE Sets(i, [imp[i] EXCEPT !.phase = Tried(imp[i].tries), !.tries = (@ + 1) % 3])
  <2> DEFINE phase == Tried(imp[i].tries)
             tries == (imp[i].tries + 1) % 3
             t == [imp[i] EXCEPT !.phase = phase, !.tries = tries]
  <2>1. phase \in {"rows", "unsure"}
    BY DEF Tried
  <2>2. Sets(i, t)
    BY <1>2
  <2> HIDE DEF phase, tries
  <2>3. t.phase = phase /\ SameWork(imp[i], t)
    BY <1>0 DEF ImportType, SameWork
  <2>4. imp'[i] = t /\ Alone(i)
    BY <1>0, <2>2, SetsOne
  <2> HIDE DEF t
  <2> QED
    BY <1>0, <2>1, <2>3, <2>4 DEF Proceeds
<1> QED
  BY <1>1, <1>2 DEF OpenBatch, Finalize, Die

LEMMA RowSteps ==
    ASSUME ImportAssumption, ImportInv, NEW i \in Imports, NEW n, RefuseRow(i, n) \/ PreviewRow(i, n)
    PROVE  Alone(i) /\ (AnswersRow(i) \/ Proceeds(i))
<1>0. /\ ImportDomains /\ imp[i] \in ImportType /\ imp[i].phase = "rows" /\ Started(imp[i])
      /\ Least(n, imp[i].todo) /\ n \in imp[i].todo /\ UNCHANGED <<stored, written>>
  BY DEF ImportInv, ImportDomains, RefuseRow, PreviewRow, Turn, Phase, Started, Least
<1>1. imp[i].file \in Files /\ n \in DOMAIN imp[i].file /\ InOrderOf(imp[i])
  BY <1>0, InHand DEF Started, Progress
<1> DEFINE fault == FaultAt(imp[i].file, n, imp[i].seen, imp[i].snapshot)
           preview == PreviewAt(imp[i].file[n], closed)
<1>2. Expected(imp[i].file, n, imp[i].snapshot, closed) = IF fault # None THEN fault ELSE preview
  BY <1>0, <1>1, NextExpected DEF Expected
<1>3. fault \in Reportable /\ preview \in Reportable
  BY FaultIsCode, FaultsAreCodes, PreviewIs
<1>4. RowFault(i, n) = fault /\ PreviewFault(imp[i].file[n]) = preview
  BY RowFaultIs, PreviewIs
<1>5. \/ fault # None /\ Reports(i, n, fault)
      \/ fault = None /\ Reports(i, n, preview)
      \/ fault = None /\ preview = None /\ Goes(i, "writing")
  BY <1>4 DEF RefuseRow, PreviewRow, Issue
<1> HIDE DEF fault, preview
<1>6. ASSUME NEW code \in Reportable, code = Expected(imp[i].file, n, imp[i].snapshot, closed), Reports(i, n, code)
      PROVE  Alone(i) /\ AnswersRow(i)
  <2>1. Alone(i) /\ Reported(imp[i], imp'[i], n, code)
    BY <1>0, <1>1, <1>6, ReportsOne
  <2> QED
    BY <1>0, <1>6, <2>1 DEF AnswersRow
<1>7. CASE fault = None /\ preview = None /\ Goes(i, "writing")
  <2>1. Alone(i) /\ imp'[i].phase = "writing" /\ SameWork(imp[i], imp'[i])
    BY <1>0, <1>7, GoesOne
  <2>2. WritesPriced(i)
    BY <1>0, <1>7 DEF WritesPriced, preview
  <2> QED
    BY <1>0, <2>1, <2>2 DEF Proceeds
<1> QED
  BY <1>2, <1>3, <1>5, <1>6, <1>7

LEMMA WriteSteps ==
    ASSUME ImportAssumption, ImportInv, ForeseenInv, quiet', NEW i \in Imports, InsertRow(i)
    PROVE  Alone(i) /\ AnswersRow(i)
<1> DEFINE n == Min(imp[i].todo)
           key == Key(imp[i].file[n])
           code == InsertFault(key)
<1>1. Phase(i, "writing") /\ Foreseen(i) /\ quiet
  BY DEF InsertRow, ForeseenInv
<1>2. /\ Started(imp[i]) /\ i \notin Dry /\ Least(n, imp[i].todo)
      /\ FaultAt(imp[i].file, n, imp[i].seen, imp[i].snapshot) = None
  BY <1>1, WritingRow
<1>3. \/ /\ code = None /\ stored' = [stored EXCEPT ![key] = i]
         /\ written' = [written EXCEPT ![i] = written[i] \cup {key}] /\ Reports(i, n, None)
      \/ code # None /\ Reports(i, n, code) /\ UNCHANGED <<stored, written>>
  BY DEF InsertRow, Issue
<1>4. code \in Reportable
  BY FaultsAreCodes
<1> HIDE DEF n
<1>5. /\ imp[i] \in ImportType /\ imp[i].file \in Files /\ n \in imp[i].todo /\ n \in DOMAIN imp[i].file
      /\ InOrderOf(imp[i]) /\ ImportDomains /\ imp[i].phase = "writing"
  BY <1>1, <1>2, InHand DEF Started, Progress, Least, ImportInv, Phase
<1>6. WritesAlone(i) => code = None /\ PreviewAt(imp[i].file[n], closed) = None
  BY <1>1, <1>2, <1>5, InsertsAsForeseen
<1>7. WritesAlone(i) => code = Expected(imp[i].file, n, imp[i].snapshot, closed)
  BY <1>2, <1>5, <1>6, NextExpected DEF Expected
<1> HIDE DEF code
<1>8. Reports(i, n, code)
  BY <1>3
<1>9. Alone(i) /\ Reported(imp[i], imp'[i], n, code)
  BY <1>4, <1>5, <1>8, ReportsOne
<1>10. \/ UNCHANGED <<stored, written>>
       \/ /\ \A k \in Keys : stored'[k] # None => stored[k] # None \/ k \in written'[i]
          /\ \A j \in Imports : written[j] \subseteq written'[j]
  <2>1. CASE /\ stored' = [stored EXCEPT ![key] = i]
             /\ written' = [written EXCEPT ![i] = written[i] \cup {key}]
    <3> HIDE DEF key
    <3>1. written'[i] = written[i] \cup {key} /\ \A j \in Imports \ {i} : written'[j] = written[j]
      BY <1>5, <2>1 DEF ImportDomains
    <3>2. \A k \in Keys : k # key => stored'[k] = stored[k]
      BY <1>5, <2>1 DEF ImportDomains
    <3> QED
      BY <3>1, <3>2
  <2> QED
    BY <1>3, <2>1
<1> QED
  BY <1>2, <1>4, <1>5, <1>7, <1>9, <1>10 DEF AnswersRow

LEMMA QuietSteps ==
    ASSUME ImportAssumption, ImportInv, ForeseenInv, ImportNext, quiet'
    PROVE  /\ quiet /\ UNCHANGED closed
           /\ \E i \in Imports : Alone(i) /\ (Starts(i) \/ Proceeds(i) \/ AnswersRow(i))
<1>1. ASSUME NEW i \in Imports,
             Refuse(i) \/ (\E file \in ToRead : Read(i, file)) \/ Step(i) \/ Die(i)
      PROVE  /\ quiet /\ UNCHANGED closed
             /\ Alone(i) /\ (Starts(i) \/ Proceeds(i) \/ AnswersRow(i))
  <2>1. CASE Refuse(i) \/ \E file \in ToRead : Read(i, file)
    BY <2>1, StartsSteps DEF Refuse, Read
  <2>2. CASE OpenBatch(i) \/ Finalize(i) \/ Die(i)
    BY <2>2, ProceedsSteps DEF OpenBatch, Finalize, Die
  <2>3. ASSUME NEW n, RefuseRow(i, n) \/ PreviewRow(i, n)
        PROVE  /\ quiet /\ UNCHANGED closed
               /\ Alone(i) /\ (Starts(i) \/ Proceeds(i) \/ AnswersRow(i))
    BY <2>3, RowSteps DEF RefuseRow, PreviewRow
  <2>4. CASE InsertRow(i)
    BY <2>4, WriteSteps DEF InsertRow
  <2>5. ~FailRow(i) /\ ~Defer(i)
    BY DEF FailRow, Defer
  <2> QED
    BY <1>1, <2>1, <2>2, <2>3, <2>4, <2>5 DEF Step
<1>2. /\ ~\E key \in Keys : Create(key) \/ Withdraw(key)
      /\ ~\E slot \in FileSlots : Lock(slot) \/ Unlock(slot)
  BY DEF Create, Withdraw, Lock, Unlock, OtherWrites
<1> QED
  BY <1>1, <1>2 DEF ImportNext

LEMMA KnownKept ==
    ASSUME NEW i \in Imports, Known(i), imp'[i].file = imp[i].file, imp'[i].snapshot = imp[i].snapshot,
           \/ UNCHANGED <<stored, written>>
           \/ \E x \in Imports :
                /\ \A k \in Keys : stored'[k] # None => stored[k] # None \/ k \in written'[x]
                /\ \A j \in Imports : written[j] \subseteq written'[j]
    PROVE  Known(i)'
<1>1. CASE UNCHANGED <<stored, written>>
  BY <1>1 DEF Known
<1>2. ASSUME NEW x \in Imports,
             \A k \in Keys : stored'[k] # None => stored[k] # None \/ k \in written'[x],
             \A j \in Imports : written[j] \subseteq written'[j]
      PROVE  Known(i)'
  <2> SUFFICES ASSUME NEW k \in Keys, stored'[k] # None,
                      \E n \in RecordsOf(imp[i].file) : Claimed(imp[i].file, n) = k[1],
                      k \notin imp[i].snapshot
               PROVE  \E j \in Imports : k \in written'[j]
    BY DEF Known
  <2> QED
    BY <1>2 DEF Known
<1> QED
  BY <1>1, <1>2

LEMMA ForeseenSteps ==
    ASSUME ImportAssumption
    PROVE  ImportInv /\ ForeseenInv /\ [ImportNext]_importVars => ForeseenInv'
<1> SUFFICES ASSUME ImportInv, ForeseenInv, [ImportNext]_importVars, quiet'
             PROVE  (\A i \in Imports : Foreseen(i))'
  BY DEF ForeseenInv
<1>1. CASE UNCHANGED importVars
  BY <1>1 DEF importVars, ForeseenInv, Foreseen, WritesAlone, AsExpected, Known, WritesPriced
<1>2. CASE ImportNext
  <2>1. quiet /\ UNCHANGED closed /\ \A i \in Imports : Foreseen(i)
    BY <1>2, QuietSteps DEF ForeseenInv
  <2>2. PICK x \in Imports : Alone(x) /\ (Starts(x) \/ Proceeds(x) \/ AnswersRow(x))
    BY <1>2, QuietSteps
  <2>3. imp'[x].phase # "none"
    BY <2>2 DEF Starts, Proceeds, AnswersRow, Reported
  <2>5. \A i \in Imports : WritesAlone(i)' => WritesAlone(i)
    <3> SUFFICES ASSUME NEW i \in Imports, WritesAlone(i)', NEW j \in Imports \ (Dry \cup {i})
                 PROVE  imp[j].phase = "none"
      BY DEF WritesAlone
    <3>1. imp'[j].phase = "none"
      BY DEF WritesAlone
    <3>2. j # x
      BY <2>3, <3>1
    <3> QED
      BY <2>2, <3>1, <3>2 DEF Alone
  <2>6. \/ UNCHANGED <<stored, written>>
        \/ /\ \A k \in Keys : stored'[k] # None => stored[k] # None \/ k \in written'[x]
           /\ \A j \in Imports : written[j] \subseteq written'[j]
    BY <2>2 DEF Starts, Proceeds, AnswersRow
  <2>7. ASSUME NEW i \in Imports, i # x
        PROVE  Foreseen(i)'
    <3>1. imp'[i] = imp[i] /\ Foreseen(i) /\ closed' = closed
      BY <2>1, <2>2, <2>7 DEF Alone
    <3>2. (i \in Dry \/ WritesAlone(i))' => AsExpected(imp'[i], closed')
      BY <2>5, <3>1 DEF Foreseen
    <3>3. Started(imp'[i]) => Known(i)'
      BY <2>6, <3>1, KnownKept DEF Foreseen
    <3>4. imp'[i].phase = "writing" => WritesPriced(i)'
      BY <3>1 DEF Foreseen, WritesPriced
    <3> QED
      BY <3>2, <3>3, <3>4 DEF Foreseen
  <2>8. Foreseen(x)'
    <3>1. CASE Starts(x)
      <4>1. /\ DOMAIN imp'[x].codes = {} /\ imp'[x].phase # "writing" /\ UNCHANGED stored
            /\ Started(imp'[x]) => imp'[x].snapshot = Snapshot(imp'[x].file)
        BY <3>1 DEF Starts
      <4>2. AsExpected(imp'[x], closed')
        BY <4>1 DEF AsExpected
      <4>3. Started(imp'[x]) => Known(x)'
        BY <4>1 DEF Known, Snapshot
      <4> QED
        BY <4>1, <4>2, <4>3 DEF Foreseen
    <3>2. CASE Proceeds(x)
      <4>1. /\ Started(imp[x]) /\ SameWork(imp[x], imp'[x]) /\ UNCHANGED <<stored, written>>
            /\ imp'[x].phase = "writing" => WritesPriced(x)
        BY <3>2 DEF Proceeds
      <4>2. (x \in Dry \/ WritesAlone(x))' => AsExpected(imp'[x], closed')
        BY <2>1, <2>5, <4>1 DEF Foreseen, AsExpected, SameWork
      <4>3. Known(x)'
        BY <2>1, <4>1, KnownKept DEF Foreseen, SameWork
      <4>4. imp'[x].phase = "writing" => WritesPriced(x)'
        BY <2>1, <4>1 DEF WritesPriced, SameWork
      <4> QED
        BY <4>2, <4>3, <4>4 DEF Foreseen
    <3>3. CASE AnswersRow(x)
      <4>1. PICK n \in imp[x].todo, code \in Reportable :
              /\ Reported(imp[x], imp'[x], n, code)
              /\ \/ code = Expected(imp[x].file, n, imp[x].snapshot, closed)
                 \/ x \notin Dry /\ ~WritesAlone(x)
        BY <3>3 DEF AnswersRow
      <4>2. Started(imp[x]) /\ imp'[x].phase = "rows" /\ imp'[x].file = imp[x].file /\ imp'[x].snapshot = imp[x].snapshot
        BY <3>3, <4>1 DEF AnswersRow, Reported
      <4>3. ASSUME (x \in Dry \/ WritesAlone(x))'
            PROVE  AsExpected(imp'[x], closed')
        <5>1. code = Expected(imp[x].file, n, imp[x].snapshot, closed) /\ AsExpected(imp[x], closed)
          BY <2>1, <2>5, <4>1, <4>3 DEF Foreseen
        <5>2. imp'[x].codes = [m \in DOMAIN imp[x].codes \cup {n} |-> IF m \in {n} THEN code ELSE imp[x].codes[m]]
          BY <4>1 DEF Reported, With
        <5>3. \A m \in DOMAIN imp'[x].codes : imp'[x].codes[m] = Expected(imp[x].file, m, imp[x].snapshot, closed)
          BY <5>1, <5>2 DEF AsExpected
        <5> QED
          BY <2>1, <4>2, <5>3 DEF AsExpected
      <4>4. Known(x)'
        BY <2>1, <2>6, <4>2, KnownKept DEF Foreseen
      <4> QED
        BY <4>2, <4>3, <4>4 DEF Foreseen
    <3> QED
      BY <2>2, <3>1, <3>2, <3>3
  <2> QED
    BY <2>7, <2>8
<1> QED
  BY <1>1, <1>2

LEMMA ForeseenInitially == ImportInit => ForeseenInv
<1> SUFFICES ASSUME ImportInit, NEW i \in Imports
             PROVE  Foreseen(i)
  BY DEF ForeseenInv
<1>1. imp[i] = NoFile
  BY DEF ImportInit
<1>2. imp[i].phase = "none" /\ DOMAIN imp[i].codes = {}
  BY <1>1 DEF NoFile
<1> QED
  BY <1>2 DEF Foreseen, AsExpected, Started

LEMMA ForeseenInvariant == ASSUME ImportAssumption PROVE ImportSpec => []ForeseenInv
<1>1. ImportSpec => []ImportInv
  BY ImportInvariant
<1>2. ImportInv /\ ForeseenInv /\ [ImportNext]_importVars => ForeseenInv'
  BY ForeseenSteps
<1> QED
  BY <1>1, <1>2, ForeseenInitially, PTL DEF ImportSpec

LEMMA DryRunHoldsAlways == ASSUME ImportAssumption, ImportInv, ForeseenInv PROVE DryRunHolds
<1> SUFFICES ASSUME NEW d \in Dry, NEW a \in Imports \ Dry, quiet,
                    imp[d].phase = "done", imp[a].phase = "done", imp[d].file = imp[a].file,
                    imp[d].snapshot = imp[a].snapshot,
                    \A i \in Imports \ {d, a} : imp[i].phase = "none"
             PROVE  imp[d].codes = imp[a].codes
  BY DEF DryRunHolds
<1>1. d \in Imports
  BY DEF ImportAssumption
<1>2. AsExpected(imp[d], closed) /\ AsExpected(imp[a], closed)
  <2>1. WritesAlone(a)
    BY DEF WritesAlone
  <2> QED
    BY <1>1, <2>1 DEF ForeseenInv, Foreseen
<1>3. DOMAIN imp[d].codes = RecordsOf(imp[d].file) /\ DOMAIN imp[a].codes = RecordsOf(imp[a].file)
  BY <1>1, AnsweredInHand DEF Answered
<1>4. \A i \in Imports : imp[i].codes = [n \in DOMAIN imp[i].codes |-> imp[i].codes[n]]
  BY DEF ImportInv, ImportDomains, ImportType, Reports0
<1>5. DOMAIN imp[d].codes = DOMAIN imp[a].codes /\ \A n \in DOMAIN imp[d].codes : imp[d].codes[n] = imp[a].codes[n]
  BY <1>2, <1>3 DEF AsExpected
<1> DEFINE dry == imp[d].codes
           applied == imp[a].codes
<1>6. /\ DOMAIN dry = DOMAIN applied /\ \A n \in DOMAIN dry : dry[n] = applied[n]
      /\ dry = [n \in DOMAIN dry |-> dry[n]] /\ applied = [n \in DOMAIN applied |-> applied[n]]
  BY <1>1, <1>4, <1>5
<1> HIDE DEF dry, applied
<1>7. dry = applied
  BY <1>6
<1> QED
  BY <1>7 DEF dry, applied

(* WrittenAsReported, for every file, any number of imports dry or not,    *)
(* every record there before and written beside them, every period closed  *)
(* or opened meanwhile and every failure of a statement, an answer or the  *)
(* process (BulkUploadService).                                            *)
THEOREM WrittenAsReportedHolds == ImportAssumption /\ ImportSpec => []WrittenAsReported
<1> SUFFICES ASSUME ImportAssumption
             PROVE  ImportSpec => []WrittenAsReported
  OBVIOUS
<1>1. ImportInv /\ ForeseenInv => WrittenAsReported
  BY ReportTrueHolds, BatchAgreesHolds, EveryRowReportedHolds, GroupsWholeHolds, DryRunHoldsAlways
  DEF WrittenAsReported
<1>2. ImportSpec => []ImportInv /\ []ForeseenInv
  BY ImportInvariant, ForeseenInvariant
<1> QED
  BY <1>1, <1>2, PTL

=============================================================================
