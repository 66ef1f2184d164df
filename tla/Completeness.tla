------------------------------ MODULE Completeness ------------------------------
(***************************************************************************)
(* Whether a company's data for one category and year is complete          *)
(* (emissions.service): the cell of the dashboard's matrix, the drill-down *)
(* behind it, and the data-entry panel that reads the drill-down, over     *)
(* records that are filed, reviewed, moved and voided, and sites that open *)
(* during the year and after it.                                           *)
(***************************************************************************)
EXTENDS Naturals, FiniteSets

CONSTANTS
    Records, Sites, Months,
    Whole,      \* the whole company, as a record's place
    Annual      \* a period that is no month

(* What the constants are.                                                *)
CompletenessAssumption ==
    /\ IsFiniteSet(Sites) /\ IsFiniteSet(Months)
    /\ Whole \notin Sites /\ Annual \notin Months

VARIABLES
    entry,      \* each record
    opened,     \* each site: "no", "in" the year or "after" it
    over,       \* the reporting year has ended
    bySite,     \* trackingGranularity is "location"
    rule        \* of the category the cell is for; it never changes

cellVars == <<entry, opened, over, bySite, rule>>

(* Evidence may be asked for without an invoice of each month, not the     *)
(* other way round.                                                        *)
Rules == {r \in [invoices : BOOLEAN, evidence : BOOLEAN] : r.invoices => r.evidence}
InvoiceTracked == rule.invoices
EvidenceRequired == rule.evidence

Absent == [status |-> "none", place |-> Whole, period |-> Annual, file |-> FALSE, flagged |-> FALSE]
Exists(r) == entry[r].status # "none"

-----------------------------------------------------------------------------
(* The rule, over a set of records and the sites of the year.              *)

COUNTED_STATUSES == {"submitted", "under_review", "approved", "locked"}
ACCEPTED_STATUSES == {"approved", "locked"}
PENDING_STATUSES == {"draft", "rejected"}

Having(recs, statuses) == {r \in recs : entry[r].status \in statuses}
SlotsOf(recs) == {<<entry[r].place, entry[r].period>> : r \in recs}

(* Mutant: the site is the record's own, whatever the denominator holds.   *)
ClosesAnywhere(r, sites) ==
    entry[r].place # Whole /\ entry[r].period \in Months /\ entry[r].file
Closes(r, sites) ==
    entry[r].place \in sites /\ entry[r].period \in Months /\ entry[r].file

(* computeInvoiceCoverage: which invoices are in, and which of them nobody *)
(* has accepted.                                                           *)
InvoiceCoverage(recs, sites) ==
    LET closing == {r \in Having(recs, COUNTED_STATUSES) : Closes(r, sites)}
        covered == SlotsOf(closing)
    IN  [required |-> sites \X Months,
         covered |-> covered,
         awaitingReview |-> covered \ SlotsOf(Having(closing, ACCEPTED_STATUSES))]

(* deriveCellStatus.  "coverage" is a set of none or one.                  *)
CellStatus(cell) ==
    IF ~cell.hasRecords THEN "missing"
    ELSE IF cell.hasPending \/ cell.anomaly \/ cell.evidenceMissing \/ cell.awaitingReview # {}
         THEN "incomplete"
    ELSE IF \A c \in cell.coverage :
              c.required # {} /\ Cardinality(c.covered) >= Cardinality(c.required)
         THEN "complete" ELSE "incomplete"

(* What both readers feed it.                                              *)
Cell(live, coverage) ==
    LET committed == Having(live, COUNTED_STATUSES)
    IN  [hasRecords |-> live # {},
         hasPending |-> Having(live, PENDING_STATUSES) # {},
         anomaly |-> \E r \in live : entry[r].flagged,
         evidenceMissing |-> EvidenceRequired /\ \E r \in committed : ~entry[r].file,
         awaitingReview |-> Having(committed, COUNTED_STATUSES \ ACCEPTED_STATUSES),
         coverage |-> coverage]

Entered == {r \in Records : Exists(r)}
LiveEntries == {r \in Entered : entry[r].status # "voided"}
(* The sites created by the end of the reported year.                      *)
(* Mutant: the sites there are today.                                      *)
SitesOfToday == {s \in Sites : opened[s] # "no"}
SitesOfTheYear == {s \in Sites : opened[s] = "in"}

(* trackingMatrix.                                                         *)
MatrixStatus ==
    CellStatus(Cell(LiveEntries, IF bySite /\ InvoiceTracked
                                 THEN {InvoiceCoverage(LiveEntries, SitesOfTheYear)} ELSE {}))

(* completeness: answers only where invoices are tracked.                  *)
Drilled == bySite /\ InvoiceTracked
DrillCoverage == InvoiceCoverage(LiveEntries, SitesOfTheYear)
DrillStatus == CellStatus(Cell(LiveEntries, {DrillCoverage}))
CompanyLevelMonths ==
    {entry[r].period : r \in {x \in Having(LiveEntries, COUNTED_STATUSES) : entry[x].place = Whole}}
    \cap Months

-----------------------------------------------------------------------------
(* The data-entry panel (completeness-view).                               *)

(* The records the panel's months show as closed at a site.                *)
CoveredAt(site, month) == <<site, month>> \in DrillCoverage.covered

(* Does the panel warn that an entry at "place" counts the month twice?    *)
(* "from" is the place an open record is moving off, in a set.             *)
Warns(place, month, from) ==
    /\ SitesOfTheYear # {}
    /\ IF place # Whole
       THEN month \in CompanyLevelMonths /\ ~CoveredAt(place, month) /\ Whole \notin from
       ELSE \E s \in SitesOfTheYear \ from : CoveredAt(s, month)

-----------------------------------------------------------------------------
(* The records and sites.                                                  *)

CellInit ==
    /\ entry = [r \in Records |-> Absent]
    /\ opened = [s \in Sites |-> "no"]
    /\ over = FALSE
    /\ bySite \in BOOLEAN
    /\ rule \in Rules

(* One record per place and period; a withdrawn one frees it.              *)
Free(place, period) == \A r \in LiveEntries : <<entry[r].place, entry[r].period>> # <<place, period>>
Places == {Whole} \cup SitesOfToday

OpenSite(s) ==
    /\ opened[s] = "no"
    /\ opened' = [opened EXCEPT ![s] = IF over THEN "after" ELSE "in"]
    /\ UNCHANGED <<entry, over, bySite, rule>>

YearEnds == ~over /\ over' = TRUE /\ UNCHANGED <<entry, opened, bySite, rule>>

SetGranularity ==
    /\ SitesOfToday # {} /\ bySite' = ~bySite
    /\ UNCHANGED <<entry, opened, over, rule>>

FileEntry(r, place, period) ==
    /\ ~Exists(r) /\ place \in Places /\ Free(place, period)
    /\ entry' = [entry EXCEPT ![r] = [Absent EXCEPT !.status = "draft", !.place = place, !.period = period]]
    /\ UNCHANGED <<opened, over, bySite, rule>>

Edited(r, new) == entry' = [entry EXCEPT ![r] = new] /\ UNCHANGED <<opened, over, bySite, rule>>

MoveEntry(r, place) ==
    /\ entry[r].status \in PENDING_STATUSES /\ place \in Places
    /\ Free(place, entry[r].period)
    /\ Edited(r, [entry[r] EXCEPT !.place = place])

Attach(r) ==
    /\ entry[r].status \in PENDING_STATUSES
    /\ Edited(r, [entry[r] EXCEPT !.file = ~@])

(* Evidence is asked for, and the figure is compared with its history.     *)
SubmitEntry(r, flagged) ==
    /\ entry[r].status \in PENDING_STATUSES
    /\ EvidenceRequired => entry[r].file
    /\ Edited(r, [entry[r] EXCEPT !.status = "submitted", !.flagged = flagged])

Decide(r) ==
    \E step \in {<<"submitted", "under_review">>} \cup ({"submitted", "under_review"} \X {"approved", "rejected"})
                \cup {<<"approved", "locked">>, <<"locked", "approved">>, <<"approved", "voided">>} :
        /\ entry[r].status = step[1]
        /\ Edited(r, [entry[r] EXCEPT !.status = step[2]])

RemoveEntry(r) ==
    /\ entry[r].status \in PENDING_STATUSES
    /\ Edited(r, Absent)

CellNext ==
    \/ \E s \in Sites : OpenSite(s)
    \/ YearEnds \/ SetGranularity
    \/ \E r \in Records :
         \/ \E place \in Places : MoveEntry(r, place) \/ \E period \in Months \cup {Annual} : FileEntry(r, place, period)
         \/ Attach(r) \/ Decide(r) \/ RemoveEntry(r)
         \/ \E flagged \in BOOLEAN : SubmitEntry(r, flagged)

CellSpec == CellInit /\ [][CellNext]_cellVars

-----------------------------------------------------------------------------
(* Properties.                                                             *)

CellTypeOK ==
    /\ entry \in [Records -> [status : {"none", "voided"} \cup COUNTED_STATUSES \cup PENDING_STATUSES,
                               place : Sites \cup {Whole}, period : Months \cup {Annual},
                               file : BOOLEAN, flagged : BOOLEAN]]
    /\ opened \in [Sites -> {"no", "in", "after"}]
    /\ over \in BOOLEAN /\ bySite \in BOOLEAN /\ rule \in Rules
    /\ \A r \in Records : entry[r].place \in Places
    /\ EvidenceRequired => \A r \in Having(Records, COUNTED_STATUSES) : entry[r].file

(* A green cell is earned: every record in it is accepted, none stands out *)
(* or lacks its file, and where invoices are tracked there is a site and   *)
(* each has an accepted invoice for each month.                            *)
CompleteIsEarned ==
    MatrixStatus = "complete" =>
        /\ LiveEntries # {}
        /\ \A r \in LiveEntries :
             /\ entry[r].status \in ACCEPTED_STATUSES /\ ~entry[r].flagged
             /\ EvidenceRequired => entry[r].file
        /\ Drilled =>
             /\ SitesOfTheYear # {}
             /\ \A s \in SitesOfTheYear, m \in Months : \E r \in LiveEntries : SlotsOf({r}) = {<<s, m>>}

(* The matrix's cell and the drill-down behind it never disagree.          *)
SurfacesAgree == Drilled => MatrixStatus = DrillStatus

(* A year's verdict moves by somebody's decision: a site that opens after  *)
(* the year has ended leaves it as it was.                                 *)
LaterSitesLeaveCell == over /\ opened' # opened => MatrixStatus' = MatrixStatus

(* Submitting is not finishing: nothing that a member does alone, filing,  *)
(* attaching, moving or submitting, turns a cell green.                    *)
SubmittingLeavesCell ==
    \A r \in Records :
        entry'[r].status \in PENDING_STATUSES \cup {"submitted"} /\ entry'[r] # entry[r] =>
            MatrixStatus' # "complete"

(* What an entry at a place would count twice: another record of the month *)
(* that the totals hold, for the company if the entry is a site's and for  *)
(* a site in "among" if it is the company's.                               *)
CountedTwice(place, month, among) ==
    \E r \in Having(LiveEntries, COUNTED_STATUSES) :
        /\ entry[r].period = month
        /\ IF place = Whole THEN entry[r].place \in among ELSE entry[r].place = Whole

(* Whoever keys or moves an entry is warned exactly when the month is      *)
(* already counted at the other level.                                     *)
DoubleCountWarned ==
    Drilled /\ SitesOfTheYear # {} =>
        \A place \in {Whole} \cup SitesOfTheYear, month \in Months :
            /\ Free(place, month) =>
                 (Warns(place, month, {}) <=> CountedTwice(place, month, SitesOfTheYear))
            /\ \A r \in Having(LiveEntries, PENDING_STATUSES) :
                 entry[r].period = month /\ entry[r].place # place /\ Free(place, month) =>
                     (Warns(place, month, {entry[r].place}) <=> CountedTwice(place, month, SitesOfTheYear))

(* A green cell is earned: by accepted records, and where invoices are     *)
(* tracked by one of each site for each month; and the matrix, the         *)
(* drill-down behind it and the panel that reads it agree on the cell and  *)
(* on which entry would count a month twice.                               *)
GreenIsEarned == CompleteIsEarned /\ SurfacesAgree /\ DoubleCountWarned

(* "the duplicate is real whether or not the site is in this year's        *)
(* denominator, because the emissions total counts every committed record" *)
LateSiteWarned ==
    Drilled /\ SitesOfTheYear # {} =>
        \A place \in Places, month \in Months :
            Free(place, month) /\ CountedTwice(place, month, Sites) => Warns(place, month, {})
=============================================================================
