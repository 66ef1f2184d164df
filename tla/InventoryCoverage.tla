--------------------------- MODULE InventoryCoverage ---------------------------
(***************************************************************************)
(* What a captured report says of a year's inventory: the gaps of a        *)
(* boundary version, the attachment of records to the obligations of its   *)
(* sources, each scope's disclosure, and whether the dataset may be issued *)
(* as final.  The rules are pure functions of the facts one snapshot read, *)
(* so here they are operators of the state the facts are in.               *)
(*                                                                         *)
(* The version is frozen and never changes (InventoryBoundary).  Records   *)
(* move as InventoryLedger has it: rejected is draft again, under review   *)
(* is submitted, locked is approved in a closed period.  A record's slot   *)
(* is its reporting entity, category, activity type and period: the index  *)
(* admits one record of a slot that is not voided.                         *)
(***************************************************************************)
EXTENDS Integers, FiniteSets

CONSTANTS
    Categories,   \* those a boundary decides
    ScopeOf,      \* the scope of each
    Versions,     \* the frozen versions considered
    Slots,        \* the records that may be filed: [at, category, kind, cadence, n]
    MaxFiled,     \* bound on the records filed at one time
    Calculations, \* [factor, conversion, allGases]; a legacy snapshot names no release
    Links,        \* bound: whether a record filed here has evidence
    MaxClosed,    \* bound on the periods locked at one time
    Releases,
    Standing,     \* the status each release was published with
    GwpSet,       \* the set of warming potentials each names, or None
    None

Cadences == {"monthly", "quarterly", "annual"}

(* What the tables' keys and checks hold of a version that is frozen: it    *)
(* declares somebody, for some months of the year; a mapped source has its *)
(* category's scope; an included one has a cadence and, if it is mapped,   *)
(* its records to itself.                                                  *)
WellFormed(v) ==
    /\ v.decision \in {"unconfirmed", "confirmed"}
    /\ DOMAIN v.months # {}
    /\ \A e \in DOMAIN v.months :
         e.sub # None /\ v.months[e].first \in 1 .. 12 /\ v.months[e].last \in v.months[e].first .. 12
    /\ \A c \in v.cells : c.at \in DOMAIN v.months /\ c.category \in Categories
    /\ \A s \in v.sources :
         /\ s.at \in DOMAIN v.months /\ s.category \in Categories \cup {None}
         /\ s.decision \in {"included", "excluded", "undetermined"}
         /\ s.category # None => s.scope = ScopeOf[s.category]
         /\ s.decision = "included" => s.cadence \in Cadences
    /\ \A s, t \in {u \in v.sources : u.category # None /\ u.decision = "included"} :
         s.at = t.at /\ s.category = t.category /\ s.kind = t.kind => s = t

(* What the constants are.                                                 *)
ASSUME CoverageAssumption ==
    /\ \A c \in Categories : ScopeOf[c] \in {1, 2}
    /\ \A r \in Releases : Standing[r] \in {"authoritative", "placeholder"}
    /\ None \notin Categories
    /\ None \notin {"unsupported_source", "applicability_undetermined", "attribution_conflict"}
    /\ Links \subseteq BOOLEAN
    /\ MaxFiled \in Nat /\ MaxClosed \in Nat
    /\ IsFiniteSet(Slots)
    /\ \A x \in Slots : x.category \in Categories /\ x.cadence \in Cadences /\ x.n \in 1 .. 12
    /\ \A x, y \in Slots :
         /\ x.at = y.at /\ x.category = y.category /\ x.kind = y.kind
         /\ x.cadence = y.cadence /\ x.n = y.n
         => x = y
    /\ \A v \in Versions : WellFormed(v)

VARIABLES
    version,    \* the frozen version the facts are captured under
    record,     \* record[x]: the record of slot x that is not voided, or the last voided one
    closed,     \* the locked periods, [sub, cadence, n]
    withdrawn   \* the releases withdrawn since

vars == <<version, record, closed, withdrawn>>

NoRecord == [status |-> "none", calc |-> None, linked |-> FALSE]

Unfiled ==
    /\ record = [x \in Slots |-> NoRecord]
    /\ closed = {}
    /\ withdrawn = {}

Init == version \in Versions /\ Unfiled

-----------------------------------------------------------------------------
(* Periods.                                                                *)

MonthsOf(cadence) == [monthly |-> 1, quarterly |-> 3, annual |-> 12][cadence]
PeriodsOf(cadence) == 1 .. (12 \div MonthsOf(cadence))
First(cadence, n) == (n - 1) * MonthsOf(cadence) + 1
Last(cadence, n) == n * MonthsOf(cadence)

(* Mutant: a period that only touches the end is left out.                 *)
OverlapsInside(cadence, n, first, last) == Last(cadence, n) >= first /\ First(cadence, n) < last
Overlaps(cadence, n, first, last) == Last(cadence, n) >= first /\ First(cadence, n) <= last
Later(a, b) == IF a > b THEN a ELSE b
Earlier(a, b) == IF a < b THEN a ELSE b

-----------------------------------------------------------------------------
(* The version: its entities with their months, its policies, cells and    *)
(* sources.  A company's own entity has no site.                           *)

Entities == DOMAIN version.months
Company(s) == [sub |-> s, site |-> None]
Declared == {e.sub : e \in Entities}
SitesOf(s) == {e \in Entities : e.sub = s /\ e.site # None}

Mapped(s) == s.category # None
Included(s) == s.decision = "included"

(* The entities a subsidiary's policy attributes a category to.            *)
Attributed(s, c) ==
    LET levels == {p.level : p \in {q \in version.policies : q.sub = s /\ q.category = c}}
    IN (IF "company" \in levels THEN {Company(s)} ELSE {})
       \cup (IF "sites" \in levels THEN SitesOf(s) ELSE {})

CellSays(e, c, decisions) ==
    \E cell \in version.cells : cell.at = e /\ cell.category = c /\ cell.decision \in decisions

IncludedAt(e, c) == {s \in version.sources : Mapped(s) /\ Included(s) /\ s.at = e /\ s.category = c}

(* The periods an included source is obliged to, and those of its evidence *)
(* within one of them.                                                     *)
Obliged(s) ==
    {n \in PeriodsOf(s.cadence) :
        Overlaps(s.cadence, n, version.months[s.at].first, version.months[s.at].last)}
EvidenceObliged(s, n) ==
    IF s.evidence = None THEN {}
    ELSE {k \in PeriodsOf(s.evidence) :
            Overlaps(s.evidence, k,
                     Later(First(s.cadence, n), version.months[s.at].first),
                     Earlier(Last(s.cadence, n), version.months[s.at].last))}

-----------------------------------------------------------------------------
(* boundaryGaps: what the version leaves open before any record is read.   *)

Gap(code, e, c, sources) ==
    [code |-> code, at |-> e, category |-> c, sources |-> sources, slots |-> {}]

Undecided(e, c) == ~CellSays(e, c, {"included", "excluded"})

UndeterminedOf(s, c) ==
    {Gap("applicability_undetermined", e, c, {}) : e \in {x \in Attributed(s, c) : Undecided(x, c)}}
    \cup {Gap("applicability_undetermined", e, c, {}) :
            e \in IF Attributed(s, c) = {} THEN {Company(s)} ELSE {}}
Undetermined == UNION {UndeterminedOf(s, c) : s \in Declared, c \in Categories}

Held(s) == s.at \in Attributed(s.at.sub, s.category) /\ CellSays(s.at, s.category, {"included"})

GapCode(s) ==
    IF ~Mapped(s) THEN (IF s.decision = "excluded" THEN None ELSE "unsupported_source")
    ELSE IF s.decision = "undetermined" THEN "applicability_undetermined"
    ELSE IF Included(s) /\ ~Held(s) THEN "attribution_conflict"
    ELSE None
SourceGaps ==
    {Gap(GapCode(s), s.at, s.category, {s}) : s \in {x \in version.sources : GapCode(x) # None}}

EmptyCells ==
    {Gap("attribution_conflict", cell.at, cell.category, {}) :
        cell \in {x \in version.cells : x.decision = "included" /\ IncludedAt(x.at, x.category) = {}}}

BoundaryGaps == Undetermined \cup SourceGaps \cup EmptyCells

-----------------------------------------------------------------------------
(* A selection, and the records captured under it.                         *)

Inventory == [sub |-> None, scope |-> None, category |-> None]
Extract(s) == [sub |-> s, scope |-> None, category |-> None]
Selections ==
    [sub : Declared \cup {None}, scope : {1, 2, None}, category : Categories \cup {None}]

Chosen(sel, s) ==
    /\ sel.sub \in {None, s.at.sub}
    /\ sel.scope \in {None, s.scope}
    /\ sel.category = None \/ (Mapped(s) /\ s.category = sel.category)
Captured(sel, x) ==
    /\ record[x].status # "none"
    /\ x.at.sub \in IF sel.sub = None THEN Declared ELSE {sel.sub}
    /\ sel.scope \in {None, ScopeOf[x.category]}
    /\ sel.category \in {None, x.category}

Counts == {"submitted", "approved"}
Live(sel) == {x \in Slots : Captured(sel, x) /\ record[x].status # "voided"}

Claims(x, s) == x.at = s.at /\ x.category = s.category /\ x.kind = s.kind

Conflicting == UNION {g.sources : g \in {h \in SourceGaps : h.code = "attribution_conflict"}}

Countable == {s \in version.sources : Mapped(s) /\ Included(s) /\ s \notin Conflicting}

ClaimedBy(x) == {s \in Countable : Claims(x, s)}
Attached(x, s) == s \in ClaimedBy(x) /\ x.cadence = s.cadence /\ x.n \in Obliged(s)
IsAttached(x) == \E s \in Countable : Attached(x, s)

SatisfiedBy(sel, s, n) ==
    {x \in Live(sel) : Attached(x, s) /\ x.n = n /\ record[x].status \in Counts}

(* A linked record's own period assigns its evidence.                      *)
EvidenceMissing(sel, s, n) ==
    \E k \in EvidenceObliged(s, n) :
        ~\E x \in Live(sel) : /\ Attached(x, s) /\ x.n = n /\ record[x].linked
                              /\ x.cadence = s.evidence /\ x.n = k

-----------------------------------------------------------------------------
(* assessDataset: the coverage gaps of a selection.                        *)

MissingFrom(sel, s) ==
    {Gap("missing_record", s.at, s.category, {s}) :
        n \in {k \in Obliged(s) : SatisfiedBy(sel, s, k) = {}}}
    \cup {Gap("missing_evidence", s.at, s.category, {s}) :
        n \in {k \in Obliged(s) : EvidenceMissing(sel, s, k)}}
ObligationGaps(sel) ==
    UNION {MissingFrom(sel, s) : s \in {x \in version.sources : Included(x) /\ Chosen(sel, x)}}

Named(x) ==
    IF ClaimedBy(x) # {} THEN ClaimedBy(x)
    ELSE {s \in version.sources : Mapped(s) /\ s \notin Countable /\ Claims(x, s)}

(* Another granularity over months the source holds.                       *)
Overlapping(x) ==
    \E s \in ClaimedBy(x) :
        /\ x.cadence # s.cadence
        /\ Overlaps(x.cadence, x.n, version.months[s.at].first, version.months[s.at].last)

RecordGap(code, x) ==
    [code |-> code, at |-> x.at, category |-> x.category, sources |-> Named(x), slots |-> {x}]
RecordGaps(sel) ==
    {RecordGap("unmapped_record", x) : x \in {y \in Live(sel) : ~IsAttached(y)}}
    \cup {RecordGap("overlapping_periods", x) : x \in {y \in Live(sel) : ~IsAttached(y) /\ Overlapping(y)}}

InSelection(sel, g) ==
    IF g.sources # {} THEN \E s \in g.sources : Chosen(sel, s)
    ELSE /\ sel.sub \in {None, g.at.sub}
         /\ sel.scope \in {None, ScopeOf[g.category]}
         /\ sel.category \in {None, g.category}

Unconfirmed ==
    IF version.decision = "unconfirmed"
    THEN {[code |-> "boundary_unconfirmed", at |-> None, category |-> None, sources |-> {}, slots |-> {}]}
    ELSE {}

Gaps(sel) ==
    Unconfirmed \cup {g \in BoundaryGaps : InSelection(sel, g)}
    \cup ObligationGaps(sel) \cup RecordGaps(sel)

-----------------------------------------------------------------------------
(* The disclosure of a scope.                                              *)

Counted(sel) == {x \in Live(sel) : IsAttached(x) /\ record[x].status \in Counts}

ScopesOf(g) ==
    (IF g.category = None THEN {} ELSE {ScopeOf[g.category]})
    \cup {s.scope : s \in g.sources} \cup {ScopeOf[x.category] : x \in g.slots}

Disclosed(sel, scope) ==
    sel.scope \in {None, scope} /\ (sel.category = None \/ ScopeOf[sel.category] = scope)
CountedIn(sel, scope) ==
    IF Disclosed(sel, scope) THEN {x \in Counted(sel) : ScopeOf[x.category] = scope} ELSE {}

HeldBack(sel, scope) == \E g \in Gaps(sel) : ScopesOf(g) = {} \/ scope \in ScopesOf(g)

Covered(sel, scope) ==
    /\ Disclosed(sel, scope)
    /\ \A s \in version.sources : Chosen(sel, s) /\ Included(s) /\ s.scope = scope =>
         \A n \in Obliged(s) : SatisfiedBy(sel, s, n) # {}
    /\ ~HeldBack(sel, scope)
    /\ \A x \in CountedIn(sel, scope) : record[x].calc # None

-----------------------------------------------------------------------------
(* deriveIssuance: a final has no gap.                                     *)

Approved(x) == record[x].status = "approved"

(* Mutant: twelve monthly locks stand for the annual one.                  *)
MonthsClosed(s, n) ==
    \A m \in First(s.cadence, n) .. Last(s.cadence, n) :
        \E p \in closed : p.sub = s.at.sub /\ First(p.cadence, p.n) <= m /\ m <= Last(p.cadence, p.n)
PeriodClosed(s, n) == [sub |-> s.at.sub, cadence |-> s.cadence, n |-> n] \in closed

StandsNow(r) == IF r \in withdrawn THEN "withdrawn" ELSE Standing[r]
Provenanced(x) == record[x].calc # None /\ record[x].calc.factor # None
ReleasesOf(x) == {record[x].calc.factor, record[x].calc.conversion} \ {None}
Authoritative(x) == Provenanced(x) /\ \A r \in ReleasesOf(x) : StandsNow(r) = "authoritative"

(* The sets the counted calculations of all gases name, none being one.    *)
GwpNames(sel) ==
    {GwpSet[record[x].calc.factor] :
        x \in {y \in Counted(sel) : Provenanced(y) /\ record[y].calc.allGases}}

Obligations(sel) ==
    {o \in {s \in version.sources : Included(s) /\ Chosen(sel, s)} \X (1 .. 12) : o[2] \in Obliged(o[1])}

Blockers(sel) ==
    {c \in {"filtered_extract", "coverage_gap", "unapproved_record", "unlocked_period",
            "non_authoritative_calculation", "gwp_set_mismatch"} :
        \/ c = "filtered_extract" /\ sel # Inventory
        \/ c = "coverage_gap" /\ Gaps(sel) # {}
        \/ /\ c = "unapproved_record"
           /\ \E o \in Obligations(sel) : \E x \in SatisfiedBy(sel, o[1], o[2]) : ~Approved(x)
        \/ c = "unlocked_period" /\ \E o \in Obligations(sel) : ~PeriodClosed(o[1], o[2])
        \/ c = "non_authoritative_calculation" /\ \E x \in Counted(sel) : ~Authoritative(x)
        \/ c = "gwp_set_mismatch" /\ Cardinality(GwpNames(sel)) > 1}

Final(sel) == Blockers(sel) = {}

-----------------------------------------------------------------------------
(* The facts change as the ledger lets them.  Whether a calculation is      *)
(* fresh when it is submitted is InventoryLedger's; rows from before that   *)
(* gate carry any calculation, so here every record may.                    *)

Period(x) == [sub |-> x.at.sub, cadence |-> x.cadence, n |-> x.n]
Move(x, r) ==
    /\ record' = [record EXCEPT ![x] = r]
    /\ UNCHANGED <<version, closed, withdrawn>>
Filed == {x \in Slots : record[x].status # "none"}

File(x) ==
    /\ record[x].status \in {"none", "voided"}
    /\ Period(x) \notin closed
    /\ Cardinality(Filed \cup {x}) <= MaxFiled
    /\ \E c \in Calculations, linked \in Links :
         Move(x, [status |-> "draft", calc |-> c, linked |-> linked])

Remove(x) ==
    /\ record[x].status = "draft" /\ Period(x) \notin closed
    /\ Move(x, NoRecord)

(* Evidence is attached and detached while the record is editable.         *)
Link(x) ==
    /\ record[x].status = "draft" /\ Period(x) \notin closed
    /\ \E linked \in Links \ {record[x].linked} :
         Move(x, [record[x] EXCEPT !.linked = linked])

Submit(x) ==
    /\ record[x].status = "draft" /\ Period(x) \notin closed
    /\ Move(x, [record[x] EXCEPT !.status = "submitted"])

Reject(x) ==
    /\ record[x].status = "submitted" /\ Period(x) \notin closed
    /\ Move(x, [record[x] EXCEPT !.status = "draft"])

Approve(x) ==
    /\ record[x].status = "submitted" /\ Period(x) \notin closed
    /\ Move(x, [record[x] EXCEPT !.status = "approved"])

Void(x) ==
    /\ record[x].status = "approved" /\ Period(x) \notin closed
    /\ Move(x, [record[x] EXCEPT !.status = "voided"])

Lock(p) ==
    /\ \A x \in Slots : Period(x) = p => record[x].status # "submitted"
    /\ Cardinality(closed \cup {p}) <= MaxClosed
    /\ closed' = closed \cup {p}
    /\ UNCHANGED <<version, record, withdrawn>>

Unlock(p) ==
    /\ closed' = closed \ {p}
    /\ UNCHANGED <<version, record, withdrawn>>

Withdraw(r) ==
    /\ withdrawn' = withdrawn \cup {r}
    /\ UNCHANGED <<version, record, closed>>

Next ==
    \/ \E x \in Slots : File(x) \/ Remove(x) \/ Link(x) \/ Submit(x) \/ Reject(x) \/ Approve(x) \/ Void(x)
    \/ \E x \in Slots : Lock(Period(x)) \/ Unlock(Period(x))
    \/ \E r \in Releases : Withdraw(r)

Spec == Init /\ [][Next]_vars

-----------------------------------------------------------------------------
(* Properties.                                                             *)

Statuses == {"none", "draft", "submitted", "approved", "voided"}
Periods == [sub : {x.at.sub : x \in Slots}, cadence : Cadences, n : 1 .. 12]

TypeOK ==
    /\ version \in Versions
    /\ record \in [Slots -> [status : Statuses, calc : Calculations \cup {None}, linked : BOOLEAN]]
    /\ closed \subseteq Periods
    /\ withdrawn \subseteq Releases

Operating(s) == version.months[s.at].first .. version.months[s.at].last
Holds(x, s, m) == Claims(x, s) /\ First(x.cadence, x.n) <= m /\ m <= Last(x.cadence, x.n)

(* A scope is disclosed as covered only over a confirmed boundary and only *)
(* if, of every source of it that is not excluded, each operating month is *)
(* held by one record and no other, which is counted; and no record of the *)
(* scope is left out of the sum.  It holds of every extract too.           *)
CoveredIsWhole ==
    \A sel \in Selections : \A scope \in {1, 2} :
        Covered(sel, scope) =>
            /\ version.decision = "confirmed"
            /\ \A s \in version.sources :
                 Chosen(sel, s) /\ s.scope = scope /\ s.decision # "excluded" =>
                     /\ Mapped(s)
                     /\ \A m \in Operating(s) : \E x \in CountedIn(sel, scope) :
                          {y \in Live(sel) : Holds(y, s, m)} = {x}
            /\ \A x \in Live(sel) :
                 ScopeOf[x.category] = scope /\ record[x].status \in Counts
                   => x \in CountedIn(sel, scope)

(* The gate and the boundary agree on what final means: both scopes are    *)
(* covered, every category is decided wherever it is attributed, and every *)
(* operating month of every included source is held by an approved record  *)
(* of a locked period whose releases stand, all on one GWP set (D13).      *)
FinalIsComplete ==
    Final(Inventory) =>
        /\ \A scope \in {1, 2} : Covered(Inventory, scope)
        /\ \A s \in Declared, c \in Categories :
             /\ Attributed(s, c) # {}
             /\ \A e \in Attributed(s, c) :
                  \/ CellSays(e, c, {"excluded"})
                  \/ CellSays(e, c, {"included"}) /\ IncludedAt(e, c) # {}
        /\ \A s \in version.sources : Included(s) =>
             \A m \in Operating(s) : \E x \in Slots :
                 /\ Holds(x, s, m)
                 /\ record[x].status = "approved"
                 /\ Period(x) \in closed
                 /\ ReleasesOf(x) # {} /\ ReleasesOf(x) \cap withdrawn = {}
        /\ \A x, y \in Counted(Inventory) :
             record[x].calc.allGases /\ record[y].calc.allGases =>
                 GwpSet[record[x].calc.factor] = GwpSet[record[y].calc.factor]

(* The subsidiaries' extracts add up to the inventory: a scope of it is    *)
(* covered exactly if each extract's is, and its records are theirs.       *)
ExtractsAddUp ==
    \A scope \in {1, 2} :
        /\ Covered(Inventory, scope) <=> \A s \in Declared : Covered(Extract(s), scope)
        /\ CountedIn(Inventory, scope) = UNION {CountedIn(Extract(s), scope) : s \in Declared}

DisclosureIsWhole == CoveredIsWhole /\ ExtractsAddUp

(* The records a final reports do not change while no period is unlocked.  *)
FinalKept ==
    Final(Inventory) /\ closed \subseteq closed' =>
        \A x \in Counted(Inventory) : record'[x] = record[x]
=============================================================================
