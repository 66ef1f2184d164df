--------------------------- MODULE CoverageTheorems ---------------------------
(***************************************************************************)
(* What a captured report may say, for every frozen version whatever it    *)
(* declares, every set of records that may be filed and every order in     *)
(* which they move: a scope it discloses as covered is whole, the extracts *)
(* add up to the inventory, a final is complete, and it stays what it was  *)
(* while no period is unlocked.  The rules are operators of one snapshot,  *)
(* so the invariant they need is the types alone; what carries the proofs  *)
(* is which gap each omission leaves.                                      *)
(*                                                                         *)
(* And of one cell of the completeness matrix, for any records, sites and  *)
(* months: green is earned, and no draft, submission or later site earns   *)
(* it.                                                                     *)
(***************************************************************************)
EXTENDS InventoryCoverage, Completeness, FiniteSetTheorems, TLAPS

-----------------------------------------------------------------------------
(* Types.                                                                  *)

Row == [status : Statuses, calc : Calculations \cup {None}, linked : BOOLEAN]

(* Whatever moves, moves one record to another row.                        *)
LEMMA MoveType ==
    ASSUME TypeOK, NEW x \in Slots, NEW r \in Row, Move(x, r)
    PROVE  TypeOK'
  BY DEF TypeOK, Move, Row

LEMMA PeriodType == \A x \in Slots : Period(x) \in Periods
  BY CoverageAssumption DEF CoverageAssumption, Period, Periods

LEMMA TypeNext ==
    ASSUME TypeOK, [Next]_vars
    PROVE  TypeOK'
<1>1. \A x \in Slots : record[x] \in Row
  BY DEF TypeOK, Row
<1>2. ASSUME NEW x \in Slots, File(x)
      PROVE  TypeOK'
  <2>1. PICK c \in Calculations, linked \in Links :
          Move(x, [status |-> "draft", calc |-> c, linked |-> linked])
    BY <1>2 DEF File
  <2>2. [status |-> "draft", calc |-> c, linked |-> linked] \in Row
    BY CoverageAssumption DEF CoverageAssumption, Row, Statuses
  <2> QED
    BY <2>1, <2>2, MoveType
<1>3. ASSUME NEW x \in Slots, Remove(x)
      PROVE  TypeOK'
  <2>1. NoRecord \in Row
    BY DEF NoRecord, Row, Statuses
  <2> QED
    BY <1>3, <2>1, MoveType DEF Remove
<1>4. ASSUME NEW x \in Slots, Link(x)
      PROVE  TypeOK'
  <2>1. PICK linked \in Links : Move(x, [record[x] EXCEPT !.linked = linked])
    BY <1>4 DEF Link
  <2>2. [record[x] EXCEPT !.linked = linked] \in Row
    BY <1>1, CoverageAssumption DEF CoverageAssumption, Row
  <2> QED
    BY <2>1, <2>2, MoveType
<1>5. ASSUME NEW x \in Slots, NEW s \in Statuses, Move(x, [record[x] EXCEPT !.status = s])
      PROVE  TypeOK'
  <2>1. [record[x] EXCEPT !.status = s] \in Row
    BY <1>1 DEF Row
  <2> QED
    BY <1>5, <2>1, MoveType
<1>6. ASSUME NEW x \in Slots, Submit(x) \/ Reject(x) \/ Approve(x) \/ Void(x)
      PROVE  TypeOK'
  BY <1>5, <1>6 DEF Submit, Reject, Approve, Void, Statuses
<1>7. ASSUME NEW x \in Slots, Lock(Period(x)) \/ Unlock(Period(x))
      PROVE  TypeOK'
  BY <1>7, PeriodType DEF TypeOK, Lock, Unlock
<1>8. ASSUME NEW r \in Releases, Withdraw(r)
      PROVE  TypeOK'
  BY <1>8 DEF TypeOK, Withdraw
<1>9. CASE UNCHANGED vars
  BY <1>9 DEF TypeOK, vars
<1> QED
  BY <1>2, <1>3, <1>4, <1>6, <1>7, <1>8, <1>9 DEF Next

(* Every variable stays in its domain.                                     *)
THEOREM CoverageTypeCorrect == Spec => []TypeOK
<1>1. Init => TypeOK
  BY DEF Init, Unfiled, TypeOK, NoRecord, Statuses
<1> QED
  BY <1>1, TypeNext, PTL DEF Spec

(* A reachable version is what the tables' keys and checks make of it.     *)
LEMMA VersionHolds == TypeOK => WellFormed(version)
  BY CoverageAssumption DEF TypeOK, CoverageAssumption

-----------------------------------------------------------------------------
(* Periods: each cadence divides the year.                                 *)

LEMMA MonthHasPeriod ==
    ASSUME NEW cadence \in Cadences, NEW m \in 1 .. 12
    PROVE  \E n \in PeriodsOf(cadence) : First(cadence, n) <= m /\ m <= Last(cadence, n)
<1>1. CASE cadence = "monthly"
  BY <1>1 DEF PeriodsOf, First, Last, MonthsOf
<1>2. CASE cadence = "quarterly"
  <2>1. PICK n \in 1 .. 4 : (n - 1) * 3 + 1 <= m /\ m <= n * 3
    OBVIOUS
  <2>2. 12 \div 3 = 4
    OBVIOUS
  <2> QED
    BY <1>2, <2>1, <2>2 DEF PeriodsOf, First, Last, MonthsOf
<1>3. CASE cadence = "annual"
  BY <1>3 DEF PeriodsOf, First, Last, MonthsOf
<1> QED
  BY <1>1, <1>2, <1>3 DEF Cadences

LEMMA OnePeriodOfMonth ==
    ASSUME NEW cadence \in Cadences, NEW m \in Nat, NEW n \in Nat, NEW k \in Nat,
           First(cadence, n) <= m, m <= Last(cadence, n),
           First(cadence, k) <= m, m <= Last(cadence, k)
    PROVE  n = k
  BY DEF Cadences, First, Last, MonthsOf

LEMMA OperatingMonth ==
    ASSUME TypeOK, NEW s \in version.sources, NEW m \in Operating(s)
    PROVE  m \in 1 .. 12
  BY VersionHolds DEF WellFormed, Operating

(* The obligation that an operating month falls in.                        *)
LEMMA MonthIsObliged ==
    ASSUME TypeOK, NEW s \in version.sources, Included(s), NEW m \in Operating(s)
    PROVE  \E n \in Obliged(s) : First(s.cadence, n) <= m /\ m <= Last(s.cadence, n)
<1>1. s.cadence \in Cadences /\ s.at \in DOMAIN version.months
  BY VersionHolds DEF WellFormed, Included
<1>2. PICK n \in PeriodsOf(s.cadence) : First(s.cadence, n) <= m /\ m <= Last(s.cadence, n)
  BY <1>1, OperatingMonth, MonthHasPeriod
<1>3. First(s.cadence, n) \in Int /\ Last(s.cadence, n) \in Int
  BY <1>1 DEF PeriodsOf, First, Last, MonthsOf, Cadences
<1>4. version.months[s.at].first \in Int /\ version.months[s.at].last \in Int
  BY <1>1, VersionHolds DEF WellFormed
<1>5. version.months[s.at].first <= m /\ m <= version.months[s.at].last /\ m \in Int
  BY <1>4 DEF Operating
<1>6. Overlaps(s.cadence, n, version.months[s.at].first, version.months[s.at].last)
  BY <1>2, <1>3, <1>4, <1>5 DEF Overlaps
<1> QED
  BY <1>2, <1>6 DEF Obliged

-----------------------------------------------------------------------------
(* Which gap each omission leaves.                                         *)

LEMMA GapFields ==
    ASSUME NEW code, NEW e, NEW c, NEW sources
    PROVE  /\ Gap(code, e, c, sources).code = code
           /\ Gap(code, e, c, sources).at = e
           /\ Gap(code, e, c, sources).category = c
           /\ Gap(code, e, c, sources).sources = sources
           /\ Gap(code, e, c, sources).slots = {}
  BY DEF Gap

LEMMA UnconfirmedGap ==
    ASSUME NEW sel, version.decision = "unconfirmed"
    PROVE  \E g \in Gaps(sel) : ScopesOf(g) = {}
<1> DEFINE g == [code |-> "boundary_unconfirmed", at |-> None, category |-> None, sources |-> {}, slots |-> {}]
<1>1. g \in Gaps(sel)
  BY DEF Gaps, Unconfirmed
<1>2. ScopesOf(g) = {}
  BY DEF ScopesOf
<1> QED
  BY <1>1, <1>2

(* A chosen source that is neither excluded nor held leaves a gap.         *)
LEMMA SourceGap ==
    ASSUME TypeOK, NEW sel, NEW s \in version.sources, Chosen(sel, s), s.decision # "excluded",
           Mapped(s) /\ Included(s) => ~Held(s)
    PROVE  \E g \in Gaps(sel) : g.sources = {s}
<1> DEFINE g == Gap(GapCode(s), s.at, s.category, {s})
<1>1. GapCode(s) # None
  BY VersionHolds, CoverageAssumption DEF GapCode, WellFormed, Included, CoverageAssumption
<1>2. g \in BoundaryGaps
  BY <1>1 DEF SourceGaps, BoundaryGaps
<1>3. InSelection(sel, g)
  BY GapFields DEF InSelection
<1> QED
  BY <1>2, <1>3, GapFields DEF Gaps

LEMMA MissingRecordGap ==
    ASSUME NEW sel, NEW s \in version.sources, Included(s), Chosen(sel, s),
           NEW n \in Obliged(s), SatisfiedBy(sel, s, n) = {}
    PROVE  \E g \in Gaps(sel) : g.sources = {s}
<1>1. Gap("missing_record", s.at, s.category, {s}) \in ObligationGaps(sel)
  BY DEF ObligationGaps, MissingFrom
<1> QED
  BY <1>1, GapFields DEF Gaps

LEMMA StrayRecordGap ==
    ASSUME NEW sel, NEW x \in Live(sel), ~IsAttached(x)
    PROVE  \E g \in Gaps(sel) : ScopeOf[x.category] \in ScopesOf(g)
<1>1. RecordGap("unmapped_record", x) \in Gaps(sel)
  BY DEF Gaps, RecordGaps
<1>2. RecordGap("unmapped_record", x).slots = {x}
  BY DEF RecordGap
<1>3. ScopeOf[x.category] \in ScopesOf(RecordGap("unmapped_record", x))
  BY <1>2 DEF ScopesOf
<1> QED
  BY <1>1, <1>3

(* A source in conflict is in a gap that names it alone.                   *)
LEMMA ConflictGap ==
    ASSUME NEW s, s \in Conflicting
    PROVE  s \in version.sources /\ Mapped(s) /\ Included(s) /\ ~Held(s)
<1>1. PICK g \in SourceGaps : g.code = "attribution_conflict" /\ s \in g.sources
  BY DEF Conflicting
<1>2. PICK t \in version.sources : g = Gap(GapCode(t), t.at, t.category, {t})
  BY DEF SourceGaps
<1>3. GapCode(t) = "attribution_conflict" /\ s = t
  BY <1>1, <1>2, GapFields
<1> QED
  BY <1>3, CoverageAssumption DEF GapCode, CoverageAssumption

LEMMA HeldIsCountable ==
    ASSUME NEW s \in version.sources, Mapped(s), Included(s), Held(s)
    PROVE  s \in Countable
  BY ConflictGap DEF Countable

-----------------------------------------------------------------------------
(* A covered scope is whole.                                               *)

LEMMA NotHeldBack ==
    ASSUME NEW sel, NEW scope, ~HeldBack(sel, scope), NEW g \in Gaps(sel)
    PROVE  scope \notin ScopesOf(g) /\ ScopesOf(g) # {}
  BY DEF HeldBack

LEMMA ScopeOfSource ==
    ASSUME NEW g, NEW s, g.sources = {s}
    PROVE  s.scope \in ScopesOf(g)
  BY DEF ScopesOf

(* What a covered scope has no gap about.                                  *)
LEMMA SourceOfCovered ==
    ASSUME TypeOK, NEW sel, NEW scope, ~HeldBack(sel, scope),
           NEW s \in version.sources, Chosen(sel, s), s.scope = scope, s.decision # "excluded"
    PROVE  Mapped(s) /\ Included(s) /\ s \in Countable
<1>1. \A g \in Gaps(sel) : g.sources # {s}
  BY NotHeldBack, ScopeOfSource
<1>2. Mapped(s) /\ Included(s) /\ Held(s)
  BY <1>1, SourceGap
<1> QED
  BY <1>2, HeldIsCountable

LEMMA RecordOfCovered ==
    ASSUME NEW sel, NEW scope, ~HeldBack(sel, scope), NEW x \in Live(sel), ScopeOf[x.category] = scope
    PROVE  IsAttached(x)
  BY NotHeldBack, StrayRecordGap

(* Two records of a source that hold the same month are one record: the    *)
(* source is the only one that claims them, and its cadence is theirs.     *)
LEMMA OneRecordOfMonth ==
    ASSUME TypeOK, NEW s \in Countable, NEW x \in Slots, NEW y \in Slots, NEW m \in 1 .. 12,
           IsAttached(x), IsAttached(y), Holds(x, s, m), Holds(y, s, m)
    PROVE  x = y
<1>1. \A z \in Slots : IsAttached(z) /\ Claims(z, s) => z.cadence = s.cadence
  <2> SUFFICES ASSUME NEW z \in Slots, IsAttached(z), Claims(z, s)
               PROVE  z.cadence = s.cadence
    OBVIOUS
  <2>1. PICK t \in Countable : Attached(z, t)
    BY DEF IsAttached
  <2>2. Claims(z, t) /\ z.cadence = t.cadence
    BY <2>1 DEF Attached, ClaimedBy
  <2>3. s = t
    BY <2>2, VersionHolds DEF WellFormed, Claims, Countable, Mapped, Included
  <2> QED
    BY <2>2, <2>3
<1>2. x.cadence = y.cadence /\ x.at = y.at /\ x.category = y.category /\ x.kind = y.kind
  BY <1>1 DEF Holds, Claims
<1>3. x.n = y.n
  <2>1. x.cadence \in Cadences /\ x.n \in Nat /\ y.n \in Nat /\ m \in Nat
    BY CoverageAssumption DEF CoverageAssumption
  <2> QED
    BY <1>2, <2>1, OnePeriodOfMonth DEF Holds
<1> QED
  BY <1>2, <1>3, CoverageAssumption DEF CoverageAssumption

LEMMA CoveredIsWholeHolds == TypeOK => CoveredIsWhole
<1> SUFFICES ASSUME TypeOK, NEW sel \in Selections, NEW scope \in {1, 2}, Covered(sel, scope)
             PROVE  /\ version.decision = "confirmed"
                    /\ \A s \in version.sources :
                         Chosen(sel, s) /\ s.scope = scope /\ s.decision # "excluded" =>
                             /\ Mapped(s)
                             /\ \A m \in Operating(s) : \E x \in CountedIn(sel, scope) :
                                  {y \in Live(sel) : Holds(y, s, m)} = {x}
                    /\ \A x \in Live(sel) :
                         ScopeOf[x.category] = scope /\ record[x].status \in Counts
                           => x \in CountedIn(sel, scope)
  BY DEF CoveredIsWhole
<1>1. ~HeldBack(sel, scope) /\ Disclosed(sel, scope)
  BY DEF Covered
<1>2. version.decision = "confirmed"
  <2>1. version.decision # "unconfirmed"
    BY <1>1, UnconfirmedGap, NotHeldBack
  <2> QED
    BY <2>1, VersionHolds DEF WellFormed
<1>3. ASSUME NEW x \in Live(sel), ScopeOf[x.category] = scope, record[x].status \in Counts
      PROVE  x \in CountedIn(sel, scope)
  BY <1>1, <1>3, RecordOfCovered DEF CountedIn, Counted
<1>4. ASSUME NEW s \in version.sources, Chosen(sel, s), s.scope = scope, s.decision # "excluded"
      PROVE  /\ Mapped(s)
             /\ \A m \in Operating(s) : \E x \in CountedIn(sel, scope) :
                  {y \in Live(sel) : Holds(y, s, m)} = {x}
  <2>1. Mapped(s) /\ Included(s) /\ s \in Countable
    BY <1>1, <1>4, SourceOfCovered
  <2>2. ScopeOf[s.category] = scope
    BY <1>4, <2>1, VersionHolds DEF WellFormed, Mapped
  <2>3. ASSUME NEW m \in Operating(s)
        PROVE  \E x \in CountedIn(sel, scope) : {y \in Live(sel) : Holds(y, s, m)} = {x}
    <3>1. PICK n \in Obliged(s) : First(s.cadence, n) <= m /\ m <= Last(s.cadence, n)
      BY <2>1, MonthIsObliged
    <3>2. PICK x \in SatisfiedBy(sel, s, n) : TRUE
      BY <1>4, <2>1 DEF Covered
    <3>3. /\ x \in Live(sel) /\ record[x].status \in Counts
          /\ Claims(x, s) /\ x.cadence = s.cadence /\ x.n = n
      BY DEF SatisfiedBy, Attached, ClaimedBy
    <3>4. Holds(x, s, m)
      BY <3>1, <3>3 DEF Holds
    <3>5. x \in CountedIn(sel, scope)
      BY <1>3, <2>2, <3>3 DEF Claims
    <3>6. ASSUME NEW y \in Live(sel), Holds(y, s, m)
          PROVE  y = x
      <4>1. ScopeOf[y.category] = scope /\ ScopeOf[x.category] = scope
        BY <2>2, <3>3, <3>6 DEF Holds, Claims
      <4>2. IsAttached(x) /\ IsAttached(y)
        BY <1>1, <3>3, <4>1, RecordOfCovered
      <4> QED
        BY <2>1, <3>3, <3>4, <3>6, <4>2, OneRecordOfMonth, OperatingMonth DEF Live
    <3> QED
      BY <3>3, <3>4, <3>5, <3>6
  <2> QED
    BY <2>1, <2>3
<1> QED
  BY <1>2, <1>3, <1>4

-----------------------------------------------------------------------------
(* The extracts add up to the inventory.                                   *)

(* What an extract captures, chooses and attaches is what the inventory    *)
(* does of its subsidiary.                                                 *)
LEMMA DeclaredIsSomebody == TypeOK => None \notin Declared
  BY VersionHolds DEF WellFormed, Declared, Entities

LEMMA LiveOfExtract ==
    ASSUME TypeOK, NEW s \in Declared
    PROVE  Live(Extract(s)) = {x \in Live(Inventory) : x.at.sub = s}
  BY DeclaredIsSomebody DEF Live, Captured, Inventory, Extract

LEMMA EveryLive ==
    ASSUME NEW x \in Live(Inventory)
    PROVE  x.at.sub \in Declared
  BY DEF Live, Captured, Inventory

LEMMA ChosenOfExtract ==
    ASSUME TypeOK, NEW s \in Declared, NEW t
    PROVE  Chosen(Inventory, t) /\ (Chosen(Extract(s), t) <=> t.at.sub = s)
  BY DeclaredIsSomebody DEF Chosen, Inventory, Extract

LEMMA AttachedOfExtract ==
    ASSUME TypeOK, NEW s \in Declared, NEW t, t.at.sub = s
    PROVE  /\ \A n : SatisfiedBy(Extract(s), t, n) = SatisfiedBy(Inventory, t, n)
           /\ MissingFrom(Extract(s), t) = MissingFrom(Inventory, t)
<1>1. \A x : Attached(x, t) => (x \in Live(Extract(s)) <=> x \in Live(Inventory))
  BY LiveOfExtract DEF Attached, ClaimedBy, Claims
<1>2. \A n : SatisfiedBy(Extract(s), t, n) = SatisfiedBy(Inventory, t, n)
  BY <1>1 DEF SatisfiedBy
<1>3. \A n : EvidenceMissing(Extract(s), t, n) <=> EvidenceMissing(Inventory, t, n)
  BY <1>1 DEF EvidenceMissing
<1> QED
  BY <1>2, <1>3 DEF MissingFrom

(* The gaps of an extract are those of the inventory, ...                  *)
LEMMA GapsOfExtract ==
    ASSUME TypeOK, NEW s \in Declared
    PROVE  Gaps(Extract(s)) \subseteq Gaps(Inventory)
<1>1. \A g : InSelection(Inventory, g)
  BY DeclaredIsSomebody, ChosenOfExtract DEF InSelection, Inventory
<1>2. ObligationGaps(Extract(s)) \subseteq ObligationGaps(Inventory)
  BY ChosenOfExtract, AttachedOfExtract DEF ObligationGaps
<1>3. RecordGaps(Extract(s)) \subseteq RecordGaps(Inventory)
  BY LiveOfExtract DEF RecordGaps
<1> QED
  BY <1>1, <1>2, <1>3 DEF Gaps

(* ... and each of the inventory's is of an extract.                       *)
LEMMA GapsOfInventory ==
    ASSUME TypeOK, NEW g \in Gaps(Inventory)
    PROVE  \E s \in Declared : g \in Gaps(Extract(s))
<1>1. \A e \in Entities : e.sub \in Declared
  BY DEF Declared
<1>2. \A t \in version.sources : t.at \in Entities
  BY VersionHolds DEF WellFormed, Entities
<1>3. CASE g \in Unconfirmed
  <2>1. Declared # {}
    BY <1>1, VersionHolds DEF WellFormed, Entities
  <2> QED
    BY <1>3, <2>1 DEF Gaps
<1>4. CASE g \in BoundaryGaps
  <2>1. ASSUME g.sources = {}, g.at.sub \in Declared
        PROVE  g \in Gaps(Extract(g.at.sub))
    BY <1>4, <2>1 DEF Gaps, InSelection, Extract
  <2>2. CASE g \in Undetermined
    <3>1. PICK s \in Declared, c \in Categories :
            \/ \E e \in Attributed(s, c) : g = Gap("applicability_undetermined", e, c, {})
            \/ g = Gap("applicability_undetermined", Company(s), c, {})
      BY <2>2 DEF Undetermined, UndeterminedOf
    <3>2. \A e \in Attributed(s, c) : e.sub = s
      BY DEF Attributed, SitesOf, Company
    <3>3. g.at.sub = s /\ g.sources = {}
      BY <3>1, <3>2, GapFields DEF Company
    <3> QED
      BY <2>1, <3>3
  <2>3. CASE g \in SourceGaps
    <3>1. PICK t \in version.sources : g = Gap(GapCode(t), t.at, t.category, {t})
      BY <2>3 DEF SourceGaps
    <3>2. t.at.sub \in Declared /\ g.sources = {t}
      BY <1>1, <1>2, <3>1, GapFields
    <3>3. InSelection(Extract(t.at.sub), g)
      BY <3>2, ChosenOfExtract DEF InSelection
    <3> QED
      BY <1>4, <3>2, <3>3 DEF Gaps
  <2>4. CASE g \in EmptyCells
    <3>1. PICK cell \in version.cells : g = Gap("attribution_conflict", cell.at, cell.category, {})
      BY <2>4 DEF EmptyCells
    <3>2. cell.at \in Entities
      BY VersionHolds DEF WellFormed, Entities
    <3> QED
      BY <1>1, <2>1, <3>1, <3>2, GapFields
  <2> QED
    BY <1>4, <2>2, <2>3, <2>4 DEF BoundaryGaps
<1>5. CASE g \in ObligationGaps(Inventory)
  <2>1. PICK t \in version.sources : Included(t) /\ g \in MissingFrom(Inventory, t)
    BY <1>5 DEF ObligationGaps
  <2>2. t.at.sub \in Declared
    BY <1>1, <1>2
  <2>3. Chosen(Extract(t.at.sub), t) /\ g \in MissingFrom(Extract(t.at.sub), t)
    BY <2>1, <2>2, ChosenOfExtract, AttachedOfExtract
  <2> QED
    BY <2>1, <2>2, <2>3 DEF Gaps, ObligationGaps
<1>6. CASE g \in RecordGaps(Inventory)
  <2>1. PICK x \in Live(Inventory) :
          \/ g = RecordGap("unmapped_record", x) /\ ~IsAttached(x)
          \/ g = RecordGap("overlapping_periods", x) /\ ~IsAttached(x) /\ Overlapping(x)
    BY <1>6 DEF RecordGaps
  <2>2. x.at.sub \in Declared /\ x \in Live(Extract(x.at.sub))
    BY EveryLive, LiveOfExtract
  <2> QED
    BY <2>1, <2>2 DEF Gaps, RecordGaps
<1> QED
  BY <1>3, <1>4, <1>5, <1>6 DEF Gaps

LEMMA CountedOfExtract ==
    ASSUME TypeOK, NEW scope
    PROVE  CountedIn(Inventory, scope) = UNION {CountedIn(Extract(s), scope) : s \in Declared}
<1>1. Disclosed(Inventory, scope) /\ \A s : Disclosed(Extract(s), scope)
  BY DEF Disclosed, Inventory, Extract
<1>2. \A s \in Declared : CountedIn(Extract(s), scope) = {x \in CountedIn(Inventory, scope) : x.at.sub = s}
  BY <1>1, LiveOfExtract DEF CountedIn, Counted
<1>3. \A x \in CountedIn(Inventory, scope) : x.at.sub \in Declared
  BY EveryLive, <1>1 DEF CountedIn, Counted
<1> QED
  BY <1>2, <1>3

LEMMA ExtractsAddUpHolds == TypeOK => ExtractsAddUp
<1> SUFFICES ASSUME TypeOK, NEW scope \in {1, 2}
             PROVE  /\ Covered(Inventory, scope) <=> \A s \in Declared : Covered(Extract(s), scope)
                    /\ CountedIn(Inventory, scope) = UNION {CountedIn(Extract(s), scope) : s \in Declared}
  BY DEF ExtractsAddUp
<1>1. Disclosed(Inventory, scope) /\ \A s : Disclosed(Extract(s), scope)
  BY DEF Disclosed, Inventory, Extract
<1>2. HeldBack(Inventory, scope) <=> \E s \in Declared : HeldBack(Extract(s), scope)
  BY GapsOfExtract, GapsOfInventory DEF HeldBack
<1>3. \A t \in version.sources : t.at.sub \in Declared
  BY VersionHolds DEF WellFormed, Declared, Entities
<1>4. (\A x \in CountedIn(Inventory, scope) : record[x].calc # None)
        <=> \A s \in Declared : \A x \in CountedIn(Extract(s), scope) : record[x].calc # None
  BY CountedOfExtract
<1>5. ASSUME NEW t \in version.sources, NEW s \in Declared, t.at.sub = s
      PROVE  /\ Chosen(Inventory, t) /\ Chosen(Extract(s), t)
             /\ \A n : SatisfiedBy(Inventory, t, n) = SatisfiedBy(Extract(s), t, n)
  BY <1>5, ChosenOfExtract, AttachedOfExtract
<1>6. ASSUME Covered(Inventory, scope), NEW s \in Declared
      PROVE  Covered(Extract(s), scope)
  BY <1>1, <1>2, <1>4, <1>5, <1>6, ChosenOfExtract DEF Covered
<1>7. ASSUME \A s \in Declared : Covered(Extract(s), scope)
      PROVE  Covered(Inventory, scope)
  <2>1. ASSUME NEW t \in version.sources, Included(t), t.scope = scope, NEW n \in Obliged(t)
        PROVE  SatisfiedBy(Inventory, t, n) # {}
    BY <1>3, <1>5, <1>7, <2>1 DEF Covered
  <2> QED
    BY <1>1, <1>2, <1>4, <1>7, <2>1 DEF Covered
<1> QED
  BY <1>6, <1>7, CountedOfExtract

(* A scope of any selection is disclosed as covered only if every          *)
(* operating month of its sources is held by one record, which is counted, *)
(* and no record of it is left out; and the subsidiaries' extracts add up  *)
(* to the inventory.                                                       *)
THEOREM DisclosureIsWholeHolds == Spec => []DisclosureIsWhole
<1>1. TypeOK => DisclosureIsWhole
  BY CoveredIsWholeHolds, ExtractsAddUpHolds DEF DisclosureIsWhole
<1> QED
  BY <1>1, CoverageTypeCorrect, PTL

-----------------------------------------------------------------------------
(* A final is complete, and stays what it is.                              *)

(* What no blocker says.                                                   *)
LEMMA FinalHas ==
    ASSUME Final(Inventory)
    PROVE  /\ Gaps(Inventory) = {}
           /\ \A o \in Obligations(Inventory) :
                /\ \A x \in SatisfiedBy(Inventory, o[1], o[2]) : Approved(x)
                /\ PeriodClosed(o[1], o[2])
           /\ \A x \in Counted(Inventory) : Authoritative(x)
           /\ ~(Cardinality(GwpNames(Inventory)) > 1)
<1>1. "coverage_gap" \notin Blockers(Inventory)
  BY DEF Final
<1>2. "unapproved_record" \notin Blockers(Inventory)
  BY DEF Final
<1>3. "unlocked_period" \notin Blockers(Inventory)
  BY DEF Final
<1>4. "non_authoritative_calculation" \notin Blockers(Inventory)
  BY DEF Final
<1>5. "gwp_set_mismatch" \notin Blockers(Inventory)
  BY DEF Final
<1> QED
  BY <1>1, <1>2, <1>3, <1>4, <1>5 DEF Blockers

LEMMA AllChosen == \A s : Chosen(Inventory, s)
  BY DEF Chosen, Inventory

LEMMA ObligationOf ==
    ASSUME TypeOK, NEW s \in version.sources, Included(s), NEW n \in Obliged(s)
    PROVE  <<s, n>> \in Obligations(Inventory)
<1>1. n \in 1 .. 12
  BY VersionHolds DEF WellFormed, Included, Obliged, PeriodsOf, MonthsOf, Cadences
<1> QED
  BY <1>1, AllChosen DEF Obligations

(* Every record a final counts is approved, and its period locked.         *)
LEMMA CountedIsSettled ==
    ASSUME TypeOK, Final(Inventory), NEW x \in Counted(Inventory)
    PROVE  Approved(x) /\ Period(x) \in closed
<1>1. PICK s \in Countable : Attached(x, s)
  BY DEF Counted, IsAttached
<1>2. s \in version.sources /\ Included(s) /\ x.n \in Obliged(s) /\ x.cadence = s.cadence /\ x.at = s.at
  BY <1>1 DEF Countable, Attached, ClaimedBy, Claims
<1>3. x \in SatisfiedBy(Inventory, s, x.n)
  BY <1>1 DEF SatisfiedBy, Counted
<1>4. Approved(x) /\ PeriodClosed(s, x.n)
  BY <1>2, <1>3, ObligationOf, FinalHas
<1> QED
  BY <1>2, <1>4 DEF PeriodClosed, Period

LEMMA AuthoritativeStands ==
    ASSUME NEW x, Authoritative(x)
    PROVE  ReleasesOf(x) # {} /\ ReleasesOf(x) \cap withdrawn = {}
  BY DEF Authoritative, Provenanced, ReleasesOf, StandsNow

(* Every operating month of every included source.                         *)
LEMMA FinalHoldsMonths ==
    ASSUME TypeOK, Final(Inventory), NEW s \in version.sources, Included(s), NEW m \in Operating(s)
    PROVE  \E x \in Slots :
             /\ Holds(x, s, m) /\ record[x].status = "approved" /\ Period(x) \in closed
             /\ ReleasesOf(x) # {} /\ ReleasesOf(x) \cap withdrawn = {}
<1>1. PICK n \in Obliged(s) : First(s.cadence, n) <= m /\ m <= Last(s.cadence, n)
  BY MonthIsObliged
<1>2. PICK x \in SatisfiedBy(Inventory, s, n) : TRUE
  BY FinalHas, AllChosen, MissingRecordGap
<1>3. x \in Counted(Inventory) /\ x.n = n /\ x.cadence = s.cadence /\ Claims(x, s) /\ x \in Slots
  BY DEF SatisfiedBy, Counted, IsAttached, Attached, ClaimedBy, Live
<1>4. Holds(x, s, m)
  BY <1>1, <1>3 DEF Holds
<1> QED
  BY <1>3, <1>4, CountedIsSettled, FinalHas, AuthoritativeStands DEF Approved

(* Every category is decided wherever it is attributed.                    *)
LEMMA FinalDecides ==
    ASSUME TypeOK, Final(Inventory), NEW s \in Declared, NEW c \in Categories
    PROVE  /\ Attributed(s, c) # {}
           /\ \A e \in Attributed(s, c) :
                \/ CellSays(e, c, {"excluded"})
                \/ CellSays(e, c, {"included"}) /\ IncludedAt(e, c) # {}
<1>1. BoundaryGaps = {}
  <2>1. \A g : InSelection(Inventory, g)
    BY AllChosen DEF InSelection, Inventory
  <2> QED
    BY <2>1, FinalHas DEF Gaps
<1>2. Attributed(s, c) # {}
  <2>1. Attributed(s, c) = {} => Gap("applicability_undetermined", Company(s), c, {}) \in UndeterminedOf(s, c)
    BY DEF UndeterminedOf
  <2> QED
    BY <1>1, <2>1 DEF BoundaryGaps, Undetermined
<1>3. ASSUME NEW e \in Attributed(s, c)
      PROVE  CellSays(e, c, {"included", "excluded"})
  <2>1. Undecided(e, c) => Gap("applicability_undetermined", e, c, {}) \in UndeterminedOf(s, c)
    BY DEF UndeterminedOf
  <2> QED
    BY <1>1, <2>1 DEF BoundaryGaps, Undetermined, Undecided
<1>4. ASSUME NEW e, CellSays(e, c, {"included"})
      PROVE  IncludedAt(e, c) # {}
  <2>1. PICK cell \in version.cells : cell.at = e /\ cell.category = c /\ cell.decision = "included"
    BY <1>4 DEF CellSays
  <2>2. IncludedAt(e, c) = {} => Gap("attribution_conflict", e, c, {}) \in EmptyCells
    BY <2>1 DEF EmptyCells
  <2> QED
    BY <1>1, <2>2 DEF BoundaryGaps
<1> QED
  BY <1>2, <1>3, <1>4 DEF CellSays

LEMMA FinalIsCovered ==
    ASSUME TypeOK, Final(Inventory), NEW scope
    PROVE  Covered(Inventory, scope)
<1>1. ~HeldBack(Inventory, scope)
  BY FinalHas DEF HeldBack
<1>2. ASSUME NEW s \in version.sources, Included(s), NEW n \in Obliged(s)
      PROVE  SatisfiedBy(Inventory, s, n) # {}
  BY <1>2, FinalHas, AllChosen, MissingRecordGap
<1>3. \A x \in CountedIn(Inventory, scope) : record[x].calc # None
  BY FinalHas DEF CountedIn, Authoritative, Provenanced
<1> QED
  BY <1>1, <1>2, <1>3 DEF Covered, Disclosed, Inventory

LEMMA TwoMembers ==
    ASSUME NEW p, NEW q, p # q
    PROVE  IsFiniteSet({p, q}) /\ Cardinality({p, q}) = 2
<1>1. IsFiniteSet({q}) /\ Cardinality({q}) = 1
  BY FS_Singleton
<1>2. p \notin {q}
  OBVIOUS
<1>3. /\ IsFiniteSet({q} \cup {p})
      /\ Cardinality({q} \cup {p}) = IF p \in {q} THEN Cardinality({q}) ELSE Cardinality({q}) + 1
  <2> DEFINE s == {q}
  <2>1. IsFiniteSet(s)
    BY <1>1
  <2> HIDE DEF s
  <2>2. IsFiniteSet(s \cup {p}) /\ Cardinality(s \cup {p}) = IF p \in s THEN Cardinality(s) ELSE Cardinality(s) + 1
    BY <2>1, FS_AddElement
  <2> QED
    BY <2>2 DEF s
<1>4. {q} \cup {p} = {p, q}
  OBVIOUS
<1> QED
  BY <1>1, <1>2, <1>3, <1>4

(* Two sets of warming potentials would have been counted.                 *)
LEMMA FinalIsOfOneGwpSet ==
    ASSUME TypeOK, Final(Inventory), NEW x \in Counted(Inventory), NEW y \in Counted(Inventory),
           record[x].calc.allGases, record[y].calc.allGases
    PROVE  GwpSet[record[x].calc.factor] = GwpSet[record[y].calc.factor]
<1> DEFINE names == GwpNames(Inventory)
           a == GwpSet[record[x].calc.factor]
           b == GwpSet[record[y].calc.factor]
<1>1. {a, b} \subseteq names
  BY FinalHas DEF GwpNames, Authoritative
<1>2. IsFiniteSet(names)
  <2> DEFINE counted == {z \in Counted(Inventory) : Provenanced(z) /\ record[z].calc.allGases}
             name == [z \in counted |-> GwpSet[record[z].calc.factor]]
  <2>1. IsFiniteSet(counted)
    <3>1. counted \subseteq Slots
      BY DEF Counted, Live
    <3> QED
      BY <3>1, CoverageAssumption, FS_Subset DEF CoverageAssumption
  <2>2. IsFiniteSet({name[z] : z \in counted})
    <3>1. name \in Surjection(counted, {name[z] : z \in counted})
      BY DEF Surjection
    <3> QED
      BY <2>1, <3>1, FS_Surjection
  <2>3. names = {name[z] : z \in counted}
    BY DEF GwpNames
  <2> QED
    BY <2>2, <2>3
<1>3. ASSUME a # b
      PROVE  FALSE
  <2>1. IsFiniteSet({a, b}) /\ Cardinality({a, b}) = 2
    BY <1>3, TwoMembers
  <2>2. Cardinality({a, b}) <= Cardinality(names)
    BY <1>1, <1>2, FS_Subset
  <2>3. Cardinality(names) \in Nat
    BY <1>2, FS_CardinalityType
  <2> QED
    BY <2>1, <2>2, <2>3, FinalHas
<1> QED
  BY <1>3

(* A report issued as final covers both scopes, every category is decided  *)
(* wherever it is attributed, every operating month of every included      *)
(* source is held by an approved record of a locked period whose releases  *)
(* stand, and what it counts is on one set of warming potentials.          *)
THEOREM FinalIsCompleteHolds == Spec => []FinalIsComplete
<1>1. TypeOK => FinalIsComplete
  BY FinalIsCovered, FinalDecides, FinalHoldsMonths, FinalIsOfOneGwpSet DEF FinalIsComplete
<1> QED
  BY <1>1, CoverageTypeCorrect, PTL

(* The records a final reports do not change while no period is unlocked.  *)
THEOREM FinalKeptHolds == Spec => [][FinalKept]_vars
<1>1. ASSUME TypeOK, [Next]_vars, Final(Inventory), closed \subseteq closed', NEW x \in Counted(Inventory)
      PROVE  record'[x] = record[x]
  <2>1. Period(x) \in closed /\ x \in Slots
    BY <1>1, CountedIsSettled DEF Counted, Live
  <2>2. ASSUME NEW y \in Slots, Period(y) \notin closed, NEW r, Move(y, r)
        PROVE  record'[x] = record[x]
    BY <1>1, <2>1, <2>2 DEF Move, TypeOK
  <2>3. ASSUME NEW y \in Slots,
               File(y) \/ Remove(y) \/ Link(y) \/ Submit(y) \/ Reject(y) \/ Approve(y) \/ Void(y)
        PROVE  record'[x] = record[x]
    BY <2>2, <2>3 DEF File, Remove, Link, Submit, Reject, Approve, Void
  <2> QED
    BY <1>1, <2>3 DEF Next, Lock, Unlock, Withdraw, vars
<1>2. TypeOK /\ [Next]_vars => [FinalKept]_vars
  BY <1>1 DEF FinalKept
<1> QED
  BY <1>2, CoverageTypeCorrect, PTL DEF Spec

-----------------------------------------------------------------------------
(* The cell of a category and year, while its records are entered.         *)
(*                                                                         *)
(* Two facts of the records carry the proofs: no two records that are not  *)
(* voided stand for one slot, and where evidence is required no record     *)
(* counts without its file.  So the invoices that are in are as many as    *)
(* their slots, and each of the counting records closes one.               *)

OnePerSlot ==
    \A q, r \in LiveEntries :
        entry[q].place = entry[r].place /\ entry[q].period = entry[r].period => q = r

CompletenessInv == CellTypeOK /\ OnePerSlot

EntryStatuses == {"none", "voided"} \cup COUNTED_STATUSES \cup PENDING_STATUSES
EntryRow == [status : EntryStatuses, place : Sites \cup {Whole}, period : Months \cup {Annual},
        file : BOOLEAN, flagged : BOOLEAN]

USE DEF COUNTED_STATUSES, PENDING_STATUSES, ACCEPTED_STATUSES, EntryStatuses

-----------------------------------------------------------------------------
(* The invariant.                                                          *)

(* A record that changes keeps the invariant, if it stays of the company   *)
(* or a site that is open, has its file where it counts, and moves to a    *)
(* slot that no other holds.                                               *)
LEMMA EditKeeps ==
    ASSUME CompletenessInv, NEW r \in Records, NEW new \in EntryRow, Edited(r, new),
           new.place \in Places,
           EvidenceRequired /\ new.status \in COUNTED_STATUSES => new.file,
           \/ new.status \in {"none", "voided"}
           \/ Free(new.place, new.period)
           \/ r \in LiveEntries /\ new.place = entry[r].place /\ new.period = entry[r].period
    PROVE  CompletenessInv'
<1>1. entry' = [entry EXCEPT ![r] = new] /\ UNCHANGED <<opened, over, bySite, rule>>
  BY DEF Edited
<1>2. entry \in [Records -> EntryRow]
  BY DEF CompletenessInv, CellTypeOK, EntryRow
<1>3. entry'[r] = new /\ \A q \in Records \ {r} : entry'[q] = entry[q]
  BY <1>1, <1>2
<1>4. CellTypeOK'
  <2>1. Places' = Places
    BY <1>1 DEF Places, SitesOfToday
  <2>2. entry' \in [Records -> EntryRow]
    BY <1>1, <1>2
  <2>3. \A q \in Records : entry'[q].place \in Places
    BY <1>3 DEF CompletenessInv, CellTypeOK
  <2>4. EvidenceRequired => \A q \in Having(Records, COUNTED_STATUSES)' : entry'[q].file
    BY <1>3 DEF CompletenessInv, CellTypeOK, Having, EvidenceRequired
  <2> QED
    BY <1>1, <2>1, <2>2, <2>3, <2>4 DEF CompletenessInv, CellTypeOK, EntryRow, EvidenceRequired
<1>5. OnePerSlot'
  <2>1. \A q \in LiveEntries' : q # r => q \in LiveEntries /\ entry'[q] = entry[q]
    BY <1>3 DEF LiveEntries, Entered, Exists
  <2>2. r \in LiveEntries' => new.status \notin {"none", "voided"}
    BY <1>3 DEF LiveEntries, Entered, Exists
  <2>3. ASSUME r \in LiveEntries', NEW q \in LiveEntries', q # r
        PROVE  ~(entry[q].place = new.place /\ entry[q].period = new.period)
    BY <2>1, <2>2, <2>3 DEF CompletenessInv, OnePerSlot, Free
  <2> QED
    BY <1>3, <2>1, <2>3 DEF CompletenessInv, OnePerSlot
<1> QED
  BY <1>4, <1>5 DEF CompletenessInv

LEMMA InvariantNext ==
    ASSUME CompletenessAssumption, CompletenessInv, [CellNext]_cellVars
    PROVE  CompletenessInv'
<1>1. /\ entry \in [Records -> EntryRow] /\ opened \in [Sites -> {"no", "in", "after"}]
      /\ \A r \in Records : entry[r].place \in Places
      /\ EvidenceRequired => \A r \in Records : entry[r].status \in COUNTED_STATUSES => entry[r].file
  BY DEF CompletenessInv, CellTypeOK, EntryRow, Having
<1>2. ASSUME UNCHANGED <<entry, rule>>, opened' \in [Sites -> {"no", "in", "after"}], SitesOfToday \subseteq SitesOfToday',
             over' \in BOOLEAN, bySite' \in BOOLEAN
      PROVE  CompletenessInv'
  <2>1. LiveEntries' = LiveEntries /\ Places \subseteq Places' /\ Having(Records, COUNTED_STATUSES)' = Having(Records, COUNTED_STATUSES)
    BY <1>2 DEF LiveEntries, Entered, Exists, Places, Having
  <2> QED
    BY <1>2, <2>1 DEF CompletenessInv, CellTypeOK, OnePerSlot, EvidenceRequired
<1>3. ASSUME NEW s \in Sites, OpenSite(s)
      PROVE  CompletenessInv'
  <2>1. opened' \in [Sites -> {"no", "in", "after"}] /\ SitesOfToday \subseteq SitesOfToday'
    BY <1>1, <1>3 DEF OpenSite, SitesOfToday
  <2> QED
    BY <1>2, <1>3, <2>1 DEF OpenSite, CompletenessInv, CellTypeOK
<1>4. CASE YearEnds \/ SetGranularity \/ UNCHANGED cellVars
  <2>1. opened' = opened /\ entry' = entry /\ rule' = rule /\ over' \in BOOLEAN /\ bySite' \in BOOLEAN
    BY <1>4 DEF YearEnds, SetGranularity, cellVars, CompletenessInv, CellTypeOK
  <2> QED
    BY <1>1, <1>2, <2>1 DEF SitesOfToday
<1>5. ASSUME NEW r \in Records, NEW place \in Places, NEW period \in Months \cup {Annual}, FileEntry(r, place, period)
      PROVE  CompletenessInv'
  <2> DEFINE new == [Absent EXCEPT !.status = "draft", !.place = place, !.period = period]
  <2>1. /\ new \in EntryRow /\ new.status = "draft" /\ new.place = place /\ new.period = period
    BY DEF Absent, EntryRow, Places, SitesOfToday
  <2>2. Edited(r, new)
    BY <1>5 DEF FileEntry, Edited
  <2> QED
    BY <1>5, <2>1, <2>2, EditKeeps DEF FileEntry
<1>6. ASSUME NEW r \in Records, NEW place \in Places, MoveEntry(r, place)
      PROVE  CompletenessInv'
  <2> DEFINE new == [entry[r] EXCEPT !.place = place]
  <2>1. /\ new \in EntryRow /\ new.status = entry[r].status /\ new.place = place /\ new.period = entry[r].period
    BY <1>1 DEF EntryRow, Places, SitesOfToday
  <2> QED
    BY <1>6, <2>1, EditKeeps DEF MoveEntry
<1>7. ASSUME NEW r \in Records, NEW new \in EntryRow, Edited(r, new), entry[r].status \notin {"none", "voided"},
             new.place = entry[r].place, new.period = entry[r].period,
             EvidenceRequired /\ new.status \in COUNTED_STATUSES => new.file
      PROVE  CompletenessInv'
  <2>1. r \in LiveEntries
    BY <1>7 DEF LiveEntries, Entered, Exists
  <2> QED
    BY <1>1, <1>7, <2>1, EditKeeps
<1>8. ASSUME NEW r \in Records, Attach(r)
      PROVE  CompletenessInv'
  <2> DEFINE new == [entry[r] EXCEPT !.file = ~@]
  <2>1. new \in EntryRow /\ new.status = entry[r].status /\ new.place = entry[r].place /\ new.period = entry[r].period
    BY <1>1 DEF EntryRow
  <2> QED
    BY <1>7, <1>8, <2>1 DEF Attach
<1>9. ASSUME NEW r \in Records, NEW flagged \in BOOLEAN, SubmitEntry(r, flagged)
      PROVE  CompletenessInv'
  <2> DEFINE new == [entry[r] EXCEPT !.status = "submitted", !.flagged = flagged]
  <2>1. entry[r] \in EntryRow
    BY <1>1
  <2>2. new \in EntryRow
    BY <2>1 DEF EntryRow
  <2>3. new.file = entry[r].file /\ new.place = entry[r].place /\ new.period = entry[r].period
    BY <2>1 DEF EntryRow
  <2>4. Edited(r, new) /\ entry[r].status \notin {"none", "voided"} /\ (EvidenceRequired => new.file)
    BY <1>9, <2>3 DEF SubmitEntry
  <2> QED
    BY <1>7, <2>2, <2>3, <2>4
<1>10. ASSUME NEW r \in Records, Decide(r)
       PROVE  CompletenessInv'
  <2>1. PICK to \in {"under_review", "approved", "rejected", "locked", "voided"} :
          /\ entry[r].status \in COUNTED_STATUSES
          /\ Edited(r, [entry[r] EXCEPT !.status = to])
    BY <1>10 DEF Decide
  <2> DEFINE new == [entry[r] EXCEPT !.status = to]
  <2>2. /\ new \in EntryRow /\ new.file = entry[r].file /\ new.place = entry[r].place
        /\ new.period = entry[r].period
    BY <1>1 DEF EntryRow
  <2> QED
    BY <1>1, <1>7, <2>1, <2>2
<1>11. ASSUME NEW r \in Records, RemoveEntry(r)
       PROVE  CompletenessInv'
  <2>1. Absent \in EntryRow /\ Absent.status = "none" /\ Absent.place \in Places
    BY DEF Absent, EntryRow, Places
  <2> QED
    BY <1>11, <2>1, EditKeeps DEF RemoveEntry
<1> QED
  BY <1>3, <1>4, <1>5, <1>6, <1>8, <1>9, <1>10, <1>11 DEF CellNext

LEMMA InvariantInit ==
    ASSUME CompletenessAssumption, CellInit
    PROVE  CompletenessInv
  BY DEF CellInit, CompletenessInv, CellTypeOK, OnePerSlot, LiveEntries, Entered, Exists, Absent, Places, SitesOfToday, Having

(* Every variable stays in its domain, no two live records stand for one   *)
(* slot, and where evidence is required no record counts without it.       *)
THEOREM CompletenessInvariant == CompletenessAssumption /\ CellSpec => []CompletenessInv
<1> SUFFICES ASSUME CompletenessAssumption
             PROVE  CellSpec => []CompletenessInv
  OBVIOUS
<1> QED
  BY InvariantInit, InvariantNext, PTL DEF CellSpec

-----------------------------------------------------------------------------
(* The verdict.                                                            *)

(* A slot of the year is covered when a counting record of it has its file. *)
LEMMA CoveredSlots ==
    ASSUME CompletenessAssumption, CompletenessInv
    PROVE  /\ DrillCoverage.required = SitesOfTheYear \X Months
           /\ DrillCoverage.covered \subseteq SitesOfTheYear \X Months
           /\ \A s \in SitesOfTheYear, m \in Months :
                CoveredAt(s, m) <=> \E r \in Having(LiveEntries, COUNTED_STATUSES) :
                                      entry[r].place = s /\ entry[r].period = m /\ entry[r].file
<1> DEFINE closing == {r \in Having(LiveEntries, COUNTED_STATUSES) : Closes(r, SitesOfTheYear)}
<1>1. DrillCoverage.required = SitesOfTheYear \X Months /\ DrillCoverage.covered = SlotsOf(closing)
  BY DEF DrillCoverage, InvoiceCoverage
<1>2. SlotsOf(closing) \subseteq SitesOfTheYear \X Months
  BY DEF SlotsOf, Closes
<1>3. ASSUME NEW s \in SitesOfTheYear, NEW m \in Months
      PROVE  <<s, m>> \in SlotsOf(closing) <=>
                \E r \in Having(LiveEntries, COUNTED_STATUSES) :
                    entry[r].place = s /\ entry[r].period = m /\ entry[r].file
  <2>1. <<s, m>> \in SlotsOf(closing) <=>
            \E r \in closing : entry[r].place = s /\ entry[r].period = m
    BY DEF SlotsOf
  <2> QED
    BY <2>1, <1>3 DEF Closes
<1> QED
  BY <1>1, <1>2, <1>3 DEF CoveredAt

(* What a complete cell says of its parts.                                 *)
LEMMA CompleteCell ==
    ASSUME NEW coverage, CellStatus(Cell(LiveEntries, coverage)) = "complete"
    PROVE  /\ LiveEntries # {}
           /\ Having(LiveEntries, PENDING_STATUSES) = {}
           /\ \A r \in LiveEntries : ~entry[r].flagged
           /\ EvidenceRequired => \A r \in Having(LiveEntries, COUNTED_STATUSES) : entry[r].file
           /\ Having(Having(LiveEntries, COUNTED_STATUSES), COUNTED_STATUSES \ ACCEPTED_STATUSES) = {}
           /\ \A c \in coverage :
                c.required # {} /\ Cardinality(c.covered) >= Cardinality(c.required)
<1> HIDE DEF COUNTED_STATUSES, PENDING_STATUSES, ACCEPTED_STATUSES
<1> DEFINE cell == Cell(LiveEntries, coverage)
<1>1. /\ cell.hasRecords /\ ~cell.hasPending /\ ~cell.anomaly /\ ~cell.evidenceMissing
      /\ cell.awaitingReview = {}
      /\ \A c \in cell.coverage :
           c.required # {} /\ Cardinality(c.covered) >= Cardinality(c.required)
  BY DEF CellStatus
<1> QED
  BY <1>1 DEF Cell

(* Coverage that is as large as what is required is what is required.      *)
LEMMA FullCoverage ==
    ASSUME CompletenessAssumption, CompletenessInv,
           Cardinality(DrillCoverage.covered) >= Cardinality(DrillCoverage.required)
    PROVE  DrillCoverage.covered = SitesOfTheYear \X Months
<1>1. IsFiniteSet(SitesOfTheYear) /\ IsFiniteSet(Months)
  BY FS_Subset DEF SitesOfTheYear, CompletenessAssumption
<1>2. IsFiniteSet(SitesOfTheYear \X Months)
  BY <1>1, FS_Product
<1>3. /\ Cardinality(DrillCoverage.covered) \in Nat
      /\ Cardinality(DrillCoverage.covered) <= Cardinality(SitesOfTheYear \X Months)
      /\ Cardinality(DrillCoverage.covered) = Cardinality(SitesOfTheYear \X Months) =>
           DrillCoverage.covered = SitesOfTheYear \X Months
  <2> DEFINE Owed == SitesOfTheYear \X Months
             Closed == DrillCoverage.covered
  <2>1. IsFiniteSet(Owed) /\ Closed \in SUBSET Owed
    BY <1>2, CoveredSlots
  <2> HIDE DEF Owed, Closed
  <2>2. /\ IsFiniteSet(Closed) /\ Cardinality(Closed) <= Cardinality(Owed)
        /\ Cardinality(Closed) = Cardinality(Owed) => Closed = Owed
    BY <2>1, FS_Subset
  <2>3. Cardinality(Closed) \in Nat
    BY <2>2, FS_CardinalityType
  <2> QED
    BY <2>2, <2>3 DEF Owed, Closed
<1>4. Cardinality(SitesOfTheYear \X Months) \in Nat
  BY <1>2, FS_CardinalityType
<1>5. Cardinality(DrillCoverage.covered) >= Cardinality(SitesOfTheYear \X Months)
  <2>1. DrillCoverage.required = SitesOfTheYear \X Months
    BY CoveredSlots
  <2> QED
    BY <2>1
<1> DEFINE n == Cardinality(DrillCoverage.covered)
           k == Cardinality(SitesOfTheYear \X Months)
<1>6. n = k
  <2>1. n \in Nat /\ k \in Nat /\ n <= k /\ n >= k
    BY <1>3, <1>4, <1>5
  <2> HIDE DEF n, k
  <2> QED
    BY <2>1
<1> QED
  BY <1>3, <1>6

LEMMA CompleteEarned ==
    ASSUME CompletenessAssumption, CompletenessInv
    PROVE  CompleteIsEarned
<1> SUFFICES ASSUME MatrixStatus = "complete"
             PROVE  /\ LiveEntries # {}
                    /\ \A r \in LiveEntries : entry[r].status \in ACCEPTED_STATUSES /\ ~entry[r].flagged
                                       /\ (EvidenceRequired => entry[r].file)
                    /\ Drilled =>
                         /\ SitesOfTheYear # {}
                         /\ \A s \in SitesOfTheYear, m \in Months : \E r \in LiveEntries : SlotsOf({r}) = {<<s, m>>}
  BY DEF CompleteIsEarned
<1> DEFINE coverage == IF Drilled THEN {DrillCoverage} ELSE {}
<1>1. CellStatus(Cell(LiveEntries, coverage)) = "complete"
  BY DEF MatrixStatus, Drilled, DrillCoverage
<1>2. /\ LiveEntries # {}
      /\ Having(LiveEntries, PENDING_STATUSES) = {}
      /\ \A r \in LiveEntries : ~entry[r].flagged
      /\ EvidenceRequired => \A r \in Having(LiveEntries, COUNTED_STATUSES) : entry[r].file
      /\ Having(Having(LiveEntries, COUNTED_STATUSES), COUNTED_STATUSES \ ACCEPTED_STATUSES) = {}
      /\ \A c \in coverage : c.required # {} /\ Cardinality(c.covered) >= Cardinality(c.required)
  <2> HIDE DEF coverage
  <2> QED
    BY <1>1, CompleteCell
<1>3. ASSUME NEW r \in LiveEntries
      PROVE  entry[r].status \in ACCEPTED_STATUSES /\ (EvidenceRequired => entry[r].file)
  <2>1. entry[r].status \in EntryStatuses \ {"none", "voided"}
    BY DEF CompletenessInv, CellTypeOK, LiveEntries, Entered, Exists
  <2> QED
    BY <1>2, <2>1 DEF Having
<1>4. ASSUME Drilled
      PROVE  /\ SitesOfTheYear # {}
             /\ \A s \in SitesOfTheYear, m \in Months : \E r \in LiveEntries : SlotsOf({r}) = {<<s, m>>}
  <2>1. /\ DrillCoverage.required # {}
        /\ Cardinality(DrillCoverage.covered) >= Cardinality(DrillCoverage.required)
    BY <1>2, <1>4
  <2>2. SitesOfTheYear # {}
    BY <2>1, CoveredSlots
  <2>3. ASSUME NEW s \in SitesOfTheYear, NEW m \in Months
        PROVE  \E r \in LiveEntries : SlotsOf({r}) = {<<s, m>>}
    <3>1. CoveredAt(s, m)
      BY <2>1, FullCoverage DEF CoveredAt
    <3>2. PICK r \in Having(LiveEntries, COUNTED_STATUSES) : entry[r].place = s /\ entry[r].period = m
      BY <3>1, CoveredSlots
    <3>3. r \in LiveEntries /\ SlotsOf({r}) = {<<s, m>>}
      BY <3>2 DEF Having, SlotsOf
    <3> QED
      BY <3>3
  <2> QED
    BY <2>2, <2>3
<1> QED
  BY <1>2, <1>3, <1>4

(* Only a decision turns a cell green: no step that leaves a record a      *)
(* draft, rejected or submitted does.                                      *)
THEOREM SubmittingLeavesCellHolds ==
    CompletenessAssumption /\ CellSpec => [][SubmittingLeavesCell]_cellVars
<1> SUFFICES ASSUME CompletenessAssumption
             PROVE  CellSpec => [][SubmittingLeavesCell]_cellVars
  OBVIOUS
<1>1. ASSUME CompletenessInv', CompleteIsEarned'
      PROVE  SubmittingLeavesCell
  <2> SUFFICES ASSUME NEW r \in Records, entry'[r].status \in PENDING_STATUSES \cup {"submitted"},
                      MatrixStatus' = "complete"
               PROVE  FALSE
    BY DEF SubmittingLeavesCell
  <2>1. r \in LiveEntries'
    BY DEF LiveEntries, Entered, Exists
  <2>2. entry'[r].status \in ACCEPTED_STATUSES
    BY <1>1, <2>1 DEF CompleteIsEarned
  <2> QED
    BY <2>2
<1>2. CompletenessInv => CompleteIsEarned
  BY CompleteEarned
<1> QED
  BY <1>1, <1>2, CompletenessInvariant, PTL DEF CellSpec

(* A year's verdict moves by somebody's decision: a site that opens after  *)
(* the year has ended leaves it as it was.                                 *)
THEOREM LaterSitesLeaveCellHolds ==
    CompletenessAssumption /\ CellSpec => [][LaterSitesLeaveCell]_cellVars
<1> SUFFICES ASSUME CompletenessAssumption
             PROVE  CellSpec => [][LaterSitesLeaveCell]_cellVars
  OBVIOUS
<1>1. ASSUME CompletenessInv, [CellNext]_cellVars
      PROVE  LaterSitesLeaveCell
  <2> SUFFICES ASSUME over, opened' # opened
               PROVE  MatrixStatus' = MatrixStatus
    BY DEF LaterSitesLeaveCell
  <2>1. PICK s \in Sites : OpenSite(s)
    BY <1>1 DEF CellNext, YearEnds, SetGranularity, FileEntry, MoveEntry, Attach, SubmitEntry, Decide, RemoveEntry, Edited, cellVars
  <2>2. opened \in [Sites -> {"no", "in", "after"}]
    BY <1>1 DEF CompletenessInv, CellTypeOK
  <2>3. entry' = entry /\ bySite' = bySite /\ rule' = rule /\ SitesOfTheYear' = SitesOfTheYear
    BY <2>1, <2>2 DEF OpenSite, SitesOfTheYear
  <2> QED
    BY <2>3 DEF MatrixStatus, CellStatus, Cell, InvoiceCoverage, Closes, SlotsOf, Having, LiveEntries, Entered, Exists,
                EvidenceRequired, InvoiceTracked
<1> QED
  BY <1>1, CompletenessInvariant, PTL DEF CellSpec

-----------------------------------------------------------------------------
(* The warning.                                                            *)

LEMMA WarningIsExact ==
    ASSUME CompletenessAssumption, CompletenessInv
    PROVE  DoubleCountWarned
<1> SUFFICES ASSUME Drilled, SitesOfTheYear # {},
                    NEW place \in {Whole} \cup SitesOfTheYear, NEW month \in Months, Free(place, month)
             PROVE  /\ Warns(place, month, {}) <=> CountedTwice(place, month, SitesOfTheYear)
                    /\ \A r \in Having(LiveEntries, PENDING_STATUSES) :
                         entry[r].period = month /\ entry[r].place # place =>
                             (Warns(place, month, {entry[r].place}) <=> CountedTwice(place, month, SitesOfTheYear))
  BY DEF DoubleCountWarned
<1> DEFINE Taken == Having(LiveEntries, COUNTED_STATUSES)
<1>1. Whole \notin SitesOfTheYear
  BY DEF CompletenessAssumption, SitesOfTheYear
<1>2. \A r \in Taken : r \in LiveEntries /\ r \in Records /\ entry[r].file
  <2>1. EvidenceRequired
    BY DEF Drilled, InvoiceTracked, EvidenceRequired, Rules, CompletenessInv, CellTypeOK
  <2> QED
    BY <2>1 DEF Having, LiveEntries, Entered, CompletenessInv, CellTypeOK
<1>3. \A s \in SitesOfTheYear :
        CoveredAt(s, month) <=> \E r \in Taken : entry[r].place = s /\ entry[r].period = month
  BY <1>2, CoveredSlots
<1>4. month \in CompanyLevelMonths <=> \E r \in Taken : entry[r].place = Whole /\ entry[r].period = month
  BY DEF CompanyLevelMonths
<1>5. \A r \in Taken : ~(entry[r].place = place /\ entry[r].period = month)
  BY <1>2 DEF Free
<1>6. \A r \in Having(LiveEntries, PENDING_STATUSES) : r \in LiveEntries /\ r \notin Taken
  BY DEF Having
<1>7. ASSUME NEW r \in Having(LiveEntries, PENDING_STATUSES), entry[r].period = month, NEW q \in Taken,
             entry[q].period = month
      PROVE  entry[q].place # entry[r].place
  BY <1>2, <1>6, <1>7 DEF CompletenessInv, OnePerSlot
<1> HIDE DEF Taken
<1>8. CountedTwice(place, month, SitesOfTheYear) <=>
        \E r \in Taken : /\ entry[r].period = month
                           /\ IF place = Whole THEN entry[r].place \in SitesOfTheYear
                                               ELSE entry[r].place = Whole
  BY DEF CountedTwice, Taken
<1>9. CASE place = Whole
  <2>1. \A from : Warns(place, month, from) <=>
            \E s \in SitesOfTheYear \ from : CoveredAt(s, month)
    BY <1>9 DEF Warns
  <2> QED
    BY <1>3, <1>7, <1>8, <1>9, <2>1
<1>10. CASE place # Whole
  <2>1. \A from : Warns(place, month, from) <=>
            month \in CompanyLevelMonths /\ ~CoveredAt(place, month) /\ Whole \notin from
    BY <1>10 DEF Warns
  <2>2. ~CoveredAt(place, month)
    BY <1>3, <1>5, <1>10
  <2> QED
    BY <1>4, <1>7, <1>8, <1>10, <2>1, <2>2
<1> QED
  BY <1>9, <1>10

(* A green cell is earned: every record in it is accepted, none stands out *)
(* or lacks its file, and where invoices are tracked there is a site and   *)
(* each has an accepted invoice for each month.  The drill-down says what  *)
(* the matrix says, and whoever keys or moves an entry is warned exactly   *)
(* when the month is already counted at the other level.                   *)
THEOREM GreenIsEarnedHolds == CompletenessAssumption /\ CellSpec => []GreenIsEarned
<1> SUFFICES ASSUME CompletenessAssumption
             PROVE  CellSpec => []GreenIsEarned
  OBVIOUS
<1>1. CompletenessInv => GreenIsEarned
  <2> SUFFICES ASSUME CompletenessInv
               PROVE  GreenIsEarned
    OBVIOUS
  <2>1. SurfacesAgree
    BY DEF SurfacesAgree, Drilled, MatrixStatus, DrillStatus, DrillCoverage
  <2> QED
    BY <2>1, CompleteEarned, WarningIsExact DEF GreenIsEarned
<1> QED
  BY <1>1, CompletenessInvariant, PTL

=============================================================================
