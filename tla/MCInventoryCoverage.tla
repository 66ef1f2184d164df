-------------------------- MODULE MCInventoryCoverage --------------------------
(***************************************************************************)
(* What is covered and what is complete, for TLC: InventoryCoverage and    *)
(* Completeness, which share no variable.  The initial state picks a       *)
(* scene, whose versions, slots and calculations the component moves over. *)
(* s1 and s2 are subsidiaries and l1 is a site of s1; power is of scope 2, *)
(* fuel of scope 1 with the activity types diesel and lpg; ar5 and ar6 are *)
(* sets of warming potentials.                                             *)
(***************************************************************************)
EXTENDS InventoryCoverage, Completeness, TLC

CONSTANTS s1, s2, l1, power, fuel, diesel, lpg, main, rate, trial, ar5, ar6,
          r1, r2, l2, l3, jan

VARIABLE scene

allVars == <<scene, vars, cellVars>>

ScopesHere == (power :> 2) @@ (fuel :> 1)
StandingHere == (main :> "authoritative") @@ (rate :> "authoritative") @@ (trial :> "placeholder")
GwpHere == (main :> ar5) @@ (rate :> ar6) @@ (trial :> None)

Firm == [factor |-> main, conversion |-> None, allGases |-> TRUE]
Few == {Firm}
Every ==
    {Firm, [Firm EXCEPT !.conversion = rate], [Firm EXCEPT !.factor = rate],
     [Firm EXCEPT !.factor = trial], [Firm EXCEPT !.factor = None],
     [Firm EXCEPT !.factor = rate, !.allGases = FALSE], None}

C1 == Company(s1)
C2 == Company(s2)
L1 == [sub |-> s1, site |-> l1]

From(a, b) == [first |-> a, last |-> b]
CellRow(e, c, d) == [at |-> e, category |-> c, decision |-> d]
Policy(s, c, level, cadence) == [sub |-> s, category |-> c, level |-> level, cadence |-> cadence]
Slot(e, c, kind, cadence, n) == [at |-> e, category |-> c, kind |-> kind, cadence |-> cadence, n |-> n]
Source(id, e, c, kind, scope, d, cadence, evidence) ==
    [id |-> id, at |-> e, category |-> c, kind |-> kind, scope |-> scope,
     decision |-> d, cadence |-> cadence, evidence |-> evidence]
Version(decision, months, policies, cells, sources) ==
    [decision |-> decision, months |-> months, policies |-> policies, cells |-> cells,
     sources |-> sources]

(* What a scene is not about, its company excludes.                        *)
Without(c) == {Policy(s1, c, "company", "annual")}
NotHere(c) == {CellRow(C1, c, "excluded")}

(* One source of one company, every cadence, every pair of cadences, and   *)
(* months that cut its periods.                                            *)
MonthVersions ==
    {Version("confirmed", C1 :> From(2, 3), {Policy(s1, power, "company", cadence)} \cup Without(fuel),
             {CellRow(C1, power, "included")} \cup NotHere(fuel),
             {Source(1, C1, power, None, 2, "included", cadence, evidence)}) :
        cadence \in Cadences, evidence \in {"monthly", None}}
MonthSlots ==
    {Slot(C1, power, None, "monthly", n) : n \in 1 .. 3}
    \cup {Slot(C1, power, None, "quarterly", 1), Slot(C1, power, None, "annual", 1)}

(* One category of a company and its site: every policy, every decision of *)
(* the cells (the company's alone is never left undetermined) and of a     *)
(* source, mapped or not.                                                  *)
DecisionCells ==
    {cs \in SUBSET [at : {C1, L1}, category : {fuel}, decision : {"included", "excluded", "undetermined"}] :
        /\ \A p, q \in cs : p.at = q.at => p = q
        /\ CellRow(C1, fuel, "undetermined") \notin cs}
DecisionSources ==
    {Source(1, e, fuel, diesel, 1, d, "annual", None) :
        e \in {C1, L1}, d \in {"included", "excluded", "undetermined"}}
OtherSources ==
    {Source(2, L1, None, None, 1, d, "annual", None) : d \in {"included", "excluded"}}
    \cup {Source(3, L1, fuel, lpg, 1, "included", "annual", None)}
SomeSources ==
    {{}} \cup {{x} : x \in DecisionSources}
    \cup {{x, y} : x \in {z \in DecisionSources : z.decision = "included"}, y \in OtherSources}
DecisionPolicies ==
    {{}} \cup {{Policy(s1, fuel, level, "annual")} : level \in {"company", "sites"}}
(* An included mapped source has a policy's cadence: the cadence key.      *)
KeysHold(v) ==
    \A s \in v.sources : s.category # None /\ s.decision = "included" =>
        \E p \in v.policies : p.sub = s.at.sub /\ p.category = s.category /\ p.cadence = s.cadence
DecisionVersions ==
    {v \in {Version("confirmed", (C1 :> From(1, 12)) @@ (L1 :> From(1, 6)),
                           policies \cup Without(power), cells \cup NotHere(power), ss) :
        policies \in DecisionPolicies, cells \in DecisionCells,
        ss \in SomeSources} : KeysHold(v)}
DecisionSlots == {Slot(C1, fuel, diesel, "annual", 1), Slot(L1, fuel, diesel, "annual", 1)}

(* Two subsidiaries and two categories.                                    *)
PowerOf(e, d) == Source(1, e, power, None, 2, d, "annual", None)
FuelOf(e, id, d) == Source(id, e, fuel, diesel, 1, d, "annual", None)
GroupCells ==
    {CellRow(C1, power, "included"), CellRow(C1, fuel, "included"),
     CellRow(C2, power, "excluded"), CellRow(C2, fuel, "included")}
GroupSources ==
    {PowerOf(C1, "included"), FuelOf(C1, 2, "included"), FuelOf(C2, 3, "included")}
GroupMonths == (C1 :> From(1, 12)) @@ (C2 :> From(1, 12))
GroupPolicies == {Policy(s, c, "company", "annual") : s \in {s1, s2}, c \in {power, fuel}}
GroupVersions ==
    {Version("confirmed", GroupMonths, GroupPolicies, GroupCells, sources) :
        sources \in {GroupSources, GroupSources \ {PowerOf(C1, "included")},
                     GroupSources \cup {Source(4, C2, None, None, 2, "included", "annual", None)}}}
    \cup {Version("unconfirmed", GroupMonths, GroupPolicies, GroupCells, GroupSources)}
GroupSlots ==
    {Slot(C1, power, None, "annual", 1), Slot(C1, fuel, diesel, "annual", 1),
     Slot(C2, fuel, diesel, "annual", 1), Slot(C2, fuel, lpg, "annual", 1)}

(* One company with two sources, whose records cite any release.           *)
FirmVersions ==
    {Version("confirmed", C1 :> From(1, 12),
             {Policy(s1, c, "company", "annual") : c \in {power, fuel}},
             {CellRow(C1, power, "included"), CellRow(C1, fuel, "included")},
             {PowerOf(C1, "included"), FuelOf(C1, 2, "included")})}
FirmSlots == {x \in GroupSlots : x.at = C1}

-----------------------------------------------------------------------------
(* The scenes of InventoryCoverage, and what each moves over.              *)

ReleasesHere == {main, rate, trial}
LinksHere == BOOLEAN

Scenes == {"months", "decisions", "extracts", "gate"}
Scene(versions, slots, filed, calculations, links, locks, releases) ==
    [versions |-> versions, slots |-> slots, filed |-> filed, calculations |-> calculations,
     links |-> links, locks |-> locks, releases |-> releases]
SceneOf ==
    ("months" :> Scene(MonthVersions, MonthSlots, 2, Few, BOOLEAN, 1, {}))
    @@ ("decisions" :> Scene(DecisionVersions, DecisionSlots, 2, Few, {FALSE}, 1, {}))
    @@ ("extracts" :> Scene(GroupVersions, GroupSlots, 3, Few, {FALSE}, 0, {}))
    @@ ("gate" :> Scene(FirmVersions, FirmSlots, 2, Every, {FALSE}, 1, {rate}))

CategoriesHere == {power, fuel}
VersionsHere == UNION {SceneOf[s].versions : s \in Scenes}
SlotsHere == UNION {SceneOf[s].slots : s \in Scenes}

CoverageAtRest == version = Version("unconfirmed", C1 :> From(1, 1), {}, {}, {}) /\ Unfiled
CellAtRest == CellInit /\ ~bySite /\ rule = [invoices |-> FALSE, evidence |-> FALSE]

MCInit ==
    \/ scene \in Scenes /\ version \in SceneOf[scene].versions /\ Unfiled /\ CellAtRest
    \/ scene = "cell" /\ CellInit /\ CoverageAtRest

(* What a scene moves over, one withdrawal at most.  A cell without        *)
(* invoices reads no site: one of them may open there.                     *)
Moves(here) ==
    \/ \E x \in here.slots :
         \/ File(x) /\ record'[x].calc \in here.calculations /\ record'[x].linked \in here.links
                    /\ Cardinality(Filed') <= here.filed
         \/ Link(x) /\ record'[x].linked \in here.links
         \/ Remove(x) \/ Submit(x) \/ Reject(x) \/ Approve(x) \/ Void(x)
         \/ Lock(Period(x)) /\ Cardinality(closed') <= here.locks
         \/ Unlock(Period(x))
    \/ withdrawn = {} /\ \E r \in here.releases : Withdraw(r)

MCNext ==
    \/ scene \in Scenes /\ Moves(SceneOf[scene]) /\ UNCHANGED <<scene, cellVars>>
    \/ scene = "cell" /\ CellNext /\ (InvoiceTracked \/ Cardinality(SitesOfToday') <= 1)
                      /\ UNCHANGED <<scene, vars>>

Symmetry == Permutations({r1, r2}) \cup Permutations({l2, l3})

MCSpec == MCInit /\ [][MCNext]_allVars

-----------------------------------------------------------------------------
(* The action properties of both; the invariants are their modules'.       *)

(* A verdict moves only by a decision: the records a final reports do not  *)
(* change while no period is unlocked, a site opened after the year has    *)
(* ended leaves the year's cell as it was, and nothing that a member does  *)
(* alone turns a cell green.                                               *)
VerdictMovesByDecision ==
    [][/\ scene = "gate" => FinalKept
       /\ scene = "cell" => LaterSitesLeaveCell /\ SubmittingLeavesCell]_allVars
=============================================================================
