------------------------------ MODULE MCReporting ------------------------------
(***************************************************************************)
(* What a report rests on, and how it is issued, for TLC.                  *)
(* InventoryBoundary: three versions that are about one of the             *)
(* subsidiaries, or two about both while none is renamed.  FactorLibrary:  *)
(* one publisher's three editions of a factor, the newest also of Water's, *)
(* which a placeholder covers; two runs of its loader, or one beside a     *)
(* calculation.  StorageIntents: any uploads with two tidying workers.     *)
(* ReportIssuance: two requests that issue editions of two datasets,       *)
(* beside one worker.  The initial state picks.                            *)
(***************************************************************************)
EXTENDS InventoryBoundary, FactorLibrary, ReportIssuance, TLC

CONSTANTS d1, p1
VARIABLES scene

boundaryVars == <<vars, libraryVars>>
MCVars == <<scene, boundaryVars, allVars>>

(* The loaders and the storage workers bear the workers' names: only one    *)
(* component moves, so one permutation serves them all.                    *)
Symmetry == Permutations(Workers) \cup Permutations(Subs)

-----------------------------------------------------------------------------
(* The release files: gas, quoted per kWh net and reached from Sm3, and    *)
(* water, quoted per m3.                                                   *)
GasRow == [key |-> "gas", unit |-> "energy", basis |-> "net"]
GrossRow == [key |-> "gas", unit |-> "energy", basis |-> "gross"]
WaterRow == [key |-> "water", unit |-> "m3", basis |-> "none"]
File(p, n, s, F, C) ==
    [publisher |-> p, edition |-> n, ordinal |-> n, status |-> s, factors |-> F, conversions |-> C]
ContentHere ==
    [f \in {"first", "second", "third", "sample"} |->
        CASE f = "first" -> File("agency", 1, "authoritative", {GasRow}, {GasRow})
          [] f = "second" -> File("agency", 2, "authoritative", {GasRow, GrossRow}, {GasRow})
          [] f = "third" -> File("agency", 3, "authoritative", {GasRow, WaterRow}, {GasRow})
          [] f = "sample" -> File("prototype", 1, "placeholder", {WaterRow, GrossRow}, {GrossRow})]
UnitHere ==
    [k \in {"gas", "water"} |->
        IF k = "gas" THEN [base |-> "sm3", basis |-> "none", targets |-> <<"energy">>]
        ELSE [base |-> "m3", basis |-> "none", targets |-> <<"energy", "sm3">>]]
RuleHere == [k \in {"gas", "water"} |-> IF k = "gas" THEN "natural_gas" ELSE "factorless"]

(* An operator names as superseded an edition before the one of the file.  *)
Corrects(o) ==
    run[o].cmd = "load" /\ run[o].names # Nil => run[o].names < Content[run[o].file].ordinal
AllCorrect == \A o \in Loaders : Corrects(o)
Concurrent ==
    /\ \A c \in Clients : look[c].phase = "idle"
    /\ \A o \in Loaders : "sample" \notin {run[o].file, run[o].other}
BesidePrices ==
    /\ \A o \in Loaders : run[o].file # "first"
    /\ Cardinality({o \in Loaders : run[o].phase # "idle"}) <= 1

-----------------------------------------------------------------------------

Concerned ==
    {s \in Subs : s \notin subs \cap sites \/ name[s] > 0
                  \/ (\E i \in Ids : ver[i].rows[s] # None) \/ (\E w \in Workers : job[w].s = s)}
CreatesUnderWay == {w \in Workers : job[w].op = "create"}

VerdictHere == [d \in Datasets |-> IF d = d1 THEN "final" ELSE "partial"]
OneReplica == [r \in Objects |-> p1]

(* Objects of their own that no request issues.                            *)
NoRequests ==
    /\ asked = [r \in Objects |-> [dataset |-> r, edition |-> None]]
    /\ phase = [r \in Objects |-> "none"] /\ stored = [r \in Objects |-> "pdf"]
    /\ printer = [p \in Printers |-> None] /\ audit = {}
OneTidier == Cardinality({w \in Tidiers : claim[w] # NoClaim}) <= 1

-----------------------------------------------------------------------------

MCInit ==
    /\ scene \in {"versions", "declared", "loads", "prices", "storage", "issuance"}
    /\ Init /\ LibraryInit
    /\ scene \notin {"loads", "prices"} => ~allow /\ releases["first"] = "absent"
    /\ scene # "prices" => ~allow /\ releases["sample"] = "absent"
    /\ \/ scene = "storage" /\ StorageInit /\ NoRequests
       \/ scene # "storage" /\ IssueInit
MCNext ==
    \/ scene = "versions" /\ Next /\ (Cardinality(Concerned) <= 1)'
       /\ UNCHANGED <<scene, libraryVars, allVars>>
    \/ scene = "declared" /\ Next /\ (Cardinality(Unused) > Cardinality(CreatesUnderWay))'
       /\ UNCHANGED <<scene, name, libraryVars, allVars>>
    \/ scene = "loads" /\ LibraryNext /\ (AllCorrect /\ Concurrent)'
       /\ UNCHANGED <<scene, vars, allVars>>
    \/ scene = "prices" /\ LibraryNext /\ (AllCorrect /\ BesidePrices)'
       /\ UNCHANGED <<scene, vars, allVars>>
    \/ scene = "storage" /\ StorageNext /\ UNCHANGED <<scene, boundaryVars, issueVars>>
    \/ scene = "issuance" /\ IssueNext /\ OneTidier' /\ UNCHANGED <<scene, boundaryVars>>
MCSpec == MCInit /\ [][MCNext]_MCVars

(* The library alone, for what its own comments say of it.                 *)
GapInit == MCInit /\ scene \in {"loads", "prices"}
GapSpec == GapInit /\ [][MCNext]_MCVars
=============================================================================
