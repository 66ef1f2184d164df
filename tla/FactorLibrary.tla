---------------------------- MODULE FactorLibrary ----------------------------
(***************************************************************************)
(* The factor library: releases of emission factors and unit conversions,  *)
(* which the loader's runs load whole, replace by an erratum and withdraw, *)
(* and from which a calculation is priced.  A release file is a constant:  *)
(* its publisher, edition, ordinal, status and rows.  A run reads before   *)
(* its transaction, writes in it and may be cut off anywhere; a lookup     *)
(* reads the library in one snapshot to price and, refused, in another to  *)
(* say why.                                                                *)
(***************************************************************************)
EXTENDS Naturals, Sequences, FiniteSets

CONSTANTS
    Files,      \* the release files there are
    Content,    \* what each holds: publisher, edition, ordinal, status, factors, conversions
    Loaded,     \* the files that may be loaded already
    Loaders,    \* runs of the loader under way at a time
    Clients,    \* calculations under way at a time
    Keys,       \* what a lookup asks for: category, activity type, geography and year
    Unit,       \* of each key, the base unit of the record's family and what it may convert to
    Rule,       \* of each key: "plain", "natural_gas" (the Turkish chain) or "factorless" (Water)
    CandidateCap,   \* FACTOR_CANDIDATE_CAP
    Nil

(* Files are as the import contract leaves them; a row is its identity.    *)
(* An ordinal is one edition's; those loaded at first overlap in nothing.  *)
FactorRows == [key : Keys, unit : STRING, basis : STRING]
ASSUME LibraryAssumption ==
    /\ \A f \in Files :
        /\ Content[f].ordinal \in Nat
        /\ Content[f].status \in {"authoritative", "placeholder", "fixture"}
        /\ Content[f].factors \subseteq FactorRows /\ Content[f].conversions \subseteq FactorRows
    /\ \A f, g \in Files : f # g /\ Content[f].publisher = Content[g].publisher
                           => Content[f].ordinal # Content[g].ordinal \/ Content[f].edition = Content[g].edition
    /\ Nil \notin {"load", "withdraw"} \cup Files \cup [release : Files, unit : STRING, basis : STRING]
    /\ Loaded \subseteq Files
    /\ \A f, g \in Loaded : f # g /\ Content[f].publisher = Content[g].publisher
                            => Content[f].factors \cap Content[g].factors = {}

VARIABLES
    releases,   \* of each file: "absent", "sealed" or "withdrawn", as committed
    run,        \* what each run of the loader is doing
    allow,      \* the process's factor policy: may placeholders price?
    look,       \* what each calculation asked and was answered
    seen        \* history: what each library since it asked would have answered

libraryVars == <<releases, run, allow, look, seen>>

-----------------------------------------------------------------------------
(* Resolution: which factor, and which conversion, prices a key.           *)

Publisher(f) == Content[f].publisher
LiveStatuses == {"authoritative", "placeholder", "fixture"}
Rank(f) == CASE Content[f].status = "authoritative" -> 3
             [] Content[f].status = "placeholder" -> 2
             [] Content[f].status = "fixture" -> 1

(* The rows of a key in the sealed releases of some statuses.              *)
RowsOf(lib, statuses, k, kind) ==
    UNION {{[release |-> f, unit |-> r.unit, basis |-> r.basis] :
                r \in {r \in Content[f][kind] : r.key = k}} :
           f \in {f \in Files : lib[f] = "sealed" /\ Content[f].status \in statuses}}

(* A factor in the record's own unit, or one that a conversion reaches on  *)
(* the factor's own basis; directly is best, then the earlier target, then *)
(* the gross basis a bill is on.                                           *)
Reach(k, x) == {i \in DOMAIN Unit[k].targets : Unit[k].targets[i] = x.unit}
StepsTo(x, C) == {c \in C : c.unit = x.unit}
Preference(k, x) ==
    IF x.unit = Unit[k].base THEN 0
    ELSE 2 * (CHOOSE i \in Reach(k, x) : TRUE)
         + (IF x.unit = "energy" /\ x.basis # "gross" THEN 1 ELSE 0)
Paths(k, F, C) ==
    {[factor |-> x, conversion |-> Nil] :
        x \in {x \in F : x.unit = Unit[k].base /\ x.basis = Unit[k].basis}}
    \cup UNION {{[factor |-> x, conversion |-> c] : c \in {c \in StepsTo(x, C) : c.basis = x.basis}} :
                x \in {x \in F : x.unit # Unit[k].base /\ Reach(k, x) # {}}}

Authoritative(p) ==
    /\ Content[p.factor.release].status = "authoritative"
    /\ p.conversion # Nil => Content[p.conversion.release].status = "authoritative"
Weakest(p) ==
    IF p.conversion # Nil /\ Rank(p.conversion.release) < Rank(p.factor.release)
    THEN Rank(p.conversion.release) ELSE Rank(p.factor.release)
Best(S, Better(_, _)) == {p \in S : \A q \in S : ~Better(q, p)}

(* selectByRelease: the highest rank, of one publisher, its latest.        *)
SelectByRelease(S) ==
    LET top == Best(S, LAMBDA q, p : Rank(q.release) > Rank(p.release))
        latest == Best(top, LAMBDA q, p : Content[q.release].ordinal > Content[p.release].ordinal)
    IN IF Cardinality({Publisher(p.release) : p \in top}) = 1 THEN latest ELSE {}
Selects(S) == Cardinality(SelectByRelease(S)) = 1
Selected(S) == CHOOSE p \in SelectByRelease(S) : TRUE

Refusal(code) == [code |-> code, factor |-> Nil, conversion |-> Nil]

(* Why no path of the factors F and conversions C is permitted.            *)
WhyNone(k, F, C) ==
    LET far == {x \in F : x.unit # Unit[k].base /\ Reach(k, x) # {}}
    IN IF Paths(k, F, C) # {} THEN "placeholder_refused"
       ELSE IF \E x \in far : StepsTo(x, C) = {} THEN "no_conversion"
       ELSE IF far # {} \/ \E x \in F : x.unit = Unit[k].base THEN "calorific_basis_mismatch"
       ELSE "no_factor"

(* Of the permitted paths: the most authoritative, the most direct, and of *)
(* these the one factor, then the one conversion, that the releases single *)
(* out.                                                                    *)
Chosen(k, permitted) ==
    LET top == Best(permitted, LAMBDA q, p : Weakest(q) > Weakest(p))
        chosen == Best(top, LAMBDA q, p : Preference(k, q.factor) < Preference(k, p.factor))
        factors == {p.factor : p \in chosen}
        conversions == {p.conversion : p \in {p \in chosen : p.factor = Selected(factors)}}
    IN IF ~Selects(factors) THEN Refusal("ambiguous_factor")
       ELSE IF conversions = {Nil}
            THEN [code |-> "ok", factor |-> Selected(factors), conversion |-> Nil]
       ELSE IF ~Selects(conversions) THEN Refusal("ambiguous_factor")
       ELSE [code |-> "ok", factor |-> Selected(factors), conversion |-> Selected(conversions)]

Permitted(k, F, C, placeholders) == {p \in Paths(k, F, C) : placeholders \/ Authoritative(p)}
ResolveFactorPath(k, F, C, placeholders) ==
    LET permitted == Permitted(k, F, C, placeholders)
    IN IF permitted = {} THEN Refusal(WhyNone(k, F, C)) ELSE Chosen(k, permitted)

(* One read of the candidates, refused above the cap, and its resolution.  *)
Lookup(lib, statuses, k, placeholders) ==
    LET F == RowsOf(lib, statuses, k, "factors")
        C == RowsOf(lib, statuses, k, "conversions")
    IN IF Cardinality(F) > CandidateCap \/ Cardinality(C) > CandidateCap
       THEN Refusal("over_cap") ELSE ResolveFactorPath(k, F, C, placeholders)

(* What a library answers when it stands still.                            *)
Outcome(lib, k) == Lookup(lib, LiveStatuses, k, allow)

-----------------------------------------------------------------------------
(* The loader.                                                             *)

Idle == [phase |-> "idle", cmd |-> Nil, file |-> Nil, names |-> Nil, other |-> Nil, was |-> Nil]

LibraryInit ==
    /\ \E S \in SUBSET Loaded : releases = [f \in Files |-> IF f \in S THEN "sealed" ELSE "absent"]
    /\ run = [o \in Loaders |-> Idle]
    /\ allow \in BOOLEAN
    /\ look = [c \in Clients |-> [phase |-> "idle", key |-> Nil, first |-> Nil, answer |-> Nil]]
    /\ seen = [c \in Clients |-> {}]

ClientsIdle == UNCHANGED <<releases, allow, look, seen>>
Becomes(o, phase) == run' = [run EXCEPT ![o].phase = phase] /\ ClientsIdle
Ends(o) == run' = [run EXCEPT ![o] = Idle] /\ ClientsIdle

Stored(p, e) ==
    {f \in Files : releases[f] # "absent" /\ Publisher(f) = p /\ Content[f].edition = e}
Latest(f) == \A g \in Files : Publisher(g) = Publisher(f) /\ releases[g] # "absent"
                              => Content[g].ordinal < Content[f].ordinal
(* A live edition of the publisher, other than the one it supersedes,      *)
(* holds a factor that the file brings.                                    *)
Overlaps(f, other) ==
    \E g \in Files : /\ Publisher(g) = Publisher(f) /\ releases[g] = "sealed" /\ g # other
                     /\ Content[g].factors \cap Content[f].factors # {}

InTransaction == {"inserted", "sealed", "withdrawing"}
LockedPublisher(o) ==
    \E q \in Loaders \ {o} : /\ run[q].cmd = "load" /\ run[q].phase \in InTransaction
                             /\ Publisher(run[q].file) = Publisher(run[o].file)
LockedRelease(o, f) == \E q \in Loaders \ {o} : run[q].phase = "withdrawing" /\ run[q].other = f

(* load: a checked file, and the edition it supersedes, if it is an        *)
(* erratum.                                                                *)
AskLoad(o, f, e) ==
    /\ run[o].phase = "idle"
    /\ run' = [run EXCEPT ![o] = [Idle EXCEPT !.phase = "asked", !.cmd = "load", !.file = f, !.names = e]]
    /\ ClientsIdle

FindSuperseded(o) ==
    /\ run[o].phase = "asked" /\ run[o].cmd = "load"
    /\ LET found == Stored(Publisher(run[o].file), run[o].names)
       IN \/ run[o].names = Nil /\ Becomes(o, "superseded")
          \/ run[o].names # Nil /\ found = {} /\ Ends(o)
          \/ \E g \in found : /\ run[o].names # Nil
                              /\ run' = [run EXCEPT ![o].phase = "superseded", ![o].other = g,
                                                    ![o].was = releases[g]]
                              /\ ClientsIdle

(* An edition already there ends the run: withdrawn or with other content  *)
(* it is refused, with the same it is "already_loaded".                    *)
FindStored(o) ==
    /\ run[o].phase = "superseded"
    /\ IF Stored(Publisher(run[o].file), Content[run[o].file].edition) # {} \/ run[o].was = "withdrawn"
       THEN Ends(o) ELSE Becomes(o, "new")

CheckOrdinal(o) ==
    /\ run[o].phase = "new"
    /\ IF Latest(run[o].file) THEN Becomes(o, "latest") ELSE Ends(o)

(* A run without --apply ends here.                                        *)
CheckOverlap(o) ==
    /\ run[o].phase = "latest"
    /\ \/ Ends(o)
       \/ ~Overlaps(run[o].file, run[o].other) /\ Becomes(o, "planned")

(* The transaction: the insert waits for the publisher's lock and refuses  *)
(* an ordinal that another load has passed (TA011) or an edition it has    *)
(* taken (the unique key) ...                                              *)
Insert(o) ==
    /\ run[o].phase = "planned" /\ ~LockedPublisher(o)
    /\ IF Latest(run[o].file) /\ Stored(Publisher(run[o].file), Content[run[o].file].edition) = {}
       THEN Becomes(o, "inserted") ELSE Ends(o)

\* Mutant: the overlap was asked before the transaction, once is enough.
OverlapAskedOnce(o) == run[o].phase = "inserted" /\ Becomes(o, "sealed")

(* ... the overlap is asked again, the rows join and the release is sealed *)
(* ...                                                                     *)
CheckOverlapAgain(o) ==
    /\ run[o].phase = "inserted"
    /\ IF Overlaps(run[o].file, run[o].other) THEN Ends(o) ELSE Becomes(o, "sealed")

(* ... and what it supersedes is withdrawn, or the load refused (TA010)    *)
(* when that happened meanwhile.                                           *)
WithdrawSuperseded(o) ==
    /\ run[o].phase = "sealed" /\ run[o].other # Nil /\ ~LockedRelease(o, run[o].other)
    /\ IF releases[run[o].other] = "withdrawn" THEN Ends(o) ELSE Becomes(o, "withdrawing")

(* withdraw: a release found wrong, with no replacement.                   *)
AskWithdraw(o, f) ==
    /\ run[o].phase = "idle"
    /\ run' = [run EXCEPT ![o] = [Idle EXCEPT !.phase = "asked", !.cmd = "withdraw", !.other = f]]
    /\ ClientsIdle

FindTarget(o) ==
    /\ run[o].phase = "asked" /\ run[o].cmd = "withdraw"
    /\ IF releases[run[o].other] = "sealed" THEN Becomes(o, "found") ELSE Ends(o)

Withdraw(o) ==
    /\ run[o].phase = "found" /\ ~LockedRelease(o, run[o].other)
    /\ IF releases[run[o].other] = "withdrawn" THEN Ends(o) ELSE Becomes(o, "withdrawing")

(* The commit shows everything at once.                                    *)
Commits(o) ==
    \/ run[o].phase = "withdrawing"
    \/ run[o].phase = "sealed" /\ run[o].other = Nil
AfterCommit(o) ==
    [f \in Files |-> IF f = run[o].other THEN "withdrawn"
                     ELSE IF run[o].cmd = "load" /\ f = run[o].file THEN "sealed"
                     ELSE releases[f]]
Commit(o) ==
    /\ Commits(o)
    /\ releases' = AfterCommit(o)
    /\ run' = [run EXCEPT ![o] = Idle]
    /\ seen' = [c \in Clients |->
                  IF look[c].phase \in {"pricing", "explaining"}
                  THEN seen[c] \cup {Outcome(releases', look[c].key)} ELSE seen[c]]
    /\ UNCHANGED <<allow, look>>

(* The run is cut off, or its transaction passes its time limit: nothing   *)
(* of it remains.                                                          *)
CutOff(o) == run[o].phase # "idle" /\ Ends(o)

-----------------------------------------------------------------------------
(* The engine.                                                             *)

LoadersIdle == UNCHANGED <<releases, run, allow>>

Ask(c, k) ==
    /\ look[c].phase \in {"idle", "answered"}
    /\ look' = [look EXCEPT ![c] = [phase |-> "pricing", key |-> k, first |-> Nil, answer |-> Nil]]
    /\ seen' = [seen EXCEPT ![c] = {Outcome(releases, k)}]
    /\ LoadersIdle

(* What compute makes of a resolution: a category that is recorded without *)
(* a factor is stored unpriced where none exists; the Turkish gas chain    *)
(* needs a conversion on the net basis.                                    *)
Computed(k, r) ==
    IF r.code = "over_cap" THEN Refusal("ambiguous_factor")
    ELSE IF r.code = "no_factor" /\ Rule[k] = "factorless" THEN Refusal("unpriced")
    ELSE IF r.code # "ok" \/ Rule[k] # "natural_gas" THEN r
    ELSE IF r.conversion = Nil THEN Refusal("no_conversion")
    ELSE IF r.conversion.basis # "net" THEN Refusal("calorific_basis_mismatch")
    ELSE r
Answers(c, r) ==
    look' = [look EXCEPT ![c] = [phase |-> "answered", key |-> look[c].key, first |-> Nil,
                                 answer |-> Computed(look[c].key, r)]]

\* Mutant: the factors and the conversions are read apart.
PriceInTwoReads(c) ==
    /\ look[c].phase = "pricing"
    /\ LET statuses == IF allow THEN LiveStatuses ELSE {"authoritative"}
       IN IF look[c].first = Nil
          THEN look' = [look EXCEPT ![c].first = RowsOf(releases, statuses, look[c].key, "factors")]
          ELSE Answers(c, ResolveFactorPath(look[c].key, look[c].first,
                                            RowsOf(releases, statuses, look[c].key, "conversions"), allow))
    /\ UNCHANGED seen /\ LoadersIdle

(* The first read prices, from authoritative releases alone where          *)
(* placeholders are refused; a refusal is then looked into.                *)
Price(c) ==
    /\ look[c].phase = "pricing"
    /\ LET r == Lookup(releases, IF allow THEN LiveStatuses ELSE {"authoritative"}, look[c].key, allow)
       IN IF r.code \in {"ok", "over_cap"} \/ allow THEN Answers(c, r)
          ELSE look' = [look EXCEPT ![c] = [phase |-> "explaining", key |-> look[c].key, first |-> r,
                                            answer |-> Nil]]
    /\ UNCHANGED seen /\ LoadersIdle

(* The second reads every live release, only for the refusal's name.       *)
Explain(c) ==
    /\ look[c].phase = "explaining"
    /\ LET why == Lookup(releases, LiveStatuses, look[c].key, FALSE)
       IN Answers(c, IF why.code \in {"ok", "over_cap"} THEN look[c].first ELSE why)
    /\ UNCHANGED seen /\ LoadersIdle

Load(o) ==
    \/ \E f \in Files, e \in {Content[g].edition : g \in Files} \cup {Nil} : AskLoad(o, f, e)
    \/ FindSuperseded(o) \/ FindStored(o) \/ CheckOrdinal(o) \/ CheckOverlap(o)
    \/ Insert(o) \/ CheckOverlapAgain(o) \/ WithdrawSuperseded(o)
Calculate(c) == (\E k \in Keys : Ask(c, k)) \/ Price(c) \/ Explain(c)
LibraryNext ==
    \/ \E o \in Loaders : \/ Load(o) \/ Commit(o) \/ CutOff(o)
                          \/ (\E f \in Files : AskWithdraw(o, f)) \/ FindTarget(o) \/ Withdraw(o)
    \/ \E c \in Clients : Calculate(c)
LibrarySpec == LibraryInit /\ [][LibraryNext]_libraryVars

-----------------------------------------------------------------------------
(* Properties.                                                             *)

LibraryTypeOK ==
    /\ releases \in [Files -> {"absent", "sealed", "withdrawn"}]
    /\ run \in [Loaders -> [phase : {"idle", "asked", "superseded", "new", "latest", "planned", "found"}
                                    \cup InTransaction,
                            cmd : {"load", "withdraw", Nil}, file : Files \cup {Nil},
                            names : {Content[g].edition : g \in Files} \cup {Nil},
                            other : Files \cup {Nil}, was : {"sealed", "withdrawn", Nil}]]

(* A publisher's live releases never hold one factor twice, whichever runs *)
(* of the loader overlap: an erratum leaves neither two live editions of a *)
(* slot nor a later one outranked by a correction of an earlier one.       *)
OneEditionPerSlot ==
    \A f, g \in Files :
        releases[f] = "sealed" /\ releases[g] = "sealed" /\ f # g /\ Publisher(f) = Publisher(g)
        => Content[f].factors \cap Content[g].factors = {}

(* A figure is what one library gave, factor and conversion together, at a *)
(* moment of the calculation: never the factor of a withdrawn release with *)
(* the conversion of its erratum, nor, where placeholders are refused, a   *)
(* path that reading every live release would not have chosen.             *)
PricedFromOneLibrary ==
    \A c \in Clients :
        look[c].phase = "answered" /\ look[c].answer.code = "ok" => look[c].answer \in seen[c]

(* A record is stored without a figure only when no factor exists, as the  *)
(* comment above that branch says: a placeholder that is refused is a gap  *)
(* to fix.  (Violated: the two reads of a refusal are two snapshots.)      *)
UnpricedMeansNoFactor ==
    \A c \in Clients :
        look[c].phase = "answered" /\ look[c].answer.code = "unpriced"
        => \E r \in seen[c] : r.code = "no_factor"
=============================================================================
