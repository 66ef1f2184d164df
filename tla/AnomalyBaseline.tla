---------------------------- MODULE AnomalyBaseline ----------------------------
(***************************************************************************)
(* The anomaly rule: a figure against the average of the previous          *)
(* ANOMALY_BASELINE_PERIODS committed periods of its own series.  A prior  *)
(* without a figure takes its place in the window and adds nothing; a      *)
(* window that is not full, or averages zero, decides nothing.             *)
(***************************************************************************)
EXTENDS NoValue, Integers, FiniteSets, FiniteSetsExt

CONSTANTS
    Records,
    Series,     \* reporting entity, category, activity type and granularity
    Place,      \* a record's year and period, in calendar order
    Window      \* ANOMALY_BASELINE_PERIODS

(* What the constants are.                                                 *)
BaselineAssumption ==
    /\ IsFiniteSet(Records) /\ None \notin Nat
    /\ Place \in [Records -> Nat]
    /\ Window \in Nat \ {0}
    /\ \A q, r \in Records : Series[q] = Series[r] /\ Place[q] = Place[r] => q = r

Counted == {"submitted", "under_review", "approved", "locked"}

Priors(r, status) ==
    {q \in Records \ {r} :
        Series[q] = Series[r] /\ Place[q] < Place[r] /\ status[q] \in Counted}

InWindow(r, status) ==
    {q \in Priors(r, status) :
        Cardinality({p \in Priors(r, status) : Place[p] > Place[q]}) < Window}

(* More than half off the average total / Window.                          *)
Deviates(figure, total) ==
    LET gap == Window * figure - total IN total # 0 /\ 2 * (IF gap < 0 THEN -gap ELSE gap) > total

NotEvaluated(n) == [anomalous |-> FALSE, priors |-> n, total |-> None]

Total(figure, used) == MapThenSumSet(LAMBDA q : figure[q], used)

VerdictOf(r, status, figure) ==
    LET used == {q \in InWindow(r, status) : figure[q] # None}
        total == Total(figure, used)
    IN  IF figure[r] = None THEN NotEvaluated(None)
        ELSE IF Cardinality(used) < Window THEN NotEvaluated(Cardinality(used))
        ELSE [anomalous |-> Deviates(figure[r], total), priors |-> Window, total |-> total]
=============================================================================
