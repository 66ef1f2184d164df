------------------------------- MODULE MCProcess -------------------------------
(***************************************************************************)
(* The work of the API process for TLC, and the sync of an account with    *)
(* the external auth service, which no part of it waits for.  The initial  *)
(* state picks what is at work: the requests, the resets, one request      *)
(* beside one reset, or the account.  Budgets are tight enough for         *)
(* requests of two callers to meet every one, the queue is shorter than    *)
(* the requests for it, and a sync or a delivery of the account is crossed *)
(* by another of either or by a change of it.                              *)
(***************************************************************************)
EXTENDS ApiProcess, AccountSync, TLC

CONSTANTS r1, r2, r3, a, b, x, w1, w2

VARIABLE scene

allVars == <<scene, vars, processVars>>

TightLimits ==
    [n \in Names |-> IF n \in {"http", "mutations", "ip"} THEN 2 ELSE 1]

Symmetry ==
    Permutations({r1, r2, r3}) \cup Permutations({w1, w2}) \cup Permutations({a, b})

MCInit ==
    /\ scene \in {"requests", "resets", "beside", "account"}
    /\ Init /\ (scene # "account" => auth = "active")
    /\ ProcessInit
    /\ scene \in {"resets", "account"} =>
         \A r \in Requests : caller[r] = a /\ kind[r] = "write"
    /\ scene = "beside" => \A r \in Requests : kind[r] = "import"

\* One request and one reset: the others never come.
Beside ==
    /\ Cardinality({r \in Requests : phase'[r] # "new"}) <= 1
    /\ requests' <= 1
    /\ cooldowns' = 0

MCNext ==
    \/ scene = "account" /\ Next /\ UNCHANGED <<scene, processVars>>
    \/ /\ \/ scene \in {"requests", "beside"} /\ (\E r \in Requests : Serves(r))
          \/ scene \in {"resets", "beside"} /\ Resets
          \/ scene # "account" /\ (Stops \/ Settles \/ GivesUp \/ Waits)
       /\ scene = "beside" => Beside
       /\ UNCHANGED <<scene, vars>>

MCSpec == MCInit /\ [][MCNext]_allVars
=============================================================================
