------------------------------ MODULE AccountMark ------------------------------
(***************************************************************************)
(* What AuthSyncService promises of one account, without its locks, calls  *)
(* and invitations: a sync's call changes Auth's answer only while the     *)
(* account is marked as not yet brought in line, and the mark goes only    *)
(* when Auth honours no disabled account - unless a call that outlived its *)
(* transaction came last, which may come at any time.                      *)
(***************************************************************************)
VARIABLES
    barred,  \* the database has the account disabled
    open,    \* Auth lets its owner sign in
    marked,  \* auth_sync_pending_since is set
    astray   \* the last call to reach Auth had outlived its transaction

Init ==
    /\ barred = FALSE
    /\ open \in BOOLEAN
    /\ marked = FALSE
    /\ astray = FALSE

Change ==
    /\ barred' = ~barred
    /\ marked' = TRUE
    /\ UNCHANGED <<open, astray>>

Mark ==
    /\ marked' = TRUE
    /\ UNCHANGED <<barred, open, astray>>

Reach ==
    /\ marked
    /\ open' \in BOOLEAN
    /\ astray' = FALSE
    /\ UNCHANGED <<barred, marked>>

Stray ==
    /\ open' \in BOOLEAN
    /\ astray' = TRUE
    /\ UNCHANGED <<barred, marked>>

Settle ==
    /\ barred /\ ~astray => ~open
    /\ marked' = FALSE
    /\ UNCHANGED <<barred, open, astray>>

Next == Change \/ Mark \/ Reach \/ Stray \/ Settle

Spec == Init /\ [][Next]_<<barred, open, marked, astray>>
=============================================================================
