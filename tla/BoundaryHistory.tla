---------------------------- MODULE BoundaryHistory ----------------------------
(***************************************************************************)
(* What the inventory boundary of one reporting year promises, without its *)
(* transactions and locks: a numbered history of frozen versions that only *)
(* grows, at most one draft, numbered next in it, and reports that each    *)
(* hold one frozen version exactly as it stands in the history.            *)
(***************************************************************************)
EXTENDS Integers

CONSTANT Contents  \* what a frozen version holds: declarations, names, decision

VARIABLES
    frozen,   \* the frozen versions, [num, content]
    draft,    \* the number of the open version, 0 without one
    reports   \* the versions that datasets were retained of

Init == frozen = {} /\ draft = 0 /\ reports = {}

Draft ==
    /\ draft = 0
    /\ draft' \in Nat \ {0}
    /\ {f.num : f \in frozen} = 1..(draft' - 1)
    /\ UNCHANGED <<frozen, reports>>

Discard ==
    /\ draft # 0
    /\ draft' = 0
    /\ UNCHANGED <<frozen, reports>>

Freeze ==
    /\ draft # 0
    /\ draft' = 0
    /\ \E c \in Contents : frozen' = frozen \cup {[num |-> draft, content |-> c]}
    /\ UNCHANGED reports

Report ==
    /\ UNCHANGED <<frozen, draft>>
    /\ \E f \in frozen : reports' = reports \cup {f}

Next == Draft \/ Discard \/ Freeze \/ Report

Spec == Init /\ [][Next]_<<frozen, draft, reports>>
=============================================================================
