---------------------------- MODULE TenantDirectory ----------------------------
(***************************************************************************)
(* What AccessAdminService promises of an organisation's administrators,   *)
(* without its locks, transactions and roles: every change to who          *)
(* administers the organisation is made at one instant, by somebody who    *)
(* administers it at that instant and does not change their own place, or  *)
(* by the operator.  Offboarding is final.                                 *)
(***************************************************************************)
CONSTANT Members

VARIABLES
    admins,  \* the enabled super_admins
    closed   \* the organisation is offboarded

Init ==
    /\ admins \in (SUBSET Members) \ {{}}
    /\ closed = FALSE

Administer(a) ==
    /\ a \in admins
    /\ \E m \in Members \ {a} : admins' \in {admins \cup {m}, admins \ {m}}
    /\ ~closed
    /\ UNCHANGED closed

Provision ==
    /\ ~closed
    /\ \E m \in Members : admins' = admins \cup {m}
    /\ UNCHANGED closed

Close ==
    /\ ~closed
    /\ closed' = TRUE
    /\ admins' = {}

Next == (\E a \in Members : Administer(a)) \/ Provision \/ Close

Spec == Init /\ [][Next]_<<admins, closed>>

=============================================================================
