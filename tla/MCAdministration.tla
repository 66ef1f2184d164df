---------------------------- MODULE MCAdministration ----------------------------
(***************************************************************************)
(* An organisation's administration for TLC: who may do what               *)
(* (TenantAccess) and what it consists of (CompanyStructure).              *)
(* The two share no row that the properties relate, so one run checks both *)
(* and the initial state picks a scene:                                    *)
(*   authority  three members; roles and enabled state change, the         *)
(*              operator provisions and offboards;                         *)
(*   grants     two members and two subsidiaries; grants, roles and        *)
(*              invitations change while subsidiaries are deleted;         *)
(*   company    two administrators build up and delete a company with a    *)
(*              site, a setting and a record.                              *)
(***************************************************************************)
EXTENDS TenantAccess, CompanyStructure, Naturals, TLC

VARIABLE scene

sceneVars == <<scene, vars, structureVars>>

Symmetry == Permutations(Members) \cup Permutations(Subsidiaries) \cup Permutations(Workers)

-----------------------------------------------------------------------------
MCInit == scene \in {"authority", "grants", "company"} /\ Init /\ CompanyInit

Concerned == ({m \in Members : Member(m)} \cup {task[w].target : w \in Workers}) \ {None}

AuthorityTasks ==
    \A w \in Workers :
        /\ task[w].op \in {"role", "invite", "disable", "enable", "provision", "offboard", None}
        /\ task[w].subs = {}
GrantTasks ==
    /\ \A w \in Workers : task[w].op \in {"grant", "revoke", "replace", "role", "invite", None}
    /\ Cardinality(Concerned) <= 2

MCNext ==
    \/ scene = "authority" /\ Next /\ AuthorityTasks' /\ living' = living
       /\ UNCHANGED <<scene, structureVars>>
    \/ scene = "grants" /\ Next /\ GrantTasks' /\ UNCHANGED <<scene, structureVars>>
    \/ scene = "company" /\ CompanyNext /\ UNCHANGED <<scene, vars>>

MCSpec == MCInit /\ [][MCNext]_sceneVars
=============================================================================
