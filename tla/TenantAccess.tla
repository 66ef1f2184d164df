------------------------------ MODULE TenantAccess ------------------------------
(***************************************************************************)
(* The roles, grants and enabled state of one organisation's members:      *)
(* AccessAdminService, and the operator's provision and offboard, which    *)
(* share its per-organisation advisory lock.  A request is admitted by the *)
(* guard with the role it reads then, waits for the lock, re-reads its     *)
(* actor under it, and carries out its effect in the same transaction.     *)
(* Deleting a subsidiary takes no part in the lock: its foreign keys take  *)
(* the grants along whenever it commits.                                   *)
(*                                                                         *)
(* Organisations share no row and no lock, so one is modelled; a member is *)
(* somebody with, or without yet, a profile in it.                         *)
(***************************************************************************)
EXTENDS FiniteSets

CONSTANTS
    Members,
    Subsidiaries,
    Roles,     \* the four roles of the schema, or a subset with the two named below
    Workers,   \* requests served at one time, over all replicas
    Ops,       \* the operations an instance asks for
    None

AdminOps == {"grant", "revoke", "role", "replace", "invite", "disable", "enable"}
OperatorOps == {"provision", "offboard"}

ASSUME AccessAssumption ==
    /\ {"super_admin", "data_entry"} \subseteq Roles
    /\ Ops \subseteq AdminOps \cup OperatorOps
    /\ None \notin Members \cup Workers \cup Roles \cup {"create"}

VARIABLES
    role,        \* role[m]: profiles.role, None while m has no profile
    disabled,    \* the members whose disabled_at is set
    grants,      \* grants[m]: the subsidiaries user_subsidiary_access gives m
    living,      \* the subsidiaries that exist
    offboarded,  \* organisations.offboarded_at is set
    lock,        \* the worker whose transaction holds the tenant lock
    task,        \* task[w]: the request w serves
    trail        \* trail[m][s]: the newest audited event of the grant of s to m

data == <<role, disabled, grants, offboarded, trail>>
vars == <<role, disabled, grants, living, offboarded, lock, task, trail>>

NoTask == [op |-> None, actor |-> None, target |-> None, role |-> None,
           subs |-> {}, held |-> {}, phase |-> "idle"]

Member(m) == role[m] # None
StillAdmin(a) == role[a] = "super_admin" /\ a \notin disabled /\ ~offboarded

Init ==
    /\ \E first \in Members :
         role = [m \in Members |-> IF m = first THEN "super_admin" ELSE None]
    /\ disabled = {}
    /\ grants = [m \in Members |-> {}]
    /\ living = Subsidiaries
    /\ offboarded = FALSE
    /\ lock = None
    /\ task = [w \in Workers |-> NoTask]
    /\ trail = [m \in Members |-> [s \in Subsidiaries |-> None]]

-----------------------------------------------------------------------------
(* Requests.                                                               *)

(* The same request, further on.                                           *)
At(q, phase, held) == [op |-> q.op, actor |-> q.actor, target |-> q.target, role |-> q.role,
                       subs |-> q.subs, held |-> held, phase |-> phase]

Ask(op, a, t, r, S) == [op |-> op, actor |-> a, target |-> t, role |-> r,
                        subs |-> S, held |-> {}, phase |-> "admitted"]

(* Mutant: administrators may change their own role or enabled state.      *)
OwnAccountToo(op, a, t) == TRUE
NotOwnAccount(op, a, t) == op \in {"role", "disable"} => t # a

(* What the routes can be asked: the arguments an operation has no use for *)
(* are None and {}.                                                        *)
Asked(a) ==
         {Ask(op, a, t, None, {s}) : op \in {"grant", "revoke"}, t \in Members, s \in Subsidiaries}
    \cup {Ask("role", a, t, r, {}) : t \in Members, r \in Roles}
    \cup {Ask("replace", a, t, None, S) : t \in Members, S \in SUBSET Subsidiaries}
    \cup {Ask("invite", a, t, "data_entry", S) : t \in Members, S \in SUBSET Subsidiaries}
    \cup {Ask("invite", a, t, r, {}) : t \in Members, r \in Roles}
    \cup {Ask(op, a, t, None, {}) : op \in {"disable", "enable"}, t \in Members}

(* The guard, then assertTenantAdmin, with the role the guard read.        *)
Admit(w) ==
    /\ task[w].phase = "idle"
    /\ \E a \in Members :
         /\ StillAdmin(a)
         /\ \E q \in Asked(a) :
              /\ q.op \in Ops
              /\ NotOwnAccount(q.op, a, q.target)
              /\ task' = [task EXCEPT ![w] = q]
    /\ UNCHANGED <<data, living, lock>>

(* The operator's commands; provision checks the organisation here, too.   *)
Command(w) ==
    /\ task[w].phase = "idle"
    /\ \/ /\ "provision" \in Ops
          /\ ~offboarded
          /\ \E t \in Members : task' = [task EXCEPT ![w] = Ask("provision", None, t, None, {})]
       \/ /\ "offboard" \in Ops
          /\ task' = [task EXCEPT ![w] = Ask("offboard", None, None, None, {})]
    /\ UNCHANGED <<data, living, lock>>

Entitled(q) ==
    /\ q.op \in AdminOps => StillAdmin(q.actor)
    /\ q.op = "provision" => ~offboarded

(* lockAndReadActor; provision's read of the organisation under the lock.  *)
Enter(w) ==
    /\ task[w].phase = "admitted"
    /\ lock = None
    /\ Entitled(task[w])
    /\ lock' = w
    /\ task' = [task EXCEPT ![w] = At(@, "locked", {})]
    /\ UNCHANGED <<data, living>>

Refused(w) ==
    /\ task[w].phase = "admitted"
    /\ lock = None
    /\ ~Entitled(task[w])
    /\ task' = [task EXCEPT ![w] = NoTask]
    /\ UNCHANGED <<data, living, lock>>

Serves(w, op) == task[w].phase = "locked" /\ task[w].op = op

(* Commit or rollback: either way the transaction's lock is gone.          *)
End(w) ==
    /\ lock' = None
    /\ task' = [task EXCEPT ![w] = NoTask]
    /\ UNCHANGED living

Rollback(w) == End(w) /\ UNCHANGED data

-----------------------------------------------------------------------------
(* Grants.                                                                 *)

(* The audit rows of one transaction about the grants of m.                *)
Audited(m, removed, added) ==
    trail' = [trail EXCEPT ![m] = [s \in Subsidiaries |->
                IF s \in added THEN "create" ELSE IF s \in removed THEN "delete" ELSE @[s]]]

(* Mutant: a withdrawal is not audited.                                    *)
GrantsAudited(m, removed, added) ==
    /\ grants' = [grants EXCEPT ![m] = (@ \ removed) \cup added]
    /\ Audited(m, {}, added)

Regrant(m, removed, added) ==
    /\ grants' = [grants EXCEPT ![m] = (@ \ removed) \cup added]
    /\ Audited(m, removed, added)

Grantable(m) == role[m] = "data_entry"

Grant(w) ==
    LET m == task[w].target
        S == task[w].subs
    IN  /\ Serves(w, "grant")
        /\ \/ /\ Grantable(m)
              /\ S \subseteq living \ grants[m]
              /\ Regrant(m, {}, S)
              /\ UNCHANGED <<role, disabled, offboarded>>
              /\ End(w)
           \/ /\ ~Grantable(m) \/ ~(S \subseteq living \ grants[m])
              /\ Rollback(w)

Revoke(w) ==
    LET m == task[w].target
        S == task[w].subs
    IN  /\ Serves(w, "revoke")
        /\ \/ /\ S \subseteq grants[m]
              /\ Regrant(m, S, {})
              /\ UNCHANGED <<role, disabled, offboarded>>
              /\ End(w)
           \/ /\ ~(S \subseteq grants[m])
              /\ Rollback(w)

(* replaceSubsidiaryAccess reads the whole set it is about to change ...   *)
ReadHeld(w) ==
    LET m == task[w].target
    IN  /\ Serves(w, "replace")
        /\ \/ /\ Grantable(m)
              /\ task[w].subs \subseteq living
              /\ task' = [task EXCEPT ![w] = At(@, "read", grants[m])]
              /\ UNCHANGED <<data, living, lock>>
           \/ /\ ~Grantable(m) \/ ~(task[w].subs \subseteq living)
              /\ Rollback(w)

(* ... and audits the difference to what it read.  A subsidiary to be      *)
(* added that has gone meanwhile refuses the insert, and all of it.        *)
Replace(w) ==
    LET m == task[w].target
        removed == task[w].held \ task[w].subs
        added == task[w].subs \ task[w].held
    IN  /\ task[w].phase = "read"
        /\ \/ /\ added \subseteq living
              /\ Regrant(m, removed, added)
              /\ UNCHANGED <<role, disabled, offboarded>>
              /\ End(w)
           \/ /\ ~(added \subseteq living)
              /\ Rollback(w)

(* subsidiaries.service remove: the grants cascade, without an audit row.  *)
DeleteSubsidiary(s) ==
    /\ s \in living
    /\ living' = living \ {s}
    /\ grants' = [m \in Members |-> grants[m] \ {s}]
    /\ UNCHANGED <<role, disabled, offboarded, lock, task, trail>>

-----------------------------------------------------------------------------
(* Roles and accounts.                                                     *)

LosesGrants(m, r) ==
    IF role[m] = "data_entry" THEN Regrant(m, grants[m], {}) ELSE UNCHANGED <<grants, trail>>

SetRole(w) ==
    LET m == task[w].target
        r == task[w].role
    IN  /\ Serves(w, "role")
        /\ \/ /\ Member(m) /\ role[m] # r
              /\ role' = [role EXCEPT ![m] = r]
              /\ LosesGrants(m, r)
              /\ UNCHANGED <<disabled, offboarded>>
              /\ End(w)
           \/ /\ ~Member(m) \/ role[m] = r
              /\ Rollback(w)

Invite(w) ==
    LET m == task[w].target
    IN  /\ Serves(w, "invite")
        /\ \/ /\ ~Member(m)
              /\ task[w].subs \subseteq living
              /\ role' = [role EXCEPT ![m] = task[w].role]
              /\ Regrant(m, {}, task[w].subs)
              /\ UNCHANGED <<disabled, offboarded>>
              /\ End(w)
           \/ /\ Member(m) \/ ~(task[w].subs \subseteq living)
              /\ Rollback(w)

Disable(w) ==
    LET m == task[w].target
    IN  /\ Serves(w, "disable")
        /\ \/ /\ Member(m) /\ m \notin disabled
              /\ disabled' = disabled \cup {m}
              /\ UNCHANGED <<role, grants, offboarded, trail>>
              /\ End(w)
           \/ /\ ~Member(m) \/ m \in disabled
              /\ Rollback(w)

Enable(w) ==
    LET m == task[w].target
    IN  /\ Serves(w, "enable")
        /\ \/ /\ m \in disabled
              /\ disabled' = disabled \ {m}
              /\ UNCHANGED <<role, grants, offboarded, trail>>
              /\ End(w)
           \/ /\ m \notin disabled
              /\ Rollback(w)

(* provision, of an existing organisation; an address already in use is    *)
(* another command (a re-send, or a refusal).                              *)
Provision(w) ==
    LET m == task[w].target
    IN  /\ Serves(w, "provision")
        /\ \/ /\ ~Member(m)
              /\ role' = [role EXCEPT ![m] = "super_admin"]
              /\ UNCHANGED <<disabled, grants, offboarded, trail>>
              /\ End(w)
           \/ Member(m) /\ Rollback(w)

EnabledMembers == {m \in Members : Member(m)}

Offboard(w) ==
    /\ Serves(w, "offboard")
    /\ offboarded' = TRUE
    /\ disabled' = disabled \cup EnabledMembers
    /\ UNCHANGED <<role, grants, trail>>
    /\ End(w)

-----------------------------------------------------------------------------
Serve(w) ==
    \/ Grant(w) \/ Revoke(w) \/ ReadHeld(w) \/ Replace(w)
    \/ SetRole(w) \/ Invite(w) \/ Disable(w) \/ Enable(w)
    \/ Provision(w) \/ Offboard(w)

Next ==
    \/ \E w \in Workers : Admit(w) \/ Command(w) \/ Enter(w) \/ Refused(w) \/ Serve(w)
    \/ \E s \in Subsidiaries : DeleteSubsidiary(s)

Spec == Init /\ [][Next]_vars

(* A transaction that holds the lock goes on, and PostgreSQL grants an     *)
(* advisory lock in the order it was asked for.                            *)
Fairness ==
    \A w \in Workers : WF_vars(Serve(w)) /\ SF_vars(Enter(w) \/ Refused(w))

FairSpec == Spec /\ Fairness

-----------------------------------------------------------------------------
(* Properties.                                                             *)

Tasks == {NoTask} \cup
    [op: AdminOps \cup OperatorOps, actor: Members \cup {None}, target: Members \cup {None},
     role: Roles \cup {None}, subs: SUBSET Subsidiaries, held: SUBSET Subsidiaries,
     phase: {"admitted", "locked", "read"}]

TypeOK ==
    /\ role \in [Members -> Roles \cup {None}]
    /\ disabled \subseteq {m \in Members : Member(m)}
    /\ grants \in [Members -> SUBSET living]
    /\ living \subseteq Subsidiaries
    /\ offboarded \in BOOLEAN
    /\ lock \in Workers \cup {None}
    /\ task \in [Workers -> Tasks]
    /\ trail \in [Members -> [Subsidiaries -> {"create", "delete", None}]]

Admins == {m \in Members : role[m] = "super_admin" /\ m \notin disabled}

(* "An organisation always keeps an active super_admin", until it is       *)
(* offboarded (AccessAdminService, which lets nobody change themselves).   *)
AlwaysGoverned == offboarded \/ Admins # {}

(* Whoever's transaction holds the lock is a super_admin, enabled, of an   *)
(* open organisation, until it ends (lockAndReadActor): nobody demoted,    *)
(* disabled or offboarded while waiting acts once more.                    *)
HolderEntitled ==
    \A w \in Workers : task[w].phase \in {"locked", "read"} =>
        /\ lock = w
        /\ task[w].op \in AdminOps => StillAdmin(task[w].actor)
        /\ task[w].op = "provision" => ~offboarded

(* Only data_entry members hold grants, so a role change back to           *)
(* data_entry starts with none (setRole, grantSubsidiaryAccess).           *)
OnlyDataEntryHoldsGrants == \A m \in Members : grants[m] # {} => role[m] = "data_entry"

(* An offboarded organisation has no enabled member, and gets none from a  *)
(* request or a provisioning that was on its way (lockTenantAdmin).        *)
OffboardedIsEmpty == offboarded => \A m \in Members : Member(m) => m \in disabled

(* For a subsidiary that exists, the newest audit row says whether the     *)
(* member holds its grant: none is added or withdrawn without its row.     *)
TrailMatchesGrants ==
    \A m \in Members, s \in living : s \in grants[m] <=> trail[m][s] = "create"

(* The administrators change as TenantDirectory says: at one instant, by   *)
(* somebody entitled at that instant, whatever the interleaving.           *)
Directory == INSTANCE TenantDirectory WITH admins <- Admins, closed <- offboarded
ImplementsDirectory == Directory!Spec

(* A request admitted is answered: nobody waits for the lock for ever.     *)
EveryRequestEnds == \A w \in Workers : task[w].phase # "idle" ~> task[w].phase = "idle"

(* An audited withdrawal is one that removed a grant: "the audit names     *)
(* exactly the grants it removed" (setRole's comment on reading and then   *)
(* deleting).                                                              *)
AuditNamesWhatItRemoved ==
    [][\A m \in Members, s \in Subsidiaries :
         trail'[m][s] = "delete" /\ trail[m][s] # "delete" => s \in grants[m]]_vars
=============================================================================
