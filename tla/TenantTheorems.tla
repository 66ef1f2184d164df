---------------------------- MODULE TenantTheorems ----------------------------
(***************************************************************************)
(* Proofs about TenantAccess, for any number of members, subsidiaries,     *)
(* roles and requests.  Access is the inductive invariant: what a request  *)
(* asks for stays what the route admitted, the holder of the lock stays    *)
(* entitled because every change to its entitlement takes the lock, and    *)
(* so an administrator is left after each change: the one who made it.     *)
(***************************************************************************)
EXTENDS TenantAccess, CompanyStructure, TLAPS

(* What a request carries was checked before it waited for the lock.       *)
WellAsked(q) ==
    q.phase # "idle" =>
        /\ q.op \in AdminOps => q.actor \in Members
        /\ q.op \in AdminOps \cup {"provision"} => q.target \in Members
        /\ q.op \in {"role", "disable"} => q.target # q.actor
        /\ q.op \in {"role", "invite"} => q.role \in Roles
        /\ q.op = "invite" /\ q.subs # {} => q.role = "data_entry"
        /\ q.phase = "read" => q.op = "replace"

Asking == \A w \in Workers : WellAsked(task[w])

(* The lock is held by exactly the worker that is inside.                  *)
LockHeld == lock # None => task[lock].phase \in {"locked", "read"}

(* The grants read are those held, but for subsidiaries gone since.        *)
HeldIsCurrent ==
    \A w \in Workers : task[w].phase = "read" =>
        /\ role[task[w].target] = "data_entry"
        /\ task[w].held \cap living = grants[task[w].target]

Access ==
    /\ TypeOK
    /\ Asking
    /\ LockHeld
    /\ HolderEntitled
    /\ HeldIsCurrent
    /\ OnlyDataEntryHoldsGrants
    /\ TrailMatchesGrants
    /\ OffboardedIsEmpty
    /\ AlwaysGoverned

-----------------------------------------------------------------------------
(* How a request moves.                                                    *)

(* What the routes can be asked is well formed.                            *)
LEMMA AskedIsWell ==
    ASSUME AccessAssumption, NEW a \in Members, NEW q \in Asked(a), NotOwnAccount(q.op, a, q.target)
    PROVE  q \in Tasks /\ WellAsked(q) /\ q.actor = a /\ q.op \in AdminOps /\ q.phase = "admitted"
<1>1. \/ q \in {Ask(op, a, t, None, {s}) : op \in {"grant", "revoke"}, t \in Members, s \in Subsidiaries}
      \/ q \in {Ask("role", a, t, r, {}) : t \in Members, r \in Roles}
      \/ q \in {Ask("replace", a, t, None, S) : t \in Members, S \in SUBSET Subsidiaries}
      \/ q \in {Ask("invite", a, t, "data_entry", S) : t \in Members, S \in SUBSET Subsidiaries}
      \/ q \in {Ask("invite", a, t, r, {}) : t \in Members, r \in Roles}
      \/ q \in {Ask(op, a, t, None, {}) : op \in {"disable", "enable"}, t \in Members}
  BY SMTT(60) DEF Asked, Ask
<1>2. CASE q \in {Ask(op, a, t, None, {s}) : op \in {"grant", "revoke"}, t \in Members, s \in Subsidiaries}
  BY <1>2 DEF Ask, Tasks, WellAsked, AdminOps, OperatorOps
<1>3. CASE q \in {Ask("role", a, t, r, {}) : t \in Members, r \in Roles}
  BY <1>3 DEF NotOwnAccount, Ask, Tasks, WellAsked, AdminOps, OperatorOps
<1>4. CASE q \in {Ask("replace", a, t, None, S) : t \in Members, S \in SUBSET Subsidiaries}
  BY <1>4 DEF Ask, Tasks, WellAsked, AdminOps, OperatorOps
<1>5. CASE q \in {Ask("invite", a, t, "data_entry", S) : t \in Members, S \in SUBSET Subsidiaries}
  BY <1>5 DEF Ask, Tasks, WellAsked, AdminOps, OperatorOps, AccessAssumption
<1>6. CASE q \in {Ask("invite", a, t, r, {}) : t \in Members, r \in Roles}
  BY <1>6 DEF Ask, Tasks, WellAsked, AdminOps, OperatorOps
<1>7. CASE q \in {Ask(op, a, t, None, {}) : op \in {"disable", "enable"}, t \in Members}
  <2>1. PICK op \in {"disable", "enable"}, t \in Members : q = Ask(op, a, t, None, {})
    BY <1>7
  <2>2. q = [op |-> op, actor |-> a, target |-> t, role |-> None, subs |-> {}, held |-> {},
             phase |-> "admitted"]
    BY <2>1 DEF Ask
  <2>3. op = "disable" => t # a
    BY <2>2 DEF NotOwnAccount
  <2>4. q \in Tasks
    BY <2>1, <2>2 DEF Tasks, AdminOps
  <2>5. WellAsked(q)
    BY <2>1, <2>2, <2>3 DEF WellAsked, AdminOps
  <2>6. q.actor = a /\ q.phase = "admitted"
    BY <2>2
  <2>7. q.op \in AdminOps
    BY <2>1, <2>2 DEF AdminOps
  <2>. QED BY <2>4, <2>5, <2>6, <2>7
<1>. QED BY <1>1, <1>2, <1>3, <1>4, <1>5, <1>6, <1>7 DEF Ask

(* One request is replaced by what it has become, the others stay.         *)
LEMMA OneMoves ==
    ASSUME TypeOK, NEW w \in Workers, NEW q \in Tasks, task' = [task EXCEPT ![w] = q]
    PROVE  /\ task' \in [Workers -> Tasks]
           /\ task'[w] = q
           /\ \A v \in Workers : v # w => task'[v] = task[v]
BY DEF TypeOK

LEMMA NoTaskIsTask == NoTask \in Tasks /\ NoTask.phase = "idle" /\ WellAsked(NoTask)
BY DEF Tasks, NoTask, WellAsked

(* A request that goes on keeps what it asked for.                         *)
LEMMA GoesOn ==
    ASSUME NEW q \in Tasks, WellAsked(q), q.phase # "idle",
           NEW phase \in {"admitted", "locked", "read"}, phase = "read" => q.op = "replace",
           NEW held \in SUBSET Subsidiaries
    PROVE  /\ At(q, phase, held) \in Tasks
           /\ WellAsked(At(q, phase, held))
           /\ At(q, phase, held).op = q.op
           /\ At(q, phase, held).actor = q.actor
           /\ At(q, phase, held).target = q.target
           /\ At(q, phase, held).phase = phase
           /\ At(q, phase, held).held = held
<1>1. q \in [op: AdminOps \cup OperatorOps, actor: Members \cup {None}, target: Members \cup {None},
             role: Roles \cup {None}, subs: SUBSET Subsidiaries, held: SUBSET Subsidiaries,
             phase: {"admitted", "locked", "read"}]
  BY DEF Tasks, NoTask
<1>2. At(q, phase, held) = [op |-> q.op, actor |-> q.actor, target |-> q.target, role |-> q.role,
                            subs |-> q.subs, held |-> held, phase |-> phase]
  BY DEF At
<1>3. At(q, phase, held) \in Tasks
  BY <1>1, <1>2 DEF Tasks
<1>4. WellAsked(At(q, phase, held))
  BY <1>2 DEF WellAsked
<1>. QED BY <1>2, <1>3, <1>4

(* A step that serves a request either ends its transaction or has read    *)
(* the grants it will replace.                                             *)
ReadsOn(w) ==
    /\ task[w].phase = "locked"
    /\ task[w].op = "replace"
    /\ Grantable(task[w].target)
    /\ task' = [task EXCEPT ![w] = At(task[w], "read", grants[task[w].target])]
    /\ UNCHANGED <<data, living, lock>>

LEMMA ServeShape ==
    ASSUME NEW w \in Workers, Serve(w)
    PROVE  task[w].phase \in {"locked", "read"} /\ (End(w) \/ ReadsOn(w))
<1>1. CASE Grant(w)    BY <1>1 DEF Grant, Serves, Rollback
<1>2. CASE Revoke(w)   BY <1>2 DEF Revoke, Serves, Rollback
<1>3. CASE ReadHeld(w) BY <1>3 DEF ReadHeld, Serves, Rollback, ReadsOn
<1>4. CASE Replace(w)  BY <1>4 DEF Replace, Rollback
<1>5. CASE SetRole(w)  BY <1>5 DEF SetRole, Serves, Rollback
<1>6. CASE Invite(w)   BY <1>6 DEF Invite, Serves, Rollback
<1>7. CASE Disable(w)  BY <1>7 DEF Disable, Serves, Rollback
<1>8. CASE Enable(w)   BY <1>8 DEF Enable, Serves, Rollback
<1>9. CASE Provision(w) BY <1>9 DEF Provision, Serves, Rollback
<1>10. CASE Offboard(w) BY <1>10 DEF Offboard, Serves
<1>. QED BY <1>1, <1>2, <1>3, <1>4, <1>5, <1>6, <1>7, <1>8, <1>9, <1>10 DEF Serve

-----------------------------------------------------------------------------
(* The lock: one request at a time is inside.                              *)

Exclusive == \A w \in Workers : task[w].phase \in {"locked", "read"} => lock = w

Lane == Asking /\ LockHeld /\ Exclusive

LEMMA LaneStep ==
    ASSUME AccessAssumption, TypeOK, Lane, Next
    PROVE  task' \in [Workers -> Tasks] /\ lock' \in Workers \cup {None} /\ Lane'
<1> USE DEF Lane, Asking, LockHeld, Exclusive
<1>0. task \in [Workers -> Tasks] /\ lock \in Workers \cup {None} /\ None \notin Workers
  BY DEF TypeOK, AccessAssumption
<1>1. ASSUME NEW w \in Workers, Admit(w) PROVE task' \in [Workers -> Tasks] /\ lock' = lock /\ Lane'
  <2>1. PICK a \in Members : \E q \in Asked(a) : NotOwnAccount(q.op, a, q.target) /\ task' = [task EXCEPT ![w] = q]
    BY <1>1 DEF Admit
  <2>2. PICK q \in Asked(a) : NotOwnAccount(q.op, a, q.target) /\ task' = [task EXCEPT ![w] = q]
    BY <2>1
  <2>3. q \in Tasks /\ WellAsked(q) /\ q.phase = "admitted"
    BY <2>2, AskedIsWell
  <2>4. task[w].phase = "idle" /\ lock' = lock
    BY <1>1 DEF Admit
  <2>. QED BY <1>0, <2>2, <2>3, <2>4, OneMoves
<1>2. ASSUME NEW w \in Workers, Command(w) PROVE task' \in [Workers -> Tasks] /\ lock' = lock /\ Lane'
  <2>1. PICK q \in Tasks : /\ task' = [task EXCEPT ![w] = q]
                           /\ q.op \in {"provision", "offboard"}
                           /\ q.op = "provision" => q.target \in Members
                           /\ q.phase = "admitted"
    <3>1. CASE \E t \in Members : task' = [task EXCEPT ![w] = Ask("provision", None, t, None, {})]
      <4>1. PICK t \in Members : task' = [task EXCEPT ![w] = Ask("provision", None, t, None, {})]
        BY <3>1
      <4>2. Ask("provision", None, t, None, {}) \in Tasks
        BY DEF Ask, Tasks, OperatorOps
      <4>3. /\ Ask("provision", None, t, None, {}).op = "provision"
            /\ Ask("provision", None, t, None, {}).target = t
            /\ Ask("provision", None, t, None, {}).phase = "admitted"
        BY DEF Ask
      <4>. QED BY <4>1, <4>2, <4>3
    <3>2. CASE task' = [task EXCEPT ![w] = Ask("offboard", None, None, None, {})]
      <4>1. Ask("offboard", None, None, None, {}) \in Tasks
        BY DEF Ask, Tasks, OperatorOps
      <4>2. /\ Ask("offboard", None, None, None, {}).op = "offboard"
            /\ Ask("offboard", None, None, None, {}).phase = "admitted"
        BY DEF Ask
      <4>. QED BY <3>2, <4>1, <4>2
    <3>. QED BY <1>2, <3>1, <3>2 DEF Command
  <2>2. WellAsked(q)
    BY <2>1 DEF WellAsked, AdminOps
  <2>3. task[w].phase = "idle" /\ lock' = lock
    BY <1>2 DEF Command
  <2>. QED BY <1>0, <2>1, <2>2, <2>3, OneMoves
<1>3. ASSUME NEW w \in Workers, Enter(w) PROVE task' \in [Workers -> Tasks] /\ lock' = w /\ Lane'
  <2>1. task[w].phase = "admitted" /\ lock = None /\ lock' = w
        /\ task' = [task EXCEPT ![w] = At(task[w], "locked", {})]
    BY <1>3, <1>0 DEF Enter
  <2>2. At(task[w], "locked", {}) \in Tasks /\ WellAsked(At(task[w], "locked", {}))
        /\ At(task[w], "locked", {}).phase = "locked"
    BY <1>0, <2>1, GoesOn
  <2>. QED BY <1>0, <2>1, <2>2, OneMoves
<1>4. ASSUME NEW w \in Workers, Refused(w) PROVE task' \in [Workers -> Tasks] /\ lock' = lock /\ Lane'
  BY <1>0, <1>4, OneMoves, NoTaskIsTask DEF Refused
<1>5. ASSUME NEW w \in Workers, Serve(w)
      PROVE  task' \in [Workers -> Tasks] /\ lock' \in {lock, None} /\ Lane'
  <2>1. task[w].phase \in {"locked", "read"} /\ lock = w
    BY <1>5, ServeShape
  <2>2. CASE End(w)
    BY <1>0, <2>1, <2>2, OneMoves, NoTaskIsTask DEF End
  <2>3. CASE ReadsOn(w)
    <3>1. task[w].target \in Members
      BY <1>0, <2>1, <2>3 DEF ReadsOn, WellAsked, AdminOps
    <3>2. grants[task[w].target] \in SUBSET Subsidiaries
      BY <3>1 DEF TypeOK
    <3>3. At(task[w], "read", grants[task[w].target]) \in Tasks
          /\ WellAsked(At(task[w], "read", grants[task[w].target]))
          /\ At(task[w], "read", grants[task[w].target]).phase = "read"
      BY <1>0, <2>1, <2>3, <3>2, GoesOn DEF ReadsOn
    <3>. QED BY <1>0, <2>1, <2>3, <3>3, OneMoves DEF ReadsOn
  <2>. QED BY <1>5, <2>2, <2>3, ServeShape
<1>6. ASSUME NEW s \in Subsidiaries, DeleteSubsidiary(s)
      PROVE  task' \in [Workers -> Tasks] /\ lock' = lock /\ Lane'
  BY <1>0, <1>6 DEF DeleteSubsidiary
<1>. QED BY <1>0, <1>1, <1>2, <1>3, <1>4, <1>5, <1>6 DEF Next

-----------------------------------------------------------------------------
(* The data: what each transaction leaves behind.                          *)

Types ==
    /\ role \in [Members -> Roles \cup {None}]
    /\ disabled \subseteq {m \in Members : Member(m)}
    /\ grants \in [Members -> SUBSET living]
    /\ living \subseteq Subsidiaries
    /\ offboarded \in BOOLEAN
    /\ trail \in [Members -> [Subsidiaries -> {"create", "delete", None}]]

Books == Types /\ OnlyDataEntryHoldsGrants /\ TrailMatchesGrants /\ OffboardedIsEmpty /\ AlwaysGoverned

(* A change of one member's grants, with its audit rows.                   *)
LEMMA RegrantKeeps ==
    ASSUME AccessAssumption, Types, TrailMatchesGrants, NEW m \in Members,
           NEW removed, NEW added \in SUBSET living, Regrant(m, removed, added), living' = living
    PROVE  /\ grants' \in [Members -> SUBSET living']
           /\ trail' \in [Members -> [Subsidiaries -> {"create", "delete", None}]]
           /\ \A n \in Members : n # m => grants'[n] = grants[n]
           /\ grants'[m] = (grants[m] \ removed) \cup added
           /\ TrailMatchesGrants'
<1>1. /\ grants' = [grants EXCEPT ![m] = (grants[m] \ removed) \cup added]
      /\ trail' = [trail EXCEPT ![m] = [s \in Subsidiaries |->
                IF s \in added THEN "create" ELSE IF s \in removed THEN "delete" ELSE trail[m][s]]]
  BY DEF Regrant, Audited
<1>2. /\ grants' \in [Members -> SUBSET living']
      /\ \A n \in Members : n # m => grants'[n] = grants[n]
      /\ grants'[m] = (grants[m] \ removed) \cup added
  BY <1>1 DEF Types
<1>3. /\ \A n \in Members : n # m => trail'[n] = trail[n]
      /\ trail'[m] = [s \in Subsidiaries |->
                IF s \in added THEN "create" ELSE IF s \in removed THEN "delete" ELSE trail[m][s]]
      /\ DOMAIN trail' = Members
      /\ trail' = [n \in Members |-> trail'[n]]
  BY <1>1 DEF Types
<1>4. trail'[m] \in [Subsidiaries -> {"create", "delete", None}]
  BY <1>3 DEF Types
<1>5. \A n \in Members : trail'[n] \in [Subsidiaries -> {"create", "delete", None}]
  BY <1>3, <1>4 DEF Types
<1>6. trail' \in [Members -> [Subsidiaries -> {"create", "delete", None}]]
  BY <1>3, <1>5
<1>7. ASSUME NEW s \in living PROVE s \in grants'[m] <=> trail'[m][s] = "create"
  <2>1. s \in Subsidiaries /\ (s \in grants[m] <=> trail[m][s] = "create")
    BY DEF Types, TrailMatchesGrants
  <2>2. trail'[m][s] = IF s \in added THEN "create" ELSE IF s \in removed THEN "delete" ELSE trail[m][s]
    BY <1>3, <2>1
  <2>. QED BY <1>2, <2>1, <2>2
<1>8. TrailMatchesGrants'
  BY <1>2, <1>3, <1>7 DEF TrailMatchesGrants
<1>. QED BY <1>2, <1>6, <1>8

(* Grants change, for one data_entry member.                               *)
LEMMA RegrantBooks ==
    ASSUME AccessAssumption, Books, NEW m \in Members, role[m] = "data_entry" \/ ~Member(m),
           NEW removed, NEW added \in SUBSET living, Regrant(m, removed, added),
           role[m] = "data_entry" \/ added = {},
           living' = living, UNCHANGED <<role, disabled, offboarded>>
    PROVE  Books'
<1>1. /\ grants' \in [Members -> SUBSET living']
      /\ trail' \in [Members -> [Subsidiaries -> {"create", "delete", None}]]
      /\ \A n \in Members : n # m => grants'[n] = grants[n]
      /\ grants'[m] = (grants[m] \ removed) \cup added
      /\ TrailMatchesGrants'
  BY RegrantKeeps DEF Books
<1>2. Types'
  BY <1>1 DEF Books, Types, Member
<1>3. OnlyDataEntryHoldsGrants'
  BY <1>1 DEF Books, OnlyDataEntryHoldsGrants
<1>4. OffboardedIsEmpty' /\ AlwaysGoverned'
  BY DEF Books, OffboardedIsEmpty, AlwaysGoverned, Admins, Member
<1>. QED BY <1>1, <1>2, <1>3, <1>4 DEF Books

(* Only Admins, disabled and offboarded matter to who governs.             *)
LEMMA SameBooks ==
    ASSUME Books, UNCHANGED <<data, living>>
    PROVE  Books'
BY DEF Books, Types, data, OnlyDataEntryHoldsGrants, TrailMatchesGrants, OffboardedIsEmpty,
       AlwaysGoverned, Admins, Member

(* The request inside: its target is a member's place, its actor somebody  *)
(* else who administers the organisation.                                  *)
LEMMA Inside ==
    ASSUME TypeOK, Lane, HolderEntitled, NEW w \in Workers, task[w].phase \in {"locked", "read"}
    PROVE  /\ task[w].op \in AdminOps \cup {"provision"} => task[w].target \in Members
           /\ task[w].op \in AdminOps => task[w].actor \in Members /\ StillAdmin(task[w].actor)
           /\ task[w].op = "provision" => ~offboarded
           /\ task[w].op \in {"role", "disable"} => task[w].target # task[w].actor
           /\ task[w].op \in {"role", "invite"} => task[w].role \in Roles
           /\ task[w].op = "invite" /\ task[w].subs # {} => task[w].role = "data_entry"
           /\ task[w].phase = "read" => task[w].op = "replace"
BY DEF Lane, Asking, WellAsked, HolderEntitled

(* Whoever made the change is still there.                                 *)
LEMMA ActorStays ==
    ASSUME Types, NEW a \in Members, StillAdmin(a), role'[a] = role[a], a \notin disabled'
    PROVE  AlwaysGoverned'
BY DEF AlwaysGoverned, Admins, StillAdmin

LEMMA ServeBooks ==
    ASSUME AccessAssumption, Books, TypeOK, Lane, HolderEntitled, HeldIsCurrent,
           NEW w \in Workers, Serve(w)
    PROVE  Books'
<1> DEFINE m == task[w].target
           S == task[w].subs
           a == task[w].actor
<1>0. task[w].phase \in {"locked", "read"}
  BY ServeShape
<1>a. /\ task[w].op \in AdminOps \cup {"provision"} => m \in Members
      /\ task[w].op \in AdminOps => a \in Members /\ StillAdmin(a)
      /\ task[w].op = "provision" => ~offboarded
      /\ task[w].op \in {"role", "disable"} => m # a
      /\ task[w].op \in {"role", "invite"} => task[w].role \in Roles
      /\ task[w].op = "invite" /\ S # {} => task[w].role = "data_entry"
      /\ task[w].phase = "read" => task[w].op = "replace"
  BY <1>0, Inside
<1>b. Rollback(w) => Books'
  BY SameBooks DEF Rollback, End
<1>c. Types
  BY DEF Books
<1>1. CASE Grant(w)
  <2>1. task[w].op = "grant" /\ m \in Members
    BY <1>1, <1>a DEF Grant, Serves, AdminOps
  <2>2. CASE Rollback(w)
    BY <2>2, <1>b
  <2>3. CASE ~Rollback(w)
    <3>1. /\ role[m] = "data_entry" /\ S \in SUBSET living /\ Regrant(m, {}, S)
          /\ UNCHANGED <<role, disabled, offboarded>> /\ living' = living
      BY <1>1, <2>3 DEF Grant, Grantable, End
    <3>. QED BY <2>1, <3>1, RegrantBooks
  <2>. QED BY <2>2, <2>3
<1>2. CASE Revoke(w)
  <2>1. task[w].op = "revoke" /\ m \in Members
    BY <1>2, <1>a DEF Revoke, Serves, AdminOps
  <2>2. CASE Rollback(w)
    BY <2>2, <1>b
  <2>3. CASE ~Rollback(w)
    <3>1. /\ S \subseteq grants[m] /\ Regrant(m, S, {})
          /\ UNCHANGED <<role, disabled, offboarded>> /\ living' = living
      BY <1>2, <2>3 DEF Revoke, End
    <3>2. role[m] = "data_entry" \/ S = {}
      BY <2>1, <3>1 DEF Books, OnlyDataEntryHoldsGrants
    <3>3. CASE role[m] = "data_entry"
      BY <2>1, <3>1, <3>3, RegrantBooks
    <3>4. CASE role[m] # "data_entry"
      <4>1. S = {} /\ grants[m] = {}
        BY <2>1, <3>2, <3>4 DEF Books, OnlyDataEntryHoldsGrants
      <4>2. /\ grants' \in [Members -> SUBSET living']
            /\ trail' \in [Members -> [Subsidiaries -> {"create", "delete", None}]]
            /\ \A n \in Members : n # m => grants'[n] = grants[n]
            /\ grants'[m] = (grants[m] \ S) \cup {}
            /\ TrailMatchesGrants'
        BY <2>1, <3>1, RegrantKeeps DEF Books
      <4>3. Types'
        BY <3>1, <4>2 DEF Books, Types, Member
      <4>4. OnlyDataEntryHoldsGrants'
        BY <3>1, <4>1, <4>2 DEF Books, OnlyDataEntryHoldsGrants
      <4>5. OffboardedIsEmpty' /\ AlwaysGoverned'
        BY <3>1 DEF Books, OffboardedIsEmpty, AlwaysGoverned, Admins, Member
      <4>. QED BY <4>2, <4>3, <4>4, <4>5 DEF Books
    <3>. QED BY <3>3, <3>4
  <2>. QED BY <2>2, <2>3
<1>3. CASE ReadHeld(w)
  <2>1. CASE Rollback(w)
    BY <2>1, <1>b
  <2>2. CASE ~Rollback(w)
    BY <1>3, <2>2, SameBooks DEF ReadHeld
  <2>. QED BY <2>1, <2>2
<1>4. CASE Replace(w)
  <2>1. task[w].phase = "read" /\ task[w].op = "replace" /\ m \in Members
    BY <1>4, <1>a DEF Replace, AdminOps
  <2>2. role[m] = "data_entry"
    BY <2>1 DEF HeldIsCurrent
  <2>3. CASE Rollback(w)
    BY <2>3, <1>b
  <2>4. CASE ~Rollback(w)
    <3>1. /\ S \ task[w].held \in SUBSET living
          /\ Regrant(m, task[w].held \ S, S \ task[w].held)
          /\ UNCHANGED <<role, disabled, offboarded>> /\ living' = living
      BY <1>4, <2>4 DEF Replace, End
    <3>. QED BY <2>1, <2>2, <3>1, RegrantBooks
  <2>. QED BY <2>3, <2>4
<1>5. CASE SetRole(w)
  <2>1. task[w].op = "role" /\ m \in Members /\ a \in Members /\ StillAdmin(a) /\ m # a
        /\ task[w].role \in Roles
    BY <1>5, <1>a DEF SetRole, Serves, AdminOps
  <2>2. CASE Rollback(w)
    BY <2>2, <1>b
  <2>3. CASE ~Rollback(w)
    <3>1. /\ Member(m) /\ role' = [role EXCEPT ![m] = task[w].role] /\ LosesGrants(m, task[w].role)
          /\ UNCHANGED <<disabled, offboarded>> /\ living' = living
      BY <1>5, <2>3 DEF SetRole, End
    <3>2. /\ role' \in [Members -> Roles \cup {None}] /\ role'[m] = task[w].role
          /\ \A n \in Members : n # m => role'[n] = role[n]
      BY <1>c, <2>1, <3>1 DEF Types
    <3>3. /\ grants' \in [Members -> SUBSET living']
          /\ trail' \in [Members -> [Subsidiaries -> {"create", "delete", None}]]
          /\ \A n \in Members : n # m => grants'[n] = grants[n]
          /\ grants'[m] = {}
          /\ TrailMatchesGrants'
      <4>1. CASE role[m] = "data_entry"
        <5>1. Regrant(m, grants[m], {}) /\ {} \in SUBSET living /\ TrailMatchesGrants
          BY <3>1, <4>1 DEF LosesGrants, Books
        <5>2. (grants[m] \ grants[m]) \cup {} = {}
          OBVIOUS
        <5>. QED BY <1>c, <2>1, <3>1, <5>1, <5>2, RegrantKeeps
      <4>2. CASE role[m] # "data_entry"
        <5>1. grants' = grants /\ trail' = trail
          BY <3>1, <4>2 DEF LosesGrants
        <5>2. grants[m] = {}
          BY <2>1, <4>2 DEF Books, OnlyDataEntryHoldsGrants
        <5>. QED BY <3>1, <5>1, <5>2 DEF Books, Types, TrailMatchesGrants
      <4>. QED BY <4>1, <4>2
    <3>4. Types'
      BY <1>c, <2>1, <3>1, <3>2, <3>3 DEF Types, Member, AccessAssumption
    <3>5. OnlyDataEntryHoldsGrants'
      BY <3>2, <3>3 DEF Books, OnlyDataEntryHoldsGrants
    <3>6. ~offboarded' /\ AlwaysGoverned'
      BY <1>c, <2>1, <3>1, <3>2, ActorStays DEF StillAdmin
    <3>. QED BY <3>3, <3>4, <3>5, <3>6 DEF Books, OffboardedIsEmpty
  <2>. QED BY <2>2, <2>3
<1>6. CASE Invite(w)
  <2>1. task[w].op = "invite" /\ m \in Members /\ a \in Members /\ StillAdmin(a)
        /\ task[w].role \in Roles /\ (S # {} => task[w].role = "data_entry")
    BY <1>6, <1>a DEF Invite, Serves, AdminOps
  <2>2. CASE Rollback(w)
    BY <2>2, <1>b
  <2>3. CASE ~Rollback(w)
    <3>1. /\ ~Member(m) /\ role' = [role EXCEPT ![m] = task[w].role] /\ Regrant(m, {}, S)
          /\ UNCHANGED <<disabled, offboarded>> /\ living' = living /\ S \in SUBSET living
      BY <1>6, <2>3 DEF Invite, End
    <3>2. /\ role' \in [Members -> Roles \cup {None}] /\ role'[m] = task[w].role
          /\ \A n \in Members : n # m => role'[n] = role[n]
      BY <1>c, <2>1, <3>1 DEF Types
    <3>3. /\ grants' \in [Members -> SUBSET living']
          /\ trail' \in [Members -> [Subsidiaries -> {"create", "delete", None}]]
          /\ \A n \in Members : n # m => grants'[n] = grants[n]
          /\ grants'[m] = (grants[m] \ {}) \cup S
          /\ TrailMatchesGrants'
      BY <1>c, <2>1, <3>1, RegrantKeeps DEF Books
    <3>4. grants[m] = {} /\ m # a
      BY <2>1, <3>1 DEF Books, OnlyDataEntryHoldsGrants, Member, AccessAssumption, StillAdmin
    <3>5. Types'
      BY <1>c, <2>1, <3>1, <3>2, <3>3 DEF Types, Member, AccessAssumption
    <3>6. OnlyDataEntryHoldsGrants'
      BY <2>1, <3>2, <3>3, <3>4 DEF Books, OnlyDataEntryHoldsGrants
    <3>7. ~offboarded' /\ AlwaysGoverned'
      BY <1>c, <2>1, <3>1, <3>2, <3>4, ActorStays DEF StillAdmin
    <3>. QED BY <3>3, <3>5, <3>6, <3>7 DEF Books, OffboardedIsEmpty
  <2>. QED BY <2>2, <2>3
<1>7. CASE Disable(w)
  <2>1. task[w].op = "disable" /\ m \in Members /\ a \in Members /\ StillAdmin(a) /\ m # a
    BY <1>7, <1>a DEF Disable, Serves, AdminOps
  <2>2. CASE Rollback(w)
    BY <2>2, <1>b
  <2>3. CASE ~Rollback(w)
    <3>1. /\ Member(m) /\ disabled' = disabled \cup {m}
          /\ UNCHANGED <<role, grants, offboarded, trail>> /\ living' = living
      BY <1>7, <2>3 DEF Disable, End
    <3>2. Types'
      BY <1>c, <2>1, <3>1 DEF Types, Member
    <3>3. ~offboarded' /\ AlwaysGoverned'
      BY <1>c, <2>1, <3>1, ActorStays DEF StillAdmin
    <3>4. OnlyDataEntryHoldsGrants' /\ TrailMatchesGrants'
      BY <3>1 DEF Books, OnlyDataEntryHoldsGrants, TrailMatchesGrants
    <3>. QED BY <3>2, <3>3, <3>4 DEF Books, OffboardedIsEmpty
  <2>. QED BY <2>2, <2>3
<1>8. CASE Enable(w)
  <2>1. task[w].op = "enable" /\ m \in Members /\ a \in Members /\ StillAdmin(a)
    BY <1>8, <1>a DEF Enable, Serves, AdminOps
  <2>2. CASE Rollback(w)
    BY <2>2, <1>b
  <2>3. CASE ~Rollback(w)
    <3>1. /\ disabled' = disabled \ {m}
          /\ UNCHANGED <<role, grants, offboarded, trail>> /\ living' = living
      BY <1>8, <2>3 DEF Enable, End
    <3>2. Types'
      BY <1>c, <2>1, <3>1 DEF Types, Member
    <3>3. ~offboarded' /\ AlwaysGoverned'
      BY <1>c, <2>1, <3>1, ActorStays DEF StillAdmin
    <3>4. OnlyDataEntryHoldsGrants' /\ TrailMatchesGrants'
      BY <3>1 DEF Books, OnlyDataEntryHoldsGrants, TrailMatchesGrants
    <3>. QED BY <3>2, <3>3, <3>4 DEF Books, OffboardedIsEmpty
  <2>. QED BY <2>2, <2>3
<1>9. CASE Provision(w)
  <2>1. task[w].op = "provision" /\ m \in Members /\ ~offboarded
    BY <1>9, <1>a DEF Provision, Serves
  <2>2. CASE Rollback(w)
    BY <2>2, <1>b
  <2>3. CASE ~Rollback(w)
    <3>1. /\ ~Member(m) /\ role' = [role EXCEPT ![m] = "super_admin"]
          /\ UNCHANGED <<disabled, grants, offboarded, trail>> /\ living' = living
      BY <1>9, <2>3 DEF Provision, End
    <3>2. /\ role' \in [Members -> Roles \cup {None}] /\ role'[m] = "super_admin"
          /\ \A n \in Members : n # m => role'[n] = role[n]
      BY <1>c, <2>1, <3>1 DEF Types, AccessAssumption
    <3>3. Types'
      BY <1>c, <2>1, <3>1, <3>2 DEF Types, Member, AccessAssumption
    <3>4. grants[m] = {}
      BY <2>1, <3>1 DEF Books, OnlyDataEntryHoldsGrants, Member, AccessAssumption
    <3>5. OnlyDataEntryHoldsGrants' /\ TrailMatchesGrants'
      BY <3>1, <3>2, <3>4 DEF Books, OnlyDataEntryHoldsGrants, TrailMatchesGrants
    <3>6. m \notin disabled
      BY <1>c, <3>1 DEF Types, Member
    <3>7. ~offboarded' /\ AlwaysGoverned'
      BY <2>1, <3>1, <3>2, <3>6 DEF AlwaysGoverned, Admins
    <3>. QED BY <3>3, <3>5, <3>7 DEF Books, OffboardedIsEmpty
  <2>. QED BY <2>2, <2>3
<1>10. CASE Offboard(w)
  <2>1. /\ offboarded' = TRUE /\ disabled' = disabled \cup EnabledMembers
        /\ UNCHANGED <<role, grants, trail>> /\ living' = living
    BY <1>10 DEF Offboard, End
  <2>2. Types'
    BY <1>c, <2>1 DEF Types, Member, EnabledMembers
  <2>3. OffboardedIsEmpty' /\ AlwaysGoverned'
    BY <2>1 DEF OffboardedIsEmpty, AlwaysGoverned, EnabledMembers, Member
  <2>4. OnlyDataEntryHoldsGrants' /\ TrailMatchesGrants'
    BY <2>1 DEF Books, OnlyDataEntryHoldsGrants, TrailMatchesGrants
  <2>. QED BY <2>2, <2>3, <2>4 DEF Books
<1>. QED BY <1>1, <1>2, <1>3, <1>4, <1>5, <1>6, <1>7, <1>8, <1>9, <1>10 DEF Serve

-----------------------------------------------------------------------------
(* The invariant.                                                          *)

LEMMA DataFrame ==
    ASSUME Access, UNCHANGED <<data, living>>
    PROVE  Books'
BY SameBooks DEF Access, Books, Types, TypeOK

(* A subsidiary goes, and the grants of it.                                *)
LEMMA DeletionBooks ==
    ASSUME Books, NEW s \in Subsidiaries, DeleteSubsidiary(s)
    PROVE  Books'
<1>1. /\ living' = living \ {s}
      /\ grants' = [m \in Members |-> grants[m] \ {s}]
      /\ UNCHANGED <<role, disabled, offboarded, trail>>
  BY DEF DeleteSubsidiary
<1>2. Types'
  BY <1>1 DEF Books, Types, Member
<1>3. OnlyDataEntryHoldsGrants'
  BY <1>1 DEF Books, OnlyDataEntryHoldsGrants
<1>4. TrailMatchesGrants'
  BY <1>1 DEF Books, TrailMatchesGrants
<1>5. OffboardedIsEmpty' /\ AlwaysGoverned'
  BY <1>1 DEF Books, OffboardedIsEmpty, AlwaysGoverned, Admins, Member
<1>. QED BY <1>2, <1>3, <1>4, <1>5 DEF Books

LEMMA AccessInit ==
    ASSUME AccessAssumption, Init
    PROVE  Access
<1>1. PICK first \in Members : role = [m \in Members |-> IF m = first THEN "super_admin" ELSE None]
  BY DEF Init
<1>2. /\ disabled = {} /\ grants = [m \in Members |-> {}] /\ living = Subsidiaries
      /\ offboarded = FALSE /\ lock = None /\ task = [w \in Workers |-> NoTask]
      /\ trail = [m \in Members |-> [s \in Subsidiaries |-> None]]
  BY DEF Init
<1>3. role \in [Members -> Roles \cup {None}]
  BY <1>1 DEF AccessAssumption
<1>4. task \in [Workers -> Tasks] /\ \A w \in Workers : task[w].phase = "idle"
  BY <1>2, NoTaskIsTask
<1>5. TypeOK
  BY <1>2, <1>3, <1>4 DEF TypeOK
<1>6. Asking /\ LockHeld /\ HolderEntitled /\ HeldIsCurrent
  BY <1>2, <1>4 DEF Asking, WellAsked, LockHeld, HolderEntitled, HeldIsCurrent
<1>7. OnlyDataEntryHoldsGrants /\ TrailMatchesGrants /\ OffboardedIsEmpty
  BY <1>2 DEF OnlyDataEntryHoldsGrants, TrailMatchesGrants, OffboardedIsEmpty, AccessAssumption
<1>8. AlwaysGoverned
  BY <1>1, <1>2 DEF AlwaysGoverned, Admins
<1>. QED BY <1>5, <1>6, <1>7, <1>8 DEF Access

LEMMA AccessStep ==
    ASSUME AccessAssumption, Access, [Next]_vars
    PROVE  Access'
<1>1. CASE UNCHANGED vars
  BY <1>1 DEF vars, data, Access, TypeOK, Asking, LockHeld, HolderEntitled, HeldIsCurrent,
     OnlyDataEntryHoldsGrants, TrailMatchesGrants, OffboardedIsEmpty, AlwaysGoverned, Admins, Member,
     StillAdmin, Tasks, WellAsked
<1>2. CASE Next
  <2>0. TypeOK /\ Lane /\ HolderEntitled /\ HeldIsCurrent /\ Books
    BY DEF Access, Lane, Books, Types, TypeOK, HolderEntitled, Exclusive
  <2>1. task' \in [Workers -> Tasks] /\ lock' \in Workers \cup {None} /\ Lane'
    BY <1>2, <2>0, LaneStep
  <2>2. Books'
    <3>1. ASSUME NEW w \in Workers, Admit(w) \/ Command(w) \/ Enter(w) \/ Refused(w) PROVE Books'
      BY <3>1, DataFrame DEF Admit, Command, Enter, Refused
    <3>2. ASSUME NEW w \in Workers, Serve(w) PROVE Books'
      BY <2>0, <3>2, ServeBooks
    <3>3. ASSUME NEW s \in Subsidiaries, DeleteSubsidiary(s) PROVE Books'
      BY <2>0, <3>3, DeletionBooks
    <3>. QED BY <1>2, <3>1, <3>2, <3>3 DEF Next
  <2>3. TypeOK'
    BY <2>1, <2>2 DEF TypeOK, Books, Types
  <2>4. HolderEntitled' /\ HeldIsCurrent'
    <3>0. \A v \in Workers : task'[v].phase \in {"locked", "read"} => lock' = v
      BY <2>1 DEF Lane, Exclusive
    <3>00. task \in [Workers -> Tasks] /\ None \notin Workers
      BY <2>0 DEF TypeOK, AccessAssumption
    <3>1. CASE lock' = None
      BY <3>0, <3>00, <3>1 DEF HolderEntitled, HeldIsCurrent
    <3>2. ASSUME NEW w \in Workers, Admit(w) \/ Command(w) \/ Refused(w)
          PROVE  HolderEntitled' /\ HeldIsCurrent'
      <4>1. UNCHANGED <<role, disabled, grants, offboarded, living, lock>> /\ task[w].phase # "locked"
            /\ task[w].phase # "read"
        BY <3>2 DEF Admit, Command, Refused, data
      <4>2. \A v \in Workers \ {w} : task'[v] = task[v]
        BY <3>2, <3>00 DEF Admit, Command, Refused
      <4>3. task'[w].phase \notin {"locked", "read"}
        <5>1. lock # w
          BY <2>0, <3>00, <4>1 DEF Lane, LockHeld
        <5>. QED BY <3>0, <4>1, <5>1
      <4>4. HolderEntitled'
        BY <2>0, <4>1, <4>2, <4>3 DEF HolderEntitled, StillAdmin
      <4>5. HeldIsCurrent'
        BY <2>0, <4>1, <4>2, <4>3 DEF HeldIsCurrent
      <4>. QED BY <4>4, <4>5
    <3>3. ASSUME NEW w \in Workers, Enter(w)
          PROVE  HolderEntitled' /\ HeldIsCurrent'
      <4>1. /\ UNCHANGED <<role, disabled, grants, offboarded, living>> /\ lock' = w
            /\ Entitled(task[w]) /\ task[w].phase = "admitted"
            /\ task' = [task EXCEPT ![w] = At(task[w], "locked", {})]
        BY <3>3, <3>00 DEF Enter, data
      <4>2. task'[w] = At(task[w], "locked", {})
        BY <3>00, <4>1
      <4>3. task'[w].op = task[w].op /\ task'[w].actor = task[w].actor /\ task'[w].phase = "locked"
        BY <4>2 DEF At
      <4>4. \A v \in Workers : task'[v].phase \in {"locked", "read"} => v = w
        BY <3>0, <4>1
      <4>5. HolderEntitled'
        BY <4>1, <4>3, <4>4 DEF HolderEntitled, Entitled, StillAdmin
      <4>6. HeldIsCurrent'
        BY <4>3, <4>4 DEF HeldIsCurrent
      <4>. QED BY <4>5, <4>6
    <3>4. ASSUME NEW w \in Workers, Serve(w)
          PROVE  HolderEntitled' /\ HeldIsCurrent'
      <4>1. CASE End(w)
        BY <3>1, <4>1 DEF End
      <4>2. CASE ReadsOn(w)
        <5>1. /\ UNCHANGED <<role, disabled, grants, offboarded, living, lock>>
              /\ task[w].phase = "locked" /\ task[w].op = "replace" /\ role[task[w].target] = "data_entry"
              /\ task' = [task EXCEPT ![w] = At(task[w], "read", grants[task[w].target])]
          BY <4>2 DEF ReadsOn, data, Grantable
        <5>2. task'[w] = At(task[w], "read", grants[task[w].target])
          BY <3>00, <5>1
        <5>3. /\ task'[w].op = task[w].op /\ task'[w].actor = task[w].actor /\ task'[w].phase = "read"
              /\ task'[w].target = task[w].target /\ task'[w].held = grants[task[w].target]
          BY <5>2 DEF At
        <5>4. lock = w /\ \A v \in Workers : task'[v].phase \in {"locked", "read"} => v = w
          BY <2>0, <3>0, <5>1 DEF HolderEntitled
        <5>5. HolderEntitled'
          BY <2>0, <5>1, <5>3, <5>4 DEF HolderEntitled, StillAdmin
        <5>6. task[w].target \in Members
          BY <2>0, <5>1 DEF Lane, Asking, WellAsked, AdminOps
        <5>7. grants[task[w].target] \subseteq living
          BY <2>0, <5>6 DEF TypeOK
        <5>8. HeldIsCurrent'
          BY <5>1, <5>3, <5>4, <5>7 DEF HeldIsCurrent
        <5>. QED BY <5>5, <5>8
      <4>. QED BY <3>4, <4>1, <4>2, ServeShape
    <3>5. ASSUME NEW s \in Subsidiaries, DeleteSubsidiary(s)
          PROVE  HolderEntitled' /\ HeldIsCurrent'
      <4>1. /\ living' = living \ {s} /\ grants' = [m \in Members |-> grants[m] \ {s}]
            /\ UNCHANGED <<role, disabled, offboarded, lock, task>>
        BY <3>5 DEF DeleteSubsidiary
      <4>2. HolderEntitled'
        BY <2>0, <4>1 DEF HolderEntitled, StillAdmin
      <4>3. ASSUME NEW w \in Workers, task[w].phase = "read"
            PROVE  task[w].held \cap living' = grants'[task[w].target]
        <5>1. task[w].target \in Members /\ task[w].held \cap living = grants[task[w].target]
          BY <2>0, <4>3 DEF Lane, Asking, WellAsked, AdminOps, HeldIsCurrent
        <5>. QED BY <4>1, <5>1
      <4>4. HeldIsCurrent'
        BY <2>0, <4>1, <4>3 DEF HeldIsCurrent
      <4>. QED BY <4>2, <4>4
    <3>. QED BY <1>2, <3>2, <3>3, <3>4, <3>5 DEF Next
  <2>. QED BY <2>1, <2>2, <2>3, <2>4 DEF Access, Lane, Books
<1>. QED BY <1>1, <1>2

-----------------------------------------------------------------------------
(* The theorems.                                                           *)

THEOREM AccessInvariant == ASSUME AccessAssumption PROVE Spec => []Access
<1>1. Init => Access
  BY AccessInit
<1>2. Access /\ [Next]_vars => Access'
  BY AccessStep
<1>. QED BY <1>1, <1>2, PTL DEF Spec

(* An organisation keeps an enabled super_admin until it is offboarded,    *)
(* whatever roles, suspensions and requests cross.                         *)
THEOREM Governance == ASSUME AccessAssumption PROVE Spec => []AlwaysGoverned
<1>1. Access => AlwaysGoverned
  BY DEF Access
<1>. QED BY <1>1, AccessInvariant, PTL

(* Every change to administrators, roles and grants is carried out by      *)
(* somebody entitled to it when it commits.                                *)
THEOREM Entitlement == ASSUME AccessAssumption PROVE Spec => []HolderEntitled
<1>1. Access => HolderEntitled
  BY DEF Access
<1>. QED BY <1>1, AccessInvariant, PTL

(* Grants are held by data_entry members only, and the audit trail agrees  *)
(* with them for every subsidiary that exists.                             *)
THEOREM GrantsKept ==
    ASSUME AccessAssumption PROVE Spec => [](OnlyDataEntryHoldsGrants /\ TrailMatchesGrants)
<1>1. Access => OnlyDataEntryHoldsGrants /\ TrailMatchesGrants
  BY DEF Access
<1>. QED BY <1>1, AccessInvariant, PTL

(* No enabled member is left in, or comes to, an offboarded organisation.  *)
THEOREM OffboardingIsComplete ==
    ASSUME AccessAssumption PROVE Spec => [](TypeOK /\ OffboardedIsEmpty)
<1>1. Access => TypeOK /\ OffboardedIsEmpty
  BY DEF Access
<1>. QED BY <1>1, AccessInvariant, PTL

(* A step that leaves roles, disabled members and offboarding alone leaves *)
(* the directory alone.                                                    *)
LEMMA DirectoryStutter ==
    ASSUME UNCHANGED <<role, disabled, offboarded>>
    PROVE  UNCHANGED <<Admins, offboarded>>
BY DEF Admins

(* What one request does to the directory.                                 *)
LEMMA DirectoryServe ==
    ASSUME AccessAssumption, Access, NEW w \in Workers, Serve(w)
    PROVE  [Directory!Next]_<<Admins, offboarded>>
<1> DEFINE m == task[w].target
           a == task[w].actor
<1>0. TypeOK /\ Lane /\ HolderEntitled
  BY DEF Access, Lane, HolderEntitled, Exclusive
<1>a. task[w].phase \in {"locked", "read"}
  BY ServeShape
<1>b. /\ task[w].op \in AdminOps \cup {"provision"} => m \in Members
      /\ task[w].op \in AdminOps => a \in Members /\ StillAdmin(a)
      /\ task[w].op = "provision" => ~offboarded
      /\ task[w].op \in {"role", "disable"} => m # a
  BY <1>0, <1>a, Inside
<1>c. Rollback(w) => UNCHANGED <<role, disabled, offboarded>>
  BY DEF Rollback, data
<1>1. CASE Grant(w) \/ Revoke(w) \/ ReadHeld(w) \/ Replace(w)
  BY <1>1, <1>c, DirectoryStutter DEF Grant, Revoke, ReadHeld, Replace, data
<1>2. ASSUME m \in Members, a \in Members, StillAdmin(a), m # a, UNCHANGED offboarded,
             Admins' \in {Admins \cup {m}, Admins \ {m}}
      PROVE  Directory!Next
  BY <1>2 DEF Directory!Next, Directory!Administer, StillAdmin, Admins
<1>3. CASE SetRole(w)
  <2>1. m \in Members /\ a \in Members /\ StillAdmin(a) /\ m # a
    BY <1>3, <1>b DEF SetRole, Serves, AdminOps
  <2>2. CASE Rollback(w)
    BY <2>2, <1>c, DirectoryStutter
  <2>3. CASE ~Rollback(w)
    <3>1. role' = [role EXCEPT ![m] = task[w].role] /\ UNCHANGED <<disabled, offboarded>>
      BY <1>3, <2>3 DEF SetRole
    <3>2. role'[m] = task[w].role /\ \A n \in Members : n # m => role'[n] = role[n]
      BY <1>0, <2>1, <3>1 DEF TypeOK
    <3>3. Admins' \in {Admins \cup {m}, Admins \ {m}}
      BY <2>1, <3>1, <3>2 DEF Admins
    <3>. QED BY <1>2, <2>1, <3>1, <3>3
  <2>. QED BY <2>2, <2>3
<1>4. CASE Invite(w)
  <2>1. m \in Members /\ a \in Members /\ StillAdmin(a)
    BY <1>4, <1>b DEF Invite, Serves, AdminOps
  <2>2. CASE Rollback(w)
    BY <2>2, <1>c, DirectoryStutter
  <2>3. CASE ~Rollback(w)
    <3>1. ~Member(m) /\ role' = [role EXCEPT ![m] = task[w].role] /\ UNCHANGED <<disabled, offboarded>>
      BY <1>4, <2>3 DEF Invite
    <3>2. role'[m] = task[w].role /\ \A n \in Members : n # m => role'[n] = role[n]
      BY <1>0, <2>1, <3>1 DEF TypeOK
    <3>3. Admins' \in {Admins \cup {m}, Admins \ {m}}
      BY <2>1, <3>1, <3>2 DEF Admins
    <3>4. "super_admin" # None
      BY DEF AccessAssumption
    <3>5. m # a
      BY <2>1, <3>1, <3>4 DEF Member, StillAdmin
    <3>. QED BY <1>2, <2>1, <3>1, <3>3, <3>5
  <2>. QED BY <2>2, <2>3
<1>5. CASE Disable(w)
  <2>1. m \in Members /\ a \in Members /\ StillAdmin(a) /\ m # a
    BY <1>5, <1>b DEF Disable, Serves, AdminOps
  <2>2. CASE Rollback(w)
    BY <2>2, <1>c, DirectoryStutter
  <2>3. CASE ~Rollback(w)
    <3>1. disabled' = disabled \cup {m} /\ UNCHANGED <<role, offboarded>>
      BY <1>5, <2>3 DEF Disable
    <3>2. Admins' = Admins \ {m}
      BY <3>1 DEF Admins
    <3>. QED BY <1>2, <2>1, <3>1, <3>2
  <2>. QED BY <2>2, <2>3
<1>6. CASE Enable(w)
  <2>1. m \in Members /\ a \in Members /\ StillAdmin(a)
    BY <1>6, <1>b DEF Enable, Serves, AdminOps
  <2>2. CASE Rollback(w)
    BY <2>2, <1>c, DirectoryStutter
  <2>3. CASE ~Rollback(w)
    <3>1. m \in disabled /\ disabled' = disabled \ {m} /\ UNCHANGED <<role, offboarded>>
      BY <1>6, <2>3 DEF Enable
    <3>2. m # a
      BY <3>1, <2>1 DEF StillAdmin
    <3>3. Admins' \in {Admins \cup {m}, Admins \ {m}}
      BY <2>1, <3>1 DEF Admins
    <3>. QED BY <1>2, <2>1, <3>1, <3>2, <3>3
  <2>. QED BY <2>2, <2>3
<1>7. CASE Provision(w)
  <2>1. m \in Members /\ ~offboarded
    BY <1>7, <1>b DEF Provision, Serves
  <2>2. CASE Rollback(w)
    BY <2>2, <1>c, DirectoryStutter
  <2>3. CASE ~Rollback(w)
    <3>1. ~Member(m) /\ role' = [role EXCEPT ![m] = "super_admin"] /\ UNCHANGED <<disabled, offboarded>>
      BY <1>7, <2>3 DEF Provision
    <3>2. role'[m] = "super_admin" /\ \A n \in Members : n # m => role'[n] = role[n]
      BY <1>0, <2>1, <3>1 DEF TypeOK
    <3>3. m \notin disabled
      BY <1>0, <3>1 DEF TypeOK, Member
    <3>4. Admins' = Admins \cup {m}
      BY <2>1, <3>1, <3>2, <3>3 DEF Admins
    <3>. QED BY <2>1, <3>1, <3>4 DEF Directory!Next, Directory!Provision
  <2>. QED BY <2>2, <2>3
<1>8. CASE Offboard(w)
  <2>1. offboarded' = TRUE /\ disabled' = disabled \cup EnabledMembers /\ UNCHANGED role
    BY <1>8 DEF Offboard
  <2>2. Admins' = {}
    BY <2>1, <1>0 DEF Admins, EnabledMembers, Member, TypeOK, AccessAssumption
  <2>3. CASE offboarded
    <3>1. Admins = {}
      BY <2>3 DEF Access, OffboardedIsEmpty, Admins, Member, AccessAssumption
    <3>. QED BY <2>1, <2>2, <2>3, <3>1 
  <2>4. CASE ~offboarded
    BY <2>1, <2>2, <2>4 DEF Directory!Next, Directory!Close
  <2>. QED BY <2>3, <2>4
<1>. QED BY <1>1, <1>3, <1>4, <1>5, <1>6, <1>7, <1>8 DEF Serve

(* The service, with its locks, interleavings and stale reads, changes the *)
(* administrators only as the directory says.                              *)
THEOREM AccessImplementsDirectory == ASSUME AccessAssumption PROVE Spec => ImplementsDirectory
<1>1. Init => Directory!Init
  <2>1. SUFFICES ASSUME Init PROVE Directory!Init
    OBVIOUS
  <2>2. PICK first \in Members : role = [m \in Members |-> IF m = first THEN "super_admin" ELSE None]
    BY <2>1 DEF Init
  <2>3. first \in Admins /\ Admins \subseteq Members
    BY <2>1, <2>2 DEF Admins, Init
  <2>4. offboarded = FALSE
    BY <2>1 DEF Init
  <2>5. Admins \in (SUBSET Members) \ {{}}
    BY <2>3
  <2>. QED BY <2>4, <2>5 DEF Directory!Init
<1>2. Access /\ [Next]_vars => [Directory!Next]_<<Admins, offboarded>>
  <2>1. SUFFICES ASSUME Access, [Next]_vars PROVE [Directory!Next]_<<Admins, offboarded>>
    OBVIOUS
  <2>2. CASE UNCHANGED vars
    BY <2>2, DirectoryStutter DEF vars, data
  <2>3. ASSUME NEW w \in Workers, Admit(w) \/ Command(w) \/ Enter(w) \/ Refused(w)
        PROVE  [Directory!Next]_<<Admins, offboarded>>
    BY <2>3, DirectoryStutter DEF Admit, Command, Enter, Refused, data
  <2>4. ASSUME NEW w \in Workers, Serve(w) PROVE [Directory!Next]_<<Admins, offboarded>>
    BY <2>1, <2>4, DirectoryServe
  <2>5. ASSUME NEW s \in Subsidiaries, DeleteSubsidiary(s) PROVE [Directory!Next]_<<Admins, offboarded>>
    BY <2>5, DirectoryStutter DEF DeleteSubsidiary
  <2>. QED BY <2>1, <2>2, <2>3, <2>4, <2>5 DEF Next
<1>. QED BY <1>1, <1>2, AccessInvariant, PTL DEF Spec, ImplementsDirectory, Directory!Spec

-----------------------------------------------------------------------------
(* CompanyStructure, for any number of administrators, sites, settings and *)
(* records.                                                                *)

(* The rows: sites and settings hang off the company, records and what a   *)
(* version names hang off both, and no row returns.                        *)
RowTypes ==
    /\ present \subseteq Sites \cup Settings \cup {Company}
    /\ tracking \in {"company", "location"}
    /\ records \in [Records -> [status : {"none", "open", "review", "committed", "gone"},
                                site : Sites \cup {Whole, NoOne}]]
    /\ version \in {"none", "open", "frozen"} /\ named \subseteq Sites \cup {Company}
    /\ gone \subseteq Sites \cup Settings \cup Records \cup {Company} /\ audited \subseteq gone
Rooted ==
    /\ Company \in gone => ~Standing
    /\ ~Standing => present = {}
    /\ named # {} => Company \in named
RowsHold == RowTypes /\ Rooted /\ NothingDangles /\ NothingUnaudited

(* What one administrator's request rests on: a delete past its lock holds *)
(* it, or finds the company gone; under the lock no setting appears once   *)
(* none was counted; what can never go was there and stays.                *)
Deleting(a) == ops[a].kind = "company" /\ ops[a].stage # "idle"
StaysCounted(counts) ==
    /\ "terminal" \in counts => Filed("committed") # {}
    /\ "frozen" \in counts => version = "frozen" /\ Company \in named
Sound(a) ==
    /\ Deleting(a) => /\ ops[a].stage \in Tiers \cup {"loaded", "counted"}
                      /\ Company \in present \cup gone
    /\ Deleting(a) /\ ops[a].stage # "loaded" => locker = a \/ ~Standing
    /\ locker = a => Deleting(a) /\ ops[a].stage # "loaded"
    /\ locker = a /\ ops[a].stage \in {"frozen", "declared", "counted"} =>
         "settings" \in ops[a].counts \/ present \cap Settings = {}
    /\ StaysCounted(ops[a].counts)
    /\ ops[a].answer = "stays" =>
         Filed("committed") # {} \/ (version = "frozen" /\ Company \in named)

(* The inductive invariant.                                                *)
CompanyInv ==
    /\ RowsHold
    /\ ops \in [Administrators -> CompanyRequests]
    /\ locker \in Administrators \cup {NoOne}
    /\ \A a \in Administrators : Sound(a)

(* What every step leaves: committed records, frozen names, deleted rows;  *)
(* and settings appear only while nobody holds the company's row.          *)
Lasting ==
    /\ Filed("committed") \subseteq Filed("committed")'
    /\ version = "frozen" => version' = "frozen" /\ named' = named
    /\ gone \subseteq gone'
    /\ Company \in present => Company \in present' \cup gone'
    /\ locker # NoOne => present' \cap Settings \subseteq present \cap Settings

(* A request that does not move stays sound.                               *)
LEMMA SoundKept ==
    ASSUME Lasting, Rooted', NEW a \in Administrators, Sound(a),
           ops'[a] = ops[a], locker' = a <=> locker = a, NoOne # a
    PROVE  Sound(a)'
<1>1. Deleting(a)' <=> Deleting(a)
  BY DEF Deleting
<1>2. Company \in present \cup gone => Company \in present' \cup gone'
  BY DEF Lasting
<1>3. Company \in present \cup gone /\ ~Standing => ~Standing'
  BY DEF Lasting, Rooted, Standing
<1>4. StaysCounted(ops[a].counts) => StaysCounted(ops[a].counts)'
  BY DEF Lasting, StaysCounted
<1>5. ops[a].answer = "stays" =>
        Filed("committed")' # {} \/ (version' = "frozen" /\ Company \in named')
  BY DEF Lasting, Sound
<1>6. locker = a /\ present \cap Settings = {} => present' \cap Settings = {}
  BY DEF Lasting
<1>. QED BY <1>1, <1>2, <1>3, <1>4, <1>5, <1>6 DEF Sound

(* A step that moves no request but a's.                                   *)
LEMMA OneMovesOn ==
    ASSUME CompanyAssumption, CompanyInv, Lasting, RowsHold', NEW a \in Administrators,
           NEW q \in CompanyRequests, ops' = [ops EXCEPT ![a] = q],
           locker' \in {locker, NoOne, a}, locker' # locker => locker \in {a, NoOne},
           Sound(a)'
    PROVE  CompanyInv'
<1>1. ops' \in [Administrators -> CompanyRequests] /\ locker' \in Administrators \cup {NoOne}
  BY DEF CompanyInv
<1>2. ASSUME NEW b \in Administrators PROVE Sound(b)'
  <2>1. CASE b = a
    BY <2>1
  <2>2. CASE b # a
    <3>1. ops'[b] = ops[b]
      BY <2>2 DEF CompanyInv
    <3>2. locker' = b <=> locker = b
      BY <2>2 DEF CompanyAssumption
    <3>3. NoOne # b
      BY DEF CompanyAssumption
    <3>. QED BY <3>1, <3>2, <3>3, SoundKept DEF CompanyInv, RowsHold
  <2>. QED BY <2>1, <2>2
<1>. QED BY <1>1, <1>2 DEF CompanyInv

(* A step that moves none.                                                 *)
LEMMA NoneMoves ==
    ASSUME CompanyAssumption, CompanyInv, Lasting, RowsHold', UNCHANGED <<ops, locker>>
    PROVE  CompanyInv'
<1>1. ASSUME NEW b \in Administrators PROVE Sound(b)'
  <2>1. NoOne # b
    BY DEF CompanyAssumption
  <2>. QED BY <2>1, SoundKept DEF CompanyInv, RowsHold
<1>. QED BY <1>1 DEF CompanyInv

(* The rows stay as they are.                                              *)
SameRows ==
    UNCHANGED <<present, records, version, named, gone, audited>> /\ tracking' \in {tracking, "location"}
LEMMA SameRowsHold == ASSUME RowsHold, SameRows PROVE RowsHold' /\ Lasting
<1>1. RowTypes' /\ Rooted'
  BY DEF SameRows, RowsHold, RowTypes, Rooted, Standing
<1>2. NothingDangles' /\ NothingUnaudited'
  BY DEF SameRows, RowsHold, NothingDangles, NothingUnaudited, Live, Standing
<1>3. Lasting
  BY DEF SameRows, Lasting, Filed
<1>. QED BY <1>1, <1>2, <1>3 DEF RowsHold

(* New rows appear under a company that stands.                            *)
LEMMA RowsAppear ==
    ASSUME CompanyAssumption, RowsHold, UNCHANGED <<records, version, named, gone, audited>>,
           NEW added, added \subseteq Fresh(Sites \cup Settings \cup {Company}),
           present' = present \cup added, Standing', tracking' \in {"company", "location"},
           locker = NoOne \/ added \cap Settings = {}
    PROVE  RowsHold' /\ Lasting
<1>1. RowTypes'
  BY DEF RowsHold, RowTypes, Fresh
<1>2. Company \notin gone
  BY DEF RowsHold, Rooted, Standing, Fresh
<1>3. Rooted'
  BY <1>2 DEF RowsHold, Rooted
<1>4. NothingDangles' /\ NothingUnaudited'
  BY DEF RowsHold, NothingDangles, NothingUnaudited, Live
<1>5. Lasting
  BY DEF Lasting, Filed
<1>. QED BY <1>1, <1>3, <1>4, <1>5 DEF RowsHold

(* A site or a setting goes that nothing is held by.                       *)
LEMMA RowGoes ==
    ASSUME CompanyAssumption, RowsHold, UNCHANGED <<tracking, records, version, named>>,
           NEW x \in present \cap (Sites \cup Settings),
           present' = present \ {x}, gone' = gone \cup {x}, audited' = audited \cup {x},
           x \in Sites => AtSite(x) = {} /\ x \notin named
    PROVE  RowsHold' /\ Lasting
<1>1. x # Company
  BY DEF CompanyAssumption
<1>2. RowTypes'
  BY DEF RowsHold, RowTypes
<1>3. Standing' <=> Standing
  BY <1>1 DEF Standing
<1>4. Rooted'
  BY <1>1, <1>3 DEF RowsHold, Rooted
<1>5. Live' = Live
  BY DEF Live
<1>6. x \notin named
  BY DEF CompanyAssumption, RowsHold, RowTypes
<1>7. ASSUME NEW r \in Live PROVE Standing' /\ records'[r].site \in present' \cup {Whole}
  <2>1. r \in Records /\ records[r].site \in Sites \cup {Whole, NoOne}
    BY <1>7 DEF Live, RowsHold, RowTypes
  <2>2. Standing /\ records[r].site \in present \cup {Whole}
    BY <1>7 DEF RowsHold, NothingDangles
  <2>3. CASE records[r].site = x
    <3>1. x \notin Sites
      BY <1>7, <2>3 DEF AtSite
    <3>. QED BY <2>1, <2>3, <3>1 DEF CompanyAssumption
  <2>. QED BY <1>3, <2>2, <2>3
<1>8. NothingDangles' /\ NothingUnaudited'
  BY <1>5, <1>6, <1>7 DEF RowsHold, NothingDangles, NothingUnaudited
<1>9. Lasting
  BY <1>1 DEF Lasting, Filed
<1>. QED BY <1>2, <1>4, <1>8, <1>9 DEF RowsHold

(* Records and the boundary move while the places stay.                    *)
LEMMA ContentsMove ==
    ASSUME CompanyAssumption, RowsHold, Standing, UNCHANGED <<present, tracking, audited, gone>>,
           RowTypes', named' \subseteq present, named' # {} => Company \in named',
           \A r \in Live' : records'[r].site \in present \cup {Whole},
           Filed("committed") \subseteq Filed("committed")',
           version = "frozen" => version' = "frozen" /\ named' = named
    PROVE  RowsHold' /\ Lasting
<1>1. Rooted'
  BY DEF RowsHold, Rooted, Standing
<1>2. NothingDangles' /\ NothingUnaudited'
  BY DEF RowsHold, NothingDangles, NothingUnaudited, Standing
<1>3. Lasting
  BY DEF Lasting
<1>. QED BY <1>1, <1>2, <1>3 DEF RowsHold

(* Everyone but the administrators' requests.                              *)
OthersStep ==
    \/ \E sites \in SUBSET Sites, by \in {"company", "location"} : CreateCompany(sites, by)
    \/ \E s \in Sites : CreateSite(s)
    \/ \E x \in Settings : AddSetting(x) \/ RemoveSetting(x)
    \/ \E r \in Records :
         \/ Review(r) \/ RemoveRecord(r)
         \/ \E s \in Places : File(r, s) \/ MoveRecord(r, s)
    \/ \E x \in Sites \cup {Company} : Declare(x) \/ Undeclare(x)
    \/ Freeze

LEMMA OthersKeepRows ==
    ASSUME CompanyAssumption, RowsHold, OthersStep
    PROVE  RowsHold' /\ Lasting
<1>1. ASSUME NEW sites \in SUBSET Sites, NEW by \in {"company", "location"}, CreateCompany(sites, by)
      PROVE  RowsHold' /\ Lasting
  <2>1. present = {}
    BY <1>1 DEF CreateCompany, Fresh, RowsHold, Rooted, Standing
  <2>2. /\ {Company} \cup sites \subseteq Fresh(Sites \cup Settings \cup {Company})
        /\ ({Company} \cup sites) \cap Settings = {}
    BY <1>1 DEF CreateCompany, Fresh, CompanyAssumption
  <2>3. present' = present \cup ({Company} \cup sites) /\ Standing' /\ tracking' = by
    BY <1>1, <2>1 DEF CreateCompany, Standing
  <2>. QED BY <1>1, <2>2, <2>3, RowsAppear DEF CreateCompany
<1>2. ASSUME NEW s \in Sites, CreateSite(s) PROVE RowsHold' /\ Lasting
  <2>1. {s} \subseteq Fresh(Sites \cup Settings \cup {Company}) /\ present' = present \cup {s} /\ Standing'
    BY <1>2 DEF CreateSite, MayInsert, Fresh, Standing
  <2>2. locker = NoOne /\ tracking' \in {"company", "location"}
    BY <1>2 DEF CreateSite, MayInsert, RowsHold, RowTypes
  <2>. QED BY <1>2, <2>1, <2>2, RowsAppear DEF CreateSite
<1>3. ASSUME NEW x \in Settings, AddSetting(x) PROVE RowsHold' /\ Lasting
  <2>1. {x} \subseteq Fresh(Sites \cup Settings \cup {Company}) /\ present' = present \cup {x} /\ Standing'
    BY <1>3 DEF AddSetting, MayInsert, Fresh, Standing
  <2>2. locker = NoOne /\ tracking' \in {"company", "location"}
    BY <1>3 DEF AddSetting, MayInsert, RowsHold, RowTypes
  <2>. QED BY <1>3, <2>1, <2>2, RowsAppear DEF AddSetting
<1>4. ASSUME NEW x \in Settings, RemoveSetting(x) PROVE RowsHold' /\ Lasting
  <2>1. x \notin Sites
    BY DEF CompanyAssumption
  <2>. QED BY <1>4, <2>1, RowGoes DEF RemoveSetting
<1>5. ASSUME NEW r \in Records, Review(r) PROVE RowsHold' /\ Lasting
  <2>1. PICK step \in {<<"open", "review">>, <<"review", "open">>, <<"review", "committed">>} :
          records[r].status = step[1] /\ records' = [records EXCEPT ![r].status = step[2]]
    BY <1>5 DEF Review
  <2>2. /\ records'[r].status = step[2] /\ records'[r].site = records[r].site
        /\ \A o \in Records \ {r} : records'[o] = records[o]
        /\ step[1] \in {"open", "review"} /\ step[2] \in {"open", "review", "committed"}
    BY <2>1 DEF RowsHold, RowTypes
  <2>3. Live' = Live /\ r \in Live
    BY <2>1, <2>2 DEF Live
  <2>4. Filed("committed") \subseteq Filed("committed")'
    BY <2>1, <2>2 DEF Filed
  <2>5. RowTypes'
    BY <1>5, <2>1, <2>2 DEF Review, RowsHold, RowTypes
  <2>6. \A o \in Live' : records'[o].site \in present \cup {Whole}
    BY <2>2, <2>3 DEF RowsHold, NothingDangles, Live
  <2>. QED BY <1>5, <2>3, <2>4, <2>5, <2>6, ContentsMove DEF Review, RowsHold, NothingDangles, Rooted
<1>6. ASSUME NEW r \in Records, RemoveRecord(r) PROVE RowsHold' /\ Lasting
  <2>1. /\ records'[r] = [status |-> "gone", site |-> NoOne]
        /\ \A o \in Records \ {r} : records'[o] = records[o]
        /\ records[r].status = "open"
    BY <1>6 DEF RemoveRecord, RowsHold, RowTypes
  <2>2. Live' \subseteq Live /\ r \in Live /\ r \notin Live'
    BY <2>1 DEF Live
  <2>3. Filed("committed") \subseteq Filed("committed")'
    BY <2>1 DEF Filed
  <2>4. RowTypes'
    BY <1>6, <2>1 DEF RemoveRecord, RowsHold, RowTypes
  <2>5. Rooted'
    BY <1>6 DEF RemoveRecord, RowsHold, Rooted, Standing, CompanyAssumption
  <2>6. NothingDangles'
    BY <1>6, <2>1, <2>2 DEF RemoveRecord, RowsHold, NothingDangles, Live, Standing
  <2>7. NothingUnaudited'
    BY <1>6 DEF RemoveRecord, RowsHold, NothingUnaudited
  <2>8. Lasting
    BY <1>6, <2>3 DEF RemoveRecord, Lasting
  <2>. QED BY <2>4, <2>5, <2>6, <2>7, <2>8 DEF RowsHold
<1>7. ASSUME NEW r \in Records, NEW s \in Places, File(r, s) PROVE RowsHold' /\ Lasting
  <2>1. /\ records'[r] = [status |-> "open", site |-> s]
        /\ \A o \in Records \ {r} : records'[o] = records[o]
        /\ records[r].status = "none" /\ Standing
    BY <1>7 DEF File, RowsHold, RowTypes, NoRecord, MayInsert
  <2>2. s \in (present \cap Sites) \cup {Whole}
    BY DEF Places
  <2>3. Filed("committed") \subseteq Filed("committed")'
    BY <2>1 DEF Filed
  <2>4. RowTypes'
    BY <1>7, <2>1, <2>2 DEF File, RowsHold, RowTypes
  <2>5. \A o \in Live' : records'[o].site \in present \cup {Whole}
    BY <2>1, <2>2 DEF Live, RowsHold, NothingDangles
  <2>. QED BY <1>7, <2>1, <2>3, <2>4, <2>5, ContentsMove DEF File, RowsHold, NothingDangles, Rooted
<1>8. ASSUME NEW r \in Records, NEW s \in Places, MoveRecord(r, s) PROVE RowsHold' /\ Lasting
  <2>1. /\ records'[r].status = "open" /\ records'[r].site = s
        /\ \A o \in Records \ {r} : records'[o] = records[o]
        /\ records[r].status = "open"
    BY <1>8 DEF MoveRecord, RowsHold, RowTypes
  <2>2. s \in (present \cap Sites) \cup {Whole} /\ r \in Live
    BY <2>1 DEF Places, Live
  <2>3. Filed("committed") \subseteq Filed("committed")'
    BY <2>1 DEF Filed
  <2>4. RowTypes'
    BY <1>8, <2>1, <2>2 DEF MoveRecord, RowsHold, RowTypes
  <2>5. \A o \in Live' : records'[o].site \in present \cup {Whole}
    BY <2>1, <2>2 DEF Live, RowsHold, NothingDangles
  <2>. QED BY <1>8, <2>2, <2>3, <2>4, <2>5, ContentsMove DEF MoveRecord, RowsHold, NothingDangles, Rooted
<1>9. ASSUME NEW x \in Sites \cup {Company}, Declare(x) PROVE RowsHold' /\ Lasting
  <2>1. x \in present /\ Standing /\ (x = Company \/ Company \in named)
    BY <1>9 DEF Declare, MayInsert, Standing, RowsHold, NothingDangles
  <2>2. RowTypes'
    BY <1>9 DEF Declare, RowsHold, RowTypes
  <2>3. named' \subseteq present /\ Company \in named'
    BY <1>9, <2>1 DEF Declare, RowsHold, NothingDangles
  <2>4. version # "frozen" /\ Live' = Live /\ records' = records
    BY <1>9 DEF Declare, Live
  <2>5. Filed("committed") \subseteq Filed("committed")'
    BY <2>4 DEF Filed
  <2>. QED BY <1>9, <2>1, <2>2, <2>3, <2>4, <2>5, ContentsMove DEF Declare, RowsHold, NothingDangles
<1>10. ASSUME NEW x \in Sites \cup {Company}, Undeclare(x) PROVE RowsHold' /\ Lasting
  <2>1. Standing
    BY <1>10 DEF Undeclare, Standing, RowsHold, NothingDangles, Rooted
  <2>2. RowTypes'
    BY <1>10 DEF Undeclare, RowsHold, RowTypes
  <2>3. named' \subseteq present /\ (named' # {} => Company \in named')
    BY <1>10 DEF Undeclare, RowsHold, NothingDangles, Rooted
  <2>4. version # "frozen" /\ Live' = Live /\ records' = records
    BY <1>10 DEF Undeclare, Live
  <2>5. Filed("committed") \subseteq Filed("committed")'
    BY <2>4 DEF Filed
  <2>. QED BY <1>10, <2>1, <2>2, <2>3, <2>4, <2>5, ContentsMove DEF Undeclare, RowsHold, NothingDangles
<1>11. CASE Freeze
  <2>1. RowTypes'
    BY <1>11 DEF Freeze, RowsHold, RowTypes
  <2>2. Rooted'
    BY <1>11 DEF Freeze, RowsHold, Rooted, Standing
  <2>3. NothingDangles' /\ NothingUnaudited'
    BY <1>11 DEF Freeze, RowsHold, NothingDangles, NothingUnaudited, Live, Standing
  <2>4. Lasting
    BY <1>11 DEF Freeze, Lasting, Filed
  <2>. QED BY <2>1, <2>2, <2>3, <2>4 DEF RowsHold
<1>. QED BY <1>1, <1>2, <1>3, <1>4, <1>5, <1>6, <1>7, <1>8, <1>9, <1>10, <1>11 DEF OthersStep

(* A request that ends without holding the row any more is sound, whatever *)
(* it answers but "stays".                                                 *)
LEMMA EndedSound ==
    ASSUME CompanyInv, NEW a \in Administrators, locker' # a,
           NEW reply, Ends(a, reply),
           reply = "stays" => Filed("committed")' # {} \/ (version' = "frozen" /\ Company \in named')
    PROVE  Sound(a)'
<1>1. ops'[a] = RequestAt(ops[a].kind, "idle", NoOne, {}, reply)
  BY DEF Ends, CompanyInv
<1>. QED BY <1>1 DEF Sound, RequestAt, Deleting, StaysCounted

LEMMA EndedRequest ==
    ASSUME CompanyInv, NEW a \in Administrators, NEW reply \in Replies
    PROVE  RequestAt(ops[a].kind, "idle", NoOne, {}, reply) \in CompanyRequests
<1>1. ops[a].kind \in {"none", "tracking", "company", "site"}
  BY DEF CompanyInv, CompanyRequests
<1>. QED BY <1>1 DEF RequestAt, CompanyRequests, Replies

LEMMA GoneOnRequest ==
    ASSUME CompanyInv, NEW a \in Administrators,
           NEW stage \in Tiers \cup {"idle", "loaded", "checked", "free", "recount", "counted"}
    PROVE  RequestAt(ops[a].kind, stage, ops[a].site, ops[a].counts, ops[a].answer) \in CompanyRequests
<1>1. ops[a] \in CompanyRequests
  BY DEF CompanyInv
<1>. QED BY <1>1 DEF RequestAt, CompanyRequests

(* A request that is no delete of the company goes on.                     *)
LEMMA GoesOnSound ==
    ASSUME CompanyInv, SameRows, NEW a \in Administrators, locker' = locker,
           ops[a].kind # "company", NEW stage, Goes(a, stage)
    PROVE  Sound(a)'
<1>1. ops'[a] = RequestAt(ops[a].kind, stage, ops[a].site, ops[a].counts, ops[a].answer)
  BY DEF Goes, CompanyInv
<1>2. ops'[a].kind = ops[a].kind /\ ops'[a].counts = ops[a].counts /\ ops'[a].answer = ops[a].answer
  BY <1>1 DEF RequestAt
<1>3. locker # a
  BY DEF CompanyInv, Sound, Deleting
<1>4. Filed("committed")' = Filed("committed")
  BY DEF SameRows, Filed
<1>5. Sound(a)
  BY DEF CompanyInv
<1>6. ~Deleting(a)' /\ locker' # a
  BY <1>2, <1>3 DEF Deleting
<1>7. StaysCounted(ops[a].counts)'
  BY <1>2, <1>4, <1>5 DEF Sound, StaysCounted, SameRows
<1>8. ops'[a].answer = "stays" =>
        Filed("committed")' # {} \/ (version' = "frozen" /\ Company \in named')
  BY <1>2, <1>4, <1>5 DEF Sound, SameRows
<1>. QED BY <1>6, <1>7, <1>8 DEF Sound

(* What an action that ends, or moves on, a request without touching a row *)
(* and without the lock does to the invariant.                             *)
LEMMA AsideHolds ==
    ASSUME CompanyAssumption, CompanyInv, SameRows, locker' = locker, NEW a \in Administrators,
           ops[a].kind # "company",
           \/ \E reply \in Replies \ {"stays"} : Ends(a, reply)
           \/ \E stage \in {"checked", "free", "recount"} : Goes(a, stage)
    PROVE  CompanyInv'
<1>1. RowsHold' /\ Lasting
  BY SameRowsHold DEF CompanyInv
<1>2. CASE \E reply \in Replies \ {"stays"} : Ends(a, reply)
  <2>1. PICK reply \in Replies \ {"stays"} : Ends(a, reply)
    BY <1>2
  <2>2. locker' # a
    BY DEF CompanyInv, Sound, Deleting
  <2>3. Sound(a)'
    BY <2>1, <2>2, EndedSound
  <2>4. RequestAt(ops[a].kind, "idle", NoOne, {}, reply) \in CompanyRequests
    BY EndedRequest
  <2>5. ops' = [ops EXCEPT ![a] = RequestAt(ops[a].kind, "idle", NoOne, {}, reply)]
    BY <2>1 DEF Ends
  <2>. QED BY <1>1, <2>3, <2>4, <2>5, OneMovesOn
<1>3. CASE \E stage \in {"checked", "free", "recount"} : Goes(a, stage)
  <2>1. PICK stage \in {"checked", "free", "recount"} : Goes(a, stage)
    BY <1>3
  <2>2. Sound(a)'
    BY <2>1, GoesOnSound
  <2>3. RequestAt(ops[a].kind, stage, ops[a].site, ops[a].counts, ops[a].answer) \in CompanyRequests
    BY GoneOnRequest
  <2>4. ops' = [ops EXCEPT ![a] = RequestAt(ops[a].kind, stage, ops[a].site, ops[a].counts, ops[a].answer)]
    BY <2>1 DEF Goes
  <2>. QED BY <1>1, <2>2, <2>3, <2>4, OneMovesOn
<1>. QED BY <1>2, <1>3

LEMMA StartsHolds ==
    ASSUME CompanyAssumption, CompanyInv, NEW a \in Administrators,
           NEW kind \in {"tracking", "company", "site"}, NEW site \in Sites \cup {NoOne},
           Starts(a, kind, site), kind = "site" <=> site # NoOne
    PROVE  CompanyInv'
<1>1. SameRows /\ locker' = locker
  BY DEF Starts, SameRows
<1>2. RowsHold' /\ Lasting
  BY <1>1, SameRowsHold DEF CompanyInv
<1>3. RequestAt(kind, "loaded", site, {}, "none") \in CompanyRequests
  BY DEF RequestAt, CompanyRequests, Replies
<1>4. /\ ops' = [ops EXCEPT ![a] = RequestAt(kind, "loaded", site, {}, "none")]
      /\ ops'[a] = RequestAt(kind, "loaded", site, {}, "none")
  BY DEF Starts, CompanyInv
<1>5. locker' # a
  BY <1>1 DEF Starts, CompanyInv, Sound, Deleting
<1>6. kind = "company" => Company \in present'
  BY <1>1 DEF Starts, Standing, SameRows
<1>7. Sound(a)'
  BY <1>4, <1>5, <1>6 DEF Sound, Deleting, RequestAt, StaysCounted
<1>. QED BY <1>1, <1>2, <1>3, <1>4, <1>7, OneMovesOn

LEMMA TheTiers ==
    /\ Tiers = {"terminal", "review", "open", "settings", "frozen", "declared"}
    /\ \A tier \in Tiers : After[tier] \in (Tiers \ {"terminal"}) \cup {"counted"}
    /\ \A tier \in Tiers : After[tier] \in {"frozen", "declared", "counted"} =>
                             tier \in {"settings", "frozen", "declared"}
BY DEF Tiers, After

LEMMA LocksHolds ==
    ASSUME CompanyAssumption, CompanyInv, NEW a \in Administrators, LocksCompany(a)
    PROVE  CompanyInv'
<1>1. SameRows /\ locker = NoOne /\ locker' \in {NoOne, a} /\ (Standing => locker' = a)
  BY DEF LocksCompany, SameRows
<1>2. RowsHold' /\ Lasting
  BY <1>1, SameRowsHold DEF CompanyInv
<1>3. "terminal" \in Tiers
  BY TheTiers
<1>4. RequestAt(ops[a].kind, "terminal", ops[a].site, ops[a].counts, ops[a].answer) \in CompanyRequests
  BY <1>3, GoneOnRequest
<1>5. /\ ops' = [ops EXCEPT ![a] = RequestAt(ops[a].kind, "terminal", ops[a].site, ops[a].counts, ops[a].answer)]
      /\ ops'[a] = RequestAt(ops[a].kind, "terminal", ops[a].site, ops[a].counts, ops[a].answer)
  BY DEF LocksCompany, Goes, CompanyInv
<1>6. Sound(a) /\ ops[a].kind = "company" /\ ops[a].stage = "loaded"
  BY DEF CompanyInv, LocksCompany, IsAt
<1>7. Company \in present' \cup gone' /\ Filed("committed")' = Filed("committed")
  BY <1>1, <1>6 DEF Sound, Deleting, SameRows, Filed
<1>8. locker' = a \/ ~Standing'
  BY <1>1 DEF SameRows, Standing
<1>9. StaysCounted(ops[a].counts)'
  BY <1>1, <1>5, <1>6, <1>7 DEF Sound, StaysCounted, SameRows, RequestAt
<1>10. ops'[a].answer = "stays" =>
        Filed("committed")' # {} \/ (version' = "frozen" /\ Company \in named')
  BY <1>1, <1>5, <1>6, <1>7 DEF Sound, SameRows, RequestAt
<1>11. ops'[a].kind = "company" /\ ops'[a].stage = "terminal"
  BY <1>5, <1>6 DEF RequestAt
<1>12. Sound(a)'
  BY <1>3, <1>7, <1>8, <1>9, <1>10, <1>11 DEF Sound, Deleting
<1>. QED BY <1>1, <1>2, <1>4, <1>5, <1>12, OneMovesOn

LEMMA CountsHolds ==
    ASSUME CompanyAssumption, CompanyInv, NEW a \in Administrators, NEW tier \in Tiers, Counts(a, tier)
    PROVE  CompanyInv'
<1>. DEFINE found == IF Counted(tier) = {} THEN {} ELSE {tier}
            q == RequestAt("company", After[tier], ops[a].site, ops[a].counts \cup found, ops[a].answer)
<1>1. SameRows /\ locker' = locker
  BY DEF Counts, SameRows
<1>2. RowsHold' /\ Lasting
  BY <1>1, SameRowsHold DEF CompanyInv
<1>3. q \in CompanyRequests
  <2>1. ops[a] \in CompanyRequests /\ found \subseteq Tiers
    BY DEF CompanyInv
  <2>. QED BY <2>1, TheTiers DEF CompanyRequests, RequestAt
<1>4. ops' = [ops EXCEPT ![a] = q] /\ ops'[a] = q
  BY DEF Counts, CompanyInv
<1>5. Sound(a) /\ ops[a].kind = "company" /\ ops[a].stage = tier /\ tier \notin {"idle", "loaded"}
  BY TheTiers DEF CompanyInv, Counts, IsAt
<1>6. /\ ops'[a].kind = "company" /\ ops'[a].stage = After[tier] /\ ops'[a].answer = ops[a].answer
      /\ ops'[a].counts = ops[a].counts \cup found
  BY <1>4 DEF RequestAt
<1>7. Company \in present' \cup gone' /\ Filed("committed")' = Filed("committed")
  BY <1>1, <1>5 DEF Sound, Deleting, SameRows, Filed
<1>8. locker' = a \/ ~Standing'
  BY <1>1, <1>5 DEF Sound, Deleting, SameRows, Standing
<1>9. locker' = a /\ After[tier] \in {"frozen", "declared", "counted"} =>
        "settings" \in ops[a].counts \cup found \/ present' \cap Settings = {}
  <2>1. CASE tier = "settings"
    BY <2>1, <1>1 DEF Counted, SameRows
  <2>2. CASE tier \in {"frozen", "declared"}
    BY <2>2, <1>1, <1>5 DEF Sound, SameRows
  <2>. QED BY <2>1, <2>2, TheTiers
<1>10. "terminal" \in found => Filed("committed") # {}
  BY DEF Counted
<1>11. "frozen" \in found => version = "frozen" /\ Company \in named
  BY DEF Counted
<1>12. StaysCounted(ops[a].counts)'
  BY <1>1, <1>5, <1>6, <1>7, <1>10, <1>11 DEF Sound, StaysCounted, SameRows
<1>13. ops'[a].answer = "stays" =>
        Filed("committed")' # {} \/ (version' = "frozen" /\ Company \in named')
  BY <1>1, <1>5, <1>6, <1>7 DEF Sound, SameRows
<1>14. After[tier] \in Tiers \cup {"counted"} /\ After[tier] # "loaded"
  BY TheTiers
<1>15. Sound(a)'
  <2>1. Deleting(a)' /\ ops'[a].stage # "loaded" /\ ops'[a].stage \in Tiers \cup {"loaded", "counted"}
    BY <1>6, <1>14, TheTiers DEF Deleting
  <2>2. locker' = a /\ ops'[a].stage \in {"frozen", "declared", "counted"} =>
          "settings" \in ops'[a].counts \/ present' \cap Settings = {}
    BY <1>6, <1>9
  <2>. HIDE DEF found, q
  <2>. QED BY <2>1, <2>2, <1>7, <1>8, <1>12, <1>13 DEF Sound
<1>. QED BY <1>1, <1>2, <1>3, <1>4, <1>15, OneMovesOn

(* The delete itself: under the lock no setting came after the count.      *)
LEMMA DeletesHolds ==
    ASSUME CompanyAssumption, CompanyInv, NEW a \in Administrators, DeletesCompany(a)
    PROVE  CompanyInv'
<1>1. Sound(a) /\ ops[a].kind = "company" /\ ops[a].stage = "counted"
  BY DEF CompanyInv, DeletesCompany, IsAt
<1>2. locker' # a /\ locker' \in {locker, NoOne} /\ (locker' # locker => locker = a)
  BY DEF DeletesCompany, Unlocks, CompanyAssumption
<1>3. Refusal(ops[a].counts) \in {"stays", "empty it first", "none"}
  BY DEF Refusal
<1>4. PICK reply \in Replies :
        /\ Ends(a, reply)
        /\ \/ reply # "deleted" /\ SameRows /\ (reply = "stays" => Refusal(ops[a].counts) = "stays")
           \/ /\ reply = "deleted" /\ Refusal(ops[a].counts) = "none" /\ ~CompanyHeld /\ Standing
              /\ present' = {} /\ gone' = gone \cup present
              /\ audited' = audited \cup {Company} \cup (present \cap Sites)
              /\ UNCHANGED <<tracking, records, version, named>>
  BY <1>3 DEF DeletesCompany, SameRows, Replies
<1>5. RowsHold' /\ Lasting
  <2>1. CASE SameRows
    BY <2>1, SameRowsHold DEF CompanyInv
  <2>2. CASE ~SameRows
    <3>1. /\ Refusal(ops[a].counts) = "none" /\ Live = {} /\ Company \notin named /\ Standing
          /\ present' = {} /\ gone' = gone \cup present
          /\ audited' = audited \cup {Company} \cup (present \cap Sites)
          /\ UNCHANGED <<tracking, records, version, named>>
      BY <1>4, <2>2 DEF CompanyHeld
    <3>2. locker = a /\ "settings" \notin ops[a].counts
      BY <1>1, <3>1, TheTiers DEF Sound, Deleting, Refusal
    <3>3. present \cap Settings = {}
      BY <1>1, <3>2 DEF Sound
    <3>4. named = {}
      BY <3>1 DEF CompanyInv, RowsHold, Rooted
    <3>5. RowTypes'
      BY <3>1 DEF CompanyInv, RowsHold, RowTypes, Standing
    <3>6. Rooted'
      BY <3>1, <3>4 DEF Rooted, Standing
    <3>7. NothingUnaudited'
      BY <3>1, <3>3 DEF CompanyInv, RowsHold, RowTypes, NothingUnaudited
    <3>8. NothingDangles'
      BY <3>1, <3>4 DEF NothingDangles, Live
    <3>9. Lasting
      BY <3>1 DEF Lasting, Filed, Standing
    <3>. QED BY <3>5, <3>6, <3>7, <3>8, <3>9 DEF RowsHold
  <2>. QED BY <2>1, <2>2
<1>6. reply = "stays" => Filed("committed")' # {} \/ (version' = "frozen" /\ Company \in named')
  <2>1. SUFFICES ASSUME reply = "stays"
                 PROVE  Filed("committed")' # {} \/ (version' = "frozen" /\ Company \in named')
    OBVIOUS
  <2>2. SameRows /\ Refusal(ops[a].counts) = "stays"
    BY <1>4, <2>1
  <2>3. "terminal" \in ops[a].counts \/ "frozen" \in ops[a].counts
    BY <2>2 DEF Refusal
  <2>. QED BY <1>1, <2>2, <2>3 DEF Sound, StaysCounted, SameRows, Filed
<1>7. Sound(a)'
  BY <1>2, <1>4, <1>6, EndedSound
<1>8. RequestAt(ops[a].kind, "idle", NoOne, {}, reply) \in CompanyRequests
  BY EndedRequest
<1>9. ops' = [ops EXCEPT ![a] = RequestAt(ops[a].kind, "idle", NoOne, {}, reply)]
  BY <1>4 DEF Ends
<1>. QED BY <1>2, <1>5, <1>7, <1>8, <1>9, OneMovesOn

LEMMA SiteDeletesHolds ==
    ASSUME CompanyAssumption, CompanyInv, NEW a \in Administrators, DeletesSite(a)
    PROVE  CompanyInv'
<1>1. ops[a].kind = "site" /\ locker' = locker
  BY DEF DeletesSite, IsAt
<1>2. CASE SameRows /\ (Goes(a, "recount") \/ \E reply \in {"error", "declared"} : Ends(a, reply))
  BY <1>1, <1>2, AsideHolds DEF Replies
<1>3. CASE LET site == ops[a].site
           IN  /\ site \in present /\ ~SiteHeld(site)
               /\ present' = present \ {site} /\ gone' = gone \cup {site}
               /\ audited' = audited \cup {site}
               /\ UNCHANGED <<tracking, records, version, named>>
               /\ Ends(a, "deleted")
  <2>1. ops[a].site \in Sites
    BY <1>3 DEF CompanyInv, CompanyRequests, RowsHold, RowTypes, CompanyAssumption
  <2>2. RowsHold' /\ Lasting
    BY <1>3, <2>1, RowGoes DEF CompanyInv, SiteHeld
  <2>3. locker' # a
    BY <1>1 DEF CompanyInv, Sound, Deleting
  <2>4. Sound(a)'
    BY <1>3, <2>3, EndedSound
  <2>5. RequestAt(ops[a].kind, "idle", NoOne, {}, "deleted") \in CompanyRequests
    BY EndedRequest DEF Replies
  <2>6. ops' = [ops EXCEPT ![a] = RequestAt(ops[a].kind, "idle", NoOne, {}, "deleted")]
    BY <1>3 DEF Ends
  <2>. QED BY <1>1, <2>2, <2>4, <2>5, <2>6, OneMovesOn
<1>. QED BY <1>1, <1>2, <1>3 DEF DeletesSite, SameRows

LEMMA CompanyBegins == ASSUME CompanyAssumption, CompanyInit PROVE CompanyInv
<1>1. RowTypes
  BY DEF CompanyInit, RowTypes, NoRecord
<1>2. Live = {}
  BY DEF CompanyInit, Live, NoRecord
<1>3. RowsHold
  BY <1>1, <1>2 DEF CompanyInit, RowsHold, Rooted, Standing, NothingDangles, NothingUnaudited
<1>4. RequestAt("none", "idle", NoOne, {}, "none") \in CompanyRequests
  BY DEF RequestAt, CompanyRequests, Replies
<1>5. ASSUME NEW a \in Administrators PROVE Sound(a)
  <2>1. ops[a] = RequestAt("none", "idle", NoOne, {}, "none") /\ locker # a
    BY DEF CompanyInit, CompanyAssumption
  <2>. QED BY <2>1 DEF Sound, RequestAt, Deleting, StaysCounted
<1>. QED BY <1>3, <1>4, <1>5 DEF CompanyInit, CompanyInv

LEMMA CompanySteps ==
    ASSUME CompanyAssumption, CompanyInv, [CompanyNext]_structureVars
    PROVE  CompanyInv'
<1>1. CASE UNCHANGED structureVars
  <2>1. SameRows /\ UNCHANGED <<ops, locker>>
    BY <1>1 DEF structureVars, SameRows
  <2>. QED BY <2>1, SameRowsHold, NoneMoves DEF CompanyInv
<1>2. CASE OthersStep
  <2>1. UNCHANGED <<ops, locker>>
    BY <1>2 DEF OthersStep, CreateCompany, CreateSite, AddSetting, RemoveSetting, Review,
                RemoveRecord, File, MoveRecord, Declare, Undeclare, Freeze
  <2>. QED BY <1>2, <2>1, OthersKeepRows, NoneMoves DEF CompanyInv
<1>3. ASSUME NEW a \in Administrators,
             Starts(a, "tracking", NoOne) \/ Starts(a, "company", NoOne) \/ \E s \in Sites : Starts(a, "site", s)
      PROVE  CompanyInv'
  <2>1. NoOne \notin Sites
    BY DEF CompanyAssumption
  <2>. QED BY <1>3, <2>1, StartsHolds
<1>4. ASSUME NEW a \in Administrators, ChecksTracking(a) PROVE CompanyInv'
  BY <1>4, AsideHolds DEF ChecksTracking, IsAt, SameRows, Replies
<1>5. ASSUME NEW a \in Administrators, SetsTracking(a) PROVE CompanyInv'
  BY <1>5, AsideHolds DEF SetsTracking, IsAt, SameRows, Replies
<1>6. ASSUME NEW a \in Administrators, ChecksRecords(a) PROVE CompanyInv'
  BY <1>6, AsideHolds DEF ChecksRecords, IsAt, SameRows, Replies
<1>7. ASSUME NEW a \in Administrators, ChecksDeclared(a) PROVE CompanyInv'
  BY <1>7, AsideHolds DEF ChecksDeclared, IsAt, SameRows, Replies
<1>8. ASSUME NEW a \in Administrators, Recounts(a) PROVE CompanyInv'
  BY <1>8, AsideHolds DEF Recounts, IsAt, SameRows, Replies
<1>. QED BY <1>1, <1>2, <1>3, <1>4, <1>5, <1>6, <1>7, <1>8, LocksHolds, CountsHolds, DeletesHolds,
            SiteDeletesHolds DEF CompanyNext, Step, OthersStep

(* The inductive invariant holds of every behaviour.                       *)
THEOREM CompanyInvariant == CompanySpec => []CompanyInv
<1>1. CompanyInit => CompanyInv
  BY CompanyBegins, CompanyAssumption
<1>2. CompanyInv /\ [CompanyNext]_structureVars => CompanyInv'
  BY CompanySteps, CompanyAssumption
<1>. QED BY <1>1, <1>2, PTL DEF CompanySpec

(* Every variable keeps its type, and who holds the row is deleting.       *)
THEOREM CompanyTypeCorrect == CompanySpec => []CompanyTypeOK
<1>1. CompanyInv => CompanyTypeOK
  <2>1. SUFFICES ASSUME CompanyInv PROVE CompanyTypeOK
    OBVIOUS
  <2>2. locker # NoOne => IsAt(locker, "company", ops[locker].stage) /\ ops[locker].stage # "idle"
    BY <2>1 DEF CompanyInv, Sound, Deleting, IsAt
  <2>. QED BY <2>1, <2>2 DEF CompanyInv, RowsHold, RowTypes, CompanyTypeOK
<1>. QED BY <1>1, CompanyInvariant, PTL

(* Whatever administrators, members and reviewers do beside each other,    *)
(* nothing the company held is deleted without an audit row of its own:    *)
(* the settings its delete would take along were counted under the lock    *)
(* that keeps new ones out (SubsidiariesService.remove).                   *)
THEOREM NothingUnauditedHolds == CompanySpec => []NothingUnaudited
<1>1. CompanyInv => NothingUnaudited
  BY DEF CompanyInv, RowsHold
<1>. QED BY <1>1, CompanyInvariant, PTL

(* The site a record names, and what a version names, is there for as long *)
(* as they name it (the database's keys, and the deletes that ask first).  *)
THEOREM NothingDanglesHolds == CompanySpec => []NothingDangles
<1>1. CompanyInv => NothingDangles
  BY DEF CompanyInv, RowsHold
<1>. QED BY <1>1, CompanyInvariant, PTL

(* Who is told that the company stays is told so of a committed record or  *)
(* a frozen naming, and neither ever goes (describeBlockers).              *)
THEOREM StaysForGoodHolds == CompanySpec => []StaysForGood
<1>1. CompanyInv => StaysForGood
  BY DEF CompanyInv, Sound, StaysForGood
<1>. QED BY <1>1, CompanyInvariant, PTL
=============================================================================
