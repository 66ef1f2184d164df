---------------------------- MODULE InventoryBoundary ----------------------------
(***************************************************************************)
(* The versions of one reporting year's inventory boundary: drafts edited  *)
(* one subsidiary at a time, their confirmation, the capture that freezes  *)
(* a version and retains a dataset of it, and the deletes of the           *)
(* subsidiaries and sites a version may declare.                           *)
(*                                                                         *)
(* Every write is a READ COMMITTED transaction that locks its version's    *)
(* header first; a statement is a step, and what a transaction writes      *)
(* shows when it commits.  The triggers of the tables (TA014, TA016) are   *)
(* asked at the write; the service has checked all they hold, so a refusal *)
(* of theirs is a defect.  A transaction may end at any step without       *)
(* effect: its timeout, a failed call, the process's end.                  *)
(*                                                                         *)
(* A version's rows of one subsidiary are one declaration, of which the    *)
(* model knows whether it leaves a boundary gap and whether it declares    *)
(* the subsidiary's site.                                                  *)
(***************************************************************************)
EXTENDS NoValue, Integers, FiniteSets

CONSTANTS
    Workers,     \* requests served at one time, over all replicas
    Subs,        \* subsidiaries; each has one site
    Declarations,
    Complete,    \* the declarations without a boundary gap
    Sited,       \* the declarations of a subsidiary together with its site
    MaxVersions, \* bound on the versions ever created
    MaxRenames   \* bound on the renames of a subsidiary

ASSUME BoundaryAssumption ==
    /\ Complete \subseteq Declarations
    /\ Sited \subseteq Declarations
    /\ None \notin Declarations
    /\ None \notin Subs
    /\ None \notin Nat
    /\ MaxVersions \in Nat
    /\ MaxRenames \in Nat

Ids == 1..MaxVersions

VARIABLES
    ver,       \* ver[i]: the i-th version created
    subs,      \* the subsidiaries that exist
    sites,     \* those whose site exists
    name,      \* name[s]: how often s was renamed
    trail,     \* trail[i][s]: the declaration the audit rows of i end with
    replays,   \* every audited "before" was the "after" before it
    datasets,  \* datasets[i]: the contents retained of i
    defect,    \* a trigger refused what the service had checked
    job        \* job[w]: the request w serves

world == <<subs, sites, name>>
store == <<ver, trail, replays, datasets, defect>>
vars == <<ver, subs, sites, name, trail, replays, datasets, defect, job>>

NoRows == [s \in Subs |-> None]
NoVersion == [at |-> "free", num |-> 0, rows |-> NoRows, names |-> NoRows]
NoJob == [op |-> "none", at |-> "idle", v |-> None, s |-> None, d |-> None,
          rows |-> NoRows, names |-> NoRows, num |-> 0]

Init ==
    /\ ver = [i \in Ids |-> NoVersion]
    /\ subs = Subs
    /\ sites = Subs
    /\ name = [s \in Subs |-> 0]
    /\ trail = [i \in Ids |-> NoRows]
    /\ replays = TRUE
    /\ datasets = [i \in Ids |-> {}]
    /\ defect = FALSE
    /\ job = [w \in Workers |-> NoJob]

-----------------------------------------------------------------------------
(* Versions and locks.                                                     *)

Existing == {i \in Ids : ver[i].at \in {"open", "captured", "confirmed"}}
Frozen == {i \in Ids : ver[i].at \in {"captured", "confirmed"}}
DeclaredIn(rows) == {s \in Subs : rows[s] # None}

Versions(s) == {i \in Existing : ver[i].rows[s] # None}
SiteVersions(s) == {i \in Existing : ver[i].rows[s] \in Sited}

(* The transactions that hold the header of v FOR UPDATE, and the copies   *)
(* that hold it FOR SHARE.                                                 *)
Writes(j) == j.op \in {"put", "confirm", "remove", "freeze"}
Writing(v) == {w \in Workers : Writes(job[w]) /\ job[w].v = v}
Copying(v) == {w \in Workers : job[w].op = "create" /\ job[w].v = v}

(* Mutant: a write reads its version without locking the header.           *)
Unlocked(v) == TRUE
HeaderFree(v) == Writing(v) = {} /\ Copying(v) = {}
HeaderReadable(v) == Writing(v) = {}

(* Until it commits, an inserted row holds a key-share lock on the         *)
(* subsidiary and the site it names; a delete excludes it.                 *)
Inserted(j) == j.op \in {"put", "create"} /\ j.at = "commit"
RowOf(j, s) == IF j.op = "create" THEN j.rows[s] ELSE IF j.s = s THEN j.d ELSE None
NamesSub(s) == {w \in Workers : Inserted(job[w]) /\ RowOf(job[w], s) # None}
NamesSite(s) == {w \in Workers : Inserted(job[w]) /\ RowOf(job[w], s) \in Sited}
LeavingSub(s) == {w \in Workers : job[w].op = "leave" /\ job[w].s = s}
ClosingSite(s) == {w \in Workers : job[w].op = "close" /\ job[w].s = s /\ job[w].at # "lock"}

ParentsUnlocked(s, d) ==
    d # None => LeavingSub(s) = {} /\ (d \in Sited => ClosingSite(s) = {})
ParentsExist(s, d) ==
    d # None => s \in subs /\ (d \in Sited => s \in sites)

Doing(w, op, at) == job[w].op = op /\ job[w].at = at
Set(w, j) == job' = [job EXCEPT ![w] = j]
Finish(w) == Set(w, NoJob)
(* The request goes on at its next statement, or is refused.               *)
Proceed(w, ok, j) == Set(w, IF ok THEN j ELSE NoJob)

On(op, at, v) == [op |-> op, at |-> at, v |-> v, s |-> None, d |-> None,
                  rows |-> NoRows, names |-> NoRows, num |-> 0]

-----------------------------------------------------------------------------
(* One subsidiary's declaration put into an open version, or taken out.    *)

Declaring(at, v, s, d, rows) ==
    [op |-> "put", at |-> at, v |-> v, s |-> s, d |-> d, rows |-> rows, names |-> NoRows, num |-> 0]

Declare(w) ==
    /\ job[w] = NoJob
    /\ \E v \in Ids, s \in Subs, d \in Declarations \cup {None} :
         /\ HeaderFree(v)
         /\ ver[v].at = "open"
         /\ Set(w, Declaring("read", v, s, d, NoRows))
    /\ UNCHANGED <<world, store>>

ReadDeclaration(w) ==
    /\ Doing(w, "put", "read")
    /\ LET v == job[w].v
           s == job[w].s
           d == job[w].d
       IN Proceed(w, IF d = None THEN ver[v].rows[s] # None ELSE ParentsExist(s, d),
                  Declaring("write", v, s, d, ver[v].rows))
    /\ UNCHANGED <<world, store>>

WriteDeclaration(w) ==
    /\ Doing(w, "put", "write")
    /\ ParentsUnlocked(job[w].s, job[w].d)
    /\ Proceed(w, ParentsExist(job[w].s, job[w].d),
               Declaring("commit", job[w].v, job[w].s, job[w].d, job[w].rows))
    /\ UNCHANGED <<world, store>>

CommitDeclaration(w) ==
    /\ Doing(w, "put", "commit")
    /\ LET v == job[w].v
           s == job[w].s
           old == ver[v]
       IN IF v \in Frozen
          THEN defect' = TRUE /\ UNCHANGED <<ver, trail, replays>>
          ELSE /\ ver' = [ver EXCEPT ![v] =
                    [at |-> old.at, num |-> old.num,
                     rows |-> [old.rows EXCEPT ![s] = job[w].d], names |-> old.names]]
               /\ trail' = [trail EXCEPT ![v] = [trail[v] EXCEPT ![s] = job[w].d]]
               /\ replays' = (replays /\ job[w].rows[s] = trail[v][s])
               /\ UNCHANGED defect
    /\ Finish(w)
    /\ UNCHANGED <<world, datasets>>

-----------------------------------------------------------------------------
(* A new version, empty or a copy; a draft's deletion.                     *)

Creating(at, v, rows, num) ==
    [op |-> "create", at |-> at, v |-> v, s |-> None, d |-> None,
     rows |-> rows, names |-> NoRows, num |-> num]

Unused == {i \in Ids : ver[i].at = "free"}

(* The header is in the store when its transaction commits; the row it     *)
(* takes is the next unused one.                                           *)
Create(w) ==
    /\ job[w] = NoJob
    /\ Cardinality(Unused) > Cardinality({x \in Workers : job[x].op = "create"})
    /\ \/ Set(w, Creating("newest", None, NoRows, 0))
       \/ \E v \in Existing :
            /\ HeaderReadable(v)
            /\ Set(w, Creating("newest", v, ver[v].rows, 0))
    /\ UNCHANGED <<world, store>>

NewestOf(S) == {i \in S : \A k \in S : ver[k].num <= ver[i].num}

MayBeFollowed(i) == i \in Frozen

NumberVersion(w) ==
    /\ Doing(w, "create", "newest")
    /\ \/ /\ Existing = {}
          /\ Set(w, Creating("insert", job[w].v, job[w].rows, 1))
       \/ \E i \in NewestOf(Existing) :
            Proceed(w, MayBeFollowed(i), Creating("insert", job[w].v, job[w].rows, ver[i].num + 1))
    /\ UNCHANGED <<world, store>>

(* The key (year, number) decides between two creates: the second waits    *)
(* for the first to commit.                                                *)
(* Mutant: the key is left out.                                            *)
NeverTaken(n) == FALSE
NumberTaken(n) == \E i \in Existing : ver[i].num = n
BeingInserted(n) == \E x \in Workers : Doing(x, "create", "commit") /\ job[x].num = n

(* A key of a copied row is never missing: its source declares the parent. *)
InsertVersion(w) ==
    /\ Doing(w, "create", "insert")
    /\ ~BeingInserted(job[w].num)
    /\ \A s \in Subs : ParentsUnlocked(s, job[w].rows[s])
    /\ LET parents == \A s \in Subs : ParentsExist(s, job[w].rows[s])
       IN /\ Proceed(w, ~NumberTaken(job[w].num) /\ parents,
                     Creating("commit", job[w].v, job[w].rows, job[w].num))
          /\ defect' = (defect \/ (~NumberTaken(job[w].num) /\ ~parents))
    /\ UNCHANGED <<world, ver, trail, replays, datasets>>

CommitVersion(w) ==
    /\ Doing(w, "create", "commit")
    /\ \E i \in Unused :
         /\ \A k \in Unused : i <= k
         /\ ver' = [ver EXCEPT ![i] =
              [at |-> "open", num |-> job[w].num, rows |-> job[w].rows, names |-> NoRows]]
         /\ trail' = [trail EXCEPT ![i] = IF job[w].v = None THEN NoRows ELSE trail[job[w].v]]
    /\ Finish(w)
    /\ UNCHANGED <<world, replays, datasets, defect>>

Remove(w) ==
    /\ job[w] = NoJob
    /\ \E v \in Ids :
         /\ HeaderFree(v)
         /\ ver[v].at = "open"
         /\ Set(w, On("remove", "commit", v))
    /\ UNCHANGED <<world, store>>

Gone == [at |-> "gone", num |-> 0, rows |-> NoRows, names |-> NoRows]

CommitRemove(w) ==
    /\ Doing(w, "remove", "commit")
    /\ IF job[w].v \in Frozen
       THEN defect' = TRUE /\ UNCHANGED <<ver, trail>>
       ELSE /\ ver' = [ver EXCEPT ![job[w].v] = Gone]
            /\ trail' = [trail EXCEPT ![job[w].v] = NoRows]
            /\ UNCHANGED defect
    /\ Finish(w)
    /\ UNCHANGED <<world, replays, datasets>>

-----------------------------------------------------------------------------
(* A version frozen: by its confirmation, or by the first transaction of a *)
(* capture.                                                                *)

Confirm(w) ==
    /\ job[w] = NoJob
    /\ \E v \in Ids :
         /\ HeaderFree(v)
         /\ ver[v].at = "open"
         /\ Set(w, On("confirm", "check", v))
    /\ UNCHANGED <<world, store>>

WithoutGaps(rows) ==
    DeclaredIn(rows) # {} /\ \A s \in DeclaredIn(rows) : rows[s] \in Complete

CheckGaps(w) ==
    /\ Doing(w, "confirm", "check")
    /\ Proceed(w, WithoutGaps(ver[job[w].v].rows), On("confirm", "commit", job[w].v))
    /\ UNCHANGED <<world, store>>

(* The names the version is reported with, copied by the trigger.          *)
NamesNow(rows) == [s \in Subs |-> IF rows[s] = None THEN None ELSE name[s]]

Freeze(w, at) ==
    IF job[w].v \in Frozen
    THEN defect' = TRUE /\ UNCHANGED ver
    ELSE /\ ver' = [ver EXCEPT ![job[w].v] =
              [at |-> at, num |-> ver[job[w].v].num, rows |-> ver[job[w].v].rows,
               names |-> NamesNow(ver[job[w].v].rows)]]
         /\ UNCHANGED defect

CommitConfirm(w) ==
    /\ Doing(w, "confirm", "commit")
    /\ Freeze(w, "confirmed")
    /\ Finish(w)
    /\ UNCHANGED <<world, trail, replays, datasets>>

(* A capture of a frozen version has nothing to freeze.  Between its two   *)
(* transactions it holds no lock, and may fail: the version stays frozen,  *)
(* unconfirmed and without a dataset, for a retry to capture.              *)
Capture(w) ==
    /\ job[w] = NoJob
    /\ \E v \in Existing :
         /\ HeaderFree(v)
         /\ DeclaredIn(ver[v].rows) # {}
         /\ Set(w, IF ver[v].at = "open" THEN On("freeze", "commit", v) ELSE On("retain", "read", v))
    /\ UNCHANGED <<world, store>>

CommitFreeze(w) ==
    /\ Doing(w, "freeze", "commit")
    /\ Freeze(w, "captured")
    /\ Set(w, On("retain", "read", job[w].v))
    /\ UNCHANGED <<world, trail, replays, datasets>>

(* The names of a version: its frozen copies, or live while it is open.    *)
NamesOf(v) == IF v \in Frozen THEN ver[v].names ELSE NamesNow(ver[v].rows)

ReadSnapshot(w) ==
    /\ Doing(w, "retain", "read")
    /\ LET v == job[w].v
       IN /\ Proceed(w, v \in Frozen,
                     [op |-> "retain", at |-> "commit", v |-> v, s |-> None, d |-> ver[v].at,
                      rows |-> ver[v].rows, names |-> NamesOf(v), num |-> 0])
          /\ defect' = (defect \/ v \notin Frozen)
    /\ UNCHANGED <<world, ver, trail, replays, datasets>>

(* TA016: a dataset is of a frozen version and agrees with it as stored.   *)
Agrees(w) ==
    LET v == job[w].v
    IN v \in Frozen /\ job[w].d = ver[v].at /\ DeclaredIn(job[w].rows) = DeclaredIn(ver[v].rows)

Retain(w) ==
    /\ Doing(w, "retain", "commit")
    /\ IF Agrees(w)
       THEN /\ datasets' = [datasets EXCEPT ![job[w].v] = @ \cup
                  {[at |-> job[w].d, rows |-> job[w].rows, names |-> job[w].names]}]
            /\ UNCHANGED defect
       ELSE defect' = TRUE /\ UNCHANGED datasets
    /\ Finish(w)
    /\ UNCHANGED <<world, ver, trail, replays>>

-----------------------------------------------------------------------------
(* The deletes of the rows a version may declare, and a rename.            *)

Parent(op, at, s) ==
    [op |-> op, at |-> at, v |-> None, s |-> s, d |-> None, rows |-> NoRows, names |-> NoRows, num |-> 0]

(* SubsidiariesService.remove locks its row before it counts.              *)
SubLockable(s) == NamesSub(s) = {} /\ LeavingSub(s) = {}

LeaveSub(w) ==
    /\ job[w] = NoJob
    /\ \E s \in subs : SubLockable(s) /\ Set(w, Parent("leave", "count", s))
    /\ UNCHANGED <<world, store>>

CountVersions(w) ==
    /\ Doing(w, "leave", "count")
    /\ Proceed(w, Versions(job[w].s) = {}, Parent("leave", "commit", job[w].s))
    /\ UNCHANGED <<world, store>>

(* Its site goes with it, and so would the rows of a version: TA014.       *)
CommitLeave(w) ==
    /\ Doing(w, "leave", "commit")
    /\ ClosingSite(job[w].s) = {}
    /\ IF Versions(job[w].s) = {}
       THEN /\ subs' = subs \ {job[w].s}
            /\ sites' = sites \ {job[w].s}
            /\ UNCHANGED defect
       ELSE defect' = TRUE /\ UNCHANGED <<subs, sites>>
    /\ Finish(w)
    /\ UNCHANGED <<name, ver, trail, replays, datasets>>

(* LocationsService.remove counts before its transaction.                  *)
CloseSite(w) ==
    /\ job[w] = NoJob
    /\ \E s \in sites : SiteVersions(s) = {} /\ Set(w, Parent("close", "lock", s))
    /\ UNCHANGED <<world, store>>

(* Mutant: the delete does not wait for the rows that name the site.       *)
NoRowsNameIt(s) == TRUE
SiteLockable(s) == NamesSite(s) = {} /\ ClosingSite(s) = {}

LockSite(w) ==
    /\ Doing(w, "close", "lock")
    /\ SiteLockable(job[w].s)
    /\ Proceed(w, job[w].s \in sites, Parent("close", "cascade", job[w].s))
    /\ UNCHANGED <<world, store>>

(* A row of a version reached by the cascade is refused, once its header   *)
(* could be read: the 409 of the count.                                    *)
Reached(s) == SiteVersions(s)

Cascade(w) ==
    /\ Doing(w, "close", "cascade")
    /\ \A v \in Reached(job[w].s) : HeaderReadable(v)
    /\ Proceed(w, Reached(job[w].s) = {}, Parent("close", "commit", job[w].s))
    /\ UNCHANGED <<world, store>>

CommitClose(w) ==
    /\ Doing(w, "close", "commit")
    /\ sites' = sites \ {job[w].s}
    /\ Finish(w)
    /\ UNCHANGED <<subs, name, store>>

Rename(s) ==
    /\ s \in subs
    /\ LeavingSub(s) = {}
    /\ name[s] < MaxRenames
    /\ name' = [name EXCEPT ![s] = @ + 1]
    /\ UNCHANGED <<subs, sites, store, job>>

-----------------------------------------------------------------------------
(* A transaction that ends without effect; the database ends one of two    *)
(* that wait for each other (P2034, answered as a lost race).              *)

Abort(w) ==
    /\ job[w] # NoJob
    /\ Finish(w)
    /\ UNCHANGED <<world, store>>

(* A put waits for a site's delete, whose cascade waits for its header.    *)
Crossed(p, c) ==
    /\ Doing(p, "put", "write") /\ job[p].d \in Sited
    /\ Doing(c, "close", "cascade") /\ job[c].s = job[p].s
    /\ job[p].v \in Reached(job[c].s)

InDeadlock(w) == \E x \in Workers : Crossed(w, x) \/ Crossed(x, w)

BreakDeadlock(w) ==
    /\ InDeadlock(w)
    /\ Finish(w)
    /\ UNCHANGED <<world, store>>

Begins(w) ==
    \/ Declare(w) \/ Create(w) \/ Remove(w) \/ Confirm(w) \/ Capture(w)
    \/ LeaveSub(w) \/ CloseSite(w)

Goes(w) ==
    \/ ReadDeclaration(w) \/ WriteDeclaration(w) \/ CommitDeclaration(w)
    \/ NumberVersion(w) \/ InsertVersion(w) \/ CommitVersion(w)
    \/ CommitRemove(w)
    \/ CheckGaps(w) \/ CommitConfirm(w)
    \/ CommitFreeze(w) \/ ReadSnapshot(w) \/ Retain(w)
    \/ CountVersions(w) \/ CommitLeave(w)
    \/ LockSite(w) \/ Cascade(w) \/ CommitClose(w)
    \/ BreakDeadlock(w)

Next ==
    \/ \E w \in Workers : Begins(w) \/ Goes(w) \/ Abort(w)
    \/ \E s \in Subs : Rename(s)

Spec == Init /\ [][Next]_vars

(* A transaction that can take its next statement does, and one that waits *)
(* for a row is not passed over for ever: the waiters of a row are queued. *)
(* Nobody is sure to start a transaction, and none is sure to fail.        *)
Fairness == \A w \in Workers : SF_vars(Goes(w))
FairSpec == Spec /\ Fairness

-----------------------------------------------------------------------------
(* Properties.                                                             *)

Rows == [Subs -> Declarations \cup {None}]
NameRows == [Subs -> (0..MaxRenames) \cup {None}]
States == {"free", "open", "captured", "confirmed", "gone"}
VersionRecords == [at : States, num : Nat, rows : Rows, names : NameRows]
Jobs == [op : {"none", "put", "create", "remove", "confirm", "freeze", "retain", "leave", "close"},
         at : {"idle", "read", "write", "commit", "newest", "insert", "check", "count", "lock", "cascade"},
         v : Ids \cup {None}, s : Subs \cup {None},
         d : Declarations \cup {None, "captured", "confirmed"},
         rows : Rows, names : NameRows, num : Nat]

TypeOK ==
    /\ ver \in [Ids -> VersionRecords]
    /\ subs \subseteq Subs
    /\ sites \subseteq subs
    /\ name \in [Subs -> 0..MaxRenames]
    /\ trail \in [Ids -> Rows]
    /\ replays \in BOOLEAN
    /\ datasets \in [Ids -> SUBSET [at : {"captured", "confirmed"}, rows : Rows, names : NameRows]]
    /\ defect \in BOOLEAN
    /\ job \in [Workers -> Jobs]

(* No two versions of a year share a number, and every number below a      *)
(* version's is a frozen version's: only the newest may be open.  Create's *)
(* read of the newest is not locked, so two creates, or a create, a delete *)
(* and a confirmation, decide it between them (E4).                        *)
OneOpenDraft ==
    /\ \A i, k \in Existing : ver[i].num = ver[k].num => i = k
    /\ \A i \in Existing : \A n \in 1..(ver[i].num - 1) : \E k \in Frozen : ver[k].num = n

(* A frozen version declares something, every row it declares and no other *)
(* carries the name it is reported with, and a confirmed one has no gap:   *)
(* no declaration reaches it between confirm's reading of the gaps and its *)
(* freeze.                                                                 *)
FrozenIsReported ==
    \A i \in Frozen :
        /\ DeclaredIn(ver[i].rows) # {}
        /\ DeclaredIn(ver[i].names) = DeclaredIn(ver[i].rows)
        /\ ver[i].at = "confirmed" => WithoutGaps(ver[i].rows)

(* Every dataset retained of a version is the version as it stands, also   *)
(* one captured by a retry after the subsidiaries were renamed: what an    *)
(* issuance holds it to (boundaryMatchesVersion).                          *)
DatasetIsItsVersion ==
    \A i \in Ids : \A r \in datasets[i] :
        /\ i \in Frozen
        /\ r = [at |-> ver[i].at, rows |-> ver[i].rows, names |-> ver[i].names]

(* What a version declares exists: neither the subsidiary nor its site is  *)
(* deleted while a version, open or frozen, declares it (W9).              *)
DeclaredParentsLive ==
    \A s \in Subs :
        /\ Versions(s) # {} => s \in subs
        /\ SiteVersions(s) # {} => s \in sites

(* The audit rows of a version, replayed, give the version, a copy's       *)
(* starting from its source; each row's "before" is what the one before it *)
(* left.                                                                   *)
AuditReplays ==
    /\ replays
    /\ \A i \in Existing : trail[i] = ver[i].rows

(* "a TA014 that still arrives is a defect" (the service's header): none   *)
(* does, and no capture is refused as unfrozen or by TA016.                *)
NoDefect == ~defect

(* Frozen, a version never changes again.                                  *)
FrozenIsForever == [][\A i \in Frozen : ver'[i] = ver[i]]_vars

(* The year's history as BoundaryHistory has it.                           *)
Standing(i) == [num |-> ver[i].num,
                content |-> [at |-> ver[i].at, rows |-> ver[i].rows, names |-> ver[i].names]]

DraftNumber ==
    IF \E i \in Ids : ver[i].at = "open"
    THEN ver[CHOOSE i \in Ids : ver[i].at = "open"].num ELSE 0
Reported == UNION {{[num |-> ver[i].num, content |-> r] : r \in datasets[i]} : i \in Ids}

History == INSTANCE BoundaryHistory WITH
    Contents <- [at : {"captured", "confirmed"}, rows : Rows, names : NameRows],
    frozen <- {Standing(i) : i \in Frozen},
    draft <- DraftNumber,
    reports <- Reported

ImplementsHistory == History!Spec

(* Every request ends: the locks are waited for in an order that the       *)
(* database has to break only where a delete's cascade meets a put.        *)
EveryRequestEnds == \A w \in Workers : job[w] # NoJob ~> job[w] = NoJob
=============================================================================
