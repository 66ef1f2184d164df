--------------------------- MODULE RecordLifecycle ---------------------------
(***************************************************************************)
(* The lifecycle concurrency protocol (lifecycle-lock.ts) and every        *)
(* request that follows it: ActivityRecordsService, PeriodLocksService and *)
(* EvidenceService.  A request first reads, outside any transaction        *)
(* (Begin...); its transaction then takes the period locks, the record row *)
(* locks and the file row locks one at a time and in order (TakePeriod,    *)
(* TakeRow, TakeFile), re-reads and runs its gates (Gate), and writes and  *)
(* commits (Write...), which releases the locks.  Any of these steps of    *)
(* several requests interleave.  PostgreSQL at READ COMMITTED: a step sees *)
(* what is committed when it runs.                                         *)
(***************************************************************************)
EXTENDS InventoryLedger

CONSTANTS
    Procs,       \* requests in flight at once
    Operations,  \* Operations[p]: the endpoints the client behind p calls (bound)
    MaxUpload    \* the most records one upload names (bound)

Transitions == {"submit", "startReview", "approve", "reject", "void"}
EditOps == {"update", "remove"}
FileOps == {"upload", "detach", "removeFile"}
UnlinkOps == {"remove", "detach"}
PeriodOps == {"lock", "unlock"}
RowOps == Transitions \cup EditOps \cup FileOps
Ops == RowOps \cup PeriodOps \cup {"create"}

ASSUME LifecycleAssumption ==
    /\ Operations \in [Procs -> SUBSET Ops]
    /\ IsFiniteSet(Procs) /\ MaxUpload \in Nat

VARIABLES
    stage,  \* "idle", "locking" (read done, locks being taken), "checked" (gates
            \* passed), "swept" (the files an unlink leaves without a link found)
    req,    \* the request a process serves, with what its step-1 read saw
    held    \* the locks its transaction holds

vars == <<record, closed, links, files, library, audit, stage, req, held>>

(* What the step-1 read keeps of a row.  `stale` stands for changedSince:  *)
(* TRUE once a commit has rewritten what the request read (updatedAt).     *)
Seen(r) == [period |-> record[r].period, value |-> record[r].value, site |-> record[r].site]
SeenRows == [period: Periods, value: Values, site: Sites]

NoRequest ==
    [op |-> "none", user |-> None, records |-> {}, files |-> {}, period |-> None,
     value |-> None, site |-> None, library |-> 0,
     seen |-> [r \in Records |-> None], stale |-> FALSE, current |-> "none",
     doomed |-> {}]

Requests ==
    [op: Ops \cup {"none"}, user: Users \cup {None}, records: SUBSET Records,
     files: SUBSET Files, period: Periods \cup {None}, value: Values \cup {None},
     site: Sites \cup {None}, library: 0 .. MaxLibrary,
     seen: [Records -> SeenRows \cup {None}], stale: BOOLEAN, current: Statuses,
     doomed: SUBSET Files]

NoLocks == [shared |-> {}, exclusive |-> {}, rows |-> {}, files |-> {}]
LockSets == [shared: SUBSET Periods, exclusive: SUBSET Periods,
             rows: SUBSET Records, files: SUBSET Files]

Init ==
    /\ LedgerInit
    /\ stage = [p \in Procs |-> "idle"]
    /\ req = [p \in Procs |-> NoRequest]
    /\ held = [p \in Procs |-> NoLocks]

Only(p, r) == req[p].records = {r}

-----------------------------------------------------------------------------
(* Step 1: the read outside the transaction, and the early answers.        *)

Begin(p, op, u, rs, fs, per, v, s) ==
    /\ stage[p] = "idle"
    /\ op \in Operations[p]
    /\ stage' = [stage EXCEPT ![p] = "locking"]
    /\ req' = [req EXCEPT ![p] =
                 [op |-> op, user |-> u, records |-> rs, files |-> fs, period |-> per,
                  value |-> v, site |-> s, library |-> library,
                  seen |-> [r \in Records |-> IF r \in rs /\ Exists(r) THEN Seen(r) ELSE None],
                  stale |-> FALSE, current |-> "none", doomed |-> {}]]
    /\ UNCHANGED <<ledgerVars, held>>

BeginCreate(p) ==
    \E u \in Users, r \in Records, per \in Periods, v \in Values, s \in Sites :
        /\ MayAuthor(u)
        /\ record[r] = Unused
        /\ \A q \in Procs : r \notin req[q].records
        /\ per \notin closed
        /\ Begin(p, "create", u, {r}, {}, per, v, s)

(* A PATCH: a period to move to (or the one it has), a value and perhaps a *)
(* new site; everything is computed from the row as read here.             *)
BeginUpdate(p) ==
    \E u \in Users, r \in Records, per \in Periods, v \in Values, s \in Sites \cup {None} :
        /\ Exists(r)
        /\ MayMutate(u, r)
        /\ Open(r)
        /\ per \notin closed
        /\ Begin(p, "update", u, {r}, {}, per, v, s)

BeginRemove(p) ==
    \E u \in Users, r \in Records :
        /\ Exists(r)
        /\ MayMutate(u, r)
        /\ Open(r)
        /\ Begin(p, "remove", u, {r}, {}, None, None, None)

RoleFor(op, u) ==
    CASE op = "submit" -> MayAuthor(u)
      [] op \in {"startReview", "reject"} -> MayReview(u)
      [] OTHER -> MayApprove(u)

(* Before its transaction a transition refuses nothing but the role.       *)
BeginTransition(p) ==
    \E op \in Transitions, u \in Users, r \in Records :
        /\ Exists(r)
        /\ RoleFor(op, u)
        /\ Begin(p, op, u, {r}, {}, None, None, None)

(* The blob is already in storage when the transaction starts.             *)
BeginUpload(p) ==
    \E u \in Users, f \in Files, rs \in SUBSET Records :
        /\ rs # {} /\ Cardinality(rs) <= MaxUpload
        /\ files[f] = "none"
        /\ \A q \in Procs : f \notin req[q].files
        /\ \A r \in rs : Exists(r) /\ MayMutate(u, r) /\ Open(r)
        /\ Begin(p, "upload", u, rs, {f}, None, None, None)

BeginDetach(p) ==
    \E u \in Users, l \in links :
        /\ MayMutate(u, l[1])
        /\ Open(l[1])
        /\ Begin(p, "detach", u, {l[1]}, {l[2]}, None, None, None)

BeginRemoveFile(p) ==
    \E u \in Users, f \in Files :
        /\ MayAuthor(u)
        /\ files[f] = "stored"
        /\ \A r \in HoldersOf(f) : MayMutate(u, r) /\ Open(r)
        /\ Begin(p, "removeFile", u, HoldersOf(f), {f}, None, None, None)

BeginLock(p) ==
    \E u \in Users, per \in Periods :
        MayApprove(u) /\ Begin(p, "lock", u, {}, {}, per, None, None)

BeginUnlock(p) ==
    \E u \in Users, per \in Periods :
        /\ MayApprove(u)
        /\ per \in closed
        /\ Begin(p, "unlock", u, {}, {}, per, None, None)

BeginAny(p) ==
    \/ BeginCreate(p) \/ BeginUpdate(p) \/ BeginRemove(p) \/ BeginTransition(p)
    \/ BeginUpload(p) \/ BeginDetach(p) \/ BeginRemoveFile(p)
    \/ BeginLock(p) \/ BeginUnlock(p)

-----------------------------------------------------------------------------
(* Steps 2 and 3: the locks, each class in ascending key order.            *)

(* The periods of the rows as they were READ, and the one an edit names.   *)
PeriodsOf(q) ==
    {per \in Periods : per = q.period \/ \E r \in q.records : q.seen[r] # None /\ q.seen[r].period = per}

MissingPeriods(p) == PeriodsOf(req[p]) \ (held[p].shared \cup held[p].exclusive)

(* Mutant: a writer does not wait for a lock or unlock in progress.        *)
SharedNeverWaits(p, k) == TRUE
SharedFree(p, k) == \A q \in Procs \ {p} : k \notin held[q].exclusive
ExclusiveFree(p, k) == \A q \in Procs \ {p} : k \notin held[q].shared \cup held[q].exclusive

TakePeriod(p) ==
    /\ stage[p] = "locking"
    /\ \E k \in MissingPeriods(p) :
         /\ \A other \in MissingPeriods(p) : k <= other
         /\ \/ /\ req[p].op \in PeriodOps
               /\ ExclusiveFree(p, k)
               /\ held' = [held EXCEPT ![p].exclusive = @ \cup {k}]
            \/ /\ req[p].op \notin PeriodOps
               /\ SharedFree(p, k)
               /\ held' = [held EXCEPT ![p].shared = @ \cup {k}]
    /\ UNCHANGED <<ledgerVars, stage, req>>

(* A writer locks the rows it was asked about that still exist; a lock or  *)
(* unlock locks the rows its updateMany flips, after its count.            *)
RowsWanted(p) ==
    IF req[p].op = "lock" /\ stage[p] = "checked" THEN InPeriod(req[p].period, {"approved"})
    ELSE IF req[p].op = "unlock" /\ stage[p] = "checked" THEN InPeriod(req[p].period, {"locked"})
    ELSE IF req[p].op \in RowOps THEN {r \in req[p].records : Exists(r)}
    ELSE {}
MissingRows(p) == RowsWanted(p) \ held[p].rows

RowFree(p, r) == \A q \in Procs \ {p} : r \notin held[q].rows

(* FOR UPDATE locks rows in id order; updateMany in any order.             *)
TakeRow(p) ==
    /\ stage[p] # "idle"
    /\ MissingPeriods(p) = {}
    /\ \E r \in MissingRows(p) :
         /\ req[p].op \in PeriodOps \/ \A other \in MissingRows(p) : r <= other
         /\ RowFree(p, r)
         /\ held' = [held EXCEPT ![p].rows = @ \cup {r}]
    /\ UNCHANGED <<ledgerVars, stage, req>>

FilesWanted(p) ==
    IF \/ req[p].op = "removeFile"
       \/ req[p].op \in UnlinkOps /\ stage[p] # "locking"
    THEN {f \in req[p].files : files[f] = "stored"}
    ELSE {}
MissingFiles(p) == FilesWanted(p) \ held[p].files

(* Mutant: an unlink does not lock the files it may orphan.                *)
FileNeverWaits(p, f) == TRUE
FileFree(p, f) == \A q \in Procs \ {p} : f \notin held[q].files

(* Mutant: a delete locks its files in the order the query returned them.  *)
TakeFileUnordered(p) ==
    /\ stage[p] # "idle"
    /\ MissingPeriods(p) = {} /\ MissingRows(p) = {}
    /\ \E f \in MissingFiles(p) :
         /\ FileFree(p, f)
         /\ held' = [held EXCEPT ![p].files = @ \cup {f}]
    /\ UNCHANGED <<ledgerVars, stage, req>>

TakeFile(p) ==
    /\ stage[p] # "idle"
    /\ MissingPeriods(p) = {} /\ MissingRows(p) = {}
    /\ \E f \in MissingFiles(p) :
         /\ \A other \in MissingFiles(p) : f <= other
         /\ FileFree(p, f)
         /\ held' = [held EXCEPT ![p].files = @ \cup {f}]
    /\ UNCHANGED <<ledgerVars, stage, req>>

Locked(p) == MissingPeriods(p) = {} /\ MissingRows(p) = {} /\ MissingFiles(p) = {}

-----------------------------------------------------------------------------
(* Step 4: the gates, against the rows as locked.                          *)

(* The row is there, locked, and in the period whose lock is held.         *)
SamePeriod(p, r) ==
    /\ r \in held[p].rows
    /\ Exists(r)
    /\ req[p].seen[r] # None
    /\ record[r].period = req[p].seen[r].period

SameInputs(p, r) == Seen(r) = req[p].seen[r]

(* Mutant: an edit is written over a row that changed since it was read.   *)
UpdateGateStale(p, r) == Open(r) /\ req[p].period \notin closed

UpdateGate(p, r) ==
    /\ ~req[p].stale
    /\ Open(r)
    /\ req[p].period \notin closed

TransitionGate(p, r) ==
    LET u == req[p].user IN
    CASE req[p].op = "submit" -> MaySubmit(u, r) /\ SameInputs(p, r) /\ Fresh(r, req[p].library)
      [] req[p].op = "startReview" -> MayStartReview(u, r)
      [] req[p].op = "approve" -> MayApproveRecord(u, r) /\ SameInputs(p, r) /\ Fresh(r, req[p].library)
      [] req[p].op = "reject" -> MayReject(u, r)
      [] OTHER -> MayVoid(u, r)

RecordGate(p, r) ==
    /\ SamePeriod(p, r)
    /\ CASE req[p].op = "update" -> UpdateGate(p, r)
         [] req[p].op \in Transitions -> TransitionGate(p, r)
         [] OTHER -> MayMutate(req[p].user, r) /\ Open(r)

(* Mutant: a shared file's records are only checked before the transaction. *)
RemoveFileGateEarly(p) == \A f \in req[p].files : f \in held[p].files

(* removeFile re-reads the file's links under its lock.                    *)
RemoveFileGate(p) ==
    \A f \in req[p].files :
        /\ f \in held[p].files
        /\ \A r \in HoldersOf(f) : r \in req[p].records /\ RecordGate(p, r)

Admitted(p) ==
    CASE req[p].op = "create" -> req[p].period \notin closed
      [] req[p].op = "lock" -> InPeriod(req[p].period, LockBlocking) = {}
      [] req[p].op = "unlock" -> ~req[p].stale /\ req[p].period \in closed
      [] req[p].op = "removeFile" -> RemoveFileGate(p)
      [] OTHER -> \A r \in req[p].records : RecordGate(p, r)

(* A delete reads its file ids here, under the row lock; a transition the  *)
(* status it will name as `from`.                                          *)
Gate(p) ==
    /\ stage[p] = "locking"
    /\ Locked(p)
    /\ Admitted(p)
    /\ stage' = [stage EXCEPT ![p] = "checked"]
    /\ \E s \in Statuses :
         /\ IF req[p].op \in Transitions THEN \A r \in req[p].records : record[r].status = s
                                         ELSE s = "none"
         /\ req' = [req EXCEPT
                      ![p].current = s,
                      ![p].files = IF req[p].op = "remove"
                                     THEN UNION {FilesOf(r) : r \in req[p].records} ELSE @]
    /\ UNCHANGED <<ledgerVars, held>>

-----------------------------------------------------------------------------
(* deleteUnlinkedRows: with its own links gone and the files locked, the   *)
(* transaction reads which of them no committed link names any more.       *)
Sweep(p) ==
    /\ stage[p] = "checked"
    /\ Locked(p)
    /\ req[p].op \in UnlinkOps
    /\ stage' = [stage EXCEPT ![p] = "swept"]
    /\ \E r \in req[p].records :
         req' = [req EXCEPT ![p].doomed =
                   Unlinked(req[p].files,
                            links \ (IF req[p].op = "remove" THEN LinksOf(r)
                                                            ELSE {r} \X req[p].files))]
    /\ UNCHANGED <<ledgerVars, held>>

(* Step 5: the write, its audit row and the commit, which frees the locks. *)

(* Mutant: the period locks belong to the session, not to the transaction. *)
FinishKeepingPeriods(p, wrote, reopened) ==
    /\ stage' = [stage EXCEPT ![p] = "idle"]
    /\ held' = [held EXCEPT ![p].rows = {}, ![p].files = {}]
    /\ req' = [q \in Procs |->
                 IF q = p THEN NoRequest
                 ELSE [req[q] EXCEPT !.stale =
                         \/ @
                         \/ req[q].records \cap wrote # {}
                         \/ req[q].op = "unlock" /\ req[q].period \in reopened]]

(* `wrote` are the rows the commit rewrote, `reopened` the period whose    *)
(* period_locks row it deleted: whoever read those before is stale.        *)
Finish(p, wrote, reopened) ==
    /\ stage' = [stage EXCEPT ![p] = "idle"]
    /\ held' = [held EXCEPT ![p] = NoLocks]
    /\ req' = [q \in Procs |->
                 IF q = p THEN NoRequest
                 ELSE [req[q] EXCEPT !.stale =
                         \/ @
                         \/ req[q].records \cap wrote # {}
                         \/ req[q].op = "unlock" /\ req[q].period \in reopened]]

Ready(p, op) ==
    /\ stage[p] = IF op \in UnlinkOps THEN "swept" ELSE "checked"
    /\ Locked(p)
    /\ req[p].op = op

WriteCreate(p) ==
    \E r \in Records :
        /\ Ready(p, "create") /\ Only(p, r)
        /\ SlotFree(r, req[p].period, req[p].site)
        /\ DoCreate(req[p].user, r, req[p].period, req[p].value, req[p].site, req[p].library)
        /\ Finish(p, {r}, {})

(* The figure is the one computed from the row as read.                    *)
WriteUpdate(p) ==
    \E r \in Records :
        LET q == req[p]
            site == IF q.site = None THEN q.seen[r].site ELSE q.site IN
        /\ Ready(p, "update") /\ Only(p, r)
        /\ SlotFree(r, q.period, site)
        /\ DoUpdate(q.user, r, q.period, q.value, q.site, Figure(q.value, site, q.library))
        /\ Finish(p, {r}, {})

WriteRemove(p) ==
    \E r \in Records :
        /\ Ready(p, "remove") /\ Only(p, r)
        /\ DoRemove(req[p].user, r, req[p].doomed)
        /\ Finish(p, {r}, {})

Outcome(op) ==
    CASE op = "submit" -> "submitted"
      [] op = "startReview" -> "under_review"
      [] op = "approve" -> "approved"
      [] op = "reject" -> "rejected"
      [] OTHER -> "voided"
AuditAction(op) == IF op = "startReview" THEN "review" ELSE op

(* The expected status stays in the WHERE: a compare-and-set behind the    *)
(* lock.                                                                   *)
WriteTransition(p) ==
    \E op \in Transitions, r \in Records :
        /\ Ready(p, op) /\ Only(p, r)
        /\ record[r].status = req[p].current
        /\ DoTransition(req[p].user, r, AuditAction(op), req[p].current, Outcome(op))
        /\ Finish(p, {r}, {})

WriteUpload(p) ==
    \E f \in Files :
        /\ Ready(p, "upload") /\ req[p].files = {f}
        /\ DoUpload(req[p].user, req[p].records, f)
        /\ Finish(p, {}, {})

WriteDetach(p) ==
    \E r \in Records, f \in Files :
        /\ Ready(p, "detach") /\ Only(p, r) /\ req[p].files = {f}
        /\ <<r, f>> \in links
        /\ DoDetach(req[p].user, r, f, req[p].doomed)
        /\ Finish(p, {}, {})

WriteRemoveFile(p) ==
    \E f \in Files :
        /\ Ready(p, "removeFile") /\ req[p].files = {f}
        /\ DoRemoveFile(req[p].user, f)
        /\ Finish(p, {}, {})

(* The unique key of period_locks refuses a second lock of the period.     *)
WriteLock(p) ==
    /\ Ready(p, "lock")
    /\ req[p].period \notin closed
    /\ DoLock(req[p].user, req[p].period)
    /\ Finish(p, InPeriod(req[p].period, {"approved"}), {})

WriteUnlock(p) ==
    /\ Ready(p, "unlock")
    /\ DoUnlock(req[p].user, req[p].period)
    /\ Finish(p, InPeriod(req[p].period, {"locked"}), {req[p].period})

Write(p) ==
    \/ WriteCreate(p) \/ WriteUpdate(p) \/ WriteRemove(p) \/ WriteTransition(p)
    \/ WriteUpload(p) \/ WriteDetach(p) \/ WriteRemoveFile(p)
    \/ WriteLock(p) \/ WriteUnlock(p)

(* A refusal, the 15 s transaction timeout, a lost connection or a crash:  *)
(* the transaction rolls back and its locks go.  The other gates (anomaly  *)
(* without a variance reason, an unnamed activity type, a duplicate slot)  *)
(* refuse the same way.                                                    *)
Rollback(p) ==
    /\ stage[p] # "idle"
    /\ Finish(p, {}, {})
    /\ UNCHANGED ledgerVars

Step(p) == TakePeriod(p) \/ TakeRow(p) \/ TakeFile(p) \/ Gate(p) \/ Sweep(p) \/ Write(p)

PublishRelease == Publish /\ UNCHANGED <<stage, req, held>>

Next ==
    \/ \E p \in Procs : BeginAny(p) \/ Step(p) \/ Rollback(p)
    \/ PublishRelease

Spec == Init /\ [][Next]_vars

(* What a request waits for, and on whom: the next lock of the first class *)
(* it has not finished.                                                    *)
BlockedBy(p, q) ==
    \/ /\ stage[p] = "locking"
       /\ \E k \in MissingPeriods(p) :
            /\ \A other \in MissingPeriods(p) : k <= other
            /\ \/ k \in held[q].exclusive
               \/ req[p].op \in PeriodOps /\ k \in held[q].shared
    \/ /\ stage[p] # "idle" /\ MissingPeriods(p) = {}
       /\ \E r \in MissingRows(p) :
            /\ req[p].op \in PeriodOps \/ \A other \in MissingRows(p) : r <= other
            /\ r \in held[q].rows
    \/ /\ stage[p] # "idle" /\ MissingPeriods(p) = {} /\ MissingRows(p) = {}
       /\ \E f \in MissingFiles(p) :
            /\ \A other \in MissingFiles(p) : f <= other
            /\ f \in held[q].files

(* A refusal the request brings on itself: its locks are all held and the  *)
(* gates, or the write's own constraint, say no.                           *)
Refuse(p) ==
    /\ Locked(p)
    /\ \/ stage[p] = "locking" /\ ~Admitted(p)
       \/ stage[p] # "locking" /\ ~ENABLED (Sweep(p) \/ Write(p))
    /\ Rollback(p)

(* PostgreSQL's lock queues are first-in first-out, so a lock that is free *)
(* again and again is granted; a transaction that holds what it wants runs *)
(* on.  No fairness for Begin, nor for the timeout.                        *)
Fairness ==
    \A p \in Procs :
        /\ SF_vars(TakePeriod(p)) /\ SF_vars(TakeRow(p)) /\ SF_vars(TakeFile(p))
        /\ WF_vars(Gate(p)) /\ WF_vars(Sweep(p)) /\ WF_vars(Write(p)) /\ WF_vars(Refuse(p))

FairSpec == Spec /\ Fairness

-----------------------------------------------------------------------------
(* Properties of the protocol; the ledger's own are in InventoryLedger.    *)

(* Every variable stays in its domain: locks, requests and what they saw.  *)
TypeOK ==
    /\ LedgerTypeOK
    /\ stage \in [Procs -> {"idle", "locking", "checked", "swept"}]
    /\ req \in [Procs -> Requests]
    /\ held \in [Procs -> LockSets]

(* What a request checked stays true until it commits: once its gates have *)
(* passed, no other request's commit can take away what they rested on     *)
(* (status, author, period, evidence, figure), for the locks it holds are  *)
(* the ones every such commit needs.                                       *)
GatesHold == \A p \in Procs : stage[p] \in {"checked", "swept"} => Admitted(p)

(* No set of requests waits on itself: the fixed lock order leaves nothing *)
(* for the database's deadlock detector to break.                          *)
NoWaitCycle ==
    \A S \in SUBSET Procs :
        S # {} => \E p \in S : \A q \in S : ~BlockedBy(p, q)

(* Every request that opened a transaction ends, without needing the 15 s  *)
(* timeout to end it.                                                      *)
RequestsEnd == \A p \in Procs : stage[p] # "idle" ~> stage[p] = "idle"
=============================================================================
