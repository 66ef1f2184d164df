------------------------------ MODULE MCProgress ------------------------------
(***************************************************************************)
(* Progress, for TLC: what the components promise to finish under the      *)
(* fairness each of them states.  The initial state picks the component    *)
(* that moves; the others stay as they begin.  AccountSync, whose Auth     *)
(* calls may here land after their transaction, is extended; the others    *)
(* are instances, and a variable that two of them name alike is renamed.   *)
(***************************************************************************)
EXTENDS AccountSync, Sequences, TLC

CONSTANTS
    w1, w2, m1, m2, s1, r1, r2, p1, p2, ada, bea, plant, Company, Whole,
    ann, x, Nobody, d1, en

VARIABLES scene,
    record, closed, links, files, library, audit, stage, req, held,
    role, barred, grants, living, offboarded, tenantLock, task, trail,
    present, tracking, entries, version, named, deleted, audited, ops, locker,
    caller, kind, step, lease, active, left, stopping, closing,
    queue, work, email, permits, cooling, mailings, requests, cooldowns,
    upload, bytes, row, intent, minted, sweep, asked, answer, stored, printer, issues

recordVars == <<record, closed, links, files, library, audit, stage, req, held>>
accessVars == <<role, barred, grants, living, offboarded, tenantLock, task, trail>>
companyVars == <<present, tracking, entries, version, named, deleted, audited, ops, locker>>
processVars == <<caller, kind, step, lease, active, left, stopping, closing,
                 queue, work, email, permits, cooling, mailings, requests, cooldowns>>
storeVars == <<upload, bytes, row, intent, minted, sweep>>
editionVars == <<asked, answer, stored, printer, issues>>
issueVars == <<storeVars, editionVars>>
dataVars == <<accessVars, companyVars, issueVars>>
allVars == <<scene, vars, recordVars, dataVars, processVars>>

(* An author and an administrator, over one record of one period.          *)
RoleHere == [u \in {"entry", "admin"} |-> IF u = "entry" THEN "data_entry" ELSE "super_admin"]
Draft1 == [r \in {1} |-> [status |-> "draft", period |-> 1, value |-> 0, site |-> 0,
                          figure |-> [value |-> 0, site |-> 0, library |-> 1],
                          createdBy |-> "entry", submittedBy |-> None, reviewedBy |-> None]]
Lifecycle == INSTANCE RecordLifecycle WITH
    Records <- {1}, Periods <- {1}, Files <- {1}, Users <- {"entry", "admin"}, Role <- RoleHere,
    EvidenceRequired <- {}, Values <- {0}, Sites <- {0}, MaxLibrary <- 1, InitialRecords <- {Draft1},
    Procs <- {p1, p2}, MaxUpload <- 1,
    Operations <- [p \in {p1, p2} |-> {"submit", "remove", "upload", "removeFile", "lock", "unlock"}]
Access == INSTANCE TenantAccess WITH
    Members <- {m1, m2}, Subsidiaries <- {s1}, Roles <- {"super_admin", "data_entry"},
    Ops <- {"replace", "role", "disable", "offboard"}, disabled <- barred, lock <- tenantLock
Structure == INSTANCE CompanyStructure WITH
    Sites <- {plant}, Settings <- {}, Records <- {}, Administrators <- {ada, bea}, NoOne <- None,
    records <- entries, gone <- deleted
TightLimits ==
    [n \in {"ip", "multipart", "upload", "http", "imports", "reports", "preview",
            "mutations", "mutation"} |-> IF n \in {"http", "mutations", "ip"} THEN 2 ELSE 1]
Process == INSTANCE ApiProcess WITH
    Requests <- {r1, r2}, Callers <- {ann}, Kinds <- {"read", "write", "import"},
    Limit <- TightLimits, phase <- step, gone <- left,
    Accounts <- {ann}, Strangers <- {x}, ResetWorkers <- {w1, w2}, QueueMax <- 2,
    MaxRequests <- 3, MaxCooldowns <- 0, NoAddress <- None, links <- mailings
Issuance == INSTANCE ReportIssuance WITH
    Objects <- {r1, r2}, Tidiers <- {w1}, SlowUploads <- {}, SlowRemovals <- FALSE, MaxIntents <- 1,
    Datasets <- {d1}, Editions <- {en}, Verdict <- [d \in {d1} |-> "final"], Issuers <- {r1, r2},
    Printers <- {p1}, At <- [r \in {r1, r2} |-> p1],
    stage <- upload, claim <- sweep, phase <- answer, audit <- issues

-----------------------------------------------------------------------------
(* One component moves.                                                    *)
OfSync(A) == scene = "sync" /\ A /\ UNCHANGED <<scene, recordVars, dataVars, processVars>>
OfRecords(A) == scene = "records" /\ A /\ UNCHANGED <<scene, vars, dataVars, processVars>>
OfAccess(A) ==
    scene = "access" /\ A /\ UNCHANGED <<scene, vars, recordVars, companyVars, issueVars, processVars>>
OfCompany(A) ==
    scene = "company" /\ A /\ UNCHANGED <<scene, vars, recordVars, accessVars, issueVars, processVars>>
OfIssues(A) ==
    scene = "issuance" /\ A /\ UNCHANGED <<scene, vars, recordVars, accessVars, companyVars, processVars>>
OfStorage(A) == OfIssues(A /\ UNCHANGED editionVars)
OfProcess(A) == A /\ UNCHANGED <<scene, vars, recordVars, dataVars>>
OfAdmission(A) == scene = "admission" /\ OfProcess(A)
OfResets(A) == scene = "resets" /\ OfProcess(A)
OfShutdown(A) == scene \in {"admission", "resets"} /\ OfProcess(A)

MCInit ==
    /\ scene \in {"sync", "records", "access", "company", "issuance", "admission", "resets"}
    /\ Init /\ (scene # "sync" => auth = "active")
    /\ Lifecycle!Init
    /\ Access!Init /\ role[m1] = "super_admin"
    /\ Structure!CompanyInit /\ (scene # "company" => present = {})
    /\ Process!ProcessInit /\ (scene # "admission" => \A r \in {r1, r2} : kind[r] = "read")
    /\ Issuance!IssueInit

(* AccountSync's own disjuncts, then the others.                           *)
MCNext ==
    \/ scene = "sync" /\ Next /\ UNCHANGED <<scene, recordVars, dataVars, processVars>>
    \/ OfRecords(Lifecycle!Next)
    \/ OfAccess(Access!Next)
    \/ OfCompany(Structure!CompanyNext)
    \/ OfIssues(Issuance!IssueNext)
    \/ OfAdmission(\E r \in {r1, r2} : Process!Serves(r))
    \/ OfResets(Process!Resets)
    \/ OfShutdown(Process!Stops \/ Process!Settles \/ Process!GivesUp)

MCSpec == MCInit /\ [][MCNext]_allVars

-----------------------------------------------------------------------------
(* The components' fairness.  A behaviour has one scene, so one condition  *)
(* serves an action of each.                                               *)

(* Weak: what a request, a worker or a timer does when it is its turn.     *)
GoesOn(p, w, a, r) ==
    \/ OfSync(Steps(w)) \/ OfRecords(Lifecycle!Gate(p)) \/ OfAccess(Access!Serve(w))
    \/ OfCompany(Structure!Step(a)) \/ OfIssues(Issuance!IssueStep(r))
    \/ OfAdmission(Process!Ending(r)) \/ OfResets(Process!Working(w))
Settles ==
    \/ OfRecords(Lifecycle!Sweep(p1)) \/ OfShutdown(Process!Settles)
    \/ OfStorage(Issuance!AbandonStale(r1))
Writes(p, o) == OfRecords(Lifecycle!Write(p)) \/ OfStorage(Issuance!LeaseExpires(o))

(* Strong: a lock that is free again and again is granted, the operator    *)
(* reconciles again and again, a removal is one day confirmed.             *)
Granted(p, w, a, o) ==
    \/ OfRecords(Lifecycle!TakePeriod(p)) \/ OfAccess(Access!Enter(w) \/ Access!Refused(w))
    \/ OfCompany(Structure!LocksCompany(a)) \/ OfStorage(Issuance!Claim(w1, o))
GrantedRow(p, a, A) ==
    OfRecords(Lifecycle!TakeRow(p)) \/ OfCompany(Structure!SetsTracking(a)) \/ OfStorage(A)

MCFairness ==
    /\ WF_allVars(GoesOn(p1, w1, ada, r1)) /\ WF_allVars(GoesOn(p2, w2, bea, r2))
    /\ WF_allVars(Settles)
    /\ WF_allVars(OfRecords(Lifecycle!Sweep(p2)) \/ OfStorage(Issuance!AbandonStale(r2)))
    /\ WF_allVars(Writes(p1, r1)) /\ WF_allVars(Writes(p2, r2))
    /\ WF_allVars(OfRecords(Lifecycle!Refuse(p1)) \/ OfStorage(Issuance!Release(w1)))
    /\ WF_allVars(OfRecords(Lifecycle!Refuse(p2)))
    /\ SF_allVars(Granted(p1, w1, ada, r1)) /\ SF_allVars(Granted(p2, w2, bea, r2))
    /\ SF_allVars(GrantedRow(p1, ada, Issuance!Judge(w1) /\ Issuance!Works(w1, "unowned")'))
    /\ SF_allVars(GrantedRow(p2, bea, Issuance!RemoveBytes(w1)))
    /\ SF_allVars(OfRecords(Lifecycle!TakeFile(p1)) \/ OfStorage(Issuance!CloseUnderLease(w1)))
    /\ SF_allVars(OfRecords(Lifecycle!TakeFile(p2)) \/ OfSync(\E w \in Workers : Reconcile(w)))

MCFairSpec == MCSpec /\ MCFairness

-----------------------------------------------------------------------------
(* The components' promises.  A behaviour has one scene and leaves the     *)
(* other components as they began, so one leads-to says it for all.        *)

UnderWay(p, w, a, r) ==
    \/ stage[p] # "idle" \/ task[w].phase # "idle" \/ ops[a].stage # "idle"
    \/ answer[r] \in Issuance!Working

(* Every request that is under way ends: a transition of a record or a     *)
(* period, an administrator's request about members, a delete of a site    *)
(* or a company, an issuance.                                              *)
RequestsEnd ==
    /\ UnderWay(p1, w1, ada, r1) ~> ~UnderWay(p1, w1, ada, r1)
    /\ UnderWay(p2, w2, bea, r2) ~> ~UnderWay(p2, w2, bea, r2)

Unsettled == pending \/ Issuance!HasIntent(r1) \/ queue # <<>> \/ Process!ShuttingDown
Unowned == Issuance!HasIntent(r2)

(* What faults left behind is put in order: a flagged account is brought   *)
(* in line, an intent settled, the reset queue emptied; and a shutdown     *)
(* ends, with every request under way before it.                           *)
SettlesAfterFaults == (Unsettled ~> ~Unsettled) /\ (Unowned ~> ~Unowned)
=============================================================================
