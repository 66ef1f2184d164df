---------------------------- MODULE ProcessTheorems ----------------------------
(***************************************************************************)
(* For any number of requests, callers and reset workers and whatever the  *)
(* budgets: what RuntimeLimits counts is what is held, the work keeps to   *)
(* the budgets, an account is mailed one link in a cooldown, and the       *)
(* application closes by drain only when nothing is under way.             *)
(*                                                                         *)
(* And, of AccountSync, for any number of workers and whatever calls land  *)
(* late: unless a call that outlived its transaction came last, the auth   *)
(* service has settled on what the account says once the flag is clear;    *)
(* and the synchronization is the atomic one of AccountMark.               *)
(***************************************************************************)
EXTENDS ApiProcess, AccountSync, FiniteSetTheorems, TLAPS

-----------------------------------------------------------------------------
(* The inductive invariant.                                                *)

Lessees(k) == {r \in Requests : k \in lease[r]}

Counted == \A k \in Keys : active[k] = Cardinality(Lessees(k)) /\ active[k] <= Limit[k[1]]

(* What a request has collected by each phase, at most: so what it is      *)
(* about to take it does not have.  One that runs has all it needs.        *)
Collected(r) ==
    /\ phase[r] \in {"new", "done"} => lease[r] = {}
    /\ \A k \in lease[r] :
         /\ phase[r] = "ip" => k[1] = "ip"
         /\ phase[r] \in {"body", "auth", "quota"} => k[1] \in {"ip", "multipart"}
         /\ phase[r] = "receiving" => k[1] \in {"ip", "multipart", "upload"}
    /\ phase[r] = "running" => WorkPermits(r) \subseteq lease[r]

AdmissionInv ==
    /\ AdmissionTypeOK
    /\ Counted
    /\ \A r \in Requests : Collected(r)

Underway(w) == work[w] \in {"reading", "claiming", "mailing"}

(* A worker that mails holds the cooldown of its account, alone, and has   *)
(* not mailed yet.                                                         *)
Claimant(w) ==
    /\ work[w] \in {"claiming", "mailing"} => email[w] \in Accounts
    /\ work[w] = "mailing" =>
         /\ email[w] \in cooling
         /\ links[email[w]] = 0
         /\ \A v \in ResetWorkers : work[v] = "mailing" /\ email[v] = email[w] => v = w

ResetInv ==
    /\ ResetTypeOK
    /\ PermitPerWorker
    /\ \A w \in ResetWorkers : Claimant(w)
    /\ OneLinkPerCooldown

DrainInv ==
    closing = "drained" =>
        /\ stopping
        /\ \A r \in Requests : phase[r] # "running"
        /\ \A w \in ResetWorkers : ~Underway(w)

ProcessInv == LimitsTypeOK /\ AdmissionInv /\ ResetInv /\ DrainInv

-----------------------------------------------------------------------------
(* Keys and counts.                                                        *)

LEMMA KeyTypes ==
    ASSUME AdmissionTypeOK, NEW r \in Requests
    PROVE  /\ \A n \in Names : Key(n, r) \in Keys /\ Key(n, r)[1] = n
           /\ \A k \in Keys : k[1] \in Names
           /\ WorkPermits(r) \subseteq Keys
           /\ \A k \in WorkPermits(r) :
                k[1] \in {"http", "imports", "reports", "preview", "mutations", "mutation"}
<1>1. \A n \in Names : Key(n, r) \in Keys /\ Key(n, r)[1] = n
  BY DEF Key, Keys, AdmissionTypeOK, Personal, Names
<1>2. \A k \in Keys : k[1] \in Names
  BY DEF Keys, Personal, Names
<1>3. \A k \in WorkPermits(r) :
        \E n \in {"http", "imports", "reports", "preview", "mutations", "mutation"} : k = Key(n, r)
  BY DEF WorkPermits
<1>4. {"http", "imports", "reports", "preview", "mutations", "mutation"} \subseteq Names
  BY DEF Names
<1> QED BY <1>1, <1>2, <1>3, <1>4

LEMMA LesseesFinite == ASSUME NEW k PROVE IsFiniteSet(Lessees(k))
BY AdmissionAssumption, FS_Subset DEF AdmissionAssumption, Lessees

(* Taking permits not yet held, where there is room, keeps the count.      *)
LEMMA TakeCounts ==
    ASSUME AdmissionTypeOK, Counted, NEW r \in Requests, NEW K \in SUBSET Keys,
           K \cap lease[r] = {}, Available(r, K), Take(r, K)
    PROVE  active' \in [Keys -> Nat] /\ lease' \in [Requests -> SUBSET Keys] /\ Counted'
<1>1. active' \in [Keys -> Nat] /\ lease' \in [Requests -> SUBSET Keys]
  BY DEF AdmissionTypeOK, Take
<1>2. ASSUME NEW k \in Keys
      PROVE  active'[k] = Cardinality(Lessees(k)') /\ active'[k] <= Limit[k[1]]
  <2>0. /\ active[k] = Cardinality(Lessees(k)) /\ active[k] <= Limit[k[1]]
        /\ active[k] \in Nat /\ k[1] \in Names /\ Limit[k[1]] \in Nat
    BY KeyTypes, AdmissionAssumption DEF Counted, AdmissionTypeOK, AdmissionAssumption
  <2>1. CASE k \in K
    <3>1. Lessees(k)' = Lessees(k) \cup {r} /\ r \notin Lessees(k)
      BY <2>1 DEF Lessees, Take, AdmissionTypeOK
    <3>2. Cardinality(Lessees(k) \cup {r}) = Cardinality(Lessees(k)) + 1
      BY <3>1, LesseesFinite, FS_AddElement
    <3>3. active'[k] = active[k] + 1 /\ active[k] < Limit[k[1]]
      BY <2>1 DEF Take, Available
    <3> QED BY <2>0, <3>1, <3>2, <3>3
  <2>2. CASE k \notin K
    <3>1. Lessees(k)' = Lessees(k)
      BY <2>2 DEF Lessees, Take, AdmissionTypeOK
    <3>2. active'[k] = active[k]
      BY <2>2 DEF Take
    <3> QED BY <2>0, <3>1, <3>2
  <2> QED BY <2>1, <2>2
<1> QED BY <1>1, <1>2 DEF Counted

(* Releasing what is held keeps it too.                                    *)
LEMMA ReleaseCounts ==
    ASSUME AdmissionTypeOK, Counted, NEW r \in Requests, Release(r)
    PROVE  active' \in [Keys -> Nat] /\ lease' \in [Requests -> SUBSET Keys] /\ Counted'
<1>1. lease' \in [Requests -> SUBSET Keys]
  BY DEF AdmissionTypeOK, Release
<1>2. ASSUME NEW k \in Keys
      PROVE  /\ active'[k] \in Nat
             /\ active'[k] = Cardinality(Lessees(k)') /\ active'[k] <= Limit[k[1]]
  <2>0. /\ active[k] = Cardinality(Lessees(k)) /\ active[k] <= Limit[k[1]]
        /\ active[k] \in Nat /\ k[1] \in Names /\ Limit[k[1]] \in Nat
    BY KeyTypes, AdmissionAssumption DEF Counted, AdmissionTypeOK, AdmissionAssumption
  <2>1. CASE k \in lease[r]
    <3>1. Lessees(k)' = Lessees(k) \ {r} /\ r \in Lessees(k)
      BY <2>1 DEF Lessees, Release, AdmissionTypeOK
    <3>2. /\ Cardinality(Lessees(k) \ {r}) = Cardinality(Lessees(k)) - 1
          /\ Cardinality(Lessees(k) \ {r}) \in Nat
      BY <3>1, LesseesFinite, FS_RemoveElement, FS_CardinalityType
    <3>3. active'[k] = active[k] - 1
      BY <2>1 DEF Release
    <3> QED BY <2>0, <3>1, <3>2, <3>3
  <2>2. CASE k \notin lease[r]
    <3>1. Lessees(k)' = Lessees(k)
      BY <2>2 DEF Lessees, Release, AdmissionTypeOK
    <3>2. active'[k] = active[k]
      BY <2>2 DEF Release
    <3> QED BY <2>0, <3>1, <3>2
  <2> QED BY <2>1, <2>2
<1>3. active' \in [Keys -> Nat]
  BY <1>2 DEF Release
<1> QED BY <1>1, <1>2, <1>3 DEF Counted

-----------------------------------------------------------------------------
(* The requests.                                                           *)

LEMMA LeavesKeeps ==
    ASSUME AdmissionInv, NEW r \in Requests, Leaves(r)
    PROVE  AdmissionInv' /\ \A s \in Requests : phase'[s] = "running" => phase[s] = "running"
<1>1. active' \in [Keys -> Nat] /\ lease' \in [Requests -> SUBSET Keys] /\ Counted'
  BY ReleaseCounts DEF AdmissionInv, Leaves
<1>2. AdmissionTypeOK'
  BY <1>1 DEF AdmissionInv, AdmissionTypeOK, Leaves, Moves, RequestPhases, fixed
<1>3. /\ phase'[r] = "done" /\ lease'[r] = {}
      /\ \A s \in Requests \ {r} :
           phase'[s] = phase[s] /\ lease'[s] = lease[s] /\ WorkPermits(s)' = WorkPermits(s)
  BY DEF AdmissionInv, AdmissionTypeOK, Leaves, Moves, Release, fixed, WorkPermits, Key, Mutates
<1>4. \A s \in Requests : Collected(s)'
  BY <1>3 DEF AdmissionInv, Collected
<1> QED BY <1>1, <1>2, <1>3, <1>4 DEF AdmissionInv

(* A request gains permits it does not hold, and what it then holds is     *)
(* what its new phase may have.                                            *)
LEMMA GainsKeeps ==
    ASSUME AdmissionInv, NEW r \in Requests, NEW K \in SUBSET Keys, K \cap lease[r] = {},
           NEW p \in RequestPhases \ {"new", "done"}, Gains(r, K, p),
           \A k \in lease[r] \cup K :
             /\ p = "ip" => k[1] = "ip"
             /\ p \in {"body", "auth", "quota"} => k[1] \in {"ip", "multipart"}
             /\ p = "receiving" => k[1] \in {"ip", "multipart", "upload"},
           p = "running" => K = WorkPermits(r)
    PROVE  /\ AdmissionInv'
           /\ \A s \in Requests : phase'[s] = "running" => phase[s] = "running" \/ p = "running"
<1>1. CASE ~Available(r, K)
  BY <1>1, LeavesKeeps DEF Gains
<1>2. CASE Available(r, K)
  <2>0. Take(r, K) /\ Moves(r, p) /\ UNCHANGED <<fixed, gone>>
    BY <1>2 DEF Gains
  <2>1. active' \in [Keys -> Nat] /\ lease' \in [Requests -> SUBSET Keys] /\ Counted'
    BY <1>2, <2>0, TakeCounts DEF AdmissionInv
  <2>2. AdmissionTypeOK'
    BY <2>0, <2>1 DEF AdmissionInv, AdmissionTypeOK, Moves, RequestPhases, fixed
  <2>3. /\ phase'[r] = p /\ lease'[r] = lease[r] \cup K
        /\ \A s \in Requests \ {r} : phase'[s] = phase[s] /\ lease'[s] = lease[s]
        /\ \A s \in Requests : WorkPermits(s)' = WorkPermits(s)
    BY <2>0 DEF AdmissionInv, AdmissionTypeOK, Moves, Take, fixed, WorkPermits, Key, Mutates
  <2>4. Collected(r)'
    BY <2>3 DEF Collected
  <2>5. \A s \in Requests \ {r} : Collected(s)'
    BY <2>3 DEF AdmissionInv, Collected
  <2> QED BY <2>1, <2>2, <2>3, <2>4, <2>5 DEF AdmissionInv
<1> QED BY <1>1, <1>2

(* Every step of a request keeps the invariant, and none begins to run     *)
(* once the process stops.                                                 *)
LEMMA RequestKeeps ==
    ASSUME AdmissionInv, LimitsTypeOK, NEW r \in Requests, AdmissionWork(r)
    PROVE  /\ AdmissionInv'
           /\ stopping => \A s \in Requests : phase'[s] = "running" => phase[s] = "running"
<1> DEFINE Goal == /\ AdmissionInv'
                   /\ stopping => \A s \in Requests : phase'[s] = "running" => phase[s] = "running"
<1>0. AdmissionTypeOK /\ Collected(r) /\ lease[r] \subseteq Keys
  BY DEF AdmissionInv, AdmissionTypeOK
<1>1. \A n \in Names : Key(n, r) \in Keys /\ Key(n, r)[1] = n
  BY <1>0, KeyTypes
<1>2. WorkPermits(r) \subseteq Keys
  BY <1>0, KeyTypes
<1>3. \A k \in WorkPermits(r) :
        k[1] \in {"http", "imports", "reports", "preview", "mutations", "mutation"}
  BY <1>0, KeyTypes
<1>4. {"ip", "multipart", "upload"} \subseteq Names
  BY DEF Names
<1>5. CASE Leaves(r)
  BY <1>5, LeavesKeeps
<1>6. ASSUME Gains(r, WorkPermits(r), "running"), ~stopping,
             phase[r] \in {"quota", "receiving"}
      PROVE  Goal
  <2>1. WorkPermits(r) \cap lease[r] = {}
    BY <1>0, <1>3, <1>6 DEF Collected
  <2>2. "running" \in RequestPhases \ {"new", "done"}
    BY DEF RequestPhases
  <2> QED BY <1>2, <1>6, <2>1, <2>2, GainsKeeps
<1>7. ASSUME Arrive(r) PROVE Goal
  <2>1. Key("ip", r) \in Keys /\ Key("ip", r)[1] = "ip"
    BY <1>1, <1>4
  <2>2. CASE Gains(r, {Key("ip", r)}, "ip")
    <3>1. lease[r] = {}
      BY <1>0, <1>7 DEF Arrive, Collected
    <3>2. "ip" \in RequestPhases \ {"new", "done"}
      BY DEF RequestPhases
    <3> QED BY <2>1, <2>2, <3>1, <3>2, GainsKeeps
  <2> QED BY <1>5, <1>7, <2>2 DEF Arrive
<1>8. ASSUME AddressAdmitted(r) PROVE Goal
  <2> DEFINE K == IF Multipart(r) THEN {Key("multipart", r)} ELSE {}
  <2>1. Key("multipart", r) \in Keys /\ Key("multipart", r)[1] = "multipart"
    BY <1>1, <1>4
  <2>2. CASE Gains(r, K, "body")
    <3>1. \A k \in lease[r] : k[1] = "ip"
      BY <1>0, <1>8 DEF AddressAdmitted, Collected
    <3>2. "body" \in RequestPhases \ {"new", "done"}
      BY DEF RequestPhases
    <3>3. K \in SUBSET Keys /\ \A k \in K : k[1] = "multipart"
      BY <2>1
    <3>4. K \cap lease[r] = {}
      BY <3>1, <3>3
    <3> HIDE DEF K
    <3> QED BY <2>2, <3>1, <3>2, <3>3, <3>4, GainsKeeps
  <2> QED BY <1>5, <1>8, <2>2 DEF AddressAdmitted
<1>9. ASSUME ReachGuard(r) \/ (Authenticated(r) /\ r \notin gone) PROVE Goal
  <2>1. /\ phase[r] \in {"body", "auth"} /\ phase'[r] \in {"auth", "quota"}
        /\ \A s \in Requests \ {r} : phase'[s] = phase[s]
        /\ phase' \in [Requests -> RequestPhases]
        /\ UNCHANGED <<caller, kind, lease, active, gone>>
    BY <1>0, <1>9 DEF ReachGuard, Authenticated, Moves, fixed, AdmissionTypeOK, RequestPhases
  <2>2. AdmissionTypeOK' /\ Counted'
    BY <2>1 DEF AdmissionInv, AdmissionTypeOK, Counted, Lessees
  <2>3. \A s \in Requests : WorkPermits(s)' = WorkPermits(s)
    BY <2>1 DEF WorkPermits, Key, Mutates
  <2>4. \A s \in Requests : Collected(s)'
    BY <2>1, <2>3 DEF AdmissionInv, Collected
  <2> QED BY <2>1, <2>2, <2>4 DEF AdmissionInv
<1>10. ASSUME CallerAdmitted(r) PROVE Goal
  <2>0. phase[r] = "quota"
    BY <1>10 DEF CallerAdmitted
  <2>1. Key("upload", r) \in Keys /\ Key("upload", r)[1] = "upload"
    BY <1>1, <1>4
  <2>2. CASE Gains(r, {Key("upload", r)}, "receiving")
    <3>1. \A k \in lease[r] : k[1] \in {"ip", "multipart"}
      BY <1>0, <2>0 DEF Collected
    <3>2. "receiving" \in RequestPhases \ {"new", "done"}
      BY DEF RequestPhases
    <3>3. {Key("upload", r)} \cap lease[r] = {}
      BY <2>1, <3>1
    <3> QED BY <2>1, <2>2, <3>1, <3>2, <3>3, GainsKeeps
  <2> QED BY <1>5, <1>6, <1>10, <2>0, <2>2 DEF CallerAdmitted, AdmitWork
<1>11. ASSUME Received(r) PROVE Goal
  BY <1>5, <1>6, <1>11 DEF Received, AdmitWork
<1>12. ASSUME Disconnect(r) PROVE Goal
  <2>0. /\ UNCHANGED <<caller, kind, phase>> /\ gone' \subseteq Requests
        /\ \A s \in Requests : WorkPermits(s)' = WorkPermits(s)
    BY <1>0, <1>12 DEF Disconnect, fixed, WorkPermits, Key, Mutates, AdmissionTypeOK
  <2>1. CASE UNCHANGED <<lease, active>>
    <3>1. AdmissionTypeOK' /\ Counted'
      BY <2>0, <2>1 DEF AdmissionInv, AdmissionTypeOK, Counted, Lessees
    <3>2. \A s \in Requests : Collected(s)'
      BY <2>0, <2>1 DEF AdmissionInv, Collected
    <3> QED BY <2>0, <3>1, <3>2 DEF AdmissionInv
  <2>2. CASE Release(r) /\ ~Executing(r)
    <3>1. active' \in [Keys -> Nat] /\ lease' \in [Requests -> SUBSET Keys] /\ Counted'
      BY <2>2, ReleaseCounts DEF AdmissionInv
    <3>2. AdmissionTypeOK'
      BY <1>0, <2>0, <3>1 DEF AdmissionTypeOK
    <3>3. lease'[r] = {} /\ (\A s \in Requests \ {r} : lease'[s] = lease[s]) /\ phase[r] # "running"
      BY <1>0, <2>2 DEF Release, AdmissionTypeOK, Executing
    <3>4. \A s \in Requests : Collected(s)'
      BY <2>0, <3>3 DEF AdmissionInv, Collected
    <3> QED BY <2>0, <3>1, <3>2, <3>4 DEF AdmissionInv
  <2> QED BY <1>12, <2>1, <2>2 DEF Disconnect
<1> QED
  BY <1>5, <1>7, <1>8, <1>9, <1>10, <1>11, <1>12 DEF AdmissionWork, EndRequest, Authenticated
-----------------------------------------------------------------------------
(* The reset workers.                                                      *)

(* pump() starts as many workers as it takes permits for.                  *)
LEMMA PumpCounts ==
    ASSUME NEW q, NEW busy \in SUBSET (ResetWorkers),
           \A w \in busy : work[w] # "free",
           work \in [ResetWorkers -> {"free", "started", "looking", "leaving", "reading",
                                      "claiming", "mailing"}],
           Pump(q, busy, Cardinality(busy))
    PROVE  /\ work' \in [ResetWorkers -> {"free", "started", "looking", "leaving", "reading",
                                          "claiming", "mailing"}]
           /\ permits' \in Nat
           /\ PermitPerWorker'
           /\ \A w \in ResetWorkers : work'[w] \in {"free", "started"} \/ work'[w] = work[w]
<1> DEFINE started == IF q = <<>> THEN {} ELSE ResetWorkers \ busy
<1>0. IsFiniteSet(ResetWorkers) /\ IsFiniteSet(busy) /\ IsFiniteSet(started)
  BY ResetAssumption, FS_Subset, FS_EmptySet DEF ResetAssumption
<1>1. /\ work' = [w \in ResetWorkers |->
                    IF w \in started THEN "started" ELSE IF w \in busy THEN work[w] ELSE "free"]
      /\ permits' = Cardinality(busy) + Cardinality(started)
  BY DEF Pump
<1>2. Cardinality(busy) \in Nat /\ Cardinality(started) \in Nat
  BY <1>0, FS_CardinalityType
<1>3. started \subseteq ResetWorkers /\ busy \cap started = {}
  OBVIOUS
<1> HIDE DEF started
<1>4. ResetWorkers \ FreeWorkers' = busy \cup started
  BY <1>1, <1>3 DEF FreeWorkers
<1>5. Cardinality(busy \cup started) = Cardinality(busy) + Cardinality(started) - Cardinality({})
  BY <1>0, <1>3, FS_Union
<1>6. Cardinality({}) = 0
  BY FS_EmptySet
<1>7. permits' = Cardinality(ResetWorkers \ FreeWorkers')
  <2>1. Cardinality(ResetWorkers \ FreeWorkers') = Cardinality(busy \cup started)
    BY <1>4
  <2>2. Cardinality(busy \cup started) = Cardinality(busy) + Cardinality(started)
    BY <1>2, <1>5, <1>6
  <2> QED BY <1>1, <2>1, <2>2
<1>8. PermitPerWorker'
  BY <1>7 DEF PermitPerWorker
<1>9. /\ work' \in [ResetWorkers -> {"free", "started", "looking", "leaving", "reading",
                                     "claiming", "mailing"}]
      /\ \A w \in ResetWorkers : work'[w] \in {"free", "started"} \/ work'[w] = work[w]
  BY <1>1
<1> QED BY <1>1, <1>2, <1>8, <1>9

(* A turn of one worker that is not free to one that is not free keeps the *)
(* permits; its job changes only between jobs.                             *)
LEMMA TurnCounts ==
    ASSUME ResetTypeOK, PermitPerWorker, NEW w \in ResetWorkers, work[w] # "free",
           NEW p \in {"started", "looking", "leaving", "reading", "claiming", "mailing"},
           Turns(w, p), UNCHANGED permits
    PROVE  /\ work' \in [ResetWorkers -> {"free", "started", "looking", "leaving", "reading",
                                          "claiming", "mailing"}]
           /\ PermitPerWorker'
           /\ work'[w] = p /\ \A v \in ResetWorkers \ {w} : work'[v] = work[v]
<1>1. /\ work' \in [ResetWorkers -> {"free", "started", "looking", "leaving", "reading",
                                     "claiming", "mailing"}]
      /\ work'[w] = p /\ \A v \in ResetWorkers \ {w} : work'[v] = work[v]
  BY DEF ResetTypeOK, Turns
<1>2. FreeWorkers' = FreeWorkers
  BY <1>1 DEF FreeWorkers
<1> QED BY <1>1, <1>2 DEF PermitPerWorker

(* Every step of the resets keeps the invariant, and none begins on a      *)
(* reset once the process stops.                                           *)
LEMMA ResetKeeps ==
    ASSUME ResetInv, LimitsTypeOK, ResetWork
    PROVE  /\ ResetInv'
           /\ stopping => \A w \in ResetWorkers : Underway(w)' => Underway(w)
<1> DEFINE Goal == /\ ResetInv'
                   /\ stopping => \A w \in ResetWorkers : Underway(w)' => Underway(w)
<1>0. /\ ResetTypeOK /\ PermitPerWorker /\ OneLinkPerCooldown
      /\ \A w \in ResetWorkers : Claimant(w)
      /\ QueueMax \in Nat \ {0}
  BY ResetAssumption DEF ResetInv, ResetAssumption
<1>2. ASSUME NEW a \in Addresses, Request(a) PROVE Goal
  <2>1. CASE UNCHANGED <<queue, work, permits>>
    <3>1. UNCHANGED <<queue, work, permits, email, cooling, links>>
      BY <1>2, <2>1 DEF Request, database
    <3>2. ResetTypeOK'
      BY <1>0, <3>1 DEF ResetTypeOK
    <3>3. /\ PermitPerWorker' /\ OneLinkPerCooldown'
          /\ \A w \in ResetWorkers : Claimant(w)' /\ (Underway(w)' <=> Underway(w))
      BY <1>0, <3>1 DEF PermitPerWorker, FreeWorkers, OneLinkPerCooldown, Claimant, Underway
    <3> QED BY <3>2, <3>3 DEF ResetInv
  <2>2. CASE /\ Len(queue) < QueueMax
             /\ queue' = Append(queue, a)
             /\ Pump(queue', ResetWorkers \ FreeWorkers, permits)
    <3>0. UNCHANGED <<email, cooling, links>>
      BY <1>2 DEF Request, database
    <3>1. /\ ResetWorkers \ FreeWorkers \in SUBSET ResetWorkers
          /\ permits = Cardinality(ResetWorkers \ FreeWorkers)
          /\ \A w \in ResetWorkers \ FreeWorkers : work[w] # "free"
      BY <1>0 DEF PermitPerWorker, FreeWorkers
    <3>2. /\ work' \in [ResetWorkers -> {"free", "started", "looking", "leaving", "reading",
                                         "claiming", "mailing"}]
          /\ permits' \in Nat
          /\ PermitPerWorker'
          /\ \A w \in ResetWorkers : work'[w] \in {"free", "started"} \/ work'[w] = work[w]
      BY <1>0, <2>2, <3>1, PumpCounts DEF ResetTypeOK
    <3>3. queue' \in Seq(Addresses) /\ Len(queue') <= QueueMax
      BY <1>0, <2>2 DEF ResetTypeOK
    <3>4. ResetTypeOK'
      BY <1>0, <3>0, <3>2, <3>3 DEF ResetTypeOK
    <3>5. /\ OneLinkPerCooldown'
          /\ \A w \in ResetWorkers : Claimant(w)' /\ (Underway(w)' => Underway(w))
      BY <1>0, <3>0, <3>2 DEF OneLinkPerCooldown, Claimant, Underway
    <3> QED BY <3>2, <3>4, <3>5 DEF ResetInv
  <2>3. Len(queue) \in Nat
    BY <1>0 DEF ResetTypeOK
  <2> QED BY <1>0, <1>2, <2>1, <2>2, <2>3 DEF Request
<1>3. ASSUME NEW w \in ResetWorkers, Look(w) PROVE Goal
  <2>0. /\ work[w] \in {"started", "looking"}
        /\ UNCHANGED <<permits, cooling, links>>
    BY <1>3 DEF Look, database
  <2>1. CASE queue' = <<>> /\ Turns(w, "leaving") /\ UNCHANGED email
    <3>1. /\ work' \in [ResetWorkers -> {"free", "started", "looking", "leaving", "reading",
                                         "claiming", "mailing"}]
          /\ PermitPerWorker'
          /\ work'[w] = "leaving" /\ \A v \in ResetWorkers \ {w} : work'[v] = work[v]
      BY <1>0, <2>0, <2>1, TurnCounts
    <3>2. ResetTypeOK'
      BY <1>0, <2>0, <2>1, <3>1 DEF ResetTypeOK
    <3>3. /\ OneLinkPerCooldown'
          /\ \A v \in ResetWorkers : Claimant(v)' /\ (Underway(v)' => Underway(v))
      BY <1>0, <2>0, <2>1, <3>1 DEF OneLinkPerCooldown, Claimant, Underway
    <3> QED BY <3>1, <3>2, <3>3 DEF ResetInv
  <2>2. CASE /\ queue # <<>> /\ ~stopping
             /\ queue' = Tail(queue)
             /\ email' = [email EXCEPT ![w] = Head(queue)]
             /\ Turns(w, "reading")
    <3>1. /\ work' \in [ResetWorkers -> {"free", "started", "looking", "leaving", "reading",
                                         "claiming", "mailing"}]
          /\ PermitPerWorker'
          /\ work'[w] = "reading" /\ \A v \in ResetWorkers \ {w} : work'[v] = work[v]
      BY <1>0, <2>0, <2>2, TurnCounts
    <3>2. /\ Head(queue) \in Addresses /\ Tail(queue) \in Seq(Addresses)
          /\ Len(Tail(queue)) <= QueueMax
      BY <1>0, <2>2 DEF ResetTypeOK
    <3>3. /\ email' \in [ResetWorkers -> Addresses \cup {NoAddress}]
          /\ \A v \in ResetWorkers \ {w} : email'[v] = email[v]
      BY <1>0, <2>2, <3>2 DEF ResetTypeOK
    <3>4. ResetTypeOK'
      BY <1>0, <2>0, <2>2, <3>1, <3>2, <3>3 DEF ResetTypeOK
    <3>5. OneLinkPerCooldown' /\ \A v \in ResetWorkers : Claimant(v)'
      BY <1>0, <2>0, <3>1, <3>3 DEF OneLinkPerCooldown, Claimant
    <3> QED BY <2>2, <3>1, <3>4, <3>5 DEF ResetInv
  <2> QED BY <1>3, <2>1, <2>2 DEF Look
<1>4. ASSUME NEW w \in ResetWorkers, LeaveQueue(w) PROVE Goal
  <2>0. /\ work[w] = "leaving"
        /\ UNCHANGED <<queue, email, cooling, links>>
        /\ Pump(queue, ResetWorkers \ (FreeWorkers \cup {w}), permits - 1)
    BY <1>4 DEF LeaveQueue, database
  <2> DEFINE busy == ResetWorkers \ (FreeWorkers \cup {w})
  <2>1. /\ busy = (ResetWorkers \ FreeWorkers) \ {w} /\ w \in ResetWorkers \ FreeWorkers
        /\ busy \in SUBSET ResetWorkers /\ \A v \in busy : work[v] # "free"
    BY <2>0 DEF FreeWorkers
  <2>2. IsFiniteSet(ResetWorkers \ FreeWorkers)
    BY ResetAssumption, FS_Subset DEF ResetAssumption
  <2>3. Cardinality(busy) = permits - 1
    BY <1>0, <2>1, <2>2, FS_RemoveElement DEF PermitPerWorker
  <2>4. Pump(queue, busy, Cardinality(busy))
    BY <2>0, <2>3
  <2> HIDE DEF busy
  <2>5. /\ work' \in [ResetWorkers -> {"free", "started", "looking", "leaving", "reading",
                                       "claiming", "mailing"}]
        /\ permits' \in Nat
        /\ PermitPerWorker'
        /\ \A v \in ResetWorkers : work'[v] \in {"free", "started"} \/ work'[v] = work[v]
    BY <1>0, <2>1, <2>4, PumpCounts DEF ResetTypeOK
  <2>6. ResetTypeOK'
    BY <1>0, <2>0, <2>5 DEF ResetTypeOK
  <2>7. /\ OneLinkPerCooldown'
        /\ \A v \in ResetWorkers : Claimant(v)' /\ (Underway(v)' => Underway(v))
    BY <1>0, <2>0, <2>5 DEF OneLinkPerCooldown, Claimant, Underway
  <2> QED BY <2>5, <2>6, <2>7 DEF ResetInv
<1>5. ASSUME NEW w \in ResetWorkers, Read(w) \/ JobFails(w) PROVE Goal
  <2>1. PICK p \in {"claiming", "looking"} :
          /\ Turns(w, p) /\ (p = "claiming" => email[w] \in Accounts)
          /\ Underway(w) /\ UNCHANGED <<queue, email, permits, cooling, links>>
    BY <1>5 DEF Read, JobFails, database, Underway
  <2>2. /\ work' \in [ResetWorkers -> {"free", "started", "looking", "leaving", "reading",
                                       "claiming", "mailing"}]
        /\ PermitPerWorker'
        /\ work'[w] = p /\ \A v \in ResetWorkers \ {w} : work'[v] = work[v]
    BY <1>0, <2>1, TurnCounts DEF Underway
  <2>3. ResetTypeOK'
    BY <1>0, <2>1, <2>2 DEF ResetTypeOK
  <2>4. /\ OneLinkPerCooldown'
        /\ \A v \in ResetWorkers : Claimant(v)' /\ (Underway(v)' => Underway(v))
    BY <1>0, <2>1, <2>2 DEF OneLinkPerCooldown, Claimant, Underway
  <2> QED BY <2>2, <2>3, <2>4 DEF ResetInv
<1>6. ASSUME NEW w \in ResetWorkers, Claim(w) PROVE Goal
  <2>0. /\ work[w] = "claiming" /\ email[w] \in Accounts
        /\ UNCHANGED <<queue, email, permits>>
    BY <1>0, <1>6 DEF Claim, Claimant
  <2>1. CASE Turns(w, "looking") /\ UNCHANGED <<cooling, links>>
    <3>1. /\ work' \in [ResetWorkers -> {"free", "started", "looking", "leaving", "reading",
                                         "claiming", "mailing"}]
          /\ PermitPerWorker'
          /\ work'[w] = "looking" /\ \A v \in ResetWorkers \ {w} : work'[v] = work[v]
      BY <1>0, <2>0, <2>1, TurnCounts
    <3>2. ResetTypeOK'
      BY <1>0, <2>0, <2>1, <3>1 DEF ResetTypeOK
    <3>3. /\ OneLinkPerCooldown'
          /\ \A v \in ResetWorkers : Claimant(v)' /\ (Underway(v)' => Underway(v))
      BY <1>0, <2>0, <2>1, <3>1 DEF OneLinkPerCooldown, Claimant, Underway
    <3> QED BY <3>1, <3>2, <3>3 DEF ResetInv
  <2>2. CASE /\ email[w] \notin cooling
             /\ cooling' = cooling \cup {email[w]}
             /\ links' = [links EXCEPT ![email[w]] = 0]
             /\ Turns(w, "mailing")
    <3>1. /\ work' \in [ResetWorkers -> {"free", "started", "looking", "leaving", "reading",
                                         "claiming", "mailing"}]
          /\ PermitPerWorker'
          /\ work'[w] = "mailing" /\ \A v \in ResetWorkers \ {w} : work'[v] = work[v]
      BY <1>0, <2>0, <2>2, TurnCounts
    <3>2. /\ links' \in [Accounts -> Nat] /\ links'[email[w]] = 0
          /\ \A b \in Accounts \ {email[w]} : links'[b] = links[b]
          /\ cooling' \subseteq Accounts
      BY <1>0, <2>0, <2>2 DEF ResetTypeOK
    <3>3. ResetTypeOK'
      BY <1>0, <2>0, <3>1, <3>2 DEF ResetTypeOK
    <3>4. OneLinkPerCooldown'
      BY <1>0, <2>0, <3>2 DEF OneLinkPerCooldown
    <3>5. \A v \in ResetWorkers \ {w} : work[v] = "mailing" => email[v] # email[w]
      BY <1>0, <2>2 DEF Claimant
    <3>6. \A v \in ResetWorkers : Claimant(v)'
      BY <1>0, <2>0, <2>2, <3>1, <3>2, <3>5 DEF Claimant
    <3>7. \A v \in ResetWorkers : Underway(v)' => Underway(v)
      BY <2>0, <3>1 DEF Underway
    <3> QED BY <3>1, <3>3, <3>4, <3>6, <3>7 DEF ResetInv
  <2> QED BY <1>6, <2>1, <2>2 DEF Claim, database
<1>7. ASSUME NEW w \in ResetWorkers, MailLink(w) PROVE Goal
  <2>0. /\ work[w] = "mailing" /\ email[w] \in Accounts /\ links[email[w]] = 0
        /\ UNCHANGED <<queue, email, permits, cooling>> /\ Turns(w, "looking")
        /\ links' = [links EXCEPT ![email[w]] = @ + 1]
    BY <1>0, <1>7 DEF MailLink, Claimant
  <2>1. /\ work' \in [ResetWorkers -> {"free", "started", "looking", "leaving", "reading",
                                       "claiming", "mailing"}]
        /\ PermitPerWorker'
        /\ work'[w] = "looking" /\ \A v \in ResetWorkers \ {w} : work'[v] = work[v]
    BY <1>0, <2>0, TurnCounts
  <2>2. /\ links' \in [Accounts -> Nat] /\ links'[email[w]] = 1
        /\ \A b \in Accounts \ {email[w]} : links'[b] = links[b]
    BY <1>0, <2>0 DEF ResetTypeOK
  <2>3. ResetTypeOK'
    BY <1>0, <2>0, <2>1, <2>2 DEF ResetTypeOK
  <2>4. OneLinkPerCooldown'
    BY <1>0, <2>0, <2>2 DEF OneLinkPerCooldown
  <2>5. \A v \in ResetWorkers \ {w} : work[v] = "mailing" => email[v] # email[w]
    BY <1>0, <2>0 DEF Claimant
  <2>6. \A v \in ResetWorkers : Claimant(v)' /\ (Underway(v)' => Underway(v))
    BY <1>0, <2>0, <2>1, <2>2, <2>5 DEF Claimant, Underway
  <2> QED BY <2>1, <2>3, <2>4, <2>6 DEF ResetInv
<1>8. ASSUME NEW a \in Accounts, ElsewhereClaims(a) PROVE Goal
  <2>0. /\ a \notin cooling /\ cooling' = cooling \cup {a}
        /\ links' = [links EXCEPT ![a] = 1]
        /\ UNCHANGED <<queue, work, email, permits>>
    BY <1>8 DEF ElsewhereClaims
  <2>1. /\ links' \in [Accounts -> Nat] /\ links'[a] = 1
        /\ \A b \in Accounts \ {a} : links'[b] = links[b]
    BY <1>0, <2>0 DEF ResetTypeOK
  <2>2. ResetTypeOK'
    BY <1>0, <2>0, <2>1 DEF ResetTypeOK
  <2>3. OneLinkPerCooldown' /\ PermitPerWorker'
    BY <1>0, <2>0, <2>1 DEF OneLinkPerCooldown, PermitPerWorker, FreeWorkers
  <2>4. \A v \in ResetWorkers : Claimant(v)' /\ (Underway(v)' => Underway(v))
    BY <1>0, <2>0, <2>1 DEF Claimant, Underway
  <2> QED BY <2>2, <2>3, <2>4 DEF ResetInv
<1>9. ASSUME NEW a \in Accounts, CooldownRunsOut(a) PROVE Goal
  <2>0. /\ \A w \in ResetWorkers : ~(work[w] = "mailing" /\ email[w] = a)
        /\ cooling' = cooling \ {a}
        /\ UNCHANGED <<queue, work, email, permits, links>>
    BY <1>9 DEF CooldownRunsOut
  <2>1. ResetTypeOK'
    BY <1>0, <2>0 DEF ResetTypeOK
  <2>2. OneLinkPerCooldown' /\ PermitPerWorker'
    BY <1>0, <2>0 DEF OneLinkPerCooldown, PermitPerWorker, FreeWorkers
  <2>3. \A v \in ResetWorkers : Claimant(v)' /\ (Underway(v)' => Underway(v))
    BY <1>0, <2>0 DEF Claimant, Underway
  <2> QED BY <2>1, <2>2, <2>3 DEF ResetInv
<1> QED
  BY <1>2, <1>3, <1>4, <1>5, <1>6, <1>7, <1>8, <1>9 DEF ResetWork, Runs
-----------------------------------------------------------------------------
(* The process.                                                            *)

LEMMA ProcessInitHolds == ProcessInit => ProcessInv
<1> SUFFICES ASSUME ProcessInit PROVE ProcessInv
  OBVIOUS
<1> USE DEF ProcessInit
<1>1. LimitsTypeOK /\ DrainInv
  BY DEF LimitsInit, LimitsTypeOK, DrainInv
<1>2. AdmissionTypeOK /\ \A r \in Requests : Collected(r)
  BY DEF AdmissionInit, AdmissionTypeOK, RequestPhases, Collected
<1>3. Counted
  <2>1. \A k \in Keys : active[k] = 0 /\ Lessees(k) = {} /\ k[1] \in Names
    BY <1>2, KeyTypes DEF AdmissionInit, Lessees, Keys, Personal, Names
  <2>2. \A k \in Keys : 0 <= Limit[k[1]]
    BY <2>1, AdmissionAssumption DEF AdmissionAssumption
  <2>3. Cardinality({}) = 0
    BY FS_EmptySet
  <2> QED BY <2>1, <2>2, <2>3 DEF Counted
<1>4. ResetTypeOK /\ OneLinkPerCooldown /\ \A w \in ResetWorkers : Claimant(w)
  BY ResetAssumption
  DEF ResetInit, ResetTypeOK, OneLinkPerCooldown, Claimant, ResetAssumption
<1>5. PermitPerWorker
  <2>1. ResetWorkers \ FreeWorkers = {}
    BY DEF ResetInit, FreeWorkers
  <2> QED BY <2>1, FS_EmptySet DEF ResetInit, PermitPerWorker
<1> QED BY <1>1, <1>2, <1>3, <1>4, <1>5 DEF ProcessInv, AdmissionInv, ResetInv

(* What one part of the process leaves alone keeps its invariant.          *)
LEMMA AdmissionStays ==
    ASSUME AdmissionInv, UNCHANGED admissionVars
    PROVE  AdmissionInv' /\ \A r \in Requests : phase'[r] = phase[r]
<1>1. UNCHANGED <<caller, kind, phase, lease, active, gone>>
  BY DEF admissionVars
<1>2. AdmissionTypeOK' /\ Counted'
  BY <1>1 DEF AdmissionInv, AdmissionTypeOK, Counted, Lessees
<1>3. \A r \in Requests : Collected(r)'
  BY <1>1 DEF AdmissionInv, Collected, WorkPermits, Key, Mutates
<1> QED BY <1>1, <1>2, <1>3 DEF AdmissionInv

LEMMA ResetsStay ==
    ASSUME ResetInv, UNCHANGED resetVars
    PROVE  ResetInv' /\ \A w \in ResetWorkers : Underway(w)' <=> Underway(w)
<1>1. UNCHANGED <<queue, work, email, permits, cooling, links>>
  BY DEF resetVars
<1>2. ResetTypeOK' /\ PermitPerWorker' /\ OneLinkPerCooldown'
  BY <1>1 DEF ResetInv, ResetTypeOK, PermitPerWorker, FreeWorkers, OneLinkPerCooldown
<1>3. \A w \in ResetWorkers : Claimant(w)' /\ (Underway(w)' <=> Underway(w))
  BY <1>1 DEF ResetInv, Claimant, Underway
<1> QED BY <1>2, <1>3 DEF ResetInv

(* A request that runs, or a reset under way, has a permit out: settle()   *)
(* does not return.                                                        *)
LEMMA NoneOutNoneUnderway ==
    ASSUME AdmissionInv, ResetInv, NoPermitOut
    PROVE  /\ \A r \in Requests : phase[r] # "running"
           /\ \A w \in ResetWorkers : ~Underway(w)
<1>1. ASSUME NEW r \in Requests, phase[r] = "running" PROVE FALSE
  <2>1. Key("http", r) \in Keys /\ Key("http", r) \in lease[r]
    BY <1>1, KeyTypes DEF AdmissionInv, Collected, WorkPermits, Names
  <2>2. r \in Lessees(Key("http", r))
    BY <2>1 DEF Lessees
  <2>3. Cardinality(Lessees(Key("http", r))) = 0
    BY <2>1 DEF AdmissionInv, Counted, NoPermitOut, NoLeaseOut
  <2> QED BY <2>2, <2>3, LesseesFinite, FS_EmptySet
<1>2. ASSUME NEW w \in ResetWorkers, Underway(w) PROVE FALSE
  <2>1. w \in ResetWorkers \ FreeWorkers
    BY <1>2 DEF Underway, FreeWorkers
  <2>2. Cardinality(ResetWorkers \ FreeWorkers) = 0
    BY DEF ResetInv, PermitPerWorker, NoPermitOut
  <2>3. IsFiniteSet(ResetWorkers \ FreeWorkers)
    BY ResetAssumption, FS_Subset DEF ResetAssumption
  <2> QED BY <2>1, <2>2, <2>3, FS_EmptySet
<1> QED BY <1>1, <1>2

LEMMA ProcessKeeps == ProcessInv /\ [ProcessNext]_processVars => ProcessInv'
<1> SUFFICES ASSUME ProcessInv, [ProcessNext]_processVars PROVE ProcessInv'
  OBVIOUS
<1>0. LimitsTypeOK /\ AdmissionInv /\ ResetInv /\ DrainInv
  BY DEF ProcessInv
<1>1. ASSUME NEW r \in Requests, Serves(r) PROVE ProcessInv'
  <2>1. /\ AdmissionInv'
        /\ stopping => \A s \in Requests : phase'[s] = "running" => phase[s] = "running"
    BY <1>0, <1>1, RequestKeeps DEF Serves
  <2>2. ResetInv' /\ \A w \in ResetWorkers : Underway(w)' <=> Underway(w)
    BY <1>0, <1>1, ResetsStay DEF Serves
  <2>3. UNCHANGED <<stopping, closing>>
    BY <1>1 DEF Serves, limitsVars
  <2>4. LimitsTypeOK' /\ DrainInv'
    BY <1>0, <2>1, <2>2, <2>3 DEF LimitsTypeOK, DrainInv
  <2> QED BY <2>1, <2>2, <2>4 DEF ProcessInv
<1>2. ASSUME Resets PROVE ProcessInv'
  <2>1. /\ ResetInv'
        /\ stopping => \A w \in ResetWorkers : Underway(w)' => Underway(w)
    BY <1>0, <1>2, ResetKeeps DEF Resets
  <2>2. AdmissionInv' /\ \A r \in Requests : phase'[r] = phase[r]
    BY <1>0, <1>2, AdmissionStays DEF Resets
  <2>3. UNCHANGED <<stopping, closing>>
    BY <1>2 DEF Resets, limitsVars
  <2>4. LimitsTypeOK' /\ DrainInv'
    BY <1>0, <2>1, <2>2, <2>3 DEF LimitsTypeOK, DrainInv
  <2> QED BY <2>1, <2>2, <2>4 DEF ProcessInv
<1>3. ASSUME UNCHANGED <<admissionVars, resetVars>>, LimitsTypeOK',
             closing' = "drained" => stopping' /\ (closing = "drained" \/ NoPermitOut)
      PROVE  ProcessInv'
  <2>1. AdmissionInv' /\ \A r \in Requests : phase'[r] = phase[r]
    BY <1>0, <1>3, AdmissionStays
  <2>2. ResetInv' /\ \A w \in ResetWorkers : Underway(w)' <=> Underway(w)
    BY <1>0, <1>3, ResetsStay
  <2>3. DrainInv'
    BY <1>0, <1>3, <2>1, <2>2, NoneOutNoneUnderway DEF DrainInv
  <2> QED BY <1>3, <2>1, <2>2, <2>3 DEF ProcessInv
<1>4. CASE Stops
  BY <1>0, <1>3, <1>4 DEF Stops, BeginShutdown, LimitsTypeOK, DrainInv
<1>5. CASE Settles
  BY <1>0, <1>3, <1>5 DEF Settles, Closes, LimitsTypeOK
<1>6. CASE GivesUp
  BY <1>0, <1>3, <1>6 DEF GivesUp, Closes, LimitsTypeOK
<1>7. CASE UNCHANGED processVars
  BY <1>0, <1>3, <1>7 DEF processVars, limitsVars, LimitsTypeOK, DrainInv
<1> QED
  BY <1>1, <1>2, <1>4, <1>5, <1>6, <1>7 DEF ProcessNext, Waits

(* The invariant holds of the process, whatever its budgets, callers,      *)
(* requests, workers and queue.                                            *)
THEOREM ProcessInvariant == ProcessSpec => []ProcessInv
<1>1. ProcessInit => ProcessInv
  BY ProcessInitHolds
<1>2. ProcessInv /\ [ProcessNext]_processVars => ProcessInv'
  BY ProcessKeeps
<1> QED BY <1>1, <1>2, PTL DEF ProcessSpec

(* A set of running requests that all hold a permit is within its budget.  *)
LEMMA WithinBudget ==
    ASSUME AdmissionInv, NEW R \in SUBSET Requests, NEW k \in Keys,
           \A r \in R : k \in lease[r]
    PROVE  Cardinality(R) <= Limit[k[1]]
<1>1. R \in SUBSET Lessees(k)
  BY DEF Lessees
<1>2. /\ Cardinality(R) <= Cardinality(Lessees(k))
      /\ Cardinality(R) \in Nat /\ Cardinality(Lessees(k)) \in Nat
  BY <1>1, LesseesFinite, FS_Subset, FS_CardinalityType
<1>3. Cardinality(Lessees(k)) <= Limit[k[1]] /\ Limit[k[1]] \in Nat
  BY KeyTypes, AdmissionAssumption
  DEF AdmissionInv, Counted, AdmissionAssumption, Keys, Personal, Names
<1> QED BY <1>2, <1>3

(* The budgets hold and no permit leaks: RuntimeLimits.active counts what  *)
(* requests and reset workers hold, and what runs holds what it needs.     *)
THEOREM PermitsAlwaysHold == ProcessSpec => []PermitsHold
<1>1. ProcessInv => PermitsHold
  <2> SUFFICES ASSUME ProcessInv PROVE PermitsHold
    OBVIOUS
  <2>0. AdmissionInv /\ AdmissionTypeOK /\ PermitPerWorker
    BY DEF ProcessInv, AdmissionInv, ResetInv
  <2>1. PermitsBalance
    <3>1. \A k : Holders(k) = Lessees(k)
      BY <2>0 DEF Holders, Lessees, AdmissionInv, Collected, Live
    <3> QED BY <2>0, <3>1 DEF AdmissionInv, Counted, PermitsBalance
  <2>2. \A r \in Running : r \in Requests /\ WorkPermits(r) \subseteq lease[r]
    BY <2>0 DEF Running, AdmissionInv, Collected
  <2>3. /\ \A n \in {"mutations", "imports", "reports"} : <<n, Nobody>> \in Keys
        /\ \A n \in {"mutation", "preview"}, c \in Callers : <<n, c>> \in Keys
    BY DEF Keys, Personal, Names
  <2>4. \A r \in Running :
          /\ Mutates(r) => <<"mutations", Nobody>> \in lease[r] /\ <<"mutation", caller[r]>> \in lease[r]
          /\ kind[r] = "import" => <<"imports", Nobody>> \in lease[r]
          /\ kind[r] = "export" => <<"reports", Nobody>> \in lease[r]
          /\ kind[r] = "preview" => <<"preview", caller[r]>> \in lease[r]
    BY <2>2 DEF WorkPermits, Key, Personal
  <2>5. Cardinality({r \in Running : Mutates(r)}) <= Limit["mutations"]
    BY <2>0, <2>2, <2>3, <2>4, WithinBudget, <<"mutations", Nobody>>[1] = "mutations"
  <2>6. Cardinality({r \in Running : kind[r] = "import"}) <= Limit["imports"]
    BY <2>0, <2>2, <2>3, <2>4, WithinBudget, <<"imports", Nobody>>[1] = "imports"
  <2>7. Cardinality({r \in Running : kind[r] = "export"}) <= Limit["reports"]
    BY <2>0, <2>2, <2>3, <2>4, WithinBudget, <<"reports", Nobody>>[1] = "reports"
  <2>8. ASSUME NEW c \in Callers
        PROVE  /\ Cardinality({r \in Running : caller[r] = c /\ Mutates(r)}) <= Limit["mutation"]
               /\ Cardinality({r \in Running : caller[r] = c /\ kind[r] = "preview"}) <= Limit["preview"]
    <3>1. Cardinality({r \in Running : caller[r] = c /\ Mutates(r)}) <= Limit["mutation"]
      BY <2>0, <2>2, <2>3, <2>4, WithinBudget, <<"mutation", c>>[1] = "mutation"
    <3>2. Cardinality({r \in Running : caller[r] = c /\ kind[r] = "preview"}) <= Limit["preview"]
      BY <2>0, <2>2, <2>3, <2>4, WithinBudget, <<"preview", c>>[1] = "preview"
    <3> QED BY <3>1, <3>2
  <2> QED BY <2>0, <2>1, <2>5, <2>6, <2>7, <2>8 DEF PermitsHold, BudgetsHold
<1> QED BY <1>1, ProcessInvariant, PTL

(* An account is mailed one link in a cooldown, whoever asks and however   *)
(* many workers and processes there are.                                   *)
THEOREM OneLinkPerCooldownHolds == ProcessSpec => []OneLinkPerCooldown
<1>1. ProcessInv => OneLinkPerCooldown
  BY DEF ProcessInv, ResetInv
<1> QED BY <1>1, ProcessInvariant, PTL

(* When the drain lets the application close, nothing is under way.        *)
THEOREM DrainedIsIdleHolds == ProcessSpec => []DrainedIsIdle
<1>1. ProcessInv => DrainedIsIdle
  BY DEF ProcessInv, DrainInv, DrainedIsIdle, NoHandlerAfterDrain, Running,
         NoResetAfterDrain, Underway
<1> QED BY <1>1, ProcessInvariant, PTL

(* The process keeps its types.                                            *)
THEOREM ProcessTypeCorrect == ProcessSpec => []ProcessTypeOK
<1>1. ProcessInv => ProcessTypeOK
  BY DEF ProcessInv, AdmissionInv, ResetInv, ProcessTypeOK
<1> QED BY <1>1, ProcessInvariant, PTL

-----------------------------------------------------------------------------
(***************************************************************************)
(* Proofs about AccountSync, for any number of workers, changes, sessions  *)
(* and faults, calls that outlive their transaction among them: what they  *)
(* do to Auth is undone by the next run that reaches it in time, and       *)
(* `strayed` says that none has yet.  Sync is the inductive invariant:     *)
(* what the holder of the lock read is the account's state unless the      *)
(* generation has moved on, so what it carried over is right when it       *)
(* clears the flag.                                                        *)
(***************************************************************************)

Syncing(w) == job[w].phase \in {"calling", "landed"}

(* The flag stays set while a sync runs.                                   *)
FlagHeld == lock # None => pending

(* What a sync read is current, or a newer change has moved the generation.*)
ReadIsCurrent ==
    \A w \in Workers : Syncing(w) =>
        /\ job[w].gen <= generation
        /\ job[w].gen = generation => job[w].state = disabled

(* What a sync carried over is what Auth honours, until a late call.       *)
LandedHolds ==
    \A w \in Workers :
        job[w].phase = "landed" /\ job[w].gen = generation /\ disabled /\ ~strayed =>
            auth # "active"

(* Past its creation the Auth user is there.                               *)
UserMade == \A w \in Workers : job[w].phase \in {"reread", "arm"} => auth # "absent"

(* Past the sync of a delivery the account's state has reached a user that *)
(* was there, or the flag is set.                                          *)
PastSync(w) ==
    \/ job[w].phase \in {"apply", "calling", "landed"} /\ job[w].mint
    \/ job[w].phase \in {"mint", "mail", "record", "accept"}
    \/ job[w].phase = "reread" /\ ~job[w].state
Carried == confirmed \/ invitation \in {"sent", "accepted"} \/ \E w \in Workers : PastSync(w)
Reached ==
    /\ auth # "absent"
    /\ auth = "banned" /\ ~disabled /\ ~strayed => pending
    /\ \A w \in Workers :
         job[w].phase = "landed" /\ job[w].gen = generation /\ ~disabled /\ ~strayed =>
             auth = "active"

(* One transaction of the organisation's lock is under way: a change of    *)
(* the account, which is one, or the reopening of an enabled one's         *)
(* invitation.                                                             *)
Locked(w) == job[w].phase \in {"change", "reopen"}
OneChange ==
    \A w \in Workers : Locked(w) =>
        /\ IF job[w].phase = "change" THEN job[w].state # disabled ELSE ~disabled
        /\ \A v \in Workers : Locked(v) => v = w

SignedIn == sessions # {} => confirmed

Sync ==
    /\ TypeOK
    /\ FlagHeld
    /\ ReadIsCurrent
    /\ LandedHolds
    /\ UserMade
    /\ SignedIn
    /\ OneChange
    /\ Carried => Reached
    /\ SettledHonours
    /\ DisabledIsWithdrawn
    /\ EndedStayRefused

-----------------------------------------------------------------------------
(* A step of w that neither begins nor ends a sync, nor changes the account. *)
LEMMA QuietKeepsReads ==
    ASSUME Sync, NEW w \in Workers, UNCHANGED <<disabled, generation>>,
           \A v \in Workers \ {w} : job'[v] = job[v],
           job'[w].phase \notin {"calling", "landed"},
           auth' = "active" => auth = "active", strayed' = strayed
    PROVE  ReadIsCurrent' /\ LandedHolds'
BY DEF Sync, ReadIsCurrent, LandedHolds, Syncing

LEMMA DecideKeeps ==
    ASSUME SyncAssumption, Sync, NEW w \in Workers, NEW to \in BOOLEAN, Decide(w, to)
    PROVE  Sync'
<1>1. TypeOK'
  BY SMTT(30) DEF Sync, TypeOK, Phases, Decide, Goes, Busy, profile, authUser, person, Job, Idle, SyncAssumption
<1>2. FlagHeld' /\ ReadIsCurrent' /\ LandedHolds'
  <2>1. FlagHeld'
    BY SMT DEF Sync, TypeOK, FlagHeld, ReadIsCurrent, LandedHolds, Syncing, SettledHonours, Decide, Goes, Busy, profile, authUser, person, Job, Idle, SyncAssumption
  <2>2. /\ \A v \in Workers \ {w} : job'[v] = job[v]
        /\ job'[w].phase \notin {"calling", "landed"}
        /\ UNCHANGED <<disabled, generation>>
        /\ auth' = "active" => auth = "active"
        /\ strayed' = strayed
    BY SMT DEF Sync, TypeOK, Decide, Goes, Busy, profile, authUser, person, Job, Idle
  <2> QED
    BY <2>1, <2>2, QuietKeepsReads
<1>3. UserMade' /\ SignedIn'
  BY SMTT(30) DEF Sync, TypeOK, UserMade, SignedIn, PastSync, Decide, Goes, Busy, profile, authUser, person, Job, Idle
<1>4. Carried' => Reached'
  BY <1>1, <1>2, SMTT(30) DEF Sync, TypeOK, FlagHeld, ReadIsCurrent, Syncing, UserMade, SignedIn, Carried, Reached, PastSync, Decide, Goes, Busy, profile, authUser, person, Job, Idle, SyncAssumption
<1>5. SettledHonours' /\ DisabledIsWithdrawn'
  BY SMTT(30) DEF Sync, TypeOK, FlagHeld, ReadIsCurrent, LandedHolds, Syncing, SettledHonours, DisabledIsWithdrawn, Decide, Goes, Busy, profile, authUser, person, Job, Idle
<1>6. EndedStayRefused'
  BY SMTT(30) DEF Sync, TypeOK, FlagHeld, EndedStayRefused, Admits, Decide, Goes, Busy, profile, authUser, person, Job, Idle
<1>7. OneChange'
  <2>1. /\ \A v \in Workers \ {w} : job'[v] = job[v] /\ ~Locked(v)
        /\ job'[w].phase # "reopen"
        /\ job'[w].phase = "change" => job'[w].state # disabled
        /\ disabled' = disabled
    BY SMT DEF Sync, TypeOK, Decide, Goes, Busy, TenantLockFree, Locked, profile, Job
  <2> QED
    BY <2>1 DEF OneChange, Locked
<1> QED
  BY <1>1, <1>2, <1>3, <1>4, <1>5, <1>6, <1>7 DEF Sync

LEMMA CommitKeeps ==
    ASSUME SyncAssumption, Sync, NEW w \in Workers, CommitChange(w)
    PROVE  Sync'
<1>1. TypeOK'
  BY SMTT(30) DEF Sync, TypeOK, Phases, CommitChange, Goes, profile, authUser, person, Job, Idle, SyncAssumption
<1>2. FlagHeld' /\ ReadIsCurrent' /\ LandedHolds'
  <2>1. FlagHeld'
    BY SMT DEF Sync, TypeOK, FlagHeld, ReadIsCurrent, LandedHolds, Syncing, SettledHonours, CommitChange, Goes, profile, authUser, person, Job, Idle, SyncAssumption
  <2>2. ReadIsCurrent'
    <3> SUFFICES ASSUME NEW v \in Workers, job'[v].phase \in {"calling", "landed"}
                 PROVE  job'[v].gen < generation'
      BY <1>1, SMT DEF ReadIsCurrent, Syncing, TypeOK
    <3>1. v # w /\ job'[v] = job[v]
      BY SMT DEF Sync, TypeOK, CommitChange, Goes, profile, authUser, person, Job, Idle
    <3> QED
      BY <3>1, SMT DEF Sync, TypeOK, ReadIsCurrent, Syncing, CommitChange
  <2>3. LandedHolds'
    BY SMT DEF Sync, TypeOK, FlagHeld, ReadIsCurrent, LandedHolds, Syncing, SettledHonours, CommitChange, Goes, profile, authUser, person, Job, Idle, SyncAssumption
  <2> QED
    BY <2>1, <2>2, <2>3
<1>3. UserMade' /\ SignedIn'
  BY SMTT(30) DEF Sync, TypeOK, UserMade, SignedIn, PastSync, CommitChange, Goes, profile, authUser, person, Job, Idle
<1>4. Carried' => Reached'
  BY <1>1, <1>2, SMTT(30) DEF Sync, TypeOK, FlagHeld, ReadIsCurrent, Syncing, UserMade, SignedIn, Carried, Reached, PastSync, CommitChange, Goes, profile, authUser, person, Job, Idle, SyncAssumption
<1>5. SettledHonours' /\ DisabledIsWithdrawn'
  BY SMTT(30) DEF Sync, TypeOK, FlagHeld, ReadIsCurrent, LandedHolds, Syncing, SettledHonours, DisabledIsWithdrawn, CommitChange, Goes, profile, authUser, person, Job, Idle
<1>6. EndedStayRefused'
  BY SMTT(30) DEF Sync, TypeOK, FlagHeld, EndedStayRefused, Admits, CommitChange, Goes, profile, authUser, person, Job, Idle
<1>7. OneChange'
  <2>1. /\ \A v \in Workers \ {w} : job'[v] = job[v] /\ ~Locked(v)
        /\ ~Locked(w)'
    BY SMT DEF Sync, TypeOK, OneChange, Locked, CommitChange, Goes, Job
  <2> QED
    BY <2>1 DEF OneChange, Locked
<1> QED
  BY <1>1, <1>2, <1>3, <1>4, <1>5, <1>6, <1>7 DEF Sync

LEMMA ReopenKeeps ==
    ASSUME SyncAssumption, Sync, NEW w \in Workers, Reopen(w)
    PROVE  Sync'
<1>1. TypeOK'
  BY SMTT(30) DEF Sync, TypeOK, Phases, Reopen, Goes, Busy, profile, authUser, person, Job, Idle, SyncAssumption
<1>2. FlagHeld' /\ ReadIsCurrent' /\ LandedHolds'
  <2>1. FlagHeld'
    BY SMT DEF Sync, TypeOK, FlagHeld, ReadIsCurrent, LandedHolds, Syncing, SettledHonours, Reopen, Goes, Busy, profile, authUser, person, Job, Idle, SyncAssumption
  <2>2. /\ \A v \in Workers \ {w} : job'[v] = job[v]
        /\ job'[w].phase \notin {"calling", "landed"}
        /\ UNCHANGED <<disabled, generation>>
        /\ auth' = "active" => auth = "active"
        /\ strayed' = strayed
    BY SMT DEF Sync, TypeOK, Reopen, Goes, Busy, profile, authUser, person, Job, Idle
  <2> QED
    BY <2>1, <2>2, QuietKeepsReads
<1>3. UserMade' /\ SignedIn'
  BY SMTT(30) DEF Sync, TypeOK, UserMade, SignedIn, PastSync, Reopen, Goes, Busy, profile, authUser, person, Job, Idle
<1>4. Carried' => Reached'
  BY <1>1, <1>2, SMTT(30) DEF Sync, TypeOK, FlagHeld, ReadIsCurrent, Syncing, UserMade, SignedIn, Carried, Reached, PastSync, Reopen, Goes, Busy, profile, authUser, person, Job, Idle, SyncAssumption
<1>5. SettledHonours' /\ DisabledIsWithdrawn'
  BY SMTT(30) DEF Sync, TypeOK, FlagHeld, ReadIsCurrent, LandedHolds, Syncing, SettledHonours, DisabledIsWithdrawn, Reopen, Goes, Busy, profile, authUser, person, Job, Idle
<1>6. EndedStayRefused'
  BY SMTT(30) DEF Sync, TypeOK, FlagHeld, EndedStayRefused, Admits, Reopen, Goes, Busy, profile, authUser, person, Job, Idle
<1>7. OneChange'
  <2>1. /\ \A v \in Workers \ {w} : job'[v] = job[v] /\ ~Locked(v)
        /\ job'[w].phase = "reopen" /\ ~disabled
        /\ disabled' = disabled
    BY SMT DEF Sync, TypeOK, Reopen, Goes, TenantLockFree, Locked, profile, Job
  <2> QED
    BY <2>1 DEF OneChange, Locked
<1> QED
  BY <1>1, <1>2, <1>3, <1>4, <1>5, <1>6, <1>7 DEF Sync

LEMMA CommitReopenKeeps ==
    ASSUME SyncAssumption, Sync, NEW w \in Workers, CommitReopen(w)
    PROVE  Sync'
<1>1. TypeOK'
  BY SMTT(30) DEF Sync, TypeOK, Phases, CommitReopen, Goes, profile, authUser, person, Job, Idle, SyncAssumption
<1>2. FlagHeld' /\ ReadIsCurrent' /\ LandedHolds'
  <2>1. FlagHeld'
    BY SMT DEF Sync, TypeOK, FlagHeld, ReadIsCurrent, LandedHolds, Syncing, SettledHonours, CommitReopen, Goes, profile, authUser, person, Job, Idle, SyncAssumption
  <2>2. /\ \A v \in Workers \ {w} : job'[v] = job[v]
        /\ job'[w].phase \notin {"calling", "landed"}
        /\ UNCHANGED <<disabled, generation>>
        /\ auth' = "active" => auth = "active"
        /\ strayed' = strayed
    BY SMT DEF Sync, TypeOK, CommitReopen, Goes, profile, authUser, person, Job, Idle
  <2> QED
    BY <2>1, <2>2, QuietKeepsReads
<1>3. UserMade' /\ SignedIn'
  BY SMTT(30) DEF Sync, TypeOK, UserMade, SignedIn, PastSync, CommitReopen, Goes, profile, authUser, person, Job, Idle
<1>4. Carried' => Reached'
  BY <1>1, <1>2, SMTT(30) DEF Sync, TypeOK, FlagHeld, ReadIsCurrent, Syncing, UserMade, SignedIn, Carried, Reached, PastSync, CommitReopen, Goes, profile, authUser, person, Job, Idle, SyncAssumption
<1>5. SettledHonours' /\ DisabledIsWithdrawn'
  <2>1. ~disabled /\ UNCHANGED <<disabled, pending, auth, strayed>>
    BY DEF Sync, OneChange, Locked, CommitReopen, profile, authUser
  <2> QED
    BY <2>1 DEF Sync, SettledHonours, DisabledIsWithdrawn
<1>6. EndedStayRefused'
  BY SMTT(30) DEF Sync, TypeOK, FlagHeld, EndedStayRefused, Admits, CommitReopen, Goes, profile, authUser, person, Job, Idle
<1>7. OneChange'
  <2>1. /\ \A v \in Workers \ {w} : job'[v] = job[v]
        /\ job'[w].phase \notin {"change", "reopen"} /\ disabled' = disabled
    BY SMT DEF Sync, TypeOK, CommitReopen, Goes, profile, authUser, person, Job, Idle
  <2> QED
    BY <2>1 DEF Sync, OneChange, Locked
<1> QED
  BY <1>1, <1>2, <1>3, <1>4, <1>5, <1>6, <1>7 DEF Sync

LEMMA ReconcileKeeps ==
    ASSUME SyncAssumption, Sync, NEW w \in Workers, Reconcile(w)
    PROVE  Sync'
<1>1. TypeOK'
  BY SMTT(30) DEF Sync, TypeOK, Phases, Reconcile, Goes, Busy, profile, authUser, person, Job, Idle, SyncAssumption
<1>2. FlagHeld' /\ ReadIsCurrent' /\ LandedHolds'
  <2>1. FlagHeld'
    BY SMT DEF Sync, TypeOK, FlagHeld, ReadIsCurrent, LandedHolds, Syncing, SettledHonours, Reconcile, Goes, Busy, profile, authUser, person, Job, Idle, SyncAssumption
  <2>2. /\ \A v \in Workers \ {w} : job'[v] = job[v]
        /\ job'[w].phase \notin {"calling", "landed"}
        /\ UNCHANGED <<disabled, generation>>
        /\ auth' = "active" => auth = "active"
        /\ strayed' = strayed
    BY SMT DEF Sync, TypeOK, Reconcile, Goes, Busy, profile, authUser, person, Job, Idle
  <2> QED
    BY <2>1, <2>2, QuietKeepsReads
<1>3. UserMade' /\ SignedIn'
  BY SMTT(30) DEF Sync, TypeOK, UserMade, SignedIn, PastSync, Reconcile, Goes, Busy, profile, authUser, person, Job, Idle
<1>4. Carried' => Reached'
  BY <1>1, <1>2, SMTT(30) DEF Sync, TypeOK, FlagHeld, ReadIsCurrent, Syncing, UserMade, SignedIn, Carried, Reached, PastSync, Reconcile, Goes, Busy, profile, authUser, person, Job, Idle, SyncAssumption
<1>5. SettledHonours' /\ DisabledIsWithdrawn'
  BY SMTT(30) DEF Sync, TypeOK, FlagHeld, ReadIsCurrent, LandedHolds, Syncing, SettledHonours, DisabledIsWithdrawn, Reconcile, Goes, Busy, profile, authUser, person, Job, Idle
<1>6. EndedStayRefused'
  BY SMTT(30) DEF Sync, TypeOK, FlagHeld, EndedStayRefused, Admits, Reconcile, Goes, Busy, profile, authUser, person, Job, Idle
<1>7. OneChange'
  <2>1. /\ \A v \in Workers \ {w} : job'[v] = job[v]
        /\ job'[w].phase \notin {"change", "reopen"} /\ disabled' = disabled
    BY SMT DEF Sync, TypeOK, Reconcile, Goes, Busy, profile, authUser, person, Job, Idle
  <2> QED
    BY <2>1 DEF Sync, OneChange, Locked
<1> QED
  BY <1>1, <1>2, <1>3, <1>4, <1>5, <1>6, <1>7 DEF Sync

LEMMA TakeLockKeeps ==
    ASSUME SyncAssumption, Sync, NEW w \in Workers, TakeLock(w)
    PROVE  Sync'
<1>1. TypeOK'
  <2>1. job' \in [Workers -> [phase : Phases, state : BOOLEAN, gen : Nat, stamp : Nat, mint : BOOLEAN]]
    <3> DEFINE After == IF pending THEN Job("calling", disabled, generation, 0, job[w].mint) ELSE AfterSync(w)
    <3>1. After \in [phase : Phases, state : BOOLEAN, gen : Nat, stamp : Nat, mint : BOOLEAN]
      BY SMT DEF Sync, TypeOK, Phases, AfterSync, Job, Idle
    <3>2. job' = [job EXCEPT ![w] = After]
      BY DEF TakeLock, Goes
    <3> QED
      BY <3>1, <3>2 DEF Sync, TypeOK
  <2>2. \A v \in Workers : (lock' = v) <=> (job'[v].phase \in {"calling", "landed"})
    BY SMT DEF Sync, TypeOK, TakeLock, Goes, AfterSync, profile, authUser, person, Job, Idle, SyncAssumption
  <2> QED
    BY <2>1, <2>2, SMT DEF Sync, TypeOK, TakeLock, Goes, AfterSync, profile, authUser, person, Job, Idle, SyncAssumption
<1>2. FlagHeld' /\ ReadIsCurrent' /\ LandedHolds'
  <2>1. FlagHeld'
    BY SMT DEF Sync, TypeOK, FlagHeld, ReadIsCurrent, LandedHolds, Syncing, SettledHonours, TakeLock, Goes, AfterSync, profile, authUser, person, Job, Idle, SyncAssumption
  <2>2. ReadIsCurrent'
    BY SMT DEF Sync, TypeOK, FlagHeld, ReadIsCurrent, LandedHolds, Syncing, SettledHonours, TakeLock, Goes, AfterSync, profile, authUser, person, Job, Idle, SyncAssumption
  <2>3. LandedHolds'
    BY SMT DEF Sync, TypeOK, FlagHeld, ReadIsCurrent, LandedHolds, Syncing, SettledHonours, TakeLock, Goes, AfterSync, profile, authUser, person, Job, Idle, SyncAssumption
  <2> QED
    BY <2>1, <2>2, <2>3
<1>3. UserMade' /\ SignedIn'
  BY SMTT(30) DEF Sync, TypeOK, UserMade, SignedIn, PastSync, TakeLock, Goes, AfterSync, profile, authUser, person, Job, Idle
<1>4. Carried' => Reached'
  BY <1>1, <1>2, SMTT(30) DEF Sync, TypeOK, FlagHeld, ReadIsCurrent, Syncing, UserMade, SignedIn, Carried, Reached, PastSync, TakeLock, Goes, AfterSync, profile, authUser, person, Job, Idle, SyncAssumption
<1>5. SettledHonours' /\ DisabledIsWithdrawn'
  BY SMTT(30) DEF Sync, TypeOK, FlagHeld, ReadIsCurrent, LandedHolds, Syncing, SettledHonours, DisabledIsWithdrawn, TakeLock, Goes, AfterSync, profile, authUser, person, Job, Idle
<1>6. EndedStayRefused'
  BY SMTT(30) DEF Sync, TypeOK, FlagHeld, EndedStayRefused, Admits, TakeLock, Goes, AfterSync, profile, authUser, person, Job, Idle
<1>7. OneChange'
  <2>1. /\ \A v \in Workers \ {w} : job'[v] = job[v]
        /\ job'[w].phase \notin {"change", "reopen"} /\ disabled' = disabled
    BY SMT DEF Sync, TypeOK, TakeLock, Goes, AfterSync, profile, authUser, person, Job, Idle
  <2> QED
    BY <2>1 DEF Sync, OneChange, Locked
<1> QED
  BY <1>1, <1>2, <1>3, <1>4, <1>5, <1>6, <1>7 DEF Sync

LEMMA LandKeeps ==
    ASSUME SyncAssumption, Sync, NEW w \in Workers, Land(w)
    PROVE  Sync'
<1>1. TypeOK'
  <2>1. job' \in [Workers -> [phase : Phases, state : BOOLEAN, gen : Nat, stamp : Nat, mint : BOOLEAN]]
    BY SMT DEF Sync, TypeOK, Phases, Land, Goes, Applied, profile, authUser, person, Job, Idle
  <2>2. \A v \in Workers : (lock' = v) <=> (job'[v].phase \in {"calling", "landed"})
    BY SMT DEF Sync, TypeOK, Land, Goes, Applied, profile, authUser, person, Job, Idle, SyncAssumption
  <2>3. /\ auth' \in {"absent", "banned", "active"} /\ chosen' \in BOOLEAN
        /\ link' \in Workers \cup {None} /\ dead' \subseteq sessions
    BY DEF Sync, TypeOK, Land, Applied
  <2> QED
    BY <2>1, <2>2, <2>3, SMT DEF Sync, TypeOK, Land, profile
<1>2. FlagHeld' /\ ReadIsCurrent' /\ LandedHolds'
  <2>1. FlagHeld'
    BY SMT DEF Sync, TypeOK, FlagHeld, ReadIsCurrent, LandedHolds, Syncing, SettledHonours, Land, Goes, Applied, profile, authUser, person, Job, Idle, SyncAssumption
  <2>2. ReadIsCurrent'
    BY SMT DEF Sync, TypeOK, FlagHeld, ReadIsCurrent, LandedHolds, Syncing, SettledHonours, Land, Goes, Applied, profile, authUser, person, Job, Idle, SyncAssumption
  <2>3. LandedHolds'
    <3> SUFFICES ASSUME NEW v \in Workers, job'[v].phase = "landed", job'[v].gen = generation', disabled'
                 PROVE  auth' # "active"
      BY DEF LandedHolds
    <3>1. CASE v = w
      <4>1. job'[w].gen = job[w].gen /\ job[w].phase = "calling" /\ UNCHANGED <<disabled, generation>>
        BY SMT DEF Sync, TypeOK, Land, Goes, Job, profile
      <4>2. job[w].state
        BY <3>1, <4>1 DEF Sync, ReadIsCurrent, Syncing
      <4> QED
        BY <4>2 DEF Land, Applied
    <3>2. CASE v # w
      <4>1. job'[v] = job[v]
        BY <3>2, SMT DEF Sync, TypeOK, Land, Goes
      <4>2. lock = v /\ lock = w
        BY <4>1 DEF Sync, TypeOK, Land
      <4> QED
        BY <3>2, <4>2
    <3> QED
      BY <3>1, <3>2
  <2> QED
    BY <2>1, <2>2, <2>3
<1>3. UserMade' /\ SignedIn'
  BY SMTT(30) DEF Sync, TypeOK, UserMade, SignedIn, PastSync, Land, Goes, Applied, profile, authUser, person, Job, Idle
<1>4. Carried' => Reached'
  BY <1>1, <1>2, SMTT(30) DEF Sync, TypeOK, FlagHeld, ReadIsCurrent, Syncing, UserMade, SignedIn, Carried, Reached, PastSync, Land, Goes, Applied, profile, authUser, person, Job, Idle, SyncAssumption
<1>5. SettledHonours' /\ DisabledIsWithdrawn'
  BY SMTT(30) DEF Sync, TypeOK, FlagHeld, ReadIsCurrent, LandedHolds, Syncing, SettledHonours, DisabledIsWithdrawn, Land, Goes, Applied, profile, authUser, person, Job, Idle
<1>6. EndedStayRefused'
  BY SMTT(30) DEF Sync, TypeOK, FlagHeld, EndedStayRefused, Admits, Land, Goes, Applied, profile, authUser, person, Job, Idle
<1>7. OneChange'
  <2>1. /\ \A v \in Workers \ {w} : job'[v] = job[v]
        /\ job'[w].phase \notin {"change", "reopen"} /\ disabled' = disabled
    BY SMT DEF Sync, TypeOK, Land, Goes, profile, authUser, person, Job, Idle
  <2> QED
    BY <2>1 DEF Sync, OneChange, Locked
<1> QED
  BY <1>1, <1>2, <1>3, <1>4, <1>5, <1>6, <1>7 DEF Sync

LEMMA FinishKeeps ==
    ASSUME SyncAssumption, Sync, NEW w \in Workers, Finish(w)
    PROVE  Sync'
<1>1. TypeOK'
  BY SMTT(30) DEF Sync, TypeOK, Phases, Finish, Goes, AfterSync, Rotated, StillFlagged, profile, authUser, person, Job, Idle, SyncAssumption
<1>2. FlagHeld' /\ ReadIsCurrent' /\ LandedHolds'
  <2>1. FlagHeld'
    BY SMT DEF Sync, TypeOK, FlagHeld, ReadIsCurrent, LandedHolds, Syncing, SettledHonours, Finish, Goes, AfterSync, Rotated, StillFlagged, profile, authUser, person, Job, Idle, SyncAssumption
  <2>2. ReadIsCurrent'
    BY SMT DEF Sync, TypeOK, FlagHeld, ReadIsCurrent, LandedHolds, Syncing, SettledHonours, Finish, Goes, AfterSync, Rotated, StillFlagged, profile, authUser, person, Job, Idle, SyncAssumption
  <2>3. LandedHolds'
    BY SMT DEF Sync, TypeOK, FlagHeld, ReadIsCurrent, LandedHolds, Syncing, SettledHonours, Finish, Goes, AfterSync, Rotated, StillFlagged, profile, authUser, person, Job, Idle, SyncAssumption
  <2> QED
    BY <2>1, <2>2, <2>3
<1>3. UserMade' /\ SignedIn'
  BY SMTT(30) DEF Sync, TypeOK, UserMade, SignedIn, PastSync, Finish, Goes, AfterSync, Rotated, StillFlagged, profile, authUser, person, Job, Idle
<1>4. Carried' => Reached'
  BY <1>1, <1>2, SMTT(30) DEF Sync, TypeOK, FlagHeld, ReadIsCurrent, Syncing, UserMade, SignedIn, Carried, Reached, PastSync, Finish, Goes, AfterSync, Rotated, StillFlagged, profile, authUser, person, Job, Idle, SyncAssumption
<1>5. SettledHonours' /\ DisabledIsWithdrawn'
  BY SMTT(30) DEF Sync, TypeOK, FlagHeld, ReadIsCurrent, LandedHolds, Syncing, SettledHonours, DisabledIsWithdrawn, Finish, Goes, AfterSync, Rotated, StillFlagged, profile, authUser, person, Job, Idle
<1>6. EndedStayRefused'
  BY SMTT(30) DEF Sync, TypeOK, FlagHeld, EndedStayRefused, Admits, Finish, Goes, AfterSync, Rotated, StillFlagged, profile, authUser, person, Job, Idle
<1>7. OneChange'
  <2>1. /\ \A v \in Workers \ {w} : job'[v] = job[v]
        /\ job'[w].phase \notin {"change", "reopen"} /\ disabled' = disabled
    BY SMT DEF Sync, TypeOK, Finish, Goes, AfterSync, profile, authUser, person, Job, Idle
  <2> QED
    BY <2>1 DEF Sync, OneChange, Locked
<1> QED
  BY <1>1, <1>2, <1>3, <1>4, <1>5, <1>6, <1>7 DEF Sync

LEMMA ResumeKeeps ==
    ASSUME SyncAssumption, Sync, NEW w \in Workers, Resume(w)
    PROVE  Sync'
<1>1. TypeOK'
  BY SMTT(30) DEF Sync, TypeOK, Phases, Resume, Goes, Busy, profile, authUser, person, Job, Idle, SyncAssumption
<1>2. FlagHeld' /\ ReadIsCurrent' /\ LandedHolds'
  <2>1. FlagHeld'
    BY SMT DEF Sync, TypeOK, FlagHeld, ReadIsCurrent, LandedHolds, Syncing, SettledHonours, Resume, Goes, Busy, profile, authUser, person, Job, Idle, SyncAssumption
  <2>2. /\ \A v \in Workers \ {w} : job'[v] = job[v]
        /\ job'[w].phase \notin {"calling", "landed"}
        /\ UNCHANGED <<disabled, generation>>
        /\ auth' = "active" => auth = "active"
        /\ strayed' = strayed
    BY SMT DEF Sync, TypeOK, Resume, Goes, Busy, profile, authUser, person, Job, Idle
  <2> QED
    BY <2>1, <2>2, QuietKeepsReads
<1>3. UserMade' /\ SignedIn'
  BY SMTT(30) DEF Sync, TypeOK, UserMade, SignedIn, PastSync, Resume, Goes, Busy, profile, authUser, person, Job, Idle
<1>4. Carried' => Reached'
  BY <1>1, <1>2, SMTT(30) DEF Sync, TypeOK, FlagHeld, ReadIsCurrent, Syncing, UserMade, SignedIn, Carried, Reached, PastSync, Resume, Goes, Busy, profile, authUser, person, Job, Idle, SyncAssumption
<1>5. SettledHonours' /\ DisabledIsWithdrawn'
  BY SMTT(30) DEF Sync, TypeOK, FlagHeld, ReadIsCurrent, LandedHolds, Syncing, SettledHonours, DisabledIsWithdrawn, Resume, Goes, Busy, profile, authUser, person, Job, Idle
<1>6. EndedStayRefused'
  BY SMTT(30) DEF Sync, TypeOK, FlagHeld, EndedStayRefused, Admits, Resume, Goes, Busy, profile, authUser, person, Job, Idle
<1>7. OneChange'
  <2>1. /\ \A v \in Workers \ {w} : job'[v] = job[v]
        /\ job'[w].phase \notin {"change", "reopen"} /\ disabled' = disabled
    BY SMT DEF Sync, TypeOK, Resume, Goes, Busy, profile, authUser, person, Job, Idle
  <2> QED
    BY <2>1 DEF Sync, OneChange, Locked
<1> QED
  BY <1>1, <1>2, <1>3, <1>4, <1>5, <1>6, <1>7 DEF Sync

LEMMA ReadKeeps ==
    ASSUME SyncAssumption, Sync, NEW w \in Workers, ReadInvitation(w)
    PROVE  Sync'
<1>1. TypeOK'
  BY SMTT(30) DEF Sync, TypeOK, Phases, ReadInvitation, Goes, profile, authUser, person, Job, Idle, SyncAssumption
<1>2. FlagHeld' /\ ReadIsCurrent' /\ LandedHolds'
  <2>1. FlagHeld'
    BY SMT DEF Sync, TypeOK, FlagHeld, ReadIsCurrent, LandedHolds, Syncing, SettledHonours, ReadInvitation, Goes, profile, authUser, person, Job, Idle, SyncAssumption
  <2>2. /\ \A v \in Workers \ {w} : job'[v] = job[v]
        /\ job'[w].phase \notin {"calling", "landed"}
        /\ UNCHANGED <<disabled, generation>>
        /\ auth' = "active" => auth = "active"
        /\ strayed' = strayed
    BY SMT DEF Sync, TypeOK, ReadInvitation, Goes, profile, authUser, person, Job, Idle
  <2> QED
    BY <2>1, <2>2, QuietKeepsReads
<1>3. UserMade' /\ SignedIn'
  BY SMTT(30) DEF Sync, TypeOK, UserMade, SignedIn, PastSync, ReadInvitation, Goes, profile, authUser, person, Job, Idle
<1>4. Carried' => Reached'
  BY <1>1, <1>2, SMTT(30) DEF Sync, TypeOK, FlagHeld, ReadIsCurrent, Syncing, UserMade, SignedIn, Carried, Reached, PastSync, ReadInvitation, Goes, profile, authUser, person, Job, Idle, SyncAssumption
<1>5. SettledHonours' /\ DisabledIsWithdrawn'
  BY SMTT(30) DEF Sync, TypeOK, FlagHeld, ReadIsCurrent, LandedHolds, Syncing, SettledHonours, DisabledIsWithdrawn, ReadInvitation, Goes, profile, authUser, person, Job, Idle
<1>6. EndedStayRefused'
  BY SMTT(30) DEF Sync, TypeOK, FlagHeld, EndedStayRefused, Admits, ReadInvitation, Goes, profile, authUser, person, Job, Idle
<1>7. OneChange'
  <2>1. /\ \A v \in Workers \ {w} : job'[v] = job[v]
        /\ job'[w].phase \notin {"change", "reopen"} /\ disabled' = disabled
    BY SMT DEF Sync, TypeOK, ReadInvitation, Goes, profile, authUser, person, Job, Idle
  <2> QED
    BY <2>1 DEF Sync, OneChange, Locked
<1> QED
  BY <1>1, <1>2, <1>3, <1>4, <1>5, <1>6, <1>7 DEF Sync

LEMMA EnsureKeeps ==
    ASSUME SyncAssumption, Sync, NEW w \in Workers, EnsureUser(w)
    PROVE  Sync'
<1>1. TypeOK'
  BY SMTT(30) DEF Sync, TypeOK, Phases, EnsureUser, Goes, BornAs, profile, authUser, person, Job, Idle, SyncAssumption
<1>2. FlagHeld' /\ ReadIsCurrent' /\ LandedHolds'
  <2>1. FlagHeld'
    BY SMT DEF Sync, TypeOK, FlagHeld, ReadIsCurrent, LandedHolds, Syncing, SettledHonours, EnsureUser, Goes, BornAs, profile, authUser, person, Job, Idle, SyncAssumption
  <2>2. /\ \A v \in Workers \ {w} : job'[v] = job[v]
        /\ job'[w].phase \notin {"calling", "landed"}
        /\ UNCHANGED <<disabled, generation>>
        /\ auth' = "active" => auth = "active"
        /\ strayed' = strayed
    BY SMT DEF Sync, TypeOK, EnsureUser, Goes, BornAs, profile, authUser, person, Job, Idle
  <2> QED
    BY <2>1, <2>2, QuietKeepsReads
<1>3. UserMade' /\ SignedIn'
  BY SMTT(30) DEF Sync, TypeOK, UserMade, SignedIn, PastSync, EnsureUser, Goes, BornAs, profile, authUser, person, Job, Idle
<1>4. Carried' => Reached'
  <2>1. /\ \A v \in Workers \ {w} : job'[v] = job[v]
        /\ job'[w].phase = "reread" /\ job'[w].state = (auth' = "banned")
        /\ UNCHANGED <<disabled, pending, generation, invitation, confirmed, strayed>>
    BY SMT DEF Sync, TypeOK, EnsureUser, Goes, profile, authUser, person, Job, Idle
  <2>2. CASE auth = "absent"
    <3>1. auth' = "banned"
      BY <2>2 DEF EnsureUser, BornAs
    <3>2. ~Carried
      BY <2>2 DEF Sync, Reached
    <3>3. ~Carried'
      BY <2>1, <3>1, <3>2 DEF Carried, PastSync
    <3> QED
      BY <3>3
  <2>3. CASE auth # "absent"
    <3>1. auth' = auth
      BY <2>3 DEF EnsureUser
    <3>2. CASE Carried
      BY <2>1, <3>1, <3>2 DEF Sync, Reached
    <3>3. CASE ~Carried /\ Carried'
      <4>1. PastSync(w)'
        BY <2>1, <3>3 DEF Carried, PastSync
      <4>2. auth' = "active"
        BY <2>1, <2>3, <3>1, <4>1 DEF PastSync, Sync, TypeOK
      <4> QED
        BY <4>2 DEF Reached
    <3> QED
      BY <3>2, <3>3
  <2> QED
    BY <2>2, <2>3
<1>5. SettledHonours' /\ DisabledIsWithdrawn'
  BY SMTT(30) DEF Sync, TypeOK, FlagHeld, ReadIsCurrent, LandedHolds, Syncing, SettledHonours, DisabledIsWithdrawn, EnsureUser, Goes, BornAs, profile, authUser, person, Job, Idle
<1>6. EndedStayRefused'
  BY SMTT(30) DEF Sync, TypeOK, FlagHeld, EndedStayRefused, Admits, EnsureUser, Goes, BornAs, profile, authUser, person, Job, Idle
<1>7. OneChange'
  <2>1. /\ \A v \in Workers \ {w} : job'[v] = job[v]
        /\ job'[w].phase \notin {"change", "reopen"} /\ disabled' = disabled
    BY SMT DEF Sync, TypeOK, EnsureUser, Goes, profile, authUser, person, Job, Idle
  <2> QED
    BY <2>1 DEF Sync, OneChange, Locked
<1> QED
  BY <1>1, <1>2, <1>3, <1>4, <1>5, <1>6, <1>7 DEF Sync

LEMMA RereadKeeps ==
    ASSUME SyncAssumption, Sync, NEW w \in Workers, Reread(w)
    PROVE  Sync'
<1>1. TypeOK'
  BY SMTT(30) DEF Sync, TypeOK, Phases, Reread, Goes, profile, authUser, person, Job, Idle, SyncAssumption
<1>2. FlagHeld' /\ ReadIsCurrent' /\ LandedHolds'
  <2>1. FlagHeld'
    BY SMT DEF Sync, TypeOK, FlagHeld, ReadIsCurrent, LandedHolds, Syncing, SettledHonours, Reread, Goes, profile, authUser, person, Job, Idle, SyncAssumption
  <2>2. /\ \A v \in Workers \ {w} : job'[v] = job[v]
        /\ job'[w].phase \notin {"calling", "landed"}
        /\ UNCHANGED <<disabled, generation>>
        /\ auth' = "active" => auth = "active"
        /\ strayed' = strayed
    BY SMT DEF Sync, TypeOK, Reread, Goes, profile, authUser, person, Job, Idle
  <2> QED
    BY <2>1, <2>2, QuietKeepsReads
<1>3. UserMade' /\ SignedIn'
  BY SMTT(30) DEF Sync, TypeOK, UserMade, SignedIn, PastSync, Reread, Goes, profile, authUser, person, Job, Idle
<1>4. Carried' => Reached'
  BY <1>1, <1>2, SMTT(30) DEF Sync, TypeOK, FlagHeld, ReadIsCurrent, Syncing, UserMade, SignedIn, Carried, Reached, PastSync, Reread, Goes, profile, authUser, person, Job, Idle, SyncAssumption
<1>5. SettledHonours' /\ DisabledIsWithdrawn'
  BY SMTT(30) DEF Sync, TypeOK, FlagHeld, ReadIsCurrent, LandedHolds, Syncing, SettledHonours, DisabledIsWithdrawn, Reread, Goes, profile, authUser, person, Job, Idle
<1>6. EndedStayRefused'
  BY SMTT(30) DEF Sync, TypeOK, FlagHeld, EndedStayRefused, Admits, Reread, Goes, profile, authUser, person, Job, Idle
<1>7. OneChange'
  <2>1. /\ \A v \in Workers \ {w} : job'[v] = job[v]
        /\ job'[w].phase \notin {"change", "reopen"} /\ disabled' = disabled
    BY SMT DEF Sync, TypeOK, Reread, Goes, profile, authUser, person, Job, Idle
  <2> QED
    BY <2>1 DEF Sync, OneChange, Locked
<1> QED
  BY <1>1, <1>2, <1>3, <1>4, <1>5, <1>6, <1>7 DEF Sync

LEMMA ArmKeeps ==
    ASSUME SyncAssumption, Sync, NEW w \in Workers, Arm(w)
    PROVE  Sync'
<1>1. TypeOK'
  BY SMTT(30) DEF Sync, TypeOK, Phases, Arm, Goes, profile, authUser, person, Job, Idle, SyncAssumption
<1>2. FlagHeld' /\ ReadIsCurrent' /\ LandedHolds'
  <2>1. FlagHeld'
    BY SMT DEF Sync, TypeOK, FlagHeld, ReadIsCurrent, LandedHolds, Syncing, SettledHonours, Arm, Goes, profile, authUser, person, Job, Idle, SyncAssumption
  <2>2. ReadIsCurrent'
    <3>1. /\ \A v \in Workers \ {w} : job'[v] = job[v]
          /\ job'[w].phase = "apply"
          /\ generation' = generation + 1 /\ generation \in Nat
          /\ \A v \in Workers : job[v].gen \in Nat
      BY SMT DEF Sync, TypeOK, Arm, Goes, Job
    <3>2. ASSUME NEW v \in Workers, Syncing(v)'
          PROVE  job'[v].gen < generation'
      <4>1. job'[v] = job[v] /\ Syncing(v)
        BY <3>1, <3>2 DEF Syncing
      <4>2. job[v].gen <= generation
        BY <4>1 DEF Sync, ReadIsCurrent
      <4> QED
        BY <3>1, <4>1, <4>2, SMT
    <3>3. \A v \in Workers : Syncing(v)' => job'[v].gen \in Nat
      BY <3>1 DEF Syncing
    <3> QED
      BY <3>1, <3>2, <3>3, SMT DEF ReadIsCurrent
  <2>3. LandedHolds'
    <3> SUFFICES ASSUME NEW v \in Workers, job'[v].phase = "landed", job'[v].gen = generation', disabled'
                 PROVE  auth' # "active"
      BY DEF LandedHolds
    <3>1. CASE v = w
      BY <3>1, <2>2, SMT DEF Sync, TypeOK, ReadIsCurrent, Syncing, Arm, Goes, profile, authUser, person, Job, Idle
    <3>2. CASE v # w
      <4>1. job'[v] = job[v] /\ generation' = generation + 1
        BY <3>2, SMT DEF Sync, TypeOK, Arm, Goes
      <4>2. job[v].gen <= generation
        BY <4>1 DEF Sync, ReadIsCurrent, Syncing
      <4>3. job[v].gen \in Nat /\ generation \in Nat
        BY DEF Sync, TypeOK
      <4> QED
        BY <4>1, <4>2, <4>3, SMT
    <3> QED
      BY <3>1, <3>2
  <2> QED
    BY <2>1, <2>2, <2>3
<1>3. UserMade' /\ SignedIn'
  BY SMTT(30) DEF Sync, TypeOK, UserMade, SignedIn, PastSync, Arm, Goes, profile, authUser, person, Job, Idle
<1>4. Carried' => Reached'
  BY <1>1, <1>2, SMTT(30) DEF Sync, TypeOK, FlagHeld, ReadIsCurrent, Syncing, UserMade, SignedIn, Carried, Reached, PastSync, Arm, Goes, profile, authUser, person, Job, Idle, SyncAssumption
<1>5. SettledHonours' /\ DisabledIsWithdrawn'
  BY SMTT(30) DEF Sync, TypeOK, FlagHeld, ReadIsCurrent, LandedHolds, Syncing, SettledHonours, DisabledIsWithdrawn, Arm, Goes, profile, authUser, person, Job, Idle
<1>6. EndedStayRefused'
  BY SMTT(30) DEF Sync, TypeOK, FlagHeld, EndedStayRefused, Admits, Arm, Goes, profile, authUser, person, Job, Idle
<1>7. OneChange'
  <2>1. /\ \A v \in Workers \ {w} : job'[v] = job[v]
        /\ job'[w].phase \notin {"change", "reopen"} /\ disabled' = disabled
    BY SMT DEF Sync, TypeOK, Arm, Goes, profile, authUser, person, Job, Idle
  <2> QED
    BY <2>1 DEF Sync, OneChange, Locked
<1> QED
  BY <1>1, <1>2, <1>3, <1>4, <1>5, <1>6, <1>7 DEF Sync

LEMMA MintKeeps ==
    ASSUME SyncAssumption, Sync, NEW w \in Workers, Mint(w)
    PROVE  Sync'
<1>1. TypeOK'
  <2>1. job' \in [Workers -> [phase : Phases, state : BOOLEAN, gen : Nat, stamp : Nat, mint : BOOLEAN]]
    <3>1. Idle \in [phase : Phases, state : BOOLEAN, gen : Nat, stamp : Nat, mint : BOOLEAN] /\ Job("mail", FALSE, 0, 0, FALSE) \in [phase : Phases, state : BOOLEAN, gen : Nat, stamp : Nat, mint : BOOLEAN]
      BY SMT DEF Phases, Job, Idle
    <3>2. \/ job' = [job EXCEPT ![w] = Idle]
          \/ job' = [job EXCEPT ![w] = Job("mail", FALSE, 0, 0, FALSE)]
      BY DEF Mint, Goes, Ends
    <3> QED
      BY <3>1, <3>2 DEF Sync, TypeOK
  <2>2. \A v \in Workers : (lock' = v) <=> (job'[v].phase \in {"calling", "landed"})
    BY SMT DEF Sync, TypeOK, Mint, Goes, Ends, profile, authUser, person, Job, Idle, SyncAssumption
  <2> QED
    BY <2>1, <2>2, SMT DEF Sync, TypeOK, Mint, Goes, Ends, profile, authUser, person, Job, Idle, SyncAssumption
<1>2. FlagHeld' /\ ReadIsCurrent' /\ LandedHolds'
  <2>1. FlagHeld'
    BY SMT DEF Sync, TypeOK, FlagHeld, ReadIsCurrent, LandedHolds, Syncing, SettledHonours, Mint, Goes, Ends, profile, authUser, person, Job, Idle, SyncAssumption
  <2>2. /\ \A v \in Workers \ {w} : job'[v] = job[v]
        /\ job'[w].phase \notin {"calling", "landed"}
        /\ UNCHANGED <<disabled, generation>>
        /\ auth' = "active" => auth = "active"
        /\ strayed' = strayed
    BY SMT DEF Sync, TypeOK, Mint, Goes, Ends, profile, authUser, person, Job, Idle
  <2> QED
    BY <2>1, <2>2, QuietKeepsReads
<1>3. UserMade' /\ SignedIn'
  BY SMTT(30) DEF Sync, TypeOK, UserMade, SignedIn, PastSync, Mint, Goes, Ends, profile, authUser, person, Job, Idle
<1>4. Carried' => Reached'
  BY <1>1, <1>2, SMTT(30) DEF Sync, TypeOK, FlagHeld, ReadIsCurrent, Syncing, UserMade, SignedIn, Carried, Reached, PastSync, Mint, Goes, Ends, profile, authUser, person, Job, Idle, SyncAssumption
<1>5. SettledHonours' /\ DisabledIsWithdrawn'
  BY SMTT(30) DEF Sync, TypeOK, FlagHeld, ReadIsCurrent, LandedHolds, Syncing, SettledHonours, DisabledIsWithdrawn, Mint, Goes, Ends, profile, authUser, person, Job, Idle
<1>6. EndedStayRefused'
  BY SMTT(30) DEF Sync, TypeOK, FlagHeld, EndedStayRefused, Admits, Mint, Goes, Ends, profile, authUser, person, Job, Idle
<1>7. OneChange'
  <2>1. /\ \A v \in Workers \ {w} : job'[v] = job[v]
        /\ job'[w].phase \notin {"change", "reopen"} /\ disabled' = disabled
    BY SMT DEF Sync, TypeOK, Mint, Goes, Ends, profile, authUser, person, Job, Idle
  <2> QED
    BY <2>1 DEF Sync, OneChange, Locked
<1> QED
  BY <1>1, <1>2, <1>3, <1>4, <1>5, <1>6, <1>7 DEF Sync

LEMMA MailKeeps ==
    ASSUME SyncAssumption, Sync, NEW w \in Workers, Mail(w)
    PROVE  Sync'
<1>1. TypeOK'
  BY SMTT(30) DEF Sync, TypeOK, Phases, Mail, Goes, profile, authUser, person, Job, Idle, SyncAssumption
<1>2. FlagHeld' /\ ReadIsCurrent' /\ LandedHolds'
  <2>1. FlagHeld'
    BY SMT DEF Sync, TypeOK, FlagHeld, ReadIsCurrent, LandedHolds, Syncing, SettledHonours, Mail, Goes, profile, authUser, person, Job, Idle, SyncAssumption
  <2>2. /\ \A v \in Workers \ {w} : job'[v] = job[v]
        /\ job'[w].phase \notin {"calling", "landed"}
        /\ UNCHANGED <<disabled, generation>>
        /\ auth' = "active" => auth = "active"
        /\ strayed' = strayed
    BY SMT DEF Sync, TypeOK, Mail, Goes, profile, authUser, person, Job, Idle
  <2> QED
    BY <2>1, <2>2, QuietKeepsReads
<1>3. UserMade' /\ SignedIn'
  BY SMTT(30) DEF Sync, TypeOK, UserMade, SignedIn, PastSync, Mail, Goes, profile, authUser, person, Job, Idle
<1>4. Carried' => Reached'
  BY <1>1, <1>2, SMTT(30) DEF Sync, TypeOK, FlagHeld, ReadIsCurrent, Syncing, UserMade, SignedIn, Carried, Reached, PastSync, Mail, Goes, profile, authUser, person, Job, Idle, SyncAssumption
<1>5. SettledHonours' /\ DisabledIsWithdrawn'
  BY SMTT(30) DEF Sync, TypeOK, FlagHeld, ReadIsCurrent, LandedHolds, Syncing, SettledHonours, DisabledIsWithdrawn, Mail, Goes, profile, authUser, person, Job, Idle
<1>6. EndedStayRefused'
  BY SMTT(30) DEF Sync, TypeOK, FlagHeld, EndedStayRefused, Admits, Mail, Goes, profile, authUser, person, Job, Idle
<1>7. OneChange'
  <2>1. /\ \A v \in Workers \ {w} : job'[v] = job[v]
        /\ job'[w].phase \notin {"change", "reopen"} /\ disabled' = disabled
    BY SMT DEF Sync, TypeOK, Mail, Goes, profile, authUser, person, Job, Idle
  <2> QED
    BY <2>1 DEF Sync, OneChange, Locked
<1> QED
  BY <1>1, <1>2, <1>3, <1>4, <1>5, <1>6, <1>7 DEF Sync

LEMMA RecordKeeps ==
    ASSUME SyncAssumption, Sync, NEW w \in Workers, Record(w)
    PROVE  Sync'
<1>1. TypeOK'
  BY SMTT(30) DEF Sync, TypeOK, Phases, Record, Goes, Ends, Sent, profile, authUser, person, Job, Idle, SyncAssumption
<1>2. FlagHeld' /\ ReadIsCurrent' /\ LandedHolds'
  <2>1. FlagHeld'
    BY SMT DEF Sync, TypeOK, FlagHeld, ReadIsCurrent, LandedHolds, Syncing, SettledHonours, Record, Goes, Ends, Sent, profile, authUser, person, Job, Idle, SyncAssumption
  <2>2. /\ \A v \in Workers \ {w} : job'[v] = job[v]
        /\ job'[w].phase \notin {"calling", "landed"}
        /\ UNCHANGED <<disabled, generation>>
        /\ auth' = "active" => auth = "active"
        /\ strayed' = strayed
    BY SMT DEF Sync, TypeOK, Record, Goes, Ends, Sent, profile, authUser, person, Job, Idle
  <2> QED
    BY <2>1, <2>2, QuietKeepsReads
<1>3. UserMade' /\ SignedIn'
  BY SMTT(30) DEF Sync, TypeOK, UserMade, SignedIn, PastSync, Record, Goes, Ends, Sent, profile, authUser, person, Job, Idle
<1>4. Carried' => Reached'
  BY <1>1, <1>2, SMTT(30) DEF Sync, TypeOK, FlagHeld, ReadIsCurrent, Syncing, UserMade, SignedIn, Carried, Reached, PastSync, Record, Goes, Ends, Sent, profile, authUser, person, Job, Idle, SyncAssumption
<1>5. SettledHonours' /\ DisabledIsWithdrawn'
  BY SMTT(30) DEF Sync, TypeOK, FlagHeld, ReadIsCurrent, LandedHolds, Syncing, SettledHonours, DisabledIsWithdrawn, Record, Goes, Ends, Sent, profile, authUser, person, Job, Idle
<1>6. EndedStayRefused'
  BY SMTT(30) DEF Sync, TypeOK, FlagHeld, EndedStayRefused, Admits, Record, Goes, Ends, Sent, profile, authUser, person, Job, Idle
<1>7. OneChange'
  <2>1. /\ \A v \in Workers \ {w} : job'[v] = job[v]
        /\ job'[w].phase \notin {"change", "reopen"} /\ disabled' = disabled
    BY SMT DEF Sync, TypeOK, Record, Goes, Ends, profile, authUser, person, Job, Idle
  <2> QED
    BY <2>1 DEF Sync, OneChange, Locked
<1> QED
  BY <1>1, <1>2, <1>3, <1>4, <1>5, <1>6, <1>7 DEF Sync

LEMMA CallKeeps ==
    ASSUME SyncAssumption, Sync, NEW w \in Workers, Call(w)
    PROVE  Sync'
<1>1. TypeOK'
  BY SMTT(30) DEF Sync, TypeOK, Phases, Call, Goes, Busy, Admits, profile, authUser, person, Job, Idle, SyncAssumption
<1>2. FlagHeld' /\ ReadIsCurrent' /\ LandedHolds'
  <2>1. FlagHeld'
    BY SMT DEF Sync, TypeOK, FlagHeld, ReadIsCurrent, LandedHolds, Syncing, SettledHonours, Call, Goes, Busy, Admits, profile, authUser, person, Job, Idle, SyncAssumption
  <2>2. /\ \A v \in Workers \ {w} : job'[v] = job[v]
        /\ job'[w].phase \notin {"calling", "landed"}
        /\ UNCHANGED <<disabled, generation>>
        /\ auth' = "active" => auth = "active"
        /\ strayed' = strayed
    BY SMT DEF Sync, TypeOK, Call, Goes, Busy, Admits, profile, authUser, person, Job, Idle
  <2> QED
    BY <2>1, <2>2, QuietKeepsReads
<1>3. UserMade' /\ SignedIn'
  BY SMTT(30) DEF Sync, TypeOK, UserMade, SignedIn, PastSync, Call, Goes, Busy, Admits, profile, authUser, person, Job, Idle
<1>4. Carried' => Reached'
  BY <1>1, <1>2, SMTT(30) DEF Sync, TypeOK, FlagHeld, ReadIsCurrent, Syncing, UserMade, SignedIn, Carried, Reached, PastSync, Call, Goes, Busy, Admits, profile, authUser, person, Job, Idle, SyncAssumption
<1>5. SettledHonours' /\ DisabledIsWithdrawn'
  BY SMTT(30) DEF Sync, TypeOK, FlagHeld, ReadIsCurrent, LandedHolds, Syncing, SettledHonours, DisabledIsWithdrawn, Call, Goes, Busy, Admits, profile, authUser, person, Job, Idle
<1>6. EndedStayRefused'
  <2>1. UNCHANGED <<disabled, revoked, pending, dead, strayed>>
    BY DEF Call, profile, person
  <2> QED
    BY <2>1 DEF Sync, EndedStayRefused, Admits
<1>7. OneChange'
  <2>1. /\ \A v \in Workers \ {w} : job'[v] = job[v]
        /\ job'[w].phase \notin {"change", "reopen"} /\ disabled' = disabled
    BY SMT DEF Sync, TypeOK, Call, Goes, Busy, profile, authUser, person, Job, Idle
  <2> QED
    BY <2>1 DEF Sync, OneChange, Locked
<1> QED
  BY <1>1, <1>2, <1>3, <1>4, <1>5, <1>6, <1>7 DEF Sync

LEMMA AcceptKeeps ==
    ASSUME SyncAssumption, Sync, NEW w \in Workers, Accept(w)
    PROVE  Sync'
<1>1. TypeOK'
  BY SMTT(30) DEF Sync, TypeOK, Phases, Accept, Goes, Ends, profile, authUser, person, Job, Idle, SyncAssumption
<1>2. FlagHeld' /\ ReadIsCurrent' /\ LandedHolds'
  <2>1. FlagHeld'
    BY SMT DEF Sync, TypeOK, FlagHeld, ReadIsCurrent, LandedHolds, Syncing, SettledHonours, Accept, Goes, Ends, profile, authUser, person, Job, Idle, SyncAssumption
  <2>2. /\ \A v \in Workers \ {w} : job'[v] = job[v]
        /\ job'[w].phase \notin {"calling", "landed"}
        /\ UNCHANGED <<disabled, generation>>
        /\ auth' = "active" => auth = "active"
        /\ strayed' = strayed
    BY SMT DEF Sync, TypeOK, Accept, Goes, Ends, profile, authUser, person, Job, Idle
  <2> QED
    BY <2>1, <2>2, QuietKeepsReads
<1>3. UserMade' /\ SignedIn'
  BY SMTT(30) DEF Sync, TypeOK, UserMade, SignedIn, PastSync, Accept, Goes, Ends, profile, authUser, person, Job, Idle
<1>4. Carried' => Reached'
  BY <1>1, <1>2, SMTT(30) DEF Sync, TypeOK, FlagHeld, ReadIsCurrent, Syncing, UserMade, SignedIn, Carried, Reached, PastSync, Accept, Goes, Ends, profile, authUser, person, Job, Idle, SyncAssumption
<1>5. SettledHonours' /\ DisabledIsWithdrawn'
  BY SMTT(30) DEF Sync, TypeOK, FlagHeld, ReadIsCurrent, LandedHolds, Syncing, SettledHonours, DisabledIsWithdrawn, Accept, Goes, Ends, profile, authUser, person, Job, Idle
<1>6. EndedStayRefused'
  BY SMTT(30) DEF Sync, TypeOK, FlagHeld, EndedStayRefused, Admits, Accept, Goes, Ends, profile, authUser, person, Job, Idle
<1>7. OneChange'
  <2>1. /\ \A v \in Workers \ {w} : job'[v] = job[v]
        /\ job'[w].phase \notin {"change", "reopen"} /\ disabled' = disabled
    BY SMT DEF Sync, TypeOK, Accept, Goes, Ends, profile, authUser, person, Job, Idle
  <2> QED
    BY <2>1 DEF Sync, OneChange, Locked
<1> QED
  BY <1>1, <1>2, <1>3, <1>4, <1>5, <1>6, <1>7 DEF Sync

LEMMA FailKeeps ==
    ASSUME SyncAssumption, Sync, NEW w \in Workers, Fail(w)
    PROVE  Sync'
<1>1. TypeOK'
  BY SMTT(30) DEF Sync, TypeOK, Phases, Fail, Goes, Ends, Busy, Released, profile, authUser, person, Job, Idle, SyncAssumption
<1>2. FlagHeld' /\ ReadIsCurrent' /\ LandedHolds'
  <2>1. FlagHeld'
    BY SMT DEF Sync, TypeOK, FlagHeld, ReadIsCurrent, LandedHolds, Syncing, SettledHonours, Fail, Goes, Ends, Busy, Released, profile, authUser, person, Job, Idle, SyncAssumption
  <2>2. /\ \A v \in Workers \ {w} : job'[v] = job[v]
        /\ job'[w].phase \notin {"calling", "landed"}
        /\ UNCHANGED <<disabled, generation>>
        /\ auth' = "active" => auth = "active"
        /\ strayed' = strayed
    BY SMT DEF Sync, TypeOK, Fail, Goes, Ends, Busy, Released, profile, authUser, person, Job, Idle
  <2> QED
    BY <2>1, <2>2, QuietKeepsReads
<1>3. UserMade' /\ SignedIn'
  BY SMTT(30) DEF Sync, TypeOK, UserMade, SignedIn, PastSync, Fail, Goes, Ends, Busy, Released, profile, authUser, person, Job, Idle
<1>4. Carried' => Reached'
  BY <1>1, <1>2, SMTT(30) DEF Sync, TypeOK, FlagHeld, ReadIsCurrent, Syncing, UserMade, SignedIn, Carried, Reached, PastSync, Fail, Goes, Ends, Busy, Released, profile, authUser, person, Job, Idle, SyncAssumption
<1>5. SettledHonours' /\ DisabledIsWithdrawn'
  BY SMTT(30) DEF Sync, TypeOK, FlagHeld, ReadIsCurrent, LandedHolds, Syncing, SettledHonours, DisabledIsWithdrawn, Fail, Goes, Ends, Busy, Released, profile, authUser, person, Job, Idle
<1>6. EndedStayRefused'
  BY SMTT(30) DEF Sync, TypeOK, FlagHeld, EndedStayRefused, Admits, Fail, Goes, Ends, Busy, Released, profile, authUser, person, Job, Idle
<1>7. OneChange'
  <2>1. /\ \A v \in Workers \ {w} : job'[v] = job[v]
        /\ job'[w].phase \notin {"change", "reopen"} /\ disabled' = disabled
    BY SMT DEF Sync, TypeOK, Fail, Goes, Ends, Busy, profile, authUser, person, Job, Idle
  <2> QED
    BY <2>1 DEF Sync, OneChange, Locked
<1> QED
  BY <1>1, <1>2, <1>3, <1>4, <1>5, <1>6, <1>7 DEF Sync

LEMMA TimesOutKeeps ==
    ASSUME SyncAssumption, Sync, NEW w \in Workers, TimesOut(w)
    PROVE  Sync'
<1>1. TypeOK'
  BY SMTT(30) DEF Sync, TypeOK, Phases, TimesOut, Goes, profile, authUser, person, Job, Idle, SyncAssumption
<1>2. FlagHeld' /\ ReadIsCurrent' /\ LandedHolds'
  <2>1. FlagHeld'
    BY SMT DEF Sync, TypeOK, FlagHeld, ReadIsCurrent, LandedHolds, Syncing, SettledHonours, TimesOut, Goes, profile, authUser, person, Job, Idle, SyncAssumption
  <2>2. /\ \A v \in Workers \ {w} : job'[v] = job[v]
        /\ job'[w].phase \notin {"calling", "landed"}
        /\ UNCHANGED <<disabled, generation>>
        /\ auth' = "active" => auth = "active"
        /\ strayed' = strayed
    BY SMT DEF Sync, TypeOK, TimesOut, Goes, profile, authUser, person, Job, Idle
  <2> QED
    BY <2>1, <2>2, QuietKeepsReads
<1>3. UserMade' /\ SignedIn'
  BY SMTT(30) DEF Sync, TypeOK, UserMade, SignedIn, PastSync, TimesOut, Goes, profile, authUser, person, Job, Idle
<1>4. Carried' => Reached'
  BY <1>1, <1>2, SMTT(30) DEF Sync, TypeOK, FlagHeld, ReadIsCurrent, Syncing, UserMade, SignedIn, Carried, Reached, PastSync, TimesOut, Goes, profile, authUser, person, Job, Idle, SyncAssumption
<1>5. SettledHonours' /\ DisabledIsWithdrawn'
  BY SMTT(30) DEF Sync, TypeOK, FlagHeld, ReadIsCurrent, LandedHolds, Syncing, SettledHonours, DisabledIsWithdrawn, TimesOut, Goes, profile, authUser, person, Job, Idle
<1>6. EndedStayRefused'
  BY SMTT(30) DEF Sync, TypeOK, FlagHeld, EndedStayRefused, Admits, TimesOut, Goes, profile, authUser, person, Job, Idle
<1>7. OneChange'
  <2>1. /\ \A v \in Workers \ {w} : job'[v] = job[v]
        /\ job'[w].phase \notin {"change", "reopen"} /\ disabled' = disabled
    BY SMT DEF Sync, TypeOK, TimesOut, Goes, profile, authUser, person, Job, Idle
  <2> QED
    BY <2>1 DEF Sync, OneChange, Locked
<1> QED
  BY <1>1, <1>2, <1>3, <1>4, <1>5, <1>6, <1>7 DEF Sync

LEMMA LandLateKeeps ==
    ASSUME SyncAssumption, Sync, NEW w \in Workers, LandLate(w)
    PROVE  Sync'
<1>1. TypeOK'
  <2>1. job' \in [Workers -> [phase : Phases, state : BOOLEAN, gen : Nat, stamp : Nat, mint : BOOLEAN]]
    BY SMT DEF Sync, TypeOK, Phases, LandLate, Goes, Ends, Applied, profile, authUser, person, Job, Idle
  <2>2. \A v \in Workers : (lock' = v) <=> (job'[v].phase \in {"calling", "landed"})
    BY SMT DEF Sync, TypeOK, LandLate, Goes, Ends, Applied, profile, authUser, person, Job, Idle, SyncAssumption
  <2>3. /\ auth' \in {"absent", "banned", "active"} /\ chosen' \in BOOLEAN
        /\ link' \in Workers \cup {None} /\ dead' \subseteq sessions
        /\ strayed' \in BOOLEAN
    BY DEF Sync, TypeOK, LandLate, Applied
  <2> QED
    BY <2>1, <2>2, <2>3, SMT DEF Sync, TypeOK, LandLate, profile
<1>2. FlagHeld' /\ ReadIsCurrent' /\ LandedHolds'
  <2>1. FlagHeld'
    BY SMT DEF Sync, TypeOK, FlagHeld, ReadIsCurrent, LandedHolds, Syncing, SettledHonours, LandLate, Goes, Ends, Applied, profile, authUser, person, Job, Idle, SyncAssumption
  <2>2. /\ \A v \in Workers \ {w} : job'[v] = job[v]
        /\ job'[w].phase = "idle"
    BY SMT DEF Sync, TypeOK, LandLate, Goes, Ends, Job, Idle
  <2>3. UNCHANGED <<disabled, generation>> /\ (strayed' \/ UNCHANGED <<auth, strayed>>)
    BY DEF Sync, TypeOK, LandLate, Applied, profile
  <2> QED
    BY <2>1, <2>2, <2>3 DEF Sync, ReadIsCurrent, LandedHolds, Syncing
<1>3. UserMade' /\ SignedIn'
  BY SMTT(30) DEF Sync, TypeOK, UserMade, SignedIn, PastSync, LandLate, Goes, Ends, Applied, profile, authUser, person, Job, Idle
<1>4. Carried' => Reached'
  BY <1>1, <1>2, SMTT(30) DEF Sync, TypeOK, FlagHeld, ReadIsCurrent, Syncing, UserMade, SignedIn, Carried, Reached, PastSync, LandLate, Goes, Ends, Applied, profile, authUser, person, Job, Idle, SyncAssumption
<1>5. SettledHonours' /\ DisabledIsWithdrawn'
  BY SMTT(30) DEF Sync, TypeOK, FlagHeld, ReadIsCurrent, LandedHolds, Syncing, SettledHonours, DisabledIsWithdrawn, LandLate, Goes, Ends, Applied, profile, authUser, person, Job, Idle
<1>6. EndedStayRefused'
  <2>1. UNCHANGED <<disabled, revoked, pending>> /\ (strayed' \/ UNCHANGED <<dead, strayed>>)
    BY DEF Sync, TypeOK, LandLate, Applied, profile
  <2> QED
    BY <2>1 DEF Sync, EndedStayRefused, Admits
<1>7. OneChange'
  <2>1. /\ \A v \in Workers \ {w} : job'[v] = job[v]
        /\ job'[w].phase \notin {"change", "reopen"} /\ disabled' = disabled
    BY SMT DEF Sync, TypeOK, LandLate, Goes, Ends, profile, authUser, person, Job, Idle
  <2> QED
    BY <2>1 DEF Sync, OneChange, Locked
<1> QED
  BY <1>1, <1>2, <1>3, <1>4, <1>5, <1>6, <1>7 DEF Sync

-----------------------------------------------------------------------------
LEMMA SyncInit ==
    ASSUME SyncAssumption, Init
    PROVE  Sync
<1>1. \A w \in Workers : job[w].phase = "idle"
  BY DEF Init, Idle, Job
<1>2. TypeOK
  <2>1. /\ job \in [Workers -> [phase : Phases, state : BOOLEAN, gen : Nat, stamp : Nat, mint : BOOLEAN]]
        /\ \A w \in Workers : (lock = w) <=> (job[w].phase \in {"calling", "landed"})
    BY <1>1, SMT DEF Init, Phases, Idle, Job, SyncAssumption
  <2>2. /\ disabled \in BOOLEAN /\ pending \in BOOLEAN
        /\ invitation \in {"none", "pending", "sent", "accepted", "revoked"}
        /\ auth \in {"absent", "banned", "active"}
        /\ confirmed \in BOOLEAN /\ chosen \in BOOLEAN /\ strayed \in BOOLEAN
    BY DEF Init
  <2>3. /\ revoked \in Nat /\ clock \in Nat \ {0} /\ generation \in Nat /\ faults \in Nat
        /\ link \in Workers \cup {None} /\ lock \in Workers \cup {None}
        /\ mailed \subseteq Workers
        /\ sessions \subseteq 1 .. clock - 1
        /\ dead \subseteq sessions
    BY SMT DEF Init
  <2> QED
    BY <2>1, <2>2, <2>3 DEF TypeOK
<1>3. Carried => Reached
  BY <1>1 DEF Init, Carried, Reached, PastSync
<1> QED
  BY <1>1, <1>2, <1>3, SMT DEF Init, Sync, FlagHeld, ReadIsCurrent, LandedHolds, UserMade, SignedIn, OneChange,
     Locked, Syncing, SettledHonours, DisabledIsWithdrawn, EndedStayRefused, SyncAssumption

(* The person's steps leave the account and every job alone.               *)
LEMMA PersonKeeps ==
    ASSUME Sync, Confirm \/ SignIn
    PROVE  Sync'
<1>1. /\ auth = "active" /\ confirmed'
      /\ UNCHANGED <<disabled, revoked, pending, generation, invitation, auth, dead, lock, job, strayed, faults>>
      /\ sessions' = sessions \cup {clock} /\ clock' = clock + 1
      /\ chosen' \in BOOLEAN /\ link' \in {link, None} /\ mailed' = mailed
  BY DEF Sync, TypeOK, Confirm, SignIn, Begin, profile
<1>2. TypeOK'
  BY <1>1, SMT DEF Sync, TypeOK
<1>3. Reached'
  BY <1>1 DEF Reached
<1> QED
  BY <1>1, <1>2, <1>3 DEF Sync, FlagHeld, ReadIsCurrent, LandedHolds, UserMade, SignedIn, OneChange,
     Locked, Syncing, SettledHonours, DisabledIsWithdrawn, EndedStayRefused, Admits

LEMMA SyncStep ==
    ASSUME SyncAssumption, Sync, [Next]_vars
    PROVE  Sync'
<1>1. CASE UNCHANGED vars
  BY <1>1 DEF vars, Sync, TypeOK, FlagHeld, ReadIsCurrent, LandedHolds, UserMade, SignedIn, OneChange, Locked, Syncing, Carried,
     Reached, PastSync, SettledHonours, DisabledIsWithdrawn, EndedStayRefused, Admits
<1>2. ASSUME NEW w \in Workers, Steps(w)
      PROVE  Sync'
  BY <1>2, CommitKeeps, CommitReopenKeeps, TakeLockKeeps, LandKeeps, LandLateKeeps, FinishKeeps, ReadKeeps, EnsureKeeps, RereadKeeps, ArmKeeps,
     MintKeeps, MailKeeps, RecordKeeps, AcceptKeeps DEF Steps
<1> QED
  BY <1>1, <1>2, DecideKeeps, ReopenKeeps, ReconcileKeeps, ResumeKeeps, CallKeeps, TimesOutKeeps,
     FailKeeps, PersonKeeps DEF Next, Rest

(* Sync is an invariant, whatever calls land late.                         *)
THEOREM SyncInvariant ==
    ASSUME SyncAssumption
    PROVE  Spec => []Sync
<1>1. Init => Sync
  BY SyncInit
<1>2. Sync /\ [Next]_vars => Sync'
  BY SyncStep
<1> QED
  BY <1>1, <1>2, PTL DEF Spec

(* Whatever disables, enables, deliveries, crashes and lost answers cross, *)
(* Auth honours no disabled account whose flag is clear, unless the last   *)
(* call to reach it had outlived its transaction; and no open invitation   *)
(* outlives a disable (AuthSyncService, disableMember).                    *)
THEOREM DisabledStaysOut ==
    ASSUME SyncAssumption
    PROVE  Spec => [](SettledHonours /\ DisabledIsWithdrawn)
<1>1. Sync => SettledHonours /\ DisabledIsWithdrawn
  BY DEF Sync
<1> QED
  BY <1>1, SyncInvariant, PTL

(* An enabled account whose flag is clear and whose invitation is out or   *)
(* accepted can sign in, unless a late call came last                      *)
(* (InvitationDeliveryService.deliver).                                    *)
THEOREM InvitationIsUsable ==
    ASSUME SyncAssumption
    PROVE  Spec => []InvitedCanSignIn
<1>1. Sync => InvitedCanSignIn
  BY DEF Sync, TypeOK, Carried, Reached, InvitedCanSignIn
<1> QED
  BY <1>1, SyncInvariant, PTL

(* The sessions the sync or a change of the account ended are refused once *)
(* the flag is clear, unless a late call came last (the guard, and the     *)
(* rotation of the boundary).                                              *)
THEOREM EndedSessionsRefused ==
    ASSUME SyncAssumption
    PROVE  Spec => []EndedStayRefused
<1>1. Sync => EndedStayRefused
  BY DEF Sync
<1> QED
  BY <1>1, SyncInvariant, PTL

-----------------------------------------------------------------------------
(* The refinement.  Only these steps touch what the abstract account keeps. *)

LEMMA StepImplements ==
    ASSUME SyncAssumption, Sync, NEW w \in Workers, Steps(w)
    PROVE  Marked!Next \/ UNCHANGED <<disabled, auth = "active", pending, strayed>>
<1>1. CASE CommitChange(w)
  <2>1. job[w].state \in BOOLEAN /\ job[w].state # disabled /\ disabled \in BOOLEAN
    BY <1>1 DEF Sync, TypeOK, OneChange, Locked, CommitChange
  <2>2. Marked!Change
    BY <1>1, <2>1 DEF CommitChange, authUser, Marked!Change
  <2> QED
    BY <2>2 DEF Marked!Next
<1>2. CASE Land(w)
  <2>1. pending
    BY <1>2 DEF Sync, TypeOK, FlagHeld, Land, SyncAssumption
  <2>2. CASE auth = "absent"
    BY <1>2, <2>2 DEF Sync, TypeOK, Land, Applied, profile
  <2>3. CASE auth # "absent"
    <3>1. Marked!Reach
      BY <1>2, <2>1, <2>3 DEF Land, profile, Marked!Reach
    <3> QED
      BY <3>1 DEF Marked!Next
  <2> QED
    BY <2>2, <2>3
<1>3. CASE Finish(w)
  <2>1. pending /\ pending' \in BOOLEAN
    BY <1>3 DEF Sync, TypeOK, FlagHeld, Finish, StillFlagged, SyncAssumption
  <2>2. CASE ~pending'
    <3>1. job[w].gen = generation
      BY <1>3, <2>1, <2>2 DEF Finish, StillFlagged
    <3>2. disabled /\ ~strayed => auth # "active"
      BY <1>3, <3>1 DEF Finish, Sync, LandedHolds
    <3>3. Marked!Settle
      BY <1>3, <2>1, <2>2, <3>2 DEF Finish, authUser, Marked!Settle
    <3> QED
      BY <3>3 DEF Marked!Next
  <2>3. CASE pending'
    BY <1>3, <2>1, <2>3 DEF Sync, TypeOK, Finish, authUser
  <2> QED
    BY <2>1, <2>2, <2>3
<1>4. CASE Arm(w)
  BY <1>4 DEF Arm, authUser, Marked!Mark, Marked!Next
<1>5. CASE EnsureUser(w)
  BY <1>5 DEF EnsureUser, BornAs, profile
<1>7. CASE LandLate(w)
  <2>1. CASE auth = "absent"
    BY <1>7, <2>1 DEF Sync, TypeOK, LandLate, Applied, profile
  <2>2. CASE auth # "absent"
    <3>1. Marked!Stray
      BY <1>7, <2>2 DEF LandLate, profile, Marked!Stray
    <3> QED
      BY <3>1 DEF Marked!Next
  <2> QED
    BY <2>1, <2>2
<1>6. CASE CommitReopen(w) \/ TakeLock(w) \/ ReadInvitation(w) \/ Reread(w) \/ Mint(w) \/ Mail(w) \/ Record(w) \/ Accept(w)
  BY <1>6 DEF CommitReopen, TakeLock, ReadInvitation, Reread, Mint, Mail, Record, Accept, profile, authUser
<1> QED
  BY <1>1, <1>2, <1>3, <1>4, <1>5, <1>6, <1>7 DEF Steps

(* An account implements its abstract promise: a run that holds its lock   *)
(* changes Auth's answer only while the flag is set, and the flag is       *)
(* cleared only when a disabled account is out or a late call came last    *)
(* (AuthSyncService as a whole).                                           *)
THEOREM SyncImplementsMark ==
    ASSUME SyncAssumption
    PROVE  Spec => ImplementsMark
<1>1. Init => Marked!Init
  BY DEF Init, Marked!Init
<1>2. Sync /\ [Next]_vars => [Marked!Next]_<<disabled, auth = "active", pending, strayed>>
  <2> SUFFICES ASSUME Sync, [Next]_vars
               PROVE  Marked!Next \/ UNCHANGED <<disabled, auth = "active", pending, strayed>>
    OBVIOUS
  <2>1. CASE UNCHANGED vars
    BY <2>1 DEF vars
  <2>2. CASE Confirm \/ SignIn \/ Rest
    BY <2>2 DEF Confirm, SignIn, Rest, vars, profile
  <2>4. ASSUME NEW w \in Workers, Steps(w)
        PROVE  Marked!Next \/ UNCHANGED <<disabled, auth = "active", pending, strayed>>
    BY <2>4, StepImplements
  <2>5. ASSUME NEW w \in Workers,
               (\E to \in BOOLEAN : Decide(w, to)) \/ Reopen(w) \/ Reconcile(w) \/ Resume(w) \/ Call(w) \/ TimesOut(w) \/ Fail(w)
        PROVE  UNCHANGED <<disabled, auth = "active", pending, strayed>>
    BY <2>5 DEF Decide, Reopen, Reconcile, Resume, Call, TimesOut, Fail, profile, authUser
  <2> QED
    BY <2>1, <2>2, <2>4, <2>5 DEF Next
<1> QED
  BY <1>1, <1>2, SyncInvariant, PTL DEF Spec, ImplementsMark, Marked!Spec
=============================================================================
