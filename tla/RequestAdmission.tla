---------------------------- MODULE RequestAdmission ----------------------------
(***************************************************************************)
(* The admission of requests by one API process: the permits of            *)
(* RuntimeLimits, the lease a request collects them in on its way through  *)
(* the middleware (configureRuntimeHttp), the guard (RuntimeAuthGuard),    *)
(* the upload interceptor and its handler, and the process's shutdown.     *)
(*                                                                         *)
(* Node runs one callback at a time: an action is what runs between two    *)
(* awaits, and the disconnection of a client falls between any two.        *)
(***************************************************************************)
EXTENDS Naturals, FiniteSets, RuntimeLimits

CONSTANTS
    Requests,
    Callers,    \* verified users; each request has one, known after its guard
    Kinds,      \* "read", "write", "import", "export", "preview", or some of them
    Limit,      \* Limit[name]: the configured bound of each kind of permit
    Nobody

Names == {"ip", "multipart", "upload", "http", "imports", "reports", "preview",
          "mutations", "mutation"}
\* These are counted per caller (the address stands for its caller), the
\* others for the whole process.
Personal == {"ip", "upload", "preview", "mutation"}
Keys == {<<n, c>> : n \in Personal, c \in Callers} \cup {<<n, Nobody>> : n \in Names \ Personal}

\* What the constants are.
ASSUME AdmissionAssumption ==
    /\ Limit \in [Names -> Nat \ {0}]
    /\ Kinds \subseteq {"read", "write", "import", "export", "preview"}
    /\ Nobody \notin Callers
    /\ IsFiniteSet(Requests)

VARIABLES
    caller,    \* caller[r], kind[r]: what the request is, fixed
    kind,
    phase,     \* phase[r]: what r waits for
    lease,     \* lease[r]: the permits r is to release
    active,    \* RuntimeLimits.active: how many of each are out
    gone       \* the requests whose response is closed

admissionVars == <<caller, kind, phase, lease, active, gone>>
fixed == <<caller, kind>>

Key(n, r) == <<n, IF n \in Personal THEN caller[r] ELSE Nobody>>
Multipart(r) == kind[r] = "import"
Mutates(r) == kind[r] \in {"write", "import"}

\* What a handler runs under.
WorkPermits(r) ==
    {Key("http", r)}
    \cup (IF kind[r] = "import" THEN {Key("imports", r)} ELSE {})
    \cup (IF kind[r] = "export" THEN {Key("reports", r)} ELSE {})
    \cup (IF kind[r] = "preview" THEN {Key("preview", r)} ELSE {})
    \cup (IF Mutates(r) THEN {Key("mutations", r), Key("mutation", r)} ELSE {})

\* lease.executing: from the guard on, only the request itself releases.
\* Mutant: the end of the response releases whatever is under way.
NeverExecuting(r) == FALSE
Executing(r) == phase[r] \in {"auth", "quota", "receiving", "running"}
Live(r) == phase[r] \notin {"new", "done"}

AdmissionInit ==
    /\ caller \in [Requests -> Callers]
    /\ kind \in [Requests -> Kinds]
    /\ phase = [r \in Requests |-> "new"]
    /\ lease = [r \in Requests |-> {}]
    /\ active = [k \in Keys |-> 0]
    /\ gone = {}

-----------------------------------------------------------------------------
(* RuntimeLimits.acquire, and the lease.                                   *)

Available(r, K) == \A k \in K : active[k] < Limit[k[1]]

Take(r, K) ==
    /\ active' = [k \in Keys |-> IF k \in K THEN active[k] + 1 ELSE active[k]]
    /\ lease' = [lease EXCEPT ![r] = @ \cup K]

\* lease.release: every permit collected, each once.
Release(r) ==
    /\ active' = [k \in Keys |-> IF k \in lease[r] THEN active[k] - 1 ELSE active[k]]
    /\ lease' = [lease EXCEPT ![r] = {}]

Moves(r, p) == phase' = [phase EXCEPT ![r] = p]

\* A refusal, an error or an end: the guard's catch, the exception filter,
\* the finalizer or the response's end releases the lease.
Leaves(r) ==
    /\ Release(r)
    /\ Moves(r, "done")
    /\ UNCHANGED <<fixed, gone>>

\* The permits K are all there, or the request is refused with 429.
Gains(r, K, p) ==
    IF Available(r, K)
    THEN /\ Take(r, K)
         /\ Moves(r, p)
         /\ UNCHANGED <<fixed, gone>>
    ELSE Leaves(r)

-----------------------------------------------------------------------------
(* The middleware.                                                         *)

Arrive(r) ==
    /\ phase[r] = "new"
    /\ IF stopping THEN Leaves(r) ELSE Gains(r, {Key("ip", r)}, "ip")

\* The address's rate quota has answered.
AddressAdmitted(r) ==
    /\ phase[r] = "ip"
    /\ IF r \in gone THEN Leaves(r)
       ELSE Gains(r, IF Multipart(r) THEN {Key("multipart", r)} ELSE {}, "body")

-----------------------------------------------------------------------------
(* The guard.                                                              *)

\* The body is read (an upload's waits) and the guard is reached.
ReachGuard(r) ==
    /\ phase[r] = "body"
    /\ Moves(r, "auth")
    /\ UNCHANGED <<fixed, lease, active, gone>>

Authenticated(r) ==
    /\ phase[r] = "auth"
    /\ IF r \in gone THEN Leaves(r)
       ELSE /\ Moves(r, "quota")
            /\ UNCHANGED <<fixed, lease, active, gone>>

\* runtimeAdmitWork
AdmitWork(r) ==
    IF stopping \/ r \in gone THEN Leaves(r) ELSE Gains(r, WorkPermits(r), "running")

\* The caller's rate quota has answered: an upload may be received, anything
\* else begins its work.
CallerAdmitted(r) ==
    /\ phase[r] = "quota"
    /\ IF Multipart(r) THEN Gains(r, {Key("upload", r)}, "receiving")
       ELSE AdmitWork(r)

\* RuntimeUploadWorkInterceptor, once the file is here.
Received(r) ==
    /\ phase[r] = "receiving"
    /\ AdmitWork(r)

\* A rate quota exceeded, a refused header, body, token or role, an upload
\* broken off or past its deadline, a handler that ends or throws.
EndRequest(r) ==
    /\ Live(r)
    /\ Leaves(r)

-----------------------------------------------------------------------------
(* The client.                                                             *)

\* The response's "close": only a request that has not reached the guard is
\* released by it.
Disconnect(r) ==
    /\ Live(r) /\ r \notin gone
    /\ gone' = gone \cup {r}
    /\ IF Executing(r) THEN UNCHANGED <<lease, active>> ELSE Release(r)
    /\ UNCHANGED <<fixed, phase>>

AdmissionWork(r) ==
    \/ Arrive(r) \/ AddressAdmitted(r) \/ ReachGuard(r) \/ Authenticated(r)
    \/ CallerAdmitted(r) \/ Received(r) \/ EndRequest(r) \/ Disconnect(r)

\* settle() finds none of these permits out.
NoLeaseOut == \A k \in Keys : active[k] = 0

-----------------------------------------------------------------------------
RequestPhases == {"new", "ip", "body", "auth", "quota", "receiving", "running", "done"}

AdmissionTypeOK ==
    /\ caller \in [Requests -> Callers]
    /\ kind \in [Requests -> Kinds]
    /\ phase \in [Requests -> RequestPhases]
    /\ lease \in [Requests -> SUBSET Keys]
    /\ active \in [Keys -> Nat]
    /\ gone \subseteq Requests

(* No permit leaks and none is released twice: what is out is what the     *)
(* requests under way will release (acquire, the lease, and every path out *)
(* of the middleware, the guard and the handler).                          *)
Holders(k) == {r \in Requests : Live(r) /\ k \in lease[r]}
PermitsBalance == \A k \in Keys : active[k] = Cardinality(Holders(k))

Running == {r \in Requests : phase[r] = "running"}

(* So the work itself keeps to the budgets: mutations in all and per       *)
(* caller, imports and exports, counted by the handlers that run.          *)
BudgetsHold ==
    /\ Cardinality({r \in Running : Mutates(r)}) <= Limit["mutations"]
    /\ Cardinality({r \in Running : kind[r] = "import"}) <= Limit["imports"]
    /\ Cardinality({r \in Running : kind[r] = "export"}) <= Limit["reports"]
    /\ \A c \in Callers :
         /\ Cardinality({r \in Running : caller[r] = c /\ Mutates(r)}) <= Limit["mutation"]
         /\ Cardinality({r \in Running : caller[r] = c /\ kind[r] = "preview"}) <= Limit["preview"]

(* When the drain lets the application close, no handler is running and    *)
(* none will begin (settle, and the checks of stopping).                   *)
NoHandlerAfterDrain == closing = "drained" => Running = {}
=============================================================================
