------------------------------- MODULE ApiProcess -------------------------------
(***************************************************************************)
(* One API process: the requests it admits and its password reset workers  *)
(* share RuntimeLimits, and the shutdown (installRuntimeShutdown) waits    *)
(* for the permits of both before it closes the application.               *)
(***************************************************************************)
EXTENDS RequestAdmission, PasswordReset

processVars == <<limitsVars, admissionVars, resetVars>>

ProcessInit == LimitsInit /\ AdmissionInit /\ ResetInit

Serves(r) == AdmissionWork(r) /\ UNCHANGED <<limitsVars, resetVars>>
Resets == ResetWork /\ UNCHANGED <<limitsVars, admissionVars>>
Stops == BeginShutdown /\ UNCHANGED <<admissionVars, resetVars>>

\* settle(): no permit is out, whoever took it; or its time is up.
NoPermitOut == NoLeaseOut /\ permits = 0
Settles ==
    /\ NoPermitOut
    /\ Closes("drained")
    /\ UNCHANGED <<admissionVars, resetVars>>
GivesUp == Closes("deadline") /\ UNCHANGED <<admissionVars, resetVars>>

\* A process with nothing to do waits for its next request.
Waits == UNCHANGED processVars

ProcessNext ==
    \/ \E r \in Requests : Serves(r)
    \/ Resets
    \/ Stops \/ Settles \/ GivesUp
    \/ Waits

ProcessSpec == ProcessInit /\ [][ProcessNext]_processVars

Ending(r) == EndRequest(r) /\ UNCHANGED <<limitsVars, resetVars>>
Working(w) == Runs(w) /\ UNCHANGED <<limitsVars, admissionVars>>

(* A handler, a quota, a token check and an upload under its deadline end  *)
(* in some way, the event loop runs the workers that are ready and their   *)
(* calls answer or fail, and the loop of settle() is a timer of its own.   *)
ProcessFairness ==
    /\ \A r \in Requests : WF_processVars(Ending(r))
    /\ \A w \in ResetWorkers : WF_processVars(Working(w))
    /\ WF_processVars(Settles)
ProcessFairSpec == ProcessSpec /\ ProcessFairness

ShuttingDown == stopping /\ closing = "open"

-----------------------------------------------------------------------------
ProcessTypeOK == LimitsTypeOK /\ AdmissionTypeOK /\ ResetTypeOK

(* The work under way keeps to the budgets, no permit is released while    *)
(* the mutation, import, export or preview it admits still runs, none      *)
(* leaks and none is released twice; a reset worker holds one of its own   *)
(* (RuntimeLimits.acquire and every path to its release).                  *)
PermitsHold == BudgetsHold /\ PermitsBalance /\ PermitPerWorker

(* When the drain lets the application close, no handler and no reset is   *)
(* under way, and none will begin (settle, and every check of stopping).   *)
DrainedIsIdle == NoHandlerAfterDrain /\ NoResetAfterDrain
=============================================================================
