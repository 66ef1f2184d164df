------------------------------ MODULE RuntimeLimits ------------------------------
(***************************************************************************)
(* What every part of one API process reads of its RuntimeLimits and of    *)
(* its shutdown: whether it stops, and whether the application closes.     *)
(***************************************************************************)

VARIABLES
    stopping,  \* RuntimeLimits.stopping
    closing    \* "open", or why app.close() runs: "drained" or "deadline"

limitsVars == <<stopping, closing>>

LimitsInit == stopping = FALSE /\ closing = "open"

\* The signal: settle() is called, and its first statement says so.
BeginShutdown ==
    /\ ~stopping
    /\ stopping' = TRUE
    /\ UNCHANGED closing

\* settle() returns; then app.close().
Closes(why) ==
    /\ stopping /\ closing = "open"
    /\ closing' = why
    /\ UNCHANGED stopping

LimitsTypeOK == stopping \in BOOLEAN /\ closing \in {"open", "drained", "deadline"}
=============================================================================
