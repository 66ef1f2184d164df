-------------------------------- MODULE NoValue --------------------------------
(***************************************************************************)
(* null and undefined: a field that holds nothing, a row that is not there *)
(* or has no refusal.  Shared by modules that one MC module brings         *)
(* together, in data entry and in reporting.                               *)
(***************************************************************************)
CONSTANT None
=============================================================================
