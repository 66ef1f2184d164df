----------------------------- MODULE MCLockOrder -----------------------------
(* An upload for two records in flight while their period is closed.       *)
EXTENDS RecordLifecycle, TLC

TwoUsers == {"entry", "admin"}
TwoRoles == [entry |-> "data_entry", admin |-> "super_admin"]
TwoDrafts == {[r \in Records |-> NewDraft("entry", 1, 0, r - 1, 1)]}

(* One client uploads a file for two records while another moves, reviews  *)
(* and closes.                                                             *)
CONSTANTS uploader, closer
FlipOps == (uploader :> {"upload"}) @@ (closer :> {"update", "submit", "approve", "lock"})

(* The part of that instance worth searching: the author uploads one file  *)
(* for both drafts, edits only ever move them, and a draft is submitted    *)
(* after it has moved.                                                     *)
FlipBound ==
    /\ req[uploader].records \in {{}, Records}
    /\ req[uploader].user \in {None, "entry"}
    /\ req[closer].site = None
    /\ req[closer].op = "update" => req[closer].period = 2
    /\ \A r \in Records : record[r].period = 1 => record[r].status = "draft"
=============================================================================
