-------------------------- MODULE MCRecordLifecycle --------------------------
(***************************************************************************)
(* RecordLifecycle for TLC.  No single instance small enough to search has *)
(* every request meet every other, so the initial state picks a scene: the *)
(* endpoints two clients call at once, and the users, records, periods,    *)
(* files and sites they name.                                              *)
(***************************************************************************)
EXTENDS RecordLifecycle, TLC

CONSTANT Scenes
VARIABLE scene

RequestSymmetry == Permutations(Procs)

AuthorAndAdmin == {"entry", "admin"}
AuthorAndReviewer == {"entry", "consultant"}
RoleOf == [entry |-> "data_entry", consultant |-> "consultant", admin |-> "super_admin"]
RolesHere == [u \in Users |-> RoleOf[u]]

NoRecords == [r \in Records |-> Unused]
DraftsOf(S) == [r \in Records |-> IF r \in S THEN NewDraft("entry", 1, 0, r - 1, 1) ELSE Unused]
Starts == {NoRecords, DraftsOf({1}), DraftsOf({1, 2})}

Scene(ops, starts, users, rs, periods, fs, sites, releases) ==
    [ops |-> ops, starts |-> starts, users |-> users, records |-> rs, periods |-> periods,
     files |-> fs, sites |-> sites, releases |-> releases]

(* Review, closing and editing; and the evidence, over one file or two.    *)
ReviewScenes == {
    Scene(Transitions \cup PeriodOps \cup {"create"}, {NoRecords}, {"entry", "admin"}, {1, 2}, {1}, {}, {0}, 1),
    Scene(EditOps \cup PeriodOps \cup {"submit", "approve"}, {DraftsOf({1})}, {"entry", "admin"},
          {1}, {1, 2}, {}, {0}, 1),
    Scene({"update", "submit", "reject"}, {DraftsOf({1})}, {"entry", "admin"},
          {1}, {1}, {}, {0, 1}, 2)}
EvidenceScenes == {
    Scene(FileOps \cup {"remove", "submit", "reject"}, {DraftsOf({1, 2})}, {"entry", "consultant"},
          {1, 2}, {1}, {1}, {0, 1}, 1),
    Scene(FileOps \cup {"remove"}, {DraftsOf({1, 2})}, {"entry"},
          {1, 2}, {1}, {1, 2}, {0, 1}, 1)}

AllOperations == [p \in Procs |-> Ops]

(* Every request in flight names only what its scene has.                  *)
InScene(q) ==
    /\ q.op \in scene.ops \cup {"none"} /\ q.user \in scene.users \cup {None}
    /\ q.records \subseteq scene.records /\ q.files \subseteq scene.files
    /\ q.period \in scene.periods \cup {None} /\ q.site \in scene.sites \cup {None}

MCInit == scene \in Scenes /\ Init /\ record \in scene.starts
MCNext ==
    /\ Next
    /\ \A p \in Procs : InScene(req'[p])
    /\ library' <= scene.releases
    /\ UNCHANGED scene
MCSpec == MCInit /\ [][MCNext]_<<vars, scene>>
=============================================================================
