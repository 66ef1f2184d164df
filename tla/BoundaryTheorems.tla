---------------------------- MODULE BoundaryTheorems ----------------------------
(***************************************************************************)
(* Theorems about InventoryBoundary: what holds of a year's boundary       *)
(* versions for any number of requests, subsidiaries and versions, and     *)
(* that the year implements BoundaryHistory.                               *)
(*                                                                         *)
(* The inductive invariant says of every request under way what it has     *)
(* read or checked that still stands (JobOK), because of the locks it      *)
(* holds: no other request holds them with it (Apart).                     *)
(*                                                                         *)
(* And about FactorLibrary: for any set of release files, one live edition *)
(* per slot of a publisher, and a calculation priced from one library.     *)
(***************************************************************************)
EXTENDS InventoryBoundary, FactorLibrary, TLAPS

Declared == Declarations \cup {None}

JobOK(j) ==
    /\ j.op = "put" =>
         /\ j.v \in Ids /\ ver[j.v].at = "open"
         /\ j.s \in Subs /\ j.d \in Declared
         /\ j.at \in {"write", "commit"} => j.rows = ver[j.v].rows
         /\ j.at = "commit" => ParentsExist(j.s, j.d)
    /\ j.op \in {"remove", "confirm", "freeze"} => j.v \in Ids /\ ver[j.v].at = "open"
    /\ j.op = "confirm" /\ j.at = "commit" => WithoutGaps(ver[j.v].rows)
    /\ j.op = "freeze" => DeclaredIn(ver[j.v].rows) # {}
    /\ j.op = "retain" =>
         /\ j.v \in Frozen
         /\ j.at = "commit" => j.d = ver[j.v].at /\ j.rows = ver[j.v].rows /\ j.names = ver[j.v].names
    /\ j.op = "create" =>
         /\ IF j.v = None THEN j.rows = NoRows ELSE j.v \in Existing /\ j.rows = ver[j.v].rows
         /\ j.at \in {"insert", "commit"} => j.num = 1 \/ \E i \in Frozen : j.num = ver[i].num + 1
         /\ j.at = "commit" => ~NumberTaken(j.num)
    /\ j.op = "leave" =>
         /\ j.s \in Subs
         /\ j.at = "commit" => Versions(j.s) = {}
    /\ j.op = "close" =>
         /\ j.s \in Subs
         /\ j.at = "commit" => SiteVersions(j.s) = {}

(* No two requests hold one header, insert one number, or insert a row     *)
(* whose parent the other deletes.                                         *)
Apart(j, k) ==
    /\ Writes(j) /\ (Writes(k) \/ k.op = "create") => j.v # k.v
    /\ j.op = "create" /\ j.at = "commit" /\ k.op = "create" /\ k.at = "commit" => j.num # k.num
    /\ Inserted(j) /\ k.op = "leave" => RowOf(j, k.s) = None
    /\ Inserted(j) /\ k.op = "close" /\ k.at # "lock" => RowOf(j, k.s) \notin Sited

JobsOK == \A w \in Workers : JobOK(job[w])
JobsApart == \A w, x \in Workers : w # x => Apart(job[w], job[x])
Positive == \A i \in Existing : ver[i].num \in Nat \ {0}
Sound == OneOpenDraft /\ FrozenIsReported /\ DatasetIsItsVersion /\ DeclaredParentsLive
         /\ AuditReplays /\ NoDefect /\ Positive

IInv == TypeOK /\ Sound /\ JobsOK /\ JobsApart


-----------------------------------------------------------------------------
(* Requests.                                                               *)

LEMMA IdsAre == Ids \subseteq Nat /\ None \notin Ids
BY BoundaryAssumption DEF Ids

LEMMA NothingAsked ==
    /\ NoJob \in Jobs
    /\ JobOK(NoJob)
    /\ \A k : Apart(NoJob, k) /\ Apart(k, NoJob)
<1>1. NoRows \in Rows /\ NoRows \in NameRows
  BY BoundaryAssumption DEF NoRows, Rows, NameRows
<1>2. NoJob \in Jobs
  BY <1>1 DEF NoJob, Jobs
<1>3. JobOK(NoJob)
  BY DEF JobOK, NoJob
<1>4. \A k : Apart(NoJob, k) /\ Apart(k, NoJob)
  BY DEF Apart, NoJob, Writes, Inserted
<1> QED BY <1>2, <1>3, <1>4

LEMMA SameStore ==
    ASSUME NEW x \in Workers, JobOK(job[x]), job'[x] = job[x], UNCHANGED <<ver, subs, sites>>
    PROVE  JobOK(job[x])'
BY DEF JobOK, ParentsExist, WithoutGaps, DeclaredIn, Frozen, Existing, NumberTaken, Versions, SiteVersions

LEMMA SoundKept ==
    ASSUME Sound, UNCHANGED <<ver, subs, sites, trail, replays, datasets, defect>>
    PROVE  Sound'
BY DEF Sound, OneOpenDraft, FrozenIsReported, DatasetIsItsVersion, DeclaredParentsLive, AuditReplays,
       NoDefect, Positive, Existing, Frozen, DeclaredIn, WithoutGaps, Versions, SiteVersions

LEMMA Pairs ==
    ASSUME JobsApart, NEW w \in Workers, NEW j, job' = [job EXCEPT ![w] = j],
           job \in [Workers -> Jobs],
           \A x \in Workers \ {w} : Apart(j, job[x]) /\ Apart(job[x], j)
    PROVE  JobsApart'
<1> SUFFICES ASSUME NEW x \in Workers, NEW y \in Workers, x # y PROVE Apart(job'[x], job'[y])
  BY DEF JobsApart, Apart, Writes, Inserted, RowOf
<1>1. CASE x = w BY <1>1
<1>2. CASE y = w BY <1>2
<1>3. CASE x # w /\ y # w BY <1>3 DEF JobsApart
<1> QED BY <1>1, <1>2, <1>3

(* A step that only moves one request on.                                  *)
LEMMA JobStep ==
    ASSUME IInv, NEW w \in Workers, NEW j \in Jobs, job' = [job EXCEPT ![w] = j],
           UNCHANGED <<world, store>>, JobOK(j),
           \A x \in Workers \ {w} : Apart(j, job[x]) /\ Apart(job[x], j)
    PROVE  IInv'
<1>1. TypeOK' BY DEF IInv, TypeOK, world, store
<1>2. Sound' BY SoundKept DEF IInv, world, store
<1>3. JobsApart' BY Pairs DEF IInv, TypeOK
<1>4. JobsOK'
  <2> SUFFICES ASSUME NEW x \in Workers PROVE JobOK(job[x])'
    BY DEF JobsOK
  <2>1. CASE x # w
    <3>1. job'[x] = job[x] BY <2>1 DEF IInv, TypeOK
    <3>2. JobOK(job[x]) BY DEF IInv, JobsOK
    <3> QED BY <3>1, <3>2, SameStore DEF world, store
  <2>2. CASE x = w
    <3>1. job'[x] = j BY <2>2 DEF IInv, TypeOK
    <3> QED BY <3>1 DEF JobOK, ParentsExist, WithoutGaps, DeclaredIn, Frozen, Existing, NumberTaken,
                        Versions, SiteVersions, world, store
  <2> QED BY <2>1, <2>2
<1> QED BY <1>1, <1>2, <1>3, <1>4 DEF IInv

LEMMA FinishStep ==
    ASSUME IInv, NEW w \in Workers, Finish(w), UNCHANGED <<world, store>>
    PROVE  IInv'
BY NothingAsked, JobStep DEF Finish, Set


-----------------------------------------------------------------------------
(* Requests that begin, and statements that write nothing.                 *)

LEMMA Shapes ==
    /\ NoRows \in Rows /\ NoRows \in NameRows
    /\ TypeOK => \A v \in Ids : ver[v].rows \in Rows /\ ver[v].names \in NameRows
                                /\ ver[v].num \in Nat /\ ver[v].at \in States
BY BoundaryAssumption DEF NoRows, Rows, NameRows, TypeOK, VersionRecords

LEMMA JobShape ==
    ASSUME IInv, NEW w \in Workers
    PROVE  /\ job[w] \in Jobs /\ JobOK(job[w])
           /\ \A x \in Workers \ {w} : Apart(job[w], job[x]) /\ Apart(job[x], job[w])
BY DEF IInv, TypeOK, JobsOK, JobsApart

LEMMA DeclareStep ==
    ASSUME IInv, NEW w \in Workers, Declare(w)
    PROVE  IInv'
<1>1. PICK v \in Ids, s \in Subs, d \in Declared :
        HeaderFree(v) /\ ver[v].at = "open" /\ Set(w, Declaring("read", v, s, d, NoRows))
  BY DEF Declare, Declared
<1> DEFINE j == Declaring("read", v, s, d, NoRows)
<1>2. j \in Jobs BY Shapes DEF Declaring, Jobs, Declared
<1>3. JobOK(j) BY <1>1 DEF JobOK, Declaring
<1>4. \A x \in Workers : Apart(j, job[x]) /\ Apart(job[x], j)
  BY <1>1 DEF HeaderFree, Writing, Copying, Apart, Writes, Inserted, Declaring
<1> QED BY <1>1, <1>2, <1>3, <1>4, JobStep DEF Declare, Set

LEMMA RemoveStep ==
    ASSUME IInv, NEW w \in Workers, Remove(w)
    PROVE  IInv'
<1>1. PICK v \in Ids : HeaderFree(v) /\ ver[v].at = "open" /\ Set(w, On("remove", "commit", v))
  BY DEF Remove
<1> DEFINE j == On("remove", "commit", v)
<1>2. j \in Jobs BY Shapes DEF On, Jobs
<1>3. JobOK(j) BY <1>1 DEF JobOK, On
<1>4. \A x \in Workers : Apart(j, job[x]) /\ Apart(job[x], j)
  BY <1>1 DEF HeaderFree, Writing, Copying, Apart, Writes, Inserted, On
<1> QED BY <1>1, <1>2, <1>3, <1>4, JobStep DEF Remove, Set

LEMMA ConfirmStep ==
    ASSUME IInv, NEW w \in Workers, Confirm(w)
    PROVE  IInv'
<1>1. PICK v \in Ids : HeaderFree(v) /\ ver[v].at = "open" /\ Set(w, On("confirm", "check", v))
  BY DEF Confirm
<1> DEFINE j == On("confirm", "check", v)
<1>2. j \in Jobs BY Shapes DEF On, Jobs
<1>3. JobOK(j) BY <1>1 DEF JobOK, On
<1>4. \A x \in Workers : Apart(j, job[x]) /\ Apart(job[x], j)
  BY <1>1 DEF HeaderFree, Writing, Copying, Apart, Writes, Inserted, On
<1> QED BY <1>1, <1>2, <1>3, <1>4, JobStep DEF Confirm, Set

LEMMA CaptureStep ==
    ASSUME IInv, NEW w \in Workers, Capture(w)
    PROVE  IInv'
<1>1. PICK v \in Existing :
        /\ HeaderFree(v)
        /\ DeclaredIn(ver[v].rows) # {}
        /\ Set(w, IF ver[v].at = "open" THEN On("freeze", "commit", v) ELSE On("retain", "read", v))
  BY DEF Capture
<1>2. v \in Ids BY DEF Existing
<1>3. CASE ver[v].at = "open"
  <2> DEFINE j == On("freeze", "commit", v)
  <2>1. j \in Jobs BY Shapes, <1>2 DEF On, Jobs
  <2>2. JobOK(j) BY <1>1, <1>2, <1>3 DEF JobOK, On
  <2>3. \A x \in Workers : Apart(j, job[x]) /\ Apart(job[x], j)
    BY <1>1 DEF HeaderFree, Writing, Copying, Apart, Writes, Inserted, On
  <2> QED BY <1>1, <1>3, <2>1, <2>2, <2>3, JobStep DEF Capture, Set
<1>4. CASE ver[v].at # "open"
  <2> DEFINE j == On("retain", "read", v)
  <2>1. j \in Jobs BY Shapes, <1>2 DEF On, Jobs
  <2>2. JobOK(j) BY <1>1, <1>2, <1>4 DEF JobOK, On, Existing, Frozen
  <2>3. \A x \in Workers : Apart(j, job[x]) /\ Apart(job[x], j)
    BY DEF Apart, Writes, Inserted, On
  <2> QED BY <1>1, <1>4, <2>1, <2>2, <2>3, JobStep DEF Capture, Set
<1> QED BY <1>3, <1>4

LEMMA CreateStep ==
    ASSUME IInv, NEW w \in Workers, Create(w)
    PROVE  IInv'
<1>1. CASE Set(w, Creating("newest", None, NoRows, 0))
  <2> DEFINE j == Creating("newest", None, NoRows, 0)
  <2>1. j \in Jobs BY Shapes DEF Creating, Jobs
  <2>2. JobOK(j) BY DEF JobOK, Creating
  <2>3. \A x \in Workers : Apart(j, job[x]) /\ Apart(job[x], j)
    <3> TAKE x \in Workers
    <3>1. Writes(job[x]) => job[x].v # None
      BY IdsAre, JobShape DEF JobOK, Writes
    <3> QED BY <3>1 DEF Apart, Writes, Inserted, Creating
  <2> QED BY <1>1, <2>1, <2>2, <2>3, JobStep DEF Create, Set
<1>2. CASE \E v \in Existing :
             HeaderReadable(v) /\ Set(w, Creating("newest", v, ver[v].rows, 0))
  <2>1. PICK v \in Existing :
          HeaderReadable(v) /\ Set(w, Creating("newest", v, ver[v].rows, 0))
    BY <1>2
  <2> DEFINE j == Creating("newest", v, ver[v].rows, 0)
  <2>2. v \in Ids /\ v # None BY IdsAre DEF Existing
  <2>3. j \in Jobs BY Shapes, <2>2 DEF Creating, Jobs, IInv
  <2>4. JobOK(j) BY <2>1, <2>2 DEF JobOK, Creating
  <2>5. \A x \in Workers : Apart(j, job[x]) /\ Apart(job[x], j)
    BY <2>1 DEF HeaderReadable, Writing, Apart, Writes, Inserted, Creating
  <2> QED BY <2>1, <2>3, <2>4, <2>5, JobStep DEF Create, Set
<1> QED BY <1>1, <1>2 DEF Create

LEMMA ParentBegins ==
    ASSUME IInv, NEW w \in Workers, NEW s \in Subs,
           \/ SubLockable(s) /\ Set(w, Parent("leave", "count", s))
           \/ Set(w, Parent("close", "lock", s)),
           UNCHANGED <<world, store>>
    PROVE  IInv'
<1>1. CASE SubLockable(s) /\ Set(w, Parent("leave", "count", s))
  <2> DEFINE j == Parent("leave", "count", s)
  <2>1. j \in Jobs BY Shapes DEF Parent, Jobs
  <2>2. JobOK(j) BY DEF JobOK, Parent
  <2>3. \A x \in Workers : Apart(j, job[x]) /\ Apart(job[x], j)
    BY <1>1 DEF SubLockable, NamesSub, Apart, Writes, Inserted, Parent
  <2> QED BY <1>1, <2>1, <2>2, <2>3, JobStep DEF Set
<1>2. CASE Set(w, Parent("close", "lock", s))
  <2> DEFINE j == Parent("close", "lock", s)
  <2>1. j \in Jobs BY Shapes DEF Parent, Jobs
  <2>2. JobOK(j) BY DEF JobOK, Parent
  <2>3. \A x \in Workers : Apart(j, job[x]) /\ Apart(job[x], j)
    BY DEF Apart, Writes, Inserted, Parent
  <2> QED BY <1>2, <2>1, <2>2, <2>3, JobStep DEF Set
<1> QED BY <1>1, <1>2

LEMMA BeginStep ==
    ASSUME IInv, NEW w \in Workers, Begins(w)
    PROVE  IInv'
<1>1. CASE LeaveSub(w)
  BY <1>1, ParentBegins DEF LeaveSub, IInv, TypeOK
<1>2. CASE CloseSite(w)
  BY <1>2, ParentBegins DEF CloseSite, IInv, TypeOK
<1> QED BY <1>1, <1>2, DeclareStep, CreateStep, RemoveStep, ConfirmStep, CaptureStep DEF Begins

LEMMA ReadDeclarationStep ==
    ASSUME IInv, NEW w \in Workers, ReadDeclaration(w)
    PROVE  IInv'
<1> DEFINE j == Declaring("write", job[w].v, job[w].s, job[w].d, ver[job[w].v].rows)
<1>1. job[w] \in Jobs /\ JobOK(job[w]) /\ job[w].op = "put" /\ job[w].at = "read"
  BY JobShape DEF ReadDeclaration, Doing
<1>2. job[w].v \in Ids /\ ver[job[w].v].at = "open" /\ job[w].s \in Subs /\ job[w].d \in Declared
  BY <1>1 DEF JobOK
<1>3. CASE Set(w, j)
  <2>1. j \in Jobs BY <1>2, Shapes DEF Declaring, Jobs, Declared, IInv
  <2>2. JobOK(j) BY <1>2 DEF JobOK, Declaring
  <2>3. \A x \in Workers \ {w} : Apart(j, job[x]) /\ Apart(job[x], j)
    BY <1>1, JobShape DEF Apart, Writes, Inserted, Declaring
  <2> QED BY <1>3, <2>1, <2>2, <2>3, JobStep DEF ReadDeclaration, Set
<1>4. CASE Finish(w) BY <1>4, FinishStep DEF ReadDeclaration
<1> QED BY <1>3, <1>4 DEF ReadDeclaration, Proceed, Set, Finish

LEMMA WriteDeclarationStep ==
    ASSUME IInv, NEW w \in Workers, WriteDeclaration(w)
    PROVE  IInv'
<1> DEFINE j == Declaring("commit", job[w].v, job[w].s, job[w].d, job[w].rows)
<1>1. job[w] \in Jobs /\ JobOK(job[w]) /\ job[w].op = "put" /\ job[w].at = "write"
  BY JobShape DEF WriteDeclaration, Doing
<1>2. job[w].v \in Ids /\ ver[job[w].v].at = "open" /\ job[w].s \in Subs /\ job[w].d \in Declared
      /\ job[w].rows = ver[job[w].v].rows
  BY <1>1 DEF JobOK
<1>3. CASE Set(w, j) /\ ParentsExist(job[w].s, job[w].d)
  <2>1. j \in Jobs BY <1>2, Shapes DEF Declaring, Jobs, Declared, IInv
  <2>2. JobOK(j) BY <1>2, <1>3 DEF JobOK, Declaring, ParentsExist
  <2>3. \A x \in Workers \ {w} : Apart(j, job[x])
    <3> TAKE x \in Workers \ {w}
    <3>1. Apart(job[w], job[x]) BY JobShape
    <3>2. job[x].op = "leave" /\ job[w].d # None => job[x].s # job[w].s
      BY DEF WriteDeclaration, ParentsUnlocked, LeavingSub
    <3>3. job[x].op = "close" /\ job[x].at # "lock" /\ job[w].d \in Sited => job[x].s # job[w].s
      BY BoundaryAssumption DEF WriteDeclaration, ParentsUnlocked, ClosingSite
    <3> QED BY <1>1, <3>1, <3>2, <3>3, BoundaryAssumption DEF Apart, Writes, Inserted, RowOf, Declaring
  <2>4. \A x \in Workers \ {w} : Apart(job[x], j)
    BY <1>1, JobShape DEF Apart, Writes, Inserted, Declaring
  <2> QED BY <1>3, <2>1, <2>2, <2>3, <2>4, JobStep DEF WriteDeclaration, Set
<1>4. CASE Finish(w) BY <1>4, FinishStep DEF WriteDeclaration
<1> QED BY <1>3, <1>4 DEF WriteDeclaration, Proceed, Set, Finish

LEMMA NumberVersionStep ==
    ASSUME IInv, NEW w \in Workers, NumberVersion(w)
    PROVE  IInv'
<1>1. job[w] \in Jobs /\ JobOK(job[w]) /\ job[w].op = "create" /\ job[w].at = "newest"
  BY JobShape DEF NumberVersion, Doing
<1>2. ASSUME NEW n \in Nat, n = 1 \/ \E i \in Frozen : n = ver[i].num + 1,
             Set(w, Creating("insert", job[w].v, job[w].rows, n))
      PROVE  IInv'
  <2> DEFINE j == Creating("insert", job[w].v, job[w].rows, n)
  <2>1. j \in Jobs BY <1>1, Shapes DEF Creating, Jobs
  <2>2. JobOK(j) BY <1>1, <1>2 DEF JobOK, Creating
  <2>3. \A x \in Workers \ {w} : Apart(j, job[x]) /\ Apart(job[x], j)
    BY <1>1, JobShape DEF Apart, Writes, Inserted, Creating
  <2> QED BY <1>2, <2>1, <2>2, <2>3, JobStep DEF NumberVersion, Set
<1>3. CASE Set(w, Creating("insert", job[w].v, job[w].rows, 1))
  BY <1>2, <1>3
<1>4. ASSUME NEW i \in NewestOf(Existing), MayBeFollowed(i),
             Set(w, Creating("insert", job[w].v, job[w].rows, ver[i].num + 1))
      PROVE  IInv'
  <2>1. i \in Frozen /\ ver[i].num + 1 \in Nat
    BY <1>4, Shapes DEF MayBeFollowed, Frozen, IInv
  <2> QED BY <1>2, <1>4, <2>1
<1>5. CASE Finish(w) BY <1>5, FinishStep DEF NumberVersion
<1> QED BY <1>3, <1>4, <1>5 DEF NumberVersion, Proceed, Set, Finish

LEMMA CopiedParents ==
    ASSUME IInv, NEW w \in Workers, job[w].op = "create", NEW s \in Subs
    PROVE  ParentsExist(s, job[w].rows[s])
<1>1. JobOK(job[w]) BY JobShape
<1>2. CASE job[w].v = None
  BY <1>1, <1>2 DEF JobOK, ParentsExist, NoRows
<1>3. CASE job[w].v # None
  <2>1. job[w].v \in Existing /\ job[w].rows = ver[job[w].v].rows
    BY <1>1, <1>3 DEF JobOK
  <2> QED BY <2>1 DEF IInv, Sound, DeclaredParentsLive, ParentsExist, Versions, SiteVersions
<1> QED BY <1>2, <1>3

LEMMA InsertVersionStep ==
    ASSUME IInv, NEW w \in Workers, InsertVersion(w)
    PROVE  IInv'
<1> DEFINE j == Creating("commit", job[w].v, job[w].rows, job[w].num)
<1>1. job[w] \in Jobs /\ JobOK(job[w]) /\ job[w].op = "create" /\ job[w].at = "insert"
  BY JobShape DEF InsertVersion, Doing
<1>2. (\A s \in Subs : ParentsExist(s, job[w].rows[s])) /\ defect' = defect
  BY <1>1, CopiedParents DEF InsertVersion, IInv, TypeOK
<1>3. CASE Set(w, j) /\ ~NumberTaken(job[w].num)
  <2>1. j \in Jobs BY <1>1, Shapes DEF Creating, Jobs
  <2>2. JobOK(j) BY <1>1, <1>3 DEF JobOK, Creating, NumberTaken
  <2>3. \A x \in Workers \ {w} : Apart(j, job[x])
    <3> TAKE x \in Workers \ {w}
    <3>1. job[x].op = "create" /\ job[x].at = "commit" => job[x].num # job[w].num
      BY DEF InsertVersion, BeingInserted, Doing
    <3>2. job[x].op = "leave" => job[w].rows[job[x].s] = None
      <4>1. HAVE job[x].op = "leave"
      <4>2. job[x].s \in Subs BY <4>1, JobShape DEF JobOK
      <4> QED BY <4>1, <4>2 DEF InsertVersion, ParentsUnlocked, LeavingSub
    <3>3. job[x].op = "close" /\ job[x].at # "lock" => job[w].rows[job[x].s] \notin Sited
      <4>1. HAVE job[x].op = "close" /\ job[x].at # "lock"
      <4>2. job[x].s \in Subs BY <4>1, JobShape DEF JobOK
      <4> QED BY <4>1, <4>2, BoundaryAssumption DEF InsertVersion, ParentsUnlocked, ClosingSite
    <3> QED BY <3>1, <3>2, <3>3 DEF Apart, Writes, Inserted, RowOf, Creating
  <2>4. \A x \in Workers \ {w} : Apart(job[x], j)
    <3> TAKE x \in Workers \ {w}
    <3>1. Apart(job[x], job[w]) BY JobShape
    <3>2. job[x].op = "create" /\ job[x].at = "commit" => job[x].num # job[w].num
      BY DEF InsertVersion, BeingInserted, Doing
    <3> QED BY <1>1, <3>1, <3>2 DEF Apart, Writes, Inserted, Creating
  <2> QED BY <1>2, <1>3, <2>1, <2>2, <2>3, <2>4, JobStep DEF InsertVersion, Set, store
<1>4. CASE Finish(w)
  BY <1>2, <1>4, FinishStep DEF InsertVersion, store
<1> QED BY <1>3, <1>4 DEF InsertVersion, Proceed, Set, Finish

LEMMA CheckGapsStep ==
    ASSUME IInv, NEW w \in Workers, CheckGaps(w)
    PROVE  IInv'
<1> DEFINE j == On("confirm", "commit", job[w].v)
<1>1. job[w] \in Jobs /\ JobOK(job[w]) /\ job[w].op = "confirm"
  BY JobShape DEF CheckGaps, Doing
<1>2. CASE Set(w, j) /\ WithoutGaps(ver[job[w].v].rows)
  <2>1. j \in Jobs BY <1>1, Shapes DEF On, Jobs
  <2>2. JobOK(j) BY <1>1, <1>2 DEF JobOK, On
  <2>3. \A x \in Workers \ {w} : Apart(j, job[x]) /\ Apart(job[x], j)
    BY <1>1, JobShape DEF Apart, Writes, Inserted, On
  <2> QED BY <1>2, <2>1, <2>2, <2>3, JobStep DEF CheckGaps, Set
<1>3. CASE Finish(w) BY <1>3, FinishStep DEF CheckGaps
<1> QED BY <1>2, <1>3 DEF CheckGaps, Proceed, Set, Finish

LEMMA ReadSnapshotStep ==
    ASSUME IInv, NEW w \in Workers, ReadSnapshot(w)
    PROVE  IInv'
<1> DEFINE v == job[w].v
<1> DEFINE j == [op |-> "retain", at |-> "commit", v |-> v, s |-> None, d |-> ver[v].at,
                 rows |-> ver[v].rows, names |-> NamesOf(v), num |-> 0]
<1>1. job[w] \in Jobs /\ JobOK(job[w]) /\ job[w].op = "retain"
  BY JobShape DEF ReadSnapshot, Doing
<1>2. v \in Frozen /\ v \in Ids /\ ver[v].at \in {"captured", "confirmed"}
  BY <1>1 DEF JobOK, Frozen
<1>3. Set(w, j) /\ defect' = defect
  BY <1>2 DEF ReadSnapshot, Proceed, IInv, TypeOK
<1>4. j \in Jobs BY <1>2, Shapes DEF Jobs, NamesOf, IInv
<1>5. JobOK(j) BY <1>2 DEF JobOK, NamesOf
<1>6. \A x \in Workers \ {w} : Apart(j, job[x]) /\ Apart(job[x], j)
  BY DEF Apart, Writes, Inserted
<1> QED BY <1>3, <1>4, <1>5, <1>6, JobStep DEF ReadSnapshot, Set, store

LEMMA CountVersionsStep ==
    ASSUME IInv, NEW w \in Workers, CountVersions(w)
    PROVE  IInv'
<1> DEFINE j == Parent("leave", "commit", job[w].s)
<1>1. job[w] \in Jobs /\ JobOK(job[w]) /\ job[w].op = "leave"
  BY JobShape DEF CountVersions, Doing
<1>2. CASE Set(w, j) /\ Versions(job[w].s) = {}
  <2>1. j \in Jobs BY <1>1, Shapes DEF Parent, Jobs
  <2>2. JobOK(j) BY <1>1, <1>2 DEF JobOK, Parent
  <2>3. \A x \in Workers \ {w} : Apart(j, job[x]) /\ Apart(job[x], j)
    BY <1>1, JobShape DEF Apart, Writes, Inserted, Parent
  <2> QED BY <1>2, <2>1, <2>2, <2>3, JobStep DEF CountVersions, Set
<1>3. CASE Finish(w) BY <1>3, FinishStep DEF CountVersions
<1> QED BY <1>2, <1>3 DEF CountVersions, Proceed, Set, Finish

LEMMA LockSiteStep ==
    ASSUME IInv, NEW w \in Workers, LockSite(w)
    PROVE  IInv'
<1> DEFINE j == Parent("close", "cascade", job[w].s)
<1>1. job[w] \in Jobs /\ JobOK(job[w]) /\ job[w].op = "close"
  BY JobShape DEF LockSite, Doing
<1>2. CASE Set(w, j)
  <2>1. j \in Jobs BY <1>1, Shapes DEF Parent, Jobs
  <2>2. JobOK(j) BY <1>1 DEF JobOK, Parent
  <2>3. \A x \in Workers \ {w} : Apart(j, job[x]) /\ Apart(job[x], j)
    BY <1>1 DEF LockSite, SiteLockable, NamesSite, Apart, Writes, Inserted, Parent
  <2> QED BY <1>2, <2>1, <2>2, <2>3, JobStep DEF LockSite, Set
<1>3. CASE Finish(w) BY <1>3, FinishStep DEF LockSite
<1> QED BY <1>2, <1>3 DEF LockSite, Proceed, Set, Finish

LEMMA CascadeStep ==
    ASSUME IInv, NEW w \in Workers, Cascade(w)
    PROVE  IInv'
<1> DEFINE j == Parent("close", "commit", job[w].s)
<1>1. job[w] \in Jobs /\ JobOK(job[w]) /\ job[w].op = "close" /\ job[w].at = "cascade"
  BY JobShape DEF Cascade, Doing
<1>2. CASE Set(w, j) /\ Reached(job[w].s) = {}
  <2>1. j \in Jobs BY <1>1, Shapes DEF Parent, Jobs
  <2>2. JobOK(j) BY <1>1, <1>2 DEF JobOK, Parent, Reached
  <2>3. \A x \in Workers \ {w} : Apart(j, job[x]) /\ Apart(job[x], j)
    BY <1>1, JobShape DEF Apart, Writes, Inserted, Parent
  <2> QED BY <1>2, <2>1, <2>2, <2>3, JobStep DEF Cascade, Set
<1>3. CASE Finish(w) BY <1>3, FinishStep DEF Cascade
<1> QED BY <1>2, <1>3 DEF Cascade, Proceed, Set, Finish

LEMMA RenameStep ==
    ASSUME IInv, NEW s \in Subs, Rename(s)
    PROVE  IInv'
<1>1. TypeOK'
  BY BoundaryAssumption DEF Rename, store, IInv, TypeOK
<1>2. Sound' BY SoundKept DEF Rename, store, IInv
<1>3. JobsOK'
  BY SameStore DEF Rename, store, IInv, JobsOK
<1>4. JobsApart'
  BY DEF Rename, IInv, JobsApart, Apart, Writes, Inserted, RowOf
<1> QED BY <1>1, <1>2, <1>3, <1>4 DEF IInv

-----------------------------------------------------------------------------
(* Commits.                                                                *)

LEMMA Finished ==
    ASSUME IInv, NEW w \in Workers, Finish(w)
    PROVE  /\ job' \in [Workers -> Jobs]
           /\ job'[w] = NoJob
           /\ \A x \in Workers \ {w} : job'[x] = job[x]
           /\ JobsApart'
<1>1. job' = [job EXCEPT ![w] = NoJob] BY DEF Finish, Set
<1>2. JobsApart' BY <1>1, NothingAsked, Pairs DEF IInv, TypeOK
<1> QED BY <1>1, <1>2, NothingAsked DEF IInv, TypeOK

LEMMA IdleOK ==
    ASSUME NEW w \in Workers, job'[w] = NoJob
    PROVE  JobOK(job[w])'
BY DEF JobOK, NoJob

(* What a request relies on, when another changes the version v.           *)
LEMMA OtherJob ==
    ASSUME TypeOK, NEW x \in Workers, JobOK(job[x]), job'[x] = job[x],
           NEW v \in Ids, v \notin Frozen, \A i \in Ids \ {v} : ver'[i] = ver[i],
           UNCHANGED <<subs, sites>>,
           Writes(job[x]) \/ job[x].op = "create" => job[x].v # v,
           job[x].op = "create" /\ job[x].at = "commit" => ~(v \in Existing' /\ ver'[v].num = job[x].num),
           job[x].op = "leave" /\ job[x].at = "commit" => ~(v \in Existing' /\ ver'[v].rows[job[x].s] # None),
           job[x].op = "close" /\ job[x].at = "commit" => ~(v \in Existing' /\ ver'[v].rows[job[x].s] \in Sited)
    PROVE  JobOK(job[x])'
<1>1. \A i \in Ids \ {v} : /\ i \in Existing' <=> i \in Existing
                           /\ i \in Frozen' <=> i \in Frozen
  BY DEF Existing, Frozen
<1>2. Existing \subseteq Ids /\ Frozen \subseteq Ids /\ Existing' \subseteq Ids
  BY DEF Existing, Frozen
<1>3. job[x].op = "put" =>
        /\ job[x].v \in Ids /\ ver'[job[x].v] = ver[job[x].v]
        /\ ver'[job[x].v].at = "open"
        /\ job[x].s \in Subs /\ job[x].d \in Declared
        /\ job[x].at \in {"write", "commit"} => job[x].rows = ver'[job[x].v].rows
        /\ job[x].at = "commit" => ParentsExist(job[x].s, job[x].d)
  BY DEF JobOK, Writes
<1>4. job[x].op \in {"remove", "confirm", "freeze"} =>
        /\ job[x].v \in Ids /\ ver'[job[x].v] = ver[job[x].v]
        /\ ver'[job[x].v].at = "open"
  BY DEF JobOK, Writes
<1>5. /\ job[x].op = "confirm" /\ job[x].at = "commit" => WithoutGaps(ver[job[x].v].rows)
      /\ job[x].op = "freeze" => DeclaredIn(ver[job[x].v].rows) # {}
  BY DEF JobOK
<1>6. job[x].op = "retain" =>
        /\ job[x].v \in Frozen'
        /\ job[x].at = "commit" =>
             /\ job[x].d = ver'[job[x].v].at
             /\ job[x].rows = ver'[job[x].v].rows
             /\ job[x].names = ver'[job[x].v].names
  <2>1. HAVE job[x].op = "retain"
  <2>2. job[x].v \in Frozen /\ job[x].v \in Ids \ {v} BY <1>2, <2>1 DEF JobOK
  <2> QED BY <1>1, <2>1, <2>2 DEF JobOK
<1>7. job[x].op = "create" =>
        /\ IF job[x].v = None THEN job[x].rows = NoRows
           ELSE job[x].v \in Existing' /\ job[x].rows = ver'[job[x].v].rows
        /\ job[x].at \in {"insert", "commit"} =>
             job[x].num = 1 \/ \E i \in Frozen' : job[x].num = ver'[i].num + 1
        /\ job[x].at = "commit" => ~(\E i \in Existing' : ver'[i].num = job[x].num)
  <2> SUFFICES ASSUME job[x].op = "create"
               PROVE /\ IF job[x].v = None THEN job[x].rows = NoRows
                        ELSE job[x].v \in Existing' /\ job[x].rows = ver'[job[x].v].rows
                     /\ job[x].at \in {"insert", "commit"} =>
                          job[x].num = 1 \/ \E i \in Frozen' : job[x].num = ver'[i].num + 1
                     /\ job[x].at = "commit" => ~(\E i \in Existing' : ver'[i].num = job[x].num)
    OBVIOUS
  <2>1. IF job[x].v = None THEN job[x].rows = NoRows
        ELSE job[x].v \in Existing' /\ job[x].rows = ver'[job[x].v].rows
    BY <1>1, <1>2 DEF JobOK
  <2>2. \A i \in Frozen : i \in Frozen' /\ ver'[i] = ver[i]
    BY <1>1, <1>2
  <2>3. job[x].at \in {"insert", "commit"} =>
          job[x].num = 1 \/ \E i \in Frozen : job[x].num = ver[i].num + 1
    BY DEF JobOK
  <2>4. job[x].at = "commit" => ~(\E i \in Existing' : ver'[i].num = job[x].num)
    <3>1. job[x].at = "commit" => ~NumberTaken(job[x].num) BY DEF JobOK
    <3> QED BY <1>1, <1>2, <3>1 DEF NumberTaken
  <2> QED BY <2>1, <2>2, <2>3, <2>4
<1>8. job[x].op = "leave" =>
        /\ job[x].s \in Subs
        /\ job[x].at = "commit" => ~(\E i \in Existing' : ver'[i].rows[job[x].s] # None)
  BY <1>1, <1>2 DEF JobOK, Versions
<1>9. job[x].op = "close" =>
        /\ job[x].s \in Subs
        /\ job[x].at = "commit" => ~(\E i \in Existing' : ver'[i].rows[job[x].s] \in Sited)
  BY <1>1, <1>2 DEF JobOK, SiteVersions
<1> HIDE DEF Frozen, Existing
<1> QED BY <1>3, <1>4, <1>5, <1>6, <1>7, <1>8, <1>9
        DEF JobOK, ParentsExist, WithoutGaps, DeclaredIn, NumberTaken, Versions, SiteVersions

LEMMA CommitDeclarationStep ==
    ASSUME IInv, NEW w \in Workers, CommitDeclaration(w)
    PROVE  IInv'
<1> DEFINE v == job[w].v
<1> DEFINE s == job[w].s
<1> DEFINE d == job[w].d
<1> DEFINE rows == [ver[v].rows EXCEPT ![s] = d]
<1>1. job[w] \in Jobs /\ JobOK(job[w]) /\ job[w].op = "put" /\ job[w].at = "commit" /\ Finish(w)
  BY JobShape DEF CommitDeclaration, Doing
<1>2. /\ v \in Ids /\ ver[v].at = "open" /\ s \in Subs /\ d \in Declared
      /\ job[w].rows = ver[v].rows /\ ParentsExist(s, d)
  BY <1>1 DEF JobOK
<1>3. v \notin Frozen /\ v \in Existing BY <1>2 DEF Frozen, Existing
<1>4. /\ ver' = [ver EXCEPT ![v] = [at |-> ver[v].at, num |-> ver[v].num,
                                    rows |-> rows, names |-> ver[v].names]]
      /\ trail' = [trail EXCEPT ![v] = [trail[v] EXCEPT ![s] = d]]
      /\ replays' = (replays /\ job[w].rows[s] = trail[v][s])
      /\ UNCHANGED <<subs, sites, name, datasets, defect>>
  BY <1>3 DEF CommitDeclaration, world
<1>5. /\ ver \in [Ids -> VersionRecords] /\ trail \in [Ids -> Rows] /\ rows \in Rows
      /\ ver'[v] = [at |-> ver[v].at, num |-> ver[v].num, rows |-> rows, names |-> ver[v].names]
      /\ \A i \in Ids \ {v} : ver'[i] = ver[i]
      /\ rows[s] = d /\ \A t \in Subs \ {s} : rows[t] = ver[v].rows[t]
  <2>1. ver \in [Ids -> VersionRecords] /\ trail \in [Ids -> Rows] BY DEF IInv, TypeOK
  <2>2. ver[v].rows \in [Subs -> Declared] BY <1>2, Shapes DEF IInv, Rows, Declared
  <2> QED BY <1>2, <1>4, <2>1, <2>2 DEF Rows, Declared
<1>6. trail[v] = ver[v].rows /\ trail'[v] = rows /\ \A i \in Ids \ {v} : trail'[i] = trail[i]
  BY <1>2, <1>3, <1>4, <1>5 DEF IInv, Sound, AuditReplays
<1>7. Existing' = Existing /\ Frozen' = Frozen
  BY <1>2, <1>5 DEF Existing, Frozen
<1>8. \A i \in Frozen : i \in Ids /\ ver'[i] = ver[i]
  BY <1>3, <1>5 DEF Frozen
<1>9. \A i \in Existing : i \in Ids /\ ver'[i].num = ver[i].num /\ ver'[i].at = ver[i].at
  BY <1>5 DEF Existing
<1>10. TypeOK'
  <2>1. ver' \in [Ids -> VersionRecords]
    BY <1>2, <1>4, <1>5, Shapes DEF IInv, VersionRecords
  <2>2. trail' \in [Ids -> Rows] BY <1>4, <1>5, <1>6
  <2>3. replays' \in BOOLEAN BY <1>4
  <2> QED BY <1>1, <1>4, <2>1, <2>2, <2>3, Finished DEF IInv, TypeOK
<1>11. OneOpenDraft' /\ Positive'
  BY <1>7, <1>8, <1>9 DEF IInv, Sound, OneOpenDraft, Positive
<1>12. FrozenIsReported'
  BY <1>7, <1>8 DEF IInv, Sound, FrozenIsReported, DeclaredIn, WithoutGaps
<1>13. DatasetIsItsVersion'
  BY <1>4, <1>7, <1>8 DEF IInv, Sound, DatasetIsItsVersion
<1>14. DeclaredParentsLive'
  <2> SUFFICES ASSUME NEW t \in Subs, NEW i \in Existing'
               PROVE  /\ ver'[i].rows[t] # None => t \in subs
                      /\ ver'[i].rows[t] \in Sited => t \in sites
    BY <1>4 DEF DeclaredParentsLive, Versions, SiteVersions
  <2>1. i \in Existing /\ i \in Ids BY <1>7 DEF Existing
  <2>2. CASE i = v /\ t = s
    <3>1. ver'[i].rows[t] = d
      <4>1. ver'[v].rows = rows BY <1>5
      <4>2. rows[s] = d BY <1>5
      <4> HIDE DEF rows
      <4> QED BY <2>2, <4>1, <4>2
    <3> QED BY <1>2, <2>2, <3>1, BoundaryAssumption DEF ParentsExist
  <2>3. CASE i # v \/ t # s
    <3>1. ver'[i].rows[t] = ver[i].rows[t]
      <4>1. CASE i # v BY <1>5, <2>1, <4>1
      <4>2. CASE i = v
        <5>1. t \in Subs \ {s} BY <2>3, <4>2
        <5>2. ver'[v].rows[t] = rows[t] BY <1>5
        <5>3. rows[t] = ver[v].rows[t] BY <1>5, <5>1
        <5> QED BY <4>2, <5>2, <5>3
      <4> QED BY <4>1, <4>2
    <3> QED BY <2>1, <3>1 DEF IInv, Sound, DeclaredParentsLive, Versions, SiteVersions
  <2> QED BY <2>2, <2>3
<1>15. AuditReplays'
  <2>1. replays' BY <1>2, <1>4, <1>6 DEF IInv, Sound, AuditReplays
  <2>2. \A i \in Existing : trail'[i] = ver'[i].rows
    BY <1>5, <1>6, <1>9 DEF IInv, Sound, AuditReplays
  <2> QED BY <1>7, <2>1, <2>2 DEF AuditReplays
<1>16. NoDefect' BY <1>4 DEF IInv, Sound, NoDefect
<1>17. JobsOK'
  <2> SUFFICES ASSUME NEW x \in Workers PROVE JobOK(job[x])' BY DEF JobsOK
  <2>1. CASE x = w BY <1>1, <2>1, Finished, IdleOK
  <2>2. CASE x # w
    <3>1. job[x] \in Jobs /\ JobOK(job[x]) /\ job'[x] = job[x] /\ Apart(job[w], job[x])
      BY <1>1, <2>2, JobShape, Finished
    <3>2. Writes(job[x]) \/ job[x].op = "create" => job[x].v # v
      BY <1>1, <3>1 DEF Apart, Writes
    <3>3. job[x].op = "create" /\ job[x].at = "commit" => ver'[v].num # job[x].num
      BY <1>3, <1>5, <3>1 DEF JobOK, NumberTaken
    <3>4. job[x].op = "leave" /\ job[x].at = "commit" => rows[job[x].s] = None
      <4>1. HAVE job[x].op = "leave" /\ job[x].at = "commit"
      <4>2. job[x].s \in Subs /\ ver[v].rows[job[x].s] = None
        BY <1>3, <3>1, <4>1 DEF JobOK, Versions
      <4>3. RowOf(job[w], job[x].s) = None
        BY <1>1, <3>1, <4>1 DEF Apart, Inserted
      <4> QED BY <1>1, <1>5, <4>2, <4>3 DEF RowOf
    <3>5. job[x].op = "close" /\ job[x].at = "commit" => rows[job[x].s] \notin Sited
      <4>1. HAVE job[x].op = "close" /\ job[x].at = "commit"
      <4>2. job[x].s \in Subs /\ ver[v].rows[job[x].s] \notin Sited
        BY <1>3, <3>1, <4>1 DEF JobOK, SiteVersions
      <4>3. RowOf(job[w], job[x].s) \notin Sited
        BY <1>1, <3>1, <4>1 DEF Apart, Inserted
      <4> QED BY <1>1, <1>5, <4>2, <4>3 DEF RowOf
    <3> QED BY <1>2, <1>3, <1>4, <1>5, <3>1, <3>2, <3>3, <3>4, <3>5, OtherJob DEF IInv
  <2> QED BY <2>1, <2>2
<1>18. JobsApart' BY <1>1, Finished
<1> QED BY <1>10, <1>11, <1>12, <1>13, <1>14, <1>15, <1>16, <1>17, <1>18 DEF IInv, Sound

LEMMA FreezeStep ==
    ASSUME IInv, NEW w \in Workers, NEW v \in Ids, NEW a \in {"captured", "confirmed"},
           job[w].v = v, Writes(job[w]), ver[v].at = "open",
           DeclaredIn(ver[v].rows) # {}, a = "confirmed" => WithoutGaps(ver[v].rows),
           NEW j \in Jobs, job' = [job EXCEPT ![w] = j],
           IF a = "confirmed" THEN j = NoJob ELSE j = On("retain", "read", v),
           ver' = [ver EXCEPT ![v] = [at |-> a, num |-> ver[v].num, rows |-> ver[v].rows,
                                      names |-> NamesNow(ver[v].rows)]],
           UNCHANGED <<world, trail, replays, datasets, defect>>
    PROVE  IInv'
<1> DEFINE names == NamesNow(ver[v].rows)
<1>1. /\ job \in [Workers -> Jobs] /\ job' \in [Workers -> Jobs] /\ job'[w] = j
      /\ \A x \in Workers \ {w} : job'[x] = job[x]
      /\ ver \in [Ids -> VersionRecords] /\ name \in [Subs -> 0..MaxRenames]
  BY DEF IInv, TypeOK
<1>2. v \notin Frozen /\ v \in Existing BY DEF Frozen, Existing
<1>3. /\ ver'[v] = [at |-> a, num |-> ver[v].num, rows |-> ver[v].rows, names |-> names]
      /\ \A i \in Ids \ {v} : ver'[i] = ver[i]
  BY <1>1
<1>4. UNCHANGED <<subs, sites, name, trail, replays, datasets, defect>>
  BY DEF world
<1>5. Existing' = Existing /\ Frozen' = Frozen \cup {v}
  BY <1>3 DEF Existing, Frozen
<1>6. \A i \in Existing : i \in Ids /\ ver'[i].num = ver[i].num /\ ver'[i].rows = ver[i].rows
  BY <1>3 DEF Existing
<1>7. \A i \in Frozen : i \in Ids /\ ver'[i] = ver[i]
  BY <1>2, <1>3 DEF Frozen
<1>8. names \in NameRows /\ DeclaredIn(names) = DeclaredIn(ver[v].rows)
  <2>1. names \in NameRows BY <1>1 DEF NamesNow, NameRows
  <2>2. \A s \in Subs : names[s] # None <=> ver[v].rows[s] # None
    BY <1>1, BoundaryAssumption DEF NamesNow
  <2> QED BY <2>1, <2>2 DEF DeclaredIn
<1>9. TypeOK'
  <2>1. ver' \in [Ids -> VersionRecords]
    <3>1. ver'[v] \in VersionRecords BY <1>1, <1>3, <1>8, Shapes DEF IInv, VersionRecords, States
    <3> QED BY <1>1, <3>1
  <2> QED BY <1>1, <1>4, <2>1 DEF IInv, TypeOK
<1>10. OneOpenDraft' /\ Positive'
  <2>1. Positive' BY <1>5, <1>6 DEF IInv, Sound, Positive
  <2>2. ASSUME NEW i \in Existing', NEW k \in Existing', ver'[i].num = ver'[k].num PROVE i = k
    BY <1>5, <1>6, <2>2 DEF IInv, Sound, OneOpenDraft
  <2>3. ASSUME NEW i \in Existing', NEW n \in 1..(ver'[i].num - 1)
        PROVE  \E k \in Frozen' : ver'[k].num = n
    BY <1>5, <1>6, <1>7 DEF IInv, Sound, OneOpenDraft
  <2> QED BY <2>1, <2>2, <2>3 DEF OneOpenDraft
<1>11. FrozenIsReported'
  <2> SUFFICES ASSUME NEW i \in Frozen'
               PROVE  /\ DeclaredIn(ver'[i].rows) # {}
                      /\ DeclaredIn(ver'[i].names) = DeclaredIn(ver'[i].rows)
                      /\ ver'[i].at = "confirmed" => WithoutGaps(ver'[i].rows)
    BY DEF FrozenIsReported, DeclaredIn, WithoutGaps
  <2>1. CASE i = v BY <1>3, <1>8, <2>1
  <2>2. CASE i # v
    BY <1>5, <1>7, <2>2 DEF IInv, Sound, FrozenIsReported
  <2> QED BY <2>1, <2>2
<1>12. DatasetIsItsVersion'
  BY <1>4, <1>5, <1>7 DEF IInv, Sound, DatasetIsItsVersion
<1>13. DeclaredParentsLive'
  BY <1>4, <1>5, <1>6 DEF IInv, Sound, DeclaredParentsLive, Versions, SiteVersions
<1>14. AuditReplays'
  BY <1>4, <1>5, <1>6 DEF IInv, Sound, AuditReplays
<1>15. NoDefect' BY <1>4 DEF IInv, Sound, NoDefect
<1>16. JobsOK'
  <2> SUFFICES ASSUME NEW x \in Workers PROVE JobOK(job[x])' BY DEF JobsOK
  <2>1. CASE x = w
    <3>1. CASE a = "confirmed" BY <1>1, <2>1, <3>1, IdleOK
    <3>2. CASE a # "confirmed"
      <4>1. job'[x] = On("retain", "read", v) BY <1>1, <2>1, <3>2
      <4> QED BY <1>5, <4>1 DEF JobOK, On
    <3> QED BY <3>1, <3>2
  <2>2. CASE x # w
    <3>1. job[x] \in Jobs /\ JobOK(job[x]) /\ job'[x] = job[x] /\ Apart(job[w], job[x])
      BY <1>1, <2>2, JobShape
    <3>2. Writes(job[x]) \/ job[x].op = "create" => job[x].v # v
      BY <3>1 DEF Apart
    <3>3. /\ job[x].op = "create" /\ job[x].at = "commit" => ver'[v].num # job[x].num
          /\ job[x].op = "leave" /\ job[x].at = "commit" => ver'[v].rows[job[x].s] = None
          /\ job[x].op = "close" /\ job[x].at = "commit" => ver'[v].rows[job[x].s] \notin Sited
      BY <1>2, <1>3, <3>1 DEF JobOK, NumberTaken, Versions, SiteVersions
    <3> QED BY <1>2, <1>3, <1>4, <3>1, <3>2, <3>3, OtherJob DEF IInv
  <2> QED BY <2>1, <2>2
<1>17. JobsApart'
  <2>1. \A x \in Workers \ {w} : Apart(j, job[x]) /\ Apart(job[x], j)
    BY NothingAsked DEF Apart, Writes, Inserted, On
  <2> QED BY <2>1, <1>1, Pairs DEF IInv
<1> QED BY <1>9, <1>10, <1>11, <1>12, <1>13, <1>14, <1>15, <1>16, <1>17 DEF IInv, Sound

LEMMA CommitConfirmStep ==
    ASSUME IInv, NEW w \in Workers, CommitConfirm(w)
    PROVE  IInv'
<1>1. job[w] \in Jobs /\ JobOK(job[w]) /\ job[w].op = "confirm" /\ job[w].at = "commit" /\ Finish(w)
  BY JobShape DEF CommitConfirm, Doing
<1>2. /\ job[w].v \in Ids /\ ver[job[w].v].at = "open" /\ WithoutGaps(ver[job[w].v].rows)
      /\ Writes(job[w])
  BY <1>1 DEF JobOK, Writes
<1>3. job[w].v \notin Frozen BY <1>2 DEF Frozen
<1>4. Freeze(w, "confirmed") /\ UNCHANGED <<world, trail, replays, datasets>>
  BY DEF CommitConfirm
<1> QED BY <1>1, <1>2, <1>3, <1>4, FreezeStep, NothingAsked DEF Freeze, Finish, Set, WithoutGaps

LEMMA CommitFreezeStep ==
    ASSUME IInv, NEW w \in Workers, CommitFreeze(w)
    PROVE  IInv'
<1>1. job[w] \in Jobs /\ JobOK(job[w]) /\ job[w].op = "freeze"
      /\ Set(w, On("retain", "read", job[w].v))
  BY JobShape DEF CommitFreeze, Doing
<1>2. /\ job[w].v \in Ids /\ ver[job[w].v].at = "open" /\ DeclaredIn(ver[job[w].v].rows) # {}
      /\ Writes(job[w])
  BY <1>1 DEF JobOK, Writes
<1>3. job[w].v \notin Frozen BY <1>2 DEF Frozen
<1>4. On("retain", "read", job[w].v) \in Jobs BY <1>2, Shapes DEF On, Jobs
<1>5. Freeze(w, "captured") /\ UNCHANGED <<world, trail, replays, datasets>>
  BY DEF CommitFreeze
<1> QED BY <1>1, <1>2, <1>3, <1>4, <1>5, FreezeStep DEF Freeze, Set

LEMMA CommitRemoveStep ==
    ASSUME IInv, NEW w \in Workers, CommitRemove(w)
    PROVE  IInv'
<1> DEFINE v == job[w].v
<1>1. job[w] \in Jobs /\ JobOK(job[w]) /\ job[w].op = "remove" /\ Finish(w)
  BY JobShape DEF CommitRemove, Doing
<1>2. v \in Ids /\ ver[v].at = "open" BY <1>1 DEF JobOK
<1>3. v \notin Frozen BY <1>2 DEF Frozen
<1>4. /\ ver' = [ver EXCEPT ![v] = Gone] /\ trail' = [trail EXCEPT ![v] = NoRows]
      /\ UNCHANGED <<subs, sites, name, replays, datasets, defect>>
  BY <1>3 DEF CommitRemove, world
<1>5. /\ ver \in [Ids -> VersionRecords] /\ trail \in [Ids -> Rows]
      /\ ver'[v] = Gone /\ \A i \in Ids \ {v} : ver'[i] = ver[i] /\ trail'[i] = trail[i]
  BY <1>2, <1>4 DEF IInv, TypeOK
<1>6. Existing' = Existing \ {v} /\ Frozen' = Frozen
  BY <1>2, <1>5 DEF Existing, Frozen, Gone
<1>7. \A i \in Existing' : i \in Existing /\ i \in Ids /\ ver'[i] = ver[i] /\ trail'[i] = trail[i]
  BY <1>5, <1>6 DEF Existing
<1>8. \A i \in Frozen : i \in Ids /\ ver'[i] = ver[i]
  BY <1>3, <1>5 DEF Frozen
<1>9. TypeOK'
  <2>1. Gone \in VersionRecords BY Shapes DEF Gone, VersionRecords, States
  <2>2. ver' \in [Ids -> VersionRecords] /\ trail' \in [Ids -> Rows]
    BY <1>4, <1>5, <2>1, Shapes
  <2> QED BY <1>1, <1>4, <2>2, Finished DEF IInv, TypeOK
<1>10. OneOpenDraft' /\ Positive'
  BY <1>6, <1>7, <1>8 DEF IInv, Sound, OneOpenDraft, Positive
<1>11. FrozenIsReported' /\ DatasetIsItsVersion'
  BY <1>4, <1>6, <1>8 DEF IInv, Sound, FrozenIsReported, DatasetIsItsVersion, DeclaredIn, WithoutGaps
<1>12. DeclaredParentsLive'
  BY <1>4, <1>7 DEF IInv, Sound, DeclaredParentsLive, Versions, SiteVersions
<1>13. AuditReplays' /\ NoDefect'
  BY <1>4, <1>7 DEF IInv, Sound, AuditReplays, NoDefect
<1>14. JobsOK'
  <2> SUFFICES ASSUME NEW x \in Workers PROVE JobOK(job[x])' BY DEF JobsOK
  <2>1. CASE x = w BY <1>1, <2>1, Finished, IdleOK
  <2>2. CASE x # w
    <3>1. job[x] \in Jobs /\ JobOK(job[x]) /\ job'[x] = job[x] /\ Apart(job[w], job[x])
      BY <1>1, <2>2, JobShape, Finished
    <3>2. Writes(job[x]) \/ job[x].op = "create" => job[x].v # v
      BY <1>1, <3>1 DEF Apart, Writes
    <3> QED BY <1>2, <1>3, <1>4, <1>5, <1>6, <3>1, <3>2, OtherJob DEF IInv
  <2> QED BY <2>1, <2>2
<1>15. JobsApart' BY <1>1, Finished
<1> QED BY <1>9, <1>10, <1>11, <1>12, <1>13, <1>14, <1>15 DEF IInv, Sound

LEMMA CommitVersionStep ==
    ASSUME IInv, NEW w \in Workers, CommitVersion(w)
    PROVE  IInv'
<1> DEFINE n == job[w].num
<1> DEFINE rows == job[w].rows
<1> DEFINE from == job[w].v
<1>1. job[w] \in Jobs /\ JobOK(job[w]) /\ job[w].op = "create" /\ job[w].at = "commit" /\ Finish(w)
  BY JobShape DEF CommitVersion, Doing
<1>2. /\ IF from = None THEN rows = NoRows ELSE from \in Existing /\ rows = ver[from].rows
      /\ n = 1 \/ \E i \in Frozen : n = ver[i].num + 1
      /\ ~NumberTaken(n)
  BY <1>1 DEF JobOK
<1>3. PICK v \in Unused :
        /\ ver' = [ver EXCEPT ![v] = [at |-> "open", num |-> n, rows |-> rows, names |-> NoRows]]
        /\ trail' = [trail EXCEPT ![v] = IF from = None THEN NoRows ELSE trail[from]]
  BY DEF CommitVersion
<1>4. v \in Ids /\ ver[v].at = "free" /\ v \notin Frozen /\ v \notin Existing
  BY DEF Unused, Frozen, Existing
<1>5. /\ UNCHANGED <<subs, sites, name, replays, datasets, defect>>
      /\ ver \in [Ids -> VersionRecords] /\ trail \in [Ids -> Rows] /\ rows \in Rows
      /\ n \in Nat \ {0}
  <2>1. \A i \in Frozen : ver[i].num \in Nat
    BY Shapes DEF IInv, Frozen
  <2> QED BY <1>1, <1>2, <2>1 DEF CommitVersion, world, IInv, TypeOK, Jobs
<1>6. /\ ver'[v].at = "open" /\ ver'[v].num = n /\ ver'[v].rows = rows /\ ver'[v].names = NoRows
      /\ ver'[v] \in VersionRecords
      /\ \A i \in Ids \ {v} : ver'[i] = ver[i] /\ trail'[i] = trail[i]
  <2>1. ver'[v] = [at |-> "open", num |-> n, rows |-> rows, names |-> NoRows]
    BY <1>3, <1>4, <1>5
  <2> QED BY <1>3, <1>5, <2>1, Shapes DEF VersionRecords, States
<1>7. trail'[v] = rows
  <2>1. CASE from = None BY <1>2, <1>3, <1>4, <1>5, <2>1
  <2>2. CASE from # None
    <3>1. trail[from] = rows BY <1>2, <2>2 DEF IInv, Sound, AuditReplays
    <3> QED BY <1>3, <1>4, <1>5, <2>2, <3>1
  <2> QED BY <2>1, <2>2
<1>8. Existing' = Existing \cup {v} /\ Frozen' = Frozen
  BY <1>4, <1>6 DEF Existing, Frozen
<1>9. \A i \in Existing : i \in Ids /\ i # v /\ ver'[i] = ver[i] /\ trail'[i] = trail[i]
  BY <1>4, <1>6 DEF Existing
<1>10. \A i \in Frozen : i \in Existing /\ i \in Ids /\ ver'[i] = ver[i]
  BY <1>4, <1>6 DEF Frozen, Existing
<1> HIDE DEF n, rows, from
<1>11. TypeOK'
  <2>1. ver' \in [Ids -> VersionRecords] BY <1>3, <1>5, <1>6
  <2>2. trail' \in [Ids -> Rows] BY <1>3, <1>5, <1>6, <1>7
  <2> QED BY <1>1, <1>5, <2>1, <2>2, Finished DEF IInv, TypeOK
<1>12. \A i \in Existing : ver[i].num # n
  BY <1>2 DEF NumberTaken
<1>13. \A m \in 1..(n - 1) : \E k \in Frozen : ver[k].num = m
  <2> TAKE m \in 1..(n - 1)
  <2>1. CASE n = 1 BY <2>1
  <2>2. CASE \E i \in Frozen : n = ver[i].num + 1
    <3>1. PICK i \in Frozen : n = ver[i].num + 1 BY <2>2
    <3>2. ver[i].num \in Nat \ {0} BY <1>10 DEF IInv, Sound, Positive
    <3>3. CASE m = ver[i].num BY <3>3
    <3>4. CASE m # ver[i].num
      <4>1. m \in 1..(ver[i].num - 1) BY <3>1, <3>2, <3>4, <1>5
      <4> QED BY <1>10, <4>1 DEF IInv, Sound, OneOpenDraft
    <3> QED BY <3>3, <3>4
  <2> QED BY <1>2, <2>1, <2>2
<1>14. OneOpenDraft' /\ Positive'
  <2>1. Positive' BY <1>5, <1>6, <1>8, <1>9 DEF IInv, Sound, Positive
  <2>2. ASSUME NEW i \in Existing', NEW k \in Existing', ver'[i].num = ver'[k].num PROVE i = k
    BY <1>6, <1>8, <1>9, <1>12, <2>2 DEF IInv, Sound, OneOpenDraft
  <2>3. ASSUME NEW i \in Existing', NEW m \in 1..(ver'[i].num - 1)
        PROVE  \E k \in Frozen' : ver'[k].num = m
    <3>1. CASE i = v BY <1>6, <1>8, <1>10, <1>13, <2>3, <3>1
    <3>2. CASE i # v
      BY <1>8, <1>9, <1>10, <2>3, <3>2 DEF IInv, Sound, OneOpenDraft
    <3> QED BY <3>1, <3>2
  <2> QED BY <2>1, <2>2, <2>3 DEF OneOpenDraft
<1>15. FrozenIsReported' /\ DatasetIsItsVersion'
  BY <1>5, <1>8, <1>10 DEF IInv, Sound, FrozenIsReported, DatasetIsItsVersion, DeclaredIn, WithoutGaps
<1>16. DeclaredParentsLive'
  <2>1. \A s \in Subs : ParentsExist(s, rows[s])
    BY <1>1, CopiedParents DEF rows
  <2> SUFFICES ASSUME NEW s \in Subs, NEW i \in Existing'
               PROVE  /\ ver'[i].rows[s] # None => s \in subs
                      /\ ver'[i].rows[s] \in Sited => s \in sites
    BY <1>5 DEF DeclaredParentsLive, Versions, SiteVersions
  <2>2. CASE i = v BY <1>6, <2>1, <2>2, BoundaryAssumption DEF ParentsExist
  <2>3. CASE i # v
    BY <1>8, <1>9, <2>3 DEF IInv, Sound, DeclaredParentsLive, Versions, SiteVersions
  <2> QED BY <2>2, <2>3
<1>17. AuditReplays' /\ NoDefect'
  BY <1>5, <1>6, <1>7, <1>8, <1>9 DEF IInv, Sound, AuditReplays, NoDefect
<1>18. JobsOK'
  <2> SUFFICES ASSUME NEW x \in Workers PROVE JobOK(job[x])' BY DEF JobsOK
  <2>1. CASE x = w BY <1>1, <2>1, Finished, IdleOK
  <2>2. CASE x # w
    <3>1. job[x] \in Jobs /\ JobOK(job[x]) /\ job'[x] = job[x] /\ Apart(job[w], job[x])
      BY <1>1, <2>2, JobShape, Finished
    <3>2. Writes(job[x]) \/ job[x].op = "create" => job[x].v # v
      BY <1>4, <3>1, IdsAre DEF JobOK, Writes
    <3>3. job[x].op = "create" /\ job[x].at = "commit" => ver'[v].num # job[x].num
      BY <1>1, <1>6, <3>1 DEF Apart, n
    <3>4. job[x].op = "leave" => ver'[v].rows[job[x].s] = None
      BY <1>1, <1>6, <3>1 DEF Apart, Inserted, RowOf, rows
    <3>5. job[x].op = "close" /\ job[x].at = "commit" => ver'[v].rows[job[x].s] \notin Sited
      BY <1>1, <1>6, <3>1 DEF Apart, Inserted, RowOf, rows
    <3> QED BY <1>4, <1>5, <1>6, <3>1, <3>2, <3>3, <3>4, <3>5, OtherJob DEF IInv
  <2> QED BY <2>1, <2>2
<1>19. JobsApart' BY <1>1, Finished
<1> QED BY <1>11, <1>14, <1>15, <1>16, <1>17, <1>18, <1>19 DEF IInv, Sound

LEMMA RetainStep ==
    ASSUME IInv, NEW w \in Workers, Retain(w)
    PROVE  IInv'
<1> DEFINE v == job[w].v
<1> DEFINE r == [at |-> job[w].d, rows |-> job[w].rows, names |-> job[w].names]
<1>1. job[w] \in Jobs /\ JobOK(job[w]) /\ job[w].op = "retain" /\ job[w].at = "commit" /\ Finish(w)
  BY JobShape DEF Retain, Doing
<1>2. /\ v \in Frozen /\ job[w].d = ver[v].at /\ job[w].rows = ver[v].rows
      /\ job[w].names = ver[v].names
  BY <1>1 DEF JobOK
<1>3. v \in Ids /\ ver[v].at \in {"captured", "confirmed"} BY <1>2 DEF Frozen
<1>4. Agrees(w) BY <1>2 DEF Agrees
<1>5. /\ datasets' = [datasets EXCEPT ![v] = @ \cup {r}]
      /\ UNCHANGED <<subs, sites, name, ver, trail, replays, defect>>
  BY <1>4 DEF Retain, world
<1>6. TypeOK'
  <2>1. r \in [at : {"captured", "confirmed"}, rows : Rows, names : NameRows]
    BY <1>1, <1>2, <1>3 DEF Jobs
  <2>2. datasets' \in [Ids -> SUBSET [at : {"captured", "confirmed"}, rows : Rows, names : NameRows]]
    BY <1>3, <1>5, <2>1 DEF IInv, TypeOK
  <2> QED BY <1>1, <1>5, <2>2, Finished DEF IInv, TypeOK
<1>7. DatasetIsItsVersion'
  <2> SUFFICES ASSUME NEW i \in Ids, NEW q \in datasets'[i]
               PROVE  i \in Frozen /\ q = [at |-> ver[i].at, rows |-> ver[i].rows, names |-> ver[i].names]
    BY <1>5 DEF DatasetIsItsVersion, Frozen
  <2>1. CASE q \in datasets[i] BY <2>1 DEF IInv, Sound, DatasetIsItsVersion
  <2>2. CASE q \notin datasets[i]
    <3>1. i = v /\ q = r BY <1>3, <1>5, <2>2 DEF IInv, TypeOK
    <3> QED BY <1>2, <3>1
  <2> QED BY <2>1, <2>2
<1>8. (OneOpenDraft /\ Positive /\ FrozenIsReported /\ DeclaredParentsLive /\ AuditReplays /\ NoDefect)'
  BY <1>5 DEF IInv, Sound, OneOpenDraft, Positive, FrozenIsReported, DeclaredParentsLive, AuditReplays,
              NoDefect, Existing, Frozen, DeclaredIn, WithoutGaps, Versions, SiteVersions
<1>9. JobsOK'
  <2> SUFFICES ASSUME NEW x \in Workers PROVE JobOK(job[x])' BY DEF JobsOK
  <2>1. CASE x = w BY <1>1, <2>1, Finished, IdleOK
  <2>2. CASE x # w BY <1>1, <1>5, <2>2, JobShape, Finished, SameStore
  <2> QED BY <2>1, <2>2
<1>10. JobsApart' BY <1>1, Finished
<1> QED BY <1>6, <1>7, <1>8, <1>9, <1>10 DEF IInv, Sound

(* A parent is deleted that no version declares and no request inserts.    *)
LEMMA ParentGone ==
    ASSUME IInv, NEW w \in Workers, Finish(w), NEW s \in Subs, job[w].s = s,
           UNCHANGED <<store, name>>,
           \/ /\ job[w].op = "leave" /\ Versions(s) = {}
              /\ subs' = subs \ {s} /\ sites' = sites \ {s}
           \/ /\ job[w].op = "close" /\ job[w].at = "commit" /\ SiteVersions(s) = {}
              /\ subs' = subs /\ sites' = sites \ {s}
    PROVE  IInv'
<1>1. TypeOK' BY Finished DEF IInv, TypeOK, store
<1>2. DeclaredParentsLive'
  <2> SUFFICES ASSUME NEW t \in Subs
               PROVE  /\ Versions(t) # {} => t \in subs'
                      /\ SiteVersions(t) # {} => t \in sites'
    BY DEF DeclaredParentsLive, Versions, SiteVersions, Existing, store
  <2>1. SiteVersions(t) # {} => Versions(t) # {}
    BY BoundaryAssumption DEF Versions, SiteVersions
  <2> QED BY <2>1 DEF IInv, Sound, DeclaredParentsLive
<1>3. (OneOpenDraft /\ Positive /\ FrozenIsReported /\ DatasetIsItsVersion /\ AuditReplays /\ NoDefect)'
  BY DEF IInv, Sound, OneOpenDraft, Positive, FrozenIsReported, DatasetIsItsVersion, AuditReplays,
         NoDefect, Existing, Frozen, DeclaredIn, WithoutGaps, store
<1>4. JobsOK'
  <2> SUFFICES ASSUME NEW x \in Workers PROVE JobOK(job[x])' BY DEF JobsOK
  <2>1. CASE x = w BY <2>1, Finished, IdleOK
  <2>2. CASE x # w
    <3>1. job[x] \in Jobs /\ JobOK(job[x]) /\ job'[x] = job[x] /\ Apart(job[x], job[w])
      BY <2>2, JobShape, Finished
    <3>2. job[x].op = "put" /\ job[x].at = "commit" => ParentsExist(job[x].s, job[x].d)'
      <4>1. HAVE job[x].op = "put" /\ job[x].at = "commit"
      <4>2. ParentsExist(job[x].s, job[x].d) /\ job[x].d \in Declared BY <3>1, <4>1 DEF JobOK
      <4>3. CASE job[x].s # s
        <5>1. /\ job[x].s \in subs => job[x].s \in subs'
              /\ job[x].s \in sites => job[x].s \in sites'
          BY <4>3
        <5> QED BY <3>1, <4>2, <5>1 DEF ParentsExist
      <4>4. CASE job[x].s = s
        <5>1. CASE job[w].op = "leave"
          <6>1. job[x].d = None BY <3>1, <4>1, <4>4, <5>1 DEF Apart, Inserted, RowOf
          <6> QED BY <3>1, <6>1 DEF ParentsExist
        <5>2. CASE job[w].op = "close"
          <6>1. job[x].d \notin Sited BY <3>1, <4>1, <4>4, <5>2 DEF Apart, Inserted, RowOf
          <6> QED BY <3>1, <4>2, <5>2, <6>1 DEF ParentsExist
        <5> QED BY <5>1, <5>2
      <4> QED BY <4>3, <4>4
    <3>3. ver' = ver BY DEF store
    <3> QED BY <3>1, <3>2, <3>3
            DEF JobOK, ParentsExist, WithoutGaps, DeclaredIn, Frozen, Existing, NumberTaken, Versions, SiteVersions
  <2> QED BY <2>1, <2>2
<1>5. JobsApart' BY Finished
<1> QED BY <1>1, <1>2, <1>3, <1>4, <1>5 DEF IInv, Sound

LEMMA CommitLeaveStep ==
    ASSUME IInv, NEW w \in Workers, CommitLeave(w)
    PROVE  IInv'
<1>1. job[w] \in Jobs /\ JobOK(job[w]) /\ job[w].op = "leave" /\ job[w].at = "commit" /\ Finish(w)
  BY JobShape DEF CommitLeave, Doing
<1>2. job[w].s \in Subs /\ Versions(job[w].s) = {} BY <1>1 DEF JobOK
<1> QED BY <1>1, <1>2, ParentGone DEF CommitLeave, store

LEMMA CommitCloseStep ==
    ASSUME IInv, NEW w \in Workers, CommitClose(w)
    PROVE  IInv'
<1>1. job[w] \in Jobs /\ JobOK(job[w]) /\ job[w].op = "close" /\ job[w].at = "commit" /\ Finish(w)
  BY JobShape DEF CommitClose, Doing
<1>2. job[w].s \in Subs /\ SiteVersions(job[w].s) = {} BY <1>1 DEF JobOK
<1> QED BY <1>1, <1>2, ParentGone DEF CommitClose

-----------------------------------------------------------------------------
(* The invariant.                                                          *)

LEMMA InitOK == Init => IInv
<1> SUFFICES ASSUME Init PROVE IInv OBVIOUS
<1>1. TypeOK
  <2>1. NoVersion \in VersionRecords BY Shapes DEF NoVersion, VersionRecords, States
  <2>2. ver \in [Ids -> VersionRecords] BY <2>1 DEF Init
  <2>3. name \in [Subs -> 0..MaxRenames] BY BoundaryAssumption DEF Init
  <2>4. trail \in [Ids -> Rows] BY Shapes DEF Init
  <2>5. job \in [Workers -> Jobs] BY NothingAsked DEF Init
  <2> QED BY <2>2, <2>3, <2>4, <2>5 DEF Init, TypeOK
<1>2. Existing = {} /\ Frozen = {} BY DEF Init, NoVersion, Existing, Frozen
<1>3. Sound
  BY <1>2 DEF Init, Sound, OneOpenDraft, FrozenIsReported, DatasetIsItsVersion, DeclaredParentsLive,
              AuditReplays, NoDefect, Positive, Versions, SiteVersions
<1>4. JobsOK /\ JobsApart BY NothingAsked DEF Init, JobsOK, JobsApart
<1> QED BY <1>1, <1>3, <1>4 DEF IInv

LEMMA StepOK == IInv /\ [Next]_vars => IInv'
<1> SUFFICES ASSUME IInv, [Next]_vars PROVE IInv' OBVIOUS
<1>1. ASSUME NEW w \in Workers, Begins(w) PROVE IInv' BY <1>1, BeginStep
<1>2. ASSUME NEW w \in Workers, Goes(w) PROVE IInv'
  <2>1. CASE BreakDeadlock(w) BY <2>1, FinishStep DEF BreakDeadlock
  <2> QED BY <1>2, <2>1, ReadDeclarationStep, WriteDeclarationStep, CommitDeclarationStep,
             NumberVersionStep, InsertVersionStep, CommitVersionStep, CommitRemoveStep, CheckGapsStep,
             CommitConfirmStep, CommitFreezeStep, ReadSnapshotStep, RetainStep, CountVersionsStep,
             CommitLeaveStep, LockSiteStep, CascadeStep, CommitCloseStep DEF Goes
<1>3. ASSUME NEW w \in Workers, Abort(w) PROVE IInv' BY <1>3, FinishStep DEF Abort
<1>4. ASSUME NEW s \in Subs, Rename(s) PROVE IInv' BY <1>4, RenameStep
<1>5. CASE UNCHANGED vars
  <2>1. TypeOK' /\ Sound' BY <1>5, SoundKept DEF vars, IInv, TypeOK
  <2>2. JobsOK' BY <1>5, SameStore DEF vars, IInv, JobsOK
  <2>3. JobsApart' BY <1>5 DEF vars, IInv, JobsApart, Apart, Writes, Inserted, RowOf
  <2> QED BY <2>1, <2>2, <2>3 DEF IInv
<1> QED BY <1>1, <1>2, <1>3, <1>4, <1>5 DEF Next

THEOREM Invariant == Spec => []IInv
<1>1. Init => IInv BY InitOK
<1>2. IInv /\ [Next]_vars => IInv' BY StepOK
<1> QED BY <1>1, <1>2, PTL DEF Spec

(* For any number of requests, of subsidiaries and of versions, the state  *)
(* of a year's boundary is well-formed.                                    *)
THEOREM TypeCorrect == Spec => []TypeOK
<1>1. IInv => TypeOK BY DEF IInv
<1> QED BY <1>1, Invariant, PTL

(* However creates, deletes, confirmations and captures interleave, every  *)
(* number below a version's is a frozen version's.                         *)
THEOREM DraftIsNewest == Spec => []OneOpenDraft
<1>1. IInv => OneOpenDraft BY DEF IInv, Sound
<1> QED BY <1>1, Invariant, PTL

(* A version is frozen with the rows its gaps were read of, each named.    *)
THEOREM ReportedAsChecked == Spec => []FrozenIsReported
<1>1. IInv => FrozenIsReported BY DEF IInv, Sound
<1> QED BY <1>1, Invariant, PTL

(* A retained dataset is its version as stored, whenever it was captured.  *)
THEOREM DatasetFaithful == Spec => []DatasetIsItsVersion
<1>1. IInv => DatasetIsItsVersion BY DEF IInv, Sound
<1> QED BY <1>1, Invariant, PTL

(* No delete takes away what a version declares.                           *)
THEOREM ParentsStay == Spec => []DeclaredParentsLive
<1>1. IInv => DeclaredParentsLive BY DEF IInv, Sound
<1> QED BY <1>1, Invariant, PTL

(* The audit rows replay to the version.                                   *)
THEOREM AuditComplete == Spec => []AuditReplays
<1>1. IInv => AuditReplays BY DEF IInv, Sound
<1> QED BY <1>1, Invariant, PTL

(* What the service checks implies all the triggers hold: none refuses.    *)
THEOREM GuardsNeverRefuse == Spec => []NoDefect
<1>1. IInv => NoDefect BY DEF IInv, Sound
<1> QED BY <1>1, Invariant, PTL

-----------------------------------------------------------------------------
(* The history.                                                            *)

(* An open version is the only one, and numbered last.                     *)
IsLast(i) ==
    /\ \A k \in Ids : ver[k].at = "open" => k = i
    /\ \A k \in Frozen : ver[k].num \in Nat /\ ver[k].num < ver[i].num
    /\ DraftNumber = ver[i].num /\ ver[i].num \in Nat \ {0}
OpenIsLast == \A i \in Ids : ver[i].at = "open" => IsLast(i)

LEMMA Newest == IInv => OpenIsLast
<1> SUFFICES ASSUME IInv, NEW i \in Ids, ver[i].at = "open" PROVE IsLast(i)
  BY DEF OpenIsLast
<1>1. i \in Existing /\ i \notin Frozen BY DEF Existing, Frozen
<1>2. \A k \in Existing : ver[k].num \in Nat \ {0} BY DEF IInv, Sound, Positive
<1>3. ASSUME NEW k \in Existing, k # i PROVE ver[k].num < ver[i].num
  <2>1. ver[k].num # ver[i].num BY <1>1, <1>3 DEF IInv, Sound, OneOpenDraft
  <2>2. ASSUME ver[k].num > ver[i].num PROVE FALSE
    <3>1. ver[i].num \in 1..(ver[k].num - 1) BY <1>1, <1>2, <2>2
    <3>2. PICK f \in Frozen : ver[f].num = ver[i].num BY <3>1 DEF IInv, Sound, OneOpenDraft
    <3>3. f \in Existing BY DEF Frozen, Existing
    <3> QED BY <1>1, <3>2, <3>3 DEF IInv, Sound, OneOpenDraft
  <2> QED BY <1>1, <1>2, <2>1, <2>2
<1>4. ASSUME NEW k \in Ids, ver[k].at = "open", k # i PROVE FALSE
  <2>1. k \in Existing /\ k \notin Frozen BY <1>4 DEF Existing, Frozen
  <2>2. ver[k].num \in 1..(ver[i].num - 1) BY <1>1, <1>2, <1>3, <1>4, <2>1
  <2>3. PICK f \in Frozen : ver[f].num = ver[k].num BY <1>1, <2>2 DEF IInv, Sound, OneOpenDraft
  <2>4. f \in Existing BY DEF Frozen, Existing
  <2> QED BY <2>1, <2>3, <2>4 DEF IInv, Sound, OneOpenDraft
<1>5. \A k \in Frozen : ver[k].num \in Nat /\ ver[k].num < ver[i].num
  BY <1>1, <1>2, <1>3 DEF Frozen, Existing
<1>6. DraftNumber = ver[i].num
  <2>1. (CHOOSE k \in Ids : ver[k].at = "open") = i BY <1>4
  <2> QED BY <2>1 DEF DraftNumber
<1> QED BY <1>1, <1>2, <1>4, <1>5, <1>6 DEF IsLast

LEMMA NewestNext == IInv' => OpenIsLast'
BY Newest, PTL

(* The step of a commit that changes no version's standing.                *)
LEMMA SameHistory ==
    ASSUME IInv, IInv', UNCHANGED datasets,
           \A i \in Ids : ver'[i].at = ver[i].at /\ ver'[i].num = ver[i].num,
           \A i \in Frozen : ver'[i] = ver[i]
    PROVE  UNCHANGED <<{Standing(i) : i \in Frozen}, DraftNumber, Reported>>
<1>1. Frozen' = Frozen /\ Frozen \subseteq Ids BY DEF Frozen
<1>2. {Standing(i) : i \in Frozen}' = {Standing(i) : i \in Frozen}
  BY <1>1 DEF Standing
<1>3. Reported' = Reported BY DEF Reported
<1>4. DraftNumber' = DraftNumber
  <2>1. CASE \E i \in Ids : ver[i].at = "open"
    BY <2>1, Newest, NewestNext DEF OpenIsLast, IsLast
  <2>2. CASE ~\E i \in Ids : ver[i].at = "open"
    BY <2>2 DEF DraftNumber
  <2> QED BY <2>1, <2>2
<1> QED BY <1>2, <1>3, <1>4

LEMMA FreezesDraft ==
    ASSUME IInv, IInv', NEW v \in Ids, ver[v].at = "open", NEW a \in {"captured", "confirmed"},
           ver' = [ver EXCEPT ![v] = [at |-> a, num |-> ver[v].num, rows |-> ver[v].rows,
                                      names |-> NamesNow(ver[v].rows)]],
           UNCHANGED datasets
    PROVE  History!Freeze
<1>1. /\ ver \in [Ids -> VersionRecords] /\ ver' \in [Ids -> VersionRecords]
      /\ ver'[v] = [at |-> a, num |-> ver[v].num, rows |-> ver[v].rows, names |-> NamesNow(ver[v].rows)]
      /\ \A i \in Ids \ {v} : ver'[i] = ver[i]
  BY DEF IInv, TypeOK
<1>2. DraftNumber = ver[v].num /\ DraftNumber # 0 /\ \A k \in Ids : ver[k].at = "open" => k = v
  BY Newest DEF OpenIsLast, IsLast
<1>3. DraftNumber' = 0
  <2>1. \A i \in Ids : ver'[i].at # "open" BY <1>1, <1>2
  <2> QED BY <2>1 DEF DraftNumber
<1>4. v \notin Frozen /\ Frozen' = Frozen \cup {v} /\ Frozen \subseteq Ids
  BY <1>1 DEF Frozen
<1> DEFINE c == [at |-> a, rows |-> ver[v].rows, names |-> NamesNow(ver[v].rows)]
<1>5. c \in [at : {"captured", "confirmed"}, rows : Rows, names : NameRows]
  BY <1>1 DEF VersionRecords
<1>6. Standing(v)' = [num |-> DraftNumber, content |-> c]
  BY <1>1, <1>2 DEF Standing
<1>7. \A i \in Frozen : Standing(i)' = Standing(i)
  BY <1>1, <1>4 DEF Standing
<1>8. {Standing(i) : i \in Frozen}' = {Standing(i) : i \in Frozen} \cup {[num |-> DraftNumber, content |-> c]}
  BY <1>4, <1>6, <1>7
<1>9. Reported' = Reported
  <2>1. \A i \in Ids : ver'[i].num = ver[i].num BY <1>1
  <2> QED BY <2>1 DEF Reported
<1> QED BY <1>2, <1>3, <1>5, <1>8, <1>9 DEF History!Freeze

LEMMA HistoryStep == IInv /\ IInv' /\ [Next]_vars
                     => [History!Next]_<<{Standing(i) : i \in Frozen}, DraftNumber, Reported>>
<1> SUFFICES ASSUME IInv, IInv', [Next]_vars
             PROVE  [History!Next]_<<{Standing(i) : i \in Frozen}, DraftNumber, Reported>>
  OBVIOUS
<1>1. CASE UNCHANGED <<ver, datasets>> BY <1>1, SameHistory DEF Frozen
<1>2. ASSUME NEW w \in Workers, CommitDeclaration(w)
      PROVE  UNCHANGED <<{Standing(i) : i \in Frozen}, DraftNumber, Reported>>
  <2>1. job[w].op = "put" /\ JobOK(job[w]) BY <1>2, JobShape DEF CommitDeclaration, Doing
  <2>2. job[w].v \in Ids /\ job[w].v \notin Frozen BY <2>1 DEF JobOK, Frozen
  <2>3. UNCHANGED datasets BY <1>2 DEF CommitDeclaration
  <2>4. \A i \in Ids : ver'[i].at = ver[i].at /\ ver'[i].num = ver[i].num
    BY <1>2, <2>2 DEF CommitDeclaration, IInv, TypeOK
  <2>5. \A i \in Frozen : ver'[i] = ver[i]
    BY <1>2, <2>2 DEF CommitDeclaration, IInv, TypeOK, Frozen
  <2> QED BY <2>3, <2>4, <2>5, SameHistory
<1>3. ASSUME NEW w \in Workers, CommitVersion(w) PROVE History!Draft
  <2>1. PICK v \in Unused :
          ver' = [ver EXCEPT ![v] = [at |-> "open", num |-> job[w].num, rows |-> job[w].rows, names |-> NoRows]]
    BY <1>3 DEF CommitVersion
  <2>2. /\ v \in Ids /\ ver[v].at = "free" /\ ver'[v].at = "open"
        /\ \A i \in Ids \ {v} : ver'[i] = ver[i]
    BY <2>1 DEF Unused, IInv, TypeOK
  <2>3. UNCHANGED datasets BY <1>3 DEF CommitVersion
  <2>4. Frozen' = Frozen /\ Frozen \subseteq Ids /\ v \notin Frozen BY <2>2 DEF Frozen
  <2>5. /\ DraftNumber' = ver'[v].num
        /\ DraftNumber' \in Nat \ {0}
        /\ \A k \in Ids : ver'[k].at = "open" => k = v
        /\ \A k \in Frozen : ver[k].num \in Nat /\ ver[k].num < DraftNumber'
    BY <2>2, <2>4, NewestNext DEF OpenIsLast, IsLast
  <2>6. DraftNumber = 0
    <3>1. \A k \in Ids : ver[k].at # "open" BY <2>2, <2>5
    <3> QED BY <3>1 DEF DraftNumber
  <2>7. \A i \in Frozen : Standing(i)' = Standing(i) BY <2>2, <2>4 DEF Standing
  <2>8. {Standing(i) : i \in Frozen}' = {Standing(i) : i \in Frozen} BY <2>4, <2>7
  <2>9. Reported' = Reported
    <3>1. datasets[v] = {} BY <2>2, <2>4 DEF IInv, Sound, DatasetIsItsVersion
    <3>2. \A i \in Ids : {[num |-> ver'[i].num, content |-> r] : r \in datasets[i]}
                         = {[num |-> ver[i].num, content |-> r] : r \in datasets[i]}
      BY <2>2, <3>1
    <3> QED BY <2>3, <3>2 DEF Reported
  <2>10. {f.num : f \in {Standing(i) : i \in Frozen}} = 1..(DraftNumber' - 1)
    <3>1. {f.num : f \in {Standing(i) : i \in Frozen}} = {ver[i].num : i \in Frozen}
      <4>1. \A i \in Frozen : Standing(i).num = ver[i].num BY DEF Standing
      <4> QED BY <4>1
    <3>2. \A i \in Frozen : ver[i].num \in 1..(DraftNumber' - 1)
      <4> TAKE i \in Frozen
      <4>1. ver[i].num \in Nat \ {0}
        BY DEF IInv, Sound, Positive, Frozen, Existing
      <4>2. ver[i].num < DraftNumber' /\ DraftNumber' \in Nat BY <2>5
      <4> HIDE DEF DraftNumber
      <4> QED BY <4>1, <4>2
    <3>3. \A n \in 1..(DraftNumber' - 1) : \E k \in Frozen : ver[k].num = n
      <4>1. v \in Existing' BY <2>2 DEF Existing
      <4>2. \A k \in Frozen : ver'[k].num = ver[k].num BY <2>2, <2>4
      <4> QED BY <2>4, <2>5, <4>1, <4>2 DEF IInv, Sound, OneOpenDraft
    <3> QED BY <3>1, <3>2, <3>3
  <2> QED BY <2>5, <2>6, <2>8, <2>9, <2>10 DEF History!Draft
<1>4. ASSUME NEW w \in Workers, CommitRemove(w) PROVE History!Discard
  <2> DEFINE v == job[w].v
  <2>1. job[w].op = "remove" /\ JobOK(job[w]) BY <1>4, JobShape DEF CommitRemove, Doing
  <2>2. v \in Ids /\ ver[v].at = "open" /\ v \notin Frozen BY <2>1 DEF JobOK, Frozen
  <2>3. /\ ver' = [ver EXCEPT ![v] = Gone] /\ UNCHANGED datasets
    BY <1>4, <2>2 DEF CommitRemove
  <2>4. ver'[v] = Gone /\ \A i \in Ids \ {v} : ver'[i] = ver[i]
    BY <2>2, <2>3 DEF IInv, TypeOK
  <2>5. Frozen' = Frozen /\ Frozen \subseteq Ids BY <2>2, <2>4 DEF Frozen, Gone
  <2>6. DraftNumber # 0 /\ \A k \in Ids : ver[k].at = "open" => k = v
    BY <2>2, Newest DEF OpenIsLast, IsLast
  <2>7. DraftNumber' = 0
    <3>1. \A k \in Ids : ver'[k].at # "open" BY <2>4, <2>6 DEF Gone
    <3> QED BY <3>1 DEF DraftNumber
  <2>8. \A i \in Frozen : Standing(i)' = Standing(i) BY <2>2, <2>4, <2>5 DEF Standing
  <2>9. {Standing(i) : i \in Frozen}' = {Standing(i) : i \in Frozen} BY <2>5, <2>8
  <2>10. Reported' = Reported
    <3>1. datasets[v] = {} BY <2>2 DEF IInv, Sound, DatasetIsItsVersion
    <3>2. \A i \in Ids : {[num |-> ver'[i].num, content |-> r] : r \in datasets[i]}
                         = {[num |-> ver[i].num, content |-> r] : r \in datasets[i]}
      BY <2>4, <3>1
    <3> QED BY <2>3, <3>2 DEF Reported
  <2> QED BY <2>6, <2>7, <2>9, <2>10 DEF History!Discard
<1>5. ASSUME NEW w \in Workers, CommitConfirm(w) PROVE History!Freeze
  <2>1. job[w].op = "confirm" /\ JobOK(job[w]) BY <1>5, JobShape DEF CommitConfirm, Doing
  <2>2. job[w].v \in Ids /\ ver[job[w].v].at = "open" /\ job[w].v \notin Frozen
    BY <2>1 DEF JobOK, Frozen
  <2> QED BY <1>5, <2>2, FreezesDraft DEF CommitConfirm, Freeze
<1>6. ASSUME NEW w \in Workers, CommitFreeze(w) PROVE History!Freeze
  <2>1. job[w].op = "freeze" /\ JobOK(job[w]) BY <1>6, JobShape DEF CommitFreeze, Doing
  <2>2. job[w].v \in Ids /\ ver[job[w].v].at = "open" /\ job[w].v \notin Frozen
    BY <2>1 DEF JobOK, Frozen
  <2> QED BY <1>6, <2>2, FreezesDraft DEF CommitFreeze, Freeze
<1>7. ASSUME NEW w \in Workers, Retain(w) PROVE History!Report
  <2> DEFINE v == job[w].v
  <2> DEFINE r == [at |-> job[w].d, rows |-> job[w].rows, names |-> job[w].names]
  <2>1. job[w].op = "retain" /\ job[w].at = "commit" /\ JobOK(job[w])
    BY <1>7, JobShape DEF Retain, Doing
  <2>2. v \in Frozen /\ v \in Ids /\ r = [at |-> ver[v].at, rows |-> ver[v].rows, names |-> ver[v].names]
    BY <2>1 DEF JobOK, Frozen
  <2>3. Agrees(w) BY <2>1 DEF JobOK, Agrees
  <2>4. datasets' = [datasets EXCEPT ![v] = @ \cup {r}] /\ UNCHANGED ver
    BY <1>7, <2>3 DEF Retain
  <2>5. [num |-> ver[v].num, content |-> r] = Standing(v) BY <2>2 DEF Standing
  <2>6. Reported' = Reported \cup {Standing(v)}
    <3> DEFINE Of(i) == {[num |-> ver[i].num, content |-> q] : q \in datasets[i]}
    <3> DEFINE OfNext(i) == {[num |-> ver[i].num, content |-> q] : q \in datasets'[i]}
    <3>1. datasets'[v] = datasets[v] \cup {r} /\ \A i \in Ids \ {v} : datasets'[i] = datasets[i]
      BY <2>2, <2>4 DEF IInv, TypeOK
    <3>2. \A i \in Ids \ {v} : OfNext(i) = Of(i) BY <3>1
    <3>3. OfNext(v) = Of(v) \cup {Standing(v)} BY <2>5, <3>1
    <3>4. Reported = UNION {Of(i) : i \in Ids} BY DEF Reported
    <3>5. Reported' = UNION {OfNext(i) : i \in Ids} BY <2>4 DEF Reported
    <3> HIDE DEF Of, OfNext
    <3> QED BY <2>2, <3>2, <3>3, <3>4, <3>5
  <2>7. {Standing(i) : i \in Frozen}' = {Standing(i) : i \in Frozen}
    BY <2>4 DEF Standing, Frozen
  <2>8. DraftNumber' = DraftNumber BY <2>4 DEF DraftNumber
  <2> QED BY <2>2, <2>6, <2>7, <2>8 DEF History!Report
<1>8. ASSUME NEW w \in Workers, Begins(w) PROVE UNCHANGED <<ver, datasets>>
  BY <1>8 DEF Begins, Declare, Create, Remove, Confirm, Capture, LeaveSub, CloseSite, store
<1>9. ASSUME NEW w \in Workers,
             \/ ReadDeclaration(w) \/ WriteDeclaration(w) \/ NumberVersion(w) \/ InsertVersion(w)
             \/ CheckGaps(w) \/ ReadSnapshot(w) \/ CountVersions(w) \/ CommitLeave(w)
             \/ LockSite(w) \/ Cascade(w) \/ CommitClose(w) \/ BreakDeadlock(w) \/ Abort(w)
      PROVE  UNCHANGED <<ver, datasets>>
  BY <1>9 DEF ReadDeclaration, WriteDeclaration, NumberVersion, InsertVersion, CheckGaps, ReadSnapshot,
     CountVersions, CommitLeave, LockSite, Cascade, CommitClose, BreakDeadlock, Abort, store
<1>10. ASSUME NEW s \in Subs, Rename(s) PROVE UNCHANGED <<ver, datasets>>
  BY <1>10 DEF Rename, store
<1>11. CASE UNCHANGED vars BY <1>1, <1>11 DEF vars
<1> QED BY <1>1, <1>2, <1>3, <1>4, <1>5, <1>6, <1>7, <1>8, <1>9, <1>10, <1>11
        DEF Next, Goes, History!Next

LEMMA HistoryInit == Init => History!Init
<1> SUFFICES ASSUME Init PROVE History!Init OBVIOUS
<1>1. Frozen = {} BY DEF Init, NoVersion, Frozen
<1>2. DraftNumber = 0 BY DEF Init, NoVersion, DraftNumber
<1>3. Reported = {} BY DEF Init, Reported
<1> QED BY <1>1, <1>2, <1>3 DEF History!Init

(* The year's boundary is a history of frozen versions that only grows,    *)
(* with at most one draft, numbered next, and reports that are of it.      *)
THEOREM Implements == Spec => ImplementsHistory
<1>1. IInv /\ IInv' /\ [Next]_vars
      => [History!Next]_<<{Standing(i) : i \in Frozen}, DraftNumber, Reported>>
  BY HistoryStep
<1> QED BY <1>1, HistoryInit, Invariant, PTL DEF Spec, ImplementsHistory, History!Spec

LEMMA FrozenStays == IInv /\ [Next]_vars => \A i \in Frozen : ver'[i] = ver[i]
<1> SUFFICES ASSUME IInv, [Next]_vars, NEW i \in Frozen PROVE ver'[i] = ver[i]
  OBVIOUS
<1>1. i \in Ids /\ ver \in [Ids -> VersionRecords] BY DEF Frozen, IInv, TypeOK
<1>2. CASE UNCHANGED ver BY <1>2
<1>3. ASSUME NEW w \in Workers, CommitDeclaration(w) \/ CommitRemove(w) \/ CommitConfirm(w) \/ CommitFreeze(w)
      PROVE  ver'[i] = ver[i]
  <2>1. job[w].v # i \/ UNCHANGED ver
    BY <1>3 DEF CommitDeclaration, CommitRemove, CommitConfirm, CommitFreeze, Freeze
  <2> QED BY <1>1, <1>3, <2>1 DEF CommitDeclaration, CommitRemove, CommitConfirm, CommitFreeze, Freeze
<1>4. ASSUME NEW w \in Workers, CommitVersion(w) PROVE ver'[i] = ver[i]
  BY <1>1, <1>4 DEF CommitVersion, Unused, Frozen
<1>5. ASSUME NEW w \in Workers, Begins(w) PROVE UNCHANGED ver
  BY <1>5 DEF Begins, Declare, Create, Remove, Confirm, Capture, LeaveSub, CloseSite, store
<1>6. ASSUME NEW w \in Workers,
             \/ ReadDeclaration(w) \/ WriteDeclaration(w) \/ NumberVersion(w) \/ InsertVersion(w)
             \/ CheckGaps(w) \/ ReadSnapshot(w) \/ CountVersions(w) \/ CommitLeave(w) \/ Retain(w)
             \/ LockSite(w) \/ Cascade(w) \/ CommitClose(w) \/ BreakDeadlock(w) \/ Abort(w)
      PROVE  UNCHANGED ver
  BY <1>6 DEF ReadDeclaration, WriteDeclaration, NumberVersion, InsertVersion, CheckGaps, ReadSnapshot,
     CountVersions, CommitLeave, LockSite, Cascade, CommitClose, BreakDeadlock, Abort, Retain, store
<1>7. ASSUME NEW s \in Subs, Rename(s) PROVE UNCHANGED ver
  BY <1>7 DEF Rename, store
<1>8. CASE UNCHANGED vars BY <1>8 DEF vars
<1> QED BY <1>2, <1>3, <1>4, <1>5, <1>6, <1>7, <1>8 DEF Next, Goes

(* Once frozen, a version never changes.                                   *)
THEOREM FrozenUnchanged == Spec => FrozenIsForever
<1>1. IInv /\ [Next]_vars => [\A i \in Frozen : ver'[i] = ver[i]]_vars
  BY FrozenStays
<1> QED BY <1>1, Invariant, PTL DEF Spec, FrozenIsForever

-----------------------------------------------------------------------------
(***************************************************************************)
(* The factor library, for any release files, runs of the loader, errata   *)
(* and calculations.                                                       *)
(*                                                                         *)
(* One live edition per slot: of the loads of one publisher one at a time  *)
(* is in its transaction, for the insert waits for the publisher's lock;   *)
(* what it found when it asked about overlaps again can only shrink until  *)
(* it commits, for only withdrawals commit beside it.                      *)
(*                                                                         *)
(* One library per figure: where placeholders are refused, the paths that  *)
(* are permitted of every live release are those of the authoritative ones *)
(* alone, so reading only these changes no figure.                         *)
(***************************************************************************)

-----------------------------------------------------------------------------
(* Types.                                                                  *)

LEMMA IdleType ==
    ASSUME LibraryTypeOK, NEW o \in Loaders, releases' = releases,
           run' = [run EXCEPT ![o] = Idle]
    PROVE  LibraryTypeOK'
  BY DEF LibraryTypeOK, Idle

LEMMA PhaseType ==
    ASSUME LibraryTypeOK, NEW o \in Loaders, releases' = releases,
           NEW p \in {"idle", "asked", "superseded", "new", "latest", "planned", "found"} \cup InTransaction,
           run' = [run EXCEPT ![o].phase = p]
    PROVE  LibraryTypeOK'
  BY DEF LibraryTypeOK

LEMMA LoaderType ==
    ASSUME LibraryTypeOK, NEW o \in Loaders,
           Load(o) \/ CutOff(o) \/ (\E f \in Files : AskWithdraw(o, f)) \/ FindTarget(o) \/ Withdraw(o)
    PROVE  LibraryTypeOK'
<1>1. ASSUME NEW f \in Files, NEW e \in {Content[g].edition : g \in Files} \cup {Nil}, AskLoad(o, f, e)
      PROVE  LibraryTypeOK'
  BY <1>1 DEF AskLoad, ClientsIdle, LibraryTypeOK, Idle
<1>2. CASE FindSuperseded(o)
  <2>1. CASE Becomes(o, "superseded") \/ Ends(o)
    BY <2>1, IdleType, PhaseType DEF Becomes, Ends, ClientsIdle
  <2>2. ASSUME NEW g \in Stored(Publisher(run[o].file), run[o].names),
               run' = [run EXCEPT ![o].phase = "superseded", ![o].other = g, ![o].was = releases[g]],
               ClientsIdle
        PROVE  LibraryTypeOK'
    <3>1. g \in Files /\ releases[g] \in {"sealed", "withdrawn"}
      BY DEF Stored, LibraryTypeOK
    <3>2. [run[o] EXCEPT !.phase = "superseded", !.other = g, !.was = releases[g]]
            \in [phase : {"idle", "asked", "superseded", "new", "latest", "planned", "found"}
                         \cup InTransaction,
                cmd : {"load", "withdraw", Nil}, file : Files \cup {Nil},
                names : {Content[h].edition : h \in Files} \cup {Nil},
                other : Files \cup {Nil}, was : {"sealed", "withdrawn", Nil}]
      BY <3>1 DEF LibraryTypeOK
    <3>3. run' = [run EXCEPT ![o] = [run[o] EXCEPT !.phase = "superseded", !.other = g, !.was = releases[g]]]
      BY <2>2 DEF LibraryTypeOK
    <3> QED BY <2>2, <3>2, <3>3 DEF LibraryTypeOK, ClientsIdle
  <2> QED BY <1>2, <2>1, <2>2 DEF FindSuperseded
<1>3. CASE FindStored(o) \/ CheckOrdinal(o) \/ CheckOverlap(o)
  BY <1>3, IdleType, PhaseType DEF FindStored, CheckOrdinal, CheckOverlap, Becomes, Ends, ClientsIdle
<1>4. CASE Insert(o) \/ CheckOverlapAgain(o) \/ WithdrawSuperseded(o)
  BY <1>4, IdleType, PhaseType
  DEF Insert, CheckOverlapAgain, WithdrawSuperseded, Becomes, Ends, ClientsIdle, InTransaction
<1>5. ASSUME NEW f \in Files, AskWithdraw(o, f)
      PROVE  LibraryTypeOK'
  BY <1>5 DEF AskWithdraw, ClientsIdle, LibraryTypeOK, Idle
<1>6. CASE CutOff(o) \/ FindTarget(o) \/ Withdraw(o)
  BY <1>6, IdleType, PhaseType DEF CutOff, FindTarget, Withdraw, Becomes, Ends, ClientsIdle, InTransaction
<1> QED BY <1>1, <1>2, <1>3, <1>4, <1>5, <1>6 DEF Load

LEMMA CommitType ==
    ASSUME LibraryTypeOK, NEW o \in Loaders, Commit(o)
    PROVE  LibraryTypeOK'
  BY DEF LibraryTypeOK, Commit, AfterCommit, Idle

LEMMA TypeStep == LibraryTypeOK /\ [LibraryNext]_libraryVars => LibraryTypeOK'
<1> SUFFICES ASSUME LibraryTypeOK, [LibraryNext]_libraryVars PROVE LibraryTypeOK'
  OBVIOUS
<1>1. ASSUME NEW o \in Loaders, Commit(o) PROVE LibraryTypeOK'
  BY <1>1, CommitType
<1>2. ASSUME NEW c \in Clients, Calculate(c) PROVE LibraryTypeOK'
  BY <1>2 DEF LibraryTypeOK, Calculate, Ask, Price, Explain, LoadersIdle
<1>3. CASE UNCHANGED libraryVars
  BY <1>3 DEF LibraryTypeOK, libraryVars
<1> QED BY <1>1, <1>2, <1>3, LoaderType DEF LibraryNext

-----------------------------------------------------------------------------
(* One live edition per slot.                                              *)

Loads(o) == run[o].cmd = "load" /\ run[o].phase \in InTransaction

(* Loads in their transactions are of different publishers.                *)
OneLoadAtATime ==
    \A o, q \in Loaders :
        Loads(o) /\ Loads(q) /\ o # q => Publisher(run[o].file) # Publisher(run[q].file)

(* Once asked, the answer holds until the commit.                          *)
OverlapRuledOut ==
    \A o \in Loaders : Loads(o) /\ run[o].phase # "inserted" => ~Overlaps(run[o].file, run[o].other)

(* A load names its file; what a withdrawal found is not a load.           *)
CommandsFit ==
    \A o \in Loaders : /\ run[o].cmd = "load" => run[o].file \in Files
                       /\ run[o].phase = "found" => run[o].cmd = "withdraw"

LibraryInv == LibraryTypeOK /\ OneEditionPerSlot /\ OneLoadAtATime /\ OverlapRuledOut /\ CommandsFit

LEMMA InitInv == LibraryInit => LibraryInv
<1> SUFFICES ASSUME LibraryInit PROVE LibraryInv
  OBVIOUS
<1>1. PICK S \in SUBSET Loaded : releases = [f \in Files |-> IF f \in S THEN "sealed" ELSE "absent"]
  BY DEF LibraryInit
<1>2. LibraryTypeOK
  BY <1>1 DEF LibraryInit, LibraryTypeOK, Idle
<1>3. OneEditionPerSlot
  BY <1>1, LibraryAssumption DEF OneEditionPerSlot, Publisher
<1>4. \A o \in Loaders : run[o].phase = "idle" /\ run[o].cmd = Nil
  BY DEF LibraryInit, Idle
<1>5. OneLoadAtATime /\ OverlapRuledOut
  BY <1>4 DEF OneLoadAtATime, OverlapRuledOut, Loads, InTransaction
<1>6. Nil # "load"
  BY LibraryAssumption
<1>7. CommandsFit
  BY <1>4, <1>6 DEF CommandsFit
<1> QED BY <1>2, <1>3, <1>5, <1>7 DEF LibraryInv

(* A step of a run that commits nothing: what it reads or takes is its     *)
(* own, unless it inserts or asks about overlaps again.                    *)
LEMMA KeepsInv ==
    ASSUME LibraryInv, NEW o \in Loaders, LibraryTypeOK', releases' = releases,
           NEW r, run' = [run EXCEPT ![o] = r],
           r.cmd = "load" => r.file \in Files, r.phase = "found" => r.cmd = "withdraw",
           r.cmd = "load" /\ r.phase \in InTransaction =>
               /\ \A q \in Loaders \ {o} : Loads(q) => Publisher(run[q].file) # Publisher(r.file)
               /\ r.phase # "inserted" => ~Overlaps(r.file, r.other)
    PROVE  LibraryInv'
<1>1. run'[o] = r /\ \A q \in Loaders \ {o} : run'[q] = run[q]
  BY DEF LibraryInv, LibraryTypeOK
<1>2. OneEditionPerSlot'
  BY DEF LibraryInv, OneEditionPerSlot
<1>3. OneLoadAtATime'
  BY <1>1 DEF LibraryInv, OneLoadAtATime, Loads, Publisher
<1>4. OverlapRuledOut'
  BY <1>1 DEF LibraryInv, OverlapRuledOut, Overlaps, Loads, Publisher
<1>5. CommandsFit'
  BY <1>1 DEF LibraryInv, CommandsFit
<1> QED BY <1>2, <1>3, <1>4, <1>5 DEF LibraryInv

(* A run that ends, or moves on outside a load's transaction or within it, *)
(* takes nothing new.                                                      *)
LEMMA EndsInv ==
    ASSUME LibraryInv, NEW o \in Loaders, Ends(o)
    PROVE  LibraryInv'
<1>1. LibraryTypeOK'
  BY IdleType DEF LibraryInv, Ends, ClientsIdle
<1>2. Nil # "load"
  BY LibraryAssumption
<1> QED BY <1>1, <1>2, KeepsInv DEF Ends, ClientsIdle, Idle

LEMMA BecomesInv ==
    ASSUME LibraryInv, NEW o \in Loaders,
           NEW p \in {"idle", "asked", "superseded", "new", "latest", "planned", "found"} \cup InTransaction,
           Becomes(o, p),
           p = "found" => run[o].cmd = "withdraw",
           run[o].cmd = "load" /\ p \in InTransaction =>
               /\ \A q \in Loaders \ {o} : Loads(q) => Publisher(run[q].file) # Publisher(run[o].file)
               /\ p # "inserted" => ~Overlaps(run[o].file, run[o].other)
    PROVE  LibraryInv'
<1> DEFINE r == [run[o] EXCEPT !.phase = p]
<1>1. LibraryTypeOK'
  BY PhaseType DEF LibraryInv, Becomes, ClientsIdle
<1>2. run' = [run EXCEPT ![o] = r] /\ releases' = releases
  BY DEF LibraryInv, LibraryTypeOK, Becomes, ClientsIdle
<1>3. r.phase = p /\ r.cmd = run[o].cmd /\ r.file = run[o].file /\ r.other = run[o].other
  BY DEF LibraryInv, LibraryTypeOK
<1>4. run[o].cmd = "load" => run[o].file \in Files
  BY DEF LibraryInv, CommandsFit
<1> HIDE DEF r
<1> QED BY <1>1, <1>2, <1>3, <1>4, KeepsInv

(* Every step of a run of the loader but its commit.                       *)
LEMMA LoaderStep ==
    ASSUME LibraryInv, NEW o \in Loaders,
           Load(o) \/ CutOff(o) \/ (\E f \in Files : AskWithdraw(o, f)) \/ FindTarget(o) \/ Withdraw(o)
    PROVE  LibraryInv'
<1> USE DEF LibraryInv
<1>1. ASSUME NEW f \in Files, NEW e \in {Content[g].edition : g \in Files} \cup {Nil}, AskLoad(o, f, e)
      PROVE  LibraryInv'
  <2> DEFINE r == [Idle EXCEPT !.phase = "asked", !.cmd = "load", !.file = f, !.names = e]
  <2>1. r.file \in Files /\ r.phase = "asked" /\ r.phase \notin InTransaction
    BY DEF Idle, InTransaction
  <2>2. run' = [run EXCEPT ![o] = r] /\ releases' = releases /\ LibraryTypeOK'
    BY <1>1, LoaderType DEF AskLoad, ClientsIdle, Load
  <2> HIDE DEF r
  <2> QED BY <2>1, <2>2, KeepsInv
<1>2. CASE FindSuperseded(o)
  <2>1. CASE Becomes(o, "superseded") \/ Ends(o)
    BY <2>1, EndsInv, BecomesInv DEF InTransaction
  <2>2. ASSUME NEW g \in Stored(Publisher(run[o].file), run[o].names),
               run' = [run EXCEPT ![o].phase = "superseded", ![o].other = g, ![o].was = releases[g]],
               ClientsIdle
        PROVE  LibraryInv'
    <3> DEFINE r == [run[o] EXCEPT !.phase = "superseded", !.other = g, !.was = releases[g]]
    <3>1. run' = [run EXCEPT ![o] = r] /\ releases' = releases
      BY <2>2 DEF LibraryTypeOK, ClientsIdle
    <3>2. r.phase = "superseded" /\ r.phase \notin InTransaction /\ r.cmd = run[o].cmd /\ r.file = run[o].file
      BY DEF LibraryTypeOK, InTransaction
    <3>3. LibraryTypeOK' /\ (run[o].cmd = "load" => run[o].file \in Files)
      BY <1>2, LoaderType DEF Load, CommandsFit
    <3> HIDE DEF r
    <3> QED BY <3>1, <3>2, <3>3, KeepsInv
  <2> QED BY <1>2, <2>1, <2>2 DEF FindSuperseded
<1>3. CASE FindStored(o) \/ CheckOrdinal(o) \/ CheckOverlap(o)
  BY <1>3, EndsInv, BecomesInv DEF FindStored, CheckOrdinal, CheckOverlap, InTransaction
<1>4. CASE Insert(o)
  <2>1. CASE Ends(o)
    BY <2>1, EndsInv
  <2>2. CASE Becomes(o, "inserted")
    BY <1>4, <2>2, BecomesInv DEF Insert, LockedPublisher, Loads, InTransaction
  <2> QED BY <1>4, <2>1, <2>2 DEF Insert
<1>5. CASE CheckOverlapAgain(o)
  <2>1. CASE Ends(o)
    BY <2>1, EndsInv
  <2>2. CASE Becomes(o, "sealed") /\ ~Overlaps(run[o].file, run[o].other)
    <3>1. run[o].phase = "inserted"
      BY <1>5 DEF CheckOverlapAgain
    <3>2. run[o].cmd = "load" => \A q \in Loaders \ {o} : Loads(q) => Publisher(run[q].file) # Publisher(run[o].file)
      BY <3>1 DEF OneLoadAtATime, Loads, InTransaction
    <3> QED BY <2>2, <3>2, BecomesInv DEF InTransaction
  <2> QED BY <1>5, <2>1, <2>2 DEF CheckOverlapAgain
<1>6. CASE WithdrawSuperseded(o)
  <2>1. CASE Ends(o)
    BY <2>1, EndsInv
  <2>2. CASE Becomes(o, "withdrawing")
    BY <1>6, <2>2, BecomesInv DEF WithdrawSuperseded, OneLoadAtATime, OverlapRuledOut, Loads, InTransaction
  <2> QED BY <1>6, <2>1, <2>2 DEF WithdrawSuperseded
<1>7. ASSUME NEW f \in Files, AskWithdraw(o, f)
      PROVE  LibraryInv'
  <2> DEFINE r == [Idle EXCEPT !.phase = "asked", !.cmd = "withdraw", !.other = f]
  <2>1. r.cmd # "load" /\ r.phase = "asked"
    BY DEF Idle
  <2>2. run' = [run EXCEPT ![o] = r] /\ releases' = releases /\ LibraryTypeOK'
    BY <1>7, LoaderType DEF AskWithdraw, ClientsIdle
  <2> HIDE DEF r
  <2> QED BY <2>1, <2>2, KeepsInv
<1>8. CASE CutOff(o)
  BY <1>8, EndsInv DEF CutOff
<1>9. CASE FindTarget(o) \/ Withdraw(o)
  <2>1. CASE Ends(o)
    BY <2>1, EndsInv
  <2>2. CASE FindTarget(o) /\ Becomes(o, "found")
    BY <2>2, BecomesInv DEF FindTarget, InTransaction
  <2>3. CASE Withdraw(o) /\ Becomes(o, "withdrawing")
    BY <2>3, BecomesInv DEF Withdraw, CommandsFit, InTransaction
  <2> QED BY <1>9, <2>1, <2>2, <2>3 DEF FindTarget, Withdraw
<1> QED BY <1>1, <1>2, <1>3, <1>4, <1>5, <1>6, <1>7, <1>8, <1>9 DEF Load

(* The commit: a load's rows join releases that hold none of them, but for *)
(* the one it withdraws.                                                   *)
LEMMA CommitStep ==
    ASSUME LibraryInv, NEW o \in Loaders, Commit(o)
    PROVE  LibraryInv'
<1> USE DEF LibraryInv
<1>1. LibraryTypeOK'
  BY CommitType
<1>2. /\ run'[o] = Idle /\ \A q \in Loaders \ {o} : run'[q] = run[q]
      /\ \A f \in Files : releases'[f] = "sealed" =>
            f # run[o].other /\ (releases[f] = "sealed" \/ (run[o].cmd = "load" /\ f = run[o].file))
  BY DEF Commit, AfterCommit, LibraryTypeOK
<1>3. Nil # "load" /\ Idle.cmd = Nil /\ Idle.phase = "idle"
  BY LibraryAssumption DEF Idle
<1>4. run[o].cmd = "load" => Loads(o) /\ run[o].phase # "inserted"
  BY DEF Commit, Commits, Loads, InTransaction
<1>5. OneEditionPerSlot'
  <2> SUFFICES ASSUME NEW f \in Files, NEW g \in Files, f # g, Publisher(f) = Publisher(g),
                      releases'[f] = "sealed", releases'[g] = "sealed"
               PROVE  Content[f].factors \cap Content[g].factors = {}
    BY DEF OneEditionPerSlot, Publisher
  <2>1. CASE releases[f] = "sealed" /\ releases[g] = "sealed"
    BY <2>1 DEF OneEditionPerSlot
  <2>2. CASE run[o].cmd = "load" /\ f = run[o].file
    BY <2>2, <1>2, <1>4 DEF OverlapRuledOut, Overlaps
  <2>3. CASE run[o].cmd = "load" /\ g = run[o].file
    BY <2>3, <1>2, <1>4 DEF OverlapRuledOut, Overlaps
  <2> QED BY <1>2, <2>1, <2>2, <2>3
<1>6. OneLoadAtATime'
  BY <1>2, <1>3 DEF OneLoadAtATime, Loads, Publisher
<1>7. OverlapRuledOut'
  <2> SUFFICES ASSUME NEW q \in Loaders, Loads(q)', run'[q].phase # "inserted",
                      NEW g \in Files, Publisher(g) = Publisher(run'[q].file), releases'[g] = "sealed",
                      g # run'[q].other, Content[g].factors \cap Content[run'[q].file].factors # {}
               PROVE  FALSE
    BY DEF OverlapRuledOut, Overlaps, Publisher
  <2>1. q # o /\ run'[q] = run[q] /\ Loads(q)
    BY <1>2, <1>3 DEF Loads
  <2>2. CASE releases[g] = "sealed"
    BY <2>1, <2>2 DEF OverlapRuledOut, Overlaps
  <2>3. CASE run[o].cmd = "load" /\ g = run[o].file
    BY <2>1, <2>3, <1>4 DEF OneLoadAtATime
  <2> QED BY <1>2, <2>2, <2>3
<1>8. CommandsFit'
  BY <1>2, <1>3 DEF CommandsFit
<1> QED BY <1>1, <1>5, <1>6, <1>7, <1>8

LEMMA InvStep == LibraryInv /\ [LibraryNext]_libraryVars => LibraryInv'
<1> SUFFICES ASSUME LibraryInv, [LibraryNext]_libraryVars PROVE LibraryInv'
  OBVIOUS
<1>1. ASSUME NEW o \in Loaders, Commit(o) PROVE LibraryInv'
  BY <1>1, CommitStep
<1>2. CASE UNCHANGED <<releases, run>>
  BY <1>2 DEF LibraryInv, LibraryTypeOK, OneEditionPerSlot, OneLoadAtATime, OverlapRuledOut, Overlaps,
              CommandsFit, Loads, Publisher
<1>3. ASSUME NEW c \in Clients, Calculate(c) PROVE UNCHANGED <<releases, run>>
  BY <1>3 DEF Calculate, Ask, Price, Explain, LoadersIdle
<1> QED BY <1>1, <1>2, <1>3, LoaderStep DEF LibraryNext, libraryVars

THEOREM LibraryInvariant == LibrarySpec => []LibraryInv
<1> QED BY InitInv, InvStep, PTL DEF LibrarySpec

(* A publisher's live releases never hold one factor twice, however many   *)
(* loads, errata and withdrawals of it overlap (assertNoLiveOverlap before *)
(* and under the publisher's lock, and the withdrawal with the load).      *)
THEOREM OneEditionPerSlotHolds == LibrarySpec => []OneEditionPerSlot
<1>1. LibraryInv => OneEditionPerSlot
  BY DEF LibraryInv
<1> QED BY <1>1, LibraryInvariant, PTL

-----------------------------------------------------------------------------
(* One library per figure.                                                 *)

(* No key has more candidates than a lookup reads.                         *)
WithinCap ==
    \A k \in Keys, kind \in {"factors", "conversions"} :
        ~(Cardinality(RowsOf(releases, LiveStatuses, k, kind)) > CandidateCap)

(* What a read of authoritative releases finds is the authoritative part   *)
(* of what a read of the live ones finds.                                  *)
LEMMA AuthoritativeRows ==
    ASSUME NEW lib, NEW k, NEW kind \in {"factors", "conversions"}
    PROVE  RowsOf(lib, {"authoritative"}, k, kind) =
             {x \in RowsOf(lib, LiveStatuses, k, kind) : Content[x.release].status = "authoritative"}
<1>1. ASSUME NEW x PROVE x \in RowsOf(lib, {"authoritative"}, k, kind) <=>
          x \in RowsOf(lib, LiveStatuses, k, kind) /\ Content[x.release].status = "authoritative"
  BY DEF RowsOf, LiveStatuses
<1> QED BY <1>1

LEMMA RowIsNotNil ==
    ASSUME NEW lib, NEW S, NEW k, NEW kind \in {"factors", "conversions"}, NEW x \in RowsOf(lib, S, k, kind)
    PROVE  x # Nil
<1>1. PICK f \in Files : \E r \in Content[f][kind] : x = [release |-> f, unit |-> r.unit, basis |-> r.basis]
  BY DEF RowsOf
<1>2. PICK r \in Content[f][kind] : x = [release |-> f, unit |-> r.unit, basis |-> r.basis]
  BY <1>1
<1>3. Content[f].factors \subseteq FactorRows /\ Content[f].conversions \subseteq FactorRows
  BY LibraryAssumption
<1>4. r \in FactorRows
  BY <1>2, <1>3
<1>5. x \in [release : Files, unit : STRING, basis : STRING]
  BY <1>2, <1>4 DEF FactorRows
<1> QED BY <1>5, LibraryAssumption

(* Where placeholders are refused, they change nothing of what is left.    *)
LEMMA PermittedIsAuthoritative ==
    ASSUME NEW k, NEW F, NEW C, \A c \in C : c # Nil
    PROVE  Permitted(k, {x \in F : Content[x.release].status = "authoritative"},
                        {x \in C : Content[x.release].status = "authoritative"}, FALSE)
             = Permitted(k, F, C, FALSE)
<1> DEFINE Fa == {x \in F : Content[x.release].status = "authoritative"}
           Ca == {x \in C : Content[x.release].status = "authoritative"}
<1>1. ASSUME NEW p \in Permitted(k, Fa, Ca, FALSE) PROVE p \in Permitted(k, F, C, FALSE)
  BY <1>1 DEF Permitted, Paths, StepsTo
<1>2. ASSUME NEW p \in Permitted(k, F, C, FALSE) PROVE p \in Permitted(k, Fa, Ca, FALSE)
  BY <1>2 DEF Permitted, Paths, StepsTo, Authoritative
<1> QED BY <1>1, <1>2

LEMMA ReadingLessAgrees ==
    ASSUME WithinCap, NEW k \in Keys,
           Lookup(releases, {"authoritative"}, k, FALSE).code = "ok"
    PROVE  Lookup(releases, LiveStatuses, k, FALSE) = Lookup(releases, {"authoritative"}, k, FALSE)
<1> DEFINE F == RowsOf(releases, LiveStatuses, k, "factors")
           C == RowsOf(releases, LiveStatuses, k, "conversions")
           Fa == RowsOf(releases, {"authoritative"}, k, "factors")
           Ca == RowsOf(releases, {"authoritative"}, k, "conversions")
<1>1. /\ Fa = {x \in F : Content[x.release].status = "authoritative"}
      /\ Ca = {x \in C : Content[x.release].status = "authoritative"}
  BY AuthoritativeRows
<1>2. \A c \in C : c # Nil
  BY RowIsNotNil
<1>3. Permitted(k, Fa, Ca, FALSE) = Permitted(k, F, C, FALSE)
  <2> HIDE DEF F, C, Fa, Ca
  <2> QED BY <1>1, <1>2, PermittedIsAuthoritative
<1>4. ~(Cardinality(F) > CandidateCap \/ Cardinality(C) > CandidateCap)
  BY DEF WithinCap
<1>5. Lookup(releases, LiveStatuses, k, FALSE) = ResolveFactorPath(k, F, C, FALSE)
  BY <1>4 DEF Lookup
<1>6. ~(Cardinality(Fa) > CandidateCap \/ Cardinality(Ca) > CandidateCap)
  BY DEF Lookup, Refusal
<1>7. Lookup(releases, {"authoritative"}, k, FALSE) = ResolveFactorPath(k, Fa, Ca, FALSE)
  BY <1>6 DEF Lookup
<1> HIDE DEF F, C, Fa, Ca
<1>8. Permitted(k, Fa, Ca, FALSE) # {}
  <2> SUFFICES ASSUME Permitted(k, Fa, Ca, FALSE) = {} PROVE FALSE
    OBVIOUS
  <2>1. Refusal(WhyNone(k, Fa, Ca)).code = "ok"
    BY <1>7 DEF ResolveFactorPath
  <2>2. WhyNone(k, Fa, Ca) # "ok"
    BY DEF WhyNone
  <2> QED BY <2>1, <2>2 DEF Refusal
<1> QED BY <1>3, <1>5, <1>7, <1>8 DEF ResolveFactorPath

(* What compute answers with a figure is what the lookup found.            *)
LEMMA ComputedOk ==
    ASSUME NEW k, NEW r, Computed(k, r).code = "ok"
    PROVE  Computed(k, r) = r /\ r.code = "ok"
  BY DEF Computed, Refusal

(* While a calculation is under way, what the library would answer now is  *)
(* among what it would have answered since it was asked.                   *)
LookShape ==
    /\ allow \in BOOLEAN
    /\ look = [c \in Clients |-> look[c]] /\ seen = [c \in Clients |-> seen[c]]
    /\ \A c \in Clients : look[c] = [phase |-> look[c].phase, key |-> look[c].key,
                                     first |-> look[c].first, answer |-> look[c].answer]
UnderWay ==
    \A c \in Clients :
        /\ look[c].phase \in {"pricing", "explaining"} =>
              look[c].key \in Keys /\ Outcome(releases, look[c].key) \in seen[c]
        /\ look[c].phase = "explaining" => look[c].first.code # "ok"
LookInv == LookShape /\ UnderWay /\ PricedFromOneLibrary

LEMMA LookInit == LibraryInit => LookInv
  BY DEF LibraryInit, LookInv, LookShape, UnderWay, PricedFromOneLibrary

LEMMA LookUnchanged ==
    ASSUME LookInv, UNCHANGED <<releases, allow, look, seen>>
    PROVE  LookInv'
  BY DEF LookInv, LookShape, UnderWay, PricedFromOneLibrary, Outcome

(* A new edition: it is added to what each calculation under way has seen. *)
LEMMA LookCommit ==
    ASSUME LookInv, NEW o \in Loaders, Commit(o)
    PROVE  LookInv'
<1>1. allow' = allow /\ look' = look
  BY DEF Commit
<1>2. \A c \in Clients :
        /\ seen[c] \subseteq seen'[c]
        /\ look[c].phase \in {"pricing", "explaining"} => Outcome(releases', look[c].key) \in seen'[c]
  BY DEF Commit, LookInv, LookShape
<1>3. seen' = [c \in Clients |-> seen'[c]]
  BY DEF Commit
<1>4. UnderWay'
  BY <1>1, <1>2 DEF LookInv, UnderWay, Outcome
<1>5. PricedFromOneLibrary'
  BY <1>1, <1>2 DEF LookInv, PricedFromOneLibrary
<1> QED BY <1>1, <1>3, <1>4, <1>5 DEF LookInv, LookShape

(* A calculation's own steps.                                              *)
LEMMA LookAsk ==
    ASSUME LookInv, NEW c \in Clients, NEW k \in Keys, Ask(c, k)
    PROVE  LookInv'
<1>1. releases' = releases /\ allow' = allow
  BY DEF Ask, LoadersIdle
<1>2. /\ look' = [look EXCEPT ![c] = [phase |-> "pricing", key |-> k, first |-> Nil, answer |-> Nil]]
      /\ seen' = [seen EXCEPT ![c] = {Outcome(releases, k)}]
  BY DEF Ask
<1>3. LookShape'
  BY <1>1, <1>2 DEF LookInv, LookShape
<1>4. UnderWay'
  BY <1>1, <1>2 DEF LookInv, LookShape, UnderWay, Outcome
<1>5. PricedFromOneLibrary'
  BY <1>2 DEF LookInv, LookShape, PricedFromOneLibrary
<1> QED BY <1>3, <1>4, <1>5 DEF LookInv

(* A request that is answered: a figure must be one the library gave.      *)
LEMMA LookAnswers ==
    ASSUME LookInv, NEW c \in Clients, NEW r, Answers(c, r),
           UNCHANGED <<releases, allow, seen>>,
           r.code = "ok" => r \in seen[c]
    PROVE  LookInv'
<1> DEFINE a == Computed(look[c].key, r)
<1>1. look' = [look EXCEPT ![c] = [phase |-> "answered", key |-> look[c].key, first |-> Nil, answer |-> a]]
  BY DEF Answers
<1>2. a.code = "ok" => a \in seen[c]
  BY ComputedOk
<1> HIDE DEF a
<1>3. LookShape'
  BY <1>1 DEF LookInv, LookShape
<1>4. UnderWay'
  BY <1>1 DEF LookInv, LookShape, UnderWay, Outcome
<1>5. PricedFromOneLibrary'
  BY <1>1, <1>2 DEF LookInv, LookShape, PricedFromOneLibrary
<1> QED BY <1>3, <1>4, <1>5 DEF LookInv

LEMMA LookPrice ==
    ASSUME LookInv, WithinCap, NEW c \in Clients, Price(c)
    PROVE  LookInv'
<1> DEFINE k == look[c].key
           r == Lookup(releases, IF allow THEN LiveStatuses ELSE {"authoritative"}, k, allow)
<1>1. UNCHANGED <<releases, allow, seen>> /\ look[c].phase = "pricing"
  BY DEF Price, LoadersIdle
<1>2. k \in Keys /\ Outcome(releases, k) \in seen[c]
  BY <1>1 DEF LookInv, UnderWay
<1>3. r.code = "ok" => r \in seen[c]
  <2>1. CASE allow
    BY <1>2, <2>1 DEF Outcome
  <2>2. CASE ~allow /\ r.code = "ok"
    <3>1. allow = FALSE
      BY <2>2 DEF LookInv, LookShape
    <3>2. r = Lookup(releases, {"authoritative"}, k, FALSE)
      BY <3>1
    <3>3. r = Lookup(releases, LiveStatuses, k, FALSE)
      BY <1>2, <2>2, <3>2, ReadingLessAgrees
    <3> QED BY <1>2, <3>1, <3>3 DEF Outcome
  <2> QED BY <2>1, <2>2
<1>4. CASE Answers(c, r)
  <2> HIDE DEF r, k
  <2> QED BY <1>1, <1>3, <1>4, LookAnswers
<1>5. CASE /\ r.code # "ok"
           /\ look' = [look EXCEPT ![c] = [phase |-> "explaining", key |-> k, first |-> r, answer |-> Nil]]
  <2> HIDE DEF r
  <2>1. look' = [look EXCEPT ![c] = [phase |-> "explaining", key |-> k, first |-> r, answer |-> Nil]]
    BY <1>5
  <2>2. LookShape'
    BY <1>1, <2>1 DEF LookInv, LookShape
  <2>3. UnderWay'
    BY <1>1, <1>2, <1>5, <2>1 DEF LookInv, LookShape, UnderWay, Outcome
  <2>4. PricedFromOneLibrary'
    BY <1>1, <2>1 DEF LookInv, LookShape, PricedFromOneLibrary
  <2> QED BY <2>2, <2>3, <2>4 DEF LookInv
<1> QED BY <1>4, <1>5 DEF Price

LEMMA LookExplain ==
    ASSUME LookInv, NEW c \in Clients, Explain(c)
    PROVE  LookInv'
<1> DEFINE why == Lookup(releases, LiveStatuses, look[c].key, FALSE)
           r == IF why.code \in {"ok", "over_cap"} THEN look[c].first ELSE why
<1>1. UNCHANGED <<releases, allow, seen>> /\ look[c].phase = "explaining" /\ Answers(c, r)
  BY DEF Explain, LoadersIdle
<1>2. r.code # "ok"
  BY <1>1 DEF LookInv, UnderWay
<1> HIDE DEF r
<1> QED BY <1>1, <1>2, LookAnswers

LEMMA LookStep == LookInv /\ WithinCap /\ [LibraryNext]_libraryVars => LookInv'
<1> SUFFICES ASSUME LookInv, WithinCap, [LibraryNext]_libraryVars PROVE LookInv'
  OBVIOUS
<1>1. ASSUME NEW o \in Loaders,
             Load(o) \/ CutOff(o) \/ (\E f \in Files : AskWithdraw(o, f)) \/ FindTarget(o) \/ Withdraw(o)
      PROVE  UNCHANGED <<releases, allow, look, seen>>
  BY <1>1 DEF Load, AskLoad, FindSuperseded, FindStored, CheckOrdinal, CheckOverlap, Insert,
              CheckOverlapAgain, WithdrawSuperseded, CutOff, AskWithdraw, FindTarget, Withdraw,
              Becomes, Ends, ClientsIdle
<1>2. CASE UNCHANGED <<releases, allow, look, seen>>
  BY <1>2, LookUnchanged
<1>3. ASSUME NEW c \in Clients, Calculate(c) PROVE LookInv'
  BY <1>3, LookAsk, LookPrice, LookExplain DEF Calculate
<1> QED BY <1>1, <1>2, <1>3, LookCommit DEF LibraryNext, libraryVars

(* As long as no key has more candidates than a lookup reads, a figure's   *)
(* factor and conversion are what one library gave while it was computed,  *)
(* and what reading every live release would have given, though two reads, *)
(* the first of authoritative releases alone, fall among any number of     *)
(* loads, errata and withdrawals (lookupFactorPath).                       *)
THEOREM PricedFromOneLibraryHolds == LibrarySpec /\ []WithinCap => []PricedFromOneLibrary
<1>1. LookInv => PricedFromOneLibrary
  BY DEF LookInv
<1> QED BY <1>1, LookInit, LookStep, PTL DEF LibrarySpec
=============================================================================
