------------------------------ MODULE BulkImport ------------------------------
(***************************************************************************)
(* Importing a file of historical activity (BulkUploadService): the        *)
(* grouping of equipment lines, the row checks, the dry run and the apply, *)
(* the batch row and its summary, beside single requests.                  *)
(*                                                                         *)
(* A slot is an entity, period and category; a record's key is its slot    *)
(* and its activity type.  The bytes of the source file, and the object    *)
(* that keeps it, are StorageIntents'; here the batch opens or it does not. *)
(***************************************************************************)
EXTENDS NoValue, Integers, Sequences, FiniteSets, FiniteSetsExt

CONSTANTS
    Imports,
    Dry,          \* the imports that are dry runs
    Files,        \* sequences of rows, as parseRows returns them
    FileSlots,
    Kind,         \* a slot's category: "typed", "refrigerant" or "plain"
    Types,        \* activity types, of every typed category
    Stored,       \* bound: the records that can be there first
    Others,       \* bound: the slots that other requests write
    Closing,      \* bound: the slots whose period is closed, first or later
    ImportFaults,       \* bound: what can go wrong
    Same          \* bound: whether all imports are of one file

(* What a row that was not imported is reported with.                      *)
Late == "not_processed_deadline"
Codes == {"invalid", "wrong_decimal_separator", "duplicate_in_file", "duplicate_existing",
          "period_locked", "no_factor", "unexpected", Late}
BatchStatuses == {"processing", "completed", "failed"}

(* What the constants are.                                                 *)
ImportAssumption ==
    /\ Dry \subseteq Imports
    /\ None \notin Imports \cup FileSlots \cup Types \cup Codes \cup BatchStatuses
    /\ Others \cup Closing \subseteq FileSlots
    /\ ImportFaults \subseteq {"refused", "unopened", "lost", "deadline", "unfinished", "death"}
    /\ \A f \in Files : Len(f) \in Nat /\ DOMAIN f = 1..Len(f)
    /\ \A f \in Files : \A n \in DOMAIN f :
         /\ f[n].slot \in FileSlots \cup {None} /\ f[n].type \in Types \cup {None}
         /\ f[n].value \in {"given", "blank", "comma", "unpriced"}

VARIABLES
    stored,   \* stored[key]: the import that wrote it, "single", or None
    closed,   \* the slots whose period is locked
    imp,      \* imp[i]: an import
    importRows,     \* rows[i]: its import_batches row
    trail,    \* trail[i]: its bulk_import rows in the audit log
    written,  \* history: the keys each import has inserted
    quiet     \* history: nothing else has written, and nothing has failed

importVars == <<stored, closed, imp, importRows, trail, written, quiet>>

Keys == FileSlots \X (Types \cup {None})
Key(row) == <<row.slot, row.type>>

-----------------------------------------------------------------------------
(* The file: which rows are one record.                                    *)

Refrigerant(row) == row.slot # None /\ Kind[row.slot] = "refrigerant"

RecordKey(row) == Key(row)

(* Once one row of a gas's record is an equipment line, every row of that  *)
(* record joins it.                                                        *)
Lined(file, n) ==
    Refrigerant(file[n]) /\ \E m \in DOMAIN file :
        Refrigerant(file[m]) /\ RecordKey(file[m]) = RecordKey(file[n]) /\ file[m].equip # None
(* The rows a record is built from, by number.                             *)
Lines(file, n) ==
    IF Lined(file, n)
    THEN {m \in DOMAIN file : Refrigerant(file[m]) /\ RecordKey(file[m]) = RecordKey(file[n])}
    ELSE {n}
(* A record stands where its first row was.                                *)
RecordsOf(file) == {n \in DOMAIN file : \A m \in Lines(file, n) : n <= m}

-----------------------------------------------------------------------------
(* One record of the file.                                                 *)

(* Every line names an equipment of its own, and no quantity.              *)
EquipmentFault(file, lines) ==
    \/ \E m \in lines : file[m].value # "blank" \/ file[m].equip = None
    \/ \E m, o \in lines : m # o /\ file[m].equip = file[o].equip

CellFault(file, n) ==
    IF Lined(file, n)
    THEN IF EquipmentFault(file, Lines(file, n)) THEN "invalid" ELSE None
    ELSE IF file[n].equip # None \/ file[n].value = "blank" THEN "invalid"
    ELSE IF file[n].value = "comma" THEN "wrong_decimal_separator"
    ELSE None

TypeFault(row) ==
    /\ row.slot # None
    /\ (Kind[row.slot] = "plain") # (row.type = None)

(* The slot a row claims, or None where it is refused first.               *)
Claimed(file, n) == IF CellFault(file, n) = None THEN file[n].slot ELSE None

(* What one query sees of the slots the file claims.                       *)
Snapshot(file) ==
    {k \in Keys : stored[k] # None /\ \E n \in RecordsOf(file) : Claimed(file, n) = k[1]}

Held(key, snapshot) ==
    key \in snapshot \/ \E k \in snapshot : k[1] = key[1] /\ (k[2] = None) # (key[2] = None)

(* The row's refusal before it is previewed, in the order of the checks.   *)
RowFault(i, n) ==
    LET file == imp[i].file
        row == file[n]
    IN  IF CellFault(file, n) # None THEN CellFault(file, n)
        ELSE IF TypeFault(row) THEN "invalid"
        ELSE IF row.slot = None THEN None
        ELSE IF Key(row) \in imp[i].seen THEN "duplicate_in_file"
        ELSE IF Held(Key(row), imp[i].snapshot) THEN "duplicate_existing"
        ELSE None

(* previewCreate: the period, its lock, the figure.                        *)
PreviewFault(row) ==
    IF row.slot = None THEN "invalid"
    ELSE IF row.slot \in closed THEN "period_locked"
    ELSE IF row.value = "unpriced" THEN "no_factor"
    ELSE None

(* The insert's own refusal: the lock again, the unique index, TA002.      *)
InsertFault(key) ==
    IF key[1] \in closed THEN "period_locked"
    ELSE IF Held(key, {k \in Keys : stored[k] # None}) THEN "duplicate_existing"
    ELSE None

-----------------------------------------------------------------------------
(* An import.                                                              *)

NoFile == [phase |-> "none", file |-> <<>>, snapshot |-> {}, seen |-> {}, todo |-> {},
           codes |-> <<>>, tries |-> 0]
NoBatch == [status |-> None, accepted |-> 0, rejected |-> 0]

Rules(held) == \A j, k \in held : j[1] = k[1] => (j[2] = None) = (k[2] = None)

ImportInit ==
    /\ \E held \in SUBSET Stored :
         /\ Rules(held)
         /\ stored = [k \in Keys |-> IF k \in held THEN "single" ELSE None]
    /\ closed \in SUBSET Closing
    /\ imp = [i \in Imports |-> NoFile]
    /\ importRows = [i \in Imports |-> NoBatch]
    /\ trail = [i \in Imports |-> {}]
    /\ written = [i \in Imports |-> {}]
    /\ quiet = TRUE

Phase(i, phase) == imp[i].phase = phase
Sets(i, state) == imp' = [imp EXCEPT ![i] = state]
Goes(i, phase) == Sets(i, [imp[i] EXCEPT !.phase = phase])

(* A role that may not import, or an entity that is not the caller's: the  *)
(* file is refused whole, and the refusal is audited.                      *)
Refuse(i) ==
    /\ "refused" \in ImportFaults /\ Phase(i, "none")
    /\ Goes(i, "refused")
    /\ trail' = [trail EXCEPT ![i] = @ \cup {[refused |-> TRUE, accepted |-> 0, rejected |-> 0]}]
    /\ UNCHANGED <<stored, closed, importRows, written, quiet>>

(* Every import reads any file; under the bound Same, the one first read.  *)
ToRead ==
    IF Same /\ \E j \in Imports : imp[j].file # <<>>
    THEN {imp[j].file : j \in Imports} \ {<<>>}
    ELSE Files

Read(i, file) ==
    /\ Phase(i, "none")
    /\ Sets(i, [NoFile EXCEPT
          !.phase = IF i \in Dry THEN "rows" ELSE "read",
          !.file = file, !.snapshot = Snapshot(file), !.todo = RecordsOf(file)])
    /\ UNCHANGED <<stored, closed, importRows, trail, written, quiet>>

(* The source file is kept and the batch's row written, before any record. *)
OpenBatch(i) ==
    /\ Phase(i, "read")
    /\ \/ /\ importRows' = [importRows EXCEPT ![i].status = "processing"]
          /\ Goes(i, "rows")
       \/ /\ "unopened" \in ImportFaults
          /\ Goes(i, "failed")
          /\ UNCHANGED importRows
    /\ UNCHANGED <<stored, closed, trail, written, quiet>>

(* Mutant: a duplicate counts as imported.                                 *)
IssueForgiving(fault) == IF fault = "duplicate_existing" THEN None ELSE fault
(* The row's issue is the refusal's own.                                   *)
Issue(fault) == fault

(* Each record in its place; past the deadline none is started.            *)
Turn(i, n) == Phase(i, "rows") /\ n \in imp[i].todo /\ \A m \in imp[i].todo : n <= m

(* A row that passed its cells claims its key, whatever becomes of it.     *)
Seen(i, n) ==
    LET file == imp[i].file
    IN  IF Claimed(file, n) # None /\ ~TypeFault(file[n]) THEN {Key(file[n])} ELSE {}

Coded(i, ns, code) ==
    [m \in DOMAIN imp[i].codes \cup ns |-> IF m \in ns THEN code ELSE imp[i].codes[m]]

Reports(i, n, code) ==
    Sets(i, [imp[i] EXCEPT !.phase = "rows", !.todo = @ \ {n}, !.codes = Coded(i, {n}, code),
                           !.seen = @ \cup Seen(i, n)])

RefuseRow(i, n) ==
    /\ Turn(i, n)
    /\ RowFault(i, n) # None
    /\ Reports(i, n, RowFault(i, n))
    /\ UNCHANGED <<stored, closed, importRows, trail, written, quiet>>

(* The preview is a dry run's answer; an apply goes on to write.           *)
PreviewRow(i, n) ==
    /\ Turn(i, n)
    /\ RowFault(i, n) = None
    /\ LET fault == PreviewFault(imp[i].file[n])
       IN  IF fault # None \/ i \in Dry THEN Reports(i, n, Issue(fault))
           ELSE Goes(i, "writing")
    /\ UNCHANGED <<stored, closed, importRows, trail, written, quiet>>

InsertRow(i) ==
    /\ Phase(i, "writing")
    /\ LET n == Min(imp[i].todo)
           key == Key(imp[i].file[n])
       IN  \/ /\ InsertFault(key) = None
              /\ stored' = [stored EXCEPT ![key] = i]
              /\ written' = [written EXCEPT ![i] = @ \cup {key}]
              /\ \/ Reports(i, n, None) /\ UNCHANGED quiet
                 \/ "lost" \in ImportFaults /\ Reports(i, n, "unexpected") /\ quiet' = FALSE
           \/ /\ InsertFault(key) # None
              /\ Reports(i, n, Issue(InsertFault(key)))
              /\ UNCHANGED <<stored, written, quiet>>
    /\ UNCHANGED <<closed, importRows, trail>>

(* A statement fails before the row is written.                            *)
FailRow(i) ==
    /\ "lost" \in ImportFaults /\ Phase(i, "writing")
    /\ Reports(i, Min(imp[i].todo), "unexpected")
    /\ quiet' = FALSE
    /\ UNCHANGED <<stored, closed, importRows, trail, written>>

LateCodes(i) == Coded(i, imp[i].todo, Late)

Defer(i) ==
    /\ "deadline" \in ImportFaults /\ Phase(i, "rows") /\ imp[i].todo # {}
    /\ Sets(i, [imp[i] EXCEPT !.todo = {}, !.codes = LateCodes(i)])
    /\ quiet' = FALSE
    /\ UNCHANGED <<stored, closed, importRows, trail, written>>

AcceptedBy(i) == {n \in DOMAIN imp[i].codes : imp[i].codes[n] = None}
DeferredBy(i) == {n \in DOMAIN imp[i].codes : imp[i].codes[n] = Late}
Accepts(i) == Cardinality(AcceptedBy(i))
Rejects(i) == Cardinality(DOMAIN imp[i].codes) - Accepts(i) - Cardinality(DeferredBy(i))

Closes(i) ==
    importRows' = IF i \in Dry THEN importRows
            ELSE [importRows EXCEPT ![i] = [status |-> IF DeferredBy(i) = {} THEN "completed" ELSE "failed",
                                      accepted |-> Accepts(i), rejected |-> Rejects(i)]]

Summary(i) == [refused |-> FALSE, accepted |-> Accepts(i), rejected |-> Rejects(i)]

(* The summary and the batch's end, in one transaction, once.              *)
Writes(i) ==
    IF trail[i] # {} THEN UNCHANGED <<importRows, trail>>
    ELSE Closes(i) /\ trail' = [trail EXCEPT ![i] = {Summary(i)}]

Tried(tries) == IF tries < 2 THEN "rows" ELSE "unsure"

Finalize(i) ==
    /\ Phase(i, "rows") /\ imp[i].todo = {}
    /\ \/ Writes(i) /\ Goes(i, "done")
       \/ /\ "unfinished" \in ImportFaults
          /\ Writes(i) \/ UNCHANGED <<importRows, trail>>
          /\ Sets(i, [imp[i] EXCEPT !.phase = Tried(imp[i].tries), !.tries = (@ + 1) % 3])
    /\ UNCHANGED <<stored, closed, written, quiet>>

Die(i) ==
    /\ "death" \in ImportFaults /\ imp[i].phase \in {"read", "rows", "writing"}
    /\ Goes(i, "dead")
    /\ UNCHANGED <<stored, closed, importRows, trail, written, quiet>>

-----------------------------------------------------------------------------
(* Single requests, and the period locks.                                  *)

OtherWrites == quiet' = FALSE /\ UNCHANGED <<imp, importRows, trail, written>>

Create(key) ==
    /\ key[1] \in Others /\ (Kind[key[1]] = "plain") = (key[2] = None)
    /\ InsertFault(key) = None
    /\ stored' = [stored EXCEPT ![key] = "single"]
    /\ UNCHANGED closed /\ OtherWrites

(* A draft removed, or a record voided: its slot is free again.            *)
Withdraw(key) ==
    /\ key[1] \in Others \ closed /\ stored[key] # None
    /\ stored' = [stored EXCEPT ![key] = None]
    /\ UNCHANGED closed /\ OtherWrites

Lock(slot) ==
    /\ slot \in (Others \cap Closing) \ closed
    /\ closed' = closed \cup {slot}
    /\ UNCHANGED stored /\ OtherWrites

Unlock(slot) ==
    /\ slot \in closed \cap Others
    /\ closed' = closed \ {slot}
    /\ UNCHANGED stored /\ OtherWrites

-----------------------------------------------------------------------------
Step(i) ==
    \/ OpenBatch(i) \/ InsertRow(i) \/ FailRow(i) \/ Defer(i) \/ Finalize(i)
    \/ \E n \in DOMAIN imp[i].file : RefuseRow(i, n) \/ PreviewRow(i, n)

ImportNext ==
    \/ \E i \in Imports :
         \/ Refuse(i) \/ (\E file \in ToRead : Read(i, file))
         \/ Step(i) \/ Die(i)
    \/ \E key \in Keys : Create(key) \/ Withdraw(key)
    \/ \E slot \in FileSlots : Lock(slot) \/ Unlock(slot)

ImportSpec == ImportInit /\ [][ImportNext]_importVars
FairImports == ImportSpec /\ \A i \in Imports : WF_importVars(Step(i))

-----------------------------------------------------------------------------
(* Properties.                                                             *)

Answered(i) == imp[i].phase \in {"done", "unsure"}

(* Every variable stays in its domain, and no slot holds records of both   *)
(* kinds, whoever wrote them.                                              *)
ImportTypeOK ==
    /\ stored \in [Keys -> Imports \cup {"single", None}]
    /\ Rules({k \in Keys : stored[k] # None})
    /\ closed \subseteq FileSlots
    /\ \A i \in Imports :
         /\ imp[i].phase \in {"none", "refused", "read", "failed", "rows", "writing", "done", "unsure", "dead"}
         /\ imp[i].tries \in 0..2
         /\ \A n \in DOMAIN imp[i].codes : imp[i].codes[n] \in Codes \cup {None}
         /\ importRows[i].status \in BatchStatuses \cup {None}
    /\ quiet \in BOOLEAN

(* The report names every row of the file once.                            *)
EveryRowReported ==
    \A i \in Imports : Answered(i) =>
        \A m \in DOMAIN imp[i].file :
            Cardinality({n \in DOMAIN imp[i].codes : m \in Lines(imp[i].file, n)}) = 1

(* A gas's record is written whole or not at all: of the rows of a key one *)
(* of which is an equipment line, all are in the accepted record or none   *)
(* is, however its period is spelt.                                        *)
GroupsWhole ==
    \A i \in Imports : \A n \in AcceptedBy(i) :
        (\E m \in Lines(imp[i].file, n) : Refrigerant(imp[i].file[m]) /\ imp[i].file[m].equip # None)
        => \A m \in DOMAIN imp[i].file :
             /\ Key(imp[i].file[m]) = Key(imp[i].file[n]) => m \in Lines(imp[i].file, n)
             /\ m \in Lines(imp[i].file, n) => imp[i].file[m].equip # None

(* What a dry run reports is what the apply of the same file does, if they *)
(* found the same records, nothing else was written meanwhile and nothing  *)
(* failed.                                                                 *)
DryRunHolds ==
    \A d \in Dry, a \in Imports \ Dry :
        quiet /\ imp[d].phase = "done" /\ imp[a].phase = "done" /\ imp[d].file = imp[a].file
        /\ imp[d].snapshot = imp[a].snapshot
        /\ (\A i \in Imports \ {d, a} : imp[i].phase = "none")
        => imp[d].codes = imp[a].codes

(* The report tells what was written: an accepted record was, a refused    *)
(* one was not, and only where the answer to its commit was lost is it     *)
(* unknown.                                                                *)
ReportTrue ==
    \A i \in Imports : i \notin Dry /\ Answered(i) =>
        LET file == imp[i].file
            keys(codes) == {Key(file[n]) : n \in {m \in DOMAIN imp[i].codes : imp[i].codes[m] \in codes}}
        IN  /\ keys({None}) \subseteq written[i]
            /\ written[i] \subseteq keys({None, "unexpected"})
            /\ Cardinality(keys({None})) = Accepts(i)

(* A batch is closed if and only if its summary is in the trail, and both  *)
(* say what the caller was told; "completed" leaves no row unstarted.      *)
BatchAgrees ==
    \A i \in Imports \ Dry :
        /\ importRows[i].status \in {"completed", "failed"} <=>
             \E s \in trail[i] : ~s.refused
        /\ \A s \in trail[i] : ~s.refused =>
             /\ s = [refused |-> FALSE, accepted |-> importRows[i].accepted, rejected |-> importRows[i].rejected]
             /\ importRows[i].status = "completed" <=> s.accepted + s.rejected = Cardinality(RecordsOf(imp[i].file))
        /\ imp[i].phase = "done" => trail[i] = {Summary(i)}

(* The report of an import tells what was written, record by record, and   *)
(* its batch and the trail say the same; a gas's record is written whole;  *)
(* and a dry run's report is that of the apply it stands for.              *)
WrittenAsReported ==
    ReportTrue /\ BatchAgrees /\ EveryRowReported /\ GroupsWhole /\ DryRunHolds

(* "This row could not be imported. It was not written."                   *)
UnexpectedMeansUnwritten ==
    \A i \in Imports : \A n \in DOMAIN imp[i].codes :
        imp[i].codes[n] = "unexpected" => Key(imp[i].file[n]) \notin written[i]

=============================================================================
