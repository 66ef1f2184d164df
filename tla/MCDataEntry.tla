------------------------------ MODULE MCDataEntry ------------------------------
(***************************************************************************)
(* How figures come in, for TLC: the Data Entry page, its form and the     *)
(* panels beside it, the bulk submit and the import of a file.  They share *)
(* no variable, so one run checks them all: the initial state picks a      *)
(* scene, the scene's component moves, and the others stay as they are.    *)
(***************************************************************************)
EXTENDS EntryForm, EntryPanels, BatchSubmit, BulkImport, TLC

CONSTANTS
    east, west, plant, fuel, power,    \* two subsidiaries, one site, two slots
    r1, r2, r3, r4,
    gas, water, diesel, petrol,        \* two more slots, two activity types
    b1, d1, a1, a2                     \* a bulk submit, a dry run, two imports

VARIABLE scene

pageVars == <<formVars, panelVars>>
bulkVars == <<batchVars, importVars>>
vars == <<scene, pageVars, bulkVars>>

-----------------------------------------------------------------------------
(* The form: its user goes on while a save is under way, and answers fail  *)
(* or are lost; and a page opened by a link.                               *)

SitesHere == east :> {plant} @@ west :> {}
NoSites == [s \in Subs |-> {}]

(* The records are alike: r1 is there before r2.                           *)
InOrder(there) == there[r2] # NoRecord => there[r1] # NoRecord
(* So are the slots, to a page that no link opened: the first is Fuel's.   *)
FirstIsFuel == records[r1] = NoRecord => records'[r1].slot # power

Linked == INSTANCE EntryForm WITH Sites <- NoSites, Link <- fuel, Hasty <- {}, Trouble <- {"unlisted", "unknown"}

-----------------------------------------------------------------------------
(* The panels over every change; the list over pages of one record.        *)

FiledHere == east :> <<r2, r1>> @@ west :> <<r3>>
NothingFiled == [s \in Companies |-> <<>>]

Lists == INSTANCE EntryPanels WITH
    Years <- {2025}, PanelFigures <- {}, Mounted <- {}, Filed0 <- FiledHere,
    Changes <- {"sub", "write"}, Failing <- {"list", "more", "send"}

-----------------------------------------------------------------------------
(* Drafts of one series in calendar order, sent together while one of them *)
(* is edited; and stale verdicts of two records, repaired while both are.  *)

OneSeries == [r \in Records |-> power]
Monthly == [r \in Records |-> CASE r = r1 -> 1 [] r = r2 -> 2 [] OTHER -> 3]
OfMine == [r \in Records |-> Me]
ByMe == b1 :> Me
SubmitFigures == {1, 3}

(* No other is compared with the last one's figure: it has only one.       *)
LastIsOne == figure'[r3] # 3

Rescores == INSTANCE BatchSubmit WITH
    Bare <- {}, Touched <- {r1, r2}, Periods <- {2}, Figures <- {1, 3, None},
    SubmitFaults <- {}, Repairs <- TRUE
TwoUnsent == status'[r3] = "absent" /\ UNCHANGED batch[b1].phase

-----------------------------------------------------------------------------
(* Every file of two rows, over all that a row can be wrong about, run dry *)
(* and applied; every file of three rows of one gas; and short files that  *)
(* two users apply at once.                                                *)

KindHere == fuel :> "typed" @@ gas :> "refrigerant" @@ water :> "plain"
FileRow(slot, type, spelt, equip, value) ==
    [slot |-> slot, type |-> type, spelt |-> spelt, equip |-> equip, value |-> value]
Plain(slot, type) == FileRow(slot, type, 1, None, "given")
AnyRow ==
    {FileRow(slot, type, 1, None, value) : slot \in {fuel, gas, water, None}, type \in {diesel, None},
        value \in {"given", "blank", "comma", "unpriced"}}
    \cup {FileRow(gas, diesel, 1, "chiller", value) : value \in {"given", "blank"}}
    \cup {FileRow(water, None, 1, "chiller", "given")}
GasRow ==
    {FileRow(gas, diesel, spelt, equip, value) : spelt \in {1, 2},
        equip \in {None, "chiller", "fridge"}, value \in {"given", "blank"}}
    \cup {FileRow(gas, petrol, 1, "fridge", "blank")}
AnyFile == {<<r, q>> : r, q \in AnyRow}
FiledFirst == {<<fuel, None>>, <<fuel, diesel>>}
ShortFiles == {<<Plain(fuel, diesel), Plain(fuel, petrol)>>, <<Plain(fuel, diesel), Plain(water, None)>>}

Equipment == INSTANCE BulkImport WITH
    Files <- {<<p, q, r>> : p, q, r \in GasRow}, FileSlots <- {gas}, Stored <- {}, Closing <- {}
Applies == INSTANCE BulkImport WITH
    Files <- ShortFiles, FileSlots <- {fuel, water}, Stored <- {}, Others <- {water}, Closing <- {},
    ImportFaults <- {"lost", "deadline", "unfinished"}
(* The two applies are alike: the first is read first.                     *)
InTurn == imp'[a2].phase # "none" => imp[a1].phase # "none"
(* Only these imports run.                                                 *)
Only(is) == \A i \in Imports \ is : imp'[i].phase = "none"

-----------------------------------------------------------------------------
ASSUME SceneAssumption ==
    /\ EntryAssumption /\ Linked!EntryAssumption
    /\ PanelAssumption /\ Lists!PanelAssumption
    /\ BatchAssumption /\ Rescores!BatchAssumption
    /\ ImportAssumption /\ Equipment!ImportAssumption /\ Applies!ImportAssumption

FormAtRest ==
    /\ records = [id \in Ids |-> NoRecord] /\ rows = records
    /\ form = [sub |-> east, loc |-> Whole, slot |-> fuel, figure |-> None, editing |-> None, opened |-> None]
    /\ saving = Idle /\ loading = FALSE
    /\ link = [state |-> "done", id |-> None, rec |-> NoRecord]
PanelsAtRest ==
    /\ filed = NothingFiled /\ drafts = {} /\ reads = {} /\ more = None
    /\ screen = [sub |-> east, year |-> 2025, figure |-> None]
    /\ list = [rows |-> <<>>, drafts |-> {}, cursor |-> None, loading |-> FALSE]
    /\ shows = [p \in Mounted |-> None] /\ asks = [p \in Mounted |-> {}]
    /\ ticked = {} /\ chosen = {} /\ sent = None
PageAtRest == FormAtRest /\ PanelsAtRest
ImportAtRest ==
    /\ stored = [k \in Keys |-> None] /\ closed = {} /\ imp = [i \in Imports |-> NoFile]
    /\ importRows = [i \in Imports |-> NoBatch]
    /\ trail = [i \in Imports |-> {}] /\ written = [i \in Imports |-> {}] /\ quiet = TRUE
BulkAtRest == BatchInit /\ ImportAtRest

Init ==
    \/ scene = "saves" /\ FormInit /\ InOrder(records) /\ records[r1].slot # power /\ PanelsAtRest /\ BulkAtRest
    \/ scene = "link" /\ Linked!FormInit /\ InOrder(records) /\ PanelsAtRest /\ BulkAtRest
    \/ scene = "lists" /\ Lists!PanelInit /\ FormAtRest /\ BulkAtRest
    \/ scene = "cards" /\ PanelInit /\ FormAtRest /\ BulkAtRest
    \/ scene \in {"submits", "rescores"} /\ BatchInit /\ PageAtRest /\ ImportAtRest
    \/ scene = "dry runs" /\ ImportInit /\ PageAtRest /\ BatchInit
    \/ scene = "equipment" /\ Equipment!ImportInit /\ PageAtRest /\ BatchInit
    \/ scene = "applies" /\ Applies!ImportInit /\ PageAtRest /\ BatchInit

Next ==
    \/ scene = "saves" /\ FormNext /\ InOrder(records') /\ FirstIsFuel /\ UNCHANGED <<scene, panelVars, bulkVars>>
    \/ scene = "link" /\ Linked!FormNext /\ InOrder(records') /\ UNCHANGED <<scene, panelVars, bulkVars>>
    \/ scene = "lists" /\ Lists!PanelNext /\ UNCHANGED <<scene, formVars, bulkVars>>
    \/ scene = "cards" /\ PanelNext /\ UNCHANGED <<scene, formVars, bulkVars>>
    \/ scene = "submits" /\ BatchNext /\ LastIsOne /\ UNCHANGED <<scene, pageVars, importVars>>
    \/ scene = "rescores" /\ Rescores!BatchNext /\ TwoUnsent /\ UNCHANGED <<scene, pageVars, importVars>>
    \/ scene = "dry runs" /\ ImportNext /\ Only({d1, a1}) /\ UNCHANGED <<scene, pageVars, batchVars>>
    \/ scene = "equipment" /\ Equipment!ImportNext /\ Only({a1}) /\ UNCHANGED <<scene, pageVars, batchVars>>
    \/ scene = "applies" /\ Applies!ImportNext /\ Only({a1, a2}) /\ InTurn /\ UNCHANGED <<scene, pageVars, batchVars>>

Spec == Init /\ [][Next]_vars

(* The form alone, for a user who switches the subsidiary during a save.   *)
SwitchedInit == scene = "switched" /\ FormInit /\ PanelsAtRest /\ BulkAtRest
SwitchedNext == FormNext /\ UNCHANGED <<scene, panelVars, bulkVars>>
SwitchedSpec == SwitchedInit /\ [][SwitchedNext]_vars

-----------------------------------------------------------------------------
(* The invariants are the components'; what a step of the page may do.     *)

(* The page acts on what the user chose: a save never files an existing    *)
(* record under another slot, a link's answer never takes the user off the *)
(* subsidiary on screen, and only drafts that are ticked in the list on    *)
(* screen are sent for review.                                             *)
ActsOnWhatIsChosen ==
    [][/\ scene \in {"saves", "link"} => KeepsSlots /\ LinkLeavesSubsidiary
       /\ scene \in {"lists", "cards"} => SendsOnlyTicked]_vars
=============================================================================
