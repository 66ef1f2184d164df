----------------------------- MODULE EntryTheorems --------------------------
(***************************************************************************)
(* The Data Entry page, for any number of subsidiaries, records and slots. *)
(*                                                                         *)
(* The form: a record that a save or the deep link targets is the one it   *)
(* was, so no save refiles it and no link leaves the subsidiary; and while *)
(* the user does not switch the subsidiary during a save, a record holds   *)
(* only figures that were entered for its own.                             *)
(*                                                                         *)
(* The panels: in whatever order the answers arrive, the rows on screen    *)
(* are a run of the subsidiary's records that ends at the cursor, a card   *)
(* is of the screen's key, and only what is ticked on screen is sent.      *)
(***************************************************************************)
EXTENDS EntryForm, EntryPanels, FiniteSetTheorems, SequenceTheorems, TLAPS

-----------------------------------------------------------------------------
(* The form.  A record keeps its subsidiary and its slot for good, so what *)
(* the list, the link and a save once read of them stays true of it; the   *)
(* list on screen, and a link's question, are of the subsidiary on screen. *)

Locs == {Whole} \cup UNION {Sites[s] : s \in Subs}
RecordType ==
    [sub : Subs, loc : Locs, slot : FormSlots, by : {Me, Colleague},
     status : {"open", "submitted", "shut"}, figure : Subs]
FormType ==
    [sub : Subs, loc : Locs, slot : FormSlots, figure : Subs \cup {None},
     editing : Ids \cup {None}, opened : FormSlots \cup {None}]
SavingType ==
    [kind : {"draft", "submit"}, stage : {"asked", "saved", "submitting"}, id : Ids \cup {None},
     sub : Subs, loc : Locs, slot : FormSlots, figure : Subs]
LinkType ==
    [state : {"waiting", "asked", "dropped", "done"}, id : Ids \cup {None},
     rec : RecordType \cup {NoRecord}]

FormTypeOK ==
    /\ records \in [Ids -> RecordType \cup {NoRecord}]
    /\ rows \in [Ids -> RecordType \cup {NoRecord}]
    /\ form \in FormType
    /\ saving \in SavingType \cup {Idle}
    /\ loading \in BOOLEAN
    /\ link \in LinkType

(* A copy of a record: of one that exists, its subsidiary and its slot.    *)
Copies(id, rec) == Live(id) /\ records[id].sub = rec.sub /\ records[id].slot = rec.slot

RowsCopy == \A id \in Ids : rows[id] # NoRecord => Copies(id, rows[id])
RowsOnScreen == ~loading => \A id \in Ids : rows[id] # NoRecord => rows[id].sub = form.sub
LinkCopies ==
    link.state = "asked" =>
        link.id \in Ids /\ link.rec \in RecordType /\ Copies(link.id, link.rec) /\ link.rec.sub = form.sub
Targeted ==
    form.editing # None =>
        /\ Live(form.editing) /\ form.slot = form.opened
        /\ form.opened = records[form.editing].slot
SavingTargets ==
    /\ Busy /\ saving.id # None => Live(saving.id) /\ records[saving.id].slot = saving.slot
    /\ Busy /\ saving.stage # "asked" => saving.id # None

FormInv == FormTypeOK /\ RowsCopy /\ RowsOnScreen /\ LinkCopies /\ Targeted /\ SavingTargets

(* What the form's operations make of it.                                  *)
LEMMA TypedForm ==
    ASSUME EntryAssumption, NEW f \in FormType
    PROVE  /\ Blank(f) \in FormType
           /\ Blank(f).sub = f.sub /\ Blank(f).slot = f.slot
           /\ Blank(f).figure = None /\ Blank(f).editing = None
           /\ Settled(f) \in FormType
           /\ Settled(f).sub = f.sub /\ Settled(f).slot = f.slot /\ Settled(f).figure = f.figure
           /\ Settled(f).editing = None \/ Settled(f) = f
           /\ Settled(f).editing # None => f.opened = f.slot
  BY DEF FormType, Blank, Settled, MovedOff, Locs

LEMMA OpenedForm ==
    ASSUME EntryAssumption, form \in FormType, NEW id \in Ids, NEW rec \in RecordType
    PROVE  /\ Opened(id, rec) \in FormType
           /\ Opened(id, rec).sub = rec.sub /\ Opened(id, rec).figure = rec.figure
           /\ Opened(id, rec).editing = id
           /\ Opened(id, rec).slot = rec.slot /\ Opened(id, rec).opened = rec.slot
  BY DEF FormType, RecordType, Opened, Targets

LEMMA TargetedForm ==
    ASSUME EntryAssumption, NEW f \in FormType, NEW id \in Ids, NEW rec \in RecordType
    PROVE  /\ Targets(f, id, rec) \in FormType
           /\ Targets(f, id, rec).sub = f.sub /\ Targets(f, id, rec).figure = f.figure
           /\ Targets(f, id, rec).editing = id
           /\ Targets(f, id, rec).slot = f.slot /\ Targets(f, id, rec).opened = rec.slot
  BY DEF FormType, RecordType, Targets

LEMMA FormInitially ==
    ASSUME EntryAssumption, FormInit
    PROVE  FormInv
<1>1. records \in [Ids -> RecordType \cup {NoRecord}]
  <2>1. ASSUME NEW i \in Ids, NEW s \in Subs, NEW k \in FormSlots, NEW b \in {Me, Colleague},
               records = [r \in Ids |-> IF r = i THEN [sub |-> s, loc |-> Whole, slot |-> k, by |-> b,
                                                      status |-> "open", figure |-> s] ELSE NoRecord]
        PROVE  records \in [Ids -> RecordType \cup {NoRecord}]
    BY <2>1 DEF RecordType, Locs
  <2> QED
    BY <2>1 DEF FormInit
<1>2. form \in FormType /\ form.editing = None
  BY DEF FormInit, FormType, Locs, EntryAssumption
<1>3. link \in LinkType /\ link.state # "asked"
  BY DEF FormInit, LinkType
<1> QED
  BY <1>1, <1>2, <1>3
  DEF FormInv, FormInit, FormTypeOK, RowsCopy, RowsOnScreen, LinkCopies, Targeted, SavingTargets, Busy

(* Records that keep their subsidiary and slot keep every copy a copy.     *)
Kept ==
    \A id \in Ids : Live(id) =>
        Live(id)' /\ records'[id].sub = records[id].sub /\ records'[id].slot = records[id].slot

LEMMA CopiesKept ==
    ASSUME FormInv, EntryAssumption, records' \in [Ids -> RecordType \cup {NoRecord}], Kept
    PROVE  /\ UNCHANGED rows => RowsCopy'
           /\ UNCHANGED <<rows, loading>> /\ form'.sub = form.sub => RowsOnScreen'
           /\ UNCHANGED <<rows, form, loading>> => RowsOnScreen'
           /\ UNCHANGED link /\ form'.sub = form.sub => LinkCopies'
           /\ UNCHANGED form => Targeted'
           /\ UNCHANGED saving => SavingTargets'
<1>1. \A id \in Ids : \A rec : Copies(id, rec) => Copies(id, rec)'
  BY DEF Kept, Copies
<1>2. form.editing # None => form.editing \in Ids
  BY DEF FormInv, FormTypeOK, FormType
<1>3. Busy /\ saving.id # None => saving.id \in Ids
  BY DEF FormInv, FormTypeOK, SavingType, Busy
<1> QED
  BY <1>1, <1>2, <1>3
  DEF FormInv, RowsCopy, RowsOnScreen, LinkCopies, Targeted, SavingTargets, Kept, Busy

(* A step that reads no list and asks no question keeps the invariant, if  *)
(* the records keep their subsidiary and slot, the form stays on its       *)
(* subsidiary or has the list read again, and what it targets is a record  *)
(* of its slot.                                                            *)
LEMMA StepKeeps ==
    ASSUME EntryAssumption, FormInv,
           records' \in [Ids -> RecordType \cup {NoRecord}], Kept, UNCHANGED rows,
           form' \in FormType, loading' \in BOOLEAN, link' \in LinkType,
           (form'.sub = form.sub /\ UNCHANGED loading) \/ loading' = TRUE,
           (form'.sub = form.sub /\ UNCHANGED link) \/ link'.state # "asked",
           \/ form'.editing = None
           \/ /\ form'.editing \in Ids /\ form'.slot = form'.opened
              /\ Live(form'.editing) /\ form'.opened = records[form'.editing].slot,
           UNCHANGED saving \/ (saving' \in SavingType \cup {Idle} /\ SavingTargets')
    PROVE  FormInv'
<1>2. FormTypeOK'
  BY DEF FormInv, FormTypeOK
<1>3. RowsCopy' /\ SavingTargets'
  BY CopiesKept
<1>4. RowsOnScreen'
  BY DEF RowsOnScreen, FormInv
<1>5. LinkCopies'
  BY CopiesKept DEF LinkCopies
<1>6. Targeted'
  BY DEF Targeted, Live, Kept
<1> QED
  BY <1>2, <1>3, <1>4, <1>5, <1>6 DEF FormInv

LEMMA FormSteps ==
    ASSUME EntryAssumption, FormInv, [FormNext]_formVars
    PROVE  FormInv' /\ Kept
<1> USE DEF FormInv
<1>0. /\ form \in FormType /\ link \in LinkType /\ loading \in BOOLEAN
      /\ records \in [Ids -> RecordType \cup {NoRecord}]
      /\ rows \in [Ids -> RecordType \cup {NoRecord}]
      /\ saving \in SavingType \cup {Idle}
  BY DEF FormTypeOK
<1>1. ASSUME UNCHANGED records
      PROVE  Kept
  BY <1>1 DEF Kept, Live
<1>2. ASSUME ReadsList
      PROVE  loading' = TRUE /\ link' \in LinkType /\ link'.state # "asked"
  BY <1>0, <1>2 DEF ReadsList, LinkType
<1>3. ASSUME NEW sub \in Subs, Switch(sub)
      PROVE  FormInv' /\ Kept
  <2> DEFINE f == [form EXCEPT !.sub = sub]
  <2>1. f \in FormType
    BY <1>0 DEF FormType
  <2>2. form' = Blank(f) /\ ReadsList /\ UNCHANGED <<records, saving, rows>>
    BY <1>3 DEF Switch
  <2>3. form' \in FormType /\ form'.editing = None
    BY <2>1, <2>2, TypedForm
  <2> QED
    BY <1>0, <1>1, <1>2, <2>2, <2>3, StepKeeps
<1>4. CASE StartNew
  BY <1>0, <1>1, <1>4, TypedForm, StepKeeps DEF StartNew
<1>5. ASSUME NEW slot \in FormSlots, PickSlot(slot)
      PROVE  FormInv' /\ Kept
  <2> DEFINE f == [form EXCEPT !.slot = slot]
  <2>1. /\ f \in FormType /\ f.sub = form.sub /\ f.slot = slot
        /\ f.editing = form.editing /\ f.opened = form.opened
    BY <1>0 DEF FormType
  <2>2. form' = Settled(f) /\ UNCHANGED <<records, saving, rows, loading, link>>
    BY <1>5 DEF PickSlot
  <2> HIDE DEF f
  <2>3. form' \in FormType /\ form'.sub = form.sub
    BY <2>1, <2>2, TypedForm
  <2>4. \/ form'.editing = None
        \/ form' = f /\ f.opened = f.slot /\ form.editing # None
    BY <2>1, <2>2, TypedForm
  <2>5. \/ form'.editing = None
        \/ /\ form'.editing \in Ids /\ form'.slot = form'.opened
           /\ Live(form'.editing) /\ form'.opened = records[form'.editing].slot
    BY <1>0, <2>1, <2>4 DEF Targeted, FormType
  <2> QED
    BY <1>0, <1>1, <2>2, <2>3, <2>5, StepKeeps
<1>6. ASSUME NEW new \in FormType, form' = new, UNCHANGED <<records, saving, rows, loading, link>>,
             new.sub = form.sub, new.slot = form.slot, new.editing = form.editing, new.opened = form.opened
      PROVE  FormInv' /\ Kept
  BY <1>0, <1>1, <1>6, StepKeeps DEF Targeted, FormType
<1>7. ASSUME NEW loc \in Entity(form.sub), PickSite(loc)
      PROVE  FormInv' /\ Kept
  <2>1. loc \in Locs
    BY <1>0 DEF Entity, Locs, FormType
  <2> QED
    BY <1>0, <1>6, <1>7, <2>1 DEF PickSite, FormType
<1>8. CASE TypeFigure
  BY <1>0, <1>6, <1>8 DEF TypeFigure, FormType
<1>9. ASSUME NEW id \in Ids, Open(id)
      PROVE  FormInv' /\ Kept
  <2>1. /\ rows[id] \in RecordType /\ Copies(id, rows[id]) /\ rows[id].sub = form.sub
        /\ form' = Opened(id, rows[id])
    BY <1>0, <1>9 DEF Open, RowsCopy, RowsOnScreen
  <2>2. /\ form' \in FormType /\ form'.sub = form.sub /\ form'.editing = id
        /\ form'.slot = rows[id].slot /\ form'.opened = rows[id].slot
    BY <1>0, <2>1, OpenedForm
  <2> QED
    BY <1>0, <1>1, <1>9, <2>1, <2>2, StepKeeps DEF Open, Copies
<1>10. CASE ListLands
  <2>1. /\ rows' \in [Ids -> RecordType \cup {NoRecord}]
        /\ \A id \in Ids : rows'[id] # NoRecord => rows'[id] = records[id] /\ records[id].sub = form.sub
    BY <1>0, <1>10 DEF ListLands
  <2>2. UNCHANGED <<records, form, saving, link>> /\ loading' = FALSE
    BY <1>10 DEF ListLands
  <2>3. RowsCopy' /\ RowsOnScreen'
    BY <2>1, <2>2 DEF RowsCopy, RowsOnScreen, Copies, Live
  <2>4. LinkCopies' /\ Targeted' /\ SavingTargets'
    BY <1>0, <1>1, <2>2, CopiesKept
  <2> QED
    BY <1>0, <1>1, <2>1, <2>2, <2>3, <2>4 DEF FormTypeOK
<1>11. CASE LinkAsks
  <2>1. UNCHANGED <<records, form, saving, rows, loading>>
    BY <1>11 DEF LinkAsks
  <2>2. link' \in LinkType /\ LinkCopies'
    <3>1. CASE link' = [link EXCEPT !.state = "done"]
      BY <1>0, <3>1 DEF LinkType, LinkCopies
    <3>2. CASE link' # [link EXCEPT !.state = "done"]
      <4>1. PICK named \in Ids : Named(named) /\ link' = [state |-> "asked", id |-> named, rec |-> records[named]]
        BY <1>11, <3>2 DEF LinkAsks
      <4>2. Named(named)
        BY <4>1
      <4>3. records[named] \in RecordType /\ records[named].sub = form.sub
        BY <1>0, <4>2 DEF Named, Live
      <4>4. link' \in LinkType
        BY <4>1, <4>2, <4>3 DEF LinkType
      <4>5. Live(named)' /\ records' = records
        BY <2>1, <4>2 DEF Named, Live
      <4>6. link'.state = "asked" /\ link'.id = named /\ link'.rec = records[named]
        BY <4>1
      <4> QED
        BY <2>1, <4>3, <4>4, <4>5, <4>6 DEF LinkCopies, Copies
    <3> QED
      BY <3>1, <3>2
  <2> QED
    BY <1>0, <1>1, <2>1, <2>2, CopiesKept DEF FormTypeOK
<1>12. CASE LinkLands
  <2>1. link' \in LinkType /\ link'.state = "done" /\ UNCHANGED <<records, saving, rows, loading>>
    BY <1>0, <1>12 DEF LinkLands, LinkType
  <2>2. CASE form' = form
    BY <1>0, <1>1, <2>1, <2>2, StepKeeps DEF Targeted, FormType
  <2>3. CASE form' # form
    <3>1. link.state = "asked" /\ form' = Opened(link.id, link.rec)
      BY <1>12, <2>3 DEF LinkLands, LinkHolds
    <3>2. link.id \in Ids /\ link.rec \in RecordType /\ Copies(link.id, link.rec) /\ link.rec.sub = form.sub
      BY <3>1 DEF LinkCopies
    <3>3. /\ form' \in FormType /\ form'.sub = form.sub /\ form'.editing = link.id
          /\ form'.slot = link.rec.slot /\ form'.opened = link.rec.slot
      BY <1>0, <3>1, <3>2, OpenedForm
    <3> QED
      BY <1>0, <1>1, <2>1, <3>2, <3>3, StepKeeps DEF Copies
  <2> QED
    BY <2>2, <2>3
<1>13. ASSUME NEW kind \in {"draft", "submit"}, Press(kind)
       PROVE  FormInv' /\ Kept
  <2>1. /\ UNCHANGED <<records, form, rows, loading, link>>
        /\ saving' = [kind |-> kind, stage |-> "asked", id |-> form.editing, sub |-> form.sub,
                      loc |-> form.loc, slot |-> form.slot, figure |-> form.figure]
        /\ form.figure # None
    BY <1>13 DEF Press
  <2>2. saving' \in SavingType
    BY <1>0, <2>1 DEF SavingType, FormType
  <2>3. SavingTargets'
    BY <2>1 DEF SavingTargets, Targeted, Live
  <2> QED
    BY <1>0, <1>1, <2>1, <2>2, <2>3, CopiesKept DEF FormTypeOK
<1>14. ASSUME NEW id \in Ids, NEW new \in RecordType, records' = [records EXCEPT ![id] = new],
              Live(id) => new.sub = records[id].sub /\ new.slot = records[id].slot
       PROVE  Kept /\ records' \in [Ids -> RecordType \cup {NoRecord}] /\ Live(id)' /\ records'[id] = new
  <2>1. new # NoRecord
    BY DEF RecordType, NoRecord, EntryAssumption
  <2> QED
    BY <1>0, <1>14, <2>1 DEF Kept, Live
<1>15. CASE Serve
  <2>1. UNCHANGED <<form, rows, loading, link>> /\ saving.stage = "asked"
    BY <1>15 DEF Serve
  <2>2. saving \in SavingType /\ Busy
    BY <1>0, <2>1 DEF Idle, EntryAssumption, Busy
  <2>3. CASE UNCHANGED records /\ saving' = Idle
    BY <1>0, <1>1, <2>1, <2>3, StepKeeps DEF SavingTargets, Targeted, Busy, FormType
  <2>4. ASSUME NEW id \in Ids, Accepted(id), records' = [records EXCEPT ![id] = Written(id)],
               saving' = [saving EXCEPT !.stage = "saved", !.id = id] \/ saving' = Idle
        PROVE  FormInv' /\ Kept
    <3>1. /\ Written(id) \in RecordType /\ Written(id).slot = saving.slot
          /\ Live(id) => saving.id = id /\ Written(id).sub = records[id].sub /\ saving.slot = records[id].slot
      <4>1. CASE saving.id = None
        BY <2>2, <2>4, <4>1 DEF SavingType, RecordType, Written, Accepted, Free
      <4>2. CASE saving.id # None
        <5>1. saving.id = id /\ Live(id) /\ records[id].slot = saving.slot
          BY <2>2, <2>4, <4>2 DEF Accepted, SavingTargets
        <5>2. records[id] \in RecordType
          BY <1>0, <5>1 DEF Live
        <5> QED
          BY <2>2, <4>2, <5>1, <5>2 DEF SavingType, RecordType, Written
      <4> QED
        BY <4>1, <4>2
    <3>2. Kept /\ records' \in [Ids -> RecordType \cup {NoRecord}] /\ Live(id)' /\ records'[id].slot = saving.slot
      BY <1>14, <2>4, <3>1
    <3>3. saving' \in SavingType \cup {Idle} /\ SavingTargets'
      <4>1. CASE saving' = Idle
        BY <4>1 DEF SavingTargets, Busy
      <4>2. CASE saving' = [saving EXCEPT !.stage = "saved", !.id = id]
        <5>1. saving' \in SavingType /\ saving'.id = id /\ saving'.slot = saving.slot
          BY <2>2, <4>2 DEF SavingType
        <5> QED
          BY <3>2, <5>1 DEF SavingTargets, EntryAssumption
      <4> QED
        BY <2>4, <4>1, <4>2
    <3> QED
      BY <1>0, <2>1, <3>2, <3>3, StepKeeps DEF Targeted, FormType
  <2> QED
    BY <1>15, <2>3, <2>4 DEF Serve, Ends
<1>16. CASE SaveLands
  <2>1. saving \in SavingType /\ Busy /\ saving.stage = "saved"
    BY <1>0, <1>16 DEF SaveLands, Idle, EntryAssumption, Busy
  <2>2. saving.id \in Ids /\ Live(saving.id) /\ records[saving.id] \in RecordType
    BY <1>0, <2>1 DEF SavingTargets, SavingType, Live
  <2> DEFINE f == Targets(form, saving.id, records[saving.id])
  <2>3. /\ f \in FormType /\ f.sub = form.sub /\ f.editing = saving.id
        /\ f.opened = records[saving.id].slot
    BY <1>0, <2>2, TargetedForm
  <2>4. form' = Settled(f) /\ UNCHANGED <<records, rows>>
    BY <1>16 DEF SaveLands
  <2> HIDE DEF f
  <2>5. /\ form' \in FormType /\ form'.sub = form.sub
        /\ form'.editing = None \/ (form' = f /\ f.opened = f.slot)
    BY <2>3, <2>4, TypedForm
  <2>6. saving' = Idle \/ saving' = [saving EXCEPT !.stage = "submitting"]
    BY <1>16 DEF SaveLands, Ends
  <2>7. saving' \in SavingType \cup {Idle} /\ SavingTargets'
    BY <2>1, <2>2, <2>4, <2>6 DEF SavingType, SavingTargets, Busy, Live
  <2>8. ReadsList \/ UNCHANGED <<loading, link>>
    BY <1>16 DEF SaveLands, Refreshes
  <2> QED
    BY <1>0, <1>1, <1>2, <2>2, <2>3, <2>4, <2>5, <2>7, <2>8, StepKeeps
<1>17. CASE SubmitLands
  <2>1. saving \in SavingType /\ Busy /\ saving.stage = "submitting"
    BY <1>0, <1>17 DEF SubmitLands, Idle, EntryAssumption, Busy
  <2>2. saving.id \in Ids /\ Live(saving.id) /\ records[saving.id] \in RecordType
    BY <1>0, <2>1 DEF SavingTargets, SavingType, Live
  <2>3. UNCHANGED rows /\ saving' = Idle /\ SavingTargets'
    BY <1>17 DEF SubmitLands, Ends, SavingTargets, Busy
  <2>4. CASE UNCHANGED <<records, form, loading, link>>
    BY <1>0, <1>1, <2>3, <2>4, StepKeeps DEF Targeted, FormType
  <2>5. ASSUME records' = [records EXCEPT ![saving.id].status = "submitted"], form' = Blank(form), Refreshes(saving.sub)
        PROVE  FormInv' /\ Kept
    <3> DEFINE new == [records[saving.id] EXCEPT !.status = "submitted"]
    <3>1. /\ new \in RecordType /\ new.sub = records[saving.id].sub /\ new.slot = records[saving.id].slot
      BY <2>2 DEF RecordType
    <3>2. records' = [records EXCEPT ![saving.id] = new]
      BY <2>5
    <3> HIDE DEF new
    <3>3. Kept /\ records' \in [Ids -> RecordType \cup {NoRecord}]
      BY <1>14, <2>2, <3>1, <3>2
    <3>4. form' \in FormType /\ form'.sub = form.sub /\ form'.editing = None
      BY <1>0, <2>5, TypedForm
    <3>5. ReadsList \/ UNCHANGED <<loading, link>>
      BY <2>5 DEF Refreshes
    <3> QED
      BY <1>0, <1>2, <2>3, <3>3, <3>4, <3>5, StepKeeps
  <2>6. ASSUME records' = [records EXCEPT ![saving.id].status = "submitted"], UNCHANGED <<form, loading, link>>
        PROVE  FormInv' /\ Kept
    <3> DEFINE new == [records[saving.id] EXCEPT !.status = "submitted"]
    <3>1. /\ new \in RecordType /\ new.sub = records[saving.id].sub /\ new.slot = records[saving.id].slot
      BY <2>2 DEF RecordType
    <3>2. records' = [records EXCEPT ![saving.id] = new]
      BY <2>6
    <3> HIDE DEF new
    <3>3. Kept /\ records' \in [Ids -> RecordType \cup {NoRecord}]
      BY <1>14, <2>2, <3>1, <3>2
    <3> QED
      BY <1>0, <1>1, <2>3, <2>6, <3>3, StepKeeps DEF Targeted, Kept, FormType
  <2> QED
    BY <1>17, <2>4, <2>5, <2>6 DEF SubmitLands, Submitted
<1>18. ASSUME NEW id \in Ids, Elsewhere(id)
       PROVE  FormInv' /\ Kept
  <2>1. PICK status \in {"open", "shut"} : records' = [records EXCEPT ![id].status = status]
    BY <1>18 DEF Elsewhere
  <2>2. records[id] \in RecordType /\ UNCHANGED <<form, saving, rows, loading, link>>
    BY <1>0, <1>18 DEF Elsewhere, Live
  <2> DEFINE new == [records[id] EXCEPT !.status = status]
  <2>3. /\ new \in RecordType /\ new.sub = records[id].sub /\ new.slot = records[id].slot
    BY <2>2 DEF RecordType
  <2>4. records' = [records EXCEPT ![id] = new]
    BY <2>1
  <2> HIDE DEF new
  <2>5. Kept /\ records' \in [Ids -> RecordType \cup {NoRecord}]
    BY <1>14, <2>3, <2>4
  <2> QED
    BY <1>0, <2>2, <2>5, StepKeeps DEF Targeted, FormType
<1>19. CASE UNCHANGED formVars
  BY <1>0, <1>1, <1>19, StepKeeps DEF formVars, Targeted, FormType
<1> HIDE DEF FormInv
<1> QED
  BY <1>3, <1>4, <1>5, <1>7, <1>8, <1>9, <1>10, <1>11, <1>12, <1>13, <1>15, <1>16, <1>17, <1>18, <1>19 DEF FormNext

(* The inductive invariant of the form.                                    *)
THEOREM FormInvariant == EntryAssumption /\ FormSpec => []FormInv
<1> SUFFICES ASSUME EntryAssumption
             PROVE  FormSpec => []FormInv
  OBVIOUS
<1> QED
  BY FormInitially, FormSteps, PTL DEF FormSpec

(* A save never files an existing record under another category or period, *)
(* whatever the user, the list and the link do while it is under way.      *)
THEOREM KeepsSlotsHolds == EntryAssumption /\ FormSpec => [][KeepsSlots]_formVars
<1> SUFFICES ASSUME EntryAssumption
             PROVE  FormSpec => [][KeepsSlots]_formVars
  OBVIOUS
<1>1. FormInv /\ [FormNext]_formVars => KeepsSlots
  BY FormSteps DEF Kept, KeepsSlots
<1> QED
  BY <1>1, FormInvariant, PTL DEF FormSpec

(* A link's answer never takes the user off the subsidiary on screen.      *)
THEOREM LinkLeavesSubsidiaryHolds ==
    EntryAssumption /\ FormSpec => [][LinkLeavesSubsidiary]_formVars
<1> SUFFICES ASSUME EntryAssumption
             PROVE  FormSpec => [][LinkLeavesSubsidiary]_formVars
  OBVIOUS
<1>1. ASSUME FormInv, [FormNext]_formVars, link'.state = "done", link.state # "done"
      PROVE  form'.sub = form.sub
  <2>0. link \in LinkType /\ form \in FormType
    BY <1>1 DEF FormInv, FormTypeOK
  <2>1. ASSUME link' = link \/ link' = [link EXCEPT !.state = "dropped"]
        PROVE  FALSE
    BY <1>1, <2>0, <2>1 DEF LinkType
  <2>2. LinkAsks \/ LinkLands
    BY <1>1, <2>1
    DEF FormNext, Switch, ReadsList, PickSlot, PickSite, StartNew, TypeFigure, ListLands, Press,
        Serve, SaveLands, SubmitLands, Refreshes, Open, Elsewhere, formVars
  <2>3. CASE LinkAsks
    BY <2>3 DEF LinkAsks
  <2>4. CASE LinkLands
    <3>1. form' = form \/ (link.state = "asked" /\ form' = Opened(link.id, link.rec))
      BY <2>4 DEF LinkLands, LinkHolds
    <3>2. link.state = "asked" => link.id \in Ids /\ link.rec \in RecordType /\ link.rec.sub = form.sub
      BY <1>1 DEF FormInv, LinkCopies
    <3> QED
      BY <2>0, <3>1, <3>2, OpenedForm
  <2> QED
    BY <2>2, <2>3, <2>4
<1>2. FormInv /\ [FormNext]_formVars => LinkLeavesSubsidiary
  BY <1>1 DEF LinkLeavesSubsidiary
<1> QED
  BY <1>2, FormInvariant, PTL DEF FormSpec

-----------------------------------------------------------------------------
(* The figures.  Every copy of a record has a figure of its subsidiary, a  *)
(* form one of the subsidiary it shows, and a save under way one of the    *)
(* subsidiary it was pressed for, which is still the one on screen.        *)

StaysDuringSaves == "switch" \notin Hasty

FigureOf(rec) == rec.figure = rec.sub

FigureInv ==
    /\ \A id \in Ids : Live(id) => FigureOf(records[id])
    /\ \A id \in Ids : rows[id] # NoRecord => FigureOf(rows[id])
    /\ link.state = "asked" => FigureOf(link.rec)
    /\ form.figure \in {None, form.sub}
    /\ form.editing # None => records[form.editing].sub = form.sub
    /\ Busy => /\ FigureOf(saving) /\ saving.sub = form.sub
               /\ saving.id # None => records[saving.id].sub = saving.sub

LEMMA FigureInitially ==
    ASSUME EntryAssumption, FormInit
    PROVE  FigureInv
<1>1. \A id \in Ids : records[id] # NoRecord => FigureOf(records[id])
  BY DEF FormInit, FigureOf
<1>2. form.figure = None /\ form.editing = None
  BY DEF FormInit
<1> QED
  BY <1>1, <1>2 DEF FormInit, FigureInv, Live, Busy

LEMMA FigureSteps ==
    ASSUME EntryAssumption, StaysDuringSaves, FormInv, FigureInv, [FormNext]_formVars
    PROVE  FigureInv'
<1> USE DEF FigureInv
<1>0. /\ form \in FormType /\ link \in LinkType
      /\ records \in [Ids -> RecordType \cup {NoRecord}]
      /\ rows \in [Ids -> RecordType \cup {NoRecord}]
      /\ saving \in SavingType \cup {Idle}
      /\ Kept /\ FormInv'
  BY FormSteps DEF FormInv, FormTypeOK
(* What leaves the records, the list, the link and the save alone.         *)
<1>1. ASSUME UNCHANGED <<records, rows, saving>>, link' = link \/ link'.state # "asked",
             form'.sub = form.sub \/ ~Busy, form'.figure \in {None, form'.sub},
             form'.editing # None => records[form'.editing].sub = form'.sub
      PROVE  FigureInv'
  BY <1>1 DEF Busy, Live
<1>2. ASSUME ReadsList \/ UNCHANGED link
      PROVE  link' = link \/ link'.state # "asked"
  BY <1>0, <1>2 DEF ReadsList, LinkType
<1>3. ASSUME NEW sub \in Subs, Switch(sub)
      PROVE  FigureInv'
  <2> DEFINE f == [form EXCEPT !.sub = sub]
  <2>1. f \in FormType
    BY <1>0 DEF FormType
  <2>2. form' = Blank(f) /\ ReadsList /\ UNCHANGED <<records, saving, rows>> /\ ~Busy
    BY <1>3 DEF Switch, May, StaysDuringSaves
  <2>3. form'.figure = None /\ form'.editing = None
    BY <2>1, <2>2, TypedForm
  <2> QED
    BY <1>1, <1>2, <2>2, <2>3
<1>4. CASE StartNew
  BY <1>0, <1>1, <1>4, TypedForm DEF StartNew
<1>5. ASSUME NEW slot \in FormSlots, PickSlot(slot)
      PROVE  FigureInv'
  <2> DEFINE f == [form EXCEPT !.slot = slot]
  <2>1. /\ f \in FormType /\ f.sub = form.sub /\ f.figure = form.figure /\ f.editing = form.editing
    BY <1>0 DEF FormType
  <2>2. form' = Settled(f) /\ UNCHANGED <<records, saving, rows, loading, link>>
    BY <1>5 DEF PickSlot
  <2> HIDE DEF f
  <2>3. /\ form'.sub = form.sub /\ form'.figure = form.figure
        /\ form'.editing = None \/ form'.editing = form.editing
    BY <2>1, <2>2, TypedForm
  <2> QED
    BY <1>1, <2>2, <2>3
<1>6. ASSUME NEW loc \in Entity(form.sub), PickSite(loc)
      PROVE  FigureInv'
  BY <1>0, <1>1, <1>6 DEF PickSite, FormType
<1>7. CASE TypeFigure
  BY <1>0, <1>1, <1>7 DEF TypeFigure, FormType
<1>8. ASSUME NEW id \in Ids, Open(id)
      PROVE  FigureInv'
  <2>1. /\ rows[id] \in RecordType /\ Copies(id, rows[id]) /\ rows[id].sub = form.sub
        /\ form' = Opened(id, rows[id]) /\ FigureOf(rows[id])
    BY <1>0, <1>8 DEF Open, FormInv, RowsCopy, RowsOnScreen
  <2> QED
    BY <1>0, <1>1, <1>8, <2>1, OpenedForm DEF Open, Copies, FigureOf
<1>9. CASE ListLands
  <2>1. \A id \in Ids : rows'[id] # NoRecord => Live(id) /\ rows'[id] = records[id]
    BY <1>0, <1>9 DEF ListLands, Live
  <2> QED
    BY <1>9, <2>1 DEF ListLands, Live, FigureOf, Busy
<1>10. CASE LinkAsks
  <2>1. link'.state = "asked" => FigureOf(link'.rec)
    <3>1. CASE link' = [link EXCEPT !.state = "done"]
      BY <1>0, <3>1 DEF LinkType
    <3>2. CASE link' # [link EXCEPT !.state = "done"]
      <4>1. PICK named \in Ids : Named(named) /\ link' = [state |-> "asked", id |-> named, rec |-> records[named]]
        BY <1>10, <3>2 DEF LinkAsks
      <4> QED
        BY <4>1 DEF Named
    <3> QED
      BY <3>1, <3>2
  <2> QED
    BY <1>10, <2>1 DEF LinkAsks, Live, Busy
<1>11. CASE LinkLands
  <2>1. link'.state = "done" /\ UNCHANGED <<records, saving, rows, loading>>
    BY <1>0, <1>11 DEF LinkLands, LinkType
  <2>2. CASE form' = form
    BY <1>1, <2>1, <2>2
  <2>3. CASE form' # form
    <3>1. link.state = "asked" /\ form' = Opened(link.id, link.rec)
      BY <1>11, <2>3 DEF LinkLands, LinkHolds
    <3>2. /\ link.id \in Ids /\ link.rec \in RecordType /\ Copies(link.id, link.rec)
          /\ link.rec.sub = form.sub /\ FigureOf(link.rec)
      BY <3>1 DEF FormInv, LinkCopies
    <3> QED
      BY <1>0, <1>1, <2>1, <3>1, <3>2, OpenedForm DEF Copies, FigureOf
  <2> QED
    BY <2>2, <2>3
<1>12. ASSUME NEW kind \in {"draft", "submit"}, Press(kind)
       PROVE  FigureInv'
  <2>1. /\ UNCHANGED <<records, form, rows, link>>
        /\ saving' = [kind |-> kind, stage |-> "asked", id |-> form.editing, sub |-> form.sub,
                      loc |-> form.loc, slot |-> form.slot, figure |-> form.figure]
        /\ form.figure # None
    BY <1>12 DEF Press
  <2>2. FigureOf(saving') /\ saving'.sub = form.sub /\ saving'.id = form.editing
    BY <2>1 DEF FigureOf
  <2> QED
    BY <2>1, <2>2 DEF Live
<1>13. CASE Serve
  <2>1. UNCHANGED <<form, rows, loading, link>> /\ saving.stage = "asked"
    BY <1>13 DEF Serve
  <2>2. saving \in SavingType /\ Busy
    BY <1>0, <2>1 DEF Idle, EntryAssumption, Busy
  <2>3. CASE UNCHANGED records /\ saving' = Idle
    BY <1>0, <2>1, <2>3 DEF Busy, Live
  <2>4. ASSUME NEW id \in Ids, Accepted(id), records' = [records EXCEPT ![id] = Written(id)],
               saving' = [saving EXCEPT !.stage = "saved", !.id = id] \/ saving' = Idle
        PROVE  FigureInv'
    <3>1. FigureOf(Written(id)) /\ Written(id).sub = saving.sub
      <4>1. CASE saving.id = None
        BY <2>2, <4>1 DEF FigureOf, Written
      <4>2. CASE saving.id # None
        <5>1. saving.id = id /\ Live(id) /\ records[id].sub = saving.sub
          BY <2>2, <2>4, <4>2 DEF Accepted, FormInv, SavingTargets
        <5>2. records[id] \in RecordType
          BY <1>0, <5>1 DEF Live
        <5> QED
          BY <2>2, <4>2, <5>1, <5>2 DEF SavingType, RecordType, Written, FigureOf
      <4> QED
        BY <4>1, <4>2
    <3>2. records'[id] = Written(id) /\ \A r \in Ids \ {id} : records'[r] = records[r]
      BY <1>0, <2>4
    <3>3. \A r \in Ids : Live(r)' => FigureOf(records'[r])
      BY <3>1, <3>2 DEF Live
    <3>4. form.editing # None => records'[form.editing].sub = form.sub
      BY <1>0, <2>1 DEF FormInv, Targeted, Kept, FormType
    <3>5. saving' # Idle => /\ FigureOf(saving') /\ saving'.sub = form.sub
                            /\ saving'.id # None => records'[saving'.id].sub = saving'.sub
      <4>1. CASE saving' = [saving EXCEPT !.stage = "saved", !.id = id]
        <5>1. saving'.id = id /\ saving'.sub = saving.sub /\ saving'.figure = saving.figure
          BY <2>2, <4>1 DEF SavingType
        <5> QED
          BY <2>2, <3>1, <3>2, <5>1 DEF FigureOf
      <4> QED
        BY <2>4, <4>1
    <3> QED
      BY <2>1, <3>3, <3>4, <3>5 DEF Busy, Live
  <2> QED
    BY <1>13, <2>3, <2>4 DEF Serve, Ends
<1>14. CASE SaveLands
  <2>1. saving \in SavingType /\ Busy /\ saving.stage = "saved"
    BY <1>0, <1>14 DEF SaveLands, Idle, EntryAssumption, Busy
  <2>2. saving.id \in Ids /\ Live(saving.id) /\ records[saving.id] \in RecordType
    BY <1>0, <2>1 DEF FormInv, SavingTargets, SavingType, Live
  <2> DEFINE f == Targets(form, saving.id, records[saving.id])
  <2>3. /\ f \in FormType /\ f.sub = form.sub /\ f.editing = saving.id /\ f.figure = form.figure
    BY <1>0, <2>2, TargetedForm
  <2>4. form' = Settled(f) /\ UNCHANGED <<records, rows>>
    BY <1>14 DEF SaveLands
  <2> HIDE DEF f
  <2>5. /\ form'.sub = form.sub /\ form'.figure = form.figure
        /\ form'.editing = None \/ form'.editing = saving.id
    BY <2>3, <2>4, TypedForm
  <2>6. saving' = Idle \/ saving' = [saving EXCEPT !.stage = "submitting"]
    BY <1>14 DEF SaveLands, Ends
  <2>7. saving' = Idle \/ (saving'.id = saving.id /\ saving'.sub = saving.sub /\ saving'.figure = saving.figure)
    BY <2>1, <2>6 DEF SavingType
  <2>8. link' = link \/ link'.state # "asked"
    BY <1>2, <1>14 DEF SaveLands, Refreshes
  <2> QED
    BY <2>1, <2>2, <2>4, <2>5, <2>7, <2>8 DEF Busy, Live, FigureOf
<1>15. CASE SubmitLands
  <2>1. saving \in SavingType /\ Busy /\ saving.stage = "submitting"
    BY <1>0, <1>15 DEF SubmitLands, Idle, EntryAssumption, Busy
  <2>2. saving.id \in Ids /\ Live(saving.id) /\ records[saving.id] \in RecordType
    BY <1>0, <2>1 DEF FormInv, SavingTargets, SavingType, Live
  <2>3. UNCHANGED rows /\ saving' = Idle
    BY <1>15 DEF SubmitLands, Ends
  <2>4. CASE UNCHANGED <<records, form, loading, link>>
    BY <2>3, <2>4 DEF Busy, Live
  <2>5. ASSUME records' = [records EXCEPT ![saving.id].status = "submitted"], form' = Blank(form), Refreshes(saving.sub)
        PROVE  FigureInv'
    <3>1. records'[saving.id] = [records[saving.id] EXCEPT !.status = "submitted"]
      BY <1>0, <2>2, <2>5
    <3>2. FigureOf(records'[saving.id])
      BY <2>2, <3>1 DEF RecordType, FigureOf
    <3>3. \A r \in Ids \ {saving.id} : records'[r] = records[r]
      BY <1>0, <2>2, <2>5
    <3>4. form'.figure = None /\ form'.editing = None
      BY <1>0, <2>5, TypedForm
    <3>5. link' = link \/ link'.state # "asked"
      BY <1>2, <2>5 DEF Refreshes
    <3> QED
      BY <2>3, <3>2, <3>3, <3>4, <3>5 DEF Busy, Live
  <2>6. ASSUME records' = [records EXCEPT ![saving.id].status = "submitted"], UNCHANGED <<form, loading, link>>
        PROVE  FigureInv'
    <3>1. records'[saving.id] = [records[saving.id] EXCEPT !.status = "submitted"]
      BY <1>0, <2>2, <2>6
    <3>2. FigureOf(records'[saving.id]) /\ records'[saving.id].sub = records[saving.id].sub
      BY <2>2, <3>1 DEF RecordType, FigureOf
    <3>3. \A r \in Ids \ {saving.id} : records'[r] = records[r]
      BY <1>0, <2>2, <2>6
    <3>4. form.editing # None => records'[form.editing].sub = form.sub
      BY <1>0 DEF FormInv, Targeted, Kept, FormType
    <3> QED
      BY <2>3, <2>6, <3>2, <3>3, <3>4 DEF Busy, Live
  <2> QED
    BY <1>15, <2>4, <2>5, <2>6 DEF SubmitLands, Submitted
<1>16. ASSUME NEW id \in Ids, Elsewhere(id)
       PROVE  FigureInv'
  <2>1. PICK status \in {"open", "shut"} : records' = [records EXCEPT ![id].status = status]
    BY <1>16 DEF Elsewhere
  <2>2. records[id] \in RecordType /\ Live(id) /\ UNCHANGED <<form, saving, rows, loading, link>>
    BY <1>0, <1>16 DEF Elsewhere, Live
  <2>3. records'[id] = [records[id] EXCEPT !.status = status]
    BY <1>0, <2>1
  <2>4. FigureOf(records'[id]) /\ \A r \in Ids \ {id} : records'[r] = records[r]
    BY <1>0, <2>1, <2>2, <2>3 DEF RecordType, FigureOf
  <2>5. form.editing # None => records'[form.editing].sub = form.sub
    BY <1>0 DEF FormInv, Targeted, Kept, FormType
  <2>6. Busy /\ saving.id # None => records'[saving.id].sub = saving.sub
    BY <1>0 DEF FormInv, SavingTargets, Kept, SavingType, Busy
  <2> QED
    BY <2>2, <2>4, <2>5, <2>6 DEF Busy, Live
<1>17. CASE UNCHANGED formVars
  BY <1>1, <1>17 DEF formVars
<1> HIDE DEF FigureInv
<1> QED
  BY <1>3, <1>4, <1>5, <1>6, <1>7, <1>8, <1>9, <1>10, <1>11, <1>12, <1>13, <1>14, <1>15, <1>16, <1>17 DEF FormNext

LEMMA FigureInvariant == EntryAssumption /\ StaysDuringSaves /\ FormSpec => []FigureInv
<1> SUFFICES ASSUME EntryAssumption, StaysDuringSaves
             PROVE  FormSpec => []FigureInv
  OBVIOUS
<1> QED
  BY FigureInitially, FigureSteps, FormInvariant, PTL DEF FormSpec

(* While the user does not switch the subsidiary during a save, a record   *)
(* holds only figures that were entered for its subsidiary.                *)
THEOREM FiguresOfTheirSubsidiaryHolds ==
    EntryAssumption /\ StaysDuringSaves /\ FormSpec => []FiguresOfTheirSubsidiary
<1> SUFFICES ASSUME EntryAssumption, StaysDuringSaves
             PROVE  FormSpec => []FiguresOfTheirSubsidiary
  OBVIOUS
<1>1. FigureInv => FiguresOfTheirSubsidiary
  BY DEF FigureInv, FiguresOfTheirSubsidiary, Live, FigureOf, NoRecord
<1> QED
  BY <1>1, FigureInvariant, PTL

(* Then the comparison that leaves out the subsidiary loses nothing: the   *)
(* record a form targets is of the subsidiary it shows.                    *)
THEOREM SubsidiaryNeverComparedHolds ==
    EntryAssumption /\ StaysDuringSaves /\ FormSpec => []SubsidiaryNeverCompared
<1> SUFFICES ASSUME EntryAssumption, StaysDuringSaves
             PROVE  FormSpec => []SubsidiaryNeverCompared
  OBVIOUS
<1>1. FigureInv => SubsidiaryNeverCompared
  BY DEF FigureInv, SubsidiaryNeverCompared
<1> QED
  BY <1>1, FigureInvariant, PTL

-----------------------------------------------------------------------------
(* The panels.  What is on screen is a run of the subsidiary's records,    *)
(* and the cursor is where it ends.                                        *)

RunOf(file, run, cursor) ==
    \E a, b \in DOMAIN file :
        /\ a <= b /\ run = SubSeq(file, a, b)
        /\ cursor = IF b = Len(file) THEN None ELSE file[b]

(* A page of what is left is a run of its own: it stops where a next one   *)
(* would start, or at the end.                                             *)
LEMMA PageOfRest ==
    ASSUME PanelAssumption, NEW file \in Seq(RowIds), NEW b \in 0 .. Len(file), b < Len(file)
    PROVE  LET rest == SubSeq(file, b + 1, Len(file))
           IN  \E c \in DOMAIN file :
                 /\ b + 1 <= c /\ PageOf(rest) = SubSeq(file, b + 1, c)
                 /\ CursorOf(rest) = IF c = Len(file) THEN None ELSE file[c]
<1> DEFINE rest == SubSeq(file, b + 1, Len(file))
           m == IF Len(rest) < PageSize THEN Len(rest) ELSE PageSize
<1>1. Len(file) \in Nat /\ DOMAIN file = 1 .. Len(file) /\ \A i \in 1 .. Len(file) : file[i] \in RowIds
  BY LenProperties
<1>2. /\ rest \in Seq(RowIds) /\ Len(rest) = Len(file) - b
      /\ \A i \in 1 .. Len(file) - b : rest[i] = file[b + i]
  <2>1. b \in Nat /\ b + 1 <= Len(file) /\ \A i \in b + 1 .. Len(file) : file[i] \in RowIds
    BY <1>1
  <2>2. /\ rest \in Seq(RowIds) /\ Len(rest) = IF b + 1 <= Len(file) THEN Len(file) - (b + 1) + 1 ELSE 0
        /\ \A i \in 1 .. Len(file) - (b + 1) + 1 : rest[i] = file[b + 1 + i - 1]
    BY <1>1, <2>1, SubSeqProperties
  <2>3. \A i \in 1 .. Len(file) - b : b + 1 + i - 1 = b + i
    BY <1>1, <2>1
  <2> QED
    BY <1>1, <2>1, <2>2, <2>3
<1> HIDE DEF rest
<1>3. m \in 1 .. Len(rest) /\ PageSize \in Nat \ {0} /\ Len(rest) \in Nat
  BY <1>1, <1>2 DEF PanelAssumption
<1>4. PageOf(rest) = SubSeq(rest, 1, m)
  BY DEF PageOf
<1> HIDE DEF m
<1>5. PageOf(rest) = SubSeq(file, b + 1, b + m)
  <2>1. /\ SubSeq(rest, 1, m) \in Seq(RowIds) /\ Len(SubSeq(rest, 1, m)) = m
        /\ \A i \in 1 .. m : SubSeq(rest, 1, m)[i] = rest[i]
    BY <1>1, <1>2, <1>3, SubSeqProperties
  <2>2. /\ SubSeq(file, b + 1, b + m) \in Seq(RowIds) /\ Len(SubSeq(file, b + 1, b + m)) = m
        /\ \A i \in 1 .. m : SubSeq(file, b + 1, b + m)[i] = file[b + i]
    BY <1>1, <1>2, <1>3, SubSeqProperties
  <2> QED
    BY <1>2, <1>3, <1>4, <2>1, <2>2, SeqEqual
<1>6. b + m \in DOMAIN file /\ b + 1 <= b + m
  BY <1>1, <1>2, <1>3
<1>7. CursorOf(rest) = IF b + m = Len(file) THEN None ELSE file[b + m]
  <2>1. CASE Len(rest) > PageSize
    <3>1. m = PageSize
      BY <1>3, <2>1 DEF m
    <3>5. b + m # Len(file)
      <4>1. Len(rest) = Len(file) - b /\ Len(rest) > m /\ m \in Nat /\ b \in Nat /\ Len(file) \in Nat
        BY <1>1, <1>2, <1>3, <2>1, <3>1
      <4> QED
        BY <4>1
    <3>2. Len(SubSeq(rest, 1, m)) = m /\ SubSeq(rest, 1, m)[m] = rest[m]
      BY <1>1, <1>2, <1>3, SubSeqProperties
    <3>3. Last(PageOf(rest)) = rest[m]
      BY <1>4, <3>2 DEF Last
    <3>4. rest[m] = file[b + m]
      BY <1>2, <1>3
    <3> QED
      BY <2>1, <3>3, <3>4, <3>5 DEF CursorOf
  <2>2. CASE ~(Len(rest) > PageSize)
    <3>1. m = Len(rest)
      BY <1>3, <2>2 DEF m
    <3> QED
      BY <1>1, <1>2, <1>3, <2>2, <3>1 DEF CursorOf
  <2> QED
    BY <2>1, <2>2
<1> QED
  BY <1>5, <1>6, <1>7 DEF rest

(* The first page is a run; of no records it is empty.                     *)
LEMMA FirstPageIsRun ==
    ASSUME PanelAssumption, NEW file \in Seq(RowIds)
    PROVE  /\ file # <<>> => RunOf(file, PageOf(file), CursorOf(file))
           /\ file = <<>> => PageOf(file) = <<>> /\ CursorOf(file) = None
<1>1. CASE file # <<>>
  <2>1. Len(file) \in Nat \ {0} /\ DOMAIN file = 1 .. Len(file)
    BY <1>1, EmptySeq, LenProperties
  <2>2. SubSeq(file, 0 + 1, Len(file)) = file
    BY <2>1, SubSeqFull
  <2>3. \E c \in DOMAIN file :
           /\ 0 + 1 <= c /\ PageOf(file) = SubSeq(file, 0 + 1, c)
           /\ CursorOf(file) = IF c = Len(file) THEN None ELSE file[c]
    <3>1. 0 \in 0 .. Len(file) /\ 0 < Len(file)
      BY <2>1
    <3>2. LET rest == SubSeq(file, 0 + 1, Len(file))
          IN  \E c \in DOMAIN file :
                /\ 0 + 1 <= c /\ PageOf(rest) = SubSeq(file, 0 + 1, c)
                /\ CursorOf(rest) = IF c = Len(file) THEN None ELSE file[c]
      BY <3>1, PageOfRest
    <3> QED
      BY <2>2, <3>2
  <2>4. PICK c \in DOMAIN file :
           /\ 1 <= c /\ PageOf(file) = SubSeq(file, 1, c)
           /\ CursorOf(file) = IF c = Len(file) THEN None ELSE file[c]
    BY <2>3
  <2>5. 1 \in DOMAIN file
    BY <2>1
  <2> QED
    BY <1>1, <2>4, <2>5 DEF RunOf
<1>2. CASE file = <<>>
  <2>1. Len(file) = 0 /\ PageSize > 0 /\ PageSize \in Nat
    BY <1>2, EmptySeq DEF PanelAssumption
  <2>2. PageOf(file) = SubSeq(file, 1, 0)
    BY <2>1 DEF PageOf
  <2>3. SubSeq(file, 1, 0) = <<>>
    BY SubSeqEmpty
  <2>4. CursorOf(file) = None
    BY <2>1 DEF CursorOf
  <2> QED
    BY <1>2, <2>2, <2>3, <2>4
<1> QED
  BY <1>1, <1>2

(* None of a page's rows is there yet: it is added as a whole.             *)
LEMMA AppendsAll ==
    ASSUME NEW there \in Seq(RowIds), NEW page \in Seq(RowIds),
           \A n \in DOMAIN page : page[n] \notin Range(there)
    PROVE  AppendById(there, page) = there \o page
<1> DEFINE new == {n \in DOMAIN page : page[n] \notin Range(there)}
           Nth(k) == CHOOSE n \in new : Cardinality({m \in new : m <= n}) = k
<1>1. Len(page) \in Nat /\ DOMAIN page = 1 .. Len(page) /\ page \in [1 .. Len(page) -> RowIds]
  BY LenProperties
<1>2. new = 1 .. Len(page)
  BY <1>1
<1> HIDE DEF new
<1>3. Cardinality(new) = Len(page)
  <2>1. \A n \in Nat : Cardinality(1 .. n) = n
    <3>1. ASSUME NEW n \in Nat PROVE Cardinality(1 .. n) = IF 1 > n THEN 0 ELSE n - 1 + 1
      BY FS_Interval
    <3> QED
      BY <3>1
  <2> QED
    BY <1>2, <2>1
<1>4. ASSUME NEW k \in 1 .. Len(page)
      PROVE  Nth(k) = k
  <2>1. ASSUME NEW n \in 1 .. Len(page)
        PROVE  Cardinality({m \in new : m <= n}) = n
    <3>1. {m \in new : m <= n} = 1 .. n
      BY <1>1, <1>2
    <3>2. Cardinality(1 .. n) = n
      BY <1>1, FS_Interval
    <3> QED
      BY <3>1, <3>2
  <2>2. k \in new /\ \A n \in new : Cardinality({m \in new : m <= n}) = k => n = k
    BY <1>2, <2>1
  <2>3. Cardinality({m \in new : m <= k}) = k
    BY <2>1
  <2> QED
    BY <2>2, <2>3
<1>5. AppendById(there, page) = there \o [k \in 1 .. Cardinality(new) |-> page[Nth(k)]]
  BY DEF AppendById, new
<1> HIDE DEF Nth
<1>6. [k \in 1 .. Cardinality(new) |-> page[Nth(k)]] = [k \in 1 .. Len(page) |-> page[k]]
  BY <1>3, <1>4
<1>7. [k \in 1 .. Len(page) |-> page[k]] = page
  BY <1>1
<1> QED
  BY <1>5, <1>6, <1>7

(* What is filed at the head leaves a run where it was.                    *)
LEMMA RunStays ==
    ASSUME NEW file \in Seq(RowIds), NEW id \in RowIds, NEW run, NEW cursor, RunOf(file, run, cursor)
    PROVE  RunOf(<<id>> \o file, run, cursor)
<1> DEFINE more1 == <<id>> \o file
<1>1. Len(file) \in Nat /\ DOMAIN file = 1 .. Len(file) /\ \A i \in 1 .. Len(file) : file[i] \in RowIds
  BY LenProperties
<1>2. /\ more1 \in Seq(RowIds) /\ Len(more1) = Len(file) + 1
      /\ \A i \in 1 .. Len(file) : more1[i + 1] = file[i]
  <2>1. <<id>> \in Seq(RowIds) /\ Len(<<id>>) = 1
    OBVIOUS
  <2>2. /\ more1 \in Seq(RowIds) /\ Len(more1) = 1 + Len(file)
        /\ \A i \in 1 .. 1 + Len(file) : more1[i] = IF i <= 1 THEN <<id>>[i] ELSE file[i - 1]
    BY <2>1, ConcatProperties
  <2> QED
    BY <1>1, <2>2
<1>3. DOMAIN more1 = 1 .. Len(file) + 1
  BY <1>2, LenProperties
<1>4. PICK a, b \in DOMAIN file :
         /\ a <= b /\ run = SubSeq(file, a, b)
         /\ cursor = IF b = Len(file) THEN None ELSE file[b]
  BY DEF RunOf
<1> HIDE DEF more1
<1>5. a \in 1 .. Len(file) /\ b \in 1 .. Len(file) /\ a + 1 \in DOMAIN more1 /\ b + 1 \in DOMAIN more1
  BY <1>1, <1>3, <1>4
<1>6. run = SubSeq(more1, a + 1, b + 1)
  <2>1. /\ run \in Seq(RowIds) /\ Len(run) = b - a + 1
        /\ \A i \in 1 .. b - a + 1 : run[i] = file[a + i - 1]
    BY <1>1, <1>4, <1>5, SubSeqProperties
  <2>2. \A i \in a + 1 .. b + 1 : more1[i] \in RowIds
    <3>1. ASSUME NEW i \in a + 1 .. b + 1 PROVE more1[i] \in RowIds
      <4>1. i - 1 \in 1 .. Len(file) /\ (i - 1) + 1 = i
        BY <1>1, <1>5
      <4> QED
        BY <1>1, <1>2, <4>1
    <3> QED
      BY <3>1
  <2>3. /\ SubSeq(more1, a + 1, b + 1) \in Seq(RowIds)
        /\ Len(SubSeq(more1, a + 1, b + 1)) = IF a + 1 <= b + 1 THEN (b + 1) - (a + 1) + 1 ELSE 0
        /\ \A i \in 1 .. (b + 1) - (a + 1) + 1 : SubSeq(more1, a + 1, b + 1)[i] = more1[a + 1 + i - 1]
    BY <1>1, <1>5, <2>2, SubSeqProperties
  <2>4. ASSUME NEW i \in 1 .. b - a + 1
        PROVE  more1[a + 1 + i - 1] = file[a + i - 1]
    <3>1. a + i - 1 \in 1 .. Len(file) /\ (a + i - 1) + 1 = a + 1 + i - 1
      BY <1>1, <1>4, <1>5
    <3> QED
      BY <1>2, <3>1
  <2>5. (b + 1) - (a + 1) + 1 = b - a + 1 /\ Len(SubSeq(more1, a + 1, b + 1)) = b - a + 1
    BY <1>1, <1>4, <1>5, <2>3
  <2>6. \A i \in 1 .. b - a + 1 : SubSeq(more1, a + 1, b + 1)[i] = run[i]
    BY <2>1, <2>3, <2>4, <2>5
  <2> QED
    BY <2>1, <2>3, <2>5, <2>6, SeqEqual
<1>7. cursor = IF b + 1 = Len(more1) THEN None ELSE more1[b + 1]
  BY <1>1, <1>2, <1>4, <1>5
<1>8. a + 1 <= b + 1
  BY <1>1, <1>4, <1>5
<1> QED
  BY <1>5, <1>6, <1>7, <1>8 DEF RunOf, more1

LEMMA RunTyped ==
    ASSUME NEW file \in Seq(RowIds), NEW run, NEW cursor, RunOf(file, run, cursor)
    PROVE  run \in Seq(RowIds) /\ cursor \in RowIds \cup {None}
<1>1. Len(file) \in Nat /\ DOMAIN file = 1 .. Len(file) /\ \A i \in 1 .. Len(file) : file[i] \in RowIds
  BY LenProperties
<1>2. PICK a, b \in DOMAIN file :
         /\ a <= b /\ run = SubSeq(file, a, b)
         /\ cursor = IF b = Len(file) THEN None ELSE file[b]
  BY DEF RunOf
<1>3. a \in Int /\ b \in Int /\ \A i \in a .. b : file[i] \in RowIds
  BY <1>1, <1>2
<1> QED
  BY <1>1, <1>2, <1>3, SubSeqProperties

LEMMA HeadFiledOnce ==
    ASSUME NEW file \in Seq(RowIds), IsInjective(file), NEW id \in RowIds, id \notin Range(file)
    PROVE  <<id>> \o file \in Seq(RowIds) /\ IsInjective(<<id>> \o file)
<1> DEFINE more1 == <<id>> \o file
<1>1. Len(file) \in Nat /\ DOMAIN file = 1 .. Len(file)
  BY LenProperties
<1>2. /\ more1 \in Seq(RowIds) /\ Len(more1) = Len(file) + 1 /\ more1[1] = id
      /\ \A i \in 2 .. Len(file) + 1 : more1[i] = file[i - 1]
  <2>1. <<id>> \in Seq(RowIds) /\ Len(<<id>>) = 1
    OBVIOUS
  <2>2. /\ more1 \in Seq(RowIds) /\ Len(more1) = 1 + Len(file)
        /\ \A i \in 1 .. 1 + Len(file) : more1[i] = IF i <= 1 THEN <<id>>[i] ELSE file[i - 1]
    BY <2>1, ConcatProperties
  <2> QED
    BY <1>1, <2>2
<1>3. DOMAIN more1 = 1 .. Len(file) + 1
  BY <1>2, LenProperties
<1> HIDE DEF more1
<1>4. \A i \in 2 .. Len(file) + 1 : i - 1 \in DOMAIN file /\ more1[i] \in Range(file)
  BY <1>1, <1>2 DEF Range
<1>5. ASSUME NEW i \in DOMAIN more1, NEW j \in DOMAIN more1, more1[i] = more1[j]
      PROVE  i = j
  <2>1. CASE i = 1 /\ j # 1
    BY <1>1, <1>2, <1>3, <1>4, <1>5, <2>1
  <2>2. CASE i # 1 /\ j = 1
    BY <1>1, <1>2, <1>3, <1>4, <1>5, <2>2
  <2>3. CASE i # 1 /\ j # 1
    <3>1. i \in 2 .. Len(file) + 1 /\ j \in 2 .. Len(file) + 1
      BY <1>1, <1>3, <2>3
    <3>2. i - 1 = j - 1
      BY <1>2, <1>4, <1>5, <3>1 DEF IsInjective
    <3> QED
      BY <1>1, <3>1, <3>2
  <2> QED
    BY <2>1, <2>2, <2>3
<1> QED
  BY <1>2, <1>5 DEF IsInjective, more1

(* The next page joins on: the run goes on from where its cursor is.       *)
LEMMA NextPageJoins ==
    ASSUME PanelAssumption, NEW sub \in Companies, filed[sub] \in Seq(RowIds), IsInjective(filed[sub]),
           NEW run, NEW cursor, RunOf(filed[sub], run, cursor), cursor # None
    PROVE  LET rest == After(sub, cursor)
           IN  /\ RunOf(filed[sub], AppendById(run, PageOf(rest)), CursorOf(rest))
               /\ Range(PageOf(rest)) \subseteq RowIds
<1> DEFINE file == filed[sub]
<1>1. Len(file) \in Nat /\ DOMAIN file = 1 .. Len(file) /\ \A i \in 1 .. Len(file) : file[i] \in RowIds
  BY LenProperties
<1>2. PICK a, b \in DOMAIN file :
         /\ a <= b /\ run = SubSeq(file, a, b)
         /\ cursor = IF b = Len(file) THEN None ELSE file[b]
  BY DEF RunOf
<1>3. After(sub, cursor) = SubSeq(file, b + 1, Len(file))
  <2>1. b # Len(file) /\ cursor = file[b]
    BY <1>2
  <2>2. \A n \in DOMAIN file : file[n] = cursor => n = b
    BY <1>2, <2>1 DEF IsInjective
  <2>3. (CHOOSE n \in DOMAIN file : file[n] = cursor) = b
    BY <1>2, <2>1, <2>2
  <2> QED
    BY <2>3 DEF After
<1> DEFINE rest == After(sub, cursor)
<1> HIDE DEF file
<1>4. b \in 0 .. Len(file) /\ b < Len(file) /\ a \in Nat /\ b \in Nat
  BY <1>1, <1>2
<1>5. PICK c \in DOMAIN file :
         /\ b + 1 <= c /\ PageOf(rest) = SubSeq(file, b + 1, c)
         /\ CursorOf(rest) = IF c = Len(file) THEN None ELSE file[c]
  <2>1. file \in Seq(RowIds)
    BY DEF file
  <2> QED
    BY <1>3, <1>4, <2>1, PageOfRest
<1>6. c \in 1 .. Len(file) /\ a \in 1 .. Len(file)
  BY <1>1, <1>2, <1>5
<1>7. /\ run \in Seq(RowIds) /\ Len(run) = b - a + 1
      /\ \A i \in 1 .. b - a + 1 : run[i] = file[a + i - 1]
  BY <1>1, <1>2, <1>4, <1>6, SubSeqProperties
<1>8. /\ PageOf(rest) \in Seq(RowIds) /\ Len(PageOf(rest)) = c - b
      /\ \A i \in 1 .. c - b : PageOf(rest)[i] = file[b + i]
  <2>1. /\ SubSeq(file, b + 1, c) \in Seq(RowIds)
        /\ Len(SubSeq(file, b + 1, c)) = IF b + 1 <= c THEN c - (b + 1) + 1 ELSE 0
        /\ \A i \in 1 .. c - (b + 1) + 1 : SubSeq(file, b + 1, c)[i] = file[b + 1 + i - 1]
    BY <1>1, <1>4, <1>6, SubSeqProperties
  <2>2. c - (b + 1) + 1 = c - b /\ \A i \in 1 .. c - b : b + 1 + i - 1 = b + i
    BY <1>4, <1>6
  <2> QED
    BY <1>5, <2>1, <2>2
<1>9. \A n \in DOMAIN PageOf(rest) : PageOf(rest)[n] \notin Range(run)
  <2> SUFFICES ASSUME NEW n \in DOMAIN PageOf(rest), NEW k \in DOMAIN run, PageOf(rest)[n] = run[k]
               PROVE  FALSE
    BY DEF Range
  <2>1. n \in 1 .. c - b /\ k \in 1 .. b - a + 1
    BY <1>7, <1>8, LenProperties
  <2>2. b + n \in DOMAIN file /\ a + k - 1 \in DOMAIN file /\ b + n # a + k - 1
    BY <1>1, <1>4, <1>6, <2>1
  <2>3. file[b + n] = file[a + k - 1]
    BY <1>7, <1>8, <2>1
  <2> QED
    BY <2>2, <2>3 DEF IsInjective, file
<1>10. AppendById(run, PageOf(rest)) = SubSeq(file, a, c)
  <2>1. AppendById(run, PageOf(rest)) = run \o PageOf(rest)
    BY <1>7, <1>8, <1>9, AppendsAll
  <2>2. a \in 1 .. Len(file) + 1 /\ b \in a - 1 .. Len(file) /\ c \in b .. Len(file)
    BY <1>1, <1>2, <1>4, <1>5, <1>6
  <2>3. file \in Seq(RowIds)
    BY DEF file
  <2>4. SubSeq(file, a, b) \o SubSeq(file, b + 1, c) = SubSeq(file, a, c)
    BY <2>2, <2>3, ConcatAdjacentSubSeq
  <2> QED
    BY <1>2, <1>5, <2>1, <2>4
<1>11. Range(PageOf(rest)) \subseteq RowIds
  BY <1>8, LenProperties DEF Range
<1>12. a <= c
  BY <1>1, <1>2, <1>4, <1>5, <1>6
<1> QED
  BY <1>2, <1>5, <1>10, <1>11, <1>12 DEF RunOf, file

(* A run that is not empty ends where its cursor says.                     *)
LEMMA RunJoins ==
    ASSUME NEW file \in Seq(RowIds), IsInjective(file), NEW run, NEW cursor, RunOf(file, run, cursor)
    PROVE  /\ \E a, b \in DOMAIN file : run = SubSeq(file, a, b)
           /\ cursor = IF Last(run) = Last(file) THEN None ELSE Last(run)
           /\ run \in Seq(RowIds)
<1>1. Len(file) \in Nat /\ DOMAIN file = 1 .. Len(file) /\ \A i \in 1 .. Len(file) : file[i] \in RowIds
  BY LenProperties
<1>2. PICK a, b \in DOMAIN file :
         /\ a <= b /\ run = SubSeq(file, a, b)
         /\ cursor = IF b = Len(file) THEN None ELSE file[b]
  BY DEF RunOf
<1>3. a \in 1 .. Len(file) /\ b \in 1 .. Len(file)
  BY <1>1, <1>2
<1>4. /\ run \in Seq(RowIds) /\ Len(run) = b - a + 1
      /\ \A i \in 1 .. b - a + 1 : run[i] = file[a + i - 1]
  BY <1>1, <1>2, <1>3, SubSeqProperties
<1>5. Last(run) = file[b]
  <2>1. b - a + 1 \in 1 .. b - a + 1 /\ a + (b - a + 1) - 1 = b
    BY <1>1, <1>2, <1>3
  <2> QED
    BY <1>4, <2>1 DEF Last
<1>6. Last(file) = file[Len(file)] /\ Len(file) \in DOMAIN file
  BY <1>1, <1>3 DEF Last
<1>7. Last(run) = Last(file) <=> b = Len(file)
  BY <1>2, <1>5, <1>6 DEF IsInjective
<1> QED
  BY <1>2, <1>4, <1>5, <1>7

-----------------------------------------------------------------------------
(* The list.  A read that is live is of the subsidiary on screen, and the  *)
(* list waits for it; a next page that is live is the one after the rows.  *)

ScreenType == [sub : Companies, year : Years, figure : PanelFigures \cup {None}]
FirstType == [sub : Companies, live : BOOLEAN]
MoreType == [sub : Companies, after : RowIds \cup {None}, live : BOOLEAN]
ListType ==
    [rows : Seq(RowIds), drafts : SUBSET RowIds, cursor : RowIds \cup {None}, loading : BOOLEAN]

ListTypeOK ==
    /\ filed \in [Companies -> Seq(RowIds)] /\ drafts \in SUBSET RowIds
    /\ screen \in ScreenType /\ list \in ListType
    /\ reads \in SUBSET FirstType /\ more \in MoreType \cup {None}

FiledOnce == \A s \in Companies : IsInjective(filed[s])
RowsAreRun ==
    ~list.loading =>
        \/ list.rows = <<>> /\ list.cursor = None
        \/ RunOf(filed[screen.sub], list.rows, list.cursor)
ReadsOnScreen == \A r \in reads : r.live => r.sub = screen.sub /\ list.loading
MoreOnScreen ==
    more # None /\ more.live =>
        ~list.loading /\ more.sub = screen.sub /\ more.after = list.cursor /\ list.cursor # None

ListInv == ListTypeOK /\ FiledOnce /\ RowsAreRun /\ ReadsOnScreen /\ MoreOnScreen

(* A read of the first page supersedes every other.                        *)
LEMMA SupersedesReads ==
    ASSUME ListTypeOK, NEW sub \in Companies
    PROVE  /\ FirstReads(sub) \in SUBSET FirstType
           /\ \A r \in FirstReads(sub) : r.live => r.sub = sub
<1>1. ASSUME NEW r \in FirstReads(sub)
      PROVE  r \in FirstType /\ (r.live => r.sub = sub)
  <2>1. CASE r = [sub |-> sub, live |-> TRUE]
    BY <2>1 DEF FirstType
  <2>2. CASE r # [sub |-> sub, live |-> TRUE]
    <3>1. PICK q \in reads : r = [q EXCEPT !.live = FALSE]
      BY <1>1, <2>2 DEF FirstReads, Superseded
    <3>2. q \in FirstType
      BY DEF ListTypeOK
    <3> QED
      BY <3>1, <3>2 DEF FirstType
  <2> QED
    BY <2>1, <2>2
<1> QED
  BY <1>1

LEMMA ReadsFirstSupersedes ==
    ASSUME ListTypeOK, NEW sub \in Companies, ReadsFirst(sub)
    PROVE  /\ reads' \in SUBSET FirstType /\ \A r \in reads' : r.live => r.sub = sub
           /\ list' \in ListType /\ list'.loading
           /\ more' \in MoreType \cup {None} /\ (more' # None => ~more'.live)
<1>1. reads' \in SUBSET FirstType /\ \A r \in reads' : r.live => r.sub = sub
  BY SupersedesReads DEF ReadsFirst
<1>2. list' = [list EXCEPT !.loading = TRUE] /\ list \in ListType
  BY DEF ReadsFirst, ListTypeOK
<1>3. list' \in ListType /\ list'.loading
  BY <1>2 DEF ListType
<1>4. more' \in MoreType \cup {None} /\ (more' # None => ~more'.live)
  <2>1. CASE more = None
    BY <2>1 DEF ReadsFirst
  <2>2. CASE more # None
    <3>1. more \in MoreType /\ more' = [more EXCEPT !.live = FALSE]
      BY <2>2 DEF ReadsFirst, ListTypeOK
    <3> QED
      BY <3>1 DEF MoreType
  <2> QED
    BY <2>1, <2>2
<1> QED
  BY <1>1, <1>3, <1>4

(* A list that loads, of a screen whose reads are its own, is in order.    *)
LEMMA LoadingList ==
    ASSUME ListTypeOK', FiledOnce', list'.loading,
           \A r \in reads' : r.live => r.sub = screen'.sub,
           more' # None => ~more'.live
    PROVE  ListInv'
  BY DEF ListInv, RowsAreRun, ReadsOnScreen, MoreOnScreen

LEMMA ListInitially == ASSUME PanelAssumption PROVE PanelInit => ListInv
<1> SUFFICES ASSUME PanelInit PROVE ListInv
  OBVIOUS
<1>1. filed \in [Companies -> Seq(RowIds)] /\ FiledOnce
  BY DEF PanelInit, PanelAssumption, FiledOnce
<1>2. drafts \in SUBSET RowIds
  <2> SUFFICES ASSUME NEW s \in Companies PROVE Range(Filed0[s]) \subseteq RowIds
    BY DEF PanelInit
  <2> QED
    BY LenProperties DEF PanelAssumption, Range
<1>3. PICK s \in Companies, y \in Years :
         screen = [sub |-> s, year |-> y, figure |-> None] /\ reads = {[sub |-> s, live |-> TRUE]}
  BY DEF PanelInit
<1>4. screen \in ScreenType /\ reads \in SUBSET FirstType
  BY <1>3 DEF ScreenType, FirstType
<1>5. list \in ListType
  <2>1. <<>> \in Seq(RowIds)
    BY EmptySeq
  <2> QED
    BY <2>1 DEF PanelInit, ListType
<1>6. list.loading /\ more = None
  BY DEF PanelInit
<1> QED
  BY <1>1, <1>2, <1>3, <1>4, <1>5, <1>6 DEF ListInv, ListTypeOK, RowsAreRun, ReadsOnScreen, MoreOnScreen

LEMMA ListSteps == ASSUME PanelAssumption PROVE ListInv /\ [PanelNext]_panelVars => ListInv'
<1> SUFFICES ASSUME ListInv, [PanelNext]_panelVars
             PROVE  ListInv'
  OBVIOUS
<1>0. /\ filed \in [Companies -> Seq(RowIds)] /\ drafts \in SUBSET RowIds
      /\ screen \in ScreenType /\ list \in ListType
      /\ reads \in SUBSET FirstType /\ more \in MoreType \cup {None}
      /\ screen.sub \in Companies
  BY DEF ListInv, ListTypeOK, ScreenType
<1>1. ListTypeOK /\ FiledOnce /\ RowsAreRun /\ ReadsOnScreen /\ MoreOnScreen
  BY DEF ListInv
<1>2. ASSUME UNCHANGED <<filed, screen, list, reads, more>>, drafts' \in SUBSET RowIds
      PROVE  ListInv'
  BY <1>0, <1>1, <1>2 DEF ListInv, ListTypeOK, FiledOnce, RowsAreRun, ReadsOnScreen, MoreOnScreen
<1>3. ASSUME NEW r \in reads, FirstPageLands(r)
      PROVE  ListInv'
  <2> DEFINE file == filed[r.sub]
  <2>1. /\ UNCHANGED <<filed, drafts, screen, more>> /\ reads' = reads \ {r}
        /\ r \in FirstType /\ r.sub \in Companies /\ reads' \in SUBSET FirstType
        /\ file \in Seq(RowIds)
    BY <1>0, <1>3 DEF FirstPageLands, FirstType
  <2>2. CASE ~Joins(r) /\ UNCHANGED list
    <3>1. \A q \in reads' : q.live => q.sub = screen'.sub /\ list'.loading
      BY <1>1, <2>1, <2>2 DEF ReadsOnScreen
    <3> QED
      BY <1>0, <1>1, <2>1, <2>2, <3>1 DEF ListInv, ListTypeOK, FiledOnce, RowsAreRun, ReadsOnScreen, MoreOnScreen
  <2>3. ASSUME Joins(r), list' \in ListType, ~list'.loading,
               \/ list'.rows = <<>> /\ list'.cursor = None
               \/ RunOf(file, list'.rows, list'.cursor)
        PROVE  ListInv'
    <3>1. r.live /\ r.sub = screen.sub /\ list.loading
      BY <1>1, <2>3 DEF Joins, ReadsOnScreen
    <3>2. \A q \in reads' : ~q.live
      <4> SUFFICES ASSUME NEW q \in reads', q.live PROVE FALSE
        OBVIOUS
      <4>1. q \in FirstType /\ q.sub = screen.sub /\ q # r
        BY <1>0, <1>1, <2>1 DEF ReadsOnScreen
      <4> QED
        BY <2>1, <3>1, <4>1 DEF FirstType
    <3>3. more # None => ~more.live
      BY <1>1, <3>1 DEF MoreOnScreen
    <3> QED
      BY <1>0, <1>1, <2>1, <2>3, <3>1, <3>2, <3>3
         DEF ListInv, ListTypeOK, FiledOnce, RowsAreRun, ReadsOnScreen, MoreOnScreen
  <2>4. CASE Joins(r) /\ list' = [rows |-> PageOf(file), drafts |-> drafts,
                                  cursor |-> CursorOf(file), loading |-> FALSE]
    <3>1. \/ PageOf(file) = <<>> /\ CursorOf(file) = None
          \/ RunOf(file, PageOf(file), CursorOf(file))
      BY <2>1, FirstPageIsRun
    <3>2. PageOf(file) \in Seq(RowIds)
      BY <2>1, <3>1, EmptySeq, RunTyped
    <3>3. CursorOf(file) \in RowIds \cup {None}
      BY <2>1, <3>1, RunTyped
    <3>4. list' \in ListType
      BY <1>0, <2>4, <3>2, <3>3 DEF ListType
    <3> QED
      BY <2>3, <2>4, <3>1, <3>4
  <2>5. CASE Joins(r) /\ list' = [rows |-> <<>>, drafts |-> {}, cursor |-> None, loading |-> FALSE]
    <3>1. list' \in ListType
      BY <2>5, EmptySeq DEF ListType
    <3> QED
      BY <2>3, <2>5, <3>1
  <2> QED
    BY <1>3, <2>2, <2>4, <2>5 DEF FirstPageLands
<1>4. CASE LoadMore
  <2>1. UNCHANGED <<filed, drafts, screen, list, reads>> /\ ~list.loading /\ list.cursor # None
    BY <1>4 DEF LoadMore
  <2>2. more' = [sub |-> screen.sub, after |-> list.cursor, live |-> TRUE]
    BY <1>4 DEF LoadMore
  <2>3. list.cursor \in RowIds \cup {None}
    BY <1>0 DEF ListType
  <2>4. more' \in MoreType /\ more'.sub = screen.sub /\ more'.after = list.cursor
    BY <1>0, <2>2, <2>3 DEF MoreType
  <2> QED
    BY <1>0, <1>1, <2>1, <2>4 DEF ListInv, ListTypeOK, FiledOnce, RowsAreRun, ReadsOnScreen, MoreOnScreen
<1>5. CASE MoreLands
  <2> DEFINE rest == After(more.sub, more.after)
  <2>1. more # None /\ more \in MoreType /\ more' = None /\ UNCHANGED <<filed, drafts, screen>>
    BY <1>0, <1>5 DEF MoreLands
  <2>2. CASE UNCHANGED <<list, reads>>
    BY <1>0, <1>1, <2>1, <2>2 DEF ListInv, ListTypeOK, FiledOnce, RowsAreRun, ReadsOnScreen, MoreOnScreen
  <2>3. CASE /\ more.live /\ UNCHANGED reads
             /\ list' = [list EXCEPT !.rows = AppendById(@, PageOf(rest)), !.cursor = CursorOf(rest),
                                     !.drafts = @ \cup (drafts \cap Range(PageOf(rest)))]
    <3> DEFINE file == filed[screen.sub]
    <3>1. /\ ~list.loading /\ more.sub = screen.sub /\ more.after = list.cursor /\ list.cursor # None
          /\ RunOf(file, list.rows, list.cursor)
      BY <1>1, <2>1, <2>3 DEF MoreOnScreen, RowsAreRun
    <3>2. file \in Seq(RowIds) /\ IsInjective(file)
      BY <1>0, <1>1 DEF FiledOnce
    <3>3. /\ RunOf(file, AppendById(list.rows, PageOf(rest)), CursorOf(rest))
          /\ Range(PageOf(rest)) \subseteq RowIds
      BY <1>0, <3>1, <3>2, NextPageJoins
    <3> DEFINE all == AppendById(list.rows, PageOf(rest))
               cursor == CursorOf(rest)
    <3>4. all \in Seq(RowIds) /\ cursor \in RowIds \cup {None}
      BY <3>2, <3>3, RunTyped
    <3> DEFINE new == list.drafts \cup (drafts \cap Range(PageOf(rest)))
    <3>5. list' = [list EXCEPT !.rows = all, !.cursor = cursor, !.drafts = new] /\ new \in SUBSET RowIds
      BY <1>0, <2>3 DEF ListType
    <3> HIDE DEF all, cursor, new
    <3>6. list' \in ListType /\ list'.rows = all /\ list'.cursor = cursor /\ list'.loading = list.loading
      BY <1>0, <3>4, <3>5 DEF ListType
    <3>7. RunOf(filed'[screen'.sub], list'.rows, list'.cursor)
      BY <2>1, <3>3, <3>6 DEF all, cursor
    <3>8. \A q \in reads' : q.live => q.sub = screen'.sub /\ list'.loading
      BY <1>1, <2>1, <2>3, <3>6 DEF ReadsOnScreen
    <3> QED
      BY <1>0, <1>1, <2>1, <2>3, <3>6, <3>7, <3>8
         DEF ListInv, ListTypeOK, FiledOnce, RowsAreRun, ReadsOnScreen, MoreOnScreen
  <2>4. CASE more.live /\ reads' = FirstReads(more.sub) /\ list' = [list EXCEPT !.loading = TRUE]
    <3>1. more.sub = screen.sub
      BY <1>1, <2>1, <2>4 DEF MoreOnScreen
    <3>2. list' \in ListType /\ list'.loading
      BY <1>0, <2>4 DEF ListType
    <3>3. reads' \in SUBSET FirstType /\ \A r \in reads' : r.live => r.sub = screen'.sub
      BY <1>0, <1>1, <2>1, <2>4, <3>1, SupersedesReads
    <3> QED
      BY <1>0, <1>1, <2>1, <3>2, <3>3, LoadingList DEF ListTypeOK, FiledOnce
  <2> QED
    BY <1>5, <2>1, <2>2, <2>3, <2>4 DEF MoreLands, Joins
<1>6. ASSUME NEW sub \in Companies, ReadsFirst(sub), screen'.sub = sub, screen' \in ScreenType,
             drafts' \in SUBSET RowIds, filed' \in [Companies -> Seq(RowIds)], FiledOnce'
      PROVE  ListInv'
  BY <1>0, <1>1, <1>6, ReadsFirstSupersedes, LoadingList DEF ListTypeOK
<1>7. CASE SendLands
  <2>1. UNCHANGED <<filed, screen>> /\ drafts' \in SUBSET RowIds /\ RefreshesList(sent.sub)
    BY <1>0, <1>7 DEF SendLands
  <2>2. CASE sent.sub = screen.sub
    <3>1. ReadsFirst(screen.sub) /\ FiledOnce'
      BY <1>1, <2>1, <2>2 DEF RefreshesList, FiledOnce
    <3> QED
      BY <1>0, <1>6, <2>1, <3>1
  <2>3. CASE sent.sub # screen.sub
    BY <1>2, <2>1, <2>3 DEF RefreshesList
  <2> QED
    BY <2>2, <2>3
<1>8. ASSUME NEW sub \in Companies, PickSub(sub)
      PROVE  ListInv'
  <2>1. UNCHANGED <<filed, drafts>> /\ screen' = [screen EXCEPT !.sub = sub, !.figure = None] /\ ReadsFirst(sub)
    BY <1>8 DEF PickSub
  <2>2. screen' \in ScreenType /\ screen'.sub = sub /\ FiledOnce'
    BY <1>0, <1>1, <2>1 DEF ScreenType, FiledOnce
  <2> QED
    BY <1>0, <1>6, <2>1, <2>2
<1>9. ASSUME NEW sub \in Companies, NEW here \in BOOLEAN, Saved(sub, here)
      PROVE  ListInv'
  <2>1. PICK id \in New : filed' = [filed EXCEPT ![sub] = <<id>> \o @] /\ drafts' = drafts \cup {id}
    BY <1>9 DEF Saved
  <2>2. id \in RowIds /\ \A s \in Companies : id \notin Range(filed[s])
    BY DEF New
  <2>3. filed[sub] \in Seq(RowIds) /\ IsInjective(filed[sub])
    BY <1>0, <1>1 DEF FiledOnce
  <2> DEFINE more1 == <<id>> \o filed[sub]
  <2>4. more1 \in Seq(RowIds) /\ IsInjective(more1)
    BY <2>2, <2>3, HeadFiledOnce
  <2>5. filed'[sub] = more1 /\ \A s \in Companies \ {sub} : filed'[s] = filed[s]
    BY <1>0, <2>1
  <2> HIDE DEF more1
  <2>6. filed' \in [Companies -> Seq(RowIds)]
    BY <1>0, <2>1, <2>4 DEF more1
  <2>7. FiledOnce' /\ drafts' \in SUBSET RowIds /\ UNCHANGED screen
    BY <1>0, <1>1, <1>9, <2>1, <2>2, <2>4, <2>5 DEF FiledOnce, Saved
  <2>8. CASE here /\ sub = screen.sub
    BY <1>0, <1>6, <1>9, <2>6, <2>7, <2>8 DEF Saved, RefreshesList
  <2>9. CASE ~(here /\ sub = screen.sub)
    <3>1. UNCHANGED <<reads, more, list>>
      BY <1>9, <2>9 DEF Saved, RefreshesList
    <3>2. ASSUME RunOf(filed[screen.sub], list.rows, list.cursor)
          PROVE  RunOf(filed'[screen.sub], list.rows, list.cursor)
      <4>1. CASE sub = screen.sub
        BY <2>2, <2>3, <2>5, <3>2, <4>1, RunStays DEF more1
      <4>2. CASE sub # screen.sub
        BY <1>0, <2>5, <3>2, <4>2
      <4> QED
        BY <4>1, <4>2
    <3>3. RowsAreRun'
      BY <1>1, <2>7, <3>1, <3>2 DEF RowsAreRun
    <3> QED
      BY <1>0, <1>1, <2>6, <2>7, <3>1, <3>3 DEF ListInv, ListTypeOK, ReadsOnScreen, MoreOnScreen
  <2> QED
    BY <2>8, <2>9
<1>10. ASSUME UNCHANGED <<filed, drafts, list, reads, more>>, screen' \in ScreenType, screen'.sub = screen.sub
       PROVE  ListInv'
  BY <1>0, <1>1, <1>10 DEF ListInv, ListTypeOK, FiledOnce, RowsAreRun, ReadsOnScreen, MoreOnScreen
<1>11. ASSUME NEW year \in Years, PickYear(year)
       PROVE  ListInv'
  <2>1. screen' = [screen EXCEPT !.year = year]
    BY <1>11 DEF PickYear
  <2>2. screen' \in ScreenType /\ screen'.sub = screen.sub
    BY <1>0, <2>1 DEF ScreenType
  <2> QED
    BY <1>10, <1>11, <2>2 DEF PickYear
<1>12. ASSUME NEW figure \in PanelFigures, PickFigure(figure)
       PROVE  ListInv'
  <2>1. screen' = [screen EXCEPT !.figure = figure]
    BY <1>12 DEF PickFigure
  <2>2. screen' \in ScreenType /\ screen'.sub = screen.sub
    BY <1>0, <2>1 DEF ScreenType
  <2> QED
    BY <1>10, <1>12, <2>2 DEF PickFigure
<1>13. ASSUME NEW p \in Mounted, PanelLands(p)
       PROVE  ListInv'
  BY <1>0, <1>2, <1>13 DEF PanelLands
<1>14. CASE TickAll \/ Send \/ (\E id \in RowIds : Tick(id) \/ Moved(id))
  BY <1>0, <1>2, <1>14 DEF TickAll, Tick, Ticks, Send, Moved
<1>15. CASE UNCHANGED panelVars
  BY <1>0, <1>2, <1>15 DEF panelVars
<1> QED
  BY <1>3, <1>4, <1>5, <1>7, <1>8, <1>9, <1>11, <1>12, <1>13, <1>14, <1>15 DEF PanelNext

LEMMA ListInvariant == ASSUME PanelAssumption PROVE PanelSpec => []ListInv
<1> QED
  BY ListInitially, ListSteps, PTL DEF PanelSpec

-----------------------------------------------------------------------------
(* The cards.  Whatever changes a key supersedes the reads of the old one, *)
(* and what was shown of it is cleared.                                    *)

AskType == [key : ScreenType, live : BOOLEAN]
Cards == Mounted \ {"invoices"}

CardsTypeOK ==
    /\ shows \in [Mounted -> ScreenType \cup {None}]
    /\ asks \in [Mounted -> SUBSET AskType]
Asked(p, scr) == \A r \in asks[p] : r.live => r.key = KeyOf(p, scr)
CardsOfScreen ==
    \A p \in Cards : Asked(p, screen) /\ (shows[p] # None => shows[p] = KeyOf(p, screen))

CardInv == CardsTypeOK /\ CardsOfScreen

LEMMA ReadsAnew ==
    ASSUME NEW p, NEW scr \in ScreenType, NEW rs \in SUBSET AskType
    PROVE  /\ KeyOf(p, scr) \in ScreenType
           /\ Superseded(rs) \cup NewRead(p, scr) \in SUBSET AskType
           /\ \A r \in Superseded(rs) \cup NewRead(p, scr) : r.live => r.key = KeyOf(p, scr)
<1>1. KeyOf(p, scr) \in ScreenType
  BY DEF KeyOf, ScreenType
<1> HIDE DEF KeyOf
<1>2. ASSUME NEW r \in NewRead(p, scr)
      PROVE  r \in AskType /\ r.key = KeyOf(p, scr)
  <2>1. r = [key |-> KeyOf(p, scr), live |-> TRUE]
    BY <1>2 DEF NewRead
  <2> QED
    BY <1>1, <2>1 DEF AskType
<1>3. ASSUME NEW r \in Superseded(rs)
      PROVE  r \in AskType /\ ~r.live
  <2>1. PICK q \in rs : r = [q EXCEPT !.live = FALSE]
    BY <1>3 DEF Superseded
  <2> QED
    BY <2>1 DEF AskType
<1> QED
  BY <1>1, <1>2, <1>3

LEMMA RereadClears ==
    ASSUME CardInv, NEW change, NEW scr \in ScreenType, Reread(change, scr),
           \A p \in Cards : change \notin DependsOn(p) => KeyOf(p, scr) = KeyOf(p, screen)
    PROVE  /\ CardsTypeOK'
           /\ \A p \in Cards :
                /\ \A r \in asks'[p] : r.live => r.key = KeyOf(p, scr)
                /\ shows'[p] # None => shows'[p] = KeyOf(p, scr)
<1>0. shows \in [Mounted -> ScreenType \cup {None}] /\ asks \in [Mounted -> SUBSET AskType]
  BY DEF CardInv, CardsTypeOK
<1>1. shows' = [p \in Mounted |-> IF change \in DependsOn(p) THEN None ELSE shows[p]]
  BY DEF Reread
<1>2. asks' = [p \in Mounted |->
          IF change \in DependsOn(p)
          THEN Superseded(asks[p]) \cup NewRead(p, scr)
          ELSE asks[p]]
  BY DEF Reread
<1>3. shows' \in [Mounted -> ScreenType \cup {None}]
  BY <1>0, <1>1
<1>4. ASSUME NEW p \in Mounted
      PROVE  /\ asks'[p] \in SUBSET AskType
             /\ p \in Cards => \A r \in asks'[p] : r.live => r.key = KeyOf(p, scr)
  <2>0. asks[p] \in SUBSET AskType
    BY <1>0
  <2>1. CASE change \in DependsOn(p)
    <3>1. asks'[p] = Superseded(asks[p]) \cup NewRead(p, scr)
      BY <1>2, <2>1
    <3> QED
      BY <2>0, <3>1, ReadsAnew
  <2>2. CASE change \notin DependsOn(p)
    <3>1. asks'[p] = asks[p]
      BY <1>2, <2>2
    <3> QED
      BY <2>0, <2>2, <3>1 DEF CardInv, CardsOfScreen, Asked
  <2> QED
    BY <2>1, <2>2
<1>5. ASSUME NEW p \in Cards, shows'[p] # None
      PROVE  shows'[p] = KeyOf(p, scr)
  <2>1. change \notin DependsOn(p) /\ shows'[p] = shows[p]
    BY <1>1, <1>5 DEF Cards
  <2> QED
    BY <1>5, <2>1 DEF CardInv, CardsOfScreen
<1>6. asks' \in [Mounted -> SUBSET AskType]
  BY <1>2, <1>4
<1> QED
  BY <1>3, <1>4, <1>5, <1>6 DEF CardsTypeOK, Cards

LEMMA CardsInitially == ASSUME PanelAssumption PROVE PanelInit => CardInv
<1> SUFFICES ASSUME PanelInit PROVE CardInv
  OBVIOUS
<1>1. screen \in ScreenType
  BY ListInitially DEF ListInv, ListTypeOK
<1>2. shows = [p \in Mounted |-> None] /\ asks = [p \in Mounted |-> NewRead(p, screen)]
  BY DEF PanelInit
<1>3. ASSUME NEW p \in Mounted
      PROVE  asks[p] \in SUBSET AskType /\ Asked(p, screen)
  <2>1. asks[p] = NewRead(p, screen)
    BY <1>2
  <2>2. \A r \in NewRead(p, screen) : r \in AskType /\ (r.live => r.key = KeyOf(p, screen))
    BY <1>1, ReadsAnew
  <2> QED
    BY <2>1, <2>2 DEF Asked
<1>4. asks \in [Mounted -> SUBSET AskType]
  BY <1>2, <1>3
<1> QED
  BY <1>2, <1>3, <1>4 DEF CardInv, CardsTypeOK, CardsOfScreen, Cards

LEMMA CardSteps == ASSUME PanelAssumption PROVE ListInv /\ ListInv' /\ CardInv /\ [PanelNext]_panelVars => CardInv'
<1> SUFFICES ASSUME ListInv, ListInv', CardInv, [PanelNext]_panelVars
             PROVE  CardInv'
  OBVIOUS
<1>0. /\ screen \in ScreenType /\ screen' \in ScreenType
      /\ shows \in [Mounted -> ScreenType \cup {None}] /\ asks \in [Mounted -> SUBSET AskType]
  BY DEF ListInv, ListTypeOK, CardInv, CardsTypeOK
<1>1. \A p \in Cards : Asked(p, screen) /\ (shows[p] # None => shows[p] = KeyOf(p, screen))
  BY DEF CardInv, CardsOfScreen
<1>2. ASSUME UNCHANGED <<screen, shows, asks>>
      PROVE  CardInv'
  BY <1>0, <1>1, <1>2 DEF CardInv, CardsTypeOK, CardsOfScreen, Asked
<1>3. ASSUME NEW change, Reread(change, screen'),
             \A p \in Cards : change \notin DependsOn(p) => KeyOf(p, screen') = KeyOf(p, screen)
      PROVE  CardInv'
  BY <1>0, <1>3, RereadClears DEF CardInv, CardsOfScreen, Asked
<1>4. \A p \in Cards : p = "boundary" \/ p = "preview"
  BY DEF PanelAssumption, Panels, Cards
<1>5. ASSUME NEW p \in Mounted, PanelLands(p)
      PROVE  CardInv'
  <2>1. PICK r \in asks[p] : /\ asks' = [asks EXCEPT ![p] = @ \ {r}]
                             /\ shows' = (IF Shown(r) THEN [shows EXCEPT ![p] = r.key] ELSE shows) \/ UNCHANGED shows
    BY <1>5 DEF PanelLands
  <2>2. UNCHANGED screen
    BY <1>5 DEF PanelLands
  <2>3. r \in AskType /\ r.key \in ScreenType
    BY <1>0 DEF AskType
  <2>4. asks' \in [Mounted -> SUBSET AskType] /\ \A q \in Mounted : asks'[q] \subseteq asks[q]
    BY <1>0, <2>1
  <2>5. shows' \in [Mounted -> ScreenType \cup {None}]
    BY <1>0, <2>1, <2>3
  <2>6. ASSUME NEW q \in Cards, shows'[q] # None
        PROVE  shows'[q] = KeyOf(q, screen)
    <3>1. CASE shows'[q] = shows[q]
      BY <1>1, <2>6, <3>1
    <3>2. CASE shows'[q] # shows[q]
      <4>1. q = p /\ r.live /\ shows'[q] = r.key
        BY <1>0, <2>1, <3>2 DEF Shown, Cards
      <4> QED
        BY <1>1, <4>1 DEF Asked
    <3> QED
      BY <3>1, <3>2
  <2>7. \A q \in Cards : Asked(q, screen)'
    BY <1>1, <2>2, <2>4 DEF Asked, Cards
  <2> QED
    BY <2>2, <2>4, <2>5, <2>6, <2>7 DEF CardInv, CardsTypeOK, CardsOfScreen
<1>6. ASSUME NEW r \in reads, FirstPageLands(r)
      PROVE  CardInv'
  <2>1. UNCHANGED screen
    BY <1>6 DEF FirstPageLands
  <2>2. CASE Reread("list", screen)
    BY <1>3, <2>1, <2>2
  <2> QED
    BY <1>2, <1>6, <2>1, <2>2 DEF FirstPageLands
<1>7. ASSUME NEW sub \in Companies, PickSub(sub)
      PROVE  CardInv'
  <2>1. \A p \in Cards : "sub" \in DependsOn(p)
    BY <1>4 DEF DependsOn
  <2> QED
    BY <1>3, <1>7, <2>1 DEF PickSub
<1>8. ASSUME NEW year \in Years, PickYear(year)
      PROVE  CardInv'
  <2>1. \A p \in Cards : "year" \in DependsOn(p)
    BY <1>4 DEF DependsOn
  <2> QED
    BY <1>3, <1>8, <2>1 DEF PickYear
<1>9. ASSUME NEW figure \in PanelFigures, PickFigure(figure)
      PROVE  CardInv'
  <2>1. screen' = [screen EXCEPT !.figure = figure]
    BY <1>9 DEF PickFigure
  <2>2. [screen' EXCEPT !.figure = None] = [screen EXCEPT !.figure = None]
    BY <1>0, <2>1 DEF ScreenType
  <2>3. \A p \in Cards : "figure" \notin DependsOn(p) => KeyOf(p, screen') = KeyOf(p, screen)
    BY <1>4, <2>2 DEF DependsOn, KeyOf
  <2> QED
    BY <1>3, <1>9, <2>3 DEF PickFigure
<1>10. CASE LoadMore \/ MoreLands \/ TickAll \/ Send \/ SendLands \/ UNCHANGED panelVars
            \/ (\E id \in RowIds : Tick(id) \/ Moved(id))
            \/ (\E s \in Companies, here \in BOOLEAN : Saved(s, here))
  BY <1>2, <1>10 DEF LoadMore, MoreLands, TickAll, Send, SendLands, panelVars, Tick, Ticks, Moved, Saved
<1> QED
  BY <1>5, <1>6, <1>7, <1>8, <1>9, <1>10 DEF PanelNext

LEMMA CardInvariant == ASSUME PanelAssumption PROVE PanelSpec => []CardInv
<1> QED
  BY CardsInitially, CardSteps, ListInvariant, PTL DEF PanelSpec

(* The rows on screen are the subsidiary's own without a gap, the cursor   *)
(* is the end of them, and no card says anything of another subsidiary,    *)
(* year or figure, in whatever order the answers arrive.                   *)
THEOREM ScreenIsOfItsSubsidiaryHolds == PanelAssumption /\ PanelSpec => []ScreenIsOfItsSubsidiary
<1> SUFFICES ASSUME PanelAssumption
             PROVE  PanelSpec => []ScreenIsOfItsSubsidiary
  OBVIOUS
<1>1. ListInv => PagesJoin
  <2> SUFFICES ASSUME ListInv, ~list.loading, list.rows # <<>>
               PROVE  /\ \E a, b \in DOMAIN filed[screen.sub] : list.rows = SubSeq(filed[screen.sub], a, b)
                      /\ list.cursor = IF Last(list.rows) = Last(filed[screen.sub]) THEN None ELSE Last(list.rows)
    BY DEF PagesJoin
  <2>1. screen.sub \in Companies
    BY DEF ListInv, ListTypeOK, ScreenType
  <2>2. filed[screen.sub] \in Seq(RowIds) /\ IsInjective(filed[screen.sub])
    BY <2>1 DEF ListInv, ListTypeOK, FiledOnce
  <2>3. RunOf(filed[screen.sub], list.rows, list.cursor)
    BY DEF ListInv, RowsAreRun
  <2> QED
    BY <2>2, <2>3, RunJoins
<1>2. CardInv => CardIsOfScreen
  BY DEF CardInv, CardsTypeOK, CardsOfScreen, Cards, CardIsOfScreen
<1> QED
  BY <1>1, <1>2, ListInvariant, CardInvariant, PTL DEF ScreenIsOfItsSubsidiary

-----------------------------------------------------------------------------
(* The selection.                                                          *)

TickedAreChosen == ticked \subseteq chosen

(* What is ticked was ticked by the user and has been on screen since, and *)
(* only that is sent.                                                      *)
THEOREM SendsOnlyTickedHolds == PanelSpec => [][SendsOnlyTicked]_panelVars
<1>1. PanelInit => TickedAreChosen
  BY DEF PanelInit, TickedAreChosen
<1>2. TickedAreChosen /\ [PanelNext]_panelVars => TickedAreChosen'
  <2> SUFFICES ASSUME TickedAreChosen, [PanelNext]_panelVars
               PROVE  TickedAreChosen'
    OBVIOUS
  <2>1. CASE TickAll \/ \E id \in RowIds : Tick(id)
    BY <2>1 DEF TickAll, Tick, Ticks, TickedAreChosen
  <2>2. CASE SendLands \/ \E s \in Companies : PickSub(s)
    BY <2>2 DEF SendLands, PickSub, Remount, TickedAreChosen
  <2>4. CASE \E r \in reads : FirstPageLands(r)
    BY <2>4 DEF FirstPageLands, OnScreen, TickedAreChosen
  <2>3. CASE UNCHANGED <<ticked, chosen>>
    BY <2>3 DEF TickedAreChosen
  <2> QED
    BY <2>1, <2>2, <2>3, <2>4 DEF PanelNext, panelVars, PanelLands, LoadMore, MoreLands, Send,
       Moved, Saved, PickYear, PickFigure
<1>3. TickedAreChosen /\ [PanelNext]_panelVars => [SendsOnlyTicked]_panelVars
  <2> SUFFICES ASSUME TickedAreChosen, PanelNext
               PROVE  SendsOnlyTicked
    OBVIOUS
  <2>1. CASE Send
    BY <2>1 DEF Send, LiveSelection, SendsOnlyTicked, TickedAreChosen
  <2>2. CASE UNCHANGED sent \/ sent' = None \/ sent # None
    BY <2>2 DEF SendsOnlyTicked
  <2> QED
    BY <2>1, <2>2 DEF PanelNext, SendLands, Moved, PanelLands, FirstPageLands, LoadMore, MoreLands, TickAll, Tick, Ticks,
       Saved, PickSub, PickYear, PickFigure
<1> QED
  BY <1>1, <1>2, <1>3, PTL DEF PanelSpec
=============================================================================
