------------------------------- MODULE EntryForm -------------------------------
(***************************************************************************)
(* The Data Entry form (app/data-entry/page.tsx) in one browser tab: the   *)
(* record it targets, the saves and submits it sends, the deep link that   *)
(* opens a record, and the list beside it, against the API's records.      *)
(*                                                                         *)
(* A slot is a category, year and period; the figures of a form are told   *)
(* apart by the subsidiary they were typed, or read, for.  The form treats *)
(* drafts and rejected records alike: "open" stands for both.  Its user is *)
(* an author, who changes no colleague's record.                           *)
(***************************************************************************)
EXTENDS NoValue, Naturals, FiniteSets

CONSTANTS
    Subs,
    Sites,        \* Sites[s]: a subsidiary's locations
    FormSlots,
    Ids,          \* bound: the records there can be
    Me, Colleague,
    Link,         \* the slot the page's address names, or None
    Hasty,        \* bound: what the user does while a save is under way
    Trouble,      \* bound: what can go wrong
    Whole         \* no location: the whole company

(* What the constants are.                                                 *)
EntryAssumption ==
    /\ Me # Colleague /\ None \notin Subs \cup FormSlots \cup Ids
    /\ None \notin {"asked", "saved", "submitting"}
    /\ \A s \in Subs : Whole \notin Sites[s]
    /\ Link \in FormSlots \cup {None}
    /\ Hasty \subseteq {"switch", "new", "open", "pick", "type"}
    /\ Trouble \subseteq {"refused", "lost", "unlisted", "anomalous", "unknown"}

VARIABLES
    records,   \* the API's records
    form,      \* the form, the record it targets and that record's identity
    saving,    \* the save or submit under way
    rows,      \* the list: each record as it was read
    loading,   \* whether the list's newest read is under way
    link       \* the deep link's read

formVars == <<records, form, saving, rows, loading, link>>

NoRecord == [sub |-> None, loc |-> None, slot |-> None, by |-> None, status |-> None, figure |-> None]
Live(id) == records[id] # NoRecord
Free == {id \in Ids : ~Live(id)}
Entity(sub) == Sites[sub] \cup {Whole}

Idle == [kind |-> None, stage |-> None, id |-> None, sub |-> None, loc |-> None, slot |-> None, figure |-> None]
Busy == saving # Idle

-----------------------------------------------------------------------------
(* The form.                                                               *)

(* Mutant: the record stays targeted.                                      *)
BlankTargeting(f) == [f EXCEPT !.loc = Whole, !.figure = None]
Blank(f) == [f EXCEPT !.loc = Whole, !.figure = None, !.editing = None, !.opened = None]

MovedOff(opened, f) == opened # f.slot

(* The effect that follows every change: a form that no longer describes   *)
(* the record it opened stops targeting it.                                *)
Settled(f) ==
    IF f.editing # None /\ MovedOff(f.opened, f)
    THEN [f EXCEPT !.editing = None, !.opened = None]
    ELSE f

Targets(f, id, rec) == [f EXCEPT !.editing = id, !.opened = rec.slot]

MayEdit(rec) == rec.status = "open" /\ rec.by = Me
(* The page lets any open record through until it knows who its user is.   *)
MayOpen(rec) == MayEdit(rec) \/ ("unknown" \in Trouble /\ rec.status = "open")

Opened(id, rec) ==
    Targets([form EXCEPT !.sub = rec.sub, !.loc = rec.loc, !.slot = rec.slot, !.figure = rec.figure], id, rec)

ReadsList ==
    /\ loading' = TRUE
    /\ link' = IF link.state = "asked" THEN [link EXCEPT !.state = "dropped"] ELSE link
(* A write's own refresh, for the subsidiary it was made in.               *)
Refreshes(sub) ==
    IF sub = form'.sub THEN ReadsList ELSE UNCHANGED <<loading, link>>

FormInit ==
    /\ records \in {[id \in Ids |-> NoRecord]} \cup
         {[r \in Ids |-> IF r = id THEN [sub |-> s, loc |-> Whole, slot |-> k, by |-> b,
                                         status |-> "open", figure |-> s] ELSE NoRecord] :
            id \in Ids, s \in Subs, k \in FormSlots, b \in {Me, Colleague}}
    /\ \E s \in Subs, k \in FormSlots :
         form = [sub |-> s, loc |-> Whole, slot |-> IF Link = None THEN k ELSE Link, figure |-> None,
                 editing |-> None, opened |-> None]
    /\ saving = Idle /\ loading = TRUE
    /\ rows = [id \in Ids |-> NoRecord]
    /\ link = [state |-> IF Link = None THEN "done" ELSE "waiting", id |-> None, rec |-> NoRecord]

May(deed) == Busy => deed \in Hasty

Switch(sub) ==
    /\ May("switch") /\ sub # form.sub
    /\ form' = Blank([form EXCEPT !.sub = sub])
    /\ ReadsList
    /\ UNCHANGED <<records, saving, rows>>

StartNew ==
    /\ May("new")
    /\ form' = Blank(form)
    /\ UNCHANGED <<records, saving, rows, loading, link>>

PickSlot(slot) ==
    /\ May("pick")
    /\ form' = Settled([form EXCEPT !.slot = slot])
    /\ UNCHANGED <<records, saving, rows, loading, link>>

(* Of an open record, a change of location is a move of that record.       *)
PickSite(loc) ==
    /\ May("pick") /\ loc \in Entity(form.sub)
    /\ form' = [form EXCEPT !.loc = loc]
    /\ UNCHANGED <<records, saving, rows, loading, link>>

TypeFigure ==
    /\ May("type")
    /\ form' = [form EXCEPT !.figure = form.sub]
    /\ UNCHANGED <<records, saving, rows, loading, link>>

Open(id) ==
    /\ May("open") /\ ~loading /\ rows[id] # NoRecord /\ MayOpen(rows[id])
    /\ form' = Opened(id, rows[id])
    /\ UNCHANGED <<records, saving, rows, loading, link>>

-----------------------------------------------------------------------------
(* The list and the deep link.                                             *)

ListLands ==
    /\ loading /\ loading' = FALSE
    /\ \/ rows' = [id \in Ids |-> IF records[id].sub = form.sub THEN records[id] ELSE NoRecord]
       \/ "unlisted" \in Trouble /\ rows' = [id \in Ids |-> NoRecord]
    /\ UNCHANGED <<records, form, saving, link>>

Named(id) == Live(id) /\ records[id].sub = form.sub /\ records[id].slot = Link

(* Once the list is there, the link asks for what it named.                *)
LinkAsks ==
    /\ link.state = "waiting" /\ ~loading
    /\ link' = IF \E id \in Ids : Named(id) /\ \A other \in Ids : Named(other) => other = id
               THEN LET id == CHOOSE r \in Ids : Named(r)
                    IN  [state |-> "asked", id |-> id, rec |-> records[id]]
               ELSE [link EXCEPT !.state = "done"]
    /\ UNCHANGED <<records, form, saving, rows, loading>>

(* Mutant: the answer is used whatever the list did meanwhile.             *)
LinkHoldsAlways(state) == TRUE
LinkHolds(state) == state = "asked"

LinkLands ==
    /\ link.state \in {"asked", "dropped"}
    /\ link' = [link EXCEPT !.state = "done"]
    /\ \/ LinkHolds(link.state) /\ MayOpen(link.rec) /\ form' = Opened(link.id, link.rec)
       \/ ~(LinkHolds(link.state) /\ MayEdit(link.rec)) /\ UNCHANGED form
    /\ UNCHANGED <<records, saving, rows, loading>>

-----------------------------------------------------------------------------
(* Save and submit.                                                        *)

Press(kind) ==
    /\ ~Busy /\ form.figure # None
    /\ saving' = [kind |-> kind, stage |-> "asked", id |-> form.editing, sub |-> form.sub,
                  loc |-> form.loc, slot |-> form.slot, figure |-> form.figure]
    /\ UNCHANGED <<records, form, rows, loading, link>>

Taken(sub, loc, slot, but) ==
    \E id \in Ids \ {but} : Live(id) /\ records[id].sub = sub /\ records[id].loc = loc /\ records[id].slot = slot

Written(id) ==
    IF saving.id = None
    THEN [sub |-> saving.sub, loc |-> saving.loc, slot |-> saving.slot, by |-> Me,
          status |-> "open", figure |-> saving.figure]
    ELSE [records[id] EXCEPT !.loc = saving.loc, !.slot = saving.slot, !.figure = saving.figure]

(* What the API accepts: the caller's editable record, in a location of    *)
(* its subsidiary, in a slot nobody holds.                                 *)
Accepted(id) ==
    /\ IF saving.id = None THEN id \in Free ELSE id = saving.id /\ MayEdit(records[id])
    /\ Written(id).loc \in Entity(Written(id).sub)
    /\ ~Taken(Written(id).sub, saving.loc, saving.slot, id)

Ends == saving' = Idle

Serve ==
    /\ saving.stage = "asked"
    /\ \/ \E id \in Ids :
            /\ Accepted(id)
            /\ records' = [records EXCEPT ![id] = Written(id)]
            /\ \/ saving' = [saving EXCEPT !.stage = "saved", !.id = id]
               \/ "lost" \in Trouble /\ Ends
       \/ ("refused" \in Trouble \/ ~\E id \in Ids : Accepted(id)) /\ Ends /\ UNCHANGED records
    /\ UNCHANGED <<form, rows, loading, link>>

(* The answer makes its record the one the form targets.                   *)
SaveLands ==
    /\ saving.stage = "saved"
    /\ form' = Settled(Targets(form, saving.id, records[saving.id]))
    /\ \/ saving.kind = "draft" /\ Ends /\ Refreshes(saving.sub)
       \/ /\ saving.kind = "submit"
          /\ \/ saving' = [saving EXCEPT !.stage = "submitting"]
             \/ "anomalous" \in Trouble /\ Ends
          /\ UNCHANGED <<loading, link>>
    /\ UNCHANGED <<records, rows>>

Submitted(id) ==
    /\ records[id].status = "open"
    /\ records' = [records EXCEPT ![id].status = "submitted"]

SubmitLands ==
    /\ saving.stage = "submitting"
    /\ Ends
    /\ \/ Submitted(saving.id) /\ form' = Blank(form) /\ Refreshes(saving.sub)
       \/ "lost" \in Trouble /\ Submitted(saving.id) /\ UNCHANGED <<form, loading, link>>
       \/ /\ "refused" \in Trouble \/ records[saving.id].status # "open"
          /\ UNCHANGED <<records, form, loading, link>>
    /\ UNCHANGED rows

(* A reviewer rejects; a period closes over a draft.                       *)
Elsewhere(id) ==
    /\ Live(id)
    /\ \/ records[id].status = "submitted" /\ records' = [records EXCEPT ![id].status = "open"]
       \/ records[id].status = "open" /\ records' = [records EXCEPT ![id].status = "shut"]
    /\ UNCHANGED <<form, saving, rows, loading, link>>

-----------------------------------------------------------------------------
FormNext ==
    \/ \E sub \in Subs : Switch(sub)
    \/ \E slot \in FormSlots : PickSlot(slot)
    \/ \E loc \in Entity(form.sub) : PickSite(loc)
    \/ StartNew \/ TypeFigure \/ ListLands \/ LinkAsks \/ LinkLands
    \/ \E kind \in {"draft", "submit"} : Press(kind)
    \/ Serve \/ SaveLands \/ SubmitLands
    \/ \E id \in Ids : Open(id) \/ Elsewhere(id)

FormSpec == FormInit /\ [][FormNext]_formVars

-----------------------------------------------------------------------------
(* Properties.                                                             *)

(* A record holds only figures that were entered for its subsidiary.       *)
FiguresOfTheirSubsidiary ==
    \A id \in Ids : records[id].figure = records[id].sub

(* A save never files an existing record under another category or period: *)
(* picking one starts a new record.                                        *)
KeepsSlots ==
    \A id \in Ids : Live(id) => records'[id].slot = records[id].slot

(* A link's answer never takes the user off the subsidiary on screen.      *)
LinkLeavesSubsidiary ==
    link'.state = "done" => form'.sub = form.sub \/ link.state = "done"

(* "that select calls resetForm(), so it never reaches this comparison":   *)
(* the record a form targets is of the subsidiary it shows.                *)
SubsidiaryNeverCompared ==
    form.editing # None => records[form.editing].sub = form.sub

(* "Every write path already funnels through here": a save that has        *)
(* written the subsidiary on screen ends with its list read again.         *)
WritesAreRead ==
    saving.stage \in {"saved", "submitting"} /\ saving' = Idle /\ form'.sub = saving.sub => loading'
=============================================================================
