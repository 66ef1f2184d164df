------------------------------ MODULE EntryPanels ------------------------------
(***************************************************************************)
(* What the Data Entry page shows beside its form: the subsidiary's        *)
(* records, page by page, with the drafts ticked for review, and the       *)
(* panels that each re-read when what they depend on changes.  Answers     *)
(* arrive in any order; one that was superseded is marked, not lost.       *)
(***************************************************************************)
EXTENDS NoValue, Naturals, Sequences, FiniteSets, SequencesExt

CONSTANTS
    Companies, Years, PanelFigures,
    Mounted,      \* the panels on the page
    RowIds,
    Filed0,       \* Filed0[s]: the records there first, newest first
    PageSize,
    Changes,      \* bound: what the user changes
    TickEarly,        \* bound: whether drafts are ticked while a list loads
    Failing,      \* bound: the reads, and the sending, that can fail
    MaxReads      \* bound: reads of one kind under way

Panels == {"invoices", "boundary", "preview"}

(* What the constants are.                                                 *)
PanelAssumption ==
    /\ PageSize \in Nat \ {0} /\ TickEarly \in BOOLEAN
    /\ Mounted \subseteq Panels
    /\ Changes \subseteq {"sub", "year", "figure", "write"}
    /\ Failing \subseteq Panels \cup {"list", "more", "send"}
    /\ Filed0 \in [Companies -> Seq(RowIds)]
    /\ \A s \in Companies : IsInjective(Filed0[s])

VARIABLES
    filed,      \* the API: each subsidiary's records, newest first
    drafts,     \* the API: the records that are drafts of the user's
    screen,     \* the subsidiary, year and figure of the form
    list,       \* the list: rows, the drafts among them, cursor, loading
    reads,      \* the list's first-page reads under way
    more,       \* the next page's read, or None
    shows,      \* shows[p]: what a panel's content is of, or None
    asks,       \* asks[p]: a panel's reads under way
    ticked,     \* the selection
    chosen,     \* history: what the user ticked that has stayed on screen since
    sent        \* the bulk submit under way, or None

panelVars == <<filed, drafts, screen, list, reads, more, shows, asks, ticked, chosen, sent>>

New == RowIds \ UNION {Range(filed[s]) : s \in Companies}

After(sub, id) ==
    LET at == CHOOSE n \in DOMAIN filed[sub] : filed[sub][n] = id
    IN  SubSeq(filed[sub], at + 1, Len(filed[sub]))
PageOf(rest) == SubSeq(rest, 1, IF Len(rest) < PageSize THEN Len(rest) ELSE PageSize)
CursorOf(rest) == IF Len(rest) > PageSize THEN Last(PageOf(rest)) ELSE None

Empty == [rows |-> <<>>, drafts |-> {}, cursor |-> None]

-----------------------------------------------------------------------------
(* The panels: each is read again when one of its dependencies changes.    *)

DependsOn(p) ==
    CASE p = "invoices" -> {"year", "list"}
      [] p = "boundary" -> {"year", "sub", "list"}
      [] p = "preview" -> {"sub", "year", "figure"}

KeyOf(p, scr) == IF p = "preview" THEN scr ELSE [scr EXCEPT !.figure = None]

(* No figure is previewed before there is one.                             *)
NewRead(p, scr) ==
    IF p = "preview" /\ scr.figure = None THEN {} ELSE {[key |-> KeyOf(p, scr), live |-> TRUE]}

(* The cleanup cancels the read under way, and a new one starts.           *)
Superseded(rs) == {[r EXCEPT !.live = FALSE] : r \in rs}

Reread(change, scr) ==
    /\ shows' = [p \in Mounted |-> IF change \in DependsOn(p) THEN None ELSE shows[p]]
    /\ asks' = [p \in Mounted |->
          IF change \in DependsOn(p)
          THEN Superseded(asks[p]) \cup NewRead(p, scr)
          ELSE asks[p]]
    /\ \A p \in Mounted : Cardinality(asks'[p]) <= MaxReads

Shown(r) == r.live

PanelLands(p) ==
    \E r \in asks[p] :
        /\ asks' = [asks EXCEPT ![p] = @ \ {r}]
        /\ \/ shows' = IF Shown(r) THEN [shows EXCEPT ![p] = r.key] ELSE shows
           \/ p \in Failing /\ UNCHANGED shows
        /\ UNCHANGED <<filed, drafts, screen, list, reads, more, ticked, chosen, sent>>

-----------------------------------------------------------------------------
(* The list.                                                               *)

FirstReads(sub) == Superseded(reads) \cup {[sub |-> sub, live |-> TRUE]}

(* A first-page read supersedes the reads and the next page under way.     *)
ReadsFirst(sub) ==
    /\ reads' = FirstReads(sub)
    /\ Cardinality(reads') <= MaxReads
    /\ more' = IF more = None THEN None ELSE [more EXCEPT !.live = FALSE]
    /\ list' = [list EXCEPT !.loading = TRUE]
(* A write's refresh is for the subsidiary it was made in.                 *)
RefreshesList(sub) ==
    IF sub = screen.sub THEN ReadsFirst(sub) ELSE UNCHANGED <<reads, more, list>>

PanelInit ==
    /\ filed = Filed0 /\ drafts \in SUBSET UNION {Range(Filed0[s]) : s \in Companies}
    /\ \E s \in Companies, y \in Years :
         /\ screen = [sub |-> s, year |-> y, figure |-> None]
         /\ reads = {[sub |-> s, live |-> TRUE]}
         /\ asks = [p \in Mounted |-> NewRead(p, screen)]
    /\ list = [rows |-> <<>>, drafts |-> {}, cursor |-> None, loading |-> TRUE]
    /\ more = None
    /\ shows = [p \in Mounted |-> None]
    /\ ticked = {} /\ chosen = {} /\ sent = None

(* Mutant: the next page is added to whatever list there is.               *)
JoinsAny(r) == TRUE
Joins(r) == r.live

(* A tick goes with its row, and does not come back with a later page.     *)
OnScreen(ids, l) == ids \cap l.drafts \cap Range(l.rows)

FirstPageLands(r) ==
    /\ reads' = reads \ {r}
    /\ \/ ~Joins(r) /\ UNCHANGED <<list, shows, asks>>
       \/ /\ Joins(r)
          /\ list' = [rows |-> PageOf(filed[r.sub]), drafts |-> drafts,
                      cursor |-> CursorOf(filed[r.sub]), loading |-> FALSE]
          /\ Reread("list", screen)
       \/ /\ Joins(r) /\ "list" \in Failing
          /\ list' = [rows |-> <<>>, drafts |-> {}, cursor |-> None, loading |-> FALSE]
          /\ UNCHANGED <<shows, asks>>
    /\ ticked' = OnScreen(ticked, list') /\ chosen' = OnScreen(chosen, list')
    /\ UNCHANGED <<filed, drafts, screen, more, sent>>

LoadMore ==
    /\ ~list.loading /\ list.cursor # None /\ more = None
    /\ more' = [sub |-> screen.sub, after |-> list.cursor, live |-> TRUE]
    /\ UNCHANGED <<filed, drafts, screen, list, reads, shows, asks, ticked, chosen, sent>>

(* The page's rows that are not there yet, in the page's order.            *)
AppendById(rows, page) ==
    LET new == {n \in DOMAIN page : page[n] \notin Range(rows)}
        Nth(k) == CHOOSE n \in new : Cardinality({m \in new : m <= n}) = k
    IN  rows \o [k \in 1 .. Cardinality(new) |-> page[Nth(k)]]

MoreLands ==
    /\ more # None
    /\ LET rest == After(more.sub, more.after)
       IN  \/ /\ more' = None
              /\ list' = IF Joins(more)
                         THEN [list EXCEPT !.rows = AppendById(@, PageOf(rest)), !.cursor = CursorOf(rest),
                                           !.drafts = @ \cup (drafts \cap Range(PageOf(rest)))]
                         ELSE list
              /\ UNCHANGED reads
           \/ "more" \in Failing /\ more' = None /\ UNCHANGED <<list, reads>>
           \* a cursor this deployment no longer accepts
           \/ /\ "more" \in Failing /\ more.live
              /\ reads' = FirstReads(more.sub)
              /\ more' = None
              /\ list' = [list EXCEPT !.loading = TRUE]
    /\ UNCHANGED <<filed, drafts, screen, shows, asks, ticked, chosen, sent>>

-----------------------------------------------------------------------------
(* The user.                                                               *)

Remount(sel) == {}

PickSub(sub) ==
    /\ "sub" \in Changes /\ sub # screen.sub
    /\ screen' = [screen EXCEPT !.sub = sub, !.figure = None]
    /\ ReadsFirst(sub) /\ Reread("sub", screen')
    /\ ticked' = Remount(ticked) /\ chosen' = {}
    /\ sent' = IF sent = None THEN None ELSE [sent EXCEPT !.mounted = FALSE]
    /\ UNCHANGED <<filed, drafts>>

PickYear(year) ==
    /\ "year" \in Changes /\ year # screen.year
    /\ screen' = [screen EXCEPT !.year = year]
    /\ Reread("year", screen')
    /\ UNCHANGED <<filed, drafts, list, reads, more, ticked, chosen, sent>>

PickFigure(figure) ==
    /\ "figure" \in Changes /\ figure # screen.figure
    /\ screen' = [screen EXCEPT !.figure = figure]
    /\ Reread("figure", screen')
    /\ UNCHANGED <<filed, drafts, list, reads, more, ticked, chosen, sent>>

(* A draft is saved, by this page or elsewhere, at the head of its list.   *)
Saved(sub, here) ==
    /\ "write" \in Changes
    /\ \E id \in New :
         /\ filed' = [filed EXCEPT ![sub] = <<id>> \o @]
         /\ drafts' = drafts \cup {id}
    /\ IF here THEN RefreshesList(sub) ELSE UNCHANGED <<reads, more, list>>
    /\ UNCHANGED <<screen, shows, asks, ticked, chosen, sent>>

(* A draft is sent for review, by another tab or by a bulk submit that is  *)
(* still unanswered.                                                       *)
Moved(id) ==
    /\ "write" \in Changes /\ id \in drafts
    /\ drafts' = drafts \ {id}
    /\ UNCHANGED <<filed, screen, list, reads, more, shows, asks, ticked, chosen, sent>>

Selectable == list.drafts \cap Range(list.rows)
LiveSelection(sel) == sel \cap Selectable

Ticks(ids) == ticked' = ids /\ chosen' = (chosen \ (ticked \ ids)) \cup ids /\
    UNCHANGED <<filed, drafts, screen, list, reads, more, shows, asks, sent>>

Tick(id) ==
    /\ ~list.loading /\ id \in Selectable
    /\ Ticks(IF id \in ticked THEN LiveSelection(ticked) \ {id} ELSE LiveSelection(ticked) \cup {id})
(* The box over the list stays while the list loads.                       *)
TickAll ==
    /\ (list.loading => TickEarly) /\ Selectable # {}
    /\ Ticks(Selectable) \/ Ticks({})

(* Bound: one bulk submit under way, a switch of the subsidiary or not.    *)
Send ==
    /\ sent = None
    /\ (list.loading => TickEarly) /\ LiveSelection(ticked) # {}
    /\ sent' = [sub |-> screen.sub, ids |-> LiveSelection(ticked), mounted |-> TRUE]
    /\ UNCHANGED <<filed, drafts, screen, list, reads, more, shows, asks, ticked, chosen>>

(* Some of them moved, whether or not the answer arrives: without it the   *)
(* selection stays.                                                        *)
SendLands ==
    /\ sent # None /\ sent' = None
    /\ \E moved \in SUBSET sent.ids : drafts' = drafts \ moved
    /\ \/ ticked' = IF sent.mounted THEN {} ELSE ticked
       \/ "send" \in Failing /\ UNCHANGED ticked
    /\ RefreshesList(sent.sub)
    /\ UNCHANGED <<filed, screen, shows, asks, chosen>>

-----------------------------------------------------------------------------
PanelNext ==
    \/ \E p \in Mounted : PanelLands(p)
    \/ \E r \in reads : FirstPageLands(r)
    \/ LoadMore \/ MoreLands \/ TickAll \/ Send \/ SendLands
    \/ \E s \in Companies : PickSub(s) \/ \E here \in BOOLEAN : Saved(s, here)
    \/ \E y \in Years : PickYear(y)
    \/ \E f \in PanelFigures : PickFigure(f)
    \/ \E id \in RowIds : Tick(id) \/ Moved(id)

PanelSpec == PanelInit /\ [][PanelNext]_panelVars
(* Every read is answered, or fails.                                       *)
FairPanels == PanelSpec /\ WF_panelVars(\E r \in reads : r.live /\ FirstPageLands(r))

-----------------------------------------------------------------------------
(* Properties.                                                             *)

(* The rows on screen are the subsidiary's own, without a gap, and the     *)
(* cursor is the end of them.                                              *)
PagesJoin ==
    ~list.loading /\ list.rows # <<>> =>
        /\ \E a, b \in DOMAIN filed[screen.sub] : list.rows = SubSeq(filed[screen.sub], a, b)
        /\ list.cursor = IF Last(list.rows) = Last(filed[screen.sub]) THEN None ELSE Last(list.rows)

(* A panel that was asked of another subsidiary or year says nothing.      *)
CardIsOfScreen ==
    \A p \in DOMAIN shows \ {"invoices"} : shows[p] # None => shows[p] = KeyOf(p, screen)

(* The rows on screen are the subsidiary's own, without a gap, and a panel *)
(* that was asked of another subsidiary or year says nothing.              *)
ScreenIsOfItsSubsidiary == PagesJoin /\ CardIsOfScreen

(* Only drafts that the user ticked, and that have been on screen as       *)
(* drafts ever since, are sent for review.                                 *)
SendsOnlyTicked == sent = None /\ sent' # None => sent'.ids \subseteq chosen

(* The invoice panel's read "also runs on a subsidiary switch".            *)
InvoicesAreOfScreen ==
    "invoices" \in Mounted /\ shows["invoices"] # None => shows["invoices"] = KeyOf("invoices", screen)

(* "an irreversible action offered against records the screen no longer    *)
(* claims to be showing"                                                   *)
SendsWhatIsShown == sent # None => sent.ids \subseteq Range(filed[sent.sub])
=============================================================================
