---------------------------- MODULE CompanyStructure ----------------------------
(***************************************************************************)
(* A subsidiary, its sites, and what hangs off them (subsidiaries.service  *)
(* and locations.service): how administrators create, measure and remove   *)
(* them, each in several steps, while records, settings and the inventory  *)
(* boundary change beside them.                                            *)
(*                                                                         *)
(* Settings are the period locks, targets and denominators: rows the       *)
(* database deletes with their subsidiary.  Records, and whatever a        *)
(* boundary version names, refuse the delete.                              *)
(***************************************************************************)
EXTENDS FiniteSets

CONSTANTS
    Sites, Settings, Records,
    Administrators,
    Company,
    Whole,   \* the site of a record that has none: the company as a whole
    NoOne

(* What the constants are: rows of four tables.                            *)
ASSUME CompanyAssumption ==
    /\ Company \notin Sites \cup Settings \cup Records
    /\ Sites \cap Settings = {} /\ Records \cap (Sites \cup Settings) = {}
    /\ Whole \notin Sites \cup Settings
    /\ NoOne \notin Sites \cup Settings \cup Administrators \cup {Company}

VARIABLES
    present,    \* the company, its sites and its settings, as rows
    tracking,   \* trackingGranularity
    records,    \* each record's status and site
    version,    \* the year's boundary version: "none", "open" or "frozen"
    named,      \* what the version names
    gone,       \* history: every row that was deleted
    audited,    \* history: the rows whose deletion has an audit row
    ops,        \* each administrator's request
    locker      \* who holds the company's row FOR UPDATE, or NoOne

structureVars == <<present, tracking, records, version, named, gone, audited, ops, locker>>

NoRecord == [status |-> "none", site |-> NoOne]
Filed(status) == {r \in Records : records[r].status = status}
Live == {r \in Records : records[r].status \notin {"none", "gone"}}
AtSite(site) == {r \in Live : records[r].site = site}
Standing == Company \in present
Fresh(things) == things \ (present \cup gone)

RequestAt(kind, stage, site, counts, answer) ==
    [kind |-> kind, stage |-> stage, site |-> site, counts |-> counts, answer |-> answer]
Ends(a, answer) == ops' = [ops EXCEPT ![a] = RequestAt(@.kind, "idle", NoOne, {}, answer)]
IsAt(a, kind, stage) == ops[a].kind = kind /\ ops[a].stage = stage
Goes(a, stage) == ops' = [ops EXCEPT ![a] = RequestAt(@.kind, stage, @.site, @.counts, @.answer)]

-----------------------------------------------------------------------------
(* What refuses a delete.                                                  *)

SiteHeld(site) == AtSite(site) # {} \/ site \in named
(* The database's keys and guards, whatever was counted before.            *)
CompanyHeld == Live # {} \/ Company \in named

(* The tiers, each with what is counted after it.                          *)
After == [terminal |-> "review", review |-> "open", open |-> "settings",
          settings |-> "frozen", frozen |-> "declared", declared |-> "counted"]
Tiers == DOMAIN After

(* Mutant: a record awaiting review counts as one that never goes.         *)
CountedLumped(tier) ==
    CASE tier = "terminal" -> Filed("review") \cup Filed("committed")
      [] tier = "review" -> {}
      [] tier = "open" -> Filed("open")
      [] tier = "settings" -> present \cap Settings
      [] tier = "frozen" -> IF version = "frozen" THEN named \cap {Company} ELSE {}
      [] tier = "declared" -> IF version = "open" THEN named \cap {Company} ELSE {}
Counted(tier) ==
    CASE tier = "terminal" -> Filed("committed")
      [] tier = "review" -> Filed("review")
      [] tier = "open" -> Filed("open")
      [] tier = "settings" -> present \cap Settings
      [] tier = "frozen" -> IF version = "frozen" THEN named \cap {Company} ELSE {}
      [] tier = "declared" -> IF version = "open" THEN named \cap {Company} ELSE {}

(* The refusal, from the tiers that counted something: what can never go   *)
(* is all it names.                                                        *)
Refusal(counts) ==
    IF counts \cap {"terminal", "frozen"} # {} THEN "stays"
    ELSE IF counts # {} THEN "empty it first" ELSE "none"

CompanyInit ==
    /\ present \in {{}, {Company}} /\ tracking = "company"
    /\ records = [r \in Records |-> NoRecord]
    /\ version = "none" /\ named = {}
    /\ gone = {} /\ audited = {}
    /\ ops = [a \in Administrators |-> RequestAt("none", "idle", NoOne, {}, "none")]
    /\ locker = NoOne

-----------------------------------------------------------------------------
(* The administrators.                                                     *)

(* A company and its sites are created together.                           *)
CreateCompany(sites, by) ==
    /\ Company \in Fresh({Company}) /\ sites \subseteq Fresh(Sites)
    /\ by = "location" => sites # {}
    /\ present' = {Company} \cup sites
    /\ tracking' = by
    /\ UNCHANGED <<records, version, named, gone, audited, ops, locker>>

(* Every insert under the company waits for whoever holds its row, and     *)
(* then fails if the row is gone.                                          *)
(* Mutant: it does not.                                                    *)
MayInsertAny == Standing
MayInsert == Standing /\ locker = NoOne

CreateSite(site) ==
    /\ MayInsert /\ site \in Fresh(Sites)
    /\ present' = present \cup {site}
    /\ UNCHANGED <<tracking, records, version, named, gone, audited, ops, locker>>

Starts(a, kind, site) ==
    /\ ops[a].stage = "idle"
    /\ IF kind = "site" THEN site \in present \cap Sites ELSE Standing /\ site = NoOne
    /\ ops' = [ops EXCEPT ![a] = RequestAt(kind, "loaded", site, {}, "none")]
    /\ UNCHANGED <<present, tracking, records, version, named, gone, audited, locker>>

(* How completeness is measured: by location only where there is one.      *)
ChecksTracking(a) ==
    /\ IsAt(a, "tracking", "loaded")
    /\ IF present \cap Sites = {} THEN Ends(a, "refused") ELSE Goes(a, "checked")
    /\ UNCHANGED <<present, tracking, records, version, named, gone, audited, locker>>

SetsTracking(a) ==
    /\ IsAt(a, "tracking", "checked") /\ locker = NoOne
    /\ IF Standing THEN tracking' = "location" /\ Ends(a, "updated")
                   ELSE Ends(a, "error") /\ UNCHANGED tracking
    /\ UNCHANGED <<present, records, version, named, gone, audited, locker>>

-----------------------------------------------------------------------------
(* DELETE /subsidiaries/:id, one transaction.                              *)

LocksCompany(a) ==
    /\ IsAt(a, "company", "loaded") /\ locker = NoOne
    /\ locker' = IF Standing THEN a ELSE NoOne
    /\ Goes(a, "terminal")
    /\ UNCHANGED <<present, tracking, records, version, named, gone, audited>>

(* One statement per tier, each reading what is committed when it runs.    *)
Counts(a, tier) ==
    /\ IsAt(a, "company", tier)
    /\ LET found == IF Counted(tier) = {} THEN {} ELSE {tier}
       IN  ops' = [ops EXCEPT ![a] = RequestAt("company", After[tier], @.site, @.counts \cup found, @.answer)]
    /\ UNCHANGED <<present, tracking, records, version, named, gone, audited, locker>>

Unlocks(a) == locker' = IF locker = a THEN NoOne ELSE locker

DeletesCompany(a) ==
    /\ IsAt(a, "company", "counted")
    /\ Unlocks(a)
    /\ \/ /\ Refusal(ops[a].counts) # "none"
          /\ Ends(a, Refusal(ops[a].counts))
          /\ UNCHANGED <<present, named, gone, audited>>
       \/ /\ Refusal(ops[a].counts) = "none" /\ (CompanyHeld \/ ~Standing)
          /\ Ends(a, "error")
          /\ UNCHANGED <<present, named, gone, audited>>
       \/ /\ Refusal(ops[a].counts) = "none" /\ ~CompanyHeld /\ Standing
          /\ present' = {}
          /\ gone' = gone \cup present
          /\ audited' = audited \cup {Company} \cup (present \cap Sites)
          /\ Ends(a, "deleted")
          /\ UNCHANGED named
    /\ UNCHANGED <<tracking, records, version>>

-----------------------------------------------------------------------------
(* DELETE /locations/:id.                                                  *)

ChecksRecords(a) ==
    /\ IsAt(a, "site", "loaded")
    /\ IF AtSite(ops[a].site) # {} THEN Ends(a, "has records") ELSE Goes(a, "checked")
    /\ UNCHANGED <<present, tracking, records, version, named, gone, audited, locker>>

ChecksDeclared(a) ==
    /\ IsAt(a, "site", "checked")
    /\ IF ops[a].site \in named THEN Ends(a, "declared") ELSE Goes(a, "free")
    /\ UNCHANGED <<present, tracking, records, version, named, gone, audited, locker>>

(* Without that answer the request fails as an unknown error.              *)
DeletesSite(a) ==
    /\ IsAt(a, "site", "free")
    /\ LET site == ops[a].site
       IN  \/ /\ site \notin present
              /\ Ends(a, "error") /\ UNCHANGED <<present, gone, audited>>
           \/ /\ site \in present /\ ~SiteHeld(site)
              /\ present' = present \ {site} /\ gone' = gone \cup {site}
              /\ audited' = audited \cup {site}
              /\ Ends(a, "deleted")
           \/ /\ site \in present /\ AtSite(site) # {} /\ SiteHeld(site)
              /\ Goes(a, "recount") /\ UNCHANGED <<present, gone, audited>>
           \/ /\ site \in present /\ site \in named
              /\ Ends(a, "declared") /\ UNCHANGED <<present, gone, audited>>
    /\ UNCHANGED <<tracking, records, version, named, locker>>

Recounts(a) ==
    /\ IsAt(a, "site", "recount")
    /\ Ends(a, IF AtSite(ops[a].site) # {} THEN "has records" ELSE "error")
    /\ UNCHANGED <<present, tracking, records, version, named, gone, audited, locker>>

-----------------------------------------------------------------------------
(* Everyone else.                                                          *)

AddSetting(x) ==
    /\ MayInsert /\ x \in Fresh(Settings)
    /\ present' = present \cup {x}
    /\ UNCHANGED <<tracking, records, version, named, gone, audited, ops, locker>>

RemoveSetting(x) ==
    /\ x \in present \cap Settings
    /\ present' = present \ {x} /\ gone' = gone \cup {x} /\ audited' = audited \cup {x}
    /\ UNCHANGED <<tracking, records, version, named, ops, locker>>

Places == {Whole} \cup (present \cap Sites)

File(r, site) ==
    /\ MayInsert /\ records[r] = NoRecord /\ site \in Places
    /\ records' = [records EXCEPT ![r] = [status |-> "open", site |-> site]]
    /\ UNCHANGED <<present, tracking, version, named, gone, audited, ops, locker>>

Review(r) ==
    /\ \E step \in {<<"open", "review">>, <<"review", "open">>, <<"review", "committed">>} :
         /\ records[r].status = step[1]
         /\ records' = [records EXCEPT ![r].status = step[2]]
    /\ UNCHANGED <<present, tracking, version, named, gone, audited, ops, locker>>

MoveRecord(r, site) ==
    /\ records[r].status = "open" /\ site \in Places
    /\ records' = [records EXCEPT ![r].site = site]
    /\ UNCHANGED <<present, tracking, version, named, gone, audited, ops, locker>>

RemoveRecord(r) ==
    /\ records[r].status = "open"
    /\ records' = [records EXCEPT ![r] = [status |-> "gone", site |-> NoOne]]
    /\ gone' = gone \cup {r} /\ audited' = audited \cup {r}
    /\ UNCHANGED <<present, tracking, version, named, ops, locker>>

(* An open version names the company, and then its sites; a frozen one     *)
(* keeps what it names.                                                    *)
Declare(x) ==
    /\ version \in {"none", "open"}
    /\ x = Company => MayInsert
    /\ x \in Sites => Company \in named /\ x \in present
    /\ version' = "open" /\ named' = named \cup {x}
    /\ UNCHANGED <<present, tracking, records, gone, audited, ops, locker>>

Undeclare(x) ==
    /\ version = "open" /\ x \in named
    /\ named' = IF x = Company THEN {} ELSE named \ {x}
    /\ UNCHANGED <<present, tracking, records, version, gone, audited, ops, locker>>

Freeze ==
    /\ version = "open" /\ version' = "frozen"
    /\ UNCHANGED <<present, tracking, records, named, gone, audited, ops, locker>>

-----------------------------------------------------------------------------
Step(a) ==
    \/ ChecksTracking(a) \/ SetsTracking(a)
    \/ LocksCompany(a) \/ DeletesCompany(a)
    \/ \E tier \in Tiers : Counts(a, tier)
    \/ ChecksRecords(a) \/ ChecksDeclared(a) \/ DeletesSite(a) \/ Recounts(a)

CompanyNext ==
    \/ \E sites \in SUBSET Sites, by \in {"company", "location"} : CreateCompany(sites, by)
    \/ \E s \in Sites : CreateSite(s)
    \/ \E a \in Administrators :
         \/ Step(a) \/ Starts(a, "tracking", NoOne) \/ Starts(a, "company", NoOne)
         \/ \E s \in Sites : Starts(a, "site", s)
    \/ \E x \in Settings : AddSetting(x) \/ RemoveSetting(x)
    \/ \E r \in Records :
         \/ Review(r) \/ RemoveRecord(r)
         \/ \E s \in Places : File(r, s) \/ MoveRecord(r, s)
    \/ \E x \in Sites \cup {Company} : Declare(x) \/ Undeclare(x)
    \/ Freeze

CompanySpec == CompanyInit /\ [][CompanyNext]_structureVars
(* A request goes on; the database answers it, and queues those who wait   *)
(* for the company's row.                                                  *)
CompanyFairSpec ==
    /\ CompanySpec
    /\ \A a \in Administrators : WF_structureVars(Step(a)) /\ SF_structureVars(LocksCompany(a)) /\ SF_structureVars(SetsTracking(a))

-----------------------------------------------------------------------------
(* Properties.                                                             *)

Replies == {"none", "refused", "updated", "error", "stays", "empty it first", "deleted",
            "has records", "declared"}
CompanyRequests ==
    [kind : {"none", "tracking", "company", "site"},
     stage : Tiers \cup {"idle", "loaded", "checked", "free", "recount", "counted"},
     site : Sites \cup {NoOne}, counts : SUBSET Tiers, answer : Replies]

CompanyTypeOK ==
    /\ present \subseteq Sites \cup Settings \cup {Company}
    /\ tracking \in {"company", "location"}
    /\ records \in [Records -> [status : {"none", "open", "review", "committed", "gone"},
                                site : Sites \cup {Whole, NoOne}]]
    /\ version \in {"none", "open", "frozen"} /\ named \subseteq Sites \cup {Company}
    /\ gone \subseteq Sites \cup Settings \cup Records \cup {Company} /\ audited \subseteq gone
    /\ ops \in [Administrators -> CompanyRequests]
    /\ locker \in Administrators \cup {NoOne}
    /\ locker # NoOne => IsAt(locker, "company", ops[locker].stage) /\ ops[locker].stage # "idle"

(* Nothing the company held is deleted behind one "delete subsidiary" row: *)
(* whatever is gone has an audit row of its own.                           *)
NothingUnaudited == gone \subseteq audited

(* A record's site, and what a version names, is there as long as they are.*)
NothingDangles ==
    /\ \A r \in Live : Standing /\ records[r].site \in present \cup {Whole}
    /\ named \subseteq present

(* An administrator told that the company stays is told so of something    *)
(* that can indeed never be removed.                                       *)
StaysForGood ==
    \A a \in Administrators : ops[a].answer = "stays" =>
        Filed("committed") # {} \/ (version = "frozen" /\ Company \in named)

(* Every request is answered: nobody waits for the company's row for good. *)
RequestsEnd == \A a \in Administrators : ops[a].stage # "idle" ~> ops[a].stage = "idle"

(* "a subsidiary measured by location has locations to measure"            *)
MeasuredByLocation == Standing /\ tracking = "location" => present \cap Sites # {}

(* "The same 409 as the check, with the count as it is now."               *)
SiteAnswered ==
    \A a \in Administrators : ops[a].kind = "site" /\ ops[a].answer = "error" => ~(Sites \subseteq present)
=============================================================================
