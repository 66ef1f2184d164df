# TonyAI emissions inventory: TLA+ models, checks and proofs

The repository is a carbon-accounting product: a NestJS API over PostgreSQL
(Prisma) and Supabase Storage and Auth, a Next.js front end and shared packages.
What it must get right is the *inventory*: activity records with computed
figures, reviewed by people, sealed by period locks, backed by evidence files,
priced from a published factor library, declared in a boundary, and issued as
reports; and the people and processes around it. This directory models that
core, checks it with TLC and proves its most important properties with TLAPS.

Paths below are under `src/apps/api/src/` unless they start with `src/`.
Sections: 1 the system, 2 the modules, 3 the runs, 4 the findings, 5 the proofs,
6 what is abstracted or left out, 7 what is next.

## 1. The system

| Component | State it keeps | Operations | What is hard |
|---|---|---|---|
| Activity records (`activity-records/`) | status, period, inputs, figure, creator, reviewer | create, update, remove, submit, startReview, approve, reject, void | The request reads before its transaction, then locks and re-reads: stale reads, concurrent transitions and moves between periods |
| Period locks (`period-locks/`) | `period_locks`; approved records flip to locked and back | lock, unlock | A record entering, leaving or changing as its period closes |
| Evidence (`evidence/`) | `evidence`, `activity_record_evidence` | upload, detach, remove; a file without a link goes with its last record | Files shared by records; the last two links dropped at once |
| Audit (`audit/`) | `audit_log` | a row in the transaction of each operation | The row must describe the change that committed |
| Storage intents (`storage/`) | `storage_intents`, objects in Storage | begin, adopt, abandon; claim, remove, close; reclaim | Two systems without a common transaction: crashes, lost answers, late bytes, expired leases |
| Factor releases (`factor-releases/`), calculation (`calculations/`) | releases with factors and conversions | load, erratum, withdraw; price a record | Overlapping runs of the loader; a lookup in two snapshots |
| Inventory boundary (`inventory-boundary/`), datasets (`report-datasets/`) | versions of a year, declarations, frozen names, retained datasets | create, put, delete, confirm, capture | Editing while freezing, copies of an open version, deletes of what is declared |
| Report issuances (`report-issuances/`) | issuance row, stored PDF | gate, render, upload, adopt, insert | Slow renders, one issuance per edition, lost answers |
| Access administration (`auth/access-admin.service.ts`) | roles, grants, enabled state | role, grants, invite, disable, enable; provision, offboard | Two administrators at once; an organisation always governed |
| Subsidiaries and sites (`subsidiaries/`, `locations/`) | rows that others hang off | create, tracking granularity, delete | A delete's counts go stale; cascades nobody audits |
| Users and auth sync (`users/`) | profile, flag and generation; the Auth user outside | disable, enable, sync, deliver, accept, reconcile | External calls lost, late or out of order |
| Password reset (`users/password-reset.service.ts`) | in-memory queue, durable cooldown | request, drain | Bounded queue, worker count, shutdown |
| Runtime limits (`common/`) | permits, leases, shutdown | acquire, release, settle | Leaked permits, disconnection at any await |
| Bulk import and submit (`bulk-upload/`), anomaly repair | batches, their report and audit rows | import, dry run, submit, repair | Partial failure, one outcome per row, stale baselines |
| Coverage and completeness (`report-datasets/`, `emissions/`) | none: rules over one snapshot | disclose, gate, matrix and drill-down | Two surfaces of one rule; green that was not earned |
| Data Entry page (`src/apps/web`) | form, list, selection, panels | save, submit, open, switch, page, tick | Answers that arrive after the user has moved on |
| Token verifier, guards, mail, observability | caches | per-request checks, output | I/O; not modelled |
| Schema, policies, triggers (`src/packages/db`) | constraints | | Where a guard rests on one it is in that guard; row-level security is not modelled |
| Infrastructure, scripts, end-to-end tests | | | Not modelled |

**How they interact.** Every lifecycle request follows the protocol of
`activity-records/lifecycle-lock.ts`: read and check outside any transaction;
then, in one transaction, advisory locks of the periods (shared, or exclusive
for lock and unlock), `FOR UPDATE` locks of the record rows and of the evidence
rows, each class in ascending order; re-read, re-check; write with the audit
row; commit. Uploads and issuances first commit a storage intent and send the
bytes; the owning transaction adopts the intent, and deleting an owning row
writes a delete intent in the same transaction. A report freezes the boundary
version in one transaction and snapshots in another; its issuance is gated by
the coverage rules and rests on the storage protocol. Member administration
serialises on one advisory lock per organisation; deletes of subsidiaries do
not take it. The requests and the reset workers of one process share
`RuntimeLimits`, and a shutdown waits for the permits of both.

## 2. Modules

| Module | What it is |
|---|---|
| `InventoryLedger` | Abstract: every successful lifecycle request is one atomic step, taken when its gates (`May...`) hold, with all its effects (`Do...`) |
| `RecordLifecycle` | The protocol: `Begin...`, `TakePeriod`, `TakeRow`, `TakeFile`, `Gate`, `Sweep`, `Write...`, `Rollback`, `Refuse`. Refines `InventoryLedger` |
| `StorageIntents` | Intents, bytes and owning rows; request, sweeper, operator; crashes, timeouts, leases |
| `ReportIssuance` | Issuing a dataset, EXTENDS `StorageIntents`; refines it (`UsesStorage`) |
| `TenantDirectory`, `TenantAccess` | Abstract: administrators change at one instant, by somebody entitled at that instant. Detailed: the admitted, waiting and locked requests |
| `CompanyStructure` | A subsidiary, its sites, settings, records and boundary rows; its delete in steps |
| `AccountMark`, `AccountSync` | Abstract: Auth may disagree only while the account is marked. Detailed: sync, delivery, re-send, reconcile, accept |
| `RuntimeLimits`, `RequestAdmission`, `PasswordReset`, `ApiProcess` | The flags of a shutdown; the permits and leases of requests; the reset queue; and the process that composes them |
| `BoundaryHistory`, `InventoryBoundary` | Abstract: a numbered history of frozen versions. Detailed: the header locks, the freeze and the retained datasets |
| `FactorLibrary` | The loader's runs and a calculation's two reads |
| `InventoryCoverage` | Gaps, obligations, attachment, disclosure and the gate of a final report, as operators of one snapshot |
| `Completeness` | The completeness matrix, its drill-down and the double-count warning |
| `AnomalyBaseline`, `BatchSubmit` | The anomaly rule; the bulk submit and the repair of stale verdicts |
| `BulkImport` | Grouping, row checks, dry run, apply, the batch row and its report |
| `EntryForm`, `EntryPanels` | The page's form, saves and deep link; its paged list, selection and panels |
| `NoValue` | `None` (`null`, `undefined`), which the modules that one MC module brings together share |
| `MC...` | Instances for TLC: constants, scenes, symmetry, and the compositions `MCAdministration`, `MCReporting`, `MCInventoryCoverage`, `MCDataEntry`, `MCProcess`, `MCProgress`. They EXTEND the components they compose, so the invariants a run checks are the components' own definitions, those that the theorems are of |
| `...Theorems` | Proofs (section 5): `LifecycleTheorems`, `IssuanceTheorems`, `TenantTheorems`, `ProcessTheorems`, `BoundaryTheorems`, `CoverageTheorems`, `EntryTheorems`, `BulkTheorems` |

In every module that has concurrent requests, an action is what runs between
two points at which another actor can step in: a SQL statement or a commit at
READ COMMITTED, an awaited call, a Node callback. A transaction's own writes
appear when it commits. A request may fail wherever the code can.

### State and code

**`InventoryLedger`, `RecordLifecycle`.** `record` is `activity_records` (a
figure is the triple of the inputs and the release it was computed from: the
engine is an uninterpreted function of these); `closed` the `period_locks`
rows; `links`, `files` the evidence tables; `library` the newest release;
`audit` the newest audit row. `submittedBy` is a history variable: the table
keeps `submittedAt` only and no gate reads it. `value` and `site` stand for the
inputs: `value` does not name the record's slot in the uniqueness index, `site`
does. Per request, `stage`, `req` (what the first read saw; `stale` is what
`changedSince` would find) and `held` (locks). The gates are evaluated in
`Gate` under the locks and the write is a later step, so that "what was checked
still holds" is a property (`GatesHold`), not an assumption.

**`StorageIntents`.** `stage[o]` is the request that uploads object `o`
("open": its transaction with the adopted intent's row locked; "expired",
"unopened" and "failed": it failed because the intent was gone, before it could
adopt, or afterwards); `intent[o]` the unique `storage_intents` row; `minted[o]`
numbers successive intents (their ids); `claim[w]` a claimed intent and how far
`execute` is. `runNow` and `sweep` are the same claim and execution; a batch is
an interleaving of its objects. A close or release whose statement fails, and a
process death, are both `WorkerCrash`. `abandonUpload` goes by the cause: a
request whose transaction failed before it adopted, and whose slow upload the
sweeper has meanwhile abandoned, ends and names nothing ("lapsed").

**`ReportIssuance`.** A request is the object it will store. `phase` is how far
it is or what it answered; `printer` the one Chromium of a replica; `stored`
what Storage holds, which may differ from what was sent and is read back. Every
action is an action of `StorageIntents` on that object, or leaves it alone.

**`TenantAccess`.** `role`, `disabled`, `grants` are the rows; `lock` the
tenant's advisory lock; `task[w]` the request and its phase (admitted by the
guard with the role of that moment, inside the lock, past its read). `trail` is
the newest audited event of each grant. A subsidiary goes at any moment and its
foreign keys take the grants along.

**`CompanyStructure`.** `present` are the rows of the company, its sites and
settings (period locks, targets, denominators: what the database deletes with
the subsidiary); `version` and `named` the boundary version and what it names;
`ops[a]` an administrator's request with the counts it has read; `locker` who
holds the company's row. `gone` and `audited` are history. A delete counts
first without a lock, then again under it, and each count is a step.

**`AccountSync`.** Of Auth it keeps what `users/auth-admin.service.ts` says was
measured: a user is created banned, a password change ends every session and
every pending link. `generation` is `auth_sync_generation`: a sync clears the
flag only if it has not moved. A sync's transaction may time out while its call
is under way (`TimesOut`): the lock is released, the call is still to land
(`LandLate`), before or after any other. `strayed` is a history variable: the
last call that changed Auth came after its transaction. A delivery decides by
its own re-read whether a link follows its sync (`mint`), a re-send reads the
invitation in one step and writes it in the next.

**`RequestAdmission`, `PasswordReset`, `ApiProcess`.** `active` is
`RuntimeLimits.active`; `lease[r]` what a request will release; a disconnection
falls between any two steps. A reset worker holds a permit while it is not
free. `stopping` and `closing` (in `RuntimeLimits`) are read by both.

**`InventoryBoundary`.** `ver[i]` is the i-th version created, `job[w]` a
request with what its transaction has read or locked; `datasets[i]` what was
retained. The triggers TA014 and TA016 are asked at the write, and a refusal of
theirs is recorded as `defect`.

**`FactorLibrary`.** A release file is a constant. `run[o]` is a run of the
loader with what it found; its transaction inserts, asks again about overlaps,
withdraws what it supersedes and commits. `look[c]` is a calculation between
its two reads; `seen[c]` (history) what each library since it asked would have
answered.

**`InventoryCoverage`, `Completeness`.** State machines of the facts (records
filed, decided, moved, locked; releases withdrawn; sites opened) over which the
rules are operators; the properties compare the rules with what they are for.
`Completeness` is one cell: `entry` its records, `rule` the category's flags,
which never change, so that one instance checks every category.

**`BatchSubmit`, `BulkImport`.** A single record's write is one step here
(`RecordLifecycle` has its locks and gates). `batch[b]`, `imp[i]` hold the
phase, the snapshot the pre-flight read, the outcome of every row and the
attempts of the audit write.

**`EntryForm`, `EntryPanels`.** The tab's state beside the API's. Requests of
the page are in flight until an answer comes, in any order; a superseded one is
marked, as the code's `cancelled` flags do. `Hasty` is what the user may do while
a save is under way, `Trouble` what may go wrong with it ("unknown": the page
does not know its user yet and opens a colleague's draft, which the API will not
let it save). `sent` is the bulk submit under way: some of its drafts, or none,
have moved when it is answered, a failure leaves the ticks, and the list is read
again either way. A list that arrives drops the ticks it does not hold
(`OnScreen`).

## 3. Runs

Eight runs pass and four are violated. Each is exhaustive within the bounds of
its cfg. Several compose components that share no row: the initial state picks
a *scene*, and the other components stay as they are, so one run asks its
question of each. Every property of a passing run is broken by a mutant of the
code (PROJECT.json), which shows that the bounds let the case happen.

| Run (cfg) | Properties | Scenes and bounds, and why they are enough |
|---|---|---|
| `records` (Records) | `ClosedPeriodSealed`, `FourEyes`, `GatesHold`, `FigureOfItsInputs`; `LedgerSpec`, `AuditExplains` | Two requests; two records reviewed and closed; one record moved between two periods against their locks; one record edited in two fields while a release is published. A race of this protocol is between two requests, and a move makes the lock of the period that was read the wrong one |
| `evidence` (Evidence) | `EvidenceKept`, `NoOrphanFile`, `NoWaitCycle` | Two requests, two records, one file with review or two files without: the last two links of a file, and opposite orders of two |
| `reporting` (Reporting) | `FrozenIsReported`, `DeclaredParentsLive`, `OneEditionPerSlot`, `PricedFromOneLibrary`, `ServedAsIssued`, `IssuedOnce`, `AnswersTrue`, `OrphansNamed`; `ImplementsHistory`, `UsesStorage` | Two requests over three versions that are about one subsidiary, which may be renamed, or two versions about two, which are not; two runs of the loader over three editions of one publisher; one run beside a calculation, with a placeholder in the library; any two uploads with two tidying workers; two requests that issue editions of two datasets on one replica beside one worker. One object uploads slowly, removals may outlive their lease, an object may have three intents: a take-over and a second life of an intent fit |
| `administration` (Administration) | `TrailMatchesGrants`, `NothingUnaudited`, `StaysForGood`; `ImplementsDirectory` | Three members and two requests for roles and accounts; two members and two subsidiaries that may be deleted for grants; two administrators over one company with a site, a setting and a record |
| `coverage` (Coverage) | `DisclosureIsWhole`, `FinalIsComplete`, `GreenIsEarned`; `VerdictMovesByDecision` | Every cadence and operating months that cut its periods; the decisions of two entities, of their cells and of one source or two; two subsidiaries' extracts; the gate over every kind of calculation, a release withdrawn; a cell of two records over two sites and a month or the year, with and without invoices and evidence (`rule`; without invoices no rule reads a site, and one opens at most) |
| `entry` (DataEntry) | `FiguresOfTheirSubsidiary`, `ScreenIsOfItsSubsidiary`, `BatchStandsForItsRecords`, `WrittenAsReported`; `ActsOnWhatIsChosen` | Nine scenes: saves with answers lost or refused, a deep link, the paged list with a bulk submit at a time, the panels; a bulk submit of three drafts of a series, the repair of verdicts; every file of two rows run dry and applied, every file of three equipment lines, and two users applying at once. Conjuncts of `MCDataEntry` cut the search. Three keep one of what is alike: the form's records appear in order (`InOrder`), the first of them is Fuel's (`FirstIsFuel`), the first of two applies is read first (`InTurn`). Two bound it: the last draft of the submit has one figure (`LastIsOne`), the repair's scene leaves the third record and the batch out (`TwoUnsent`). While a save is under way the user starts a new record, opens one or picks a category or site (`Hasty`), but types nothing and stays on the subsidiary: that is `switched_save` |
| `process` (Process) | `PermitsHold`, `OneLinkPerCooldown`, `DrainedIsIdle`, `SettledHonours`, `InvitedCanSignIn`, `EndedStayRefused` | Three requests of two callers under budgets of one or two; two reset workers and a queue of two for four requests; one request beside one reset; one account with two workers, five changes and two faults, a timed-out transaction with its late call among them. Deadlock is checked |
| `progress` (Progress) | `RequestsEnd`, `SettlesAfterFaults` | Seven scenes under fairness, each component at its smallest contended size |
| `lock_order` (LockOrder, violated) | `NoWaitCycle` | Two drafts that move while an upload names both |
| `switched_save` (SwitchedSave, violated) | `SubsidiaryNeverCompared` | The form, with a subsidiary switched during a save |
| `factor_gap` (FactorGap, violated) | `UnpricedMeansNoFactor` | A Water record looked up while its release is loaded |
| `late_call` (LateCall, violated) | `LastRunApplies` | One account, two workers and one timed-out sync |

What bounds an instance is a CONSTANT (or a definition of its MC module):
`MaxUpload`, `MaxLibrary`, `Operations`, `MaxIntents`, `MaxVersions`,
`MaxRenames`, `MaxChanges`, `MaxTime`, `MaxFaults`, `MaxRequests`,
`MaxCooldowns`, `MaxFiled`, `MaxClosed`, `MaxReads`, and the sets named as
bounds in their modules. Ids are used once, as uuids are, and counters end, so
most instances stop: their cfg says `CHECK_DEADLOCK FALSE`. Symmetry is over
interchangeable workers, requests, members and subsidiaries, in safety runs
only. `FlipBound` limits `lock_order` to the part of the search where the cycle
lives; a violation found there is one of the whole.

### Fairness

Nothing is assumed of clients: no request has to begin. What has begun goes on
(weak fairness: the event loop and the database serve it). A lock that becomes
free again and again is granted in the end (strong: PostgreSQL's lock queues
are first-in first-out; the queue itself is not modelled, and with two
requests strong fairness is what it gives). The 15 s timeout (`Rollback`) is not
assumed, only that a request whose gate refuses ends. The sweeper ticks for
ever on every replica (`onApplicationBootstrap`), and a removal tried again and
again is one day confirmed and closed (strong); the run assumes that a removal
ends within its lease, for two workers may otherwise take the lease from each
other for ever, which the code does not exclude either. The operator's
`reconcile` runs again and again (it is a documented routine command); a call
that outlived its transaction is answered some day; no fairness is asked of
faults, and a timeout is one. `settle` returns when no permit is out.

## 4. Findings

Four runs show a disagreement between the code and what it says of itself:

1. *The lock order does not exclude deadlock* (`lock_order`). An upload for two
   drafts of P1 holds P1 shared and the first row; both records were moved to
   P2 and approved between its read and its row locks; locking P2 updates both
   rows in no stated order (`period-locks.service.ts:232`), holds the second and
   waits for the first. The database breaks it and the request is answered as a
   lost race; `lifecycle-lock.ts:26-29` and `168-169` say it cannot happen.
2. *A save answered after a switch* (`switched_save`). `handleSaveDraft` and
   `handleSubmit` set `editingId` after the await whatever the subsidiary select
   shows by then; the next save writes one subsidiary's figures on the other's
   record (`src/apps/web/app/data-entry/page.tsx:1035`).
3. *A record stored without a figure though a factor exists* (`factor_gap`).
   `lookupFactorPath` keeps the first pass's `no_factor` when the second pass
   resolves (`calculations/factor-lookup.ts:171`).
4. *The last run does not apply the latest state* (`late_call`). The transaction
   that holds the sync lock times out after 20 s, but `setBanned` has no timeout
   (`users/auth-sync.service.ts:47,72`): the unban of an earlier run reaches Auth
   after the ban of the run that held the lock last, and a disabled, unflagged
   account is active at Auth; the comment at lines 18-21 says "however the HTTP
   calls interleave". The same late call breaks the two other promises of the
   account: a late ban leaves an enabled, invited account banned, and a late
   password change ends a session after the boundary's last move, so that the
   API still admits its token. `SettledHonours`, `InvitedCanSignIn` and
   `EndedStayRefused` are therefore stated "unless a late call came last"
   (`~strayed`), over runs that contain such calls: every earlier late call, and
   every call a late one crosses, is covered.

Other divergences met while modelling are kept as definitions beside their
component, quoting the line they contradict, and are listed in PROJECT.json;
TLC finds each of them violated when it is asked for, but no run is kept:

| Definition | What happens |
|---|---|
| `StorageIntents!OneRemover` | `enqueueDeletes` clears the lease of a removal under way and `runNow` claims the object again. Harmless: removal is idempotent, the close conditional |
| `StorageIntents!CrashLeavesIntent` | A slow upload's bytes land after the sweeper closed its intent, and its process dies: only `reclaimOrphans` finds them |
| `StorageIntents!LateBytesNamed` | The same of a request that lives: its transaction fails before `adoptUpload` answers, and `abandonUpload` finds no intent and a cause that is not its own failed adoption |
| `TenantAccess!AuditNamesWhatItRemoved` | A replace audits the difference to the grants it read; one went with its subsidiary in between |
| `AccountSync!AcceptedIsFinal` | A re-send reads the invitation, the invitee accepts, and the re-send's update writes "pending" over it: acceptance takes no lock of the organisation |
| `AccountSync!ChosenPasswordKept` | The flag of a sync whose answer was lost outlives the delivery that armed it; a later sync replaces the password the invitee chose |
| `BatchSubmit!DraftsOnly` | A draft submitted and rejected after the pre-flight is submitted again by the batch |
| `BatchSubmit!ClosedPeriodsUntouched` | The repair of verdicts takes no period lock, and a lock that commits in between is not seen |
| `BatchSubmit!UnexpectedMeansUnchanged`, `BulkImport!UnexpectedMeansUnwritten` | The answer to a commit is lost, and the record is reported as not submitted, or not written |
| `EntryPanels!InvoicesAreOfScreen`, `SendsWhatIsShown` | The invoice panel keeps the previous subsidiary's invoices when the records' read fails; the previous subsidiary's drafts can be ticked and sent while the list loads |
| `EntryForm!WritesAreRead` | A submit that stops at the anomaly gate has saved, and nothing is read again |
| `CompanyStructure!MeasuredByLocation`, `SiteAnswered` | A subsidiary tracked by location can lose its last site; a delete refused by a row that has since moved answers an unknown error |
| `Completeness!LateSiteWarned` | No warning for a duplicate at a site that opened after the year |

## 5. What is proved

Everything below holds for every value of the constants, hence for any number
of requests, workers, records, files, members, versions and releases. The
assumptions on constants are the `ASSUME`s of each module, which TLC evaluates:
ids are of distinct sorts, lock keys are naturals (so that locks have an
order), every user has one role, requests in flight are finitely many, limits
are positive. Some results have a further hypothesis, named below with the
reason why the code does not give it: `NoStrayRow`, `[]WithinCap` and
`StaysDuringSaves`. The first and third are where a finding of section 4
begins, so those theorems say that the finding is the only exception.

**The lifecycle** (`LifecycleTheorems`). `LifecycleInv` is
inductive: types; links and files agree; locks exclude as PostgreSQL's do; and
of each request: its locks are those its operation takes (`LocksOfRequest`),
what the endpoint asked stays asked (`Asked`), the ids it will create are its
own (`Reserved`), while nothing rewrote the row the early checks stand
(`ReadStands`), once checked the periods are locked and the gates hold
(`Checked`), and the files it will delete are exactly those its write leaves
without a link (`DoomedRight`). `GatesHold` alone is not inductive: that another
commit cannot disturb a checked request follows from which locks the other must
hold, and that follows from what it read. The step lemma is therefore split:
what a commit touches is inside its own locks (`HasFootprint`), and whatever
stays outside a request's locks leaves that request's part standing
(`Undisturbed`). From it: `TypeCorrect`, `GatesHoldCorrect` and
`ImplementsLedger` (each `Write...` is the atomic operation of the ledger, every
other step a stutter). The ledger's own theorems then hold of the protocol:
`ClosedPeriodSealedHolds`, `FourEyesHolds`, `EvidenceKeptHolds`,
`NoOrphanFileHolds`, `FigureOfItsInputsHolds`, and the action properties
`AuditExplainsHolds`, `CommittedFigureKeptHolds`, `ClosedPeriodFrozenHolds`. The
last two rest on one lemma per operation about which fields it writes
(`UpdateEffect`, `TransitionEffect`, ...): a record that counts is written only by
a transition, and a closed period's gates exclude every writer.

`OrderedLocksNeverDeadlock` is `Spec => [](NoStrayRow => NoWaitCycle)`. `LockOrder`
is inductive beside `LifecycleInv`: a request holds period locks below those it
misses, then rows (none while a period is missing), then files (none while a
row is), each class ascending; a lock or unlock, which takes rows in no order,
holds rows of its own period only. So whoever holds what a waiting request
wants and waits itself is further along (`Behind`): a lock or unlock, holding
its period exclusive, never waits for a row of a request that is still
collecting rows. Among finitely many requests that all wait, one that the fewest
are ahead of contradicts this (`OrderBreaksCycles`, by well-founded induction on
subsets). `NoStrayRow`, "the rows an upload or a file's removal has locked so far
are in periods it has locked", is the one thing the protocol does not ensure:
it re-reads the periods only when all rows are locked. It holds in every state
of the run `evidence` and fails in the counterexample of `lock_order`, so the
theorem says that finding 1 is the only deadlock.

**Storage and issuing** (`IssuanceTheorems`). `StorageInv` is inductive: an
upload intent has neither row nor claim (`UploadIntent`), an owned row excludes
intents and claims (`OwnedRow`), what each stage of the uploading request knows
(`UploadingRequest`), and a claim that may still close its intent has really
removed the bytes, but for late ones (`Removal`), which is what makes the close
conditional on the lease necessary. It holds with any mix of slow uploads and
slow removals and gives `StorageTypeCorrect`, `OwnedBytesKeptHolds`,
`OwnedOrNamedHolds`, `OrphansNamedHolds`. `IssueRefines` shows that issuing only
takes steps of that protocol, so its invariant is inherited; `IssueInv` adds
where a request is in both (`Placed`), who holds the renderer (`Printing`) and
that an uncommitted insert excludes another (`Once`), which gives
`ServedAsIssuedHolds`, `IssuedOnceHolds`, `AnswersTrueHolds`, `IssuesAuditedHolds`
and `OneRenderHolds`.

**Administration** (`TenantTheorems`). `Access`: what a request asks for stays
what the route admitted, the lock's holder stays entitled because every change
to its entitlement takes the lock, and the grants it read are those held but
for subsidiaries gone since. It gives `Governance` (an administrator is always
left: the one who made the change), `Entitlement`, `GrantsKept`,
`OffboardingIsComplete`, and `AccessImplementsDirectory`. `CompanyInv`: a delete
past its lock holds the lock or finds the company gone, no setting appears
under the lock, and what a request counted as permanent was there and stays
(`Lasting` is what every step leaves). It gives `NothingUnauditedHolds`,
`NothingDanglesHolds` and `StaysForGoodHolds`.

**Accounts** (`ProcessTheorems`). `Sync`: what the holder of the sync lock read is
the account's state unless the generation has moved on, so what it carried over
is right when it clears the flag, unless a call of a transaction that timed out
came in between; and once a delivery is past its sync, or has decided by its
own re-read to need none, an account banned at Auth is disabled or marked.
`DisabledStaysOut`, `InvitationIsUsable`, `EndedSessionsRefused` and the refinement
`SyncImplementsMark` need no hypothesis: late calls are part of the model, and
`strayed` says when the last one to change Auth was late. A late call spoils
the account only until the next call that lands within its transaction
(`AccountMark` lets a mark be missing only while `astray`).

**Boundary** (`BoundaryTheorems`). `IInv`: what each transaction has read or
checked still stands (`JobOK`), because no other request holds the same header,
inserts the same number, or deletes the parent of a row being inserted
(`Apart`). It gives `DraftIsNewest`, `ReportedAsChecked`, `DatasetFaithful`,
`ParentsStay`, `AuditComplete`, `GuardsNeverRefuse`, `FrozenUnchanged`, and
`Implements`: the year is a `BoundaryHistory`.

**Factor library** (`BoundaryTheorems`). `LibraryInv`: one load of a publisher at a
time is past its insert, because the trigger waits for the publisher's lock,
and what it ruled out can only shrink until it commits, because only
withdrawals commit beside it. It gives `OneEditionPerSlotHolds`.
`PricedFromOneLibraryHolds` assumes `[]WithinCap`: no key has more live candidates
than `FACTOR_CANDIDATE_CAP`, beyond which a lookup refuses; then, where
placeholders are refused, the permitted paths of every live release are those
of the authoritative ones, so reading only these changes no figure.

**The process** (`ProcessTheorems`). `ProcessInv`: what `RuntimeLimits` counts is
what the leases hold and is within the limits (`Counted`), a request has
collected only what its phase has asked for (`Collected`), a worker that mails
holds its account's cooldown alone (`Claimant`), permits of the queue are the
workers that are not free, and once drained nothing is out. It gives
`PermitsAlwaysHold`, `OneLinkPerCooldownHolds`, `DrainedIsIdleHolds`.

**Coverage** (`CoverageTheorems`). The rules are operators of one snapshot, so the
invariant is the types; what carries the proofs is which gap each omission
leaves. `CoverageAssumption` says of the versions what the tables' keys and checks
hold (`WellFormed`) and of the slots that the record index makes them unique.
`DisclosureIsWholeHolds`: an included source that is neither conflicting nor
unmapped is countable and claims its records alone, so a second record over one
of its months is of another cadence and leaves `overlapping_periods` or
`unmapped_record`, and an undecided source leaves a gap of its own scope; a
subsidiary's extract has the inventory's gaps, obligations and records of that
subsidiary, so the extracts add up. `FinalIsCompleteHolds` reads the same gaps
and the gate's blockers together. `FinalKeptHolds`: in a final, every counted
record is approved in a closed period, and each operation on a record excludes
one of the two.

**Completeness** (`CoverageTheorems`). `CompletenessInv`: no two records that are
not voided stand for one slot, and where evidence is required none counts
without its file. `GreenIsEarnedHolds` has three parts. Covered slots are among
the required ones (`CoveredSlots`), so as many as are required are all of them
(`FullCoverage`), and a complete cell awaits nothing (`CompleteEarned`). Matrix
and drill-down agree because both read one rule. And a slot's one record is the
one the panel sees covered, so its warning is exact (`WarningIsExact`).
`SubmittingLeavesCellHolds` follows from the first part in the state after the
step; `LaterSitesLeaveCellHolds` because the denominator is the sites of the
year.

**Data Entry page** (`EntryTheorems`). A record keeps its subsidiary and its slot
for good; `FormInv` says that every copy of one the tab holds (the list, the
link's answer, a save's target) therefore agrees with it (`RowsCopy`,
`LinkCopies`), that the list shown and the link's question are of the subsidiary
on screen (`RowsOnScreen`), and that the form targets a record only of the slot
it shows (`Targeted`, `SavingTargets`). It gives `KeepsSlotsHolds` and
`LinkLeavesSubsidiaryHolds` for everything the user may do during a save.
`FigureInv`, that every copy and the form hold figures of their own subsidiary
and a save is of the one on screen, needs `StaysDuringSaves`: the user does not
switch the subsidiary while a save is under way. With it
`FiguresOfTheirSubsidiaryHolds` and `SubsidiaryNeverComparedHolds` hold; the page
does not ensure it, and `switched_save` (finding 2) is what happens without.

For the panels, `ListInv` says that the rows shown are a run of the
subsidiary's records that ends where the cursor says (`RowsAreRun`), that a read
which is not superseded is of the subsidiary on screen, and that a next page on
its way is the one after the rows (`MoreOnScreen`); a record filed at the head
leaves a run where it was. `CardInv`: a card and its live read are of the
screen's key. They give `ScreenIsOfItsSubsidiaryHolds`; `SendsOnlyTickedHolds`
needs only that what is ticked was ticked since the subsidiary was picked, which
no refetch and no answer changes.

**Bulk submit and repair** (`BulkTheorems`). Four invariants, one for each question.
`ReportInv`: what a batch has answered and what is to do are what was asked, and
its audit row is what it answered. `StandsInv`: in a batch that nothing disturbs,
whatever was sent is submitted with the verdict it would get now, because what
is still to do lies after it in the calendar. `JudgedInv`: a verdict, and one the repair has computed and not
yet written, is of its figure. `CleanInv`: while nothing disturbs a repair, each
record's verdict is fresh, or pending, or counted among those left. Together
they are `BatchStandsForItsRecordsHolds`.

**Import** (`BulkTheorems`). `ImportInv` is about each import alone: the rows
reported are those before the rows to do (`Progress`), what was written is what
was reported accepted, or unexpected after a lost answer (`Told`), and batch row
and trail are open, refused or closed together (`Trailed`). `ForeseenInv` is what a
dry run promises: while nothing else writes and nothing fails, every code
reported is the one a function of the file, the records at the start and the
locks gives (`AsExpected`), because what is stored since then is what the import
wrote itself (`Known`). Every row is of exactly one record, the one that the least
row of its group stands for (`OneRecordOfRow`); that there is a least row is by
well-founded induction on the naturals (`LeastOf`). A group that files a gas has
every row of its key, each an equipment line (`GroupOfWhole`). They give `WrittenAsReportedHolds`, for every file.

### Only model-checked

- The liveness properties `RequestsEnd`, `SettlesAfterFaults`: fairness is out of
  the prover's reach.
- `ActsOnWhatIsChosen` and `VerdictMovesByDecision` are conjunctions over the
  scenes of `MCDataEntry` and `MCInventoryCoverage`. Each conjunct is a theorem of
  its component (`KeepsSlotsHolds`, `LinkLeavesSubsidiaryHolds`,
  `SendsOnlyTickedHolds`; `FinalKeptHolds`, `LaterSitesLeaveCellHolds`,
  `SubmittingLeavesCellHolds`); the composition is not.
- The sum that a baseline is the average of (`AnomalyBaseline!Total`): the theorems
  take it as some function of the records in the window. What it computes would
  be an induction over the data.

## 6. What is abstracted or left out

- The engine's arithmetic, file contents, names, messages, translations, CSV,
  the layout of reports.
- In the lifecycle, the anomaly and variance gates, the duplicate check and the
  activity-type checks refuse a request as `Rollback` does.
- Collisions of period-key hashes: two periods sharing a key only wait more.
- Row-level security and the roles of the database: a request runs with the
  service's role. Token verification and guards: the user and role are given.
- Storage: backoff and due times (a claim is possible whenever the intent is
  unleased), batch bounds, `STORAGE_CLEANUP_HOLD`, reports of stuck intents,
  `forgetUploadIntents`. No bytes land after `upload()` has answered or failed, or
  its process has died.
- Report datasets: access filters, fingerprints and size limits; issuances: the
  HTML, the tables, preview and downloads other than as reads of the row.
- Rate quotas are calls that answer or refuse; byte and time limits are refusals.
- Bulk files: workbook parsing, the template and warnings.
- The pure read models (emission sums, trends, KPIs, intensities, targets,
  exports) and the web pages other than Data Entry; mail, observability,
  infrastructure, scripts and end-to-end tests.

## 7. Next

Every invariant of a passing run is a theorem, three of them under a hypothesis
of section 5. What the map does not reach yet,
in the order of its weight: the emissions and report read models (sums, trends and
intensities, as operators of one snapshot compared with `InventoryCoverage`), the
token verifier and the guards, and the row-level policies.
