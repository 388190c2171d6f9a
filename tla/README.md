# AgentsBackend: specifications

TLA+ specifications of the backend in `src/`: a FastAPI service (`src/app`) over
Firestore that runs a set of writing and measuring agents (`src/agents`). The
modules here model the parts of it that keep shared state and whose correctness
depends on the order in which several requests, schedulers and crashes reach
that state. TLC checks small instances of them; TLAPS proves the theorems of
the `*Proofs` modules for every value of the constants.

## The system

Every component is a set of HTTP handlers (`app/routers`) over one or more
Firestore documents. Handlers run concurrently, in threads of one process and in
several processes; a request may be cut off at any point (deploy, out of memory,
Cloud Run's timeout), and a client may retry it. What makes a step atomic is a
Firestore transaction (`firestore_repo._transact`, `seo_geo_agent.state.mutate`):
it reads the document again and its function may run several times. Everything a
handler read before a transaction may be stale inside it.

| Component | State it keeps | Operations | What is hard | What makes it correct |
|---|---|---|---|---|
| PR Writer, run store (`app/services/firestore_repo.py` 2181-3163, 3379-3408) | `pr_runs/{id}`: participants, status, latest version, quotes, sign-offs, escalation, checkpoints, event count; create-only `versions`, `steps`, `events` | create, checkpoint a step, create a version, comment, attest a quote, clear and flag an escalation, sign off, add a participant | callers act on stale reads; the pipeline and people write the same run | an approved run met every condition and is locked; versions are immutable; only people approve; an escalation stops the pipeline |
| PR Writer, service (`app/services/pr_writer.py`, `firestore_repo.py` 3166-3298) | `pr_runs/{id}.flow`: step table with leases, clarify card, version labels and locks, sections, terminal | create run, run step, clarify, escalation actions, revise, remove and verify claim, send for review, sign off, approve, quotes, participants | one request is several transactions with model calls in between; leases; crashes between two writes | one request works on a step at a time; a decision to escalate pauses the run; people act on the version they saw |
| PR Writer, pipeline (`agents/PR Writer agent`) | none | intake, screen, research, draft, QA, package, notes | deadlines; some of several concurrent calls fail | what worked is kept; the deadline ends before the lease |
| PR Writer, brand cards (`pr_writer.py` 789-975, `firestore_repo.py` 2572-2636, 3301-3360) | `brand_cards/{id}` with a revision and a history; `pr_leases/{task}__{brand}` | save a card against a base revision; lease and release a suggestion | two editors; a suggestion that outlives its lease | no lost update; who may edit is judged on the card that is replaced; one suggestion at a time |
| GEO polling (`agents/Final GEO agent/final_geo_agent/geo_poll.py`, `app/routers/geo.py`) | `geo-config-{brand}`: sweep lease, daily and monthly counters, manual checks, streaks, last completion; one day-document per engine | poll step (console), sweep (cron), status, completion | several drivers of one sweep; paid calls; crash between the calls and the bookkeeping; lease expiry | the daily cap holds; one sweep at a time; one manual check a day; answers paid for are stored; the schedule moves only when a sweep is finished |
| GEO analysis (`geo_metrics`, `geo_strategy`, `geo_history`, `geo_compare`, `opt_*`) | history points, action lists | pure scoring over stored answers; append a point per day | numeric edges | out of scope here: arithmetic over texts |
| Inbox triage, sheet writer (`agents/Inbox Triage agent/inbox_triage_agent/sheet_writer.py`, `sheet_layout.py`) | the Inbox tab of a Google Sheet; a stamp on it (developer metadata) with a sequence number; a marker that the tab was sorted | write rows in one batch, at the place their date gives; sort a tab once | the person moves, removes and types rows while a batch is planned; a batch gets no answer and lands late; two callers | a mail is on one row; no row of hers is written over; one batch per call; the reported rows are the right ones |
| Inbox triage, fire (`inbox_triage_agent/pipeline.py`, `app/routers/inbox.py`, `firestore_repo.py`) | `inbox_triage/{user}`: lease, history id, backfill cursor, breaker; `inbox_triage_messages`: a tracking document per mail | fire: lease, list history or relist, retries, a page of the backfill, one batch, tracking, checkpoint; connect, disconnect | a fire outlives its lease, or its connection, or is killed between any two writes; the history expires | no mail lost, none written twice, rows that need review are asked again |
| Marketing Research, pulls (`app/routers/marketing_research.py`, `agents/Marketing Research agent/marketing_research_agent/runs.py`) | `mr_runs/{id}`; a copy of what an instance wrote on its own disk, merged into what it lists; a lock per process | pull the workbook, pull a tab, upload, delete a dataset | several instances pull at once; a write reaches only the disk; an instance dies half-way | figures stay until newer ones are stored; no stale copy of a tab stays for good |
| Marketing Research, the rest | reports, versioned report templates, snapshots, targets | analyse, render, export | texts, numbers and layout | out of scope: pure functions and model calls |
| Graphics designer (`agents/Graphics designer agent`, `graphics_designer.py`, `gd_*`) | runs, a brand registry cache, uploads in storage | generate, remix, register a brand, upload | caches and image-decoding slots | slots are returned; the cache does not outlive its document |
| SEO GEO, Blog Writer (`agents/SEO GEO agent`, `agents/Blog Writer agent`) | state documents through `state.mutate`, OAuth tokens | audits, briefs, drafts | token refresh | last writer wins by design |
| Crons (`app/routers/cron.py`, `app/services/cron_registry.py`) | job toggles with a cache | list, pause, resume | a stale cache read | a paused job does not run for longer than the cache lives |
| Runs, issues, activity (`run_tracking.py`, `issues.py`, `runs.py`) | append-only records | start, finish, list | a request that dies without its end | every start is ended or shown as interrupted |
| Accounts and access (`app/security.py`, `scopes.py`, `auth.py`, `admin.py`) | sessions, grants | sign in, grant, revoke | none beyond its database | pure checks |
| Drive, Canva, storage, PDF renderer (`app/services/*`, `renderer`) | caches, none | I/O adapters | failures of others | out of scope: pure I/O |

## Modules

| Module | What it is |
|---|---|
| `PrRun` | The PR run document and its transactions, one action each. The abstract specification of the PR Writer: any person, or the pipeline, may call any transaction at any time with any argument. |
| `PrRunProofs` | Proofs about `PrRun`. |
| `PrFlow` | The service's requests over `PrRun`, step by step: read, check, lease, model call, writes, with crashes and lapsing leases. Extends `PrRun`, and implements it. |
| `PrFlowProofs` | The proof that it does, and its invariants. |
| `GeoPoll` | One brand's polling: console steps and scheduled sweeps over the configuration document and the day documents, with crashes, lapsing leases and midnight. |
| `GeoPollProofs` | Proofs about `GeoPoll`. |
| `MailLog` | Abstract specification of Inbox triage: what happens to each mail on the person's tab, without rows and positions. |
| `SheetRows` | The sheet writer: calls, the batches they send, the Sheets service and the person. Implements `MailLog`. |
| `SheetRowsOrder` | Lemmas about a tab's rows: finite sets in order, places, insertions, the sort, what the mail log reads off the rows. |
| `SheetRowsProofs` | Proofs about `SheetRows`. |
| `InboxFire` | The poll over the connection document, the tracking documents and the sheet, which is here the log of `MailLog`. Implements `MailLog` too, and with it the two compose: what `SheetRows` shows of a call is the `Land` of `InboxFire`. |
| `InboxFireProofs` | Proofs about `InboxFire`. |
| `CardLog` | Abstract specification of a brand's card: a list of revisions that only grows, each made from the one before it. |
| `PrBrand` | Saves of a brand card and suggestions under a lease. Implements `CardLog`. |
| `PrBrandProofs` | Proofs about `PrBrand`. |
| `SheetPull` | Pulls of the marketing workbook by several instances, with uploads and deletions, over the store and the instances' disks. |
| `SheetPullProofs` | Proofs about `SheetPull`. |
| `MCPrRun`, `MCPrFlow`, `MCGeoPoll`, `MCSheetRows`, `MCInboxFire`, `MCPrBrand`, `MCSheetPull` | Instances for TLC. |

A definition marked *variant* is a plausible mistake in the definition that
follows it. No specification uses it; it is kept to see that the properties
notice such a mistake (`PROJECT.json`, "mutants").

### PrRun

`participants ... events` are the fields of `pr_runs/{id}` that some check
reads; `docs` are its create-only versions. One action is one transaction of
`firestore_repo.py`: `CompleteStep` is `complete_pr_step` with the patch that
comes with it, `CreateVersion` is `create_pr_version` (it resets quotes and
sign-offs in the same transaction), and so on; the guard of an action is what
the transaction raises on. A quote records, next to the decision on it, the
wording its approver was `shown`: a history the code does not keep, and that
makes "approves text they saw" a statement about states.

### PrFlow

`stage`, `leased`, `meta`, `clarify`, `closed`, `pending`, `screen`, `built` and
`notes` are the fields of the run's `flow` map. `req[r]` is a request in flight:
what it read, what it is about to write, and where it is (`at`). `Load...`
actions are a handler's first read with its early returns; every later action is
one transaction; a model call lies between two of them and shows as the choice
of its outcome. The run can be read, and worked on, from the transaction that
creates it: `create_run`'s own two writes after that, `CreateFlow` and
`CreateIntake`, are crossed by other requests, or never happen (`FailCreate`).
`rescreened` is history: a screen found the intake checkpointed by another
request, wrote nothing, and went on to save its own decision. `page[p]` is the version a person has on the screen: the service
compares labels, and `ActsOnWhatWasSeen` compares the versions behind them.
`Crash` ends a request anywhere; `Lapse` lets a lease run out once nobody works
under it, which is what `STEP_DEADLINE_S < LEASE_S` is for.

### GeoPoll

`used`, `aio`, `lease`, `manual`, `streaks` and `completed` are fields of the
brand's configuration document, `answers[d]` the stored answers of a day. A
request passes through `load` (read; SERP engines dropped when capped),
`reserve` (`_reserve_calls`: lease, manual check and budget in one transaction),
`call`, `merge` (a transaction per engine), `settle` (`_settle_calls`) and
`close`, the list of transactions that end a sweep (release, give back the check,
mark the schedule). A scheduled sweep returns to `load` after a step that is not
its last. `CallRaises` is a step that raises on the n-th answer of its batch, all of
whose calls have gone out: it stores what came before, settles n calls and gives
back the charge of the others (`Refund`). `StoreRaises` is a step the store fails:
it ends where it is, and the scheduler's loop gives its lease back if it can.
`calls`, `measured`, `returned`, `handed` and `missed` are history: calls that went
out, the consoles that stored an answer, the days whose check a run gave back
over what it had measured, the calls whose charge was given back, and the tasks
that counted as done though they are owed (see Findings). `SlowSteps` lets a lease lapse under a working
step; `Overlap` lets a console run have two steps in flight. Both happen in the
code; the passing runs about exclusion switch them off, and `GeoPollOverlap` switches
them on.

### MailLog, SheetRows, InboxFire

`SheetRows` has one tab (`rows`), the stamp on it (`sequence`, and `landed` for
the batches that left one), and the calls of `write_rows` that run on it. A call
reads the stamp (`ReadShape`), then the rows, plans one batch and sends it
(`ReadRows`); the batch is in `flight` until Sheets applies it (`Land`), and an
answer may be lost (`Unsure`), so that the call plans again: this is what the
stamp is for, as a batch applies only on the sequence it was planned on. The
one-time sort is a process of its own. The person's `MoveRow`, `RemoveRow`,
`TypeRow` and `WriteOnRow` go between any two of these steps and leave the stamp
alone; `crossed` records that a batch landed on rows that were moved under it,
after which the code promises nothing, and neither does `MailLog`.

In `InboxFire` mail is numbered in the order of its arrival, and a history id is
the number of the last mail it covers. `link`, `checkpoint`, `backfill`, `lease`
and `breaker` are fields of the connection document, `tracked` the tracking
documents, `log` the sheet. `work[f]` is what a fire knows: the document as it
was when its lease was taken, and what it gathered. The steps follow `fire`:
lease, the ids on the sheet, history or relisting, one batch, tracking
documents, connection document, release; `GiveUp`, `Outage` and `Crash` end or
cut it short at any of them. `Connect` waits for nobody: a fire that is at work
goes on with the document it has read, under the grant of the former
connection (`grant`), and persists over the new one; or it re-reads the document
with the sheet's check (`Recheck`) and belongs to the new one. `handled`,
`forgotten`, `behind` and `trouble` are history: mails that had a row, mails
a fire struck off the backfill of a later connection, and so on (see Findings).

### CardLog, PrBrand

`saving[p]` is a save on its way: the base revision that came with the page, and
the document that was worked out on the card as it was read. `WriteCard` is the
transaction of `save_brand_card`, which compares the base with the revision it
finds. `saw` and `approved` of a card are history: what was on its author's
screen. `lease` is that of a suggestion, and is held by a person, not by a
request; `tardy` names the people who outstayed one.

### SheetPull

`cloud` is `mr_runs`, `disk[i]` what instance `i` has on its own disk. A pull goes
through `list` (what it will retire), `save` and `commit` (each new run goes to
the disk and then to the store), `retire`, and `sweep`, which
lists again and retires what other instances left. `save_run` answers False for
a write that was refused and for one that was stored while its answer was lost:
`Commit` has both (`applied`, `durable`). The disk may refuse a write
(`SaveRaises`) or a deletion (`RetireRaises`), which ends a pull half-way on an instance
that lives on. A write is taken to have reached the store, or never to, by the
time its caller goes on. `old`, `to` and `lost` are
the locals of `_pull_and_swap`. The lock is of an instance, so that pulls of two
instances meet at every step. `stored`, `deleted`, `mistaken`, `untidy` and
`sweeper` are history: which runs ever reached the store, which a person
deleted, which a sweep after a single tab took for replaced by a run that was
never stored (see Findings), and whether something a pull left behind may still
be there.

## Runs

| Run | Instance | What it shows |
|---|---|---|
| `PrRun` | two people, one review role, one quote with two texts and two speakers, three versions, six events | the eight promises of the run document under every order of transactions |
| `PrFlowIntake` | two requests, one version, every outcome of the first screen, with and without a clarify card; a creation that may be cut short, and is crossed by the other request | a checkpointed decision to escalate is flagged, unless a screen ran again; nothing is drafted that no screen judged; every write is a step of `PrRun` |
| `PrFlowReview` | two requests, three versions, four events | sign-offs stand on locked versions only; labels never change |
| `PrFlowCrash` | two requests that may die, one version, with fairness | one request works on a step; a step being worked on becomes free |
| `PrFlowSameLabel` | as small as the case needs | violated: see Findings |
| `GeoPollSweeps` | a sweep, two consoles that ask for one engine or all, three tasks of two engines, batches of two, failing calls, steps that raise, crashes, with fairness | one request polls; one console check a day, unless one was given back over what it measured; every step is answered and every sweep ends |
| `GeoPollOverlap` | one sweep and one console, for all engines or one, with overlapping steps, lapsing leases, failing calls, steps that raise and crashes, over two days | never charged above the daily cap, every call charged but those a raising step handed back; the monthly SERP cap is passed by at most a batch per request in flight; the schedule moves on complete days only, but for what failed in the ending batch |
| `SheetRows` | two calls with two attempts, the sort, three mails of two dates, two first tabs, one edit of the person | the tab is a `MailLog`; a call lands once; the rows it reports are right; a tab marked as sorted is sorted |
| `InboxFireOverlap` | two fires that may overlap, one mail, two troubles (crash, outage, overrun, silence), one whim of the person (a reconnection among them) | the sheet is a `MailLog`; rows that need review are tracked |
| `InboxFireAlone` | one fire at a time, two mails, pages of one, one trouble, one whim, with fairness | no mail is lost, and each gets its row, but for those struck off the backfill of a new connection |
| `PrBrand` | an admin named one by one, an admin by domain and a comms lead; three suggestions; two revisions | the card is a `CardLog`; editors are judged on the card they replace; one person reads a brand's site |
| `SheetPull` | two instances, two requests, two tabs, the totals and an upload; four runs written; one trouble (a write lost or its answer lost, a write or deletion that raises, a deletion that is not noticed, a person's deletion, a rearranged workbook, an instance that stops) | figures stay until replaced; one run per tab is left at rest |

Several properties name their exceptions, ways in which the code goes wrong (see
Findings), in the formula itself: `EscalationIsFlagged` (an intake that is not
checkpointed yet, and `rescreened`), `WithinBudget` (`handed`),
`ScheduleMovesOnFullSweep` (`missed`), `OneCheckADay` (`returned`), `NoMailLost`
(`forgotten`), `ReviewRowsTracked` (`behind`), `OneReadsTheSite` (`tardy`),
`KeptUntilReplaced` (`mistaken`) and `CleanAtRest` (`untidy`); `IsMailLog` does so in
the abstract specification (`crossed`). The exceptions are histories set by the
one step that goes wrong, so that the property says there is no other way.
`OneSweep` depends on switches: leases outlast steps (`~SlowSteps`) and a console
sends one step at a time (`~Overlap`).

**Bounds.** The real caps (2000 events, 2000 calls) are constants here and set
so low that `PrRun`, `PrFlowReview` and the `GeoPoll` runs reach them. Three
versions are the least with an edit, and an edit that undoes it; two requests
are the least that race, and every race found needs only two. `PrFlowReview`
goes on only from creations that were not cut short (`MCCreated`), which are
`PrFlowIntake`'s matter. Two texts and two
speakers tell a changed quote from an unchanged one. In `GeoPoll` three tasks
and batches of two give a first and a last batch and an engine that leaves the
panel; two days give one midnight; the monthly cap of one of `GeoPollOverlap` is
reached by the first batch, the nine of `GeoPollSweeps` never. `HandBack` bounds
the calls a day is handed back: without it a step that raises is repeated for
ever, and one or two are what a batch of two has. In `SheetRows` one edit of the person between any two steps is the least
that moves a row under a batch, two mails of one date tell the orders apart that
ties allow, and states after a crossing are checked and not continued
(`MCUncrossed`). `TroubleCap` and `WhimCap` of `InboxFire` bound what fails and
what the person does: a lost answer and a crash in one behaviour need two. A
listing is cut short between two mails, which `InboxFireAlone` has
(`MailCap = 2`, `PAGE = 1`); `InboxFireOverlap` has one, for the state space of two fires,
and that overlapping fires lose no mail is the theorem's.
`PrBrand` keeps three requests in flight (`MCInFlight`) and two revisions
(`RevisionsCap`): a conflict needs one revision, a history two. `SheetPull`
writes four runs (`StampsCap`), so that two pulls replace two platforms each,
starts from a workbook whose tabs are all there and whose steady figures were
stored before (`MCStart`), and uploads one file (`MCOneFile`); the theorem has
none of these bounds. Slots and people that play the same part are symmetric; no
run with a liveness property uses symmetry. Deadlock is checked in
`InboxFireOverlap`, `InboxFireAlone` and `PrBrand`, where there is always
something to do. It is off in the others: a run that is approved, closed or out
of events, a brand whose day is complete and whose sweeps are used up, calls
that are done, and pulls that have used up the runs they may write have nothing
left to do.

**Fairness.** `PrFlow` assumes that a request that lives takes its next step
(model calls have deadlines and transactions time out), and that a lease runs
out once it is past; nothing is assumed of people, of retries, or against
crashes. `GeoPoll` assumes the first only (`REQUEST_TIMEOUT`), and in particular
not that the wall clock ever stops a sweep: `EverySweepEnds` holds without it.
`InboxFire` assumes that the cron goes on firing and a fire that lives goes on (its
calls have timeouts), that Sheets answers what it applies, and that leases and
the breaker's pause run out; nothing that fails is fair, and `TroubleCap` says how
much of it there is. `SheetPull` and `PrBrand` state no liveness: a pull or a save
that is cut short is made again by a person or the next cron, or is not.

## Proofs

All theorems hold for every value of the constants that satisfies the named
`ASSUME`s of the modules, which TLC also evaluates on every run.

* **`PrRunProofs`.** Type correctness; the run document repeats what the latest
  version says; only people decide; a decision on a quote was made on its
  present text; an approved run meets every condition of approval. The state
  invariants are inductive relative to each other: `RunDocMatchesVersion` uses
  the types; `ApprovedIsSound` uses both, because the final sign-off is checked
  against the run document and is about the version. The key lemma is about
  `ResetChangedQuotes`: per quote, a new version leaves nothing, the quote as it
  was, or the new wording with no decision. The three action properties follow
  from the guards and the types.
* **`PrFlowProofs`.** `FlowSpec => Spec`: one lemma per kind of write shows that
  every step of a request is a step of `PrRun` or leaves the run document alone.
  The mapping is the identity, as `PrFlow` keeps the variables of `PrRun`. So
  everything proved of the store holds of the service; `FlowApprovesSoundly` is
  that for approval. The service's own invariants follow, each inductive given
  those before it. Types (`FlowTypeCorrect`) say what a request holds at each place
  of its handler. `WorkInv`, for `OneWorksOnAStep`: who works under a lease finds
  it set, and no two work under one; a lease lapses only when nobody does.
  `LabelInv`, for `LabelsAreStable`: one request at most owes a version its label;
  a first package, which saves the whole list, was read when no version was
  locked, and gives each version the label it has. `SignInv`, for
  `SignedOnlyInReview`: who is about to sign found the version locked, a lock
  stays, and the store records a sign-off on the latest version or not at all.
  `IntakeInv`, for `NoUnscreenedDraft`: a screen that is owed keeps every later
  step from starting, and who works past the screen read a run whose intake was
  checkpointed or whose flow has a decision. `EscalationInv`, for
  `EscalationIsFlagged`: whoever is about to save a decision to escalate has raised
  the flag, except a screen that ran again, and `create_run`, which saves first;
  while its decision stands unflagged the intake is not checkpointed and only
  `create_run` itself, which raises the flag with it, can checkpoint it. Neither
  has a hypothesis on crashes or on who comes when.
* **`GeoPollProofs`.** Types and the cap together are inductive (`CapHolds` is
  needed to see that a grant is not negative, the types to see that it is a
  number), without any assumption on leases or consoles. `SweepInv`, with
  `~SlowSteps` and `~Overlap`, adds that no two requests are of one run and that
  whoever polls holds a live lease in its own name; `OneSweep` follows.
  `WithinBudget` needs neither: `BudgetInv` says that the calls that went out and
  those that are granted and not yet made are together at most what is charged
  and what was handed back; a step that did not raise hands nothing back.
  The second is a sum over the requests in flight, and is stated without one, as
  the size of a set of pairs of a request and a number up to its grant, so that a
  step adds or takes away one request's pairs and no induction is needed.
  `SerpInv`, for `SerpCapHolds`, counts the same way: what is billed and not yet in
  the counter belongs to a request in flight that read the counter below the cap,
  and is at most a batch of each. `CheckInv`, for `OneCheckADay` with `~Overlap`: a
  run that measures, or is about to, holds the day's check until it gives it
  back, slow steps and lapsing leases included. `FullInv`, for
  `ScheduleMovesOnFullSweep`: what a request does not count as pending is stored,
  failed in a batch that ended a sweep, or was replaced, although its list of tasks
  may be older than the day's answers; an answer leaves the day's document only
  into `missed`. It assumes nothing of calls, consoles or leases.
* **`SheetRowsProofs`.** `OneBatchLands`: `StampInv` says that what is in flight was
  planned on the sequence the tab now has, by a caller that has no stamp on it.
  It is inductive because a landing bumps the sequence and so disables every
  other batch in flight, and a caller plans again only from a reading that
  shows no stamp of its own. The other properties are about positions.
  `SheetRowsOrder` gives every row of the tab after a batch, or after the sort, its
  place: one more than the number of parts (rows that were there, new mails) that
  go above it. That places are distinct and fill the tab is a fact about any
  finite set in a strict order, proved there by taking away a greatest element; the two
  orders, of the parts of a batch and of the sort, are shown to be such. Counting
  what goes above a row gives `Landed` and `Pushed`, so the rows that
  the code computes from its own reading are the rows Sheets makes. `FitInv`: while
  the person has moved nothing since a batch was planned, the batch fits the rows
  (its new mails are not on the tab, each index is the one the rows give now), as
  a note changes no id and a landing leaves nothing in flight; and no mail is
  twice on a tab where no batch crossed a move. From it follow `ReportsTheRows`,
  the refinement `IsMailLog` (a move, a typed row and the sort are stutters of the
  log, and a landing is a `Write`), and `MarkedIsNewestFirst`, whose inductive form
  (`OrderInv`) is also about the sorter that has found the tab in order and has not set
  the marker yet. The proofs assume that there are finitely many mails
  (`SheetAssumption`) and that the tab starts with each mail on one row and
  nothing noted (`StartAssumption`); tabs and batches are of any size, and calls of any number.
* **`InboxFireProofs`.** Types; `SheetInv` (the batches in flight and what their
  fires know of the sheet agree), from which each step of the poll is a step of
  `MailLog` or leaves the log alone (`PollIsMailLog`); and `Covered`, the inductive
  form of `NoMailLost`: every mail has had its row, is deleted, is after the
  checkpoint or in the backfill, *and* what each fire is about to save keeps it
  so. The second part is what an overlapping fire with an older reading needs; for
  a fire of a former connection it is not so, and what its save strikes off
  goes to `forgotten`.
  `ReviewRowsTracked` is about the other half of a fire, from the landing to the
  tracking documents: while no fire was cut short in between or outlived its
  lease or its connection (`~behind`), one fire at most is at work, every row that needs review and
  is not known to the tracking documents is in the hand of that fire, and what it
  will write of a mail agrees with the row (`ReviewInv`).
* **`PrBrandProofs`.** Types; `SaveInv`: a save whose base is still the revision was
  checked against the very card it replaces, which gives `EditorsAreItsOwn` and the
  refinement of `CardLog`; `ReadInv`: who reads holds the lease or is tardy.
* **`SheetPullProofs`.** `PullInv` is types, `KeptUntilReplaced`, the lock, and what each
  request's locals say: at the listing, every steady platform to be swapped is
  still to be written (`Stage`); what was listed is older than what is written
  later, so once a platform is done, or lost, its old runs have a newer stored
  run (`Swap`); what a sweep has listed is replaced, or is `mistaken` (`Sweeping`).
  The disk needs a clause of its own: a run on the disk of a whole pull that was
  never stored is older than the pull's own stored run, as the lock keeps every
  other pull of that instance away. It is why the sweep of a whole pull is safe
  and the one after a single tab is not.
  `CleanAtRest` (`CleanInv`): every outdated stored run of a tab is attended by a
  pull at work, which has it on its list or will list again before it ends; a
  pull that drops out of this without sweeping (it raised, died, could not delete,
  or took a stored run for lost) is what `untidy` records, and a later complete
  sweep makes up for it (`sweeper`).

Model-checked only: the liveness properties, `LeaseIsGivenBack`, `EverySweepEnds` and
`MailReachesTheSheet` (fairness and ENABLED are out of the provers' reach).

## Findings

`PrFlowSameLabel` is shown by a run, and `PROJECT.json` quotes the lines it
contradicts: two versions share a label, and the staleness check passes for one
nobody saw.

The modules also have the following behaviours, each of which a comment of the
code argues against; no run is kept for them.

* PR Writer. `create_run` writes the flow, its screen's decision included, before the
  checkpoint that flags the escalation (`pr_writer.py:1084-1089`). Until then
  other requests find a run that is screened and not escalated, and run its next
  steps; if the request dies or the checkpoint fails it stays so, as the screen
  step finds nothing pending and does nothing. A screen that is retried after a
  checkpoint whose answer was lost decides again, and `_do_screen` ignores that
  `complete_pr_step` wrote nothing: it saves the second decision, and if that is
  to escalate, nothing is flagged (`pr_writer.py:1176-1187`,
  `firestore_repo.py:2889-2893`). A retried package writes away the notes that were
  written meanwhile (`pr_writer.py:1283`). A clear or an approval that was on its
  way when the run was closed still happens. A flow over 400000 bytes is refused
  after its version was written. A quote that is re-attributed between the
  reading and the approval is approved (`attest_pr_quote` compares the text
  only). A run whose 2000 events are used up, comments included, can no longer
  be approved. A person whose suggestion outstays its lease and who asks again
  gives back, at the end of the first, the lease the second works under.
* GEO polling. All calls of a batch go out before the first answer is looked at, and
  a step that raises on one gives back the charge of those after it
  (`geo_poll.py:869`, with the `finally` at 1522), "calls that never went out"; the
  day's cap can then be passed by as many. `test_geo_poll.py:620` takes this path.
  An error replaces a stored answer, as tasks are listed before the
  lease is taken. A failed call of the last batch counts as done, and the
  schedule moves with its task pending (`geo_poll.py:1549`, against the docstrings
  at 523 and 1240). A check is given back although its run stored answers,
  and a second person checks the brand that day: the step that gives it back
  looks only at the engines it asked for, so it is enough that the monthly cap
  has dropped the SERP engines and the other calls fail, that the run's next step
  asks for other engines, or that a failed call of another sweep, listed before
  its answers were stored, replaced them. The docstring has "it stored no answer,
  so nothing was measured" (`geo_poll.py:725`). Two steps of one run, or a step whose
  lease lapsed and the next run's, poll one batch twice. A console that asks for
  some of the engines moves the schedule of all.
* Inbox triage. A fire that dies after its rows landed leaves rows that need
  review and are never asked again (`ReviewRowsTracked` names the cases). A fire
  still running at a disconnect re-creates the documents that were deleted. One
  that is still running when she connects again persists over the new
  connection: `_persist` looks at no lease and no connection, so its backfill,
  "done" perhaps, replaces the fresh one, and unread mail from before is never
  listed (`pipeline.py:966-997`; `connect` clears the lease without waiting). If its
  token is refused meanwhile, it marks the new connection revoked (1079-1092).
  Relisting after an expired history adds rows again that the person removed. A
  fire that is given 30 to 64 seconds handles no mail, as 65 are reserved for
  its writes.
* Marketing Research. A `set()` that raised after it was applied counts as not
  stored (`runs.py:202-208`): a pull of one tab then ends without its sweep and
  leaves two stored runs of the tab (`marketing_research.py:844-850`). So does a
  pull that raises at `write_text` or `unlink`. Readers take the newer, and the next
  complete sweep removes the older. The sweep after a single tab goes by what the instance
  lists, its own disk included: if an earlier pull of another tab on that
  instance was not stored, the sweep deletes that tab's stored run, and the tab
  is empty once the instance is gone, contrary to "the newest run always
  survives, so this can never empty a tab" (`marketing_research.py:865`). A run's
  stamp is taken when it is written and not when the workbook was read, so that
  the slower of two pulls puts older figures in front. A deleted dataset is
  still listed by an instance that has it on its disk.

## Plan

In order of what matters most; each module gets an instance, a run or two and,
where it is named, a theorem.

1. Done: `PrRun`, `PrFlow`, `GeoPoll`, `SheetRows`, `InboxFire`, `PrBrand`, `SheetPull` and
   their proofs.
2. `GeoCron` and `InboxCron`: the order over brands and users and the shared wall
   clock on top of `GeoPoll`'s and `InboxFire`'s abstractions (a sweep takes time and
   completes or not). Property: no due brand waits for ever. Run: three brands,
   a budget of two sweeps.
3. `Templates`: the versioned head of Marketing Research's report templates
   (`runs.py` from 366): commits, trimming and the local copies.
4. `DecodeSlots` and `BrandRegistry` (Graphics designer): three decoders for two
   slots, a cache and two writers.

## Not modelled

What the models write and the pure checks on texts (claims, quotes, style,
mentions, scores); exports, listings and reads that change nothing; sizes in
bytes and the refusals they cause; wall-clock budgets of the crons; months and
the rollover of the SERP counter; configuration and prompts changing under a
sweep; history, run log and answer counters of GEO; the Worktree tab, the header
check and its repairs, and stamps that age out, of the Inbox sheet; the
cooldown, the lead summary (swapped like the totals, after them) and clocks that
differ, of the pulls. The components marked not modelled in `PROJECT.json` give
their reasons there.

Most of the repository by lines is of these kinds: parsers, scoring, prompts,
report rendering and layout of Marketing Research and the Graphics designer,
audits and texts of the GEO and blog agents. They keep no shared state, one
call's result does not depend on another's order, and a model of them would
repeat them. The modules cover the code whose correctness is a matter of order,
failure and repetition, which is a small part of the lines.
