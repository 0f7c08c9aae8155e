# A TLA+ model of monloader

monloader fetches posts, galleries and metadata with gallery-dl and pushes them to a
monbooru instance. It is one Go process: an HTTP API and a web UI submit jobs to a queue,
a few workers run them, and SQLite files keep what must survive a restart. This directory
models it in TLA+, checks it with TLC and proves part of it with TLAPS. Paths below
are relative to `src/`.

## 1. Inventory

### The queue and its neighbours (`internal/queue`)

| Component | State | Operations | What makes it correct |
|---|---|---|---|
| **Job queue** (`queue.go`, `worker.go`, `job.go`) | FIFO with three lanes, running set with a context per job, history ring of `max_finished`, an index of all three, `nextID`, `closed`, `paused`; per job a status, a run and a `done` channel | Enqueue, Wait, RecordPTRLookup, Retry, Cancel, CancelLive, CancelPending, Clear, ClearSucceeded, the retention sweep, Pause, Resume; nextJob, runJob, finish; Start, Stop, Close, UseStore | a job is in one place and on one worker; a run settles once; every parked Wait is woken; a waiting job is served; shutdown ends |
| **Queue store** (`store.go`) | tables `jobs` (guarded by a sequence number) and `watches`, counters (id high-water marks, lookup spend) | SaveJob, DeleteJobs, Load*, InsertWatch, Set*, SaveWatchCheck, DeleteWatch, SaveCounter | rows follow the memory however the writes are reordered; removed rows stay removed; ids are not issued twice |
| **Series** (`queue.go` Continue/RetrySeries/CancelSeries, `job.go` windowEnd) | the windows of one search: offset, size, items, capped flag, chain or target | Continue, ContinueAll, the automatic chain, reconcileSeries, RetrySeries, CancelSeries, CancelLive, ClearSucceeded | no post is passed over in silence or listed twice; a chain delivers what was asked |
| **Watches** (`watch.go`) | saved searches in memory and on disk, each with the record of its last check | AddWatch, RemoveWatch, SetWatchInterval/Items, CheckWatch, the minute's tick, the stamp and the record of a check | one check at a time; a due watch is checked; the record is of a check that ran, whole, and of this watch |
| **Scheduled-lookup budget** (`budget.go`) | day, spend, limit; one counter row | TakeLookupBudget, LookupBudget, SetLookupBudget, reload | no day is charged more than its limit, whatever restarts |

### The tag repository (`internal/ptr`, `internal/api/ptrcontrib.go`, `internal/pipeline/contrib.go`, `internal/web/handlers_ptr.go`)

| Component | State | Operations | What makes it correct |
|---|---|---|---|
| **Engine and index** (`engine.go`, `store.go`) | `ptr.sqlite`: rows, cursor, coverage, the address it was built from, the mark of a complete index; in memory a state, `everReady`, `paused`, a nudge channel; the settings file | Enable, Disable, Delete, Pause, Resume, Retry, SetAddress, the settings page; the sync loop: poll, fetch, replay in a transaction, mark, back off | the index is a prefix of one repository's updates; a partial build answers nothing; a pause takes, a retry is heard, a lagging index catches up; no call hangs on the loop |
| **Contributions** (`contribstore.go`, `contrib.go`, `api/ptrcontrib.go`, `pipeline/contrib.go`) | staged edits (staged, sending, failed), a ledger with outcomes; send jobs in the queue | stage, resend, rescind, rescind all, send the backlog, undo a committed add; claim, gates, re-check against index and ledger, post in chunks, complete, fail; outcomes at the end of a sync pass | an acknowledged edit is never lost, stranded or in two sends; what was rescinded is not sent; a removal is not dropped while the add stands |

The engine and the contributions meet in the coverage: the ledger dates an add, the index
says up to which update it knows, and only the two together tell whether a fact stands.

They interact as follows. Request goroutines call the queue's operations; each takes
`Queue.mu` once or several times, and whatever reaches the database, the `done` channel or
monbooru does so *after* the unlock. Workers sleep on a condition variable, take the head
of the FIFO, run `Processor.Process` with a cancelable context and move the job to the
ring; then the worker that ends a window chains the next one, records the watch and
reconciles the series. `main` loads the store, starts the workers and the ticker, and at
a signal calls `Stop`, drains the HTTP server (with a deadline, and while requests are
still served) and calls `Close`.

### The jobs (`internal/pipeline`, `internal/gdl`, `internal/similarity`, `internal/monbooru`)

| Component | State | Operations | What makes it correct |
|---|---|---|---|
| **Download jobs** (`processor.go`; `gdl/gdl.go`, `gdl/directfetch.go`) | the rows of the running job and what its two listings returned; gallery-dl's archive of fetched posts; monbooru's library | resolve (window, whole, deep), download file by file, pair a file with its row, push, bundle a book, settle, retry past the archive | an archived post that never arrived is owed by a job that says so; a row says what happened; a success is whole |
| **Enriching jobs** (`lookup.go`, `replace.go`, metadata; `client.go`; `similarity.go`) | what a run knows, the image's file and the PTR index outside it, the cooldown of each service | read the image, walk the chain, fetch and compare candidates, ask the PTR, push, note, replace, report | monbooru hears one true verdict of every run; what lands fits the file; a cooldown stands |

The two halves share the queue and meet in the report: monbooru keeps one verdict for each
job, the queue sends one for a job it drops before its run, the processor for one that ran.

### The console (`internal/web`, `internal/config`, `internal/shared`)

| Component | State | Operations | What makes it correct |
|---|---|---|---|
| **Pairing and tokens** (`pairing.go`, `pairing_approver.go`, `shared/pairing`, `shared/apitoken`) | the token monbooru shows, the list of tokens, the attempt being polled, the extensions' requests | connect, poll, cancel, remove; file, approve, claim, mint, hand over, tear down; create and revoke a token | one approval is worth one token; what ended stays ended; both ends name the same pairing |
| **Sessions** (`auth.go`, `shared/session`) | the password, live sessions, each browser's cookie | log in and out, expire, set, change and remove the password | a change signs out everybody else and not who made it |
| **Settings** (`config`, `web/handlers*.go`, `mapping/userprofiles.go`, `gdl/config.go`) | the file, the layer served, the profiles, and what is derived: the mapper's view, site lists, the managed gallery-dl config, limits, key | each save of the console, restart | file and layer do not part; what is derived follows |
| **gallery-dl install** (`web/gallerydl.go`, `gdl/managed.go`, `standalone.go`, `catalog.go`) | the one-file build, the venv, the catalog, the claim, the pause | install, revert, the guard, the panel's probe, restart | no job runs on two releases; a failed install leaves one that runs; the catalog and the pause are right afterwards |
| **Mapping rules** (`mapping`, `ptr/cleantag.go`, the seeding of `config.go`) | none (pure) | tag and PTR spellings, categories, ratings, extras, the lookup chain | the tables undo one another; a push has one rating |

### The rest

PTR queries, wire formats and the contribution client, the HTTP API and the pages of the web UI, the
desktop integration, the entry points, shared helpers and assets: no state but the above, or
the operating system's. Every component, with its status and the reason, is in
`PROJECT.json`; so is the list of hazards, each at its line.

## 2. Modules

| Module | Stands for | Extends |
|---|---|---|
| `JobQueue` | the queue, its workers, its store, boot and shutdown | |
| `JobLifecycle` | what the queue promises of its jobs, abstractly | |
| `JobQueueProofs` | where a job is, who holds it, what becomes of it, and the ring: proved | `JobQueue` |
| `QueueStoreProofs` | what the queue leaves in its store and whom it wakes, proved | `JobQueueProofs` |
| `Series` | the windows of one search | |
| `SeriesProofs` | its windows and chains, proved | `Series` |
| `Watches` | saved searches, their checks and their rows | |
| `Downloads` | what a download job does between its two listings and monbooru | |
| `DownloadsProofs` | what the archive owes, what rows say, what a success leaves out: proved | `Downloads` |
| `Lookups` | lookups, metadata refetches and replaces of one image | |
| `LookupsProofs` | what monbooru is told, which file the tags land on, cooldowns: proved | `Lookups` |
| `PtrSync` | the sync loop, the index and the settings that drive it | |
| `PtrSyncProofs` | what the index holds and who may speak from it, proved | `PtrSync` |
| `Contributions` | staged edits, their send jobs, the ledger | |
| `ContributionsProofs` | edits, claims and rescinds, proved | `Contributions` |
| `LookupBudget` | the daily budget | |
| `Pairing`, `Sessions`, `Settings`, `Install` | the parts of the console named above | |
| `Rules` | the pure tables of the mapping and the config | |
| `MC*` | instances for TLC: symmetry sets (of requests, and of repositories, that the code never tells apart) and values a cfg cannot write | the module of that name |
| `MCConsole` | one instance of `LookupBudget`, `Pairing`, `Sessions`, `Settings`, `Install` and `Rules`, each in turn | `LookupBudget` |
| `ConsoleProofs` | what that run checks of the budget, sessions, pairing, settings and the install, proved | `MCConsole` |

The parts of `MCConsole` have no state in common in the code either, so a behaviour of the
program is one of each side by side, and a property of one part is a matter of that part's
behaviours: the variable `part` picks the one that runs and the others rest.

### JobQueue

A step is what the code does under one hold of `Queue.mu` or of a `Job`'s mutex, or one
statement sent to SQLite. What an operation has still to do after its unlock is data: each
goroutine has a list `todo`, and an action either begins an operation (`Begin`) or carries
out the head of a list and perhaps puts more in front (`Proceed`). The interleavings the
code really has, between an unlock and the `persist`, the `signalDone` or the
`reportDropped` that follows it, are therefore the interleavings of the model.

| State | Code |
|---|---|
| `pending`, `finished`, `order`, `index`, `running`, `nextID`, `closed`, `paused` | the fields of `Queue`; a slice is its set of members and the order of their pushes |
| `ctx` | the context of each running job: live, or which side canceled it |
| `held`, `asleep`, `exited` | where each worker goroutine is |
| `jobs` | `Job`: status, `seq`, lane, whether it is a filed lookup; `run` numbers its `done` channels and `shut` says which are closed |
| `rowWrite` | the mutex that orders a liveness check and its save with a delete |
| `rows`, `highWater` | tables `jobs` and `counters` |
| `phase`, `boots` | `main`: loading, serving, draining, closing |
| `told` | history: the ids some caller was answered with |

`Save` takes a snapshot and its sequence number, `Write` is the upsert with its guard
`seq >= rows.seq`, `High` the counter: two statements, between which other goroutines and
a crash may come. `Process` stands for the whole of `Processor.Process`: the job may be
settled by the processor itself (`abortJob`), and `runJob` then reads the context *twice*,
as the code does. A panic in `Process` is recovered and settles like a failure. The
database is assumed to accept what it is sent: the code logs a failed write and goes on,
and then none of the persistence properties holds.

### JobLifecycle

Seven actions on a map from ids to `unissued`, `waiting`, `running`, `ended`, `gone`.
`JobQueue` implements it, between two starts, under the mapping `StateOf`; run `clear`
checks it with `Lifecycle!Spec` as a property.

### Series

One search of `Posts` posts numbered from 0, fetched in windows of at most `Cap`. The
windows are `Job`s (offset, max, items, capped, cap, auto, target); `crew` is what each
worker is at between taking a window and reconciling the series; `op` is a loop of the
operator over the windows, one hold a window. `fetched`, `lapsed`, `dismissed` and
`calledOff` are history. `High` is `seriesExtentLocked`, `windowEnd` its estimate of what a
window covers, and `Resolve` what `processDownload`, `processDispatch` and
`processChapters` make of the listing, for both kinds of source: one that returns a page
and one that lists itself whole (`Listings`).
The cap of the configuration stays as it is: lowered or raised between a run and its retry,
windows already placed no longer meet and posts between them are listed twice or not at
all. Other searches share nothing with this one but the workers.

### Watches

Watches in memory (`watches`) and on disk (`disk`, `highWater`), checks as jobs with their
rows, and the records passed from one hold to the next as in `JobQueue`. There is one URL,
so at most one row at a time (the column is UNIQUE) but any number of watches one after
the other, which is what the ids are about. The FIFO is a set and a worker takes any job:
fewer assumptions than the code. `StampWatch`, `RecordWatch` and `ApplyRecord` are the
three holds in which a check is recorded. Left out: the operator's pause of the schedule,
"get next" on a watch's series, ring eviction, and writes that overtake each other.

### PtrSync

One sync loop (`loop.at` is where it is between two holds of `Engine.mu`, two answers of
the repository or two transactions), requests of the operator with a `todo` as in
`JobQueue`, and `lifecycle`, who holds `lifecycleMu`. An update is its number in its
repository, so that `index.applied` says exactly what was replayed, from where and in which
order. `published` grows as the repository pleases; a manifest may be false (`PollNews`),
and a request may fail for good or for a while (`Fault`). Every commit of the index leaves
its forerunners in `past`: the code runs SQLite with `synchronous(normal)`, and a power cut
brings one of them back (`Boot`). Each request first does to the engine, then to the
settings file, in the order the handler has (`Begin`, `Application`). Left out: the data
path, the seed of the census, the progress bar, and what the updates' rows say.

### Contributions

A fact is a mapping (its puts apply at once) or a relation (the janitors decide); an edit
asks to put or to take one. `items` and `ledger` are the two tables, `jobs` the send jobs
with the rows they have in hand (sets of rows: the code goes through its slices in the order
of the ids, and so does `Current`), `req` the requests, one statement a step. Rows are named
by the id SQLite gives them, which is issued again once it is the largest and free
(`NewId`), and by `n`, which the code does not have and which tells the rows apart in the
properties. `mirror` is the engine as `PtrSync` promises it: a prefix of the updates that
moves one update at a time; opening it again makes the store's older handles dead
(`session`). The queue is a set of jobs that start in any order, which assumes less than
the priority lane and the workers of the code. A row that a re-check dropped is not failed
again when the rest of it is: that happens only when the store is closed, where every
statement fails. Left out: spellings, sibling ideals, reasons, the account's standing, the
tag filter (it drops a row as the index does), previews and the pruning of old ledger rows.

### LookupBudget

`clock`, the count in memory, its row, and where each request is: it reads the clock, then
takes `budgetWrite` and `mu`, then writes. `straddled` remembers that midnight came while a
request was between its clock and its lock.

### Downloads

One source of posts numbered by age, of any of six kinds (search, pool, thread, book, title
of chapters, direct link); jobs that run at once over one `archive` and one `library`. A step is one run
of gallery-dl, one file of its download or one push. `Listing` is gallery-dl's order, `Resolve`,
`ResolveWhole` and `ResolveDeep` the passes before the download. `entries` are the lines the download
printed: `PairLine` gives a line its row when it is printed, which `pairDownloads` does when the download
is over, in the same order: the first row not passed yet that is of the line's post, or
the next row when the line names no post, or none, and then the line gets a row of its own. A file or a skip whose
sidecar cannot be read prints a line that names no post (`gdl.go:425`). A post may appear
between the two listings, a file may fail without a line, and a pass may be cut short. A job also fails when its work directory
cannot be made (`WorkDirFails`) and, anywhere, when `Process` panics (`Panic`). `entries` stay when a job has ended, for what its rows are to
be held against. A
retry starts without rows and, unless the job had succeeded, runs past the archive (`force`). History: `took` (who
put a post in the archive), `missed` (what a job took and a succeeded run of it did not list), `books`, and of a run
`there`, `listed`, `short` and `gap`. Left out: a site of the booru kind with no profile; the offset of
a book is 0.

### Lookups

`job[j].kind` is one of `booru`, `ptr`, `all`, `metadata`, `replace` and `hash` (an import's
walk). A step is one call out (to monbooru, a service, a site, the PTR) or what the run
decides from its answer. `chain` is the lookup order of the run and `left` the places in it
that are still to be asked. A lookup of the sites alone checks the image's hash too when the
request came with one; a lookup of the PTR alone always has one (`LookupsAssumption`: the
handler refuses it otherwise). A file is a version number of the image; a post's file and the hash
claimed for it are such numbers, so that `PtrTagsFit` can tell tags of one file on another.
`trail` is which sources said why they gave nothing. `told` is the record monbooru keeps,
`drops` the queue's reports on their way. Two failures reach monbooru by no report: a panic that
`runJob` recovers (`Panic`, at any stage) and a work directory a replace cannot make
(`ResolveReplace`); `mute` remembers them. The client keeps `until` of each service; `closed` is
every end of a closure the service's answers announced, so that `CooldownsStand` compares a search with
what was said and not with what was kept. `Search` and `FetchThumbnail` look at the cooldown and send in one step
(`similarity.go:129`): an answer that closes the service between the two does not hold the query back, which
counts as under way when the service said so.

### Pairing, Sessions, Settings, Install

A handler is one action where the code holds one lock from its first read to its last
write, and several where it lets go: at each call out, at each hash of a password, between
the save under `updateConfig` and what is derived from it. `Settings` states this as data: a request
is a sequence `steps`, and `Ask` picks one of the console's saves with the steps its handler
has, in order. A setting is one of five kinds that differ in what follows from them. `Install`
has the disk as two records, `one` and `venv`, each with whether it runs. Ghost variables
(marked so) remember which excuse a property makes, and each excuse is a row of section 5.
`Pairing`'s far ends, monbooru and the extensions, are external and do what the API lets
them. Left out: token names, scopes, CORS and naming rules; the backoff, CSRF tokens and
cookie attributes; validation; removal of an install is all or nothing.

### Rules

A tag is a sequence of tokens: a word, or one of the characters the rules look at. Each rule
is an operator named as in the code, and a behaviour is one case: `kind` says which rule,
`input` ranges over every name of at most `MaxName` of the six `Letters` (and three longer
ones), over raw posts under every kind of profile, and over every config of before the
similarity services. Left out: upper case, quotes, control characters and the
scripts `CleanTag` treats apart; labels, commentary and notes.

## 3. Runs

Every run is exhaustive within its bounds; the largest have between one and three million
distinct states.

| Run | What is in play | Bounds, and why they are enough | Shows |
|---|---|---|---|
| `clear` | 2 workers, 1 caller, 2 jobs in a ring of 2, each run twice; enqueue, retry, clear, sweeps, filed lookups | one job ends on a worker while the other is removed; two runs give a retry against everything of the first | `TypeOK`, `OneWorkerPerJob`, `RowsFollow`, `ImplementsLifecycle`, `SettledOnce` |
| `crash` | 1 worker, 3 callers, 1 job, 2 starts; cancels, clears, stop, crash | a crash between any two statements and a reload; a caller waits while another cancels and a third clears | `WaitersAreWoken`, `RestartFindsAll` |
| `live` | 1 worker, 1 caller, 2 jobs in a ring of 1, two runs, pause, stop, fair | the ring overflows by one; a sleeper, a retry and a stop are what a lost wake-up needs | `OnePlace`, `RingInOrder`, `Served`, `CloseEnds` |
| `series` | 2 workers, 5 posts, cap 2, 3 windows, each run twice, 2 operations of the operator | the last window is short or cut; three windows are the least in which an order of ends matters; a target of 3 is no multiple of the cap | `EveryPostHasAWay`, `NoDoubleFetch`, `ChainIsKept` |
| `watches` | 1 worker, 1 caller, the tick, 2 watches in succession, 2 windows, 2 starts, 2 operations | a removed watch, its successor and a job of the first; a check and its second window | `OneCheckAtATime`, `MemoryIsTrue` |
| `due` | 1 worker, 1 caller, 1 watch, 2 intervals, fair | a check that ends in each way, and one canceled or in the history | `DueIsChecked` |
| `downloads` | a job of any kind and, but for a book or a title (which share nothing with it), a search beside it, 3 posts (one of a type monbooru refuses), cap 2, catch-up after 2; one retry, one cancel or restart, one fault, and, for a job by itself in which a skip has named no post, a second one (`OneNameless`) | the source is one post longer than the window and can grow between the two listings; the second job takes posts the first one counted on | `NothingLost`, `RowsTellTruth`, `SuccessIsWhole` |
| `lookups` | 2 jobs on one image, a lookup with the PTR or an import's walk beside a lookup (with the image's hash or without), a refetch or a replace, sharing a service; 2 versions of the file; one event (a lost call, a replaced file, the index, a cancel, the clock) and one retry | two answers of one service cross; a file is replaced between the check and the push; a walk of two sources | `EveryRunIsTold`, `ReportsAreTrue`, `PtrIsFit`, `CooldownsStand` |
| `ptr_sync` | 2 requests at once, 2 repositories (symmetric, as the requests are) of up to 2 updates, 1 fault, 2 starts; saves, deletes, crashes, power cuts | two addresses and a save with a delete are what mixes indexes; a second update is what can be skipped, repeated or lost; the last commits are lost once | `IndexIsPrefix`, `CompleteIsWhole` |
| `ptr_live` | 1 request after another, 1 repository of 2 updates, 1 fault, every call, fair | one loop and one call under way at each of its steps; a second call follows the first | `SyncMovesOn`, `LifecycleEnds` |
| `sends` | 2 requests at once, a mapping and a relation, 2 rows, 2 send jobs, chunks of one, 2 updates, 1 fault, 3 calls of any kind; a put with a take in one request, and each other edit alone | the second row is what a chunk leaves for later; two jobs meet in one row; an update in mid-send moves the index between two looks | `OwedIsKept`, `ClaimsHold`, `EditsAreHonoured` |
| `console`: budget | 2 callers, limits 0 to 2, 2 days, 2 starts | two requests for the last lookup, a crash before and after the write | `LimitHolds`, `RowCounts` |
| `console`: pairing | monbooru, an extension with a remove button and one without, 2 pairings asked for, 2 polls at once, 2 faults | a poll of an attempt that has ended beside one of its successor; two polls for one approval | `PairingsAgree`, `EndedStaysEnded` |
| `console`: sessions | 2 browsers, 3 sessions, 2 saves of the password | who changes it, and everybody else | `ChangeSignsOut` |
| `console`: settings | 2 requests at once, 5 kinds of setting, 1 failed write, 2 starts | a request and one that overlaps it | `SavesLand` |
| `console`: install | 2 requests at once, 3 releases (one with no one-file build), 2 jobs, 1 failed step, 2 starts | an install over each kind of install, in each order | `SwitchIsSafe`, `SwitchIsTold` |
| `console`: rules | every name of up to 3 of 6 tokens | a namespace, a colon and a name; a separator on each side of a word | `TablesAgree` |

A property that names several things is the conjunction of definitions stated one by one
beside it, each with a comment of its own; each has a mutant of its own too, so each does
work. The type invariant of `JobQueue` is checked and proved; those of `LookupBudget`, `PtrSync`,
`Contributions`, `Lookups` and `Series` are proved as part of the invariants of section 4.
For the other modules that have one it is the base of the invariants to be proved (section
6), and no standing run is spent on it.

Deadlock is not checked: every one of these systems may stop for good (nobody calls, the
bounds are used up, the process has exited).

**Fairness.** `FairSpec` of `JobQueue` and of `Watches` says that goroutines run on (weak
fairness of each worker and of each goroutine with something in its `todo`), that
`Process` returns, that the HTTP drain ends (it has a deadline) and that the minute's tick
comes: the Go scheduler and `time.Ticker` provide it, and each of those actions, once
enabled, is disabled only by being taken or by an action that discharges the property.
`FairSpec` of `PtrSync` says that the sync loop runs on, its timers included (`waitWake`
selects on a `time.After`), and each request under way: again the scheduler, and the
client's deadlines for an answer of the repository. It does not say that the repository
publishes or that it fails.

Nothing obliges a caller to call, a request to expire, the clock to reach midnight or the
process to stop. `Served` is therefore false without the broadcasts, which is what its
mutant removes.

The other modules have no liveness property: what a job or a request must bring about is
stated as what its end may not leave undone (`EveryRunIsTold`, `NothingLost`,
`SwitchIsTold`), which needs no fairness and says as much, since each of their steps is one
the scheduler or a deadline ends.

Each property of a passing run has, in `PROJECT.json`, a mutant: an operator of the module,
named `<definition><what is wrong>`, that replaces a mapped definition as a plausible
mistake in the code would, and makes that property fail.

## 4. Proofs

Eight modules hold proofs. Their theorems are of every value of the constants: any number of
workers, callers, jobs, windows, rows, updates, repositories, faults and restarts, any cap, ring
and limit. The bounds of the modules (`MaxRuns`, `MaxEvents`, ...) are among these constants. Each
module has an inductive invariant (the longer ones a second, which rests on the first). TLC
checked them on the runs' instances before they were proved. Then come a lemma that the initial
states have it, one lemma for each action (or each group of actions that touch the same
variables) that it keeps it, and the theorems.

| Module | Theorems | States |
|---|---|---|
| `JobQueueProofs` | `TypesAreKept`, `JobsHaveOnePlace`, `JobsHaveOneWorker`, `RunsSettleOnce`, `QueueImplementsLifecycle`, `LivesFollowLifecycle`, `RingKeepsOrder` | `TypeOK`, `OnePlace`, `OneWorkerPerJob`, `SettledOnce`, `ImplementsLifecycle`, the same across crashes and stops, `RingInOrder` |
| `QueueStoreProofs` | `RestartsFindAll`, `RunsAreOnDisk`, `RemovalsLast`, `WaitersAreNotForgotten` | `RestartFindsAll`, `RunningOnDisk`, and, each up to one race, `RowsFollow` and `WaitersAreWoken` |
| `SeriesProofs` | `TypesHold`, `PostsAreListedOnce`, `TargetsStand`, `ChainsArriveAndStop` | `TypeOK`, `NoDoubleFetch`, `TargetKept`, `ChainIsKept` |
| `PtrSyncProofs` | `TypesHold`, `IndexKeepsPrefix`, `CompleteStaysWhole` | `TypeOK`, `IndexIsPrefix`, `CompleteIsWhole` |
| `ContributionsProofs` | `TypesHold`, `EditsAreKept`, `ClaimsAreHeld`, `EditsStayHonoured` | `TypeOK`, `OwedIsKept`, `ClaimsHold`, `EditsAreHonoured` |
| `DownloadsProofs` | `PostsAreNotLost`, `RowsStayTrue`, `SuccessesAreWhole` | `NothingLost`, `RowsTellTruth`, `SuccessIsWhole` |
| `LookupsProofs` | `RunsAreTold`, `ReportsStayTrue`, `PtrStaysFit`, `CooldownsHold` | `EveryRunIsTold`, `ReportsAreTrue`, `PtrIsFit`, `CooldownsStand` |
| `ConsoleProofs` | `BudgetIsKept`, `RowIsNotBehind`, `ChangesOfPasswordSignOut`, `PairingsStayTrue`, `WhatEndedIsNotPaired`, `SwitchesAreSafe`, `SwitchesAreTold`, `SavesAlwaysLand` | `LimitHolds`, `RowCounts`, `ChangeSignsOut`, `PairingsAgree`, `EndedStaysEnded`, `SwitchIsSafe`, `SwitchIsTold`, `SavesLand` |

**The queue.** `OneWorkerPerJob` says nothing of what the workers are about to do, and
`OnePlace` must know that a job is settled when its worker moves it to the ring. The
invariant `IInv` adds `Steps` (each item of a `todo` has arguments of its own
kind; the items only a worker has, `start`, `process`, `settle` and `finish`, occur at most
once in its list, in no other list, and exactly while it holds a job), `FinishesSettled`
(the job a worker is about to finish is settled) and `Grounded` (no id is ahead of its
issue, and a process that is down has no jobs). The prover takes an item of a
list through `Elems`, the set of its items, for which the module proves a few lemmas.

**The life of a job.** `JobQueueProofs` then shows of every step what it may do to a job's
status (`Moves`): nothing, something to a job that is not settled, or a reset that gives it a new
run. `SettledOnce` follows, with `Issued` (no job has a status before its id is issued).
The refinement is shown action by action: each step of `Next` is a named
step of `JobLifecycle` under `StateOf`, or leaves `States` alone. Two theorems state it.
`QueueImplementsLifecycle` is the run's property, from the initial state on, and assumes what
the run's instance has: no crash and no stop among `Calls`, as `JobLifecycle` knows of no restart
(a boot gives a job of the store a state without a submission). `FirstLife` then says
that the one boot there is finds an empty store. `LivesFollowLifecycle` drops the hypothesis: with crashes, stops and reloads, every step of
a process that is up, before and after it, is a step of the life cycle. The order of
the ring needs `Lined`: `order` is a strict total order on the ring and on each lane of the
FIFO, relates nothing else, and the ring holds `MaxFinished` at most; that an eviction
leaves no more is a fact about finite sets, proved first (`KeptFit`).

**The queue's store.** The memory and the database part between an unlock and the statement
that follows it, so the invariant `Sane` is about the steps still in hand. `Dated`: no snapshot
under way is ahead of its job, no row ahead of both, and what is to be deleted has left the index
for good. `CaughtUp`: of every listed job the latest snapshot is in its row or in some
goroutine's hands and has its status, or a goroutine has yet to take one. `Marked`: an id that
was told is below the high-water mark, and who is about to tell one raises the mark first.
`Locked`: an unlock is in the list of the holder of `rowWrite` alone. `OnDisk`: while a worker is
in `Process`, or about to be, a snapshot that says so is in the row or before `Process` in its
own list, and no later snapshot takes it back. Each action is described once, by what it does to the steps in
hand and the rows (`Followed`); that such a step keeps the invariant is proved once, for all
of them, and boots and crashes separately.

`RestartsFindAll` and `RunsAreOnDisk` hold without conditions. Two properties are false of the
code in general (section 5), each because of one race, and their theorems are of the behaviours without it:

- `RemovalsLast` assumes `NoneOvertaken`: when a job leaves the index, or a boot leaves it
  out, no goroutine still has to write its row without a delete of it afterwards. The code
  ensures it where it uses `persistKept` and `persistDelete`, which take `rowWrite`;
  it does not where it uses `persist` (`Enqueue`, `Retry` and others), nor in `UseStore`, which deletes
  the rows of evicted jobs and then saves every interrupted job, evicted ones included.
- `WaitersAreNotForgotten` assumes `RetriesAreSignaled`: a job is not run again before the end of
  its last run was signaled, which a Retry between `finish`'s move and its `signalDone` breaks.

Every behaviour of run `clear` satisfies the first and every behaviour of run `crash` the second
(TLC, with the hypothesis as a property), so neither hypothesis asks for more than the runs do.

**Series.** `NoDoubleFetch` speaks of what two windows have listed; what makes it true is
where they are. `Placed` says that a run lists what the place of its window holds or nothing
(`Fits`), that a window starts past what an earlier one *may* list, listed or not, unless
that one had nothing when the later one was made (`Apart`), that only the root may have no
size and that every other window lies past what the root may list (`Rooted`): a root that is
retried with no size of its own reserves nothing, and is the case a test would miss. `Aimed`
gives `TargetKept`. That a chain arrives is the invariant
`Straight`, of a series nobody meddles with: its last window starts where the fetched posts end, the earlier ones
were all full, and exactly one of the FIFO and one worker has it (`Underway`); or all that was
wanted is fetched or a window failed, and no worker will submit (`Over`). That `High` is the largest end,
for any number of windows, is proved from a well-founded order, since `Largest` is a CHOOSE.

**The tag repository.** `IndexIsPrefix` is of one database; a power cut brings back an
older one, so `Sound` is stated of the index and of everything in `past`. What the
sync loop is about to write depends on what it read (`Looping`: at each place it
is at, how `loop.left`, the cursor and the coverage stand to each other), what a request may rely on depends on who holds
`lifecycleMu` (`Locks`: a list of steps that takes the lock lets go of it, and only its holder is at a locked step;
`Work`), and the engine in memory is never ahead of its store (`Engine`).

`ContributionsProofs` has the claims at its centre (`Claimed`): what a send has in hand is in the table, under way
and the same row (`Backed`), as long as its handle of the store lives; each such row has one
owner and none is without; and since ids are issued again, a number names one edit in
the table and in every hand (`Numbered`, `OneEdit`). `Shaped` says which of its lists a send uses at which stage,
`Looking` what it may conclude from the index and the ledger it has read. `mirror` there is what `PtrSync` proves
of the engine, taken as the assumption section 2 names.

**Downloads.** The three properties are about what a job ends with, and the reason is spread over the
listings before. The invariant is of each job (`JobInv(j)`) and of all (`Taken`: whatever is in the archive some job took).
Of the two listings it says that the rows name a stretch of the source as it once was (`Named`), that
the download lists in order and skips no post between two it lists (`Ordered`), which row each line is about
(`Lines`: a line that names its post is in its row), and that, as long as nothing has failed, a row that was passed, with a line that names its post
or not, is of a post the archive has or the download did not list (`Clean`). `Rows` and `True` carry that to the rows, one after the other as
they are settled. `NothingLost` is `Paying`: a job that took a post which monbooru does not have has not succeeded, and when it runs
again it bypasses the archive; if it runs without bypassing it, it took the post in this very run, and a line of it or a failed row
is there to show for it. `UncappedIsAll` is `Covered`: by the end every post of `there` has a row, or a row has
failed, or both passes came up short, or a nameless skip stands for what the second left out. A step of one job changes another's view only
by letting the archive, the library and the source grow (`Grows`), and the invariant stands that (`FrameIs`).
Proving it found what the run's bounds do not reach: a job whose retry succeeds though neither of its listings
shows the post (section 5), which is why `missed` is there.

**Lookups.** A step of a run touches little but its own record, so the invariant is of
each run: `RunOK(j, r)` says what the record of a run may say at the stage it is at. `Walked`: every source of the
order that is no longer `left` gave something or is named in the trail. `Claimed`: the hash sent
along is the post's. `Whole`: whoever asks the PTR has checked the file and seen the index
whole. `Landed`: what changed the image agrees with the verdict. `Settled` and `Dropped` tie
the runs to `told` and to the reports on their way, which may be of an attempt before. `Cooling`:
no announced end is past the cooldown kept; with it each step asks only a service that is `Open` (`Goes`).

**The console.** `ConsoleProofs` has an inductive invariant for each part, over all the part's
own constants, and then `Runs`: a behaviour of `MCConsole` is one of each part, so that what is proved of a
part is proved of the run's properties.

- The budget's says who holds `budgetWrite` and relates the answers given, the
  count in memory and the row, the one write under way included.
- Of the sessions: a live session of an older password exists only while a browser that changed it has yet to sign the
  others out (`SignedOut`), and which browsers can be on that way, with which version and session (`Changing`): the
  handler reads the version, hashes, saves and clears in four steps, and logins and other changes come between.
- Of the pairing: each half of the link implies the other (`Whole`); an approved request becomes at most one
  token (`Approvals`); monbooru handed out whatever token a poll, the configuration or a removal holds
  (`Handed`), and it is in one of these places only (`Once`); an attempt that is over is not the one in
  memory nor one that is being saved (`Attempted`). `Ends` lists what may still separate the two ends.
- Of the install: one request is past the guard (`Guarded`), no job that counts runs while one changes the disk
  (`Unmixed`), what the request remembers of the pause is what the operator wanted (`Held`), a file that does not run
  is removed before the switch is over (`Unshadowed`), and the catalog is of the binary that answers, or a request under way will
  see to it (`Cataloged`).
- Of the settings: the steps a request has left are one of a few sequences (`Walks`), and with them go what it touches and
  posts (`Way`). Whatever is derived is current, or tainted, or a request still has the step to come that makes it so
  (`ViewCurrent` and the like), and that request holds nothing staler than the settings (`InHand`). Of two requests
  that touch the same neither was alone (`Apart`). A profile about to be written keeps its md5 search while its site is in the
  chain (`Keeping`).

**Assumptions.** The named ones of the modules, which TLC evaluates on every run: goroutines of
different kinds are different, workers are finitely many, bounds are naturals, a cap is at
least 1, a PTR lookup has a hash, versions of gallery-dl are positive, no variable of the environment
is for the lookup chain (`applyEnvOverrides` has none), and the values that stand for
nobody ("none" of the browsers, "nobody" and "monbooru" of the apps) are no one's. The theorems with a hypothesis of their own are
`QueueImplementsLifecycle`, `RemovalsLast` and `WaitersAreNotForgotten`. What the modules assume of their surroundings (a database that
accepts what it is sent, a cap that stays) is in section 2 and holds for the proofs as for
the runs.

**What stays with TLC.**

- The liveness properties (`Served`, `CloseEnds`, `DueIsChecked`, `SyncMovesOn`,
  `LifecycleEnds`): fairness and ENABLED are beyond the prover.
- `EveryPostHasAWay` of `Series`, which is true of the run's instance and not of every value
  (section 5 has the instance that refutes it).
- Everything of `Watches`: not proved (section 6).
- `TablesAgree` of `Rules` is about what functions on short names compute. For names of any length it needs
  induction over data, which is out of the prover's reach; no module of the project declares
  a RECURSIVE operator.

## 5. Divergences

Where the code does not do what a comment, the API's description or the changelog says. Each
statement named in the last column is a definition of its module, with the words of the
source beside it, and TLC refutes it within seconds to a minute. None is a standing run; to see one,
put it under `INVARIANT` or `PROPERTY` in the run's cfg, with the change the last column names.

**The queue.**

| What is said | What happens | Stated as |
|---|---|---|
| `internal/queue/job.go:581` "Call only after the queue has moved the job: a woken Wait may Retry it at once." | `finish` moves the job, writes its row and then signals; a Retry in between has replaced the `done` channel, so the signal closes the channel of the new run and the first run's waiter is never woken. | `WaitersAreWoken`, with enqueue and retry, one worker and two callers |
| `internal/queue/job.go:452` "An unresolved window reserves its whole range, so a second continue skips past it." | A root asked for more items than the cap keeps its `MaxItems`; retried, it reserves more than it will list, and a "get next" meanwhile starts past posts no window covers. | `EveryPostHasAWay`, with a root of more items than the cap |
| `internal/queue/watch.go:232` "The shutdown drop does not come here, so a stop leaves the watch due." | A retried check waiting at shutdown goes through `releaseDropped`, which stamps its watch. | `StopLeavesDue` |
| `internal/queue/queue.go:115` "... so a Clear landing in between cannot have its delete undone." | True of `persistKept`. `Enqueue`, `Retry` and three others use `persist`: one that lands after the delete of its row brings the job back at the next boot. | `NoGhostRows` with a second caller |
| `internal/queue/queue.go:928` "The caller drops the evicted ids' store rows" | `UseStore` does, and then saves every interrupted job, one that was evicted included: its row is back. | `NoGhostRows`, with two jobs running at a crash and a ring of 1 |
| `internal/queue/queue.go:149` "A job the process died running comes back interrupted" | The reload pushes rows into the ring in id order: an interrupted job with a low id is evicted when a ringful of later ones follows it. | `CrashedComeBack` |
| `internal/queue/worker.go:20` "Stop takes no more work and settles what was still pending, so a parked Wait frees the HTTP drain" | Enqueue and Retry do not look at `closed`: during the drain they still put jobs in the FIFO, and a `?wait` parks. | `StoppedIsEmpty` |
| `internal/queue/worker.go:115` "A shutdown is not an operator cancel: settle it like a crash" | `runJob` reads the context twice; a Close between the two settles the job canceled. | `ShutdownInterrupts` |
| `internal/queue/queue.go:112` "writes landing out of order would refund a spend" | The day is read before the lock: a request that straddles midnight rolls the count back, and the new day starts afresh. | `DailyLimit` |
| `internal/queue/queue.go:595` "CancelSeries stops a live series" | The windows are listed once: a worker past its finish chains the next window after the list. | `CanceledStays` |
| `internal/queue/queue.go:885` "A series goes whole or not at all" | `ClearSucceeded` clears the finished windows while the worker that ended the last one is about to chain the next. | `SeriesGoesWhole` |
| `internal/queue/queue.go:524` "The submission's metadata belongs to the search" | `reset` drops Tags, Commentary, Source and Via on a retry, so later windows of the series lose them. | read, not modelled |
| `internal/queue/watch.go:124` "one still queued would only fetch for a search nobody watches" | A removed watch's running check goes on chaining windows. | `RemovedWindowsLeave` |
| `internal/queue/worker.go:159` "a retried check has stamped its watch, so it settles like any other job" | When a newer check has stamped the watch since, the retried one is dropped without a trace. | `RetriedSettle` |
| `internal/queue/watch.go:276` the first window names the result | After a Clear in mid-check a later window is taken for the check, and `recordWatch` refuses the next ones. | `ResultIsOfCheck` |

**The tag repository.**

| What is said | What happens | Stated as |
|---|---|---|
| `internal/api/openapi.go:473` "commit was false and the accepted items wait staged" | Ids of `contrib_items` are issued again (no AUTOINCREMENT). A send job names its rows by id: queued or retried after its row was rescinded, it claims the next row staged, although that was staged to wait. | `HeldWaits` of `Contributions`, with one caller, one send job and the calls stage, rescind, backlog and retry |
| `internal/ptr/contrib.go:212` "Only a partial build or a backlog replay refuses: its partial tag set would read as the whole truth." | `Resume` in the middle of a replay shows the engine ready before the loop says it is syncing again, and lookups and sends are answered. | `ReplayRefuses` |
| `internal/web/handlers_ptr.go:159` "only the key, the enabled box and ... apply at once" | After a failed enable the engine is closed and the setting on; a save with the box off finds nothing to do and leaves the setting on, and the next start enables. | `BoxApplies` |
| `internal/api/openapi.go:524` "Delete one staged or failed item exactly - nothing ever left the machine." | A row is failed when the answer to its post is lost or the job is canceled in mid-post: the repository may have it. | `NeverLeft` |
| `internal/ptr/contrib.go:260` "rows are only ever stamped approved or removed" | The removal of an add that the index does not have yet is stamped removed at the end of the next pass. | `RemovedIsRemoved` |
| `internal/ptr/contribstore.go:227` unsettled rows "guard against re-sending what the repository has not answered yet" | The ledger is read, then the row inserted: a send that completes the same edit in between lets it through again. | `SuggestedOnce` |
| `internal/ptr/contribstore.go:241` a rescinded row is not sent | Disable does not stop a send: it goes on posting from memory while the rows, staged again at the next enable, are rescinded. | the exception of `RescindedIsUnsent` |

With two workers the watch rows have two more weaknesses no property states: the writes of
`updateWatchCheck` happen outside `Queue.mu` with no sequence guard, so the older record of
two may land last; and two workers that record windows of one series may each miss the
other's.

**The jobs.**

| What is said | What happens | Stated as |
|---|---|---|
| `internal/pipeline/processor.go:137` "A book is one file: bundling the window would push a short archive as complete." | A first pass that is cut short (`processor.go:111`, `gdl/gdl.go:521`) is used when it has printed something: the pages it found are the book. | `BooksAreWhole`, run `downloads` |
| `internal/queue/queue.go:725` "a report could overwrite monbooru's record of a fetch that happened" | A job canceled in the FIFO is retryable before its drop is reported (`queue.go:680`, `:797`): the report may arrive after the retry's verdict. | `RecordStands`, run `lookups` |
| `internal/queue/job.go:542` "Only a succeeded run may lean on the archive: a failure, cancel or crash can land between a post's download and its push." | A retry that bypasses the archive succeeds without the post when its window has moved, or when its resolve and its download are both cut short. The next retry leans on the archive and skips it. | the exception of `NothingLost` (`missed`); with 3 faults and 2 retries the second case too |
| `internal/outcome/outcome.go:17` a row that says "skipped: archive" is of a post the archive holds | A row whose post the download's listing no longer has settles "skipped: archive" too. | the exception of `RowsTellTruth` (`listed`) |
| `internal/gdl/gdl.go:245` a catch-up stops at what is recorded | The rows after the stop settle "skipped: archive" although the archive does not hold them. | the exception of `RowsTellTruth` (`stopped`) |
| `internal/pipeline/processor.go:140` a short second pass is noticed | Two faults are not: a deep resolve cut short and then a download whose exit code is dropped, as every row has an entry. | the exception of `UncappedIsAll` (`gap`, `exit`): proved for any faults, and outside `OneNameless` of the run |
| `internal/pipeline/processor.go:359` "entries are matched to their rows by post instead" | `reportDownloads` drops the error of `readMeta` (`gdl/gdl.go:425`), so a skip may name no post, and `pairDownloads` gives it the next row (`:374`). After a file that failed without a line that row is another post's: it reads "skipped: archive" though its post is not in the archive. | the exception of `RowsTellTruth` (`Nameless`, `exit`) |
| `internal/pipeline/processor.go:140` a short second pass is noticed | After a second pass cut short, a nameless skip of a post it left out takes the row of another, and the job succeeds without a row of the first. | the exception of `UncappedIsAll` (`gap`, `Nameless`) |
| `internal/pipeline/lookup.go:189` "A skipped PTR and one that held nothing must not read alike" | The index may close between `CaughtUp` and the query (`lookup.go:139`, `:257`): the run says it holds nothing for the hash. | `ready` of `PtrIsWhole` is of any time of the run |
| `internal/pipeline/lookup.go:46` the hash is checked before tags land | The check precedes a walk of minutes; a file replaced in between takes the PTR tags of the old one. | the exception of `PtrTagsFit` (`moved`) |
| `internal/monbooru/client.go:317` every outcome is reported | A running job the operator cancels is not, nor an enrich whose call did not get through, nor a replace whose work directory cannot be made (`replace.go:47-50` fails the job alone), nor a job whose `Process` panics (`worker.go:97-102`): monbooru's page goes on polling for these. | the exceptions of `EveryRunIsTold` and `VerdictIsTrue` (`lossy`, `mute`) |

**The console.**

| What is said | What happens | Stated as |
|---|---|---|
| `internal/web/pairing.go:143` a failed save puts the attempt back "so a later poll retries" | monbooru hands its token out once (`shared/pairing/http.go:76`): the later poll finds no request. The attempt put back may also be a canceled one, or take a newer one's place. | the exception of `EndsAgree` (`dropped`) |
| `internal/web/pairing.go:162` "Nothing is committed on either side yet" (cancel) | With an approved poll on its way back monbooru has its pairing already. | the exception of `EndsAgree` (`dropped`) |
| `internal/web/pairing.go:181` a removal takes the pairing | A save that fails is logged, and monbooru is told to drop its side all the same. | the exception of `EndsAgree` (`parted`) |
| `internal/web/pairing_approver.go:64` a teardown is of the caller's pairing | The peer's token is authorised, then whatever the peer is paired by is removed, a newer pairing included. An answer lost after a mint leaves the extension refused as paired already; a removal leaves an approved request that no one has collected collectable. | the exception of `EndsAgree` (`parted`); the others read |
| `internal/web/auth.go:154` "every other browser signs in again" | A login checked against the old password just before a change and opened just after keeps its session. | the exception of `ChangeSignsOut` (`born`) |
| `internal/config/config.go:438` "an env value never lands in the file" | The forms show the served value (`settings.html:86`) and post it back; `updateConfig` (`router.go:499`) then saves it. | `EnvStaysOut`, part settings |
| `internal/web/handlers_sites.go:336` "or a failed save could still leave its profile half on disk" | A profile is saved before the config: when that fails the profile stays, and the site lists are stale. Two saves that overlap may leave what is derived of the older one, and a site in the lookup chain without its md5 search (`userprofiles.go:179` against a save of the chain); `saveDownloader` checks its retention outside the lock (`handlers.go:981`). | the exception of `SoloSaveLands` (`tainted`) |
| `internal/gdl/managed.go:60` the one file comes first | After a one-file build, an older release that has none goes into the venv and is reported as installed (`web/gallerydl.go:216`), and the one file is still what runs. | `InstallIsActive`, part install |
| `internal/web/gallerydl.go:131` "A job must not resolve with one gallery-dl and download with another" | The operator's resume in mid-install is not refused, though "The queue stays held until the catalog knows which binary answers" (`gallerydl.go:194`). | the exception of `NoMixedRun` (`excused`) |
| `internal/gdl/managed.go:165` "never shadow it with a broken one" | A crash between the rename and the chmod leaves a one-file build that cannot run. | the exception of `NeverShadowed` (`torn`) |
| `internal/web/gallerydl.go:78` the panel reads a catalog anew when the install changed | A probe that was out while an install started may store the older one's catalog last. | the exception of `CatalogTells` (`raced`) |
| `internal/mapping/map.go:250` "so only pf.Rating's goes" | A tag `rating:...` of the client's extras (`extras.go:37`) is appended after the filter. | read; extras with a rating are left out of the inputs |
| `internal/mapping/ptr.go` contribute and look up are inverse | For a category of the operator's own they are not (`series:x` comes back as `copyright:x`); nor for a name with more than three separators in mixed spelling. | the premises of `ContributionReturns`, `SpellingReaches` |

The instances for the rows of the queue and the repository are of one or two workers, one or two callers, one to
three jobs, updates or staged rows and the calls the row names.

Three hazards of the list have no property for this reason: the code does not prevent them
(`worker.go:152`, `queue.go:599`, `ptr/engine.go:280`).

## 6. Plan

The system's core is modelled; what is left, by what the loss of the property would cost
the operator:

1. **Proofs**, in this order: `OneCheckAtATime` of `Watches`; `EveryPostHasAWay`
   of `Series` for windows within the cap. The modules are written for it: parameters are constants with named
   assumptions, one action per operation, no RECURSIVE.
2. **Abstract specifications.** What an index promises its readers (a prefix of one
   repository, or no answer), implemented by `PtrSync`, and what a contribution is to its
   author (staged, sent or withdrawn), implemented by `Contributions`; `Contributions` then
   takes the first for its `mirror`, in place of an assumption.
3. **Runs on restart of the PTR send jobs** together with the queue's own reload, and the
   single-instance handshake of the desktop build.

## 7. Not modelled

PTR wire formats are codecs over bytes and PTR queries read one snapshot: the tests say of
both what a small model would. The HTTP API and the pages parse, validate and print around operations that are
in the modules above; the contribution client and the links are calls and strings. The
desktop integration is operating-system calls. Where a component is `partly` modelled,
its note in `PROJECT.json` names what is left out; the reasons are of three kinds: wording and
layout, bodies and headers of requests whose outcomes are modelled, and housekeeping by age
(retention, pruning, backoff) that touches nothing the properties tell apart.
