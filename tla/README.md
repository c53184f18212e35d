# A TLA+ verification project for audiosilo-server

audiosilo-server is a self-hosted audiobook server: a Go process over one SQLite
database that scans libraries of audio files, serves them to apps, keeps every
listener's progress, and hands long work (generating chapters and descriptions,
aligning read-along text, fetching podcasts, syncing Audible) to a companion
process, the *Bridge*, which polls it for jobs. This directory models the parts of
it where several actors meet: request handlers, background goroutines, the Bridge
on the far side of a network, timers, and restarts.

Each module is translated from the Go source named in its header. Comments on
definitions name the function they stand for. `PROJECT.json` gives the lines.

## 1. Inventory

| Component | State it keeps | Operations that change it | Meets | Hard part | What makes it correct |
|---|---|---|---|---|---|
| Bridge job queue (`internal/bridge/jobs.go`) | `bridge_jobs` rows: state, attempts, lease, cancel flag, error, progress | Enqueue, claim, release of an unsent claim, report, cancel, expiry, move with the book, deletion with the library | handlers, catalog moves, notifications, the Bridge | leases lapse while the Bridge still works; replies get lost; attempt numbers are given back | one open job per kind and book; an old claim never answers for a new one; a cancel sticks; each ending is announced once; conflicting kinds never overlap |
| Claim long poll (`jobs.go` waitClaimPriority, `signal.go`) | a broadcast channel; each claim's place in its loop | take channel, look, claim, sleep, time out; fire | job queue, pairing, settings | look and sleep are separate steps; some changes signal nobody | no lost wake-up; claimable work is handed out; what a replaced Bridge held comes to the next one |
| Pairing and heartbeats (`internal/auth/bridge.go`, `internal/bridge/status.go`) | pairing code, bridge tokens, heartbeat row, heartbeat cache with a generation | issue, exchange, unpair, save, read, Forget | accounts, job queue, console | a handler authenticated before an unpair writes or caches after it | one Bridge, a code used once, status shown is the paired Bridge's |
| Module runner (`internal/modules/runner.go`) | the last run of each module, its cancel and done channels | Start, Sync, launch, Stop | settings saves, shutdown | toggles while a run still returns | runs never overlap; Stop leaves nothing running; Stop ends |
| Scan queue and schedule (`internal/library/jobs.go`, `schedule.go`, `internal/catalog/scanruns.go`) | queued and running scans, skipped slots, progress, `scan_runs` | Enqueue, Cancel, CancelLibrary, worker, schedule, restart | admin handlers, the catalog, restarts | a look at the queue and the wait are separate; settings change during a scan | every change gets scanned; a slot is scanned once; idle means recorded |
| Library scan (`internal/library/scanner.go`, `internal/catalog/books.go`) | books, files, overrides; listeners' state keyed on a path | walk, detect moves, index, prune; index one book on demand, alone or after a move | scan queue, handlers, the Bridge, the files themselves | a half-readable tree must not prune; a book moves while a scan runs and is opened before a scan finds it | the index is what is on disk; a moved book keeps its state; a book seen where it is loses nothing |
| Private podcast follows (`internal/bridge/podcasts.go`) | secret URLs in memory, open requests in the database, fold markers | Subscribe, claim, report, cancel, expiry, library deletion, fold, restart | job queue, scheduler, catalog | memory and database drift apart at a restart and between a commit and a memory write | no request without its URL; no URL without its request; every end folded, within the sweep's window |
| Audible jobs (`internal/bridge/audible.go`, `internal/audible`) | accounts, polls and syncs | schedule, enqueue, apply a result | job queue | a result for an account changed meanwhile | not modelled (their places arrive in ListeningSync) |
| Backups and restore (`internal/backup`) | backup files, a pending-restore marker, the database file and its log | back up, prune, delete, ask, cancel, apply at start | launcher, SQLite | a crash or a failing disk step between two renames | the database is the old one or the backup, and where it is not, nothing is lost from disk; no restore twice |
| Match runs (`internal/matchrun`) | one run, its rows | start, plan, apply, cancel | catalog, shutdown | cancel between plan and apply | not modelled |
| Notifications (`internal/notify`) | bounded queue, targets, last results | Emit, deliver, retry | all of the above | full queue; a target changed between tries | not modelled |
| Listening state (`internal/catalog/listening_sync.go`, `listening.go`, `progress_admin.go`) | the progress row, an offered place, the event log, sessions, history | sync a batch, legacy PUT, edit, prune the log | apps on several devices, Audible accounts | late, repeated and reordered posts; wrong clocks | a further place is never lost silently; a listen counts once; the newest finish wins |
| Accounts, sessions, token caches (`internal/auth`, `internal/store/genmap.go`) | users, tokens, in-memory caches with generations | login, update, delete, revoke | every handler | a cache filled by a read older than a revoke | not modelled (BridgePairing has the same cache) |
| File cache (`internal/media/filecache.go`) | cache files, in-flight fills | get, fill, evict | handlers | single flight with cancelled callers | not modelled |
| Catalog reads, series, search, requests | tables | SQL reads, single-row writes | handlers | little control | not planned |
| Metadata, matching, mirror, importer, upcoming, config, HTTP routing, launcher, tools, admin console | text, files, wiring | parsing, formatting, remote lookups | - | text and I/O | not planned |

How they interact. Request handlers call the services directly; the services share
the SQLite database, which has one writer: a write transaction is atomic and write
transactions never overlap. What is *not* atomic, and what the modules interleave,
is everything around them: a read on the reader pool followed by a transaction, a
commit followed by a signal or a cache drop, a reply written after a commit, a
goroutine's wait after its look.

## 2. Modules

| Module | Models | Proofs |
|---|---|---|
| `BridgeJobs` | the job table and every transaction on it, replies in flight, and the Bridge's claims | `BridgeJobsProofs` |
| `ClaimWait` | *when* claims happen: the long poll, its signal, its time limit | `ClaimWaitProofs` |
| `BridgePairing` | pairing, tokens, heartbeat row and cache | `BridgePairingProofs` |
| `ModuleRunner` | Runner.Start, Sync, launch, Stop, and the runs' goroutines | `ModuleRunnerProofs` |
| `ScanQueue` | the scan queue, worker, scheduler, recorded runs, stop, crash, restart | `ScanQueueProofs` |
| `LibraryScan` | what a scan does to the index, against files that change and on-demand indexing | `LibraryScanProofs` |
| `ListeningSync` | one listener's place and finish state on one book: batches, legacy saves and edits | - |
| `PrivateFollow` | the private-feed secrets in memory against the jobs in the database | `PrivateFollowProofs` |
| `Restore` | backups, retention and a restore applied at start, with failing steps and crashes | `RestoreProofs` |
| `AtomicRestore` | the abstract specification `Restore` implements | in `RestoreProofs` |

The `MC...` modules define a symmetry set or an operator-valued constant where a run
needs one; the other configurations instantiate the module itself.
Definitions named `Bug_...` are plausible faults of the definition after
them (a dropped guard, a missing reset, a swapped order); nothing uses them. They
exist to show that each property fails when the code has such a fault.

### BridgeJobs

*State.* `jobs` is the table, by id. A row has the columns the control depends on:
kind, path, whether a generate job offers its results upstream (`issue`), state,
attempts, lease, cancel flag, error (none, the Bridge's text, the server's cancel
reason, "the lease ran out"), whether progress or a result is stored (`reported`),
and how often an admin was told of its end (`told`, the calls of `report`).
`replies` are the claims whose HTTP handler has not returned: the claim is committed
and its reply is on the way. `bridge` is the set of claims the Bridge has ever read;
it may report on any of them at any later time, any number of times, in any order,
which covers lost, late and repeated reports.

*Actions.* `Enqueue` (the dedupe answer, the refusals, `blocker`/`givesWay`, the
cancels of `cancelsOpen`), `ClaimStored` (expiry, choice of the next job, attempt
and lease), `Deliver`/`LoseReply`/`Release` (the three ways `handleBridgeClaim` can
end; `Release` is `ReleaseUnsentClaim`), `ReadEarly` (the Bridge acts on bytes the
server believes unsent; only with `EarlyReader`), `UpdateHeld`, `Cancel`,
`ExpireDue`, `MoveJobs`, `DeleteLibrary`, `SetModule`, `Tick`. Each applies first the
expiry its transaction begins with, where it has one (`Expired`); `MoveJobs` expires nothing, as in
the code. A refused request rolls back, and so is a stutter.

*Abstractions.* One library (all keys contain the library; jobs of two libraries
never meet). Priorities are left out of the row: of the claimable jobs of
an asked kind the oldest is taken, as in the code among jobs of one priority. A commit
and the announcement of the end it made are one step, so a crash between the two, which
loses the announcement, is not covered by `ToldOnce`. Ended jobs are not pruned. The
podcast, Audible, verify and correct kinds are left out. `requested_by` and the
texts are data.

### ClaimWait

`pc[w]` follows `waitClaimPriority`: take the channel, look for a lapsed lease, look
for a queued job, claim in a transaction or sleep, wake by the channel or by the time
limit. `owed` counts committed transactions that have yet to fire, so any step
may fall between commit and signal. Two claims run, one a *lane* that only asks for
some jobs. A lease that lapses and a module that is turned on signal nobody; the
code relies on the time limit there, and `quiet` records these jobs so that
`NoLostWakeup` promises exactly what the signal promises.

A behaviour begins where a Bridge was unpaired (or none was ever paired): `holder`
says on which token a claimed job was handed out, and the first Bridge's jobs and its
claims still asleep are left behind. The unpairing tells neither. `Recovered` says that
the next Bridge gets these jobs all the same.

### BridgePairing

Tokens are named by the code they were traded for. A saver is one `POST
/bridge/status` handler in steps: authenticate, read the cache's generation, write
the row (if its token is still live, in the same statement), remember. A reader is
one `LastHeartbeat` call in steps. `forgets` counts pairings and unpairs committed
that have yet to drop the cache.

### ModuleRunner

Run *i* of a module waits for run *i - 1*, as `launch` hands it the previous run's
`done`. `Sync` and `Stop` hold `Runner.mu` and are one step each. A run may panic or
return by itself (`EndsItself`); once cancelled it obeys (`Obeys`).

### ScanQueue

A library waits at most once in the queue, so a job is named by its library. The
scheduler's clock is counted in due slots of a library. `asking` holds callers that
committed what makes a scan necessary and have yet to queue it (the handler's
`startScan`, the startup scans). `ticking` is a tick that has read what is due and
has yet to queue it. `StopServer` ends the context; `Exit` ends the process at any
moment, in an orderly way or not; `Start` interrupts the rows left running and
starts again. "partial" scans count as "ok". The
slots served are remembered in memory only (`Exit` forgets them), so `SlotOnce` speaks of
one life of the process.

### LibraryScan

*State.* `disk` (which book is at which path), `faulty` (paths whose folder cannot be
read now), `index` (the fingerprint of each row), `at` (the path each book's
listeners' state is keyed on), the running scan and the on-demand requests in their
steps. A book is its content, and so its fingerprint; a row whose file could not be
read has none (`Unread`).

*Actions.* A scan: `StartScan` (reads the signatures), `Visit` one folder after
another, `EndWalk` (refuses an empty tree), `DetectMove` per new book,
`EndMoves`, `ReadBook` and `WriteBook` apart (the enrichers and the batch writer),
`EndIndex` (a partial discovery prunes nothing), `LookToPrune` and `Prune`
(`DeleteBooksNotIn` reads the rows, then deletes), `Stop`. On demand: `IndexPath` (one
flight per path) with `MoveCandidates` and `MovedFrom` (the rows with the book's
fingerprint, then those off disk), or `IndexMoved` (the Bridge says where the book
was); then `carryFrom` step by step, with nothing locked between (`FindOld`,
`CheckGone`, `Compare`, `CarryMove`); then `Enrich`, `IndexBook` and `DeleteBookAt`; and
`Cancel` (not once state has moved). Files: `Move`, `Copy`, `Remove`, `Fault`, `Heal`, at
any moment, so also between those steps. With "faults" among
`Wild` a folder may become unreadable whatever is, was or comes to be in it. Histories record which paths were without a book (`gone`) or
unreadable (`hidden`) during the running scan, and which requests knew their old path
while it was empty (`away`).

*What the surroundings may not do.* Five things strand a moved book's state; each is
a member of `Wild`, the run has none of them, and TLC finds `StateWithBook` violated
with any one of them put back: a file that changes between the walk and its read, or
another book put on a path that a request carries state from or whose row it is about to
delete ("race"); a folder that cannot be read while a book in it is to be indexed or
moves, *or after a book left it*: an emptied path that cannot be checked counts as
present, so the book is indexed as a new one and no later scan sees a move ("faults"); a
move made as a copy and a later removal, or a move of a book whose removed copy still has
a row ("copies"); a book that moves again, on or back, before it is indexed where it is,
or during the scan that saw it elsewhere ("again"); and a Bridge rescan that does not
name where the book was ("from"). These are the assumptions of the theorem `StateStays`,
and each is a guard of `Move`, `Copy`, `Remove`, `Change`, `Fault` (`Known`), `Free`,
`Still` or `IndexMoved`. `IndexMatchesDisk`, `PrunesOnlyGone` and `PresentKeepsState` need
none of this: they are proved for every `Wild`.

*What a carry takes.* `PresentKeepsState` does not say that the old path is empty when
its state goes: the check and the carry are apart, and a copy may be put back between. It
says that the one who carries could have seen the path without a book: a request only if
the path was so since the request knew of it, a scan only if it was so, or could not be
read, at some time of the scan. The last is a weakness of the code, see Findings.

*Abstractions.* Ignore rules, joined and split books, folder favourites, backfills and
podcast libraries are left out. `MoveDurableState`'s two transactions are one.

### ListeningSync

*State.* The progress row with its version, device, time, finish state and its last
change, the offered place, and the chain of the row's device (`span`); the event log
by which replays are known; what each device has recorded and which version it last
received. Histories record which listens were counted, the newest finish change, and
who received the offer now on the row.

*Actions.* A device records spans, finishes and unfinishes on or off line. `Post`
sends any run of recorded events, any number of times and in any order, with any
clock correction: it applies `SyncListening`, one transaction that folds `Apply` over
the batch (`ResolveListen`, `FurthestListen` for Audible accounts, `Finish`,
`Replay`). `Fetch` is a device receiving the row. The other writers are
`SaveProgressFrom` and `EditProgress`; `PruneListeningEvents` ages the log.

*Abstractions.* One unit of place or time is longer than every tolerance in the code,
so "about the same place" is equality. `resume` stands for `resume` and `continue`,
which the code treats alike. A legacy PUT names any version, lower than the row's
included, and any time; one more than `Ahead` in front of the clock becomes now
(`plausibleUpdatedAt`). Imports (`progressUpsert`, and their undo) are left out as a
writer. As in the
code, an unfinish of a book without a row is accepted and leaves nothing behind, so a
finish made before it that arrives after it finishes the book: `FinishConverges`
leaves that unfinish out. `OfferSeen` is checked without legacy saves: one that lowers the
row's version makes an offer made later look seen to a device that knows the earlier,
higher version.

### PrivateFollow

*State.* The `podcast.subscribe` rows, the URLs in memory, who holds `secretFlowMu`
and how far it is, ends committed but not reported (`ending`), jobs read but not yet
folded (`folding`), the fold markers, claims handed out, the module's switch (`on`) and
the ends older than the sweep's window (`old`).

*Actions.* `SubscribeCommit`/`SubscribeStore`/`DropIfEnded`, `Claim`/`ClaimRead`,
`UpdateHeld`, `ReleaseUnsentClaim`, `Cancel`, `ExpireDue`, `ReportEnded`,
`SchedulerTick` (only while the module is on, over the ends not yet `old`),
`FoldPodcastJob`/`FoldFails`, `SetModule`, `Age`, `DeleteLibrary`/`PruneSecrets`, `Die`, `Start`
(whose sweep may fail). Only the first two groups, `PruneSecrets` and the sweep hold
the lock; the rest come between their steps.

*Abstractions.* One listener, one library, private feeds only. A lease (two minutes)
outlasts the answering of a claim. A report runs at any time after its commit. The
read in `dropIfEnded` and the one in `PruneSecrets` succeed. What a fold writes is
not modelled, only that it did. `claimed` is also `running`.

### Restore and AtomicRestore

*State.* A file is the set of commits it holds. The main file and the write-ahead log
carry the generation of the main file they belong to. `aside` holds what `keepAside`
renamed, `copies` the backups folder, `marker` the waiting restore.

*Actions.* While up: commits, `BeginBackup`/`WriteBackup`, retention in two steps,
`Delete` in up to three, `RequestRestore` in two, `CancelRestore`, and an orderly
`Stop`. At a start, the steps of `ApplyPendingRestore` one by one: `CheckBackup`,
`StageBackup`, `CopyCurrent`, `AsideWal`, `AsideMain`, `DropLog`, `Swap`, `Record`,
`Unmark`; then `Open`. `Die` may come between any two, and each disk step
fails where `Faults` names it.

*Refinement.* `AtomicRestore` says what an admin may rely on. The database that the
server *should* have (`db`) is the commits of its users, or, from the step that applies
a restore, exactly the contents of the backup that was asked for. A server comes up with
its files (`held`) equal to it and with no restore waiting; nothing is dropped from disk
while the server is down; and a restore is applied only when all that the old database
held is in another file. It has one exception, `risk`: when the safety copy of the
database failed, or SQLite could not fold its log in, `applyRestore` takes the database
out of its files before it puts the backup there, and if it gives up after that, the
server comes up on part of the old database or on an empty one, the rest being in other
files. That is what the code does, against its comments (see Findings), and the
abstract specification says so instead of allowing it everywhere: without `risk`, so
whenever the safety copy was made and the log folded, a refused restore leaves the
database as it was. `KeepsPromise` is that specification under the mapping in `Restore`,
whose histories `was` and `risk` say what the database should hold.

*Assumptions.* `os.Stat` tells the truth, the marker is written whole or not at all
(`jsonfile.Write` renames), the process dies but the disk does not lose renames (no
power cut), SQLite folds its log at the last close or leaves it whole.

## 3. What is checked

Deadlock checking is off everywhere: the counters are bounded, and the server may
be idle for ever.

| Run | Configuration | Shows |
|---|---|---|
| `jobs_lease` | 1 job, 3 attempts, lease 1 s, 6 s, a Bridge that may read early | `TypeOK`; `QueuedIsClaimable`; `QueuedReadsFresh` (a released claim brings no report into the queue, even within one second); `CancelSticks` |
| `jobs_queue` | 2 jobs of 2 conflicting kinds, 2 books, 2 attempts, 3 s, reports without text or result | `OneOpenPerKey` under moves onto an occupied path; `FreshAttempt` (attempt numbers fence although a lapse requeues the job and a release gives one back); `ToldOnce`; `OnlyMovesOverlap` |
| `jobs_overlap` | 2 kinds, 2 books | **violated** `NeverOverlap`: see Findings |
| `claim_wait` | 2 claims (1 lane), 2 jobs, an unpaired Bridge's jobs and claims left behind, the next Bridge paired, fair | `NoLostWakeup`; `Served`; `LapseNoticed`; `Recovered` |
| `pairing_race` | 2 savers, 1 reader, 2 codes, 1 unpair, the pairing admin disabled and enabled | `BeatOfPaired`; `CacheCurrent` |
| `modules_runs` | 2 modules, 3 runs each, fair | `OneRunAtATime`; `StoppedIsQuiet`; `OnRuns`; `OffQuiets`; `StopEnds` |
| `scan_queue` | 1 library, 2 changes, 2 slots, 1 crash, fair | `ChangeGetsScanned`; `IdleMeansRecorded`; `NoLostWake`; `SlotOnce`; `ChangeApplied` |
| `library_moves` | 3 paths, 2 books (symmetric), 1 request at a time, 3 changes, 1 fault, 2 scans, 2 requests | `IndexMatchesDisk`; `StateWithBook`; `PrunesOnlyGone`; `PresentKeepsState` |
| `sync_places` | 2 devices, 3 events, batches of 2 | `DivergedNotSilent`; `OfferSeen` |
| `sync_times` | 1 device and 1 Audible account, 2 events, 4 units of time, skewed clocks, clients without a base version, 1 edit or legacy save with any version to 2 and a time up to 2 ahead | `RowInOrder`; `CountedOnce`; `FinishConverges` |
| `follow_secrets` | 1 feed, 2 jobs, 2 attempts, 2 starts, the module on and off, ends that grow old, fair | `HandedWithUrl`; `SecretEndsWithRequest`; `LostOnlyByRestart`; `EndsFolded` |
| `restore_faults` | every disk step may fail, 2 commits, 2 backups, 2 restores asked for, 3 starts | `NoForeignWal`; `NoReplay`; `KeepsPromise` |

*Why the bounds are enough.* Two jobs are the fewest that can share a key, conflict, or
move onto each other; every property of the table is about one row or a pair of rows.
Three attempts give a first, a repeated and a last one; two, in `jobs_queue`, let a
lapse requeue a job and a late report meet the next claim of it. That run's reports
carry no error text and no result (`ReportErrors`, `ReportResults`): these are only ever
copied into the row, and none of its four properties reads them; `jobs_lease` has them
all. A lease of 0 or 1 s makes "lapsed", "renewed in the same second" and "still held"
all reachable. Two waiters and savers are the fewest that can race; a second pairing
code is the first that replaces one, and in `claim_wait` the second pairing is the
Bridge that comes after the one unpaired at the beginning. Two changes of a setting let
one come while the other's scan runs; two slots let one be skipped and one come after.
Three paths hold two books and a place to move to; three changes are a copy, its removal
and a move; two scans are one that is stopped or partial and one that ends, two requests
one that races the scan and one that finds what it left. Two devices with three events
give a place, a place that diverges from it and an answer to the offer; a span may start
either way there. In `sync_times` spans only jump (a resume differs by where the place
goes, which `sync_places` looks at), a save may be dated one unit ahead, and versions up
to 2 are below, at and above the row's. A rejection age of one unit, a retention of two
and four units of time let an event leave the log and be posted again. Two starts are
one that loses the memory and one that lives with it; `PrivateFollow`'s properties also
held with two feeds and one attempt, and its safety properties with two feeds and two
attempts. Three starts are one that makes a backup, one that restores it and one that
follows a failure of the second. The bounds cap what would otherwise grow for ever; none
cuts an operation short. The theorems below remove the bounds from every safety property
but those of `ListeningSync`.

*Fairness*, and why the code justifies it:
- `ClaimWait`: a claim's goroutine keeps running; its timer fires (`MaxWait` bounds
  it); a goroutine that committed goes on to fire; and the Bridge polls again, which
  is its contract with the server. The lease of a job held by a Bridge no longer paired
  runs out, as only the paired one's reports renew a lease (`requireBridge`). Nothing is
  assumed of admins or of other leases.
- `ModuleRunner`: goroutines are scheduled, a save that swapped the config calls
  Sync, and a module's Start returns when its context ends, which the contract of
  `Module.Start` demands. A run need not end by itself.
- `ScanQueue`: the worker goes on, a scan ends (requested scans have a one-hour
  limit and probes are bounded), and a handler that committed queues its scan. No
  fairness for cancels, deletions, ticks or a restart.
- `PrivateFollow`: the service manager starts a dead server again, the scheduler of a
  module that is on ticks every minute, and a fold that is tried again and again (strong
  fairness: each tick tries it) does not fail for ever. Nothing is assumed of the switch,
  of how long an outage lasts or of the Bridge: `EndsFolded` excepts an end for which the
  module goes off or a day passes first (`on`, `old`).

### Findings

`MoveJobs` (`internal/bridge/jobs.go:1683`) looks for an open job of the *same* kind
at the new path. A book with an open `chapters.detect` job that is moved onto a path
with an open `readalong.align` job leaves both open for one book, where the comment
on `kinds` (`jobs.go:183`) says that these "never overlap". Run `jobs_overlap` shows
the steps; `OnlyMovesOverlap` and the theorems `NoOverlapWithoutMoves` and
`OverlapOnlyByMoves` show that a move is the only way.

Other observations, met while modelling and proving, that no run of its own states:

- `ApplyPendingRestore`'s comment (`internal/backup/backup.go:617`) says "a refused
  restore leaves the database as it was", as do its log lines. When the safety copy
  fails, `keepAside` moves the database's files away; if then a side file cannot be
  removed, or the rename of the staged copy fails, the restore is refused and
  `store.Open` creates an empty database. A crash between `keepAside`'s renames, or an
  undo of them that fails, leaves the main file without its -wal (781-782); so does a log
  that could not be folded, once `applyRestore` has removed it. The server then starts on
  part of the old database. All of it is still in some file (`NothingLost`), and without a
  failed safety copy or fold none of this happens (`KeepsPromise`).
- `pruneKind`, and `Delete`, read which backup a restore waits for before they remove one:
  an admin who asks for that backup in between has it removed, against "never the one a
  restore is waiting for" (`internal/backup/backup.go:411`, `420`). The start then reports
  it missing and leaves the database as it was.
- A crash between the swap of a restore and the removal of its marker applies the restore
  again at the next start. Nobody was served between, so nothing is lost; `NoReplay` says
  just that no server serves with an applied restore still waiting.
- An ended podcast job that no sweep saw within 24 hours is never folded
  (`EndedPodcasts`, `internal/bridge/podcasts.go:487`): an outage, or a module turned off,
  of a day after a crash between the commit and the fold leaves the request without its
  outcome in the catalog. The comment at `internal/podcast/scheduler.go:18` has the switch.
- `IndexMoved`'s comment (`internal/library/scanner.go:2038`) says that without a
  usable `from` "the path is indexed as IndexPath would". `IndexPath` looks for where
  the book was (`movedFrom`); `IndexMoved` does not, so a Bridge rescan of a moved
  book that names no `from` indexes it as new while its old row stays, and the next
  scan no longer sees it as moved: its state is stranded (`Wild = {"from"}`).
- `detectMoves` (`internal/library/scanner.go:2275`) takes a vanished path with the new
  book's fingerprint, in the order of a map. When a copy of a book was removed and the
  book itself moved before a scan ran, two vanished rows have that fingerprint, and the
  listeners' state is carried only if the one it is keyed on is picked
  (`Wild = {"copies"}`). The search for an invariant that implies `StateWithBook` led
  here; the model then forbade it and the run was widened to three changes.
- `bookOnDisk` counts a path it cannot check as present
  (`internal/library/scanner.go:2125`). A book that has left a folder which cannot be read
  just then is so indexed at its new path as a new book, while the old row and its state
  stay; once the new path is indexed no later scan sees a move there, and the state is
  stranded (`Wild = {"faults"}`).
- `detectMoves` does run after a partial discovery (`internal/library/scanner.go:318`), and
  a book in a folder that the walk could not read has "disappeared" for it. A copy of that
  book, new elsewhere, takes its listeners' state, although the book is still there.
  `PresentKeepsState` therefore excepts, for scans only, paths that could not be read.
- `indexBookFrom` drops the moved book's old row at the very end
  (`internal/library/scanner.go:2082`), and `DeleteBookAt` deletes whatever row is at
  that path by then. When, between the write of the new row and this delete, another book
  was put on the old path and a scan indexed it there, that book loses its row; if it
  then moves on before the next scan, nothing connects it to its state. The proof of
  `StateWithBook` came to a stop here: no bounded run had reached it (it takes four paths,
  two books and a partial scan), and TLC confirmed it from a state given to it. The model
  now counts it among the races.

## 4. What is proved

TLAPS checks the following for *every* value of the constants: any set of kinds, paths,
books, feeds, modules, libraries, claim loops and handlers, and any bound on jobs,
attempts, changes, crashes and starts.

Assumptions, one named `ASSUME` in each module, all about constants only:
`BridgeJobsAssumption` (kinds are the source's, at least one kind and path, at least
one attempt), `MaxRunsAssumption`, `ClaimWaitAssumption`, `BridgePairingAssumption`,
`ScanQueueAssumption`, `LibraryAssumption` (finitely many paths; "no book" and
"unreadable" are not books), `FollowAssumption` and `RestoreAssumption` (at least one
copy kept). The rest of each says that bounds are naturals and options are among those
the module knows.

Every proof has the same shape. `IInv` is the inductive invariant of a module, lemma
`InitInv` its start, one lemma per action (or per group of actions that change the
same things) its step, theorem `Inductive` is `Spec => []IInv`, and the properties
follow from it. Each `IInv` was first checked by TLC.

**BridgeJobsProofs.** None of the invariants is inductive alone. `IInv` joins

- `TypeOK` and `OneOpenPerKey`;
- `RowInv`, what every single row satisfies: a lease exactly while claimed or
  running; a queued row has attempts left, no cancel, no report and no error; an
  ending has been told once and nothing else has; the cancel reason stands only on
  cancelled work;
- `ReplyInv`, what a reply under way says of its row: its attempt is the row's or an
  older one; and while the row is still claimed under that attempt *and that lease*,
  nothing was reported on it. A release matches exactly state, attempt and lease, so
  it takes back only a claim nobody has used;
- `RepliesDistinct`: an attempt number of a job is on at most one reply;
- `BridgeInv`: a Bridge that reads only whole replies has read no attempt beyond the
  row's, and none that is on a reply under way.

The last three are what makes giving an attempt number back safe, and they are why
`FreshAttempt` needs an argument at all. The proof describes each way a row changes
once (`ExpireRowStep`, `CancelRowStep`, `ReportStep`, `MoveStep`, `ClaimStep`,
`ReleaseStep`, ...) as a *row step* that keeps `RowInv` and the frame the replies
rely on, then lifts row steps to tables (`TableStep`), and has one lemma per action.

| Theorem | States |
|---|---|
| `TypeCorrect` | `TypeOK` |
| `KeysUnique` | `OneOpenPerKey`: the partial unique index is never tripped |
| `QueueClean` | `QueuedIsClaimable`: a queued job can be claimed |
| `QueueFresh` | `QueuedReadsFresh`: and carries no report, early readers included |
| `EndingsTold` | `ToldOnce`, `ReasonOnlyOnCancel` |
| `AttemptsFence` | `FreshAttempt`, for a Bridge that reads only whole replies |
| `Endings` | `CancelSticks`, `EndedIsFinal` (an ended job never changes) |
| `NoOverlapWithoutMoves` | `NeverOverlap` in every behaviour in which no book moves |
| `OverlapOnlyByMoves` | `OnlyMovesOverlap`: a step that makes conflicting jobs overlap is a move |

**ModuleRunnerProofs.** `IInv == TypeOK /\ Chain /\ Room /\ Awaiting`. `Chain`: every
run before one that has begun or returned has returned; `Room`: a Sync to come has a
run number left for each module (an artefact of the bound); `Awaiting`: once Stop is
called the context has ended, and each module's last run is awaited or done. From it
`NoTwoRuns` (`OneRunAtATime`) and `QuietAfterStop` (`StoppedIsQuiet`): waiting for
each module's *last* run is enough, because of the chain.

**ClaimWaitProofs.** `NoLostWakeup` is inductive beside the shapes of the variables: a
claim goes to sleep only on a queue it has just found empty and on a channel taken
before that look, and a step that fills the queue owes a signal, or is one of those
that signal nobody and then puts the job in `quiet`. `WakeupsKept` states it.

**BridgePairingProofs.** What a handler may cache turns on the generation it read, so
`SaverInv` and `ReaderInv` say what a handler whose generation is *still the cache's*
carries: the stored heartbeat, unless somebody is yet to move the cache on. With them
`BeatOfPaired` and `CacheCurrent` are inductive: `BeatsArePaired`, `CacheIsCurrent`.

**ScanQueueProofs.** `CoverInv` is the heart: a change that no scan has read is waited
for by a queued scan, a worker about to read the library, or a caller yet to queue one.
A startup caller counts only while no scan of the library runs, since `Enqueue` folds
it into one that does; a manual or settings caller always counts.
`RunInv` ties the worker's place to the running job, `RowInv` an open row to it, and
`SlotInv` keeps a served slot from being due again or held by a tick under way.

| Theorem | States |
|---|---|
| `NeverLosesWake` | `NoLostWake`: the worker never waits on a queue that has a job |
| `QueuedOnce` | `OnePerLibrary`: a library waits at most once |
| `ChangesGetScanned` | `ChangeGetsScanned`: no change is left without a scan to come |
| `IdleIsRecorded` | `IdleMeansRecorded`: progress reads idle only when the row is closed |
| `SlotsQueuedOnce` | `SlotOnce`: no slot of the schedule is queued twice |

**LibraryScanProofs** has two inductive invariants. `IInv` holds for every `Wild`.
`WalkInv`: a path the walk missed was without
a book at some moment of this scan, unless a folder could not be read, and then the
scan is partial and does not get to prune. `Calm` says that no file changed since the
last completed scan, or since the running one began, and all can be read; while it
holds, `ScanTrue` says that what the scan saw, read and wrote, or found no need to
read, is as on disk, and `RequestsTrue` the same of the requests beside it. `FaultSeen`
says that a fault during a scan made it partial or lies ahead of the walk.

`SInv`, on top of it, is what `StateWithBook` needs when `Wild` is empty. A book is
*stray* when it is on disk and its state is keyed on a path where it is not. `OneBook`:
a path is known (to the disk, the index, a scan, the state's keys, or a request about to
delete its row) for one book only, so that no carry and no delete touches another one's.
`StrayRow`: a stray book has exactly one row, at the path its state is on. `StrayScan`:
a running scan knows the book there and nowhere else, and either has yet to carry its
state or will keep that row through its prune. `StrayReq`: a request for the book carries
from that path, and has done so before it writes a row. `BooksSeen`: a walk that is over
found every book on disk somewhere, unless it was partial; it is what keeps the row of a
book that moves behind the walk's back. `ScanReads` and `RequestReads`: what is to be
read is there. A scan that ends over quiet files saw a stray book's home empty, and so
would have carried its state; hence there is none.

`AwayInv` is for `PresentKeepsState`: a request past its check of the old path was `away`,
which is to say that the path was without a book at some moment since the request knew
of it, whatever has been put there since.

| Theorem | States |
|---|---|
| `IndexIsDisk` | `IndexMatchesDisk`: after a full scan over quiet files the index is the disk |
| `PrunesGone` | `PrunesOnlyGone`: a scan deletes only rows of paths that were without a book |
| `CarriesFromGone` | `PresentKeepsState`: state is carried only from a path that was seen without its book, or that a scan could not read |
| `StateStays` | `StateWithBook` for `Wild = {}`: after a full scan over quiet files every book on disk has its listeners' state with it |

**PrivateFollowProofs.** That a claim in flight finds its URL rests on nobody ending its
request meanwhile. The lock does not see to that, since reports and cancels do not take
it. `ClaimsBehind` (no claim is ahead of its job's attempts) and `InFlight` (the claim
being answered has the newest attempt, so that no other claim can report on it, and its
URL is in memory) do. `AskedHeld`: an open request made to *this* run of the server has
its URL or is about to, from which only a restart loses one.

| Theorem | States |
|---|---|
| `ClaimsCarryUrl` | `HandedWithUrl`: no claim goes out without its URL |
| `SecretsEnd` | `SecretEndsWithRequest`: no URL outlives its request |
| `OnlyRestartsLose` | `LostOnlyByRestart`: a request expires as one whose URL was lost only after a restart |

**RestoreProofs**, whatever the disk refuses. What a step of the start may do rests on
what the steps before it left: `StartInv` says what each place in
`ApplyPendingRestore` knows of the disk (before the swap, all the database held is in
another file, and no log is left), `AsideInv` what `keepAside` has moved in this start,
`MakerInv` that a backup being written holds no more than the database, `AskInv` that
no marker is ahead of what was asked. `OwnWal` states `NoForeignWal`, `AppliedOnce`
states `NoReplay`. `NothingLost` is a second invariant, `WasInv`: the database's files hold
exactly what the database should hold, or, once the safety copy or the fold has failed in
a start whose restore is not applied, these files and the copies together hold it; and
only then are the log and the main file moved or a log with commits removed.
`Implements` is the refinement `KeepsPromise`, from both: `InitSeen` shows that initial
states map to initial states of `AtomicRestore`, and `StepSeen` that each step maps to a
step of it or leaves what it sees alone. The renames of `keepAside`, their undoing and the
removal of a log are `Handle`, and possible only at risk; the swap is `Apply`; checking,
staging and recording are unseen. That `db` is equal to `held` where a server comes up
without risk is `WasInv`.

*Only model-checked.*

- Liveness (`Served`, `LapseNoticed`, `Recovered`, `OnRuns`, `OffQuiets`, `StopEnds`,
  `ChangeApplied`, `EndsFolded`): fairness and ENABLED are beyond the prover.
- All of `ListeningSync`: a batch is folded event by event, and what a fold computes
  for every batch needs induction over data.

## 5. What is not modelled

Failing database I/O, other than where a failure is an outcome of its own (an
unsent reply, a scan that fails, a row that was not recorded, a fold that rolls
back). Deleting the pairing admin's account. The contents of scans, heartbeats,
notifications, feeds and results. Before-upgrade copies, the backup schedule's times
and an unreadable marker.

Most of this repository is not control: SQL reads behind browsing, search and series,
parsing of tags, feeds and metadata, scoring of text matches, JSON routing, and the
console. A model checker has nothing to say about those that a test does not say
better, so they stay out, and the modules cover a small share of the source's lines.
Of what has control, match runs, notifications, Audible jobs, accounts and the file
cache are not modelled yet.

## 6. Plan

1. `ListeningSync` with a batch as a sequence of steps inside its transaction instead of
   a fold, so that `RowInOrder`, `CountedOnce` and `FinishConverges` become provable.
2. `Notify` and `MatchRunner`: a bounded queue with retries; one run at a time with
   cancel between plan and apply.
3. Before-upgrade copies and their retention in `Restore`.
4. `GenMap`: the generation-checked cache once, with `BridgePairing`'s as an instance.
5. An abstract job queue that `BridgeJobs` and `PrivateFollow` both implement.
