# A TLA+ model of Rapp Recall

Rapp Recall records the screen of a Mac into a local, searchable history. A
daemon takes frames from ScreenCaptureKit, drops what the exclusion policy
covers, runs OCR, and stores a *moment*: an image in a media tree and a row, with
its text index, in an encrypted SQLite database. Other processes of the same
program search the history, star moments, purge old ones, and pause, resume and
stop the daemon through a command table in the same database.

This directory holds TLA+ modules for the parts of that program whose correctness
depends on the order in which things happen, TLC configurations that check them
on small instances, and proofs, checked by TLAPS, of their invariants, of three
refinements and of what a search returns. Paths below are relative to the repository; `RecallCore/` is
`Sources/RecallCore/`.

## 1. Inventory

| Component | State | Operations | Talks to |
|---|---|---|---|
| **RecallDaemon** (`RecallCore/RecallDaemon.swift`), an actor | `status`, `sourceRunning`, `processingFrame`, `shuttingDown`, `finished`, the continuation of `run()` | `run`, `receive`, `commandLoop`/`process`, `fail`, `shutdown`, `drainInFlightFrame`, `requestStop` | awaits the store, the frame source and the pipeline; re-entrant at every `await` |
| **RecallStore, moments** (`RecallStore.swift`), an actor per process | table `moments` with its FTS triggers, `media/`, `.trash/` | `add`, `purge(before:)`, `setStarred`, `search` | SQLite and the file system, both shared with other processes |
| **RecallStore, runtime tables** | `runtime_state` (one row), `runtime_commands` | `setRuntimeStatus`, `enqueueRuntimeCommand`, `nextRuntimeCommand`, `completeRuntimeCommand`, `abandonPendingRuntimeCommands` | the mailbox between the command line and the daemon |
| **CapturePipeline** | `policy`, `previousFrameHash` | `process` | encoder, text extractor, store |
| **ScreenCaptureFrameSource** | `stream`, `handler`, the refresh task of the exclusion filter | `start`, `stop`, `emit`, `refreshContentFilter` | ScreenCaptureKit; spawns one task per event on the daemon |
| **Command line** (`Sources/RappRecall/RappRecallCLI.swift`) | the daemon lock, start-up poll | `runDaemon`, `send`, `status`, `search`, `star`, `purge`, `doctor` | the store |
| **DatabaseKeyProvider** | the key file or Keychain item | `loadOrCreate` | several processes may start at once |
| **ExclusionPolicy**, **search expression**, **VisionTextExtractor** ordering, **argument parser** | none | pure functions | |
| HEIF encoder, vendored SQLCipher, acceptance suite, scripts | none of their own | | not modelled |

### What is hard

* *Re-entrancy.* An actor runs one synchronous stretch at a time, but every
  `await` lets any other of its tasks in. The daemon has a dozen awaits in
  `process`, `receive`, `fail` and `shutdown` across which it relies on a state,
  `processingFrame`, or `sourceRunning` that others write.
* *Waiting for each other.* `shutdown()` and the pause wait for the frame in
  flight, and a failing frame calls `shutdown()`.
* *Order of messages.* Events start tasks of their own (`Task { await receive }`),
  and the store actor serves its callers by priority, not by arrival, so frames,
  failures and status snapshots arrive in any order.
* *Two resources without a common transaction.* A moment is a file and a row; add
  and purge keep them together with renames, a transaction and compensating
  moves, in several processes, each of which may crash.
* *Processes that come and go.* Commands outlive the daemon they were sent to,
  and the lock, the row and the PID are read at different times.

### What makes each part correct

* Daemon: one frame in the pipeline at a time; a successful pause or stop is a
  *write barrier*; a stopped daemon stores nothing; commands are answered, once,
  in order, and never inherited from an earlier daemon; every shutdown and every
  failure ends the process.
* Store: no image of a kept moment is lost; a purge removes all it covers or
  nothing; a failed purge leaves everything in place.
* Pipeline: excluded frames reach nothing; a duplicate is a repetition of the
  last *stored* frame.
* Frame source: the filter in force is the one the code believes in, and sessions do
  not overlap.
* Index and search: the index holds the words of exactly the rows, and a search returns
  what the documentation promises.
* Key file: all processes agree on the one key, and none uses a partial one.
* Command line: one daemon at a time, and a command is for the daemon its caller
  saw.

`PROJECT.json` lists every component with its status, and every hazard at its line.

## 2. The modules

| Module | What it is |
|---|---|
| `RecallDaemon` | the daemon actor, in one life of its process |
| `WriteBarrier` | abstract: what a caller of `pause --wait` or `stop --wait` is promised |
| `RecallDaemonProofs` | the inductive invariant of the daemon, and its theorems |
| `CommandProofs` | on top of it: the command queue, and the proof that the daemon implements `WriteBarrier` |
| `FrameSource` | the capture session: `start`, `stop`, the refresh of the privacy filter |
| `CaptureSession` | abstract: the sessions that the daemon takes a frame source to have |
| `FrameSourceProofs` | its inductive invariant, theorems, and the proof of the refinement |
| `Timeline` | exclusion policy, `CapturePipeline.process`, and the table `moments` with its full-text index |
| `SearchExpression` | pure: `ftsExpression`, and what the documentation says a query means |
| `TimelineSearch` | `search` and `recent` over a timeline, against what is promised of their results |
| `TimelineProofs` | the inductive invariant of `Timeline`, and its theorems |
| `SearchProofs` | that the scan of a query and a search are right, for every query and every history |
| `MomentStore` | `add` and `purge(before:)` over rows, media tree and trash |
| `RetainedHistory` | abstract: moments join and leave, each with its image |
| `MomentStoreProofs` | its inductive invariant, theorems, and the proof of the refinement |
| `DatabaseKey` | the key file and the Keychain item, and the processes that race for them |
| `DatabaseKeyProofs` | its inductive invariant and theorems |
| `DaemonLifecycle` | several lives of the daemon, its lock and row, and the processes that send it commands |
| `DaemonLifecycleProofs` | its inductive invariant and theorems |
| `MC...` | constants and symmetry for TLC |

How they compose: `RecallDaemon` calls the frame source, the pipeline and the store,
and each of them has a module that shows what the daemon's model takes for granted.
`FrameSource` implements `CaptureSession`, whose states are those of the variable
`source` in `RecallDaemon`. `Timeline` is the pipeline that `RecallDaemon` reduces to an
outcome; its guard `inflight = {}` is what `OneFrameInFlight` establishes there.
`MomentStore` is the part of `add` and `purge` that `Timeline` reduces to the statement
on the table. `DaemonLifecycle` puts several daemons, each reduced to its writes, in a row.

Definitions marked *Faulty* are versions of an action with a plausible bug. No
specification uses them; put in place of the action below them they show that a
property can fail.

### RecallDaemon

One action is the code between two awaits. `pc[t]` names the `await` at which task
`t` is suspended. The tasks are `run` (`run()`), `loop` (the task
that `startCommandLoop` creates), `shutdown` (the body of `shutdown()`, which
several callers may ask for and one runs), one task per frame and one per
`.failure` event of the source. `mail[t]` is the snapshot that `t` has passed to
`persistStatus()`; `StoreWrites(t)` and `StoreThrows(t)` serve any waiting caller,
because the store is an actor and Swift's actors are not first in first out.

| Code | Actions |
|---|---|
| `run()` | `RunAbandon`, `RunStart`, `RunStarted`, `RunRecording`, `RunReturns`, their `...Throws`, `Exit` |
| `commandLoop()` | `LoopCheck`, `LoopIdle`, `LoopFetchThrows`, `BeginCommand` |
| `process(.pause)` | `BeginPause`, `LoopPersisted`, `LoopCallsStop`, `LoopStopReturns`, `PauseDrained`, `Complete` |
| `process(.resume)` | `BeginResume`, `ResumeStarted`, `ResumeStartThrows` |
| `process(.stop)` | `BeginStop`, ..., `StopDrained`, `StopShutdownReturns`, `Complete` |
| catch of `process` | `CompleteError` (receipt, then `fail`) |
| `receive(.frame)` | `Receive...`, `Pipeline...`, `Frame...` |
| `receive(.failure)`, `fail` | `ReceiveFailure`, `FailPersisted`, `FailOvertaken` |
| `shutdown(finalState:)` | `BeginShutdown`, `ShutdownPersisted`, `ShutdownCallsStop`, `ShutdownDrained`, `ShutdownDone` |
| `requestStop()` | `RequestStop` |
| `source.start/stop`, sample buffers | `SourceStarts`, `CallStop`, `StopReturns`, `Capture`, `EmitFailure` |
| other processes | `EnqueueCommand` |

Abstractions. Counters, timestamps and `lastError` are left out: no property
reads them. A frame is a model value; the pipeline is its outcome
(`PipelineStores`, `PipelineSkips`, `PipelineThrows`), with the commit of the
moment a step of its own before its return. Calls of the store that consist of one
SQL statement (fetching and answering a command, abandoning the leftovers) are one
step with the code that continues after them. A waiting drain is the guard
`~processingFrame`. The five-second start-up poll of `runDaemon()` appears only as
one reason for `RequestStop`; that it may end the process without waiting for
`run()` is modelled in `DaemonLifecycle`.

### FrameSource

`ScreenCaptureFrameSource` is no actor: its fields are guarded by a lock and its
functions run on several threads. An action is the code from one await or critical
section to the next. `pc` says where the two callers are, the daemon's command loop and
its `shutdown()`; `rpc[s]` where the refresh task of session `s` is; `round` and
`active` are locals of a round and of a `stop()`. `filter` and `layout` are what
ScreenCaptureKit really applies, `record` is what the code believes it applies.

| Code | Actions |
|---|---|
| `start(handler:)` | `StartLists`, `StartContent`, `StartInstalls`, `CaptureBegins`, `StartReturns`, `StartThrows` |
| `stop()`, called by `process` or `shutdown` | `LoopStops`, `ShutdownStops`, `StopCancels`, `StopWaits`, `StopReturns`, `StopThrows` |
| `filterRefreshTask` and `refreshContentFilter()` | `RefreshBegins`, `RefreshContent`, `RefreshCompares`, `FilterApplies`, `ConfigurationApplies`, `RefreshRecords`, `RefreshThrows`, `RefreshEnds` |
| `emit(_:)`, `didStopWithError` | `Emit`, `StreamBreaks`, `DidStopWithError` |
| the user | `Launch`, `Quit`, `MovePointer` |

Left out: the pixels, `currentContext()` and the stream configuration, which read the
window server and change no field; the delivery of frames (`Capture` in `RecallDaemon`).

### Timeline and search

One action of `Timeline` is the code of `process(_:)` between two awaits. An excluded or
duplicate frame changes nothing there. A row carries its window context and its words;
`index` is what the triggers have put into `moments_fts` and not taken out again, so that
`star` and `purge`, in processes of their own, must take out exactly the words that are
in. `added` is a history variable, every insertion ever made, with the life of the daemon
that made it. An encoder, text extractor or store that throws ends the daemon
(`RecallDaemon`), which here is `Restart`.

| Code | Definitions |
|---|---|
| `ExclusionPolicy.decision(for:)` | `Excluded`: `Unknown`, `ExcludedApplication`, `PrivateWindow` |
| `CapturePipeline.process` | `Receive`, `ExtractText`, `Insert`, `Remember` |
| `moments_after_insert/update/delete` | `Posting`, `Postings`, inside `Insert`, `SetStarred`, `Purge` |
| `setStarred`, the `DELETE` of `purge(before:)` | `SetStarred`, `Purge` |
| `ftsExpression` | `Scan`, `EndTerm`, `Scans`, `Terms`, `Phrases` |
| `search(_:)` | `Trimmed`, `Matches`, `OfApplication`, `Selected`, `Newer`, `BoundedLimit`, `Search` |

Abstractions. Words are atoms for titles and OCR text, and sequences of characters only
where `ftsExpression` goes through them; a private-window marker is looked for word by
word, where the code looks for a substring. `Fold` is any map of words that forgets
case. FTS5 is its documentation: a row matches a phrase when the phrase occurs in one of
its columns. Where captures are of equal time SQLite may choose; the model takes the later id
first and `IsResult` asks for no particular order of them.

### MomentStore

Each add and each purge has a program counter, and each of their file operations and
statements is a step. `rows`, `media` and `trash` are shared, `todo`, `moving`
and `moved` are locals of a purge (the rows still to handle, the file found to
exist and not yet moved, the array `moved`). The adds are serialised, since one
daemon runs and its store is an actor; the purges run in processes of their own,
as `rapp-recall purge` does not ask whether a daemon runs. `BEGIN IMMEDIATE` takes
SQLite's write lock (`Locked`); whoever meets it waits, or throws after
`busy_timeout`. `raced` is a history variable: the moments whose row was inserted between the
`SELECT` and the `DELETE` of a purge that covers them, and those that a purge passed over
because another one, which might still fail, had their file. `Throws` is an error that the
code propagates, `Swallows` one that a `try?` (or the loop of `mediaRows`, which takes any
result but `SQLITE_ROW` for the end) hides. A crash stops one add or one purge for good; SQLite rolls back its
transaction.

Left out: the temporary file of an atomic write that crashes, a `ROLLBACK` that
fails; `setStarred` and the FTS table, which triggers change within the statements
that change `moments`, are in `Timeline`.

### DatabaseKey

Each process, daemon or command, runs `loadOrCreate()` and then opens the
database. `kept` is the content of the key file, or the Keychain item: absent,
empty, short, or a complete key. The key a process draws has the name of the
process, since 256 random bits do not repeat. `signed` says which of the two the
installed build uses; it never changes.

| Code | Actions |
|---|---|
| `loadOrCreateLocalKeyFile()`, file found | `LookForFile`, `ReadKey`, `ReadThrows` |
| the same, `O_CREAT \| O_EXCL`, `write`, `fsync` | `CreateFile`, `CreateFindsFile`, `WriteKey`, `WriteFallsShort`, `SyncKey`, `SyncThrows`, `RemoveFile` |
| `loadOrCreateApplicationBoundKeychainItem()` | `LoadItem`, `MissItem`, `AddItem`, `AddItemFindsOne` |
| `RecallStore.init` | `OpenDatabase`: the first to come creates the database with its key |
| any of the calls throws, the process dies | `Throws`, `Crash` |

The file system and the Keychain are taken as linearisable, and what has been written
survives the death of its writer; loss of power is left out.

### DaemonLifecycle

Where `RecallDaemon` has one daemon in full, this module has several of them as
other processes see them: what each writes to the row (`row`) and to the command
table (`commands`), and when. An action is one such write, with the code up to the
next; the order in which snapshots reach the store, the source and the frames are
left to `RecallDaemon`, so a pause or resume here may or may not change the row.

| Code | Actions |
|---|---|
| `DaemonFileLock`, check of the row | `Lock`, `LockIsHeld`, `RowIsLive`, `StartRun`, `ReadThrows` |
| start-up poll, giving up, end of `runDaemon()` | `PollSeesRecording`, `PollSeesFailed`, `PollGivesUp`, `GiveUp`, `MainReturns`, `Exit` |
| `run()` | `RunAbandon`, `RunWritesStatus`, `RunRecords`, `RunFails`, `RunThrows`, `RunReturns` |
| `shutdown()`, signals, failures | `BeginShutdown` (in several actions), `StopOrFail`, `FinishShutdown` |
| `commandLoop()`, `process` | `Loop...` |
| `send` | `SeeDaemon`, `SeeNoDaemon`, `Enqueue`, `SeeReceipt`, `TimeOut` |
| `kill -9` | `Crash`: the kernel releases the lock, the row stays |

`commands[i].by` is a history variable: the daemons that have fetched command `i`. Each
daemon process has a PID of its own (reuse of PIDs is left out). A sender without
`--wait` is one whose wait ends at once.

`runDaemon()` releases its lock in a `defer`, before the process ends, so for a moment
tasks of the old daemon may run beside its successor. `lingers` says whether a
behaviour has such moments. `LiveRowHoldsLock` is checked with and without them;
`BegunOnce` and `ReceiptsAreFinal` are claimed only without: a leaving daemon that fetches or
answers a command while its successor abandons it would break both. Nor does anything say what
a leaving daemon may still write to its row.

## 3. What the runs check

| Run | Instance | Properties |
|---|---|---|
| `daemon` | 2 frames, 1 source failure, 2 commands of which one may be a left-over stop, 2 throws | `TypeOK`, `OneFrameInFlight`, `PauseSettled`, `LeftoverNotCarriedOut`, `AnsweredInOrder`, `StoppedMeansStopped`, `ImplementsWriteBarrier` |
| `daemon_liveness` | 1 frame, 1 failure, 1 command, 1 throw, signals, under `FairSpec` | `ShutdownCompletes`, `EveryCommandAnswered` |
| `frame_source` | 2 sessions, 1 private application, 2 displays, 3 changes, 1 fault, under `FairSpec` | `TypeOK`, `FilterIsRecorded`, `RefreshEndsFirst`, `StaleFilterEnds`, `ImplementsSession` |
| `timeline` | 2 images, 5 contexts, 2 times, 3 moments, 2 lives; in each state 128 requests | `TypeOK`, `IndexFollowsRows`, `ExcludedLeavesNoTrace`, `NoRepeats`, `RemembersLastStored`, `SearchFindsWhatIsAsked` |
| `history_kept` | 2 adds, 1 stored moment, 2 purges, 2 throws, 1 swallowed failure, 2 crashes | `TypeOK`, `NothingLost`, `Consistent`, `ImplementsHistory`, `RemovedTogether` |
| `database_key` | 4 processes, 2 failing calls, 2 crashes, both builds | `TypeOK`, `AllCanRead` |
| `daemon_lives` | 2 daemon processes, 1 sender, 1 throw, 1 crash | `TypeOK`, `BegunOnce`, `LiveRowHoldsLock`, `ReceiptsAreFinal` |
| `stop_unanswered`, `receipt_no_barrier`, `failure_retracted`, `retention_orphan`, `stale_success` | the smallest that show it | see below |

What the properties say:

* `OneFrameInFlight`: `processingFrame` is set exactly while one invocation of
  `receive` is between its guard and its `defer`. Three places clear the marker,
  and `shutdown`, the pause and `previousFrameHash` depend on it.
* `PauseSettled`: from the end of a pause until a resume starts the source, the
  source is released and nothing is in the pipeline, whatever was queued.
* `StoppedMeansStopped`: no moment is stored after `finished`, or after the row
  reads `stopped`.
* `AnsweredInOrder`, `LeftoverNotCarriedOut`, `EveryCommandAnswered`: the three
  promises of the command table, in the presence of throwing calls.
* `ShutdownCompletes`: no drain waits for a frame that waits for the drain.
* `ImplementsWriteBarrier`: without failures and signals, the daemon refines
  `WriteBarrier`: `barrier` is mapped to `BarrierUp` (a successful receipt of a pause or
  stop stands and no later resume has begun) as long as nothing has disturbed it
  (`Undisturbed`). With a failure it does not, which is `receipt_no_barrier`.
* `FilterIsRecorded`: each second the refresh compares the world with `record`. If that
  differed from the filter in force, because a late round of an old session wrote it
  or because an update half succeeded, a private application could stay visible for ever
  with no round finding a difference. Hence it may differ only after a failure was reported.
* `StaleFilterEnds`: the consequence for the user, as liveness.
* `RefreshEndsFirst`, `ImplementsSession`: a refresh is over before its stream is
  stopped, two overlapping stops share one stream, and no failure finds a handler
  outside of a session.
* `IndexFollowsRows`: the promise of `docs/architecture.md:57`, against adds, stars and
  purges of several processes.
* `ExcludedLeavesNoTrace`: no frame that the policy has to keep out gets past it, at any
  moment. `Forbidden` has the same rules as the code's decision, with case ignored in title
  and marker alike, where the code lowercases the title only. What the property adds is that
  the decision comes before everything else and that nothing it excludes gets in later.
* `NoRepeats`, `RemembersLastStored`: a hash that is compared before two awaits and
  remembered after them is still the right one.
* `SearchFindsWhatIsAsked`: for every query of up to five characters the scan of the
  query finds the words and phrases that `docs/cli.md:79` promises (`Asked`, which counts
  quotes and knows no scan), and in every state the results are the rows that answer
  the request, newest first, cut only at the limit.
* `NothingLost`, `ImplementsHistory`: whatever throws, races or crashes, a row
  has its image, in place or in the trash, and the set of such moments changes
  only as `RetainedHistory` allows.
* `Consistent`: unless a process dies or a `try?` hides a failure, everything is
  in place again when all calls have ended.
* `RemovedTogether`: what can be had of `docs/evidence.md:28` ("retention removes media,
  SQLite, and FTS together") across throws, rollbacks and crashes: once its row is gone,
  the image of a moment is at most in the trash of a purge that is about to empty it, or has
  died. Moments that two calls have had in hand at once are excepted: for one half of them the
  promise is broken in `retention_orphan`, for the other see the observations below.
  Failures that a `try?` hides are excepted too.
* `AllCanRead`: all processes that get a key get the one that the database was
  created with. The premise `NoneWithdrawn` names the one exception, which the
  model found: `fsync` fails on a complete file, and its creator removes it although
  others may have read it.
* `TypeOK` of `DatabaseKey`: nobody gets the empty or partial key that is visible
  between `O_EXCL` and the end of the write.
* `BegunOnce`: no command is begun by two daemons, although commands outlive daemons
  and a daemon may die with one in hand.
* `ReceiptsAreFinal`: what a sender has read of its command stays true. This and `BegunOnce`
  hold as long as no process works on after it has released its lock (`~lingers`).
* `LiveRowHoldsLock`: what `send` and `status` conclude from row and PID agrees with the
  daemon lock, except for a process that has released it and is about to end.

### Bounds

`MaxCommands`, `MaxFaults`, `MaxSwallowed`, `MaxCrashes`, `MaxSessions`, `MaxChanges`,
`MaxMoments` and `MaxLives` bound what the environment does, never what the code does.

* Daemon. Two frames are what it takes for one to be in flight and the other queued,
  dropped or taken by mistake. Two commands give every pair (pause then resume, pause then
  stop, stop then stop), or a left-over one and one of this life. One throw reaches
  every catch and the second lets the catch itself fail. Signals are in
  `daemon_liveness`. `CommandProofs` has the barrier for any number of frames and commands.
* Frame source. Two sessions, since a late round can only harm the next one. Three
  changes: the pointer moves, moves back, and an application starts. One fault
  reaches every call that throws; a second would only follow a reported failure.
* Timeline. Three moments and two lives give a repetition within a life and one across
  lives. Two clock values, in any order, since the clock may be set back. The
  contexts are one that is kept, one without bundle or title, and one for each reason to exclude. Five characters
  over two letters, space and quote hold a quoted phrase of two words, an
  empty pair of quotes next to a word, and every way not to close a quote. The results
  are capped at 2 instead of 1000, and the limits asked for are one above the cap and one
  below 1. `SearchProofs` has the queries and results of any length.
* Store. Two purges overlap in every way two can, with cutoffs of which one covers the
  other; the three moments are one that both cover, one that one covers, and one that none
  covers.
* Key. Four processes give a creator, one that meets its unfinished file, one that
  comes after its removal and creates another, and one that reads that.
* Lives. Two daemons are a predecessor and a successor; a third would only be a
  successor again.

Deadlock is checked in every run: `Terminated` marks the states in which the system
really has ended; `Timeline` never ends.

### Fairness

`FairSpec` assumes weak fairness of each task's own steps (Swift's executor runs
every job that can run), of the store's service, of `source.start()` and
`stopCapture` returning, and of the pipeline (Vision returns). The last two are
assumptions about external code: the program has no timeout there, and without
them neither a pause nor a stop ever completes. Nothing is assumed of frames,
signals, commands, failures or throws. Stop can be overtaken by no endless work
since a loop that sees `shuttingDown` ends.

`FrameSource` assumes weak fairness of `start`, of each `stop` and each refresh task, and
that ScreenCaptureKit begins a capture it was asked for. Nothing is assumed of the user,
of failures, or of the daemon's decision to start and stop.

### Where the code and what is said of it part

* `stop_unanswered`: `process(.stop)` writes its receipt after `shutdown()`
  returns (`RecallDaemon.swift:164-167`), but `shutdown()` has by then resumed `run()` (line
  202), whose return ends the process. A caller of `stop --wait` may find its command
  unanswered. `docs/cli.md:68` says that `--wait` "returns only after the daemon
  records a receipt".
* `receipt_no_barrier`: a pause taken up while the state is not `recording` skips
  stop and drain (line 136) and succeeds at once, although a failure that is being
  reported leaves a frame in flight, which is then stored. `docs/cli.md:68-70`
  calls pause and stop write barriers.
* `failure_retracted`: `run()` and the resume set `recording` after awaiting
  `source.start` (lines 46 and 152) whatever happened meanwhile; a failure that
  has reached the row is overwritten. `docs/architecture.md:86`: "visible
  stopped/error state; no success fallback".
* `retention_orphan`: `purge` moves the media of the rows it has read
  (`RecallStore.swift:237`) but deletes by the predicate (line 259). A moment that
  the daemon inserts in between loses its row and keeps its image.
  `docs/evidence.md:28`: "retention removes media, SQLite, and FTS together".

* `stale_success`: the start-up poll takes the first row that says `recording` or
  `failed` for its own (`RappRecallCLI.swift:276`). After a daemon that was killed, that
  is the row of the dead one, and success is printed before `run()` has written
  anything; capture may then fail to start. `docs/architecture.md:86`: "Capture
  permission denied: visible stopped/error state; no success fallback".

Further observations, which no run states:

* Status snapshots may be written out of order, so that an older one is the last row
  (`RecallDaemon.swift:214`).
* A crash between the move to the trash and `COMMIT` leaves rows whose images are in the
  trash, from where no code fetches them back.
* Of two purges that overlap, the first may have moved a file when the second finds it
  missing, passes over it (line 247) and deletes its row; if the first then fails, as it does
  when it has waited for the second's lock too long, it moves the file back, and an image is left without a row.
* OCR and store failures end the daemon with the state `failed` (`RecallDaemon.swift:105-112`);
  `docs/architecture.md:87-89` says that the frame persists with an error state, and
  that capture pauses.
* Nothing marks a search result whose media file is missing (`docs/architecture.md:91`).
* A purge does not reach `previousFrameHash`: after the last screen has been purged its
  frames stay duplicates until the screen changes.
* The window context is read when a frame is delivered, after its pixels were captured
  (`ScreenCaptureFrameSource.swift:324`).
* A search for white space only lists recent moments; results end at 1000 whatever
  `--limit` says; `--off=false` still sets the flag.
* The PID in `.daemon.lock` is overwritten before the lock is tried
  (`RappRecallCLI.swift:149-154`); nothing reads it.
* The comparator of recognised lines (`VisionTextExtractor.swift:49-61`) is no strict weak
  order: of three lines, the second a little lower than the first and the third a little
  lower than the second, each pair may be on one row while the outer two are not.

## 4. What is proved

Every theorem holds for all values of the constants under the assumptions that the
modules name: tasks are distinct (`TasksAssumption`), bounds are numbers
(`BoundsAssumption`, `FaultsAssumption`, `LimitsAssumption`), the stand-ins for `nil`
are no display and no image (`DisplaysAssumption`, `TimelineAssumption`), titles have a
length (`TitlesAssumption`) and markers are lower-case sequences (`MarkersAssumption`: those
of `ExclusionPolicy.swift:23-27` are, and the daemon is built with no others; the code would
never find a marker with a capital), a space is no quote (`CharactersAssumption`), queries and the texts of requests are sequences of
characters, limits are integers and the cap of results is at least 1
(`SearchAssumption`), moments and purges are distinct and have times
(`HistoryAssumption`), and no process is called like a state of the key file
(`ProcessesAssumption`).

**RecallDaemon** (`RecallDaemonProofs`). `TypeCorrect` shows `TypeOK`.
`Invariant` shows `Inv`, from which follow `InFlightMarkerIsExact`
(`OneFrameInFlight`), `PauseHolds` (`PauseSettled`) and `StoppedStoresNothing`
(`StoppedMeansStopped`, an action property). None of these is inductive alone.
What `Inv` adds is, for each await, what may have happened across it:

* `StartsFirst`: no frame is taken and no command processed before `run()` is up.
  Otherwise `RunStarted` could set `recording` over anything.
* `FailingFrameIsAlone`: a frame that has thrown clears the marker *before* it
  waits, so another could be taken, and its second clearing of the marker (the
  `defer`) would be wrong. It is not, because the state by then is `failed` or
  later and nothing returns it to `recording`.
* `ResumesFromPause`, `SourceKnown`, `PauseSilences`: what the loop knows of the
  source and the pipeline while it pauses or resumes.
* `ShutdownOnce`: `shutdown()` runs once, and never from a paused state.
* `FinalStatus`: `stopped` exists, in the state, the row or a snapshot on its way,
  only after the drain.

The preservation proof has one step per action and one lemma per group of tasks.

**Commands** (`CommandProofs`). `QueueInv`: the command in hand is the first pending one,
and a left-over one is pending only while no loop can fetch it. From it follow
`ReceiptsInOrder` (`AnsweredInOrder`) and `LeftoversAreAbandoned`
(`LeftoverNotCarriedOut`). `ReceiptsAreBarriers` is the refinement of `WriteBarrier`. A
receipt may stand only when the pipeline is empty, so `BarrierInv` says what the state is
at each point of a pause, resume and stop (`HandlesItsKind`), that only the
stop command shuts down (`StopShutsDown`), and that a standing receipt keeps the
pipeline empty (`ReceiptsHold`). All of it is conditional on `Undisturbed`: a failure
breaks each part, and once disturbed the mapped barrier is down for good.

**FrameSource** (`FrameSourceProofs`). The invariant follows a stream and its refresh task
from `start()`, which owns them first (`StartsAlone`), through the fields
(`FieldsTogether`), into the locals of the one `stop()` that takes them (`TakenTogether`), so
that a refresh task is always reachable by the stop that will end it (`RefreshOwned`) and
knows what has been applied to its stream (`RoundsKnow`). `RecordIsTrue`
(`FilterIsRecorded`), `RefreshIsContained` (`RefreshEndsFirst`) and `SourceKeepsSessions` (the
refinement of `CaptureSession`) follow.

**Timeline** (`TimelineProofs`). `NoRepeats` and `RemembersLastStored` are not inductive: a
frame in flight carries the result of a comparison made two awaits ago. `StillNew` adds
that it still differs from what was stored last until it is inserted, and is what was
stored last after that; it needs that one frame is in flight (`TypeOK`). `IndexNeverDrifts`,
`ExclusionComesFirst`, `StoresAreDistinct` and `MemoryIsTrue` hold for any policy, contexts,
images and clocks.

**Search** (`SearchProofs`). `QueriesMeanWhatTheySay` is about the loop of
`ftsExpression`, for queries of any length over any alphabet. `LoopInvariant`
(`LoopInv`) says after each character: `inside` is the parity of the quotes so far;
`current` is the query since the last break, where a break is a quote, or outside quotes
a space; and the terms are exactly the runs of characters between breaks that have
ended. At the end (`TermsAreRuns`) the runs are those of the whole query, an unclosed
quote included. `RunsAreStretches` compares them with what `Asked` counts from outside:
a run outside quotes is a word, one inside is the text of a pair of quotes.
`TokensOfAWord`, `PhrasesAreAsked` say the same of their phrases, and
`TrimmingIsHarmless` that `search` may take the white space off both ends first, which
may be inside an unclosed quote.

`SearchIsFaithful` (`SearchFindsWhatIsAsked`) puts it together with the invariant of
`Timeline`: the join with the index finds the rows whose columns hold one of the phrases
(`IndexSays`, from `IndexFollowsRows`), which are those that were asked for
(`SelectedIsAsked`); any finite set of rows can be put in order of time and id
(`SortedExists`, so that the `CHOOSE` of `Ordered` chooses one), and its first
`BoundedLimit` rows leave out no newer one than they contain.

The model's scan is a recursive function, and an induction theorem with an operator as
parameter cannot be used here. Each induction is instead by least counterexample: a set
of numbers that is not empty has a first one (`LeastNatural`, from the well-foundedness
of `<` on the naturals), and for the first place where a claim fails it would have to
hold just before (`UpTo`).

**DaemonLifecycle** (`DaemonLifecycleProofs`). `Ownership`: exactly the process between
`Lock` and `Leave` holds the lock, and only processes whose `run()` has begun are in the row.
`LiveRowIsHolders` follows. `Custody`: a command that has been begun and is unanswered is
in the hands of the one running daemon, or of a dead one, and is then abandoned before
the next loop begins. `CommandsBeginOnce` and `ReceiptsStay` follow, for any
number of daemons, senders, throws and crashes.

**MomentStore** (`MomentStoreProofs`). The invariant adds to `TypeOK` and
`NothingLost`: a row belongs to an add that is over (`RowsAreAdded`), an add about
to insert has its file (`AddsHaveMedia`), purges only claim moments whose add is
over (`ClaimsAreAdded`), and a purge that empties its trash has no row left in it
(`EmptiesDeleted`). Since an add never starts again, no purge can take the file of
an add in progress; since the DELETE precedes the emptying and covers all of
`moved`, no row loses its image. `NoImageLost` follows. `KeepsHistory` proves the
refinement of `RetainedHistory`: by `NothingLost` the mapping is the table
itself, `InsertRow` adds one moment, `DeleteAndCommit` removes what the cutoff
covers, and every other step stutters. `FailuresAreUndone` (`Consistent`) adds
`TrashIsMoved`: while nothing was swallowed, the trash holds exactly what the purges have in
`moved`, and of those that have ended only the dead ones have anything there.

`RetentionIsWhole` (`RemovedTogether`) needs to know where each covered moment is at every
stage of a purge, and that is `Removal`: what the locals of a purge hold at each stage
(`Stages`); that a file is in one place only (`FilesApart`); that until its `DELETE` a purge
still has to handle, or has moved, every row it covers, unless the moment is in `raced` or its
file is held by a purge that has died (`Selected`); and that afterwards only a purge that
empties its trash, or has died, holds the file (`Deleted`). `Selected` is why nothing it has
deleted the row of can be moved back: a purge that may still fail could only have such a file
if the two had met, and then the moment is in `raced`.

**DatabaseKey** (`DatabaseKeyProofs`). `AllCanRead` is not inductive: it must be known
who may write to the file and who has read it. `OneCreator`: at most one process is between
the `O_EXCL` creation and the end of its work, and it knows what is in the file.
`OneKey`: whoever has a key has the one that is kept, and so has the database.
`Builds`: the file and the Keychain are never mixed. The first two hold as long as no
complete key was withdrawn. `DatabaseIsReadable` (`AllCanRead`) and `KeysAreComplete`
(`TypeOK`) follow, for any number of processes.

**Only model-checked**: the liveness properties (`ShutdownCompletes`,
`EveryCommandAnswered`, `StaleFilterEnds`), since TLAPS 1.4.5 has no `ENABLED`. Every other
property of a passing run is proved.

## 5. Not modelled

* *Argument parsing* (`ParsedArguments`, dates, `doctor`): pure, and no state depends on
  how the argument list is split. `search`, `star` and `purge` are in the models as the
  calls they make.
* *VisionTextExtractor*: recognition is Apple's, and its text is a constant of an image in
  `Timeline`. Since its comparator is no strict weak order (see above), what `sorted` then
  returns is not specified by Swift, so there is no result to check.
* *HEIFFrameEncoder*: ImageIO, no state. In `Timeline` an image has a hash of its own.
* *CSQLite*: the vendored SQLCipher amalgamation, with a wrapper of one call. It is
  third-party code, assumed to do what its documentation says of transactions, locks,
  triggers and FTS5. The
  program itself is Swift; the amalgamation is all the C in the repository and nothing maps to it.
* *Acceptance suite, scripts*: read for what they claim.
* In modelled parts: timestamps, counters and messages; loss of power; reuse of PIDs;
  leftover temporary files; the delivery of frames by ScreenCaptureKit.
