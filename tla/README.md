# mc-sinc in TLA+

mc-sinc is a Go program that editors run next to Avid Media Composer. It watches
the folder `Avid MediaFiles/MXF/1`, hashes what Avid writes there, groups the
files into commits, announces the commits to the peers of the local network and
pulls what others announce into `MXF/1-<author>/`. This directory models the
parts of it where several goroutines, processes or machines meet, checks them
with TLC and proves the most important results with TLAPS.

## 1. Inventory

All paths are below `src/`. "Commit" is always a commit of mc-sinc (a list of
files with hashes), never one of git.

| component | source | state | operations | hard behaviours |
|---|---|---|---|---|
| Watcher | `internal/watcher` | fsnotify queue, `pending` timers, the channel `Events` (64) | `Run`, `schedule`, `emitExisting` | timer callbacks that already left `pending`, blocking sends that ignore the context |
| Hasher | `internal/hasher` | none but its list | `Run`, `tick`, `hashFile` | a file is rewritten while it is read |
| Manifest | `internal/manifest` | SQLite tables `files`, `commits`, `commit_files` | `UpsertObserved`, `Upsert`, `SetHash`, `SetStatus`, `Delete`, `SaveCommit`, `UpdateCommitStatus`, `DeleteFinishedReceived`, lists | every statement is atomic, no sequence of them is, but for the two transactions of `commits.go` |
| Commit service | `internal/commit` | none | `Stage`, `Unstage`, `Commit` | two lists, marks one by one, the commit saved later by the caller |
| LAN transport, receiver | `internal/transport/lan` | rows of received commits, `.part` files, final files | `handleAnnounce`, `Pull`, `pullOne` | several pulls at once, broken streams, crashes |
| LAN transport, sender | `internal/transport/lan` | rows of sent commits | `Send`, `SendTo`, `handleFile`, `handleInventory` | announcements are lost, files change while they are served |
| Automode | `internal/automode` | none between ticks | `Run`, `tick`, `autoCommit` | works from lists that age |
| HTTP API | `internal/api` | `root` of the page | `handleCommit`, `handlePull`, `handleReject`, `handleClearFinished`, `handlePostConfig`, `handleSelectAvid`, `handleSyncWith` | handlers run concurrently, with each other and with automode |
| Root workers | `cmd/mcsinc` | `*root`, `rootWk`, `rootMu` | `startRootWorkers`, `stop`, `reconfigure`, the drainer | stop waits for all, a change of the root under way |
| Process end | `cmd/mcsinc` `run`, `api.Wait` | the process's context, the WaitGroup of the fan-outs | `Shutdown`, `Wait`, the deferred `stop`, `cancel`, `Close` | one timeout for two waits, pulls that nobody waits for |
| Configuration | `internal/config` | `config.json`, `config.json.tmp` | `Load`, `Save` | two saves, one temporary file |
| Discovery | `internal/discovery` | the map of peers | `browseLoop`, `browseOnce`, `Peers` | windows whose answers are lost |
| Avid detection | `internal/avid` | none | `Detect`, `mostRecentMDB` | looks at one file after the other in a tree that others change |
| Folder browser, logging, web page | `internal/fsbrowse`, `internal/logging`, `internal/web` | none of interest | reads, output | none |

How they interact: the watcher sends events to the drainer of `main.go`, which
writes rows; the hasher reads the rows without a hash and writes hashes; the
commit service reads both and marks rows; `SaveCommit` stores the commit that
`handleFile` then serves from. A received announcement becomes a row that
`handlePull` (a click) or automode takes up. `handleSelectAvid` stops and starts
the root workers and changes the root that the transport, automode and the page
use. Nothing but the database, the disk, `rootMu` and the channel `Events` is
shared between these goroutines.

What makes each component correct:

* Pull: a file appears under its final name whole and as announced; "pulled" is
  said only of a complete commit; every commit that is taken up gets an outcome.
* Watcher, drainer, hasher: when nothing is under way the rows are the files, a
  hash is the hash of the content its mtime stands for, every file gets a hash.
* Commits: a file that is marked `committed` was sent; nothing is sent twice by
  automode; an index travels with its media.
* Root workers: events are handled, `stop` returns, and afterwards nobody works
  on the old root.
* Change of the root: everybody is at the same root, `config.json` is whole, the
  inventory names what is on disk.
* Discovery: who runs is listed (a lost window breaks that), who left is forgotten.
* sync-with: nothing is left out that the peer lacks, a received file is a version
  the author had and never gives way to an older one, and what announcements lost
  arrives in the end; but for what two pulls at once made of a file.
* Automode: it never acts on a folder Avid may be writing to, and its own pulls,
  which change an `.mdb` and so close its gate, do not keep it from the rest.
* Process end: the manifest is closed after everything that writes to it, and the
  process exits whatever a peer does.

## 2. Modules and the code

| module | what it models | theorems |
|---|---|---|
| `LanPull` | the receiving side of the transport: rows of received commits, clicks, the automode batch, and `Pull` statement by statement | `LanPullProofs` |
| `ReceivedFolder` | the abstract specification of it: a list of commits and a folder whose files are replaced whole | |
| `MCLanPull` | listings for TLC | |
| `SyncWith` | the author and the peer together: commits, announcements that are lost, `/sync-with`, `/inventory`, `handleFile` and the peer's pulls | `SyncWithProofs` |
| `LaggingCopy` | the abstract specification of it: a copy that lags behind its source | |
| `MCSyncWith` | files and their contents for TLC | |
| `LocalFolder` | Avid, fsnotify, debounce, drainer, reconciliation, hasher | `LocalFolderProofs` |
| `LocalCommits` | staging, `Commit`, `handleCommit`, `autoCommit`, `SaveCommit` | `LocalCommitsProofs` |
| `AutoGate`, `MCAutoGate` | `Detect`, `isSafeForAuto` and the tick of automode, with Avid that comes and goes | `AutoGateProofs` |
| `RootWorkers` | the goroutines of a root and their shutdown, with a bounded `Events` | `ProcessProofs` |
| `Process` | extends `RootWorkers` by `run` after its select: requests and the pulls they leave, automode, `Shutdown`, `Wait`, the deferred calls | `ProcessProofs` |
| `RootSwitch`, `MCRootSwitch` | `Save`, `reconfigure`, requests, reconciliation and pulls during a change of the root | `RootSwitchProofs` |
| `Discovery` | browse windows and the time to live of a peer | `DiscoveryProofs` |

A step of a module ends where another goroutine can come between: at a statement
on the database, a system call on a file, a send or a receive, a lock. Each
definition that translates code is in `PROJECT.json` under `map` with its lines.

**LanPull.** `status` is the column of the commit's row, `pl[p]` the local
variables of a goroutine inside `Pull` (which commit, which files are left, the
file it has open, what the stream's hash says so far). `part` and `final` are
the two names of a file; a content is a function from blocks to versions, so
that two writers can mix. `at` says under which name the open file of a goroutine
is at the moment: on POSIX an unlink or a rename does not disturb those who have
the file open, and `Moved` does exactly that. (On Windows the rename would fail;
the model is the POSIX one.) One author is modelled, because the rows and the
folder of two authors are disjoint. The delta check reads the file in one step:
a file that is replaced during that read is taken at one of its contents.

**SyncWith.** A version of a file is the number of times Avid wrote it, a hash a
pair of the file's content class (`Twin`) and its version, so that two names can
have one hash. `row` are the author's rows `1/f`, `inv` the peer's rows
`1-<author>/f`, `final` the peer's disk. The hasher opens a file and stores later
(`HashOpen`, `HashStore`): the hash may be that of a content that was replaced
meanwhile, and stay. `SyncAsk` is the request to `/inventory`, `SyncList` the
comparison with the commit and its one announcement that may follow; everything else
may come between them. `Deliver` and `Lose` are the two ends of `announceTo`.

The peer has any number of pullers: automode and one goroutine for each click
(`Hand`). Nothing keeps two of them from one commit, or from two commits with one
file, because `Begin` asks for nothing. A file is fetched in three steps: `Fetch` (the
answer, of the version that is on the author's disk now, and `os.Create`), the end of
the stream with the hash check and the rename (`Receive`, `RenameFails`, `CopyFails`),
and the row (`Upsert`). Between them the author writes, the peer restarts, and the
other pulls truncate, rename and remove the `.part` of the same name. `at` says, as in
`LanPull`, which name the file has that a puller has open. What several writers leave
behind is not computed block by block but bounded from above: the version of any of
them, something cut short (`Short`) or a mixture (`Mixed`), and the rename publishes
any of these (`PartOf`). `met` is a history variable, the names that two pulls under
way had both listed; the statements about contents leave these names out, or admit
what was made of them (`Spoilt`). A number of a commit that nobody can ask for any
more is used again, which keeps the model finite.

**LocalFolder.** `disk[f]` is a version and an mtime in whole seconds, as the
manifest stores it. `firing` holds the timer callbacks that left `pending` and
have not sent. `TimerFires(f)` waits for an older callback of the same file, so
there is one of them at most; two would send the same event twice in a row. The
channel is unbounded here, since its limit is the subject of `RootWorkers`, where
in turn events are only counted. `Pending` is `NeedsHash` with its order and its
limit (`Batch`, 100 in the code), `Unreadable` are files whose hash fails. Every
statement may fail, up to `MaxFaults` times: `Delete` and `AllFilePaths` in the
reconciliation (`Reconcile` keeps some rows then), `Delete` and `UpsertObserved` in the
drainer (`DrainRemoveFails`, `DrainUpsertFails`), `SetHash` (`HashStoreFails`). The code
takes up none of the first four again. `missed` is a history variable: the files whose
last news was lost that way, or that went between the reconciliation and `fsw.Add`, when
nobody listens.

**LocalCommits.** The environment rewrites, hashes and deletes rows; `mdb` counts
the changes of any `.mdb`, which is what `LastMDBChange` compares. The lists of
`Commit` are two steps (`ListDiscovered`, `ListStaged`), each `SetStatus` is one
(`Mark`), `CreatedAt` is taken in `Create` and the transaction is `Save`. `lost` and
`again` are history variables: what a failed commit had marked, and the files whose row
was deleted and inserted again (`SeeAgain`: another root and back, or a file that was
taken away and returned) after, or while, a commit sent them. Failing statements, here
and in the other modules, are no theory: the connection string sets
`_journal=WAL&_busy_timeout=5000`, the names of another driver, so that a busy
database is an error at once.

**AutoGate.** `AskProcess`, `ReadFolders`, `LookAt` and `Decide` are `Detect`: the
process list, the folders under the root, and then the `.mdb` of one after the other, of
which the youngest counts. `age[d]` is the time since the last change in units and stops
at `RecentWindow`, where the answers stop to differ. `touched` is a history variable: an
`.mdb` changed since the first question and before it was looked at. A tick goes on with
`AutoCommit`, `ListAnnounced` and one pull after the other. `Pull` is what `lan.go:187-233`
leaves: "pulled", "failed", or, when `MkdirAll` or a statement fails (`MaxFaults`),
"pulling" or what it was; an index that came makes the folder look recently changed, even
if another file of the commit failed.

**RootWorkers.** `Reconcile` is the goroutine that also waits for the other three
and closes `done`; `Stop` cancels and waits. The senders (`EmitExisting`,
`SendRemove`, `SendTimer`) need room in the channel and do not look at the
context, as in the code. `ParentCancelled` is the end of the process's context.
`MaxWrites` and `MaxRemoves` bound what Avid does in one behaviour.

**Process.** `main` is the place in `run`. `TimeUp` ends the one context of five
seconds that `Shutdown` and `Wait` share. `CallStop`, `StopIsOver`, `CallCancel`
and `CallClose` are the deferred calls, last one first. `handler` and `job` are
the requests and the pulls of requests and of automode; a pull that meets a closed
manifest gets an error.

**RootSwitch.** A request goes from `OpenTmp` to `RenameTmp` (`config.Save`), then
takes `rootMu`, and sets the root of the workers, the transport, `*root` and, after
the mutex is free again, the page. A Go string is two words, and `*root` is
written and read without a common lock: `SetPtr`, `SetLen`, `DetectPtr`,
`DetectLen`. `StartFails` is a watcher that cannot be made: the scope is closed before it
began, and nobody is told. `ReconcileFails` is a reconciliation that gives up. `clean` and
`skipped` are history variables: no request met another one or a pull; the last
reconciliation did not take place or did not come to its end.

**Discovery.** Time passes one second at a time. `MaxMissed` windows in a row may
lose the answer. A peer may leave and come back, also before the TTL of its last life is
over; `heard` says whether it was seen since it started.

How they fit together: `Process` is built on `RootWorkers` and the proofs show that
its scope is one (`ScopeIsRootWorkers`). The other modules share parts of the
system at different grain: `LocalFolder` makes the rows that `LocalCommits` and
`SyncWith` commit; `SyncWith` sends the commits whose pulls `LanPull` has write by
write; `AutoGate` decides when the automode of `LanPull` and `LocalCommits` runs.

## 3. Runs

| run | question | instance | result |
|---|---|---|---|
| `pull_serial` | What does one pull at a time guarantee, whatever fails? `TypeOK`, `FinalNeverTorn`, `PulledIsComplete`, `UpsertedIsOnDisk`, `ImplementsFolder` (the refinement of `ReceivedFolder`) | a media file and an index, two commits, two blocks, all faults, two crashes | holds, 24 084 states |
| `pull_live` | What survives a click and automode at once on a bad network? `NoLeftoverPart`, `PullingIsInProgress`, `PulledFilesExist`, `PullsOnlyAdvance`, and `PullSettles`, `AnnouncedIsTakenUp` under fairness | two commits with the same file, two pullers | holds, 102 433 states |
| `pull_torn` | `FinalNeverTorn` with two pulls at once | two blocks, no faults | violated |
| `sync` | Does the peer end up with what the author has? `DeltaLeavesNothingOut`, `ImplementsCopy` (the refinement of `LaggingCopy`), `CatchesUp`, `MediaStopTravelling` | a media file, an index with two versions, two commits at once, automode and a click, any number of lost announcements, one more trouble of five kinds | holds, 748 003 states |
| `sync_windows` | `NothingToSendMeansInSync` when the author works on Windows | the same, no trouble | violated |
| `folder` | `RowsMatchDisk`, `MtimeVouchesForHash`, `EveryFileGetsHashed` | two files, two writes, a restart, a failing statement, a list of one | holds, 759 827 states |
| `commit` | `CommittedIsSent`, `SendsOnce` | a request and automode, faults and crashes, two commits; the media file is staged meanwhile, taken away and brought back | holds, 7.6 million states |
| `process` | The life of a scope and the end of the process: `ProcessTypeOK`, `StoppedIsQuiet`, `WorkersEndBeforeClose`, `FanOutsEndBeforeClose`, `EventsAreDrained`, `FolderIsEmitted`, `StopCompletesWithRoom`, `ProcessEnds`, `StuckTimersKeepNobody` | channel of 2, three files, a write, a removal, a request and automode | holds, 222 610 states |
| `workers_stop_hangs` | `StopCompletes` | channel of 2, four files | violated |
| `automode` | `TypeOK`, `GateIsSafe`, `AnnouncedIsTaken` | two authors, a commit with an index of each, two writes of Avid, pulls that fail, a failing statement | holds, 226 324 states |
| `root` | `RuntimeAgrees`, `PageShowsRoot`, `SelectionIsApplied`, `LoneSaveIsWhole`, `InventoryIsOnDisk` | two roots, two requests of both kinds, pulls, a watcher that cannot be made, a reconciliation that fails | holds, 4.6 million states (up to symmetry of the requests) |
| `discovery_lost` | `NoFalseOffline` | the periods of the code: 10, 3 and 15 seconds; windows are lost, never two in a row | violated |

The type invariants of `SyncWith`, `LocalFolder`, `LocalCommits`, `RootSwitch` and
`Discovery` are proved (section 5) and are in no run; `ProcessTypeOK` contains that of
`RootWorkers`.

Why these bounds are enough for what they are used for:

* Pulls: two blocks are needed for a file to be half of one version, and two
  commits for a name to have two versions; the tear needs two pullers and no more.
* sync-with: media are written once, so that one version does; the index needs two
  for a commit to be late. Two commits at once can arrive in either order, and two
  pullers meet in one file. Lost announcements are not bounded; deletions at either end,
  broken transfers, restarts and clicks (`MaxTroubles`) are: one kind of them, once, in
  each behaviour. A click together with a broken transfer, which is what can leave a
  spoilt file for good, was checked as well (`Troubles = {"network", "clicks"}`,
  `MaxTroubles = 2`, all four properties, 1.9 million states); it takes longer than a run
  here should. The theorems have no such bound. What two media under one hash do is the
  subject of `NamesArrive` below.
* Folder: a stale hash needs two versions and two instants. A list of one with two
  files is the smallest in which a file waits for another. One statement that fails is
  one in any place.
* Commits: they go wrong between two committers and with two saved commits; every
  further one repeats the pattern. The page stages the media file only (`Clicked`), and
  only it returns (`Returning`): `Commit` treats the index like any other file, and what
  is special about it, that its mtime lets automode commit, needs one change of it.
* Workers and process: a channel is full with fewer places than files, whatever
  the numbers. One request and automode are the two kinds of pullers: one that
  `Wait` waits for and one that it does not.
* automode: a commit with an index for each of two folders, so that one pull closes
  the gate for the other; a pull that fails may have brought its index or not.
* Root: two requests share the temporary file, the mutex and the page in every
  order.

Symmetry is used for the requests of `root` only, with safety properties. Deadlock
is not checked where the environment is bounded (the counters named `Max...`) and
the system then rests.

Every property of a passing run has a mutant of the code in its module (the
operators with a comment `Mutant:`), listed in `PROJECT.json`: with the mutant in
place of the definition TLC finds the property violated.

### What does not hold

The four violated runs are findings, each with the sentence of the code that says
otherwise. The others are not runs of their own: change a passing run as follows
and TLC prints the counterexample.

| statement | change | what happens |
|---|---|---|
| `OnePullPerCommit` | `pull_live` with this invariant | `automode.go:7-11` calls "pulling" an implicit mutex; `Pull` does not look at the status it replaces |
| `RejectedStaysRejected` | `pull_live` with this property | automode goes on with a list it read before the rejection |
| `ReturnedPullIsSettled` | `pull_live` with this property only, `Faults = {"mkdir"}` | `Pull` returns at `lan.go:207` and the row stays "pulling" |
| `PullingIsInProgress` | `pull_live`, `Faults = {"crash"}`, `MaxCrashes = 1` | nothing repairs "pulling" rows at the start; automode does not list them, clear does not delete them |
| `NamesArrive` | `sync` with this property only, `Media <- TwoMedia`, `Twin <- CopiedMedia`, `Troubles = {}` | the delta compares hashes: a copy of a file under a second name is never sent to a peer that has the first |
| `MediaStopTravelling` | `sync` with this property only, `Windows = {"receiver"}`, `Troubles = {}` | the inventory of a peer on Windows is empty (`1-x\f`), and every sync-with lists all media again |
| `HashFollowsContent` | `folder` with this invariant | the hash of a content that was replaced while it was read is stored over the cleared one, next to the older mtime |
| `EveryRewriteNoticed` | `folder` with this invariant only, `SameSecond = TRUE` | a rewrite within a second keeps the old hash |
| `EveryNewsArrives` | `folder` with this invariant | a file removed between the reconciliation and `fsw.Add`, or one whose `Delete` or `UpsertObserved` failed (`main.go:363`, `417`, `435`), is listed wrongly until its next event or the next start |
| `StuckRowsStarveNobody` | `folder` with this property | a row whose file is gone or cannot be read stays first in the list; with as many of them as the list has places nothing else is hashed |
| `IndexTravels` | `commit` with this property only, `Hand = {}`, `Faults = {}`, `Races = {}`, `MaxVersion = 2`, `MaxMdb = 2` | an index that was committed and is rewritten keeps its status (`manifest.go:137`) and is in no later commit, though `.mdb` and `.pmr` "precisam viajar junto com .mxf" (`watcher.go:155-156`) |
| `NoPhantomCommit` | `commit` with this invariant | `handleCommit` checks, automode commits, the empty commit is saved |
| `CommittedIsSent` without `lost` | `commit` | a crash between `SetStatus` and `SaveCommit`, or a file staged between the two lists (listed twice, refused by the primary key), leaves files "committed" that no commit holds |
| `SendsOnce` | `commit` with this invariant only, `Races = {"during", "restage"}`, `Faults = {}` | `SetStatus` does not look at the status it replaces: a click on a page that still shows a file as pending sends it once more |
| `SendsOnce` without `again` | `commit` with this invariant only | a row is deleted and its file seen again: `UpsertObserved` inserts it as discovered, and it is sent once more |
| `HashedIsCommitted` | `commit` with `FairSpec` and this property, `Hand = {}`, `Faults = {}`, `Races = {}` | a file hashed after the commit waits for the next change of an `.mdb` |
| `SpoiltIsRepaired` | `sync` with this property only, `Troubles = {"network", "clicks"}`, `MaxTroubles = 2` | a click and automode pull one file, one renames what the other has just truncated, whose stream then breaks: the row has the announced hash, the next delta leaves the file out, and the short file stays |
| `AnnouncedIsSettled` | `automode` with this property | `MkdirAll` or the last `UpdateCommitStatus` fails: the commit stays "pulling", automode does not list it again, though `automode.go:183` says "Status já vira `failed` dentro de transport.Pull" |
| `NothingUnderAvid` | `automode` with this property | the gate is asked once per tick: the batch goes on after Avid was opened (`avid.go:11`) |
| `AnnouncedIsTaken` | `automode`, `Fresh = TRUE` | in a folder without an `.mdb` `Detect` returns an error besides the state (`avid.go:113-126`) and `tick` gives up on any error (`automode.go:124-130`), so that what `automode.go:105-109` says of the state "unknown" never applies |
| `AutomodeEndsBeforeClose` | `process` with this invariant | no one waits for automode: its pull may meet the closed manifest and stay "pulling" |
| `SignalEnds` | `process` with this property | the deferred `stop` has no timeout: with a full channel it hangs, and a second signal does nothing |
| `ConfigIsWhole` | `root` with this invariant | two saves write one temporary file |
| `InventoryIsOnDisk` without `skipped` | `root` | a reconciliation that fails, or does not take place because the watcher could not be made, leaves rows of the other root |
| `PageShowsRoot`, `SelectionIsApplied`, `InventoryIsOnDisk` without `clean` | `root` | two selections cross outside `rootMu`; a pull that began under the old root adds its row after the new root was reconciled |
| `DetectSeesOneRoot` | `root` with this invariant | `*root` is read while it is written |
| `InventoryIsComplete` | `root` with this invariant | going to another root and back deletes the rows of received files that are on disk, and nothing adds them again |

`AutoGate` leaves out the other error of `Detect`: when the list of processes
cannot be read the comment says "não-fatal: degrada graciosamente" (`avid.go:107`),
but the error is returned (`avid.go:142`) and the tick ends.

## 4. Fairness

* `LanPull`: weak fairness of every goroutine inside `Pull` and of the automode
  ticks. Weak fairness of the steps of a pull says that the sender goes on
  answering or fails: the body of a fetch has no timeout in the code, and a
  sender that is silent for ever blocks the pull for ever. Automode ticks with an
  Avid that is closed. A click is never forced.
* `SyncWith`: weak fairness of the author's hasher, of sync-with and of each of the
  peer's pulls, from its start to its end. `SyncStep` is fair because the statements are
  about a user who goes on clicking sync-with; the code never repeats an announcement by
  itself. There is an end to the ordinary commits (`<>[][~ Commit]_vars`), as there is
  one to Avid's writes: without it the peer could be fed stale commits for ever. Strong
  fairness of `Deliver` says that of the announcements that are sent again and again not
  all are lost, and of `AutoPull` that automode gets its turn between other pulls; strong
  fairness of `ClearFinished` that failed commits do not pile up, which only keeps the
  numbers of commits from running out. Nothing forces a commit, a write, a click or a
  trouble.
* `LocalFolder`: weak fairness of each goroutine of the root workers and of each
  timer. Avid's writes, removals, the restarts and the statements that fail are bounded
  and never forced.
* `AutoGate`: weak fairness of automode (the ticker), strong fairness of `Elapse`,
  which a detection under way disables: time passes. Avid is never forced to
  close; the property assumes that it stays closed in the end, and that the user's clicks
  come to an end, each of which may pull an index and close the gate again. Pulls may all
  fail.
* `RootWorkers`, `Process`: weak fairness of every goroutine, of `main` and of the
  timeout. `HasherSeesCancel` is strongly fair: the Go `select` chooses at random
  among the ready branches, so the branch of the context, which stays ready, is not
  passed over for ever by the ticker's. The handlers and pulls of `Process` are not
  fair: they wait for a peer, and `ProcessEnds` holds without their help.
* `LocalCommits`, `RootSwitch`, `Discovery`: their runs have no liveness property.

## 5. Proofs

All theorems hold for every value of the constants under the named assumptions of
the modules (`LanPullAssumption`, `SyncWithAssumption`, ...), which TLC evaluates in
the runs, and the further hypothesis named below. Every module with theorems
proves the type invariant first.

**Pulls** (`LanPullProofs`), for any files, commits, pullers, blocks and faults.

* `TypeCorrect`. The type invariant is not inductive: that a puller that works on a
  file has a commit which lists it (`WorkOK`), and that a file that is open under a
  name exists there (`OpenOK`), are needed to keep the contents typed.
* `ExclusiveNeverTorn`: as long as no two pulls write the same file at once
  (`NoOverlap`, the specification `ExclusiveSpec`), `FinalNeverTorn` holds. The
  invariant behind it, `PartSound`, says what the `.part` holds while its writer
  copies: the blocks copied so far are the wanted version if the hash of the
  stream still is; hence the whole file is when the hash matches. `SerialNeverTorn`
  is its corollary for automode alone. `ExclusiveRowsAreTrue`: then the manifest
  gets hashes of what is in the folder only.
* With no assumption on overlap: `OnlyCrashesLeaveParts` (a `.part` has a goroutine
  that works on it), `PulledMeansThere` (what is marked "pulled" is in the folder in
  some version; `There`: so is every file a pull has dealt with) and `PullingMeansIt`
  (without `mkdir`, `db` and `crash` faults).
* `PullsAdvance`: `PullsOnlyAdvance`, with no assumption on overlap or faults. A
  goroutine inside `Pull` has a distance from its end, the files it still has to deal
  with and the calls left for the one it is at; each of its steps makes it shorter, and
  nobody else changes it. It ends in `Finish`, or at an early return of `Pull` that leaves
  the commit as it is. `PullSettles` needs fairness besides, and stays with TLC.
* `DisjointPulledIsComplete` and `DisjointPullsImplementFolder`: as long as the commits
  that are pulled at the same time have no file name in common (`NoSharedFiles`, the
  specification `DisjointSpec`), "pulled" is said of complete commits only and `Pull`
  implements `ReceivedFolder`, step by step, through every fault and crash. This says
  what a lock in `Pull` would have to be about: two commits on one name. The code has
  none, and `pull_torn` shows what comes of it. `DisjointInv` adds to `PartSound` that
  the files a pull has dealt with are in the folder as announced (`Done`): nobody else
  replaces one meanwhile, since nobody else has its name. `ExclusiveSpec` is too weak
  for that: two pulls that write a common file one after the other are never torn, but
  the later one replaces what the earlier counts as received. `SerialPulledIsComplete`
  and `SerialPullsImplementFolder` are the corollaries for automode alone (`Hand = {}`),
  the case `pull_serial` checks.

**sync-with** (`SyncWithProofs`), for any files, versions, commits and troubles.

* `SyncIsLaggingCopy`: the refinement of `LaggingCopy`, for any number of pulls at once.
  The copy that is compared leaves out the names in `met`. The argument has three parts.
  Two pulls that have one name on their lists have it in `met` (`Apart`), whichever began
  first: what is added at `Begin` is the names the new pull shares with the others. Hence
  whoever writes `f.part`, with `f` outside `met`, is alone with it (`LoneWrite`): the name
  is there until it removes or renames it, and what it renames is what its stream had,
  which is no older than the file it replaces (`Lone`). And neither a stream nor the
  peer's folder is ahead of the author (`Served`, `Behind`). When a name enters `met`, the
  copy discards it.
* `NothingLeftOut`: if media are written once (`MediaWrittenOnce`),
  `DeltaLeavesNothingOut`. The invariant (`TrueRows`): the rows, the file whose
  `Upsert` is still to come, and the answer of the inventory that is compared later
  are all about media that are on the peer's disk, as announced or as two pulls left them
  (`Contents`), until the peer's user deletes one.
* `SyncAnswersTruly`: `NothingToSendMeansInSync`, the property that the run `sync_windows`
  refutes, holds of the hashes in the author's rows for media that are written once, when
  these rows are written with `/` and the peer's user deletes nothing, but for what two
  pulls spoilt (`InSyncIsTrueOfTheHashes`). Lost announcements, broken transfers, pulls
  that are under way, restarts and even a peer on Windows cannot make it false. Two
  limits are part of the statement: a name that two pulls wrote at once may hold
  something else than its row says (`Spoilt`, and see `SpoiltIsRepaired`), and the hash in
  a row may be that of a version the author no longer has (`HashFollowsContent`), so that
  "in sync" is said of hashes and not of what the two disks hold.

**Folder** (`LocalFolderProofs`), for any files, clock, list length and unreadable
files.

* `MtimeIsVouchedFor`, unless a file is written twice within a second: a hash next to
  the mtime of the file is the file's. The invariant says the same of what the
  drainer and the hasher hold (`DrainVouches`, `HashingVouches`).
* `RowsFollowTheFolder`: `RowsMatchDisk`, whatever statement fails. A file in `missed` is
  one of which the manifest's last news was lost; `FolderInv` follows the others through
  fsnotify's queue, the timers, the channel and the drainer: the last notification of a
  file is true (`RawIsTrue`), a row of a file that is gone has a removal on its way
  (`GoneIsComing`), and a file that is there is listed, or the last thing that reaches the
  drainer lists it (`ListedIsComing`). The last two cannot be had without each other: a timer and
  a removal may arrive in the wrong order, and only the first says why no timer is
  left behind a removal. A failure puts its file into `missed`, and the next removal or
  listing of it that succeeds takes it out.
* `ListsAreNeverAllStuck`: while fewer rows are stuck than `NeedsHash` lists
  (`Cardinality(Stuck) < Batch`), every list has a file that can be read, if one waits. It
  is the safety half of `EveryFileGetsHashed`, and where that property ends (section 3).

**Commits** (`LocalCommitsProofs`), for any files, requests and faults.

* `MarkedIsSent`: `CommittedIsSent`, from an invariant that adds the files which some
  committer has marked and not yet saved.
* `CommitsSendOnce`: `SendsOnce`, unless somebody stages what was committed (`restage`);
  a file whose row was deleted and inserted again is in `again`, and is left out.
  A version that was sent is not pending any more or was rewritten (`SentDone`); what
  a committer has listed and not yet marked may be in a commit saved since it began
  (`since`), but in none before (`ListedOnce`), and what it has marked is done like
  what was sent (`HeldDone`). That a committer does one thing after the other
  (`Counted`) gives `AutomodeSendsOnce`: automode never sends a version twice.

**Workers and process** (`ProcessProofs`), for any channel, files
and requests.

* `QuietAfterStop`: from how far the goroutines can be for each state of the one that
  closes `done`.
* `ScopeIsRootWorkers`: `ProcessSpec` implements the specification of `RootWorkers`,
  so that the theorems above hold inside the process. `WorkersOverAtClose` follows
  from it and the order of the deferred calls (`Ordered`). `FanOutsOverAtClose`:
  once `Wait` returned in time, no request is served and no pull of one runs
  (`Drained`), and none can start.

**automode** (`AutoGateProofs`), for any folders, commits and windows.

* `AutomodeSetsOutSafely`: `GateIsSafe`. The property is about what changed after the
  question for the process and before the look at each `.mdb`; the code only looks at
  ages. `ChangeShows` connects the two: while automode detects, an index that changed has age 0,
  because time does not pass in a detection (`Elapse`), once it has been looked at this is
  the youngest age, and an open gate needs the youngest at `RecentWindow`.

**Root** (`RootSwitchProofs`), for any roots and requests.

* `RuntimeStaysTogether`: `RuntimeAgrees`. The invariant (`Together`) is mutual
  exclusion of `rootMu`, what the owner of the lock has set so far according to its
  pc, and the property itself. A watcher that cannot be made leaves no workers, which the
  property allows and the answer to the request does not show.
* `PageAgrees`, `SaveIsWhole`, `InventoryIsTrue`, `SelectionTakesEffect`: what holds as
  long as no request met another one or a pull (`clean`), from one invariant, `Lone`:
  at most one request is busy, and what it has saved and shown follows from its pc.

**Discovery** (`DiscoveryProofs`), for any periods.

* `NeverFalselyOffline`: if `(MaxMissed + 1) * Every + Round <= TTL`, a peer that runs
  is never dropped. With the constants of the code (10, 3, 15) it holds for
  `MaxMissed = 0` only, and `discovery_lost` shows what one lost window does. The
  invariant bounds `age` by the windows that passed since the last answer. A peer counts
  from its first answer after its start (`heard`), also when the entry of its last life is
  still there.
* `LeftIsForgotten`: a peer that left is not listed after the TTL; it was not heard
  since (`NotHeardSince`).

Only model-checked: the liveness properties (`PullSettles`, `AnnouncedIsTakenUp`,
`CatchesUp`, `MediaStopTravelling`, `EveryFileGetsHashed`, `EventsAreDrained`,
`FolderIsEmitted`, `StopCompletesWithRoom`, `StuckTimersKeepNobody`, `ProcessEnds`,
`AnnouncedIsTaken`), because
TLAPS does not reason about fairness and `ENABLED` here. Every other property of a
passing run is stated by a theorem.

## 6. Not modelled, and why

* Pure code: the listing of peers' addresses and interfaces, the search for Avid
  folders (`avid/discover.go`), the matching of process names, the parsing of paths,
  flags. The folder browser, logging, the page, the types of the transport interface and
  the scripts keep no state that another part reads.
* In `SyncWith`, statements that fail: in `handleSyncWith` and `handleAnnounce` the
  request ends in an error, as if the announcement was lost; those of `Pull` are in
  `LanPull`, those that lose the author's rows in `LocalFolder`.
* A request to select a root that is still under way when the shutdown's timeout
  ends: it could start new workers after the deferred `stop` has returned.
  `Process` has the scope of one root, `RootSwitch` has no shutdown.
* Crashes are crashes of the process: what the operating system was told stays.
  Power failures and the durability of SQLite are not modelled, nor is the rename of an
  open file on Windows.
* Peers are one at a time: `Send` announces to each in a goroutine of its own, and
  nothing is shared between them but the rows, which they only read.

## 7. Plan

What was planned is there: the core (pulls, commits, workers, root, discovery), then
author and peer together, the gate of automode, the limit of `NeedsHash`, the end of
the process, and the proofs of the invariants of all of them. What would come next:

1. `Process` with a change of the root under way at its end (see above).
2. Under which conditions the other statements of "What does not hold" are theorems, as
   `SyncAnswersTruly` and `DisjointPulledIsComplete` are.
3. `Pull` on Windows, where a file that is open cannot be renamed or removed.
