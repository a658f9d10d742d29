# A TLA+ model of HXYLIVE

HXYLIVE records live streams on a small server, converts the recordings, groups
them into projects and hands them to a Mac that downloads and, on request,
concatenates them. This directory holds TLA+ modules for the parts where order,
failure and concurrency decide whether that works, the TLC configurations that
check them on small instances, and proofs of the main safety properties for
every value of the constants.

```
tlc -workers 2 -config MCAutoStorage.cfg MCAutoStorage    # a run
tlapm AutoRecordProofs.tla                                # the proofs
```

`PROJECT.json` lists the components, runs, hazards, findings, theorems, and for
each definition the lines of the source it stands for.

## Inventory

One Python process (`app/main.py`, FastAPI) holds nearly everything. Its HTTP
handlers and background tasks are coroutines of one event loop: code between two
awaits is atomic, and other coroutines run at every await. Database calls are
awaited, one transaction each. Blocking work (starting and stopping ffmpeg,
moving files) runs in threads. The Mac helper is another process that polls the
server by heartbeats.

| Component | State | Operations | Talks to | Correct when |
|---|---|---|---|---|
| Download queue, `services/download_queue.py` | in-memory task list, two indexes, project flags, a re-entrant lock | append, reorder, pause, resume, delete, progress, confirm, claim | web UI, heartbeats, drain | list and indexes agree; limits respected, slots filled; paused means paused |
| Concat queue, `services/concat_queue.py` | in-memory list, two indexes; `concat_status` in the database | enqueue, reorder, pause, resume, delete, claim, report | web UI, heartbeat, helper threads | one concatenation at a time; "concatenated" means the file exists; no task waits forever |
| FFmpeg manager, `ffmpeg_runner.py` | sessions by id, one lock; a process and a writer thread each; files, HLS directories | start, stop, list, prune, stop stalled | starts, stops, watchdog, promotion | one process for each target, always reachable; lock released; stalled processes stopped |
| Promotion, `tasks/disk_pressure.py` | files of two disks | list staging, copy, remove | writers, storage policy | only closed files are moved |
| Storage policy, `main.py` | two gates, conversion flag; Auto Record switch in the database | policy pass, watchdog pass, gate checks, switch | disks, ffmpeg manager | captures stop at a gate; a gate is released only when it should be, and then is |
| Auto Record and quota, `main.py`, `services/recording_quota.py` | two tables of wishes, usage, cooldowns | pass of the task, enforcement, switch, quota, card handlers | ffmpeg manager, live status | off means off; over quota is stopped; what is wanted is recorded |
| Conversion, retention, deletion, `tasks/convert.py`, `tasks/monitor.py`, `main.py` | library files, rows of recordings, attempts | convert, retry, index, update rows, sweep, delete | writers, promotion | footage is never lost, what was erased stays erased, everything is converted in the end |
| Recording projects, `services/recording_projects.py` | two tables | assign, refresh bounds, finalize, list and close | convert hook, backfill, listing, helper | parts of a recording stay together; bounds are those of the members; the gap rule |
| Mac downloads, `main.py` and the helper | jobs in memory, ledger on the Mac | heartbeat, drain, claim, confirm, compare, purge, expire | download queue, library | nothing is purged that is not on the Mac; nothing is lost or stuck |
| Live monitor, `tasks/monitor.py`, `database.py` | rows of broadcasts | poll, open, reopen, close | providers, Auto Record | broadcasts lie apart; ended ones close |
| Media imports, `tasks/media_imports.py` | the user's folder, rows, converted copies | scan, list, delete | library | what is offered is whole and current; the index follows the folder |
| Audit log, `services/recording_audit.py` | append-only events, the busy file | start, stop, refresh, shutdown, reconcile | manager, conversion, boot | a capture cut off by a crash is told |
| Timeline, `main.py`, `database.py` | rows, tombstones, broadcasts | index, measure, archive and delete, query | library, monitor | a capture is on the chart whatever its deletion does |
| Follow lists, `providers/*.py`, `following.py`, `following_sync.py` | rows of followed channels, the site's list | synchronise, preview, follow, unfollow, helper's commands | sites, helper | the rows are what the site lists |
| Accounts, `providers/*.py`, `services/chaturbate_auth.py` | cookies and a flag, in memory, database and file | import, login, check, logout, invalidate | sites, helper | logged out only by a refusal, in only by an answer |
| Search, resolvers, catalogues | caches | resolve, search, list | third-party sites | translation of remote answers |
| API, proxy, web UI, deployment | none of their own | | | |

What makes it hard: rows and flags read before an await and used after it
(projects, gates, quota, conversion, retention, follow lists, accounts); several
actors on one piece of memory or on one file (queues, gates, the session
registry, the library, the imports); timeouts that end a wait before what it
waits for; messages lost or late (heartbeats, reports); crashes between two steps
on files; restarts that lose the memory but keep the database; and waiting for a
slot, a lock or a gate. `PROJECT.json` lists each hazard at its line.

## Plan

Done, in this order, most central first: `ListOrder`, `DownloadQueue`,
`ConcatQueue`, `RecordingSession`, `StoragePolicy`, `RecordingProjects`,
`MacDownload`; then `RecordingLibrary`, `LiveSessions`, `AutoRecord`, `MediaImports`,
`RecordingAudit`, `MediaTimeline`, `ProviderAccount` and `FollowCache`; and
`VideoCustody`, which `MacDownload` is proved to implement. Every invariant and every
action property of the passing runs is proved.

What could follow:

1. The merge of short segments into one file, beside `RecordingLibrary`.
2. A second promoter in `RecordingSession`: the policy pass and the watchdog may
   move one file at a time (`disk_pressure.py:189`).
3. Safety of `RecordingAudit`, whose two properties are liveness: that a capture the
   busy file names was running, with a proof.
4. Two multi-step handlers at a time in `AutoRecord`, and the cards that
   `AUTO_RECORD_USERS` brings in.

## Modules

**`ListOrder`**: ranks, places, filtering and sorting of lists without
repetition, the operations the queues rebuild their lists with.
`ListOrderProofs` holds what is proved of them: that `Restrict`, `Keep`, `InOrder` and
`FirstN` name and count the elements they should, and that keys order a finite set.

**`DownloadQueue`**: one action per method of the class; each runs under one lock
and is one step. `_tasks`, `_by_task`, `_by_item` and `_project_paused` are
variables of their own, so that their agreement is checked and not assumed.
`ClaimNext` is declarative: the claim takes the first `FreeFiles` eligible
tasks in the order of the two passes. A finished task leaves the list in its
step. Byte counts, titles and job ids are left out.

**`ConcatQueue`**: the queue, the handlers' calls and each awaited write of
`concat_status` (`writes` is a bag: handlers' writes commit in any order), the
commands on their way to the helper and at work in its threads, and the reports
on their way back, which may be lost, or time out on the Mac and be handled
later. `interrupted` and the counters of the bounds are not in the code.

**`RecordingSession`**: `FFmpegManager`'s methods, the writer thread, the process
and the promoting thread. `start_session` and `stop_session` keep the lock over
several steps (`lock` says which and where); waits with a timeout may end early.
A session's progress, grace period and data are booleans.
A file that fails to copy stays on the staging disk.

**`StoragePolicy`**: a step is the code between two awaits. Free space is whether
a disk is below its threshold, changing at any time. `late` records captures
whose start passed the gates before one was engaged.

**`RecordingProjects`**: a step is a transaction. `calls` holds what an assigner
read and has still to write, `finalizer` and `viewer` the rows they listed.
One channel; clips with fixed times; a small clock. `closed`, `founder` and
`overlapped` (two assigners were at work at a time) are not in the code.

**`MacDownload`**: each handler underway is a `slot`, at one of the awaits where
another may run: before the compare, before each file is purged and before its task is
marked done, between the claim and the job, before the answer. On the Mac a step is a
check of `open_downloads`, a call to Motrix, a write of the list of relocations, the
start or the end of a move. The download queue is a status for each item, and a claim
takes any queued tasks; of the drain an error that queues them again (`CreateJob`) and
one that leaves them downloading (`FailJob`) are told apart. The compare knows a Mac
file by its recording id, by its name and size (`Namesakes` are the videos of whose
names another's copy may be), or by its size alone; no two sizes need differ. A
request arrives with the rows read for it; a relocation found done leaves the list in
the step that finds it. `Known` stands for the ledger, which is written by several
threads and may lack an entry. `discarded`, `stranded` and the counters are not in the
code: they record what the user deleted on the Mac, and tasks whose last claim gave
them no job. Of Motrix only what the helper asks is modelled. Left out: the Chrome
method, the `mo://` fallback, the local fetch of a job.

**`VideoCustody`**: what that whole way promises, with no queue, message, process
or file: a video is on the server, on the Mac, or on both; the server gives its own
up only to a Mac that has one of its size, and nothing but the user takes it off the
Mac. With sizes that differ this is the video itself; the code compares no more.
`MacDownload` instantiates it over its own variables (`Custody`); `KeepsCustody` is
its specification, checked by TLC and proved.

**`RecordingLibrary`**: for each recording its TS, its MP4, the hidden output of a
conversion and its row. `conv`, `cache`, `sweep`, `deletion` and `indexing` are the
actors, each with what it read at its earlier awaits: the conversion task
(`convert.py`, from the removal of old temporaries at boot to the attempt it records
at the end), the monitor's update of the rows, the hourly retention by rows and by
files, the deletion and the retry from the Media page, and the index written when a
session is stopped. A conversion may be cut short by a restart in any state of its
output: ffmpeg opens the TS in one step and creates the output in another. `dropped`,
`erased` and `escaped` are not in the code: they record what was deleted, and which of
these ffmpeg had open without an output to delete. Which recordings are old enough, and
which are too short, is any set.

**`LiveSessions`**: rows of broadcasts of one channel. The monitor and Auto Record
each run `observe_live_status`: SELECT of an open row, of the last closed one, then
an update, a reopening or an insert, with an await between any two. The status
observed may be older than the world. `raced`, which is not in the code, says that two
observations were underway at a time.

**`AutoRecord`**: the wish is kept in two tables (a card's sources and the models)
and the task reads both, the captures and the usage at different awaits. A capture
has a key (card or person, and channel) and counts for its person while it runs and
again once its recording has a row; in between it does not. Handlers write the tables
one after the other and then stop what they found running.

**`MediaImports`**: the scan and the listing of the Media page both place a
converted copy through the same hidden file; only the scan takes a lock. A version
stands for a file's size and time of modification. A conversion may fail, time out
or be cut by a restart; the user drops, replaces, takes away and deletes videos.

**`RecordingAudit`**: captures start and stop in threads under the manager's lock,
everything else on the event loop; a refresh of the busy file writes what it read
before a thread changed it. A shutdown writes the snapshot, its flag and then sweeps;
a kill comes at any of these points and may leave a torn file. `Outcome` is the
page's derivation, its priorities included.

**`MediaTimeline`**: rows, tombstones and broadcasts as the request for the timeline
reads them, one table after the other, against indexing, measuring and the three
steps of a deletion. `due` records what the range meets at the time of the request.

**`ProviderAccount`**: up to two requests at a time on one login: import (from the
user or from a browser profile of the Mac), login, check, logout, invalidation. Each
asks the site in between, which answers, refuses, or is not reached. Chaturbate's
four copies (memory, its table, a file, the common table) are variables of their own.
`kind` chooses the provider, whose reading of an answer (`Refused`) differs.

**`FollowCache`**: one site's rows of followed channels with a synchronisation, a
follow or unfollow through the server, and one through the helper, while the user
changes the list on the site. Each provider reads the list in its own way, a request
a step: two categories page by page, a page of HTML as a fallback, GraphQL and Helix,
the guide and the channels, pages until one is short. `limit` is how many pages and
channels it reads at most, and whether Stripchat's pages say how long the list is; what
it does with a longer list is its own (Chaturbate refuses it, the others take what they
read for the whole). `was`, `quiet` and `clicked` are
not in the code: they record what each flow may have seen.

## Runs

Most passing runs are suites: a run's module extends one specification and
instantiates one or two more, over variables of their own, with constants the
configuration gives. The components of a suite share no state in the code, so their
product would multiply states and show nothing; instead `part` says which of them runs
in a behaviour, and the others rest in an initial state (`Parts` in `MCCaptures` says
which of its three take part). Fairness is asked of a component where it runs. `Writes`
in `MCConcatFaults` is the same component over the same variables with a second set of
bounds; `MCQueuesAudit` runs it again without faults, for its liveness.

| Run | Shows | Bounds and why they are enough |
|---|---|---|
| `captures_timeline` | the HLS directory kept, through rotations; captures stay on the chart | one key, two sessions that follow each other, two segments each; one recording, a clock of three units, a range of two: before, across and after each end |
| `captures_live` | one process per key, stalled processes stopped, lock released; broadcasts apart, ended ones closed | two sessions, one segment (rotation has no part in it); a clock of three minutes and a gap of one: reopened and not reopened |
| `queues_audit` | indexes, limits, filled slots and pauses of the downloads; without faults no concatenation waits forever; interrupted captures are told, the busy file catches up | three items in two projects, where one project is opened beside an active one and a third file has no slot; two projects to concatenate, two tasks, three calls, no faults; two captures, two deaths: one of them during the boot after the other |
| `concat_faults` | serial concatenations and their files; a running one has somebody to end it | two projects to concatenate, three calls with one awaited write or two calls with two, one fault |
| `providers_projects` | logins; synchronisations and rows of the follow list; bounds, parts and gap of the projects | two sessions, three requests, every provider; two channels on pages of one, limits the list fits and limits that cut it, two changes on the site, every provider; two parts further apart than the gap and a later clip, one assigner, two projects, clock to five: each end and its gap |
| `mac_download` | nothing purged of whose size the Mac has nothing, no task without somebody to act on it, custody kept | two videos, one closed and not in the ledger, one recorded at first and in it, sizes a byte apart, the second's copy under the first's name; one heartbeat handler beside the page's; two jobs, one delivered twice; two user calls or faults |
| `auto_storage` | off means off, over quota is stopped, what is wanted is recorded; gates stop captures, the staging gate is released only when clear and then is | one channel with the card's name (both kinds of key), a quota of none or zero, three calls; two captures, one restart, promotions that leave any set of files |
| `library_imports` | footage kept, erased stays erased, everything converted, rows and imports without files go, imports indexed and played whole | one recording, one attempt that may fail, one call, all actors; one video, replaced once, one other call, error or restart. A second file adds only the order in which a pass takes them |
| `recording_torn` | a file is promoted while its writer has it open | one session, two segments |
| `library_listed` | a converted recording is not listed as such, for good | one recording, no calls |
| `autorecord_quota` | a capture starts over the quota | one channel, one call |
| `imports_stale` | the copy of a replaced video is played | one video, two versions, no calls |

Deadlock is checked in `providers_projects`, `mac_download`, `library_imports` and
`captures_live`. In the other passing runs a counted bound (task ids, segments, clock,
calls) ends a behaviour, or the system rests.

Every module states a `TypeOK`. They were model-checked at these bounds while the
modules were written and are in no run of their own: an invariant or a proof that
fails on a wrong type says the same. `TypeOK` of `StoragePolicy` and of
`DownloadQueue` is a part of what is proved; the other proofs state the types they need.

The liveness properties of the form `[]<>P` say that a component never stays in the
bad state; `InterruptedIsTold` and `ConvertedIsListed` are leads-to properties;
`WantedIsRecorded`, `EndedBroadcastsClose` and `StagingGateReleases` assume that the
world has settled. Two branches fire in no run: `StartJob` refused because its key
runs already (only one multi-step handler runs at a time), and the row of another file
in `SweepRow` (one file).

## Fairness

- `ConcatQueue`: ready handlers run and the helper goes on; nothing is asked of the
  user or of faults.
- `RecordingSession`: a method that holds the lock proceeds, because its waits have
  timeouts; the watchdog loops; a process that got SIGKILL exits; a writer whose
  process is gone reaches the end of its input. Nothing is asked of a process that
  got SIGTERM.
- `StoragePolicy`: both tasks loop; a promotion that is tried again and again moves
  every file in the end (strong fairness), since a file that fails is tried in each
  pass.
- `RecordingLibrary`: the conversion task, the monitor and the retention loop, what a
  handler began goes on. Nothing is asked of the user, and nothing forbids that a
  conversion fails each time.
- `LiveSessions`: the monitor polls, what Auto Record began ends.
- `AutoRecord`: the task loops, an accepted call goes on, a cooldown ends. A start may
  fail, a capture may die; neither is asked to stop doing so.
- `MediaImports`: the loop of the task runs and every conversion ends, since both have
  timeouts. A task that died is excepted (`Alive`).
- `RecordingAudit`: threads and the loop finish what they began, a dead server is booted
  again, and a storage pass comes round in a server that stays up (strong fairness,
  because captures and conversions interrupt it without end).

The other specifications have no fairness: their properties are safety.

## Proofs

All proofs are for arbitrary constants under the named assumptions of the modules:
`ItemAssumption`, `LimitAssumption`, `SessionAssumption`, `SlotAssumption`,
`AutoRecordAssumption`, `NoneAssumption`, `AccountAssumption`, and, of the instances,
`StorageHolds`, `LiveHolds`, `TimelineHolds`, `ProjectsHold` and `FollowHolds` (that
`StorageAssumption`, `LiveAssumption` and so on hold of them). The proofs about
`ConcatQueue`, `RecordingLibrary` and `MediaImports` assume nothing.
`FollowAssumption` takes the list of channels to be finite.

A component that a suite instantiates is proved about in that suite's proof module, as
`Storage!`, `Live!`, `Timeline!`, `Projects!`, `Follow!` or `Imports!`: the instance
gives its variables names and leaves its constants arbitrary, and its specification is
its own, without `part`. The bounds of a run (`MaxOps`, `MaxTime` and such) are constants
of the theorem too, so nothing depends on their size.

Queues (`DownloadQueueProofs`, `ConcatQueueProofs`):

- `IndexInvariance`: `TypeOK /\ IndexConsistent` is itself inductive. `Restrict`, `Keep`
  and `InOrder` keep a list free of repetition (lemmas of `ListOrderProofs`); what a
  removal leaves, and what an append adds under fresh ids, agrees in all three
  structures.
- `ClaimIsWorkConserving`, `ClaimIsBounded`: what `FirstN` takes of the eligible tasks
  has as many elements as there are free places, or is everything; hence a claim leaves
  no place empty beside a task that could fill it, and exceeds neither limit. The sizes
  are those of finite sets of list elements, counted in `ListOrderProofs`.
- `PauseIsKept`: no step makes a paused task active but the user's resume.
- `ConcatIsSerial`, `ConcatenatedIsThere`, `ConcatIsServed`: three invariants of one
  induction, `ConcatInv`. `ConcatIndex` and `Names` say that the indexes agree and that
  each command and report names the task it was made for; `OneKept` that commands and
  last reports of uninterrupted projects are of a running task, and one together, which
  survives late reports and reordered writes; `SaidHasFile` that whoever is to say
  "concatenated" (report, waiting write) has the file; `InTime` that, while no fault
  happened, the report a thread began is answered before the thread goes on.

Captures (`RecordingSessionProofs`):

- `SessionsAreListed`: `RunningIsListed` (a process nobody sent SIGKILL to is in the
  registry) and `OneProcessPerKey` are not inductive alone. `IInv` adds that the lock,
  the registry and the scan name existing sessions, and `StopHasKilled`: a stop that
  joins the writer has either seen the process exit or sent SIGKILL, which is why
  dropping the session loses no process that could live on.
- `HlsIsKept`: `HlsKeptWhileRecording` with the same types. A start, a listing, the
  watchdog's scan and a stop all remove directories; each looks for the end of the writer
  thread in the step that removes, and no writer comes back.
- `CapturesCharted`: `DueIsFound` follows a request through its two reads. Before the
  first, a capture that is due has its row or a tombstone; between them, its bar or a
  tombstone, because a deletion that takes a row has archived it before
  (`ArchivedIsThere`), and what it archived is what it takes.
- `BroadcastsApart`: unless two observations raced, one of them is underway at a time
  (`Alone`); the rows before the last are closed and further apart than the gap
  (`Apart`), none begins later than an observation underway (`BegunBy`), and what this
  observation found is still so (`Found`).

Library (`RecordingLibraryProofs`):

- `FootageIsKept`, `ErasedIsErased`: `FilesArePromoted` says that what has files in
  the library, or had them erased, has been promoted, so that no TS is put there
  again; `NoOutputLeft` that no conversion of an erased recording has an output left
  to publish, nor one to create, unless the recording escaped; `ConvertedFirst` that
  where the conversion stands before its removal of a TS the MP4 is good or somebody
  erased it; `OnlyFragments` that the monitor deletes only what is too short.
- `ImportsPlay`: `PlaysUnlessDisturbed` speaks of rows, copies and folder, its invariant
  also of what is underway. `Working`: a conversion read the folder after its version was
  taken, and versions only grow; so a row of the folder's version comes from a conversion
  that read it. `AtFile`: while nothing disturbed a video, whoever converts it has the
  name of the output, and the copy, if there is one, is whole. `Known` says of a row, as
  it is and as an actor read it before, that a copy beside a row of the folder's version
  is of this version, and so is what anybody reads who makes one; that is why the listing
  may use a copy again on the word of an old row.

Recording policy (`AutoRecordProofs`):

- `OffIsKept`: `off` holds the channels turned off by a call that no pass overlapped.
  `Unwished` and `ModelOff` say that neither table wishes them, and neither does what the
  call is yet to write; `NotTaken` that the pass has none of their keys among its jobs,
  which is where a row read before an await could restart a capture; `CleanCall` what a
  call that no pass overlaps has done at each of its awaits.
- `TypeCorrect`, `GateStops`, `StagingReleased` (of `StoragePolicy`): the types and
  `GateStopsCaptures` together are inductive: the task that engages a gate stops
  everything in the same step, or stands at "disabling" until it does.
  `StagingReleasedWhenClear` follows step by step.

Mac (`MacDownloadProofs`):

- `PurgeIsSafe`: a purge acts on what a handler found synced, in a request sent earlier,
  from a scan cached before that. `NamedIsOnMac` says of each of these stages that the
  videos it names are on the Mac; `OnMacStays` that a video once there stays, because a
  move overwrites the library's copy only while the staging file is whole
  (`MovingIsStaged`). What is promised of a purged video is one of its size on the Mac:
  `SyncedIsListed` says that each of the three ways to match finds such a one. The proof
  holds for any number of handlers and videos, and for any sizes.
- `CustodyIsKept`: with the same invariant, `MacDownload`'s initial states are
  `VideoCustody`'s, and each of its steps is one of `VideoCustody` or changes nothing
  `VideoCustody` sees.
- `DownloadsAreServed`: a task that is downloading has a handler about to make its
  job, a job, a thread of the helper or a transfer, or its video is on the Mac
  (`TasksServed`; `stranded` excepts what a claim left without a job, until the next
  one). `Flow` follows it through these hands: no job's number is used twice
  (`Numbered`), no thread is started twice for a job (`AnsweredOnce`), and a thread's
  video has a transfer from `addUri` on (`ItemOfThread`). `FlowInv` says so as long as
  nothing was lost.

Providers and projects (`ProviderAccountProofs`):

- `OnlyRefusalProved`, `OnlyAnswerProved`: action properties, from the types and
  `SavesCookies`: a check that was not refused and has a row to write has cookies to
  write in it. It is the row as loaded after the answer that matters, since a logout may
  have emptied it before. `AccountAssumption` (no session is no cookies) is needed by the
  first, where a restart asks about what it found.
- `BoundsExact`, `SessionsTogether`, `JoinsWithinGap`: unless two assigners overlapped,
  the one call underway is followed from stage to stage (`Stage`): what it read is still
  so at its next await. `Exact` says that a project begins and ends where its clips do,
  but for the one a call is adding to (`Refreshing`) or has just opened (`Founding`);
  `Belongs` that a clip is of the recording of another one of its project, or within the
  gap of it. That a set of clips has a latest end is `SmallestKey` of `ListOrderProofs`.
- `RowsAreFollowed`, `QuietSyncsAreWhole`: `FlowSaw` and `SyncSaw` bound what each flow
  has in hand by what the site listed, or the user clicked, since it began. `InPlace` and
  `Whole` say of a synchronisation in quiet that it holds the pages up to its offset:
  the places of channels are counted with `FirstN`, so that the next page begins where
  the last one ended and a page that is not full is the last; for a list that `Fits` no
  limit ends it before.

Only model-checked: the liveness properties, which need fairness and `ENABLED` and are
out of the provers' reach: `StalledIsStopped`, `LockIsReleased`, `EndedBroadcastsClose`,
`OverQuotaIsStopped`, `WantedIsRecorded`, `StagingGateReleases`,
`EveryRecordingIsConverted`, `GhostRowsGo`, `DroppedIsIndexed`, `GhostImportsGo`,
`QueueMoves`, `InterruptedIsTold` and `BusyFileCatchesUp`; so nothing is proved of
`RecordingAudit`. A violation run has a property that is false.

## Known divergences

Where a document, a comment or a test promises more than the code does. The first
four are the violation runs; `PROJECT.json` quotes both sides under `findings`.

- `disk_pressure.py:213`: the promotion looks up the files in use once, of sessions
  whose process runs, and moves one whose writer is still at it (`recording_torn`).
- `monitor.py:1069`: the update of the rows overwrites what the conversion recorded
  meanwhile, and the MP4 is not listed (`library_listed`).
- `main.py:12554`: a pass starts captures from a usage it read before it stopped what
  was over the quota (`autorecord_quota`).
- `media_imports.py:493`: the copy of a replaced video, left on the disk when its
  replacement could not be converted, counts as the replacement's (`imports_stale`).

Found while the models were written, and excepted from the properties above:

- `concat_queue.py:166`: a paused task frees the one slot and goes on on the Mac.
- `main.py:9185`: captures stop only on the edge that engages the staging gate; a
  start that passed the gates before runs on behind it (`late`).
- `recording_projects.py:254`: two assigners put two parts of a recording in two
  projects. The run has one assigner; the theorems allow any number and except the
  behaviours in which two were at work at a time (`overlapped`).
- `providers/builtin.py:344` (and Stripchat's): a check that could not be made counts
  as a refusal and logs the account out; `OnlyRefusalLogsOut` excepts both.
- `chaturbate_api.py:1616`: a check that could not be made counts as proof that the
  channel is unfollowed.
- `main.py:6240` says the helper picks up `concat_status=queued`, but the claim
  looks at the in-memory queue only: after a restart such a row stays queued.
- `ffmpeg_runner.py:840` removes an HLS directory only while the session's
  recording is still on the staging disk: promoted first, the directory stays.
- `database.py` reads an open broadcast and writes one at different awaits: two
  observations of a channel may leave two of them open (`raced`).
- `main.py:11748` checks the library gate before the awaited write of the switch:
  Auto Record may be turned on behind the gate.
- `main.py:9161`: a database error after the gate's flag was set leaves captures
  running behind the gate; not modelled, the next pass finds no edge.
- `recording_projects.py:270` joins a clip to the latest project whenever it
  started before that project's end, however long before.
- `recording_projects.py:346` makes a project ready from a row listed before a new
  clip reopened it.
- `main.py:7532` takes a size that is unique on both sides for the same file, and
  counts Mac files already matched by their recording id: of two videos with the
  same number of bytes, one filed and purged, the other is purged although it is not
  on the Mac; `main.py:7592` speaks of videos "that already have a complete Mac copy".
  `PurgedIsOnMac` and `VideoCustody` promise one of the same size for that reason. With
  two videos of one size TLC finds them kept, and a promise of the video itself broken.
- `main.py:7830`: an error of the drain that is no `HTTPException` leaves the claimed
  tasks "downloading" with no job, and a slot taken, until the user or a restart of the
  server ends that; `DownloadingIsServed` excepts them (`stranded`).
- `main.py:10327`: a deletion between ffmpeg's opening of the TS and its creation of the
  hidden output finds no output to remove, and the conversion publishes the MP4 of a
  recording that is gone. `ErasedStaysErased` excepts that MP4 (`escaped`).
- `main.py:8071`, `main.py:8075`: a job just drained is put in the answer twice, and
  two threads may add one transfer; the second fails, and its row may mark the
  task failed while the first goes on.
- `main.py:8886`: of several claimed items those that are missing or being recorded
  get no entry, and their tasks stay "downloading" (`stranded`).
- `main.py:7826`: the pause and resume that queue a failed claim again also
  resume a task that the user paused meanwhile.
- `hxylive_mac_helper.py:4257`: the path of a failed transfer stays tracked, so the
  video selected again is not downloaded until the helper restarts.
- After a lost answer, an expired job or a restart of the helper a task stays
  "downloading": `DownloadingIsServed` excepts faults.
- A channel that goes on or off the air between the two lists of Chaturbate or
  Stripchat is missed by a synchronisation; `QuietSyncIsWhole` asks for a quiet site.
- `following_sync.py:219` removes the rows of channels that were not read. Stripchat reads
  20 pages of each category, and one if the answer has no total (`stripchat.py:1741`,
  `:1755`); YouTube 40 pages and `HXYLIVE_MAX_FOLLOW_SYNC_ITEMS` channels
  (`youtube.py:1440`, `:1451`, `:1184`); Bilibili and Twitch whatever they could. None says
  that the list was longer. `QuietSyncIsWhole` asks for the whole of a list that `Fits`,
  and of any other that nothing else is stored.
- `hxylive_mac_helper.py:3728`: two concatenations of one project write one hidden file;
  the video one of them publishes may be torn until the other ends. `ConcatQueue` has
  their outcomes apart, and `ConcatenatedHasFile` speaks of the file's existence only.
- `twitch.py:1244` takes a session store that cannot be read for one without cookies, and
  `twitch.py:1154` that for "not logged in": a failing read would log the account out.
  `ProviderAccount` has no failing reads, so `OnlyRefusalLogsOut` says nothing of it.
- A duration measured while its recording is being deleted is lost in the tombstone,
  and the bar with it (`due` leaves it out).
- A conversion that failed once keeps the outcome "failed" when a later attempt
  succeeds, and "interrupted" outranks "ok"; a torn write of the shutdown's flag loses
  the list of what was interrupted.

A running concat task whose report is lost stays running, and blocks the slot,
until the user deletes or resumes it; `RunningIsServed` and `QueueMoves` therefore
assume that nothing was lost.

## Not modelled

- Of `RecordingLibrary`: the merge of short segments, thumbnails, the removal of empty
  directories. Of `AutoRecord`: `AUTO_RECORD_USERS`, byte rates, the double count of
  segments. Of `MediaImports`: the rest of 30 s before a file is looked at, which only
  delays it, and uploads, whose file appears whole. Of `RecordingAudit`: the log's
  rotation, and a writer that outlives the two seconds a shutdown waits. Of
  `MediaTimeline`: the limit of 5000 rows. Of `RecordingProjects`: manual merge and
  split, the backfill's directory scan. Of `FollowCache`: metadata of the channels.
- Two promoters on one file (`disk_pressure.py:189`), and two starts admitted by one
  reading of the quota with handlers of several steps at a time.
- Search, resolvers, catalogues and names of recordings: translations of third-party
  answers and formatting, without a state that several actors share. The HLS proxy and
  file serving: input and output. The web UI: a client, whose calls are the models'
  inputs. Configuration, schema and migrations, deployment.
