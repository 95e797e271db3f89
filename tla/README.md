# tk-monitor in TLA+

This directory is the verification project of tk-monitor: TLA+ modules
translated from the Python code under `src/backend/app/`, the TLC
configurations that check them on small instances, and theorems about them that
TLAPS proves for every value of the constants. Line numbers below refer to
`src/backend/app/`.

## 1. The system

tk-monitor watches TikTok creators. It scrapes their videos on schedules, judges
every video (historical viral, daily hot), and shows lists and statistics.

| part | code | state it keeps | operations |
|---|---|---|---|
| line A, hot ingest | `hot_refresh.py`, `jobs.py`, `collection_scheduler.py` | none of its own | scrape the group in mode `hot_ingest`, then line B |
| line B, hot update | `hot_refresh.py`, `distributed_lock.py`, `jobs.py` | `MonitorGroup.last_hot_update_at`, a lock per group | scrape in mode `hot_update`, reclassify, reconcile, stamp |
| coordinator | `hot_refresh.py:177`, a job per minute | none | start line B for the groups that are due |
| scrape service | `collection.py`, `collection_policy.py` | `Video`, `VideoSnapshot`, stamps of the creator | the four modes, retries |
| video verdicts | `video_classifier.py`, `thresholds.py` | flags of `Video`, `HistoricalViralArchive`, `DailyHotRecord` | `apply_video_classification`, `reconcile_daily_hot_records` |
| schedules, Beat | `collection_scheduler.py`, `tasks/scheduler.py`, `beat_runner.py` | `CollectionSchedule`, the jobs of APScheduler | register, resync every two minutes, fire, mark executed |
| worker pool | `celery_app.py`, `jobs.py` | queue, chords, results in Redis | run, retry, redeliver |
| groups and creators | `groups.py`, `routes.py`, `group_helpers.py`, `creator_input.py` | `MonitorGroup`, `MonitoredCreator` | add, move, delete, deactivate, soft-delete, purge |
| proxy pool, gateway | `proxy_pool.py`, `proxy_gateway.py` | `ProxyEndpoint`, cooldowns, a sing-box process | acquire, report, health check, sync |
| runtime settings | `runtime_settings.py` | `SystemSetting`, a cache per process | load, save |
| recognition, drama statistics | `doubao.py`, `drama_stats.py`, `recognition_gate.py` | `VideoDramaRecognition`, `DramaStats` | look up, save by hand, rebuild |
| TikTok fetch | `scraper.py` | none that lasts | list a creator's posts from four sources in turn |
| lists of users | `routes.py`, `favorites.py`, `shares.py` | `Video`, rows that refer to videos, collections | keep, share, list, delete |
| operations | `deploy_update.py`, `postgres_backup.py`, `snapshot_archive.py`, `cluster_monitor.py` | files, snapshots, heartbeats | update, back up, purge, report |

How they interact. In **local mode** everything is one process with one event
loop: jobs, requests and the coordinator call the services directly and share
memory locks. In **hybrid mode** the API and Beat publish Celery tasks; workers
on several machines run them and share nothing but PostgreSQL and Redis. A line
of a group becomes a *chord*: one `scrape_creator_task` per creator, then a
callback. The callback of line A is line B's task; that of line B is the
finalize, which judges the group and stamps it. The database rows are where
everything meets: two scrapes, a finalize and an admin's request may have the
same `Video` row loaded at the same time.

What is hard, and what makes each part correct:

* *overlap*: line B of one group should run once at a time, and its lock must
  not leak; in hybrid mode runs do overlap, and the stamp must nevertheless stand
  for a scrape of the whole group;
* *failure*: retries end, a chord whose task failed never completes, tasks are
  acknowledged late and run again after a lost worker; a run must still be
  resolved, and a once schedule must not be marked without its ingest;
* *stale copies*: transactions judge rows they read long before they lock them,
  and write only what differs from what they read; flags, archive and daily
  records must stay consistent, and history must not be deleted;
* *change under way*: creators are added, moved and deleted, groups deactivated,
  thresholds edited, while runs are in flight;
* *checks far from their writes*: requests look at a count, a duplicate or a
  counter, wait for TikTok or for a commit, and write; the code has almost no
  locks or constraints there, so the question is how far it can be off, and that
  it is exact when nothing overlapped;
* *sessions*: one database session serves a whole loop of scrapes, and reports to
  the proxy pool commit whatever it holds;
* *processes of one host or of several*: they share a file, a child process, a key
  that expires, and each has its own cache and clock.

`PROJECT.json` lists every component, every hazard with the line where it bites,
and the definitions with the lines they translate.

## 2. Modules

| module | models | state | checked by |
|---|---|---|---|
| `HotUpdateContract` | what line B promises per group | `active`, `stamp` | refinement from `HotLocal` |
| `HotLocal` | lines A and B, coordinator, lock, in local mode | clock, stamps, locks, one program counter per coroutine, what the coordinator has read | `HotLocal.cfg`, `HotLocalDue.cfg` |
| `HotPipeline` | lines A and B in hybrid mode | rows (creators, groups, schedules, stamps), runs with their stage, chord members, retries, losses | five `HotPipeline*.cfg` |
| `VideoClassification` | the verdicts on one video | the row, its records and archive, settings of the groups, the copy each transaction has read | two `VideoClassification*.cfg` |
| `Schedules` | schedule rows, the scheduler's jobs and their reloads, daily and once runs in both modes | rows, jobs, reloads, runs, queue, workers, what was published | `Schedules.cfg` |
| `ProxyPool` | selection, reports, cooldowns, health checks | rows, Redis keys, memories, the copy each scrape and check has read | `ProxyPool.cfg` |
| `ProxyGateway` | the sing-box process of a host | table, file, child, synchronisations | `Services.cfg` |
| `Catalogue` | groups, collections, their creators, a group's schedule row | places, creators, requests | `Services.cfg` |
| `VideoRefs` | favourites, shares and records that refer to videos | ids, references, requests | `Services.cfg` |
| `DramaStats` | annotations and the counters of dramas | recognitions, counters, transactions | `Services.cfg` |
| `RuntimeSettings` | settings and their caches | table, cache per process, saves | `Services.cfg` |
| `HotSegments` | a group's segments of the day | rows, requests | `Services.cfg` |
| `ScrapeLoop` | a local run over a group in one session | loop, attempt, flushed and saved writes | `Services.cfg` |
| `VideoFetch` | `fetch_creator_videos` | the posts, the source in turn, what is found | `Services.cfg` |
| `SnapshotPurge` | the nightly purge | ids, the batch each purge has chosen | `Services.cfg` |
| `ClusterMonitor` | heartbeats and what the page says of them | loops, ages of the keys, workers | `Services.cfg` |
| `MC_*` | constants for TLC; `MC_Services` joins ten components | | |
| `HotLocal_proofs`, `HotPipeline_proofs`, `VideoClassification_proofs`, `Schedules_proofs`, `ProxyPool_proofs` | theorems about the module of that name | | TLAPS |
| `Operations_proofs` | theorems about `ScrapeLoop`, `VideoFetch`, `RuntimeSettings`, `SnapshotPurge`, `ProxyGateway`, `ClusterMonitor` | | TLAPS |
| `Records_proofs` | theorems about `Catalogue`, `VideoRefs`, `DramaStats`, `HotSegments` | | TLAPS |
| `Services_proofs` | that `MC_Services` is each of its components, and their theorems together | | TLAPS |

### HotLocal

A coroutine is `idle`, in the coordinator's `loop`, in line A (`ingest`) or in
the line B body (`update`). `TryLock` is the test of `is_hot_update_running` and
the `async with` that follows: there is no suspension between them, so they are
one step. Everything that awaits (each scrape, the commit) is a step of its own,
so other coroutines run in between. `CoordinatorStart` stores the stamps and the
clock the pass has read, `CoordinatorSkip` and `CoordinatorRun` use them. From there to
the first group it runs, and from the end of one group's run to the next, the
coordinator does not suspend (188-215): while it is in `loop` no other coroutine
moves (`Awaiting`). Only the clock may.
`UpdateRaises` and `IngestRaises` are an exception outside the retry loop;
`Restart` loses the locks and the coroutines and keeps the stamps. The creators a
scrape loop takes are any set, since admins change them at any time, and the
groups a pass visits are any subset, since groups are deactivated and segments
edited.

### HotPipeline

A *run* is one published orchestration task with everything its chords lead to.
Its `stage` goes from `ingest` (queued line A task) over `ingest_chord`,
`update`, `update_chord` and `finalize` to `done`, or ends `skipped` or `broken`.
`member[r][c]` is creator c's task in the current chord of run r.

* `IngestFanOut`, `UpdateFanOut` read the creators and publish the chord; an
  empty group goes on directly, as the code does. `MarkSchedule` is the
  transaction that follows the publication. `LostInFanOut` leaves part of a
  header in the queue as a run of its own and the task to be run again;
  `LostBeforeMark` is the same after the chord; `FanOutRaises` and `MarkRaises`
  are exceptions, for which the hybrid branches ask no retry. A partial
  publication followed by an exception is `LostInFanOut` then `FanOutRaises`.
* `ScrapeCommits(r, c, FALSE)` and `Finalize(r, FALSE)` are commits whose worker
  is lost before the acknowledgement: the task is still queued and runs again.
  An attempt reads everything again and commits once, so it is one step.
  `ScrapeRaises` may have committed too: the proxy report that follows the
  commit can raise.
* `ChordCompletes` and `ChordBreaks` are Celery's (external): the callback runs
  when all tasks of the header have succeeded, and a header that was published
  only in part never gets there (`whole`).
* `CoordinatorDispatch`, `ScheduleFires`, `TriggerIngest` and `TriggerUpdate`
  publish runs at any time; none looks at whether one is running.
* `AddCreator`, `MoveCreator`, `DeleteCreator`, `UpdateGroup`,
  `SoftDeleteGroup`, `UpdateSchedule` are the API's effects on what runs read.

### VideoClassification

One video, several transactions: a scrape in one of four modes, a finalize, or
the move of the creator to another group. Each begins by reading a group's
settings, later reads the row (`stale[t]`), and commits. Between these points
anything may happen. Three facts about the ORM and the database shape the model:

* the first flush takes the row lock and it is held to the commit, so from there
  on a transaction is one step. What that step writes was computed before: its clock
  readings (the growth's, the window's and the date's, the reconciliation's `today` of
  `hot_refresh.py:45`) are any from `since[t]`, when the row was read, to the commit,
  in the order the code takes them;
* an UPDATE names the attributes that differ from what was read (`Write`,
  `Column`): the others keep what the row holds *now*;
* the daily records and the archive are changed by statements on the table, so
  they see the present, whatever the copy says.

The finalize first reclassifies the rows it loaded with the settings it loaded,
then runs a query for flagged videos, with their groups. The group it then judges by
may be as it is in the table at that query, or the object the session still holds from
before (`GroupReads`: `expire_on_commit=False`, and in local mode the coordinator's
session has loaded every group); `had[t]` is the set of the settings it may use, to
which an edit adds until the query has run. If it has changed the row, the query sees
its own write under the lock (`FinalizeCommits`); if not, it reads a second time without
one (`ReconcileReads`, which fixes the day, and `ReconcileCommits`). Growth is compared as
`views >= growth * age`; a NULL publication date (`Published = -1`) counts as age
zero, as in the code. The legacy mode `hot_refresh` does nothing that `daily` cannot
do. A hot verdict always writes a new `daily_hot_at`.

### Schedules

A row has a life (`unused`, `live`, `deleted`), a time and the flags `enabled` and
`executed`; its `kind` never changes. A request commits and, in local mode, reloads
the scheduler; the resync does the same every two minutes, and in the hybrid
deployment it is the only thing that does. A reload is three steps
(`SyncClear`, `SyncRead`, `SyncRegister`), because coroutines run between removing the jobs,
reading the table and registering. `JobFor` gives a past-due once schedule a job
in the present, and reads a naive date in the host's zone (`Offset`). `FireLocal` starts the
collection in the process, `FireHybrid` queues a task; `Misfire` is a job that
was due more than `misfire_grace_time` ago. A worker takes a task, publishes a scrape per creator
and marks the row; when it is lost the task is queued again. The chord of an
ingest is in `HotPipeline`: here it counts as published with its header.

### ProxyPool

A scrape acquires a proxy (`Acquire`), ends, reads the row again
(`ReportReads`) and commits (`ReportCommits`); a check commits `checking`
(`CheckSends`) before its request and the result after it. Each has a copy of the row, and `Written`
sends the columns that differ from the copy, as the ORM does. Cooldowns are keys
in Redis, or, in local mode and while Redis does not answer, the memory of each process.
`streak` and `stale` are history: the failures really reported since the last
success, and the rows a transaction has written from an old copy.

### The ten components of MC_Services

They share no variable with each other. `MC_Services` picks one of them (`part`)
in the initial state and moves only that one, so that one run explores each of
them and none of their products (the catalogue in two parts, see the bounds).

* `ProxyGateway`: `ChangeRow` and `Reload` begin a synchronisation, which reads
  the rows, writes the file, kills every sing-box of the host and starts one.
  Links are reduced to what the parsers and the converter look at; a raw link is
  not parsed at all and may raise in the conversion (`SyncRaises`). Finding the
  processes by their command line (`proxy_gateway.py:57-83`) is best effort in the code;
  the model takes the kill as sure.
* `Catalogue`: `AddChecksRoom` counts, then TikTok is asked, then `AddInserts` looks
  for duplicates and flushes, then `AddCommits`; a batch flushes several. `UpdateGroup`
  and `UpdateCollection` change the limit at any time, also to less than there is;
  `most` is the history of the largest. The limit and the count of one check are read in
  one step: an edit between the two reads is no matter, since the bound is by the
  largest limit. A limit that is negative, or NULL, with which the comparison raises,
  admits nobody, like 0. `FillUid` is `scrape_creator`'s write of an empty
  `tiktok_user_id` (`collection.py:138-139`). Moves and
  schedules check first and commit later. A deleted group expires after its retention and is purged. Foreign
  keys are enforced (PostgreSQL) or not (SQLite).
* `VideoRefs`: a client finds a video in one step and inserts a row that refers to
  it in another, while the video is deleted. SQLite gives a deleted last id again.
* `DramaStats`: an annotation flushes its row, counts the dramas it touches, reads
  their counters and writes; at READ COMMITTED it does not see what is open
  elsewhere. `drift` is the history of what overlapped.
* `RuntimeSettings`: a save changes the cache key by key, then commits or fails.
  `doubt` is the history of what overlapped.
* `HotSegments`: `Valid` and `Current` are the code's functions; a save deletes the
  rows its statement saw, and inserts its own.
* `ScrapeLoop`: `Failed` is the end of an attempt (another try, or the creator is
  counted as failed), `FlushFails` rolls back and leaves the session unusable,
  `Report` commits what is pending. `RunEnds` marks the schedule if it can.
* `VideoFetch`: profile page, list API with its cursor, yt-dlp, browser, mock. TikTok
  (external) lists pinned posts first, may say more or repeat a cursor, and the
  creator posts meanwhile.
* `SnapshotPurge`: a batch is selected, deleted and committed; a batch with fewer rows
  than its limit is the last.
* `ClusterMonitor`: each process's loop counts, stores its key and sleeps; a key's
  age grows by the clock, and the page reads it by another host's clock (`skew`).

## 3. What the runs show

| run | result | shows |
|---|---|---|
| `hot_local` | pass, 108 330 states | `LockMatchesBody`: a lock is set exactly while its owner runs the body; `RefinesContract`: one body per group, only completion moves the stamp, also across chained runs, exceptions and restarts; `CoordinatorPassEnds` |
| `hot_local_due` | violation | `CoordinatorRunsOnlyDue` fails: a pass finds two groups due and awaits the run of the first; a manual run updates the second one meanwhile; the pass runs it again |
| `hot_pipeline` | pass, 1.4 million | `MarkedScheduleRan`: no loss, error or switch of the schedule marks it without a complete fan-out |
| `hot_pipeline_cover` | pass, 3.2 million | `StampCoversScrapes`, `ChainFollowsIngest`, with overlap, redelivery, a partial header and a newcomer |
| `hot_pipeline_moves` | pass, 1.9 million | `StampCoversScrapes` with retries and a creator moving between two groups |
| `hot_pipeline_live` | pass, 187 458 | `RunsResolve`: every queued orchestration task ends `done`, `skipped` or `broken`; a chord whose member failed for good counts as resolved, for the code does nothing more about it |
| `hot_pipeline_overlap` | violation | `OneUpdatePerGroup` fails: the hybrid branch takes no lock |
| `video_classification` | pass, 1.3 million | `ViralIffArchived`, `HotFlagHasRecord`; `PastDaysKept`: a record goes only with its flag, and is of no day before the transaction that deletes it began to judge; `FinalizeSettles`: a flag a finalize leaves is justified by some settings its group had, at some time, since the finalize read them |
| `video_lost_update` | violation | `FinalizeFlagsHot` fails: a finalize judging an old copy unflags a video a scrape has just found hot; the next run repairs it |
| `schedules` | pass, 1 schedule of any kind, both modes | `OnceRunsOnce`: in local mode a once schedule completes once; `ExecutedWasPublished`: in hybrid mode a mark stands for a scrape of every creator; `PastDueSettles`: a due once schedule does not stay due |
| `proxy_pool` | pass | `StreakExact`: the counter is right unless a transaction wrote from an old copy; `CheckingIsWatched`: no path but a lost process leaves `checking` |
| `services` | pass, 980 871 | the ten components, below |

The properties of `services`:

| component | property | says |
|---|---|---|
| gateway | `ServedIsFile` | after two restarts at once, sing-box serves the file as it stands, or nothing |
| catalogue | `CapacityHolds`, `DuplicatesBounded` | how far overlapping requests can pass the largest limit a place has had, and how often they can add one account, by its name or by the id it is added with |
| catalogue | `PurgedIsGone` | nothing is left under a purged group |
| references | (types only) | |
| drama statistics | `StatsExact` | a counter is right unless a deletion or an overlapping annotation came after its last recount |
| settings | `CacheIsTable` | a process uses what the table holds unless a save failed, overlapped, or was another process's |
| segments | `NoGap`, `SetsBounded` | a group with segments has one for each time of the day; overlapping saves leave at most one set each |
| scrape loop | `SuccessIsSaved`, `MarkedMeansTried` | a success is committed; a marked run tried every creator and its session was sound |
| fetch | `ListComplete`, `PagesBounded`, `BestKept` | a list read to its end is complete; paging ends; no source replaces more by less |
| purge | `PurgeComplete` | a purge that ends left nothing that had expired when it began |
| heartbeats | `RunningIsShown`, `WorkersWereThere` | no false alarm after one missed heartbeat; workers that are shown were there recently |

Several of these bound an error instead of excluding it, because the code does
not exclude it: the cap of a group and the uniqueness of an account are checked
without a lock, and a comment on `HotUpdateSegment` ("one set per group") is
kept only as far as `SetsBounded` says. `CapacityHolds` is about the largest limit
because an admin may lower one below what is there, and with two requests that is
the most the code lets one say. `DuplicatesBounded` counts the ids accounts are
*added* with: an account that is added without one, beside a row that has it under a
former name, may be given the same id by a scrape, which looks for no duplicate, so two rows
of one id come about without any overlap.

`VideoRefs` has no property but its types. That a reference finds its video is the
database's doing where foreign keys are enforced, and nobody's under SQLite, where a
reference may be left dangling and the lists of favourites and shares then raise.

### Hazards the properties leave open

Six properties except, word by word, what the code does not prevent. They show that
nothing else goes wrong, and do not show that these hazards cannot occur; they can:

* `StreakExact`: a report or check that writes from an old copy loses a count
  (`proxy_pool.py:367`);
* `CacheIsTable`: failed and overlapping saves, and saves of other processes, leave a
  cache wrong (`runtime_settings.py:143`);
* `StatsExact`: annotations that overlap leave a counter wrong until the next one
  (`drama_stats.py:21`);
* `ListComplete`: an old pinned post ends the list early (`scraper.py:527`);
* `PurgeComplete`: a full batch of which others have deleted a row ends the purge
  early (`snapshot_archive.py:55`);
* `PastDaysKept`: a pass that crosses midnight deletes the record of the day it began
  on, which is then history, and leaves the new day's (`hot_refresh.py:45`).

The time zone of a once schedule (`collection_scheduler.py:226`, below) is covered by
no property.

`PastDueSettles` holds on hosts in UTC only. `run_at` is naive UTC
(`models/__init__.py:325`, `schemas/__init__.py:506`), but `DateTrigger` reads a
naive date in the zone of its scheduler's host
(`collection_scheduler.py:183-185` and `224-226`). With `Offset = 1` in
`Schedules.cfg` TLC shows a once schedule that never runs: its job lies in the
past and misfires after each reload. On a host west of UTC each reload puts the
job off again.

The three violations are disagreements between the code and its own docstrings;
`PROJECT.json` quotes them. The first costs a superfluous update, the second
overlapping chords; the third hides a hot video until the next line B run.

In `StampCoversScrapes` and `ChainFollowsIngest` the creators that came to the
group (added or moved) after the header was published are excepted (`Older`): the
code cannot have scraped them. `FinalizeSettles` excepts a video whose creator
has left the group: the new group's finalize judges it.

### Bounds

* Two runs, one worker loss: a run and its redelivery, or two overlapping runs.
  Two creators are the least for a partial header and for one success next to
  one failure. Retries are 0 or 1; the code's bounds (3 in hybrid mode,
  `scrape_max_retries` in local mode) only repeat the same step.
* `MaxNow` is 1 to 3 units: a stamp, a header and a scrape can all be at
  different times. `Interval` is 1 or 2.
* Local mode has two groups, two callers and the coordinator: a caller may hold
  the lock of the group the coordinator visits while another starts line A.
* The video run has two transactions, three hours that make two days, two groups and
  two settings; each of them can begin again, so longer histories of pairs occur. Of the
  four scrape modes it has the one that updates and inserts any video (`daily`) and
  the one with a condition of its own (`historical`): the two hot modes take fewer videos
  and write the same. The
  bounds are constants of the modules and the proofs do not depend on them.
* `schedules` has one schedule of either task and either type, two creators and
  two workers: one worker can be lost while the other runs the redelivered task.
  Schedules do not interact but through the clock and a reload, which takes all
  of them. Two faults are a misfire and a failed run, or a restart and a lost worker.
  `Offset` is 0, a host that runs in UTC (see above).
* `proxy_pool` has one proxy: rows do not interact except in the choice, which
  takes any available one. Two scrapes and two checks overlap with each other;
  `MaxFail = 2` reaches the cooldown.
* `services`: two actors (requests, transactions, processes) in each component,
  since the code has no step that needs three; limits of one and of two, changed at any
  time; three accounts of which two share an id, like an account that was renamed, and
  the third has none. The catalogue is explored in two parts: a group, whose limit
  changes, beside a collection of one, with the two accounts of different id
  (`NoneRenamed`) and foreign keys; and a collection whose limit changes, with all three
  accounts and both databases. One creator row is filled in with any id there is; a day of 24
  units with layouts that touch, cross midnight, overlap (refused) and leave a gap
  (refused); pages of one post and three posts, so that the list goes over
  several pages; batches of two of four snapshots. `Ttl = 6`, `Period = Lag =
  Skew = 1` stand for 120 s, 45 s and a slow inspection: what matters is
  `2 (Period + Lag) + Skew < Ttl`, which is the module's assumption (with the
  code's numbers: a heartbeat takes less than 15 s, and clocks agree about as well). `MaxSets = 5`
  and `MaxChanges = 3` bound how often something is begun again. `Others = {}`: names
  that are not counted only take a counter away, which a change of drama does too.

Creators are symmetric in `hot_pipeline`, transactions and groups in
`video_classification`: none is named in a property, and no liveness is checked
there.

Tasks and checkers are symmetric in `proxy_pool`, actors and videos in
`services`; neither checks liveness.

Deadlock is checked in `HotLocal`. Elsewhere it is off: the clock, the runs, the
ids, the bounded changes or the losses are used up and the system is idle.

### Fairness

* `HotLocal!FairSpec`: weak fairness of each started coroutine's steps and of the
  coordinator's loop. An event loop runs what is ready and retries are bounded.
  No caller must call, nothing must restart.
* `HotPipeline!FairSpec`: weak fairness of each run's `Work`. Workers consume the
  queue and a loss is followed by a requeue. Requests, admin actions and losses
  are not fair.
* `Schedules!FairSpec`: weak fairness of the resync and of a request's reload (the
  interval job and the event loop go on), of a collection under way and of each
  worker; strong fairness of firing: a job is taken away by each
  reload and comes back, and the scheduler wakes up for a due job again and
  again. Misfires, failures, restarts and losses are bounded by `MaxFaults`.
* `VideoClassification!FairSpec`: a transaction that has begun goes on. It is
  used by the run that expects a violation.

## 4. What is proved

All theorems hold for every value of the constants that meets the module's
`ASSUME`, which TLC evaluates on every run.

| theorem | property |
|---|---|
| `HotLocal_proofs!TypeCorrect`, `LocksMatch`, `ImplementsContract` | `TypeOK`, `LockMatchesBody`, `RefinesContract` |
| `HotPipeline_proofs!TypeCorrect`, `MarkedOnlyAfterRun`, `StampsCovered`, `ChainCovered` | `TypeOK`, `MarkedScheduleRan`, `StampCoversScrapes`, `ChainFollowsIngest` |
| `VideoClassification_proofs!TypeCorrect`, `ViralArchived`, `HotRecorded`, `HistoryKept`, `FinalizeSettled` | `TypeOK`, `ViralIffArchived`, `HotFlagHasRecord`, `PastDaysKept`, `FinalizeSettles` |
| `Schedules_proofs!TypeCorrect`, `RunsOnce`, `MarkedWasPublished` | `TypeOK`, `OnceRunsOnce`, `ExecutedWasPublished` |
| `ProxyPool_proofs!PoolTypeCorrect`, `StreakCounts`, `CheckingWatched` | `PoolTypeOK`, `StreakExact`, `CheckingIsWatched` |
| `Operations_proofs!SuccessSaved`, `MarkMeansTried` | `SuccessIsSaved`, `MarkedMeansTried` |
| `Operations_proofs!ListCorrect`, `PagesCorrect`, `BestCorrect` | `ListComplete`, `PagesBounded`, `BestKept` |
| `Operations_proofs!CacheCorrect`, `PurgeIsComplete`, `ServedCorrect` | `CacheIsTable`, `PurgeComplete`, `ServedIsFile` |
| `Operations_proofs!RunningShown`, `WorkersShownWereThere` | `RunningIsShown`, `WorkersWereThere` |
| `Records_proofs!CapacityCorrect`, `DuplicatesCorrect`, `PurgedCorrect` | `CapacityHolds`, `DuplicatesBounded`, `PurgedIsGone` |
| `Records_proofs!StatsCorrect` | `StatsExact` |
| `Records_proofs!NoGapCorrect`, `SetsBoundedCorrect` | `NoGap`, `SetsBounded` |
| `Services_proofs!ServicesTypeCorrect` | `ServicesTypeOK` |
| `Services_proofs!ServicesImplementParts`, `ServicesCorrect` | the specification of each component; all invariants of `services` together |

Every invariant and every action property that a passing run checks is the
statement of one of these theorems, and `RefinesContract` is one too.

### What the assumptions say of the code

Most are ranges of numbers. The others: a set of rows, keys or requests is
finite where something is counted (`IsFiniteSet`); groups and collections have
different keys (`Groups \cap Collections = {}`: two tables), and `"none"`, `NoRec`
and `"untouched"` stand for the absence of a value, so they are not one; each
process of the API or Beat runs on a host (`HostOf`). `SegmentsAssumption` asks for one request at least,
because a group has segments only when one has written them. `ClusterAssumption`
relates the lifetime of a key to the heartbeat and is met by the code's numbers
(120 s, 45 s).

### The arguments

*HotLocal.* `LockMatchesBody` becomes inductive with `TypeOK` and
`ScrapesAGroup` (a coroutine in line A or B works on a group, otherwise `Unlock`
would free no lock). From it `Active[g]` is 1 if the lock is held and 0 if not
(`ActiveIsHeld`), which maps every step to `Start`, `Finish`, `Abort`, `Crash`
or a stutter of the contract. That the stamp never goes back needs `StampsPast`:
stamps are not in the future.

*HotPipeline.* `StampCoversScrapes` speaks of the finalize step. Its invariant
`Covers(r)` says, for a run whose chord is complete and whole, that every older
creator of the group is in the header, and that a member that has returned `ok`
was either scraped since `begun[r]` or is gone. It needs `ClocksPast` (no row is
stamped later than the clock) and `MarkingRan` (a run that has yet to mark its
schedule was fanned out completely). An overlapping run can only make a scrape
newer, a move makes the creator a newcomer, a deletion takes it out: each is one
lemma, and the step case cites them. `MarkedScheduleRan` follows from
`MarkingRan` and the fact that a run never returns to the queue (`RanStays`).

*VideoClassification.* The flags are related to the tables not only in the row
but in every copy a transaction holds. A copy that is viral implies that the
archive row exists (`ViralCopies`), because the flag is latched and written
together with it; `Write` then keeps `viral` equal to `archived` whichever
attributes it leaves alone. `HotFlagHasRecord` needs `CancelsFlagged`: a
reconciliation that is about to cancel read a flagged row, so that its UPDATE
clears the flag whose record it deletes. `FinalizeSettles` and
`PastDaysKept` are proved per action. A finalize that leaves a flag has judged what the
row holds under the lock by settings in `had[t]` and found it hot, and a reconciliation
that writes clears the flag (`FinalizeLeaves`). Each day at which a record is deleted is
that of a clock since `since[t]`, and the flag goes with it (`VerdictRecords`,
`FinalizeRecords`, `VerdictDeletes`).

*Schedules.* `OnceRunsOnce` needs to know that a marked schedule neither runs nor
is unmarked: `Marked(s)` says that an unmarked once schedule has completed no run,
and a marked one has at most one and is not running; `LocalOnly`, that local mode queues nothing.
`ExecutedWasPublished` needs what a worker has already published
(`PublishedInv`): the creators it has not left.

*ProxyPool.* `Shaped` is weaker than `PoolTypeOK`: it does not bound the counters.
`SpentInv` does: no counter, in the table or in a copy somebody holds, is greater
than the scrapes that were started less those that are still under way. A report
counts one more than its copy and is then no longer under way, so what it writes
is within the bound even if the copy is old; a scrape that starts leaves the
difference as it was. `Exact` is `StreakExact` for every row, also the deleted ones: a commit whose row nobody has written since its read
counts on from the true streak. `WatchInv` adds that a check which
waits has `checking` in its copy: whatever the answer, its UPDATE names the column.

*ScrapeLoop.* `SavedInv`: a scrape that is only to be reported is committed.
`CountedInv`: every creator is still to come, under way or counted.

*VideoFetch.* `PagesBounded` is not inductive alone. `CursorFalls` says that the
cursor and the pages read add up to at most `MaxPosts + 1`: a page that is followed by
another lowers the cursor. `ListComplete` needs `ListSoFar`: while the list is being
read, the posts of the window that are not in it yet lie before the cursor.
`BestKept` follows from `BestSoFar`, the same at every stage, which also says
which sources have given nothing yet: the profile page and the list API are the
first to give anything, yt-dlp replaces what is found only by as many or more, and the
browser merges.

*RuntimeSettings.* `TouchedAlone(s, k)`: of a key that save s has touched and nobody
else since, its process's cache holds the value of s and s has read the row as it
is; so both a commit and a failed one leave what the history `doubt` says. The second
part of `SettingsInv` is `CacheIsTable` for one key of one process: it holds whenever none
of the process's own saves has touched that key, whatever the others do.

*SnapshotPurge.* `IdsGiven`: ids are not given again, so that nothing comes to
belong to a purge after its start. `BatchIsEnough`: a batch that is not full was all
that was due when it was selected, and still is when it is deleted, since
deletions by others only take away.

*ProxyGateway.* `ServedOrWritten`: what the sing-box of a host serves is the host's
file, or nothing, or some process of the host has written the file and has yet to kill
what runs. Every start comes after a kill and reads the file as it then is.

*Catalogue.* For `PurgedIsGone`, `Placed`: a flushed row is filed under the place of
its request, which still knows it (`FiledFor`), and no request has business with a
group whose retention has ended (`NoBusiness`). The other two are counts.
`DuplicatesInv` says of *every* set of accounts that are all the same that it has no
more rows than there are requests, and one at most of those each request has
flushed; the insertion that checks for duplicates finds none in what it can see, so
each row it does not see is another request's. `CapacityInv` adds to the rows of a
place the requests that have found room and have not flushed (`RoomFor`): whoever
counts finds less than `cap[p]` rows it can see, and those that it does not see are
flushed by the others, at most `Limit(p)` each (`FewFlushed`). Both are about `most[p]`,
which is never less than `cap[p]` and never falls (`MostGrows`), so that the bound only
grows (`BoundGrows`) and an edit of the limit disturbs neither. The rows of several
requests are counted by an injection into pairs of a request and a number up to
`Limit(p)` (`FlushedBounded`). That a row keeps the id it was added with, or still has
none when it was added without, is `KeepsUid`: only with it does the test, which compares the ids
rows have *now*, say something of the ids they were added with.

*DramaStats.* `InTouch(t)` is what makes a recount right: a drama that nobody else
has touched since t began is counted as it is, was read as it is and will be written; a
rebuild holds exactly the dramas that have a number. What others have touched
(`dirt[t]`) goes to the history `drift`. `FlushedApart`: no two transactions have
flushed the row of one video. What `ToRecount` returns is a lemma about sequences.

*HotSegments.* `SetsWhole`: each set in the table is whole and covers the day, and
so does each layout that is being written, because it was validated or is the
default, which covers the day for any `Dawn` and `Dusk` (`DefaultCovers`). A save
replaces sets, never part of one. `SetsOwned` gives each set an owner among the
requests: no two sets have the same, and a request that writes has read, and will delete, the
set it owned before.

*Services.* A step of `MC_Services` is a step of one component and a stutter of
the others (`StepsApart`), so it implements the specification of each
(`ServicesImplementParts`) and has their invariants.

*ClusterMonitor.* `Fresh(p)` bounds the age of a key by the heartbeats missed and
by what has passed of the present round; with the module's assumption it is less
than `Ttl` by the skew. `CountedThen` follows the number of workers from the
count, which may last `Lag`, to the key, which may last `Ttl`.

### What stays with TLC

`CoordinatorPassEnds`, `RunsResolve` and `PastDueSettles` are liveness under
fairness: that needs ENABLED and the rules of `WF` and `SF`, which the prover does not
handle. The three violations are counterexamples, which TLC finds. That the
translated functions compute what the code computes is no theorem: it rests on the
comparison of the lines.

A proof attempt corrected one property. `DuplicatesBounded` used to bound the
accounts that are *the same by name or by id* as a given one. That is false for
more accounts than TLC was given: the test compares names and ids separately, and
two rows that are both the same as a third need not be the same as each other, so
one request may leave one of each. The property now bounds the rows of one name,
and the rows of one id, which is what `ensure_creator_not_duplicate` looks for.

## 5. Not modelled, and next

### Abstracted on purpose

Snapshots, velocities, grades and the texts of a video; in the pipeline, the
fetch (its outcome is an input, `VideoFetch` has it) and the proxies; the older
`now` a slow scrape writes into a creator's column; deletion of the creator under
a verdict; the time zone of `hot_date`; two tasks inserting the same video (one
raises, and is an `Abort`). In `ClusterMonitor`, the workers of other nodes and the
peer check. In `VideoFetch`, HTTP, parsing, the login of the browser. In `Catalogue`,
favourites of groups and notes.

### Not modelled

* *Redis locks in hybrid mode*: no hybrid path takes them.
* *Users, roles and the access gate*: each request checks one row and writes one
  row; there is no step of several transactions to get wrong.
* *Deploy from the web*: a check-then-write of a status file and a detached
  script. The race is listed as a hazard; its effect is the deployment itself, so
  there is no state of the program to relate it to.
* *PostgreSQL backup, covers, frames, object storage*: subprocesses and files.
* *Drama metadata providers* (`doubao.py`, `bangumi.py`, TMDB): lookups with a fallback, no
  state; what they answer is an input of `DramaStats`.
* *Viral prediction*: a score over floats that nothing reads back.
* *Collection status*: a summary of stamps `HotPipeline` has.
* *Application start, database, frontend, deployment scripts*: wiring, queries
  and pages; the session's semantics is used by every module.
* *A daily run skipped by a reload* whose minute falls between the removal of the
  job and its registration: the code promises no run per day and keeps no record
  of one, so nothing can be stated.
* *`asyncio.gather` over one session* in the batch import: SQLAlchemy defines no
  outcome; `Catalogue` lets any account of a batch fail.
* *What a database driver does with a `run_at` that carries a time zone*, as the
  pages send it: rows are naive UTC in `Schedules`.

### Next

1. A composition of `HotPipeline` with `VideoClassification` that shows that the
   stamp of a group stands for verdicts by the settings of that time.
2. What `HotPipeline` promises, as an abstract specification like
   `HotUpdateContract` for local mode (a run is resolved once, its stamp follows a
   cover of the group), and the refinement proved.
3. Action properties that the proved invariants imply and no run checks yet: a
   scrape that is saved stays saved, a set of segments is replaced as a whole.
