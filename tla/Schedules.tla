------------------------------ MODULE Schedules ------------------------------
(***************************************************************************)
(* Collection schedules: rows an admin creates, changes and deletes, and   *)
(* the APScheduler jobs made from them.  In local mode the API process     *)
(* holds the scheduler and a job runs the collection itself; in the hybrid *)
(* deployment Beat holds it, hears of changes only when it reloads the     *)
(* table, and publishes Celery tasks that workers take.                    *)
(*                                                                         *)
(* The clock counts minutes; run_at is UTC, but a naive date given to a    *)
(* DateTrigger is read in the time zone of the scheduler's host.           *)
(***************************************************************************)
EXTENDS Integers, FiniteSets

CONSTANTS
    Schedules,      \* identities of schedule rows (never reused)
    Creators,       \* active creators the schedules collect
    Workers,        \* Celery worker slots
    Offset,         \* local time of the scheduler's host minus UTC
    MaxNow,         \* bound on the clock, and on run_time and run_at
    MaxQueue,       \* bound on the tasks of one schedule in the queue
    MaxFaults       \* bound on misfires, failed runs, restarts and lost workers

ASSUME SchedulesAssumption ==
    /\ Offset \in Int
    /\ MaxNow \in Nat
    /\ MaxQueue \in Nat \ {0}
    /\ MaxFaults \in Nat

VARIABLES
    hybrid,     \* LOCAL_MODE=false
    now,        \* the clock
    kind,       \* kind[s] = its task_type and schedule_type
    row,        \* row[s] = the CollectionSchedule row
    job,        \* job[s] = when (in UTC) its scheduler job is due, or NoJob
    sync,       \* sync[p] = how far p's sync_collection_schedules has got
    running,    \* local mode: schedules whose job runs
    runs,       \* runs[s] = completed runs, counted up to 2
    queue,      \* queue[s] = its tasks in the broker
    worker,     \* worker[w] = the task w runs and the creators it has left
    published,  \* published[s] = creators a scrape was published for
    faults

vars == <<hybrid, now, kind, row, job, sync, running, runs, queue, worker,
          published, faults>>
workVars == <<running, runs, queue, worker, published, faults>>

Times == 0 .. MaxNow
Kinds == [task : {"daily", "hot_ingest"}, type : {"daily", "once"}]
Rows == [life : {"unused", "live", "deleted"}, at : Times, enabled : BOOLEAN, executed : BOOLEAN]
NoJob == [when |-> "none", at |-> 0]
Jobs == [when : {"none", "cron", "date"}, at : Int]
\* The scheduler's own resync job and the handler of an admin's request.
Syncers == {"resync", "request"}
Idle == [schedule |-> "none", left |-> {}]

TypeOK ==
    /\ hybrid \in BOOLEAN
    /\ now \in Times
    /\ kind \in [Schedules -> Kinds]
    /\ row \in [Schedules -> Rows]
    /\ job \in [Schedules -> Jobs]
    /\ sync \in [Syncers ->
                   [stage : {"idle", "committed", "cleared"}, found : {{}}]
                   \cup [stage : {"read"}, found : SUBSET (Schedules \X Times)]]
    /\ running \in SUBSET Schedules
    /\ runs \in [Schedules -> 0 .. 2]
    /\ queue \in [Schedules -> 0 .. MaxQueue]
    /\ worker \in [Workers -> {Idle} \cup
                     [schedule : Schedules, left : SUBSET Creators]]
    /\ published \in [Schedules -> SUBSET Creators]
    /\ faults \in 0 .. MaxFaults

NoRow == [life |-> "unused", at |-> 0, enabled |-> FALSE, executed |-> FALSE]
At(stage) == [stage |-> stage, found |-> {}]

Init ==
    /\ hybrid \in BOOLEAN
    /\ now = 0
    /\ kind \in [Schedules -> Kinds]
    /\ row = [s \in Schedules |-> NoRow]
    /\ job = [s \in Schedules |-> NoJob]
    /\ sync = [p \in Syncers |-> At("idle")]
    /\ running = {}
    /\ runs = [s \in Schedules |-> 0]
    /\ queue = [s \in Schedules |-> 0]
    /\ worker = [w \in Workers |-> Idle]
    /\ published = [s \in Schedules |-> {}]
    /\ faults = 0

-----------------------------------------------------------------------------
(* The admin's requests.  In local mode a handler reloads the scheduler    *)
(* after its commit; the API of the hybrid deployment has none.            *)

Once(s) == kind[s].type = "once"
Live(s) == row[s].life = "live"

ThenSync ==
    IF hybrid THEN UNCHANGED sync
    ELSE /\ sync["request"].stage = "idle"
         /\ sync' = [sync EXCEPT !["request"] = At("committed")]

CreateSchedule(s, at, on) ==
    /\ row[s].life = "unused"
    /\ row' = [row EXCEPT ![s] = [life |-> "live", at |-> at,
                                  enabled |-> on, executed |-> FALSE]]
    /\ ThenSync
    /\ UNCHANGED <<hybrid, now, kind, job, workVars>>

\* From the group's page; the system's page refuses an executed once schedule,
\* the group's page changes it.
UpdateSchedule(s, at, on) ==
    /\ Live(s)
    /\ row' = [row EXCEPT ![s].at = at, ![s].enabled = on]
    /\ ThenSync
    /\ UNCHANGED <<hybrid, now, kind, job, workVars>>

DeleteSchedule(s) ==
    /\ Live(s)
    /\ row' = [row EXCEPT ![s].life = "deleted"]
    /\ ThenSync
    /\ UNCHANGED <<hybrid, now, kind, job, workVars>>

-----------------------------------------------------------------------------
(* sync_collection_schedules: remove the jobs, read the table, register.   *)
(* Each `await` lets other coroutines of the event loop in.                *)

Registrable(s) ==
    /\ Live(s) /\ row[s].enabled
    /\ ~(Once(s) /\ row[s].executed)

SyncClear(p) ==
    /\ sync[p].stage = IF p = "resync" THEN "idle" ELSE "committed"
    /\ job' = [s \in Schedules |-> NoJob]
    /\ sync' = [sync EXCEPT ![p] = At("cleared")]
    /\ UNCHANGED <<hybrid, now, kind, row, workVars>>

SyncRead(p) ==
    /\ sync[p].stage = "cleared"
    /\ sync' = [sync EXCEPT ![p] =
                  [stage |-> "read",
                   found |-> {<<s, row[s].at>> : s \in {z \in Schedules : Registrable(z)}}]]
    /\ UNCHANGED <<hybrid, now, kind, row, job, workVars>>

\* Mutant: a date that has passed gives no job.
JobForFuture(s, at) ==
    IF at <= now THEN NoJob
    ELSE [when |-> IF Once(s) THEN "date" ELSE "cron", at |-> at]

\* The day is longer than the clock's bound: a run_time that has passed today
\* gives a job beyond it.
JobFor(s, at) ==
    IF ~Once(s) THEN IF at > now THEN [when |-> "cron", at |-> at]
                                 ELSE [when |-> "cron", at |-> MaxNow + 1]
    ELSE [when |-> "date", at |-> (IF at <= now THEN now ELSE at) - Offset]

SyncRegister(p) ==
    /\ sync[p].stage = "read"
    /\ job' = [s \in Schedules |->
                 IF \E at \in Times : <<s, at>> \in sync[p].found
                 THEN JobFor(s, CHOOSE at \in Times : <<s, at>> \in sync[p].found)
                 ELSE job[s]]
    /\ sync' = [sync EXCEPT ![p] = At("idle")]
    /\ UNCHANGED <<hybrid, now, kind, row, workVars>>

-----------------------------------------------------------------------------
(* The scheduler.                                                          *)

DueJob(s) == job[s] # NoJob /\ job[s].at <= now
\* misfire_grace_time is a second: what is later than that is not run.
Late(s) == job[s].at < now

\* A date job is gone once it was due, a cron job is due again tomorrow.
Exhaust(s) ==
    job' = [job EXCEPT ![s] = IF Once(s) THEN NoJob ELSE [@ EXCEPT !.at = MaxNow + 1]]

Tick ==
    /\ now < MaxNow
    /\ \A s \in Schedules : ~DueJob(s)
    /\ now' = now + 1
    /\ UNCHANGED <<hybrid, kind, row, job, sync, workVars>>

\* The event loop was busy when the job was due, or its date lies in the past.
Misfire(s) ==
    /\ DueJob(s)
    /\ Exhaust(s)
    /\ \/ Late(s) /\ UNCHANGED faults
       \/ ~Late(s) /\ faults < MaxFaults /\ faults' = faults + 1
    /\ UNCHANGED <<hybrid, now, kind, row, sync, running, runs, queue, worker,
                   published>>

\* What the job reads when it starts.
Runnable(s) ==
    /\ Live(s) /\ row[s].enabled
    /\ ~(Once(s) /\ row[s].executed)

\* Mutant: the job does not look at `executed`.
FireLocalAgain(s) ==
    /\ ~hybrid
    /\ DueJob(s) /\ ~Late(s)
    /\ Exhaust(s)
    /\ running' = IF Live(s) THEN running \cup {s} ELSE running
    /\ UNCHANGED <<hybrid, now, kind, row, sync, runs, queue, worker, published, faults>>

\* One instance per job id: a job due while it runs is skipped.
FireLocal(s) ==
    /\ ~hybrid
    /\ DueJob(s) /\ ~Late(s)
    /\ Exhaust(s)
    /\ running' = IF Runnable(s) THEN running \cup {s} ELSE running
    /\ UNCHANGED <<hybrid, now, kind, row, sync, runs, queue, worker, published, faults>>

\* The job of a daily collection publishes without a look at the row, that of
\* an ingest reads it first.
FireHybrid(s) ==
    /\ hybrid
    /\ DueJob(s) /\ ~Late(s)
    /\ Exhaust(s)
    /\ IF kind[s].task = "hot_ingest" /\ ~Runnable(s) THEN UNCHANGED queue
       ELSE /\ queue[s] < MaxQueue
            /\ queue' = [queue EXCEPT ![s] = @ + 1]
    /\ UNCHANGED <<hybrid, now, kind, row, sync, running, runs, worker, published, faults>>

\* The process that holds the scheduler starts anew: its jobs, reloads and, in
\* local mode, collections were in memory only; bootstrap_scheduler reloads.
Restart ==
    /\ faults < MaxFaults /\ faults' = faults + 1
    /\ job' = [s \in Schedules |-> NoJob]
    /\ sync' = [p \in Syncers |-> At("idle")]
    /\ running' = {}
    /\ UNCHANGED <<hybrid, now, kind, row, runs, queue, worker, published>>

-----------------------------------------------------------------------------
(* The collection, local mode: it marks the row it loaded when it started. *)

Mark(s) ==
    IF Once(s) THEN [row EXCEPT ![s].executed = TRUE, ![s].enabled = FALSE]
    ELSE row

CountRun(s) == runs' = [runs EXCEPT ![s] = IF @ = 2 THEN 2 ELSE @ + 1]

LocalDone(s) ==
    /\ s \in running
    /\ Live(s)
    /\ running' = running \ {s}
    /\ row' = Mark(s)
    /\ CountRun(s)
    /\ UNCHANGED <<hybrid, now, kind, job, sync, queue, worker, published, faults>>

\* The collection raises, or the row was deleted under it and its UPDATE
\* matches nothing: rolled back and left to the next resync.
LocalRaises(s) ==
    /\ s \in running
    /\ running' = running \ {s}
    /\ IF Live(s) THEN faults < MaxFaults /\ faults' = faults + 1
       ELSE UNCHANGED faults
    /\ UNCHANGED <<hybrid, now, kind, row, job, sync, runs, queue, worker, published>>

-----------------------------------------------------------------------------
(* daily_schedule_task and hot_ingest_group_task on a worker.              *)

\* A task reads the row: whether it is there and enabled.
TakeTask(w, s) ==
    /\ worker[w] = Idle /\ queue[s] > 0
    /\ queue' = [queue EXCEPT ![s] = @ - 1]
    /\ worker' = IF Live(s) /\ row[s].enabled
                 THEN [worker EXCEPT ![w] = [schedule |-> s, left |-> Creators]]
                 ELSE worker
    /\ UNCHANGED <<hybrid, now, kind, row, job, sync, running, runs, published, faults>>

PublishScrape(w) ==
    /\ worker[w] # Idle
    /\ \E c \in worker[w].left :
         /\ worker' = [worker EXCEPT ![w].left = @ \ {c}]
         /\ published' = [published EXCEPT ![worker[w].schedule] = @ \cup {c}]
    /\ UNCHANGED <<hybrid, now, kind, row, job, sync, running, runs, queue, faults>>

\* Mutant: the schedule is marked before the scrapes are published.
MarkEarly(w) ==
    /\ worker[w] # Idle
    /\ LET s == worker[w].schedule IN Live(s) /\ row' = Mark(s)
    /\ worker' = [worker EXCEPT ![w] = IF worker[w].left = {} THEN Idle ELSE @]
    /\ UNCHANGED <<hybrid, now, kind, job, sync, running, runs, queue, published, faults>>

\* Nothing to mark when the row was deleted meanwhile.
MarkRun(w) ==
    /\ worker[w] # Idle /\ worker[w].left = {}
    /\ LET s == worker[w].schedule IN
         /\ row' = IF Live(s) THEN Mark(s) ELSE row
         /\ CountRun(s)
    /\ worker' = [worker EXCEPT ![w] = Idle]
    /\ UNCHANGED <<hybrid, now, kind, job, sync, running, queue, published, faults>>

\* An exception ends the task without a retry.
TaskRaises(w) ==
    /\ worker[w] # Idle
    /\ faults < MaxFaults /\ faults' = faults + 1
    /\ worker' = [worker EXCEPT ![w] = Idle]
    /\ UNCHANGED <<hybrid, now, kind, row, job, sync, running, runs, queue, published>>

\* Mutant: the broker and the worker both requeue the task.
WorkerLostTwice(w) ==
    /\ worker[w] # Idle
    /\ faults < MaxFaults /\ faults' = faults + 1
    /\ queue[worker[w].schedule] < MaxQueue
    /\ queue' = [queue EXCEPT ![worker[w].schedule] = @ + 2]
    /\ worker' = [worker EXCEPT ![w] = Idle]
    /\ UNCHANGED <<hybrid, now, kind, row, job, sync, running, runs, published>>

\* Acknowledged late: the task of a lost worker goes back to the queue.
WorkerLost(w) ==
    /\ worker[w] # Idle
    /\ faults < MaxFaults /\ faults' = faults + 1
    /\ queue[worker[w].schedule] < MaxQueue
    /\ queue' = [queue EXCEPT ![worker[w].schedule] = @ + 1]
    /\ worker' = [worker EXCEPT ![w] = Idle]
    /\ UNCHANGED <<hybrid, now, kind, row, job, sync, running, runs, published>>

-----------------------------------------------------------------------------
Request ==
    \E s \in Schedules :
       \/ \E at \in Times, on \in BOOLEAN : \/ CreateSchedule(s, at, on)
                                            \/ UpdateSchedule(s, at, on)
       \/ DeleteSchedule(s)

Syncing(p) == SyncClear(p) \/ SyncRead(p) \/ SyncRegister(p)
Fire(s) == FireLocal(s) \/ FireHybrid(s)
Task(w) == (\E s \in Schedules : TakeTask(w, s)) \/ PublishScrape(w) \/ MarkRun(w)

Next ==
    \/ Tick
    \/ Request
    \/ Restart
    \/ \E p \in Syncers : Syncing(p)
    \/ \E s \in Schedules : Fire(s) \/ Misfire(s) \/ LocalDone(s) \/ LocalRaises(s)
    \/ \E w \in Workers : Task(w) \/ TaskRaises(w) \/ WorkerLost(w)

Spec == Init /\ [][Next]_vars

\* The resync job recurs and its coroutine ends, workers consume the queue,
\* a started collection ends.  A reload takes away a due job at most every
\* second minute, and a past-due one is due three seconds after it: firing is
\* strongly fair.
FairSpec ==
    /\ Spec
    /\ \A p \in Syncers : WF_vars(Syncing(p))
    /\ \A s \in Schedules : SF_vars(Fire(s)) /\ WF_vars(LocalDone(s) \/ LocalRaises(s))
    /\ \A w \in Workers : WF_vars(Task(w))

-----------------------------------------------------------------------------
\* In local mode a once schedule completes once, however often it is
\* registered again while it runs, changed or switched on again.
OnceRunsOnce == \A s \in Schedules : ~hybrid /\ Once(s) => runs[s] <= 1

\* In the hybrid deployment a once schedule is marked executed only when a
\* scrape of every creator was published for it, whatever is lost.
ExecutedWasPublished ==
    \A s \in Schedules : hybrid /\ row[s].executed => published[s] = Creators

\* A once schedule that is enabled and past its time does not stay so: failed
\* runs, lost tasks and misfires are made up for by the next reload, on a host
\* whose time zone is UTC (with any other Offset its job is never due in time).
PastDue(s) ==
    Once(s) /\ Live(s) /\ row[s].enabled /\ ~row[s].executed /\ row[s].at <= now
PastDueSettles == \A s \in Schedules : PastDue(s) ~> ~PastDue(s)
=============================================================================
