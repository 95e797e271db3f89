-------------------------- MODULE Schedules_proofs --------------------------
(***************************************************************************)
(* Theorems about Schedules, for any schedules, creators and workers, any  *)
(* offset of the host's time zone and any bounds: the type invariant, that *)
(* a once schedule completes once in local mode, and that its mark stands  *)
(* for published scrapes in the hybrid deployment.                         *)
(***************************************************************************)
EXTENDS Schedules, TLAPS

\* Typing: Init establishes TypeOK.
LEMMA InitType == Init => TypeOK
BY SchedulesAssumption
   DEF Init, TypeOK, Times, Rows, Jobs, NoRow, NoJob, At, Idle, Syncers

\* The job a row gives is a job, whatever the time zone.
LEMMA JobType ==
    ASSUME NEW s \in Schedules, NEW at \in Times, now \in Times
    PROVE  JobFor(s, at) \in Jobs
BY SchedulesAssumption DEF JobFor, Jobs, Times

\* A job that was due leaves a job, or none.
LEMMA ExhaustType ==
    ASSUME NEW s \in Schedules, job \in [Schedules -> Jobs], Exhaust(s)
    PROVE  job' \in [Schedules -> Jobs]
BY SchedulesAssumption DEF Exhaust, Jobs, NoJob

\* Rows keep their type when they are marked.
LEMMA MarkType ==
    ASSUME NEW s \in Schedules, row \in [Schedules -> Rows]
    PROVE  Mark(s) \in [Schedules -> Rows]
BY DEF Mark, Rows

\* What an update leaves in its row, and in the others.
LEMMA UpdatedRow ==
    ASSUME row \in [Schedules -> Rows], NEW s \in Schedules, NEW at \in Times,
           NEW on \in BOOLEAN, UpdateSchedule(s, at, on)
    PROVE  row' = [row EXCEPT ![s] = [life |-> row[s].life, at |-> at, enabled |-> on,
                                      executed |-> row[s].executed]]
<1> DEFINE moved == [row EXCEPT ![s].at = at]
<1>1. moved \in [Schedules -> Rows]
    BY DEF Rows
<1>2. moved[s] = [row[s] EXCEPT !.at = at]
    OBVIOUS
<1>3. row' = [moved EXCEPT ![s].enabled = on]
    BY DEF UpdateSchedule
<1> HIDE DEF moved
<1>4. row' \in [Schedules -> Rows]
    BY <1>1, <1>3 DEF Rows
<1>5. row'[s] = [moved[s] EXCEPT !.enabled = on]
    BY <1>1, <1>3
<1>6. row'[s] = [life |-> row[s].life, at |-> at, enabled |-> on, executed |-> row[s].executed]
    <2>1. row[s] \in Rows
        OBVIOUS
    <2>2. moved[s] = [life |-> row[s].life, at |-> at, enabled |-> row[s].enabled,
                      executed |-> row[s].executed]
        BY <1>2, <2>1 DEF Rows
    <2> QED
        BY <1>5, <2>2
<1>7. \A x \in Schedules : x # s => row'[x] = row[x]
    BY <1>1, <1>3 DEF moved
<1> QED
    BY <1>4, <1>6, <1>7

\* It leaves the life of every row, and its mark.
LEMMA UpdateKeeps ==
    ASSUME row \in [Schedules -> Rows], NEW s \in Schedules, NEW at \in Times,
           NEW on \in BOOLEAN, UpdateSchedule(s, at, on), NEW x \in Schedules
    PROVE  row'[x].life = row[x].life /\ row'[x].executed = row[x].executed
BY UpdatedRow

\* Typing: requests preserve TypeOK.
LEMMA RequestType == TypeOK /\ Request => TypeOK'
<1> SUFFICES ASSUME TypeOK, Request PROVE TypeOK'
    OBVIOUS
<1>1. row' \in [Schedules -> Rows]
    <2>1. ASSUME NEW s \in Schedules, NEW at \in Times, NEW on \in BOOLEAN,
                 CreateSchedule(s, at, on)
          PROVE  row' \in [Schedules -> Rows]
        BY <2>1 DEF TypeOK, CreateSchedule, Rows
    <2>2. ASSUME NEW s \in Schedules, NEW at \in Times, NEW on \in BOOLEAN,
                 UpdateSchedule(s, at, on)
          PROVE  row' \in [Schedules -> Rows]
        BY <2>2, UpdatedRow DEF TypeOK, Rows
    <2>3. ASSUME NEW s \in Schedules, DeleteSchedule(s) PROVE row' \in [Schedules -> Rows]
        BY <2>3 DEF TypeOK, DeleteSchedule, Rows
    <2> QED
        BY <2>1, <2>2, <2>3 DEF Request
<1>2. /\ ThenSync
      /\ UNCHANGED <<hybrid, now, kind, job, workVars>>
    BY DEF Request, CreateSchedule, UpdateSchedule, DeleteSchedule
<1>3. sync' \in [Syncers ->
                   [stage : {"idle", "committed", "cleared"}, found : {{}}]
                   \cup [stage : {"read"}, found : SUBSET (Schedules \X Times)]]
    BY <1>2 DEF TypeOK, ThenSync, At, Syncers
<1> QED
    BY <1>1, <1>2, <1>3 DEF TypeOK, workVars

\* Typing: a reload preserves TypeOK.
LEMMA SyncType == ASSUME NEW p \in Syncers, TypeOK, Syncing(p) PROVE TypeOK'
<1>1. CASE SyncClear(p)
    BY <1>1, SchedulesAssumption DEF TypeOK, SyncClear, workVars, At, NoJob, Jobs
<1>2. CASE SyncRead(p)
    <2>1. {<<s, row[s].at>> : s \in {z \in Schedules : Registrable(z)}}
              \in SUBSET (Schedules \X Times)
        BY DEF TypeOK, Rows
    <2> QED
        BY <1>2, <2>1 DEF TypeOK, SyncRead, workVars
<1>3. CASE SyncRegister(p)
    <2>1. job' \in [Schedules -> Jobs]
        <3>1. ASSUME NEW s \in Schedules, \E at \in Times : <<s, at>> \in sync[p].found
              PROVE  JobFor(s, CHOOSE at \in Times : <<s, at>> \in sync[p].found) \in Jobs
            BY <3>1, JobType DEF TypeOK
        <3> QED
            BY <1>3, <3>1 DEF SyncRegister, TypeOK
    <2> QED
        BY <1>3, <2>1 DEF TypeOK, SyncRegister, workVars, At
<1> QED
    BY <1>1, <1>2, <1>3 DEF Syncing

\* Typing: the scheduler's steps and the collections of local mode preserve TypeOK.
LEMMA FireType ==
    ASSUME NEW s \in Schedules, TypeOK,
           Fire(s) \/ Misfire(s) \/ LocalDone(s) \/ LocalRaises(s)
    PROVE  TypeOK'
<1>1. CASE FireLocal(s)
    BY <1>1, ExhaustType DEF TypeOK, FireLocal
<1>2. CASE FireHybrid(s)
    BY <1>2, ExhaustType, SchedulesAssumption DEF TypeOK, FireHybrid
<1>3. CASE Misfire(s)
    BY <1>3, ExhaustType, SchedulesAssumption DEF TypeOK, Misfire
<1>4. CASE LocalDone(s)
    BY <1>4, MarkType DEF TypeOK, LocalDone, CountRun
<1>5. CASE LocalRaises(s)
    BY <1>5, SchedulesAssumption DEF TypeOK, LocalRaises
<1> QED
    BY <1>1, <1>2, <1>3, <1>4, <1>5 DEF Fire

\* Typing: tasks on workers preserve TypeOK.
LEMMA TaskType ==
    ASSUME NEW w \in Workers, TypeOK, Task(w) \/ TaskRaises(w) \/ WorkerLost(w)
    PROVE  TypeOK'
<1> USE SchedulesAssumption DEF TypeOK
<1>1. ASSUME NEW s \in Schedules, TakeTask(w, s) PROVE TypeOK'
    BY <1>1 DEF TakeTask
<1>2. CASE PublishScrape(w)
    <2>1. PICK c \in worker[w].left :
              /\ worker' = [worker EXCEPT ![w].left = @ \ {c}]
              /\ published' = [published EXCEPT ![worker[w].schedule] = @ \cup {c}]
        BY <1>2 DEF PublishScrape
    <2>2. /\ worker[w] \in [schedule : Schedules, left : SUBSET Creators]
          /\ c \in Creators
        BY <1>2, <2>1 DEF PublishScrape, Idle
    <2>3. worker' \in [Workers -> {Idle} \cup [schedule : Schedules, left : SUBSET Creators]]
        BY <2>1, <2>2
    <2>4. published' \in [Schedules -> SUBSET Creators]
        BY <2>1, <2>2
    <2> QED
        BY <1>2, <2>3, <2>4 DEF PublishScrape
<1>3. CASE MarkRun(w)
    <2>1. worker[w].schedule \in Schedules
        BY <1>3 DEF MarkRun
    <2>2. row' \in [Schedules -> Rows]
        BY <1>3, <2>1, MarkType DEF MarkRun
    <2> QED
        BY <1>3, <2>1, <2>2 DEF MarkRun, CountRun
<1>4. CASE TaskRaises(w)
    BY <1>4 DEF TaskRaises
<1>5. CASE WorkerLost(w)
    <2>1. worker[w].schedule \in Schedules
        BY <1>5 DEF WorkerLost
    <2>2. queue' \in [Schedules -> 0 .. MaxQueue]
        BY <1>5, <2>1 DEF WorkerLost
    <2> QED
        BY <1>5, <2>2 DEF WorkerLost
<1> QED
    BY <1>1, <1>2, <1>3, <1>4, <1>5 DEF Task

\* Typing: every step preserves TypeOK.
LEMMA NextType == TypeOK /\ [Next]_vars => TypeOK'
<1> SUFFICES ASSUME TypeOK, [Next]_vars PROVE TypeOK'
    OBVIOUS
<1>1. CASE Tick
    BY <1>1, SchedulesAssumption DEF TypeOK, Tick, Times, workVars
<1>2. CASE Request
    BY <1>2, RequestType
<1>3. CASE Restart
    BY <1>3, SchedulesAssumption DEF TypeOK, Restart, At, NoJob, Jobs
<1>4. CASE UNCHANGED vars
    BY <1>4 DEF TypeOK, vars
<1> QED
    BY <1>1, <1>2, <1>3, <1>4, SyncType, FireType, TaskType DEF Next

\* The variables of Schedules keep their types (collection_schedules, the jobs
\* of the scheduler, the Celery queue).
THEOREM TypeCorrect == Spec => []TypeOK
<1> QED
    BY InitType, NextType, PTL DEF Spec

-----------------------------------------------------------------------------
(* Local mode: a once schedule that was marked is not run again.           *)

\* In local mode nothing reaches the workers.
LocalOnly ==
    ~hybrid => /\ \A s \in Schedules : queue[s] = 0
               /\ \A w \in Workers : worker[w] = Idle

\* A once schedule has completed exactly if it is marked, and does not run then.
Marked(s) ==
    ~hybrid /\ Once(s) =>
        IF row[s].executed THEN row[s].life # "unused" /\ runs[s] <= 1 /\ s \notin running
                           ELSE runs[s] = 0

LocalInv == TypeOK /\ LocalOnly /\ \A s \in Schedules : Marked(s)

\* Nothing is queued, run or marked at first.
LEMMA LocalInit == Init => LocalInv
BY InitType DEF Init, LocalInv, LocalOnly, Marked, NoRow, Once

\* The deployment, and what a schedule is for, do not change.
LEMMA FixedStep == [Next]_vars => hybrid' = hybrid /\ kind' = kind
BY DEF Next, vars, Tick, Request, CreateSchedule, UpdateSchedule, DeleteSchedule, Restart,
       Syncing, SyncClear, SyncRead, SyncRegister, Fire, FireLocal, FireHybrid, Misfire,
       LocalDone, LocalRaises, Task, TakeTask, PublishScrape, MarkRun, TaskRaises, WorkerLost

\* In local mode no step queues a task.
LEMMA LocalOnlyStep ==
    ASSUME LocalInv, [Next]_vars
    PROVE  /\ LocalOnly'
           /\ ~hybrid => \A w \in Workers : ~MarkRun(w)
<1> SUFFICES ASSUME ~hybrid
             PROVE  queue' = queue /\ worker' = worker /\ \A w \in Workers : ~MarkRun(w)
    BY FixedStep DEF LocalInv, LocalOnly
<1>1. /\ \A s \in Schedules : ~(queue[s] > 0)
      /\ \A w \in Workers : worker[w] = Idle
    BY DEF LocalInv, LocalOnly
<1>2. ASSUME NEW w \in Workers
      PROVE  /\ ~MarkRun(w) /\ ~PublishScrape(w) /\ ~TaskRaises(w) /\ ~WorkerLost(w)
             /\ \A s \in Schedules : ~TakeTask(w, s)
    BY <1>1 DEF MarkRun, PublishScrape, TaskRaises, WorkerLost, TakeTask
<1>3. queue' = queue /\ worker' = worker
    BY <1>2 DEF Next, vars, workVars, Tick, Request, CreateSchedule, UpdateSchedule,
           DeleteSchedule, Restart, Syncing, SyncClear, SyncRead, SyncRegister, Fire,
           FireLocal, FireHybrid, Misfire, LocalDone, LocalRaises, Task
<1> QED
    BY <1>2, <1>3

\* A collection that ends marks its row, one that starts has found it unmarked.
LEMMA MarkedStep ==
    ASSUME LocalInv, [Next]_vars, NEW s \in Schedules
    PROVE  Marked(s)'
<1> SUFFICES ASSUME ~hybrid, Once(s) PROVE Marked(s)'
    BY FixedStep DEF Marked, Once
<1> USE DEF LocalInv, TypeOK, Marked, Rows
<1>0. hybrid' = hybrid /\ kind' = kind
    BY FixedStep
<1>1. CASE UNCHANGED <<row, running, runs>>
    BY <1>0, <1>1
<1>2. ASSUME NEW x \in Schedules, NEW at \in Times, NEW on \in BOOLEAN,
             CreateSchedule(x, at, on) \/ UpdateSchedule(x, at, on)
      PROVE  Marked(s)'
    <2>1. CASE CreateSchedule(x, at, on)
        BY <1>0, <2>1 DEF CreateSchedule, workVars
    <2>2. CASE UpdateSchedule(x, at, on)
        <3>1. row'[s].life = row[s].life /\ row'[s].executed = row[s].executed
            BY <2>2, UpdateKeeps
        <3>2. UNCHANGED <<running, runs>>
            BY <2>2 DEF UpdateSchedule, workVars
        <3> QED
            BY <1>0, <3>1, <3>2
    <2> QED
        BY <1>2, <2>1, <2>2
<1>3. ASSUME NEW x \in Schedules, DeleteSchedule(x) PROVE Marked(s)'
    BY <1>0, <1>3 DEF DeleteSchedule, workVars
<1>4. CASE Restart
    BY <1>0, <1>4 DEF Restart
<1>5. ASSUME NEW x \in Schedules, FireLocal(x) PROVE Marked(s)'
    BY <1>0, <1>5 DEF FireLocal, Runnable
<1>6. ASSUME NEW x \in Schedules, LocalDone(x) PROVE Marked(s)'
    BY <1>0, <1>6 DEF LocalDone, Mark, CountRun, Live, Once
<1>7. ASSUME NEW x \in Schedules, LocalRaises(x) PROVE Marked(s)'
    BY <1>0, <1>7 DEF LocalRaises
<1>8. \/ UNCHANGED <<row, running, runs>>
      \/ Request \/ Restart
      \/ \E x \in Schedules : FireLocal(x) \/ LocalDone(x) \/ LocalRaises(x)
    BY LocalOnlyStep
       DEF Next, vars, workVars, Tick, Syncing, SyncClear, SyncRead, SyncRegister, Fire,
           FireHybrid, Misfire, Task, TakeTask, PublishScrape, TaskRaises, WorkerLost
<1> QED
    BY <1>1, <1>2, <1>3, <1>4, <1>5, <1>6, <1>7, <1>8 DEF Request

\* In local mode a once schedule completes once, however often it is registered
\* again while it runs, changed or switched on again (_run_creator_scrape,
\* sync_collection_schedules, update_group_schedule).
THEOREM RunsOnce == Spec => []OnceRunsOnce
<1>1. LocalInv /\ [Next]_vars => LocalInv'
    BY NextType, LocalOnlyStep, MarkedStep DEF LocalInv
<1>2. LocalInv => OnceRunsOnce
    BY DEF LocalInv, Marked, OnceRunsOnce
<1> QED
    BY LocalInit, <1>1, <1>2, PTL DEF Spec

-----------------------------------------------------------------------------
(* Hybrid deployment: a mark stands for the scrapes of every creator.      *)

\* No collection runs in the scheduler's process, a worker has published what
\* it has not left, and a mark comes after that.
PublishedInv ==
    /\ TypeOK
    /\ hybrid => /\ running = {}
                 /\ \A w \in Workers : worker[w] # Idle =>
                       Creators \ worker[w].left \subseteq published[worker[w].schedule]
    /\ ExecutedWasPublished

\* A step keeps what was published, and marks nothing before.
LEMMA PublishedStep == PublishedInv /\ [Next]_vars => PublishedInv'
<1> SUFFICES ASSUME PublishedInv, [Next]_vars, hybrid
             PROVE  /\ running' = {}
                    /\ \A w \in Workers : worker'[w] # Idle =>
                         Creators \ worker'[w].left \subseteq published'[worker'[w].schedule]
                    /\ \A s \in Schedules : row'[s].executed => published'[s] = Creators
    <2> QED
        BY FixedStep, NextType DEF PublishedInv, ExecutedWasPublished
<1> USE DEF PublishedInv, ExecutedWasPublished, TypeOK, Rows
<1>1. CASE UNCHANGED <<row, running, worker, published>>
    BY <1>1
<1>2. ASSUME NEW x \in Schedules, NEW at \in Times, NEW on \in BOOLEAN,
             CreateSchedule(x, at, on) \/ UpdateSchedule(x, at, on)
      PROVE  \A s \in Schedules : row'[s].executed => published[s] = Creators
    <2>1. CASE CreateSchedule(x, at, on)
        BY <2>1 DEF CreateSchedule
    <2>2. CASE UpdateSchedule(x, at, on)
        BY <2>2, UpdateKeeps
    <2> QED
        BY <1>2, <2>1, <2>2
<1>3. ASSUME NEW x \in Schedules, DeleteSchedule(x)
      PROVE  \A s \in Schedules : row'[s].executed => published[s] = Creators
    BY <1>3 DEF DeleteSchedule
<1>4. CASE Request
    <2>1. UNCHANGED <<running, worker, published>>
        BY <1>4 DEF Request, CreateSchedule, UpdateSchedule, DeleteSchedule, workVars
    <2> QED
        BY <1>2, <1>3, <1>4, <2>1 DEF Request
<1>5. CASE Restart
    BY <1>5 DEF Restart
<1>6. ASSUME NEW w \in Workers, NEW s \in Schedules, TakeTask(w, s)
      PROVE  \A v \in Workers : worker'[v] # Idle =>
                 Creators \ worker'[v].left \subseteq published'[worker'[v].schedule]
    BY <1>6 DEF TakeTask
<1>7. ASSUME NEW w \in Workers, PublishScrape(w)
      PROVE  /\ \A v \in Workers : worker'[v] # Idle =>
                   Creators \ worker'[v].left \subseteq published'[worker'[v].schedule]
             /\ \A s \in Schedules : row'[s].executed => published'[s] = Creators
    <2>1. PICK c \in worker[w].left :
              /\ worker' = [worker EXCEPT ![w].left = @ \ {c}]
              /\ published' = [published EXCEPT ![worker[w].schedule] = @ \cup {c}]
        BY <1>7 DEF PublishScrape
    <2>2. /\ worker[w] \in [schedule : Schedules, left : SUBSET Creators]
          /\ c \in Creators
        BY <1>7, <2>1 DEF PublishScrape, Idle
    <2>3. \A s \in Schedules : /\ published[s] \subseteq published'[s]
                              /\ published'[s] \subseteq Creators
        BY <2>1, <2>2
    <2>4. Creators \ worker'[w].left \subseteq published'[worker'[w].schedule]
        BY <1>7, <2>1, <2>2 DEF PublishScrape
    <2>5. ASSUME NEW v \in Workers, v # w, worker'[v] # Idle
          PROVE  Creators \ worker'[v].left \subseteq published'[worker'[v].schedule]
        <3>1. worker'[v] = worker[v] /\ worker[v].schedule \in Schedules
            BY <2>1, <2>5
        <3> QED
            BY <2>3, <2>5, <3>1
    <2>6. \A s \in Schedules : row'[s].executed => published'[s] = Creators
        BY <1>7, <2>3 DEF PublishScrape
    <2> QED
        BY <2>4, <2>5, <2>6
<1>8. ASSUME NEW w \in Workers, MarkRun(w)
      PROVE  /\ \A v \in Workers : worker'[v] # Idle =>
                   Creators \ worker'[v].left \subseteq published'[worker'[v].schedule]
             /\ \A s \in Schedules : row'[s].executed => published'[s] = Creators
    <2>1. /\ worker[w] \in [schedule : Schedules, left : SUBSET Creators]
          /\ worker[w].left = {}
        BY <1>8 DEF MarkRun
    <2>2. published[worker[w].schedule] = Creators
        <3>1. Creators \ {} \subseteq published[worker[w].schedule]
            BY <1>8, <2>1 DEF MarkRun
        <3>2. published[worker[w].schedule] \subseteq Creators
            BY <2>1
        <3> QED
            BY <3>1, <3>2
    <2> QED
        BY <1>8, <2>1, <2>2 DEF MarkRun, Mark
<1>9. ASSUME NEW w \in Workers, TaskRaises(w) \/ WorkerLost(w)
      PROVE  \A v \in Workers : worker'[v] # Idle =>
                 Creators \ worker'[v].left \subseteq published'[worker'[v].schedule]
    BY <1>9 DEF TaskRaises, WorkerLost
<1>10. \/ UNCHANGED <<row, running, worker, published>>
       \/ Request \/ Restart
       \/ \E w \in Workers : \/ \E s \in Schedules : TakeTask(w, s)
                            \/ PublishScrape(w) \/ MarkRun(w) \/ TaskRaises(w) \/ WorkerLost(w)
    BY DEF Next, vars, workVars, Tick, Syncing, SyncClear, SyncRead, SyncRegister, Fire,
           FireLocal, FireHybrid, Misfire, LocalDone, LocalRaises, Task
<1> QED
    BY <1>1, <1>4, <1>5, <1>6, <1>7, <1>8, <1>9, <1>10
       DEF TakeTask, PublishScrape, MarkRun, TaskRaises, WorkerLost

\* In the hybrid deployment a once schedule is marked executed only when a
\* scrape of every creator was published for it, whatever is lost
\* (daily_schedule_task, hot_ingest_group_task).
THEOREM MarkedWasPublished == Spec => []ExecutedWasPublished
<1>1. Init => PublishedInv
    BY InitType DEF Init, PublishedInv, ExecutedWasPublished, NoRow
<1>2. PublishedInv => ExecutedWasPublished
    BY DEF PublishedInv
<1> QED
    BY <1>1, <1>2, PublishedStep, PTL DEF Spec
=============================================================================
