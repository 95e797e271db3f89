---------------------------- MODULE HotPipeline ----------------------------
(***************************************************************************)
(* Lines A and B in the hybrid deployment.  The Beat process and the API   *)
(* publish Celery tasks; workers fan a group out into one scrape task per  *)
(* creator (a chord header) and the chord's callback continues: line A's   *)
(* callback is line B of the same group, line B's callback reclassifies    *)
(* the group and stamps last_hot_update_at.                                *)
(*                                                                         *)
(* Tasks are acknowledged late and requeued when their worker is lost, so  *)
(* any task may run again after it has had its effect.  A run is one       *)
(* published orchestration task with everything its chords lead to.        *)
(***************************************************************************)
EXTENDS Naturals, FiniteSets

CONSTANTS
    Groups,
    Creators,
    GroupOf,        \* GroupOf[c] = the group c is in, or is added to, at first
    Newcomers,      \* creators an admin has yet to add
    Schedules,      \* `once` ingest schedules (task_type hot_ingest)
    ScheduleGroup,  \* ScheduleGroup[s] = the group schedule s ingests
    Runs,           \* identities of published runs: bounds their number
    None,           \* no group (a free run), no schedule (a manual run)
    Interval,       \* max(interval_minutes, 5) of the current segment
    MaxRetries,     \* scrape_creator_task max_retries
    MaxNow,         \* bound on the clock
    MaxCrashes      \* bound on worker losses

ASSUME PipelineAssumption ==
    /\ GroupOf \in [Creators -> Groups]
    /\ Newcomers \subseteq Creators
    /\ ScheduleGroup \in [Schedules -> Groups]
    /\ None \notin Groups \cup Schedules
    /\ Interval \in Nat \ {0}
    /\ MaxRetries \in Nat
    /\ MaxNow \in Nat \ {0}
    /\ MaxCrashes \in Nat

VARIABLES
    \* the database
    now,        \* the clock the rows are stamped with
    live,       \* creators that exist (and are active: nothing deactivates one)
    home,       \* home[c] = MonitoredCreator.group_id
    joined,     \* joined[c] = when c came to that group, 0 before the start
    open,       \* groups that are active and not soft-deleted
    deleted,    \* groups that are soft-deleted
    stamp,      \* stamp[g] = MonitorGroup.last_hot_update_at, 0 when NULL
    ingestAt,   \* ingestAt[c] = when line A last committed a scrape of c
    updateAt,   \* updateAt[c] = when line B did
    enabled,    \* schedules with CollectionSchedule.enabled
    executed,   \* schedules with CollectionSchedule.executed
    \* broker, result backend and workers
    stage,      \* stage[r] = how far run r has got
    grp,        \* grp[r] = its group
    origin,     \* origin[r] = the schedule that asked for it, or None
    member,     \* member[r][c] = state of c's scrape task in r's chord
    tries,      \* tries[r][c] = retries that task has used
    whole,      \* whole[r]: the chord header was published completely
    begun,      \* begun[r] = when the chord header was published
    marking,    \* runs whose ingest task has yet to mark its schedule
    crashes     \* workers lost so far

dbVars == <<now, live, home, joined, open, deleted, stamp, ingestAt, updateAt,
            enabled, executed>>
memberVars == <<member, tries, whole, begun>>
vars == <<now, live, home, joined, open, deleted, stamp, ingestAt, updateAt,
          enabled, executed, stage, grp, origin, member, tries, whole, begun, marking, crashes>>

Stages == {"free", "ingest", "ingest_chord", "update", "update_chord",
           "finalize", "done", "skipped", "broken"}
Chords == {"ingest_chord", "update_chord"}
TaskStates == {"none", "queued", "ok", "failed"}
Times == 0 .. MaxNow

TypeOK ==
    /\ now \in Times
    /\ live \in SUBSET Creators
    /\ home \in [Creators -> Groups]
    /\ joined \in [Creators -> Times]
    /\ open \in SUBSET Groups
    /\ deleted \in SUBSET Groups
    /\ stamp \in [Groups -> Times]
    /\ ingestAt \in [Creators -> Times]
    /\ updateAt \in [Creators -> Times]
    /\ enabled \in SUBSET Schedules
    /\ executed \in SUBSET Schedules
    /\ stage \in [Runs -> Stages]
    /\ grp \in [Runs -> Groups \cup {None}]
    /\ origin \in [Runs -> Schedules \cup {None}]
    /\ member \in [Runs -> [Creators -> TaskStates]]
    /\ tries \in [Runs -> [Creators -> 0 .. MaxRetries]]
    /\ whole \in [Runs -> BOOLEAN]
    /\ begun \in [Runs -> Times]
    /\ marking \in SUBSET Runs
    /\ crashes \in 0 .. MaxCrashes

Init ==
    /\ now = 1
    /\ live = Creators \ Newcomers
    /\ home = GroupOf
    /\ joined = [c \in Creators |-> 0]
    /\ open = Groups
    /\ deleted = {}
    /\ stamp = [g \in Groups |-> 0]
    /\ ingestAt = [c \in Creators |-> 0]
    /\ updateAt = [c \in Creators |-> 0]
    /\ enabled = Schedules
    /\ executed = {}
    /\ stage = [r \in Runs |-> "free"]
    /\ grp = [r \in Runs |-> None]
    /\ origin = [r \in Runs |-> None]
    /\ member = [r \in Runs |-> [c \in Creators |-> "none"]]
    /\ tries = [r \in Runs |-> [c \in Creators |-> 0]]
    /\ whole = [r \in Runs |-> FALSE]
    /\ begun = [r \in Runs |-> 0]
    /\ marking = {}
    /\ crashes = 0

-----------------------------------------------------------------------------
(* Helpers.                                                                *)

GroupCreators(g) == {c \in live : home[c] = g}
Header(r) == {c \in Creators : member[r][c] # "none"}

\* Publish an orchestration task of group g; r is the next unused identity.
Publish(r, where, g, o) ==
    /\ stage[r] = "free"
    /\ r = CHOOSE q \in Runs : stage[q] = "free"
    /\ stage' = [stage EXCEPT ![r] = where]
    /\ grp' = [grp EXCEPT ![r] = g]
    /\ origin' = [origin EXCEPT ![r] = o]

\* The chord header of run r: one scrape task per creator in S.
HeaderOf(r, S, complete) ==
    /\ member' = [member EXCEPT ![r] =
                     [c \in Creators |-> IF c \in S THEN "queued" ELSE "none"]]
    /\ tries' = [tries EXCEPT ![r] = [c \in Creators |-> 0]]
    /\ whole' = [whole EXCEPT ![r] = complete]
    /\ begun' = [begun EXCEPT ![r] = now]

\* Nothing reads the results of a chord whose callback has ended.
Forget(r) ==
    /\ member' = [member EXCEPT ![r] = [c \in Creators |-> "none"]]
    /\ tries' = [tries EXCEPT ![r] = [c \in Creators |-> 0]]
    /\ begun' = [begun EXCEPT ![r] = 0]
    /\ UNCHANGED whole

\* A worker is lost; the broker requeues what it had not acknowledged.
WorkerLost ==
    /\ crashes < MaxCrashes
    /\ crashes' = crashes + 1

-----------------------------------------------------------------------------
(* Clock, admin and Beat.                                                  *)

Tick ==
    /\ now < MaxNow
    /\ now' = now + 1
    /\ UNCHANGED <<live, home, joined, open, deleted, stamp, ingestAt, updateAt,
                   enabled, executed, stage, grp, origin, memberVars, marking, crashes>>

AddCreator(c) ==
    /\ c \in Newcomers \ live /\ joined[c] = 0
    /\ home[c] \in open
    /\ live' = live \cup {c}
    /\ joined' = [joined EXCEPT ![c] = now]
    /\ UNCHANGED <<now, home, open, deleted, stamp, ingestAt, updateAt,
                   enabled, executed, stage, grp, origin, memberVars, marking, crashes>>

\* The admin puts the creator into another category.
MoveCreator(c, g) ==
    /\ c \in live /\ g \in open /\ g # home[c]
    /\ home' = [home EXCEPT ![c] = g]
    /\ joined' = [joined EXCEPT ![c] = now]
    /\ UNCHANGED <<now, live, open, deleted, stamp, ingestAt, updateAt,
                   enabled, executed, stage, grp, origin, memberVars, marking, crashes>>

DeleteCreator(c) ==
    /\ c \in live
    /\ live' = live \ {c}
    /\ UNCHANGED <<now, home, joined, open, deleted, stamp, ingestAt, updateAt,
                   enabled, executed, stage, grp, origin, memberVars, marking, crashes>>

\* An admin deactivates the group, or activates it again.
UpdateGroup(g) ==
    /\ g \notin deleted
    /\ open' = IF g \in open THEN open \ {g} ELSE open \cup {g}
    /\ UNCHANGED <<now, live, home, joined, deleted, stamp, ingestAt, updateAt,
                   enabled, executed, stage, grp, origin, memberVars, marking, crashes>>

SoftDeleteGroup(g) ==
    /\ g \notin deleted
    /\ deleted' = deleted \cup {g}
    /\ open' = open \ {g}
    /\ enabled' = {s \in enabled : ScheduleGroup[s] # g}
    /\ UNCHANGED <<now, live, home, joined, stamp, ingestAt, updateAt, executed,
                   stage, grp, origin, memberVars, marking, crashes>>

\* An admin switches a schedule off or on again: from the group's page while
\* the group is open, from the system's page until the schedule has run.
UpdateSchedule(s) ==
    /\ ScheduleGroup[s] \in open \/ s \notin executed
    /\ enabled' = IF s \in enabled THEN enabled \ {s} ELSE enabled \cup {s}
    /\ UNCHANGED <<now, live, home, joined, open, deleted, stamp, ingestAt, updateAt,
                   executed, stage, grp, origin, memberVars, marking, crashes>>

TriggerIngest(r, g) ==
    /\ g \in open
    /\ Publish(r, "ingest", g, None)
    /\ UNCHANGED <<dbVars, memberVars, marking, crashes>>

TriggerUpdate(r, g) ==
    /\ g \in open
    /\ Publish(r, "update", g, None)
    /\ UNCHANGED <<dbVars, memberVars, marking, crashes>>

\* Beat re-registers a past-due once schedule at every resync until the row
\* says executed, so this job may fire again before the first run marks it.
ScheduleFires(r, s) ==
    /\ s \in enabled /\ s \notin executed
    /\ Publish(r, "ingest", ScheduleGroup[s], s)
    /\ UNCHANGED <<dbVars, memberVars, marking, crashes>>

\* One due group of a coordinator pass.  Only the stamp says whether line B
\* ran; nothing says that it is running.
CoordinatorDispatch(r, g) ==
    /\ g \in open
    /\ stamp[g] = 0 \/ now - stamp[g] >= Interval
    /\ Publish(r, "update", g, None)
    /\ UNCHANGED <<dbVars, memberVars, marking, crashes>>

-----------------------------------------------------------------------------
(* hot_ingest_group_task.                                                  *)

\* A schedule's run looks at the schedule first, and skips if disabled.
IngestSkipped(r) ==
    /\ stage[r] = "ingest"
    /\ origin[r] # None /\ origin[r] \notin enabled
    /\ stage' = [stage EXCEPT ![r] = "skipped"]
    /\ UNCHANGED <<dbVars, grp, origin, memberVars, marking, crashes>>

\* Publish the chord (or line B directly for an empty group); a schedule's
\* run then still has to mark the schedule, in a transaction of its own.
IngestFanOut(r) ==
    /\ stage[r] = "ingest"
    /\ origin[r] = None \/ origin[r] \in enabled
    /\ LET S == GroupCreators(grp[r]) IN
         /\ stage' = [stage EXCEPT ![r] =
                         IF S = {} THEN "update" ELSE "ingest_chord"]
         /\ HeaderOf(r, S, TRUE)
    /\ marking' = IF origin[r] = None THEN marking ELSE marking \cup {r}
    /\ UNCHANGED <<dbVars, grp, origin, crashes>>

\* Mutant: the schedule is marked before the chord is published.
MarkBeforeFanOut(r) ==
    /\ stage[r] = "ingest" /\ origin[r] \in enabled
    /\ executed' = executed \cup {origin[r]}
    /\ enabled' = enabled \ {origin[r]}
    /\ UNCHANGED <<now, live, home, joined, open, deleted, stamp, ingestAt, updateAt,
                   stage, grp, origin, memberVars, marking, crashes>>

MarkSchedule(r) ==
    /\ r \in marking
    /\ marking' = marking \ {r}
    /\ executed' = executed \cup {origin[r]}
    /\ enabled' = enabled \ {origin[r]}
    /\ UNCHANGED <<now, live, home, joined, open, deleted, stamp, ingestAt, updateAt,
                   stage, grp, origin, memberVars, crashes>>

\* The mark raises: the schedule stays enabled, and no retry is asked for.
MarkRaises(r) ==
    /\ r \in marking
    /\ marking' = marking \ {r}
    /\ UNCHANGED <<dbVars, stage, grp, origin, memberVars, crashes>>

\* Lost between the chord and the mark: the task is requeued as run q.
LostBeforeMark(r, q) ==
    /\ r \in marking
    /\ WorkerLost
    /\ marking' = marking \ {r}
    /\ Publish(q, "ingest", grp[r], origin[r])
    /\ UNCHANGED <<dbVars, memberVars>>

\* Lost while publishing: part of a header (run q) is out, run r is requeued.
\* The chord counts its full size, so a partial header never completes.
LostInFanOut(r, q) ==
    /\ stage[r] \in {"ingest", "update"}
    /\ stage[r] = "ingest" => origin[r] = None \/ origin[r] \in enabled
    /\ WorkerLost
    /\ \E S \in SUBSET GroupCreators(grp[r]) :
         /\ S # {}
         /\ HeaderOf(q, S, S = GroupCreators(grp[r]))
    /\ Publish(q, IF stage[r] = "ingest" THEN "ingest_chord" ELSE "update_chord",
               grp[r], origin[r])
    /\ UNCHANGED <<dbVars, marking>>

\* Reading the creators or publishing raises: the hybrid branches of both
\* orchestration tasks ask for no retry, so the run ends.
FanOutRaises(r) ==
    /\ stage[r] \in {"ingest", "update"}
    /\ stage' = [stage EXCEPT ![r] = "broken"]
    /\ UNCHANGED <<dbVars, grp, origin, memberVars, marking, crashes>>

-----------------------------------------------------------------------------
(* hot_update_group_task and hot_update_finalize_group_task.               *)

UpdateFanOut(r) ==
    /\ stage[r] = "update"
    /\ LET S == GroupCreators(grp[r]) IN
         /\ stage' = [stage EXCEPT ![r] =
                         IF S = {} THEN "finalize" ELSE "update_chord"]
         /\ HeaderOf(r, S, TRUE)
    /\ UNCHANGED <<dbVars, grp, origin, marking, crashes>>

\* Reclassify, reconcile, stamp, commit (the row of a soft-deleted group is
\* still there and is stamped too).  `ack`: the worker outlives the commit.
Finalize(r, ack) ==
    /\ stage[r] = "finalize"
    /\ stamp' = [stamp EXCEPT ![grp[r]] = now]
    /\ \/ /\ ack
          /\ stage' = [stage EXCEPT ![r] = "done"]
          /\ Forget(r)
          /\ UNCHANGED crashes
       \/ ~ack /\ WorkerLost /\ UNCHANGED <<stage, memberVars>>
    /\ UNCHANGED <<now, live, home, joined, open, deleted, ingestAt, updateAt, enabled, executed,
                   grp, origin, marking>>

\* It has no retry: an exception (a database deadlock, say) ends the run.
FinalizeRaises(r) ==
    /\ stage[r] = "finalize"
    /\ stage' = [stage EXCEPT ![r] = "broken"]
    /\ Forget(r)
    /\ UNCHANGED <<dbVars, grp, origin, marking, crashes>>

-----------------------------------------------------------------------------
(* scrape_creator_task of creator c in the chord of run r.  What the task  *)
(* reads it reads again at each attempt, and it commits the scrape once,   *)
(* so an attempt is one step; a worker lost before the commit leaves no    *)
(* trace of it.                                                            *)

Queued(r, c) == stage[r] \in Chords /\ member[r][c] = "queued"

\* A creator that is gone is skipped: the task returns normally.
ScrapeSkips(r, c) ==
    /\ Queued(r, c)
    /\ c \notin live
    /\ member' = [member EXCEPT ![r][c] = "ok"]
    /\ UNCHANGED <<dbVars, stage, grp, origin, tries, whole, begun, marking,
                   crashes>>

\* The commit of the scrape, by the line that asked for it.
Scraped(r, c) ==
    /\ c \in live
    /\ IF stage[r] = "ingest_chord"
       THEN ingestAt' = [ingestAt EXCEPT ![c] = now] /\ UNCHANGED updateAt
       ELSE updateAt' = [updateAt EXCEPT ![c] = now] /\ UNCHANGED ingestAt

ScrapeCommits(r, c, ack) ==
    /\ Queued(r, c)
    /\ Scraped(r, c)
    /\ \/ ack /\ member' = [member EXCEPT ![r][c] = "ok"] /\ UNCHANGED crashes
       \/ ~ack /\ WorkerLost /\ UNCHANGED member
    /\ UNCHANGED <<now, live, home, joined, open, deleted, stamp, enabled, executed,
                   stage, grp, origin, tries, whole, begun, marking>>

\* Mutant: one retry too many.
ScrapeRaisesOnceMore(r, c) ==
    /\ Queued(r, c)
    /\ tries[r][c] <= MaxRetries
    /\ tries' = [tries EXCEPT ![r][c] = @ + 1]
    /\ UNCHANGED <<dbVars, stage, grp, origin, member, whole, begun, marking,
                   crashes>>

\* Mutant: a task that used up its retries returns instead of raising.
ScrapeRaisesSwallowed(r, c) ==
    /\ Queued(r, c)
    /\ \/ /\ tries[r][c] < MaxRetries
          /\ tries' = [tries EXCEPT ![r][c] = @ + 1]
          /\ UNCHANGED member
       \/ /\ tries[r][c] = MaxRetries
          /\ member' = [member EXCEPT ![r][c] = "ok"]
          /\ UNCHANGED tries
    /\ UNCHANGED <<dbVars, stage, grp, origin, whole, begun, marking, crashes>>

\* Any exception is retried: a creator deleted under the scrape, or the
\* proxy report, which follows the commit of the scrape.
ScrapeRaises(r, c) ==
    /\ Queued(r, c)
    /\ Scraped(r, c) \/ UNCHANGED <<ingestAt, updateAt>>
    /\ \/ /\ tries[r][c] < MaxRetries
          /\ tries' = [tries EXCEPT ![r][c] = @ + 1]
          /\ UNCHANGED member
       \/ /\ tries[r][c] = MaxRetries
          /\ member' = [member EXCEPT ![r][c] = "failed"]
          /\ UNCHANGED tries
    /\ UNCHANGED <<now, live, home, joined, open, deleted, stamp, enabled, executed,
                   stage, grp, origin, whole, begun, marking, crashes>>

-----------------------------------------------------------------------------
(* The chord, as the code relies on it (Celery).                           *)

\* Mutant: the callback runs once every task has settled, failed or not.
ChordCompletesSettled(r) ==
    /\ stage[r] = "update_chord" /\ whole[r]
    /\ \A c \in Header(r) : member[r][c] \in {"ok", "failed"}
    /\ stage' = [stage EXCEPT ![r] = "finalize"]
    /\ UNCHANGED <<dbVars, grp, origin, memberVars, marking, crashes>>

\* Mutant: the chord's size is the number of tasks that were published.
ChordCompletesPartial(r) ==
    /\ stage[r] = "ingest_chord"
    /\ \A c \in Header(r) : member[r][c] = "ok"
    /\ stage' = [stage EXCEPT ![r] = "update"]
    /\ Forget(r)
    /\ UNCHANGED <<dbVars, grp, origin, marking, crashes>>

\* All header tasks returned: the callback is published.
ChordCompletes(r) ==
    /\ stage[r] \in Chords /\ whole[r]
    /\ \A c \in Header(r) : member[r][c] = "ok"
    /\ \/ /\ stage[r] = "ingest_chord"
          /\ stage' = [stage EXCEPT ![r] = "update"]
          /\ Forget(r)
       \/ /\ stage[r] = "update_chord"
          /\ stage' = [stage EXCEPT ![r] = "finalize"]
          /\ UNCHANGED memberVars
    /\ UNCHANGED <<dbVars, grp, origin, marking, crashes>>

\* Mutant: the chord gives up only when every task has failed.
ChordBreaksAllFailed(r) ==
    /\ stage[r] \in Chords
    /\ Header(r) # {} /\ \A c \in Header(r) : member[r][c] = "failed"
    /\ stage' = [stage EXCEPT ![r] = "broken"]
    /\ Forget(r)
    /\ UNCHANGED <<dbVars, grp, origin, marking, crashes>>

\* A header task that used up its retries: the callback never runs.
ChordBreaks(r) ==
    /\ stage[r] \in Chords
    /\ \A c \in Header(r) : member[r][c] \in {"ok", "failed"}
    /\ \E c \in Header(r) : member[r][c] = "failed"
    /\ stage' = [stage EXCEPT ![r] = "broken"]
    /\ Forget(r)
    /\ UNCHANGED <<dbVars, grp, origin, marking, crashes>>

-----------------------------------------------------------------------------
Admin ==
    \/ \E c \in Creators : AddCreator(c) \/ DeleteCreator(c)
    \/ \E g \in Groups : \/ UpdateGroup(g)
                         \/ SoftDeleteGroup(g)
                         \/ \E c \in Creators : MoveCreator(c, g)
    \/ \E s \in Schedules : UpdateSchedule(s)

Request(r) ==
    \/ \E g \in Groups : \/ TriggerIngest(r, g)
                         \/ TriggerUpdate(r, g)
                         \/ CoordinatorDispatch(r, g)
    \/ \E s \in Schedules : ScheduleFires(r, s)

\* Steps the workers and the broker take of their own accord.
Work(r) ==
    \/ IngestSkipped(r)
    \/ IngestFanOut(r)
    \/ MarkSchedule(r)
    \/ MarkRaises(r)
    \/ FanOutRaises(r)
    \/ UpdateFanOut(r)
    \/ Finalize(r, TRUE)
    \/ FinalizeRaises(r)
    \/ ChordCompletes(r)
    \/ ChordBreaks(r)
    \/ \E c \in Creators : \/ ScrapeSkips(r, c)
                           \/ ScrapeCommits(r, c, TRUE)
                           \/ ScrapeRaises(r, c)

Loss(r) ==
    \/ \E q \in Runs : LostBeforeMark(r, q) \/ LostInFanOut(r, q)
    \/ Finalize(r, FALSE)
    \/ \E c \in Creators : ScrapeCommits(r, c, FALSE)

Next ==
    \/ Tick
    \/ Admin
    \/ \E r \in Runs : Request(r) \/ Work(r) \/ Loss(r)

Spec == Init /\ [][Next]_vars

\* Workers consume the queue as long as they live and every loss is followed
\* by a requeue; retries are counted, so weak fairness of each run's work is
\* what the pool provides.  Requests, admin actions and losses are not fair.
FairSpec == Spec /\ \A r \in Runs : WF_vars(Work(r))

-----------------------------------------------------------------------------
\* The creators of run r's group that came to it before the header went out.
Older(r) == {c \in GroupCreators(grp[r]) : joined[c] < begun[r]}

\* A group is stamped only when every creator it still has was scraped by
\* line B since the run that stamps it was fanned out, newcomers excepted:
\* redelivery, retries, half-published chords, moves and overlapping runs
\* never let a stale group pass for an updated one.
StampCoversScrapes ==
    [][\A g \in Groups : stamp'[g] # stamp[g] =>
          \E r \in Runs :
             /\ grp[r] = g /\ stage[r] = "finalize"
             /\ \A c \in Older(r) : updateAt[c] >= begun[r]]_vars

\* Line B chained to line A starts only when every creator the group still
\* has, newcomers excepted, was ingested since line A's chord was published.
ChainFollowsIngest ==
    [][\A r \in Runs : stage[r] = "ingest_chord" /\ stage'[r] = "update" =>
          \A c \in Older(r) : ingestAt[c] >= begun[r]]_vars

\* A once schedule is marked executed only after a run of it was fanned out
\* completely: a worker lost at any point repeats the ingest, never loses it.
MarkedScheduleRan ==
    \A s \in executed : \E r \in Runs :
       origin[r] = s /\ stage[r] \notin {"free", "ingest", "skipped"} /\ whole[r]

\* Every orchestration task in the queue is eventually resolved, whatever its
\* scrape tasks do: it stamps the group, is skipped, or its chord breaks.
RunsResolve ==
    \A r \in Runs : stage[r] \in {"ingest", "update"}
                      ~> stage[r] \in {"done", "skipped", "broken"}

\* One line B run per group at a time ("skip if the group is running").
OneUpdatePerGroup ==
    \A r, q \in Runs :
       /\ grp[r] = grp[q]
       /\ {stage[r], stage[q]} \subseteq {"update_chord", "finalize"}
       => r = q
=============================================================================
