------------------------------ MODULE HotLocal ------------------------------
(***************************************************************************)
(* Lines A and B in local mode: one process, one event loop.  The per-     *)
(* minute coordinator job, the admin's manual triggers and the ingest      *)
(* schedules call run_hot_update_for_group directly, and an asyncio.Lock   *)
(* per group keeps a second line B run of the same group out.              *)
(*                                                                         *)
(* The test `locked()` and the acquisition that follows it have no await   *)
(* between them that can yield (an uncontended asyncio.Lock is taken       *)
(* without suspending), so TryLock is one step.  Every scrape, and the     *)
(* commit, are awaits: other coroutines run between any two of them.  The  *)
(* coordinator's loop is not one: from the groups it has read to the lock  *)
(* of the first one that is due, and from the end of a group's run to the  *)
(* lock of the next, it never suspends.                                    *)
(***************************************************************************)
EXTENDS Naturals, FiniteSets

CONSTANTS
    Groups,         \* monitor groups with hot-update segments
    Creators,
    Callers,        \* concurrent manual triggers and ingest schedule jobs
    Coordinator,    \* the coordinator job: one instance at a time
    Interval,       \* max(interval_minutes, 5) of the current segment
    MaxRetries,     \* settings.scrape_max_retries
    Free,           \* no owner of a lock / no group
    MaxNow          \* bound on the clock

ASSUME LocalAssumption ==
    /\ Coordinator \notin Callers
    /\ Free \notin Callers \cup {Coordinator} \cup Groups
    /\ Interval \in Nat \ {0}
    /\ MaxRetries \in Nat
    /\ MaxNow \in Nat \ {0}

VARIABLES
    now,        \* minutes
    stamp,      \* stamp[g] = MonitorGroup.last_hot_update_at, 0 when NULL
    lock,       \* lock[g] = the coroutine that holds _group_update_locks[g]
    pc,         \* pc[p] = where coroutine p is
    grp,        \* grp[p] = the group p works on
    left,       \* left[p] = creators the scrape loop has not settled yet
    tries,      \* tries[p] = retries spent on the creator being scraped
    todo,       \* groups the coordinator's loop has not visited yet
    seen        \* what the loop read before its first await: now, stamps

vars == <<now, stamp, lock, pc, grp, left, tries, todo, seen>>

Procs == Callers \cup {Coordinator}
Times == 0 .. MaxNow

\* The event loop is free to run another coroutine: the coordinator is not in
\* the part of its loop that has no await.
Awaiting == pc[Coordinator] # "loop"

\* The line B body holds the lock from TryLock to its commit or exception.
InUpdate(p, g) == pc[p] = "update" /\ grp[p] = g

TypeOK ==
    /\ now \in Times
    /\ stamp \in [Groups -> Times]
    /\ lock \in [Groups -> Procs \cup {Free}]
    /\ pc \in [Procs -> {"idle", "loop", "ingest", "update"}]
    /\ grp \in [Procs -> Groups \cup {Free}]
    /\ left \in [Procs -> SUBSET Creators]
    /\ tries \in [Procs -> 0 .. MaxRetries]
    /\ todo \in SUBSET Groups
    /\ seen \in [now : Times, stamp : [Groups -> Times]]

Unread == [now |-> 0, stamp |-> [g \in Groups |-> 0]]

Init ==
    /\ now = 1
    /\ stamp = [g \in Groups |-> 0]
    /\ lock = [g \in Groups |-> Free]
    /\ pc = [p \in Procs |-> "idle"]
    /\ grp = [p \in Procs |-> Free]
    /\ left = [p \in Procs |-> {}]
    /\ tries = [p \in Procs |-> 0]
    /\ todo = {}
    /\ seen = Unread

\* Never stamped, or the segment's interval has passed.
Due(last, t) == last = 0 \/ t - last >= Interval

-----------------------------------------------------------------------------
(* Moves of one coroutine between the parts of its code.                   *)

\* The loop takes the active creators the group has at that moment: admins
\* add, move and delete them all the time, so any set.
Scraping(p, g, where) ==
    /\ pc' = [pc EXCEPT ![p] = where]
    /\ grp' = [grp EXCEPT ![p] = g]
    /\ \E S \in SUBSET Creators : left' = [left EXCEPT ![p] = S]
    /\ tries' = [tries EXCEPT ![p] = 0]

\* The coordinator goes on with its loop; a request or a job just returns.
Return(p) ==
    /\ pc' = [pc EXCEPT ![p] = IF p = Coordinator THEN "loop" ELSE "idle"]
    /\ grp' = [grp EXCEPT ![p] = Free]
    /\ left' = [left EXCEPT ![p] = {}]
    /\ tries' = [tries EXCEPT ![p] = 0]

\* An exception leaves the coordinator's loop as well: it is re-raised.
Raise(p) ==
    /\ pc' = [pc EXCEPT ![p] = "idle"]
    /\ grp' = [grp EXCEPT ![p] = Free]
    /\ left' = [left EXCEPT ![p] = {}]
    /\ tries' = [tries EXCEPT ![p] = 0]
    /\ todo' = IF p = Coordinator THEN {} ELSE todo
    /\ seen' = IF p = Coordinator THEN Unread ELSE seen

\* Mutant: line B enters without looking at the lock.
TryLockBlind(p, g) ==
    /\ lock' = [lock EXCEPT ![g] = p]
    /\ Scraping(p, g, "update")

\* `if is_hot_update_running: skip`, then `async with lock`.
TryLock(p, g) ==
    /\ lock[g] = Free
    /\ lock' = [lock EXCEPT ![g] = p]
    /\ Scraping(p, g, "update")

Unlock(p) == lock' = [lock EXCEPT ![grp[p]] = Free]

-----------------------------------------------------------------------------
(* The clock and the callers.                                              *)

Tick ==
    /\ now < MaxNow
    /\ now' = now + 1
    /\ UNCHANGED <<stamp, lock, pc, grp, left, tries, todo, seen>>

ManualUpdate(p, g) ==
    /\ Awaiting /\ pc[p] = "idle"
    /\ TryLock(p, g)
    /\ UNCHANGED <<now, stamp, todo, seen>>

StartIngest(p, g) ==
    /\ Awaiting /\ pc[p] = "idle"
    /\ Scraping(p, g, "ingest")
    /\ UNCHANGED <<now, stamp, lock, todo, seen>>

\* The coordinator reads the groups that are active and have a segment for
\* the hour once, and goes on to the first due test without suspending.  The
\* session never expires what it read (expire_on_commit=False), so the due
\* tests after the first run are made with the same stamps and the same now.
CoordinatorStart ==
    /\ pc[Coordinator] = "idle"
    /\ pc' = [pc EXCEPT ![Coordinator] = "loop"]
    /\ \E S \in SUBSET Groups : todo' = S
    /\ seen' = [now |-> now, stamp |-> stamp]
    /\ UNCHANGED <<now, stamp, lock, grp, left, tries>>

CoordinatorSkip(g) ==
    /\ pc[Coordinator] = "loop" /\ g \in todo
    /\ ~Due(seen.stamp[g], seen.now) \/ lock[g] # Free
    /\ todo' = todo \ {g}
    /\ UNCHANGED <<now, stamp, lock, pc, grp, left, tries, seen>>

\* Mutant: a group stays on the loop's list after its run.
CoordinatorRunKeeps(g) ==
    /\ pc[Coordinator] = "loop" /\ g \in todo
    /\ Due(seen.stamp[g], seen.now)
    /\ TryLock(Coordinator, g)
    /\ UNCHANGED <<now, stamp, todo, seen>>

CoordinatorRun(g) ==
    /\ pc[Coordinator] = "loop" /\ g \in todo
    /\ Due(seen.stamp[g], seen.now)
    /\ TryLock(Coordinator, g)
    /\ todo' = todo \ {g}
    /\ UNCHANGED <<now, stamp, seen>>

CoordinatorEnd ==
    /\ pc[Coordinator] = "loop" /\ todo = {}
    /\ pc' = [pc EXCEPT ![Coordinator] = "idle"]
    /\ seen' = Unread
    /\ UNCHANGED <<now, stamp, lock, grp, left, tries, todo>>

-----------------------------------------------------------------------------
(* scrape_group_creators: one creator after the other, each retried.       *)

\* Scraped, or given up after MaxRetries retries (`failed += 1`): both move
\* the loop on, and neither raises.
CreatorSettled(p, c) ==
    /\ Awaiting /\ pc[p] \in {"ingest", "update"} /\ c \in left[p]
    /\ left' = [left EXCEPT ![p] = @ \ {c}]
    /\ tries' = [tries EXCEPT ![p] = 0]
    /\ UNCHANGED <<now, stamp, lock, pc, grp, todo, seen>>

\* Mutant: one retry too many.
ScrapeRetryMore(p) ==
    /\ Awaiting /\ pc[p] \in {"ingest", "update"} /\ left[p] # {}
    /\ tries[p] <= MaxRetries
    /\ tries' = [tries EXCEPT ![p] = @ + 1]
    /\ UNCHANGED <<now, stamp, lock, pc, grp, left, todo, seen>>

ScrapeRetry(p) ==
    /\ Awaiting /\ pc[p] \in {"ingest", "update"} /\ left[p] # {}
    /\ tries[p] < MaxRetries
    /\ tries' = [tries EXCEPT ![p] = @ + 1]
    /\ UNCHANGED <<now, stamp, lock, pc, grp, left, todo, seen>>

\* Line A committed: chain line B, or return because B is running.
IngestDone(p) ==
    /\ Awaiting /\ pc[p] = "ingest" /\ left[p] = {}
    /\ \/ TryLock(p, grp[p])
       \/ lock[grp[p]] # Free /\ Return(p) /\ UNCHANGED lock
    /\ UNCHANGED <<now, stamp, todo, seen>>

IngestRaises(p) ==
    /\ Awaiting /\ pc[p] = "ingest" /\ left[p] = {}
    /\ Raise(p)
    /\ UNCHANGED <<now, stamp, lock>>

\* Reclassify, reconcile, stamp the group, commit; then leave the lock.
UpdateDone(p) ==
    /\ Awaiting /\ pc[p] = "update" /\ left[p] = {}
    /\ stamp' = [stamp EXCEPT ![grp[p]] = now]
    /\ Unlock(p)
    /\ Return(p)
    /\ UNCHANGED <<now, todo, seen>>

\* Mutant: an exception leaves the body without leaving the lock.
UpdateRaisesLocked(p) ==
    /\ Awaiting /\ pc[p] = "update" /\ left[p] = {}
    /\ Raise(p)
    /\ UNCHANGED <<now, stamp, lock>>

UpdateRaises(p) ==
    /\ Awaiting /\ pc[p] = "update" /\ left[p] = {}
    /\ Unlock(p)
    /\ Raise(p)
    /\ UNCHANGED <<now, stamp>>

\* The process dies: locks and coroutines are memory, stamps are not.
Restart ==
    /\ \E p \in Procs : pc[p] # "idle"
    /\ lock' = [g \in Groups |-> Free]
    /\ pc' = [p \in Procs |-> "idle"]
    /\ grp' = [p \in Procs |-> Free]
    /\ left' = [p \in Procs |-> {}]
    /\ tries' = [p \in Procs |-> 0]
    /\ todo' = {}
    /\ seen' = Unread
    /\ UNCHANGED <<now, stamp>>

-----------------------------------------------------------------------------
\* What coroutine p does once it has been started, from one of its awaits to
\* the next.
Step(p) ==
    \/ \E c \in Creators : CreatorSettled(p, c)
    \/ ScrapeRetry(p)
    \/ IngestDone(p)
    \/ IngestRaises(p)
    \/ UpdateDone(p)
    \/ UpdateRaises(p)

CoordinatorStep ==
    \/ \E g \in Groups : CoordinatorSkip(g) \/ CoordinatorRun(g)
    \/ CoordinatorEnd

Next ==
    \/ Tick
    \/ CoordinatorStart
    \/ CoordinatorStep
    \/ \E p \in Callers, g \in Groups : ManualUpdate(p, g) \/ StartIngest(p, g)
    \/ \E p \in Procs : Step(p)
    \/ Restart

Spec == Init /\ [][Next]_vars

\* The event loop runs every coroutine that is ready; retries are bounded, so
\* weak fairness of the steps of a started coroutine is what it provides.
\* Nobody is obliged to call, and nothing obliges the process to restart.
FairSpec ==
    /\ Spec
    /\ \A p \in Procs : WF_vars(Step(p))
    /\ WF_vars(CoordinatorStep)

-----------------------------------------------------------------------------
\* A lock bit is set exactly while its owner runs the body of that group:
\* no path (commit, exception, skip, chained run) leaks a lock.
LockMatchesBody ==
    \A g \in Groups, p \in Procs : lock[g] = p <=> InUpdate(p, g)

\* Active[g] = the number of coroutines in the line B body of g.
Active == [g \in Groups |-> Cardinality({p \in Procs : InUpdate(p, g)})]
Contract == INSTANCE HotUpdateContract WITH active <- Active

\* Line B in local mode keeps the contract of run_hot_update_for_group: one
\* body per group at a time, and only a completed body moves the stamp.
RefinesContract == Contract!Spec

\* A started coordinator pass ends, so the next minute's pass can start: with
\* one instance at a time a pass that never ends would stop line B for good.
CoordinatorPassEnds == pc[Coordinator] = "loop" ~> pc[Coordinator] = "idle"

\* "Runs line B for the groups that are due": a run the coordinator starts is
\* for a group whose interval has passed at that moment.
CoordinatorRunsOnlyDue ==
    [][\A g \in Groups :
          pc[Coordinator] = "loop" /\ lock[g] = Free /\ lock'[g] = Coordinator
             => Due(stamp[g], now)]_vars
=============================================================================
