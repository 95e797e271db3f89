-------------------------- MODULE ProxyPool_proofs --------------------------
(***************************************************************************)
(* Theorems about ProxyPool, for any proxies, tasks, requests and bounds:  *)
(* the fail streak counts what it says, unless it was written from an old  *)
(* copy, a proxy in "checking" is being checked, and no counter passes the *)
(* number of scrapes that could have counted a failure.                    *)
(***************************************************************************)
EXTENDS ProxyPool, FiniteSetTheorems, TLAPS

\* What both arguments need of the types.  Counters are natural numbers here:
\* how far they go is the last theorem's (PoolTypeCorrect).
RowShapes ==
    [life : {"unused", "live", "deleted"}, enabled : BOOLEAN, health : Health, fail : Nat]
CopyShapes == [proxy : Proxies, was : RowShapes]
TaskShapes ==
    [stage : {"idle", "direct"}, ok : {FALSE}]
    \cup [stage : {"running", "ended"}, proxy : Proxies, ok : BOOLEAN]
    \cup [stage : {"reported"}, copy : CopyShapes, ok : BOOLEAN]
CheckShapes ==
    [stage : {"idle", "next"}, todo : SUBSET CopyShapes]
    \cup [stage : {"waiting"}, copy : CopyShapes, todo : SUBSET CopyShapes]

Shaped ==
    /\ row \in [Proxies -> RowShapes]
    /\ task \in [Tasks -> TaskShapes]
    /\ check \in [Checkers -> CheckShapes]
    /\ streak \in [Proxies -> Nat]

\* What a report and a check write into a row is a row.
LEMMA WrittenShape ==
    ASSUME row \in [Proxies -> RowShapes], NEW x \in Proxies,
           NEW was \in RowShapes, NEW is \in RowShapes
    PROVE  Written(x, was, is) \in RowShapes
<1>1. row[x] \in RowShapes
    OBVIOUS
<1> QED
    BY <1>1 DEF Written, RowShapes

LEMMA ReportedShape ==
    ASSUME NEW was \in RowShapes, NEW ok \in BOOLEAN
    PROVE  Reported(was, ok) \in RowShapes
<1>1. CASE ok
    BY <1>1 DEF Reported, RowShapes, Health
<1>2. CASE ~ok
    <2> DEFINE counted == [was EXCEPT !.fail = @ + 1]
    <2>1. counted \in RowShapes
        BY DEF RowShapes
    <2>2. Reported(was, ok) =
              [counted EXCEPT !.health = IF was.fail + 1 >= MaxFail THEN "unhealthy" ELSE @]
        BY <1>2 DEF Reported
    <2> HIDE DEF counted
    <2> QED
        BY <2>1, <2>2 DEF RowShapes, Health
<1> QED
    BY <1>1, <1>2

\* Init establishes the shapes.
LEMMA InitShape == Init => Shaped
BY DEF Init, Shaped, RowShapes, TaskShapes, CheckShapes, NoRow, NoTask, NoCheck, Health

\* The steps of a scrape keep them.
LEMMA ScrapeShape ==
    ASSUME Shaped, NEW t \in Tasks, Scrape(t) \/ WorkerLost(t)
    PROVE  Shaped'
<1>1. CASE Acquire(t)
    <2>1. task' \in [Tasks -> TaskShapes]
        <3>1. task[t] \in [stage : {"idle", "direct"}, ok : {FALSE}]
            BY <1>1 DEF Acquire, Shaped, TaskShapes
        <3>2. CASE task' = [task EXCEPT ![t].stage = "direct"]
            BY <3>1, <3>2 DEF Shaped, TaskShapes
        <3>3. CASE \E x \in Proxies :
                      task' = [task EXCEPT ![t] = [stage |-> "running", proxy |-> x, ok |-> FALSE]]
            <4>1. PICK x \in Proxies :
                      task' = [task EXCEPT ![t] = [stage |-> "running", proxy |-> x, ok |-> FALSE]]
                BY <3>3
            <4>2. [stage |-> "running", proxy |-> x, ok |-> FALSE] \in TaskShapes
                BY DEF TaskShapes
            <4> QED
                BY <4>1, <4>2 DEF Shaped
        <3> QED
            BY <1>1, <3>2, <3>3 DEF Acquire, Available
    <2> QED
        BY <1>1, <2>1 DEF Acquire, Shaped
<1>2. CASE ScrapeEnds(t)
    <2>1. task' \in [Tasks -> TaskShapes]
        <3>1. CASE task[t].stage = "running"
            <4>1. task[t] \in [stage : {"running", "ended"}, proxy : Proxies, ok : BOOLEAN]
                BY <3>1 DEF Shaped, TaskShapes
            <4>2. PICK ok \in BOOLEAN :
                      task' = [task EXCEPT ![t].stage = "ended", ![t].ok = ok]
                BY <1>2, <3>1 DEF ScrapeEnds
            <4> QED
                BY <4>1, <4>2 DEF Shaped, TaskShapes
        <3>2. CASE task[t].stage # "running"
            <4>1. task' = [task EXCEPT ![t] = NoTask]
                BY <1>2, <3>2 DEF ScrapeEnds
            <4>2. NoTask \in TaskShapes
                BY DEF NoTask, TaskShapes
            <4> QED
                BY <4>1, <4>2 DEF Shaped
        <3> QED
            BY <3>1, <3>2
    <2> QED
        BY <1>2, <2>1 DEF ScrapeEnds, Shaped
<1>3. CASE ReportReads(t)
    <2>1. task[t] \in [stage : {"running", "ended"}, proxy : Proxies, ok : BOOLEAN]
        BY <1>3 DEF ReportReads, Shaped, TaskShapes
    <2>2. Copy(task[t].proxy) \in CopyShapes
        BY <2>1 DEF Copy, CopyShapes, Shaped
    <2>3. [stage |-> "reported", copy |-> Copy(task[t].proxy), ok |-> task[t].ok] \in TaskShapes
        BY <2>1, <2>2 DEF TaskShapes
    <2>4. NoTask \in TaskShapes
        BY DEF NoTask, TaskShapes
    <2> QED
        BY <1>3, <2>3, <2>4 DEF ReportReads, Shaped
<1>4. CASE ReportCommits(t)
    <2>1. task[t] \in [stage : {"reported"}, copy : CopyShapes, ok : BOOLEAN]
        BY <1>4 DEF ReportCommits, Shaped, TaskShapes
    <2>2. /\ task[t].copy.proxy \in Proxies /\ task[t].copy.was \in RowShapes
          /\ task[t].ok \in BOOLEAN
        BY <2>1 DEF CopyShapes
    <2>3. Written(task[t].copy.proxy, task[t].copy.was,
                  Reported(task[t].copy.was, task[t].ok)) \in RowShapes
        BY <2>2, WrittenShape, ReportedShape DEF Shaped
    <2>4. row' \in [Proxies -> RowShapes] /\ streak' \in [Proxies -> Nat]
        BY <1>4, <2>2, <2>3 DEF ReportCommits, Shaped
    <2>5. task' \in [Tasks -> TaskShapes]
        BY <1>4 DEF ReportCommits, Shaped, NoTask, TaskShapes
    <2> QED
        BY <1>4, <2>4, <2>5 DEF ReportCommits, Shaped
<1>5. CASE WorkerLost(t)
    BY <1>5 DEF WorkerLost, Shaped, NoTask, TaskShapes
<1> QED
    BY <1>1, <1>2, <1>3, <1>4, <1>5 DEF Scrape

\* The admin's requests keep them.
LEMMA AdminShape == ASSUME Shaped, Admin PROVE Shaped'
<1>1. ASSUME NEW x \in Proxies, NEW on \in BOOLEAN, CreateProxy(x, on)
      PROVE  row' \in [Proxies -> RowShapes]
    BY <1>1 DEF CreateProxy, Shaped, RowShapes
<1>2. ASSUME NEW x \in Proxies, NEW on \in BOOLEAN, NEW f \in BOOLEAN, UpdateProxy(x, on, f)
      PROVE  row' \in [Proxies -> RowShapes]
    <2> DEFINE switched == [row EXCEPT ![x].enabled = on]
    <2>1. switched \in [Proxies -> RowShapes]
        BY DEF Shaped, RowShapes
    <2>2. row' = [switched EXCEPT ![x].health = IF f THEN "unhealthy" ELSE @]
        BY <1>2 DEF UpdateProxy
    <2> HIDE DEF switched
    <2> QED
        BY <2>1, <2>2 DEF RowShapes, Health
<1>3. ASSUME NEW x \in Proxies, DeleteProxy(x) \/ PruneDeletes(x)
      PROVE  row' \in [Proxies -> RowShapes]
    BY <1>3 DEF DeleteProxy, PruneDeletes, Delete, Shaped, RowShapes
<1>4. UNCHANGED <<task, check, streak>>
    BY DEF Admin, CreateProxy, UpdateProxy, DeleteProxy, PruneChooses, PruneDeletes
<1>5. row' \in [Proxies -> RowShapes]
    BY <1>1, <1>2, <1>3 DEF Admin, PruneChooses, Shaped
<1> QED
    BY <1>4, <1>5 DEF Shaped

\* The requests that check proxies keep them.
LEMMA CheckerShape == ASSUME Shaped, NEW k \in Checkers, Checker(k) PROVE Shaped'
<1>0. NoCheck \in CheckShapes
    BY DEF NoCheck, CheckShapes
<1>1. ASSUME NEW chosen \in SUBSET Proxies, CheckBegins(k, chosen) PROVE Shaped'
    <2>1. {Copy(x) : x \in chosen} \in SUBSET CopyShapes
        BY DEF Copy, CopyShapes, Shaped
    <2>2. [stage |-> "next", todo |-> {Copy(x) : x \in chosen}] \in CheckShapes
        BY <2>1 DEF CheckShapes
    <2> QED
        BY <1>1, <2>2 DEF CheckBegins, Shaped
<1>2. CASE CheckSends(k)
    <2>1. check[k] \in [stage : {"idle", "next"}, todo : SUBSET CopyShapes]
        BY <1>2 DEF CheckSends, Shaped, CheckShapes
    <2>2. PICK copy \in check[k].todo :
              LET x == copy.proxy
                  is == [copy.was EXCEPT !.health = "checking"]
              IN  IF Live(x)
                  THEN /\ row' = [row EXCEPT ![x] = Written(x, copy.was, is)]
                       /\ check' = [check EXCEPT ![k] =
                                      [stage |-> "waiting", copy |-> [proxy |-> x, was |-> is],
                                       todo |-> check[k].todo \ {copy}]]
                  ELSE check' = [check EXCEPT ![k] = NoCheck] /\ UNCHANGED row
        BY <1>2 DEF CheckSends
    <2>3. /\ copy.proxy \in Proxies /\ copy.was \in RowShapes
          /\ [copy.was EXCEPT !.health = "checking"] \in RowShapes
        BY <2>1 DEF CopyShapes, RowShapes, Health
    <2>4. Written(copy.proxy, copy.was, [copy.was EXCEPT !.health = "checking"]) \in RowShapes
        BY <2>3, WrittenShape DEF Shaped
    <2>5. [stage |-> "waiting",
           copy |-> [proxy |-> copy.proxy, was |-> [copy.was EXCEPT !.health = "checking"]],
           todo |-> check[k].todo \ {copy}] \in CheckShapes
        BY <2>1, <2>3 DEF CheckShapes, CopyShapes
    <2> QED
        BY <1>0, <1>2, <2>2, <2>3, <2>4, <2>5 DEF CheckSends, Shaped
<1>3. ASSUME NEW healthy \in BOOLEAN, CheckAnswers(k, healthy) PROVE Shaped'
    <2>1. check[k] \in [stage : {"waiting"}, copy : CopyShapes, todo : SUBSET CopyShapes]
        BY <1>3 DEF CheckAnswers, Shaped, CheckShapes
    <2> DEFINE x == check[k].copy.proxy
               was == check[k].copy.was
               is == IF healthy THEN [was EXCEPT !.health = "healthy", !.fail = 0]
                                ELSE [was EXCEPT !.health = "unhealthy"]
    <2>2. x \in Proxies /\ was \in RowShapes
        BY <2>1 DEF CopyShapes
    <2>3. is \in RowShapes
        BY <2>2 DEF RowShapes, Health
    <2>4. Written(x, was, is) \in RowShapes
        BY <2>2, <2>3, WrittenShape DEF Shaped
    <2>5. Rest(k) \in CheckShapes
        BY <1>0, <2>1 DEF Rest, CheckShapes
    <2>6. /\ row' \in {row, [row EXCEPT ![x] = Written(x, was, is)]}
          /\ streak' \in {streak, [streak EXCEPT ![x] = 0]}
          /\ check' \in {[check EXCEPT ![k] = Rest(k)], [check EXCEPT ![k] = NoCheck]}
          /\ task' = task
        BY <1>3 DEF CheckAnswers
    <2> HIDE DEF x, was, is
    <2> QED
        BY <1>0, <2>2, <2>4, <2>5, <2>6 DEF Shaped
<1> QED
    BY <1>1, <1>2, <1>3 DEF Checker

\* Every step keeps the shapes.
LEMMA NextShape == Shaped /\ [Next]_vars => Shaped'
<1> SUFFICES ASSUME Shaped, [Next]_vars PROVE Shaped'
    OBVIOUS
<1>1. CASE ApiRestarts
    BY <1>1 DEF ApiRestarts, Shaped, NoTask, NoCheck, TaskShapes, CheckShapes
<1>2. ASSUME NEW x \in Proxies, Expire(x) PROVE Shaped'
    BY <1>2 DEF Expire, Shaped
<1>3. CASE UNCHANGED vars
    BY <1>3 DEF vars, Shaped
<1> QED
    BY <1>1, <1>2, <1>3, ScrapeShape, AdminShape, CheckerShape DEF Next

-----------------------------------------------------------------------------
(* The streak.                                                             *)

\* Deleted rows, and rows that are not there yet, satisfy it as well.
Exact == \A x \in Proxies : x \notin stale => row[x].fail = streak[x]

\* What a commit writes counts on from what it read, if nobody has written since.
LEMMA ReportExact ==
    ASSUME Shaped, Exact, NEW t \in Tasks, ReportCommits(t)
    PROVE  Exact'
<1> DEFINE x == task[t].copy.proxy
           was == task[t].copy.was
           is == Reported(was, task[t].ok)
<1>1. task[t] \in [stage : {"reported"}, copy : CopyShapes, ok : BOOLEAN]
    BY DEF ReportCommits, Shaped, TaskShapes
<1>2. x \in Proxies /\ was \in RowShapes /\ task[t].ok \in BOOLEAN
    BY <1>1 DEF CopyShapes
<1>3. was.fail \in Nat /\ is.fail = IF task[t].ok THEN 0 ELSE was.fail + 1
    BY <1>2 DEF Reported, RowShapes
<1>4. CASE Live(x)
    <2>1. /\ row' = [row EXCEPT ![x] = Written(x, was, is)]
          /\ streak' = [streak EXCEPT ![x] = IF task[t].ok THEN 0 ELSE @ + 1]
          /\ stale' = IF row[x].fail = was.fail THEN stale ELSE stale \cup {x}
        BY <1>4 DEF ReportCommits
    <2>2. Written(x, was, is).fail = IF is.fail = was.fail THEN row[x].fail ELSE is.fail
        BY DEF Written
    <2> HIDE DEF x, was, is
    <2>3. x \notin stale' => row'[x].fail = streak'[x]
        BY <1>2, <1>3, <2>1, <2>2 DEF Exact, Shaped
    <2>4. ASSUME NEW y \in Proxies, y # x, y \notin stale' PROVE row'[y].fail = streak'[y]
        BY <2>1, <2>4 DEF Exact, Shaped
    <2> QED
        BY <2>3, <2>4 DEF Exact
<1>5. CASE ~Live(x)
    BY <1>5 DEF ReportCommits, Exact
<1> QED
    BY <1>4, <1>5

\* A check writes the counter only to clear it.
LEMMA CheckExact ==
    ASSUME Shaped, Exact, NEW k \in Checkers, Checker(k)
    PROVE  Exact'
<1>1. ASSUME NEW chosen \in SUBSET Proxies, CheckBegins(k, chosen) PROVE Exact'
    BY <1>1 DEF CheckBegins, Exact
<1>2. CASE CheckSends(k)
    <2>1. /\ UNCHANGED <<streak, stale>>
          /\ \/ UNCHANGED row
             \/ \E copy \in check[k].todo :
                   row' = [row EXCEPT ![copy.proxy] =
                             Written(copy.proxy, copy.was, [copy.was EXCEPT !.health = "checking"])]
        BY <1>2 DEF CheckSends
    <2>2. ASSUME NEW copy \in check[k].todo
          PROVE  Written(copy.proxy, copy.was, [copy.was EXCEPT !.health = "checking"]).fail
                     = row[copy.proxy].fail
        <3>1. copy.was \in RowShapes
            BY <1>2 DEF CheckSends, Shaped, CheckShapes, CopyShapes
        <3> QED
            BY <3>1 DEF Written, RowShapes
    <2>3. \A y \in Proxies : row'[y].fail = row[y].fail
        BY <2>1, <2>2 DEF Shaped
    <2> QED
        BY <2>1, <2>3 DEF Exact
<1>3. ASSUME NEW healthy \in BOOLEAN, CheckAnswers(k, healthy) PROVE Exact'
    <2> DEFINE x == check[k].copy.proxy
               was == check[k].copy.was
               is == IF healthy THEN [was EXCEPT !.health = "healthy", !.fail = 0]
                                ELSE [was EXCEPT !.health = "unhealthy"]
    <2>1. check[k] \in [stage : {"waiting"}, copy : CopyShapes, todo : SUBSET CopyShapes]
        BY <1>3 DEF CheckAnswers, Shaped, CheckShapes
    <2>2. x \in Proxies /\ was \in RowShapes
        BY <2>1 DEF CopyShapes
    <2>3. is.fail = IF healthy THEN 0 ELSE was.fail
        BY <2>2 DEF RowShapes
    <2>4. CASE Live(x)
        <3>1. /\ row' = [row EXCEPT ![x] = Written(x, was, is)]
              /\ streak' = IF healthy THEN [streak EXCEPT ![x] = 0] ELSE streak
              /\ stale' = IF healthy /\ row[x].fail # was.fail THEN stale \cup {x} ELSE stale
            BY <1>3, <2>4 DEF CheckAnswers
        <3>2. Written(x, was, is).fail = IF is.fail = was.fail THEN row[x].fail ELSE is.fail
            BY DEF Written
        <3> HIDE DEF x, was, is
        <3> QED
            BY <2>2, <2>3, <3>1, <3>2 DEF Exact, Shaped
    <2>5. CASE ~Live(x)
        BY <1>3, <2>5 DEF CheckAnswers, Exact
    <2> QED
        BY <2>4, <2>5
<1> QED
    BY <1>1, <1>2, <1>3 DEF Checker

\* No request of the admin writes a counter.
LEMMA AdminExact == ASSUME Shaped, Exact, Admin PROVE Exact'
<1>1. UNCHANGED <<streak, stale>>
    BY DEF Admin, CreateProxy, UpdateProxy, DeleteProxy, PruneChooses, PruneDeletes
<1>2. ASSUME NEW x \in Proxies, NEW on \in BOOLEAN, CreateProxy(x, on), NEW y \in Proxies
      PROVE  row'[y].fail = row[y].fail
    BY <1>2 DEF CreateProxy, Shaped, RowShapes
<1>3. ASSUME NEW x \in Proxies, NEW on \in BOOLEAN, NEW f \in BOOLEAN, UpdateProxy(x, on, f),
             NEW y \in Proxies
      PROVE  row'[y].fail = row[y].fail
    BY <1>3 DEF UpdateProxy, Shaped, RowShapes
<1>4. ASSUME NEW x \in Proxies, DeleteProxy(x) \/ PruneDeletes(x), NEW y \in Proxies
      PROVE  row'[y].fail = row[y].fail
    BY <1>4 DEF DeleteProxy, PruneDeletes, Delete, Shaped, RowShapes
<1>5. \A y \in Proxies : row'[y].fail = row[y].fail
    BY <1>2, <1>3, <1>4 DEF Admin, PruneChooses
<1> QED
    BY <1>1, <1>5 DEF Exact

\* The counter a proxy is judged by is the number of failures reported since it
\* last worked, as long as no transaction wrote it from an old copy
\* (report_result, check_health).
THEOREM StreakCounts == Spec => []StreakExact
<1>1. Init => Shaped /\ Exact
    BY InitShape DEF Init, Exact, NoRow
<1>2. Shaped /\ Exact /\ [Next]_vars => Exact'
    <2> SUFFICES ASSUME Shaped, Exact, [Next]_vars PROVE Exact'
        OBVIOUS
    <2>1. ASSUME NEW t \in Tasks, Scrape(t) \/ WorkerLost(t) PROVE Exact'
        <3>1. CASE ReportCommits(t)
            BY <3>1, ReportExact
        <3>2. CASE Acquire(t) \/ ScrapeEnds(t) \/ ReportReads(t) \/ WorkerLost(t)
            <4>1. UNCHANGED <<row, streak, stale>>
                BY <3>2 DEF Acquire, ScrapeEnds, ReportReads, WorkerLost
            <4> QED
                BY <4>1 DEF Exact
        <3> QED
            BY <2>1, <3>1, <3>2 DEF Scrape
    <2>2. CASE UNCHANGED <<row, streak, stale>>
        BY <2>2 DEF Exact
    <2>3. \/ UNCHANGED <<row, streak, stale>>
          \/ Admin
          \/ \E k \in Checkers : Checker(k)
          \/ \E t \in Tasks : Scrape(t) \/ WorkerLost(t)
        BY DEF Next, vars, ApiRestarts, Expire
    <2> QED
        BY <2>1, <2>2, <2>3, AdminExact, CheckExact
<1>3. Exact => StreakExact
    BY DEF Exact, StreakExact
<1> QED
    BY <1>1, <1>2, <1>3, NextShape, PTL DEF Spec

-----------------------------------------------------------------------------
(* Rows in "checking".                                                     *)

Watched(x) ==
    \/ \E k \in Checkers : check[k].stage = "waiting" /\ check[k].copy.proxy = x
    \/ x \in orphaned

\* A row that is not there is not shown, and a check that waits has said so in
\* its copy: whatever it answers, it changes the column.
WatchInv ==
    /\ Shaped
    /\ \A x \in Proxies : row[x].life = "unused" => row[x].health = "unknown"
    /\ \A k \in Checkers : check[k].stage = "waiting" => check[k].copy.was.health = "checking"
    /\ CheckingIsWatched

\* A step that writes no "checking" and ends no wait keeps it.
LEMMA WatchKept ==
    ASSUME WatchInv, Shaped', check' = check, orphaned' = orphaned,
           \A x \in Proxies :
               \/ row'[x].health = row[x].health /\ row'[x].life = row[x].life
               \/ row'[x].health = row[x].health /\ row[x].life = "unused" /\ row'[x].life = "live"
               \/ row'[x].health # "checking" /\ row'[x].life # "unused"
               \/ row'[x].life = "deleted"
    PROVE  WatchInv'
<1>1. \A x \in Proxies : row'[x].life = "unused" => row'[x].health = "unknown"
    BY DEF WatchInv
<1>2. CheckingIsWatched'
    BY DEF WatchInv, CheckingIsWatched, Live
<1> QED
    BY <1>1, <1>2 DEF WatchInv

\* The report of a scrape never writes "checking".
LEMMA ReportWatch ==
    ASSUME WatchInv, Shaped', NEW t \in Tasks, ReportCommits(t)
    PROVE  WatchInv'
<1> DEFINE x == task[t].copy.proxy
           was == task[t].copy.was
           is == Reported(was, task[t].ok)
<1>1. task[t] \in [stage : {"reported"}, copy : CopyShapes, ok : BOOLEAN]
    BY DEF ReportCommits, WatchInv, Shaped, TaskShapes
<1>2. x \in Proxies /\ was \in RowShapes
    BY <1>1 DEF CopyShapes
<1>3. is.health \in {"healthy", "unhealthy", was.health}
    <2>1. CASE task[t].ok
        BY <1>2, <2>1 DEF Reported, RowShapes
    <2>2. CASE ~task[t].ok
        BY <1>2, <2>2 DEF Reported, RowShapes
    <2> QED
        BY <2>1, <2>2
<1>4. UNCHANGED <<check, orphaned>>
    BY DEF ReportCommits
<1>5. CASE Live(x)
    <2>1. row' = [row EXCEPT ![x] = Written(x, was, is)]
        BY <1>5 DEF ReportCommits
    <2>2. /\ Written(x, was, is).life = row[x].life
          /\ Written(x, was, is).health = IF is.health = was.health THEN row[x].health ELSE is.health
        BY DEF Written
    <2> HIDE DEF x, was, is
    <2>3. ASSUME NEW y \in Proxies
          PROVE  \/ row'[y].health = row[y].health /\ row'[y].life = row[y].life
                 \/ row'[y].health # "checking" /\ row'[y].life # "unused"
        <3>1. CASE y = x
            BY <1>2, <1>3, <1>5, <2>1, <2>2, <3>1 DEF WatchInv, Shaped, Live
        <3>2. CASE y # x
            BY <2>1, <3>2 DEF WatchInv, Shaped
        <3> QED
            BY <3>1, <3>2
    <2> QED
        BY <1>4, <2>3, WatchKept
<1>6. CASE ~Live(x)
    BY <1>4, <1>6, WatchKept DEF ReportCommits
<1> QED
    BY <1>5, <1>6

\* Nor do the requests of the admin.
LEMMA AdminWatch == ASSUME WatchInv, Shaped', Admin PROVE WatchInv'
<1> USE DEF WatchInv, Shaped, RowShapes
<1>1. UNCHANGED <<check, orphaned>>
    BY DEF Admin, CreateProxy, UpdateProxy, DeleteProxy, PruneChooses, PruneDeletes
<1> DEFINE Kept(y) ==
        \/ row'[y].health = row[y].health /\ row'[y].life = row[y].life
        \/ row'[y].health = row[y].health /\ row[y].life = "unused" /\ row'[y].life = "live"
        \/ row'[y].health # "checking" /\ row'[y].life # "unused"
        \/ row'[y].life = "deleted"
<1>2. ASSUME NEW x \in Proxies, NEW on \in BOOLEAN, CreateProxy(x, on), NEW y \in Proxies
      PROVE  Kept(y)
    BY <1>2 DEF CreateProxy
<1>3. ASSUME NEW x \in Proxies, NEW on \in BOOLEAN, NEW f \in BOOLEAN, UpdateProxy(x, on, f),
             NEW y \in Proxies
      PROVE  Kept(y)
    BY <1>3 DEF UpdateProxy, Live
<1>4. ASSUME NEW x \in Proxies, DeleteProxy(x) \/ PruneDeletes(x), NEW y \in Proxies
      PROVE  Kept(y)
    BY <1>4 DEF DeleteProxy, PruneDeletes, Delete
<1>5. \A y \in Proxies : Kept(y)
    BY <1>2, <1>3, <1>4 DEF Admin, PruneChooses
<1> QED
    BY <1>1, <1>5, WatchKept

\* A check that is sent watches its row, and one that is answered takes the
\* row out of "checking".
LEMMA CheckWatch ==
    ASSUME WatchInv, Shaped', NEW k \in Checkers, Checker(k)
    PROVE  WatchInv'
<1>0. orphaned' = orphaned
    BY DEF Checker, CheckBegins, CheckSends, CheckAnswers
<1>1. ASSUME NEW chosen \in SUBSET Proxies, CheckBegins(k, chosen) PROVE WatchInv'
    <2>1. /\ check[k].stage = "idle" /\ row' = row
          /\ check'[k].stage = "next"
          /\ \A j \in Checkers : j # k => check'[j] = check[j]
        BY <1>1 DEF CheckBegins, WatchInv, Shaped
    <2> QED
        BY <1>0, <2>1 DEF WatchInv, CheckingIsWatched, Live
<1>2. CASE CheckSends(k)
    <2>1. PICK copy \in check[k].todo :
              LET x == copy.proxy
                  is == [copy.was EXCEPT !.health = "checking"]
              IN  IF Live(x)
                  THEN /\ row' = [row EXCEPT ![x] = Written(x, copy.was, is)]
                       /\ check' = [check EXCEPT ![k] =
                                      [stage |-> "waiting", copy |-> [proxy |-> x, was |-> is],
                                       todo |-> check[k].todo \ {copy}]]
                  ELSE check' = [check EXCEPT ![k] = NoCheck] /\ UNCHANGED row
        BY <1>2 DEF CheckSends
    <2>2. /\ check[k].stage = "next"
          /\ copy.proxy \in Proxies /\ copy.was \in RowShapes
        BY <1>2 DEF CheckSends, WatchInv, Shaped, CheckShapes, CopyShapes
    <2>3. CASE Live(copy.proxy)
        <3> DEFINE x == copy.proxy
                   is == [copy.was EXCEPT !.health = "checking"]
        <3>1. /\ row' = [row EXCEPT ![x] = Written(x, copy.was, is)]
              /\ check' = [check EXCEPT ![k] =
                             [stage |-> "waiting", copy |-> [proxy |-> x, was |-> is],
                              todo |-> check[k].todo \ {copy}]]
            BY <2>1, <2>3
        <3>2. is.health = "checking" /\ Written(x, copy.was, is).life = row[x].life
            BY <2>2 DEF Written, RowShapes
        <3> HIDE DEF x, is
        <3>3. /\ check'[k].stage = "waiting" /\ check'[k].copy.proxy = x
              /\ check'[k].copy.was.health = "checking"
              /\ \A j \in Checkers : j # k => check'[j] = check[j]
            BY <3>1, <3>2 DEF WatchInv, Shaped
        <3>4. /\ \A y \in Proxies : y # x => row'[y] = row[y]
              /\ row'[x].life = row[x].life
            BY <2>2, <3>1, <3>2 DEF WatchInv, Shaped, x
        <3>5. row[x].life = "live"
            BY <2>3 DEF Live, x
        <3>6. CheckingIsWatched'
            BY <1>0, <2>2, <3>3, <3>4 DEF WatchInv, CheckingIsWatched, Live
        <3> QED
            BY <3>3, <3>4, <3>5, <3>6 DEF WatchInv
    <2>4. CASE ~Live(copy.proxy)
        <3>1. /\ row' = row /\ check'[k].stage = "idle"
              /\ \A j \in Checkers : j # k => check'[j] = check[j]
            BY <2>1, <2>4 DEF WatchInv, Shaped, NoCheck
        <3> QED
            BY <1>0, <2>2, <3>1 DEF WatchInv, CheckingIsWatched, Live
    <2> QED
        BY <2>3, <2>4
<1>3. ASSUME NEW healthy \in BOOLEAN, CheckAnswers(k, healthy) PROVE WatchInv'
    <2> DEFINE x == check[k].copy.proxy
               was == check[k].copy.was
               is == IF healthy THEN [was EXCEPT !.health = "healthy", !.fail = 0]
                                ELSE [was EXCEPT !.health = "unhealthy"]
    <2>1. check[k] \in [stage : {"waiting"}, copy : CopyShapes, todo : SUBSET CopyShapes]
        BY <1>3 DEF CheckAnswers, WatchInv, Shaped, CheckShapes
    <2>2. x \in Proxies /\ was \in RowShapes
        BY <2>1 DEF CopyShapes
    <2>3. was.health = "checking" /\ is.health \in {"healthy", "unhealthy"}
        BY <1>3, <2>2 DEF WatchInv, CheckAnswers, RowShapes
    <2>4. /\ check'[k].stage # "waiting"
          /\ \A j \in Checkers : j # k => check'[j] = check[j]
        BY <1>3 DEF CheckAnswers, Rest, NoCheck, WatchInv, Shaped
    <2>5. CASE Live(x)
        <3>1. row' = [row EXCEPT ![x] = Written(x, was, is)]
            BY <1>3, <2>5 DEF CheckAnswers
        <3>2. /\ Written(x, was, is).health # "checking"
              /\ Written(x, was, is).life = row[x].life
            BY <2>3 DEF Written
        <3>3. row[x].life = "live"
            BY <2>5 DEF Live
        <3>4. \A j \in Checkers : j # k => check'[j] = check[j]
            BY <2>4
        <3>5. \A y \in Proxies : y = x \/ ~(check[k].copy.proxy = y)
            OBVIOUS
        <3> HIDE DEF x, was, is
        <3>6. /\ \A y \in Proxies : y # x => row'[y] = row[y]
              /\ row'[x].health # "checking" /\ row'[x].life = "live"
            BY <2>2, <3>1, <3>2, <3>3 DEF WatchInv, Shaped
        <3>7. CheckingIsWatched'
            BY <1>0, <2>4, <3>5, <3>6 DEF WatchInv, CheckingIsWatched, Live
        <3> QED
            BY <2>4, <3>6, <3>7 DEF WatchInv
    <2>6. CASE ~Live(x)
        <3>1. row' = row
            BY <1>3, <2>6 DEF CheckAnswers
        <3>2. CheckingIsWatched'
            BY <1>0, <2>4, <2>6, <3>1 DEF WatchInv, CheckingIsWatched, Live
        <3> QED
            BY <2>4, <3>1, <3>2 DEF WatchInv
    <2> QED
        BY <2>5, <2>6
<1> QED
    BY <1>1, <1>2, <1>3 DEF Checker

\* A restart of the API leaves its checks to nobody.
LEMMA RestartWatch == ASSUME WatchInv, Shaped', ApiRestarts PROVE WatchInv'
<1>1. /\ row' = row
      /\ \A k \in Checkers : check'[k].stage = "idle"
      /\ \A x \in Proxies : Watched(x) => x \in orphaned'
    BY DEF ApiRestarts, NoCheck, Watched
<1> QED
    BY <1>1 DEF WatchInv, CheckingIsWatched, Watched, Live

\* A proxy shown as "checking" is being checked, or the process that checked it
\* was lost in the middle (check_health).
THEOREM CheckingWatched == Spec => []CheckingIsWatched
<1>1. Init => WatchInv
    BY InitShape DEF Init, WatchInv, CheckingIsWatched, NoRow, NoCheck, Live
<1>2. WatchInv /\ [Next]_vars => WatchInv'
    <2> SUFFICES ASSUME WatchInv, [Next]_vars PROVE WatchInv'
        OBVIOUS
    <2>0. Shaped'
        BY NextShape DEF WatchInv
    <2>1. ASSUME UNCHANGED <<row, check, orphaned>> PROVE WatchInv'
        BY <2>0, <2>1, WatchKept
    <2>2. ASSUME NEW t \in Tasks, Scrape(t) \/ WorkerLost(t) PROVE WatchInv'
        <3>1. CASE ReportCommits(t)
            BY <2>0, <3>1, ReportWatch
        <3>2. CASE Acquire(t) \/ ScrapeEnds(t) \/ ReportReads(t) \/ WorkerLost(t)
            <4>1. UNCHANGED <<row, check, orphaned>>
                BY <3>2 DEF Acquire, ScrapeEnds, ReportReads, WorkerLost
            <4> QED
                BY <2>1, <4>1
        <3> QED
            BY <2>2, <3>1, <3>2 DEF Scrape
    <2>3. \/ UNCHANGED <<row, check, orphaned>>
          \/ Admin \/ ApiRestarts
          \/ \E k \in Checkers : Checker(k)
          \/ \E t \in Tasks : Scrape(t) \/ WorkerLost(t)
        BY DEF Next, vars, Expire
    <2> QED
        BY <2>0, <2>1, <2>2, <2>3, AdminWatch, CheckWatch, RestartWatch
<1>3. WatchInv => CheckingIsWatched
    BY DEF WatchInv
<1> QED
    BY <1>1, <1>2, <1>3, PTL DEF Spec

-----------------------------------------------------------------------------
(* The bound of the counters.                                              *)

\* No counter, in the table or in a copy, is over n.
BoundedBy(n) ==
    /\ \A x \in Proxies : row[x].fail <= n
    /\ \A t \in Tasks : task[t].stage = "reported" => task[t].copy.was.fail <= n
    /\ \A k \in Checkers :
          /\ \A copy \in check[k].todo : copy.was.fail <= n
          /\ check[k].stage = "waiting" => check[k].copy.was.fail <= n

\* Each scrape that runs through a proxy may still count one failure.
Active == {t \in Tasks : task[t].stage \in {"running", "ended", "reported"}}
Spent == used.scrapes - Cardinality(Active)
SpentInv ==
    /\ IsFiniteSet(Active)
    /\ Spent \in Nat
    /\ BoundedBy(Spent)

\* What the counters leave of PoolTypeOK.
PoolRest ==
    /\ hybrid \in BOOLEAN
    /\ redis \in SUBSET Proxies
    /\ memory \in [Processes -> SUBSET Proxies]
    /\ prune \in SUBSET Proxies
    /\ used \in [scrapes : Fails, checks : 0 .. MaxChecks, faults : 0 .. MaxFaults]
    /\ stale \in SUBSET Proxies
    /\ orphaned \in SUBSET Proxies

\* The fields of a task, of a request and of a row.
LEMMA ShapedFields ==
    ASSUME Shaped
    PROVE  /\ \A x \in Proxies : row[x] \in RowShapes /\ row[x].fail \in Nat
           /\ \A t \in Tasks :
                /\ task[t].stage \in {"running", "ended"} => task[t].proxy \in Proxies
                /\ task[t].stage = "reported" =>
                      task[t].copy \in CopyShapes /\ task[t].ok \in BOOLEAN
                /\ task[t].stage \in {"idle", "direct", "running", "ended", "reported"}
           /\ \A k \in Checkers :
                /\ check[k].todo \in SUBSET CopyShapes
                /\ check[k].stage = "waiting" => check[k].copy \in CopyShapes
BY DEF Shaped, RowShapes, TaskShapes, CheckShapes

\* A larger bound is a bound.
LEMMA BoundGrows ==
    ASSUME Shaped, NEW n \in Nat, NEW m \in Nat, n <= m, BoundedBy(n)
    PROVE  BoundedBy(m)
<1>1. \A copy \in CopyShapes : copy.was.fail \in Nat
    BY DEF CopyShapes, RowShapes
<1> QED
    BY <1>1, ShapedFields DEF BoundedBy

\* Written keeps the counter of the table or takes the one of the copy.
LEMMA WrittenFail ==
    ASSUME NEW x \in Proxies, NEW was, NEW is
    PROVE  Written(x, was, is).fail \in {row[x].fail, is.fail}
BY DEF Written

\* Only a report counts; it counts one.
LEMMA ReportBound ==
    ASSUME Shaped, NEW n \in Nat, BoundedBy(n), NEW t \in Tasks, ReportCommits(t)
    PROVE  BoundedBy(n + 1)'
<1> DEFINE x == task[t].copy.proxy
           was == task[t].copy.was
           is == Reported(was, task[t].ok)
<1>1. /\ x \in Proxies /\ was \in RowShapes /\ task[t].ok \in BOOLEAN /\ was.fail \in Nat
      /\ was.fail <= n
    BY ShapedFields DEF ReportCommits, CopyShapes, RowShapes, BoundedBy
<1>2. is.fail \in {0, was.fail + 1}
    BY <1>1 DEF Reported, RowShapes
<1> HIDE DEF is
<1>3. \A y \in Proxies : row'[y].fail <= n + 1
    <2>1. \A y \in Proxies : row[y].fail \in Nat /\ row[y].fail <= n
        BY ShapedFields DEF BoundedBy
    <2>2. Written(x, was, is).fail <= n + 1
        BY <1>1, <1>2, <2>1, WrittenFail
    <2>3. row' = row \/ row' = [row EXCEPT ![x] = Written(x, was, is)]
        BY DEF ReportCommits, is
    <2> QED
        BY <1>1, <2>1, <2>2, <2>3 DEF Shaped
<1>4. /\ task' = [task EXCEPT ![t] = NoTask] /\ check' = check
    BY DEF ReportCommits
<1>5. \A copy \in CopyShapes : copy.was.fail \in Nat
    BY DEF CopyShapes, RowShapes
<1>6. \A u \in Tasks : task'[u].stage = "reported" => task'[u].copy.was.fail <= n + 1
    <2>1. \A u \in Tasks : task'[u] = task[u] \/ task'[u] = NoTask
        BY <1>4 DEF Shaped
    <2> QED
        BY <1>5, <2>1, ShapedFields DEF BoundedBy, NoTask
<1>7. \A k \in Checkers :
          /\ \A copy \in check'[k].todo : copy.was.fail <= n + 1
          /\ check'[k].stage = "waiting" => check'[k].copy.was.fail <= n + 1
    BY <1>4, <1>5, ShapedFields DEF BoundedBy
<1> QED
    BY <1>3, <1>6, <1>7 DEF BoundedBy

\* The other steps of a scrape count nothing.
LEMMA ScrapeBound ==
    ASSUME Shaped, NEW n \in Nat, BoundedBy(n), NEW t \in Tasks,
           Acquire(t) \/ ScrapeEnds(t) \/ ReportReads(t) \/ WorkerLost(t)
    PROVE  BoundedBy(n)'
<1>1. UNCHANGED <<row, check>>
    BY DEF Acquire, ScrapeEnds, ReportReads, WorkerLost
<1>2. \A u \in Tasks \ {t} : task'[u] = task[u]
    BY DEF Acquire, ScrapeEnds, ReportReads, WorkerLost, Shaped
<1>3. task'[t].stage = "reported" => task'[t].copy.was.fail <= n
    <2>1. CASE Acquire(t)
        <3>1. task[t] \in [stage : {"idle", "direct"}, ok : {FALSE}]
            BY <2>1 DEF Acquire, Shaped, TaskShapes
        <3>2. task'[t].stage # "reported"
            BY <2>1, <3>1 DEF Acquire, Shaped
        <3> QED
            BY <3>2
    <2>2. CASE ScrapeEnds(t)
        <3>1. task[t].stage = "running" =>
                task[t] \in [stage : {"running", "ended"}, proxy : Proxies, ok : BOOLEAN]
            BY DEF Shaped, TaskShapes
        <3>2. task'[t].stage # "reported"
            BY <2>2, <3>1 DEF ScrapeEnds, Shaped, NoTask
        <3> QED
            BY <3>2
    <2>3. CASE ReportReads(t)
        <3>1. task[t].proxy \in Proxies
            BY <2>3, ShapedFields DEF ReportReads
        <3>2. \/ task'[t] = NoTask
              \/ task'[t].copy = Copy(task[t].proxy)
            BY <2>3 DEF ReportReads, Shaped
        <3> QED
            BY <3>1, <3>2 DEF NoTask, Copy, BoundedBy
    <2>4. CASE WorkerLost(t)
        BY <2>4 DEF WorkerLost, Shaped, NoTask
    <2> QED
        BY <2>1, <2>2, <2>3, <2>4
<1> QED
    BY <1>1, <1>2, <1>3 DEF BoundedBy

\* Nor does the admin.
LEMMA AdminBound ==
    ASSUME Shaped, NEW n \in Nat, BoundedBy(n), Admin
    PROVE  BoundedBy(n)'
<1>1. UNCHANGED <<task, check>>
    BY DEF Admin, CreateProxy, UpdateProxy, DeleteProxy, PruneChooses, PruneDeletes
<1>2. ASSUME NEW x \in Proxies, NEW on, CreateProxy(x, on), NEW y \in Proxies
      PROVE  row'[y].fail = row[y].fail
    BY <1>2 DEF CreateProxy, Shaped, RowShapes
<1>3. ASSUME NEW x \in Proxies, NEW on, NEW g, UpdateProxy(x, on, g), NEW y \in Proxies
      PROVE  row'[y].fail = row[y].fail
    BY <1>3 DEF UpdateProxy, Shaped, RowShapes
<1>4. ASSUME NEW x \in Proxies, NEW up, Delete(x, up), NEW y \in Proxies
      PROVE  row'[y].fail = row[y].fail
    BY <1>4 DEF Delete, Shaped, RowShapes
<1>5. \A y \in Proxies : row'[y].fail = row[y].fail
    BY <1>2, <1>3, <1>4 DEF Admin, DeleteProxy, PruneChooses, PruneDeletes
<1> QED
    BY <1>1, <1>5 DEF BoundedBy

\* Nor do the checks.
LEMMA CheckBound ==
    ASSUME Shaped, NEW n \in Nat, BoundedBy(n), NEW k \in Checkers, Checker(k)
    PROVE  BoundedBy(n)'
<1>1. task' = task /\ \A j \in Checkers \ {k} : check'[j] = check[j]
    BY DEF Checker, CheckBegins, CheckSends, CheckAnswers, Shaped
<1>2. \A y \in Proxies : row[y].fail \in Nat /\ row[y].fail <= n
    BY ShapedFields DEF BoundedBy
<1>3. ASSUME NEW chosen \in SUBSET Proxies, CheckBegins(k, chosen)
      PROVE  /\ \A y \in Proxies : row'[y].fail <= n
             /\ \A copy \in check'[k].todo : copy.was.fail <= n
             /\ check'[k].stage # "waiting"
    <2>1. check'[k] = [stage |-> "next", todo |-> {Copy(x) : x \in chosen}] /\ row' = row
        BY <1>3 DEF CheckBegins, Shaped
    <2> QED
        BY <1>2, <2>1 DEF Copy
<1>4. CASE CheckSends(k)
    <2>1. PICK copy \in check[k].todo :
            LET x == copy.proxy
                is == [copy.was EXCEPT !.health = "checking"]
            IN  IF Live(x)
                THEN /\ row' = [row EXCEPT ![x] = Written(x, copy.was, is)]
                     /\ check' = [check EXCEPT ![k] =
                                    [stage |-> "waiting", copy |-> [proxy |-> x, was |-> is],
                                     todo |-> check[k].todo \ {copy}]]
                ELSE check' = [check EXCEPT ![k] = NoCheck] /\ UNCHANGED row
        BY <1>4 DEF CheckSends
    <2> DEFINE is == [copy.was EXCEPT !.health = "checking"]
    <2>2. copy.proxy \in Proxies /\ copy.was \in RowShapes
        BY ShapedFields DEF CopyShapes
    <2>3. is.fail = copy.was.fail /\ copy.was.fail <= n
        BY <2>2 DEF RowShapes, BoundedBy
    <2> HIDE DEF is
    <2>4. \A y \in Proxies : row'[y].fail <= n
        <3>1. Written(copy.proxy, copy.was, is).fail <= n
            BY <1>2, <2>2, <2>3, WrittenFail
        <3>2. row' = row \/ row' = [row EXCEPT ![copy.proxy] = Written(copy.proxy, copy.was, is)]
            BY <2>1 DEF is
        <3> QED
            BY <1>2, <2>2, <3>1, <3>2 DEF Shaped
    <2>5. \/ check'[k] = NoCheck
          \/ check'[k] = [stage |-> "waiting", copy |-> [proxy |-> copy.proxy, was |-> is],
                          todo |-> check[k].todo \ {copy}]
        BY <2>1 DEF Shaped, is
    <2>6. /\ \A c \in check'[k].todo : c.was.fail <= n
          /\ check'[k].stage = "waiting" => check'[k].copy.was.fail <= n
        BY <2>3, <2>5 DEF NoCheck, BoundedBy
    <2> QED
        BY <1>1, <2>4, <2>6 DEF BoundedBy
<1>5. ASSUME NEW healthy \in BOOLEAN, CheckAnswers(k, healthy) PROVE BoundedBy(n)'
    <2> DEFINE x == check[k].copy.proxy
               was == check[k].copy.was
               is == IF healthy THEN [was EXCEPT !.health = "healthy", !.fail = 0]
                                ELSE [was EXCEPT !.health = "unhealthy"]
    <2>1. x \in Proxies /\ was \in RowShapes /\ was.fail <= n
        BY <1>5, ShapedFields DEF CheckAnswers, CopyShapes, BoundedBy
    <2>2. is.fail <= n
        BY <2>1 DEF RowShapes
    <2> HIDE DEF is
    <2>3. \A y \in Proxies : row'[y].fail <= n
        <3>1. Written(x, was, is).fail <= n
            BY <1>2, <2>1, <2>2, WrittenFail
        <3>2. row' = row \/ row' = [row EXCEPT ![x] = Written(x, was, is)]
            BY <1>5 DEF CheckAnswers, is
        <3> QED
            BY <1>2, <2>1, <3>1, <3>2 DEF Shaped
    <2>4. check'[k] = NoCheck \/ check'[k] = [stage |-> "next", todo |-> check[k].todo]
        BY <1>5 DEF CheckAnswers, Rest, Shaped
    <2>5. /\ \A c \in check'[k].todo : c.was.fail <= n
          /\ check'[k].stage # "waiting"
        BY <2>4 DEF NoCheck, BoundedBy
    <2> QED
        BY <1>1, <2>3, <2>5 DEF BoundedBy
<1> QED
    BY <1>1, <1>3, <1>4, <1>5 DEF Checker, BoundedBy

\* A call that Redis does not answer is a fault, of which there are few.
LEMMA SpendType ==
    ASSUME PoolRest, NEW up \in BOOLEAN, Answers(up)
    PROVE  /\ Spend(up) \in [scrapes : Fails, checks : 0 .. MaxChecks, faults : 0 .. MaxFaults]
           /\ Spend(up).scrapes = used.scrapes
BY ProxyPoolAssumption DEF PoolRest, Answers, Spend

\* The cooldowns are of proxies.
LEMMA CooldownType ==
    ASSUME PoolRest, NEW p \in Processes, NEW x \in Proxies, NEW up,
           SetCooldown(p, x, up) \/ ClearCooldown(p, x, up)
    PROVE  redis' \in SUBSET Proxies /\ memory' \in [Processes -> SUBSET Proxies]
BY DEF PoolRest, SetCooldown, ClearCooldown

\* The rest of the types.
LEMMA RestKept == ASSUME Shaped, PoolRest, [Next]_vars PROVE PoolRest'
<1> USE ProxyPoolAssumption
<1>1. \A t \in Tasks : ProcessOf(t) \in Processes
    BY DEF ProcessOf, Processes
<1>2. "api" \in Processes /\ Tasks \subseteq Processes
    BY DEF Processes
<1>3. ASSUME NEW t \in Tasks, Acquire(t) PROVE PoolRest'
    <2>1. PICK up \in BOOLEAN :
             /\ Answers(up)
             /\ \/ used' = Spend(up)
                \/ used.scrapes < MaxScrapes /\ used' = [Spend(up) EXCEPT !.scrapes = @ + 1]
        BY <1>3 DEF Acquire
    <2>2. /\ Spend(up) \in [scrapes : Fails, checks : 0 .. MaxChecks, faults : 0 .. MaxFaults]
          /\ Spend(up).scrapes = used.scrapes
        BY <2>1, SpendType
    <2>3. used' \in [scrapes : Fails, checks : 0 .. MaxChecks, faults : 0 .. MaxFaults]
        <3>1. CASE used' = Spend(up)
            BY <2>2, <3>1
        <3>2. CASE used.scrapes < MaxScrapes /\ used' = [Spend(up) EXCEPT !.scrapes = @ + 1]
            <4>1. Spend(up).scrapes + 1 \in Fails
                BY <2>2, <3>2 DEF Fails, PoolRest
            <4> QED
                BY <2>2, <3>2, <4>1
        <3> QED
            BY <2>1, <3>1, <3>2
    <2> QED
        BY <1>3, <2>3 DEF Acquire, PoolRest
<1>4. ASSUME NEW t \in Tasks, ScrapeEnds(t) \/ ReportCommits(t) PROVE PoolRest'
    <2>1. task[t].stage = "reported" => task[t].copy.proxy \in Proxies
        BY ShapedFields DEF CopyShapes
    <2> QED
        BY <1>4, <2>1 DEF ScrapeEnds, ReportCommits, PoolRest
<1>5. ASSUME NEW t \in Tasks, ReportReads(t) PROVE PoolRest'
    <2> DEFINE x == task[t].proxy
               p == ProcessOf(t)
    <2>1. x \in Proxies /\ p \in Processes
        BY <1>1, <1>5, ShapedFields DEF ReportReads
    <2>2. \/ UNCHANGED <<redis, memory, used>>
          \/ \E up \in BOOLEAN :
                /\ Answers(up) /\ used' = Spend(up)
                /\ SetCooldown(p, x, up) \/ ClearCooldown(p, x, up)
        BY <1>5 DEF ReportReads
    <2> HIDE DEF x, p
    <2>3. /\ redis' \in SUBSET Proxies /\ memory' \in [Processes -> SUBSET Proxies]
          /\ used' \in [scrapes : Fails, checks : 0 .. MaxChecks, faults : 0 .. MaxFaults]
        BY <2>1, <2>2, SpendType, CooldownType DEF PoolRest
    <2> QED
        BY <1>5, <2>3 DEF ReportReads, PoolRest
<1>6. ASSUME NEW t \in Tasks, WorkerLost(t) PROVE PoolRest'
    BY <1>2, <1>6 DEF WorkerLost, PoolRest
<1>7. ASSUME NEW x \in Proxies, NEW up \in BOOLEAN, Answers(up), Delete(x, up)
      PROVE  /\ redis' \in SUBSET Proxies /\ memory' \in [Processes -> SUBSET Proxies]
             /\ used' \in [scrapes : Fails, checks : 0 .. MaxChecks, faults : 0 .. MaxFaults]
    BY <1>2, <1>7, SpendType, CooldownType DEF Delete
<1>8. CASE Admin
    <2>1. ASSUME NEW x \in Proxies, DeleteProxy(x) PROVE PoolRest'
        BY <1>7, <2>1 DEF DeleteProxy, PoolRest
    <2>2. ASSUME NEW x \in Proxies, PruneDeletes(x) PROVE PoolRest'
        BY <1>7, <2>2 DEF PruneDeletes, PoolRest
    <2>3. ASSUME NEW x \in Proxies, NEW on \in BOOLEAN, CreateProxy(x, on) PROVE PoolRest'
        BY <2>3 DEF CreateProxy, PoolRest
    <2>4. ASSUME NEW x \in Proxies, NEW on \in BOOLEAN, NEW g \in BOOLEAN, UpdateProxy(x, on, g)
          PROVE  PoolRest'
        BY <2>4 DEF UpdateProxy, PoolRest
    <2>5. ASSUME NEW chosen \in SUBSET Proxies, PruneChooses(chosen) PROVE PoolRest'
        BY <2>5 DEF PruneChooses, PoolRest
    <2> QED
        BY <1>8, <2>1, <2>2, <2>3, <2>4, <2>5 DEF Admin
<1>9. ASSUME NEW k \in Checkers, Checker(k) PROVE PoolRest'
    <2>1. ASSUME NEW chosen \in SUBSET Proxies, CheckBegins(k, chosen) PROVE PoolRest'
        BY <2>1 DEF CheckBegins, PoolRest
    <2>2. CASE CheckSends(k)
        BY <2>2 DEF CheckSends, PoolRest
    <2>3. ASSUME NEW healthy \in BOOLEAN, CheckAnswers(k, healthy) PROVE PoolRest'
        <3>1. check[k].copy.proxy \in Proxies
            BY <2>3, ShapedFields DEF CheckAnswers, CopyShapes
        <3> QED
            BY <2>3, <3>1 DEF CheckAnswers, PoolRest
    <2> QED
        BY <1>9, <2>1, <2>2, <2>3 DEF Checker
<1>10. CASE ApiRestarts
    BY <1>2, <1>10 DEF ApiRestarts, PoolRest
<1>11. ASSUME NEW x \in Proxies, Expire(x) PROVE PoolRest'
    BY <1>11 DEF Expire, PoolRest
<1>12. CASE UNCHANGED vars
    BY <1>12 DEF vars, PoolRest
<1> QED
    BY <1>3, <1>4, <1>5, <1>6, <1>8, <1>9, <1>10, <1>11, <1>12 DEF Next, Scrape

\* One task ends: there is one scrape less to count, and one more is spent.
LEMMA EndsOne ==
    ASSUME SpentInv, PoolRest, NEW t \in Active, Active' = Active \ {t},
           used'.scrapes = used.scrapes
    PROVE  IsFiniteSet(Active)' /\ Spent' = Spent + 1 /\ Spent + 1 \in Nat
<1>1. IsFiniteSet(Active \ {t}) /\ Cardinality(Active \ {t}) = Cardinality(Active) - 1
      /\ Cardinality(Active) \in Nat
    BY FS_RemoveElement, FS_CardinalityType DEF SpentInv
<1>2. used.scrapes \in Nat
    BY ProxyPoolAssumption DEF PoolRest, Fails
<1>3. Cardinality(Active') = Cardinality(Active) - 1
    BY <1>1
<1>4. Spent' = used'.scrapes - Cardinality(Active')
    BY DEF Spent
<1>5. Spent' = Spent + 1
    BY <1>1, <1>2, <1>3, <1>4 DEF Spent
<1> QED
    BY <1>1, <1>5 DEF SpentInv

\* A bound that the next state has, and that is not over what is spent then.
LEMMA BoundMoves ==
    ASSUME Shaped', NEW n \in Nat, BoundedBy(n)', Spent' \in Nat, n <= Spent',
           IsFiniteSet(Active)'
    PROVE  SpentInv'
<1> PICK m \in Nat : m = Spent'
    OBVIOUS
<1>1. /\ \A x \in Proxies : row'[x].fail \in Nat
      /\ \A t \in Tasks : task'[t].stage = "reported" => task'[t].copy \in CopyShapes
      /\ \A k \in Checkers :
            /\ check'[k].todo \in SUBSET CopyShapes
            /\ check'[k].stage = "waiting" => check'[k].copy \in CopyShapes
    BY DEF Shaped, RowShapes, TaskShapes, CheckShapes
<1>2. \A copy \in CopyShapes : copy.was.fail \in Nat
    BY DEF CopyShapes, RowShapes
<1>3. BoundedBy(m)'
    BY <1>1, <1>2 DEF BoundedBy
<1>4. BoundedBy(Spent)'
    BY <1>3 DEF BoundedBy
<1> QED
    BY <1>4 DEF SpentInv

\* What is spent grows by one when a scrape is over, and is the same when it begins.
LEMMA NextSpent ==
    ASSUME Shaped, Shaped', PoolRest, SpentInv, [Next]_vars
    PROVE  SpentInv'
<1> PICK n \in Nat : n = Spent
    BY DEF SpentInv
<1>1. BoundedBy(n)
    BY DEF SpentInv, BoundedBy
<1>2. /\ used.scrapes \in Nat /\ Cardinality(Active) \in Nat
      /\ n = used.scrapes - Cardinality(Active) /\ IsFiniteSet(Active)
    BY ProxyPoolAssumption, FS_CardinalityType DEF PoolRest, Fails, SpentInv, Spent
<1>3. \A t \in Tasks : task[t] \in TaskShapes
    BY DEF Shaped
<1>4. ASSUME used'.scrapes = used.scrapes, BoundedBy(n)',
             Active' = Active \/ \E t \in Active : Active' = Active \ {t}
      PROVE  SpentInv'
    <2>1. CASE Active' = Active
        <3>1. Spent' = n /\ IsFiniteSet(Active)'
            BY <1>2, <1>4, <2>1 DEF Spent
        <3> QED
            BY <1>4, <3>1, BoundMoves
    <2>2. ASSUME NEW t \in Active, Active' = Active \ {t} PROVE SpentInv'
        <3>1. IsFiniteSet(Active)' /\ Spent' = n + 1
            BY <1>4, <2>2, EndsOne
        <3>2. Spent' \in Nat /\ n <= Spent'
            BY <3>1
        <3> QED
            BY <1>4, <3>1, <3>2, BoundMoves
    <2> QED
        BY <1>4, <2>1, <2>2
<1>5. ASSUME NEW t \in Tasks, Acquire(t) PROVE SpentInv'
    <2>1. BoundedBy(n)'
        BY <1>1, <1>5, ScrapeBound
    <2>2. t \notin Active /\ \A u \in Tasks \ {t} : task'[u] = task[u]
        BY <1>5 DEF Acquire, Active, Shaped
    <2>3. PICK up \in BOOLEAN :
             /\ Answers(up)
             /\ \/ /\ used' = Spend(up)
                   /\ task' = [task EXCEPT ![t].stage = "direct"]
                \/ /\ used' = [Spend(up) EXCEPT !.scrapes = @ + 1]
                   /\ \E x : task' =
                        [task EXCEPT ![t] = [stage |-> "running", proxy |-> x, ok |-> FALSE]]
        BY <1>5 DEF Acquire
    <2>4. /\ Spend(up) \in [scrapes : Fails, checks : 0 .. MaxChecks, faults : 0 .. MaxFaults]
          /\ Spend(up).scrapes = used.scrapes
        BY <2>3, SpendType
    <2>5. CASE used' = Spend(up) /\ task' = [task EXCEPT ![t].stage = "direct"]
        <3>1. task'[t].stage = "direct"
            BY <1>3, <1>5, <2>5 DEF Shaped, TaskShapes, Acquire
        <3>2. Active' = Active
            BY <2>2, <3>1 DEF Active
        <3> QED
            BY <1>4, <2>1, <2>4, <2>5, <3>2
    <2>6. CASE /\ used' = [Spend(up) EXCEPT !.scrapes = @ + 1]
               /\ \E x : task' =
                     [task EXCEPT ![t] = [stage |-> "running", proxy |-> x, ok |-> FALSE]]
        <3>1. task'[t].stage = "running"
            BY <2>6 DEF Shaped
        <3>2. Active' = Active \cup {t}
            BY <2>2, <3>1 DEF Active
        <3>3. IsFiniteSet(Active)' /\ Cardinality(Active') = Cardinality(Active) + 1
            BY <1>2, <2>2, <3>2, FS_AddElement
        <3>4. used'.scrapes = used.scrapes + 1
            BY <2>4, <2>6
        <3>5. Spent' = n
            BY <1>2, <3>3, <3>4 DEF Spent
        <3> QED
            BY <2>1, <3>3, <3>5, BoundMoves
    <2> QED
        BY <2>3, <2>5, <2>6
<1>6. ASSUME NEW t \in Tasks, ScrapeEnds(t) PROVE SpentInv'
    <2>1. BoundedBy(n)'
        BY <1>1, <1>6, ScrapeBound
    <2>2. Active' = Active
        <3>1. task[t].stage = "running" =>
                task[t] \in [stage : {"running", "ended"}, proxy : Proxies, ok : BOOLEAN]
            BY <1>3 DEF TaskShapes
        <3>2. /\ \A u \in Tasks \ {t} : task'[u] = task[u]
              /\ \/ task[t].stage = "running" /\ task'[t].stage = "ended"
                 \/ task[t].stage = "direct" /\ task'[t].stage = "idle"
            BY <1>6, <3>1 DEF ScrapeEnds, Shaped, NoTask
        <3> QED
            BY <3>2 DEF Active
    <2> QED
        BY <1>4, <1>6, <2>1, <2>2 DEF ScrapeEnds
<1>7. ASSUME NEW t \in Tasks, ReportReads(t) PROVE SpentInv'
    <2>1. BoundedBy(n)'
        BY <1>1, <1>7, ScrapeBound
    <2>2. Active' = Active \/ \E u \in Active : Active' = Active \ {u}
        <3>1. t \in Active
            BY <1>7 DEF ReportReads, Active
        <3>2. /\ \A u \in Tasks \ {t} : task'[u] = task[u]
              /\ task'[t].stage \in {"idle", "reported"}
            BY <1>7 DEF ReportReads, Shaped, NoTask
        <3>3. CASE task'[t].stage = "idle"
            <4>1. Active' = Active \ {t}
                BY <3>2, <3>3 DEF Active
            <4> QED
                BY <3>1, <4>1
        <3>4. CASE task'[t].stage = "reported"
            BY <3>1, <3>2, <3>4 DEF Active
        <3> QED
            BY <3>2, <3>3, <3>4
    <2>3. used'.scrapes = used.scrapes
        BY <1>7, SpendType DEF ReportReads
    <2> QED
        BY <1>4, <2>1, <2>2, <2>3
<1>8. ASSUME NEW t \in Tasks, ReportCommits(t) PROVE SpentInv'
    <2>1. BoundedBy(n + 1)'
        BY <1>1, <1>8, ReportBound
    <2>2. t \in Active /\ Active' = Active \ {t} /\ used'.scrapes = used.scrapes
        BY <1>8 DEF ReportCommits, Active, Shaped, NoTask
    <2>3. IsFiniteSet(Active)' /\ Spent' = n + 1
        BY <2>2, EndsOne
    <2> QED
        BY <2>1, <2>3, BoundMoves
<1>9. ASSUME NEW t \in Tasks, WorkerLost(t) PROVE SpentInv'
    <2>1. BoundedBy(n)'
        BY <1>1, <1>9, ScrapeBound
    <2>2. /\ \A u \in Tasks \ {t} : task'[u] = task[u]
          /\ task'[t].stage = "idle" /\ used'.scrapes = used.scrapes
        BY <1>9 DEF WorkerLost, Shaped, NoTask, PoolRest
    <2>3. CASE t \in Active
        <3>1. Active' = Active \ {t}
            BY <2>2 DEF Active
        <3> QED
            BY <1>4, <2>1, <2>2, <2>3, <3>1
    <2>4. CASE t \notin Active
        <3>1. Active' = Active
            BY <2>2, <2>4 DEF Active
        <3> QED
            BY <1>4, <2>1, <2>2, <3>1
    <2> QED
        BY <2>3, <2>4
<1>10. CASE Admin
    <2>1. task' = task /\ used'.scrapes = used.scrapes
        BY <1>10, SpendType DEF Admin, CreateProxy, UpdateProxy, DeleteProxy, PruneChooses,
           PruneDeletes, Delete
    <2> QED
        BY <1>1, <1>4, <1>10, <2>1, AdminBound DEF Active
<1>11. ASSUME NEW k \in Checkers, Checker(k) PROVE SpentInv'
    <2>1. task' = task /\ used'.scrapes = used.scrapes
        BY <1>11 DEF Checker, CheckBegins, CheckSends, CheckAnswers, PoolRest
    <2> QED
        BY <1>1, <1>4, <1>11, <2>1, CheckBound DEF Active
<1>12. CASE ApiRestarts
    <2>1. /\ row' = row /\ used'.scrapes = used.scrapes
          /\ \A k \in Checkers : check'[k] = NoCheck
          /\ \A t \in Tasks : task'[t] = task[t] \/ task'[t] = NoTask
          /\ task' = task \/ \A t \in Tasks : task'[t] = NoTask
        BY <1>12 DEF ApiRestarts, PoolRest
    <2>2. BoundedBy(n)'
        BY <1>1, <2>1 DEF BoundedBy, NoCheck, NoTask
    <2>3. CASE Active' = Active
        BY <1>4, <2>1, <2>2, <2>3
    <2>4. CASE Active' = {}
        <3>1. IsFiniteSet(Active') /\ Cardinality(Active') = 0
            BY <2>4, FS_EmptySet
        <3>2. Spent' = used.scrapes
            BY <1>2, <2>1, <3>1 DEF Spent
        <3> QED
            BY <1>2, <2>2, <3>1, <3>2, BoundMoves
    <2> QED
        BY <2>1, <2>3, <2>4 DEF Active, NoTask
<1>13. ASSUME NEW x \in Proxies, Expire(x) PROVE SpentInv'
    <2>1. UNCHANGED <<row, task, check, used>>
        BY <1>13 DEF Expire
    <2> QED
        BY <1>1, <1>4, <2>1 DEF Active, BoundedBy
<1>14. CASE UNCHANGED vars
    BY <1>1, <1>4, <1>14 DEF vars, Active, BoundedBy
<1> QED
    BY <1>5, <1>6, <1>7, <1>8, <1>9, <1>10, <1>11, <1>12, <1>13, <1>14 DEF Next, Scrape

\* The pool is typed: no counter gets over the scrapes that ran through a proxy.
THEOREM PoolTypeCorrect == Spec => []PoolTypeOK
<1>1. Init => Shaped /\ PoolRest /\ SpentInv
    <2>1. SUFFICES ASSUME Init PROVE PoolRest /\ SpentInv
        BY InitShape
    <2>2. PoolRest
        BY <2>1, ProxyPoolAssumption DEF Init, PoolRest, Fails
    <2>3. Active = {} /\ used.scrapes = 0
        BY <2>1 DEF Init, Active, NoTask
    <2>4. IsFiniteSet(Active) /\ Spent = 0
        BY <2>3, FS_EmptySet DEF Spent
    <2>5. BoundedBy(0)
        BY <2>1 DEF Init, BoundedBy, NoRow, NoTask, NoCheck
    <2> QED
        BY <2>2, <2>4, <2>5 DEF SpentInv
<1>2. Shaped /\ PoolRest /\ SpentInv /\ [Next]_vars => Shaped' /\ PoolRest' /\ SpentInv'
    BY NextShape, RestKept, NextSpent
<1>3. Shaped /\ PoolRest /\ SpentInv => PoolTypeOK
    <2>1. SUFFICES ASSUME Shaped, PoolRest, SpentInv PROVE PoolTypeOK
        OBVIOUS
    <2>2. Spent \in Nat /\ Spent <= MaxScrapes
        BY <2>1, ProxyPoolAssumption, FS_CardinalityType DEF SpentInv, Spent, PoolRest, Fails
    <2> PICK n \in Nat : n = Spent
        BY <2>2
    <2>3. BoundedBy(n)
        BY <2>1 DEF SpentInv
    <2>4. \A r \in RowShapes : r.fail <= n => r \in Rows
        BY <2>2, ProxyPoolAssumption DEF RowShapes, Rows, Fails
    <2>5. \A copy \in CopyShapes : copy.was.fail <= n => copy \in Copies
        BY <2>4 DEF CopyShapes, Copies
    <2>6. row \in [Proxies -> Rows]
        BY <2>1, <2>3, <2>4 DEF Shaped, BoundedBy
    <2>7. ASSUME NEW t \in Tasks
          PROVE  task[t] \in [stage : {"idle", "direct"}, ok : {FALSE}]
                   \cup [stage : {"running", "ended"}, proxy : Proxies, ok : BOOLEAN]
                   \cup [stage : {"reported"}, copy : Copies, ok : BOOLEAN]
        BY <2>1, <2>3, <2>5 DEF Shaped, BoundedBy, TaskShapes
    <2>8. ASSUME NEW k \in Checkers
          PROVE  check[k] \in [stage : {"idle", "next"}, todo : SUBSET Copies]
                    \cup [stage : {"waiting"}, copy : Copies, todo : SUBSET Copies]
        BY <2>1, <2>3, <2>5 DEF Shaped, BoundedBy, CheckShapes
    <2> QED
        BY <2>1, <2>6, <2>7, <2>8 DEF PoolTypeOK, PoolRest, Shaped
<1> QED
    BY <1>1, <1>2, <1>3, PTL DEF Spec
=============================================================================
