------------------------------ MODULE ProxyPool ------------------------------
(***************************************************************************)
(* The proxy pool.  A scrape acquires a proxy, runs through it and reports *)
(* how it went; an admin adds, edits, deletes, prunes and checks proxies.  *)
(* Each of them works on its own copy of the row: what it read at the      *)
(* start of its transaction decides what it writes at the end, and only    *)
(* the columns it changed with respect to that copy reach the table.       *)
(*                                                                         *)
(* A proxy that failed MaxFail times in a row cools down for a while.  In  *)
(* the hybrid deployment the cooldowns are keys in Redis, and a process    *)
(* uses its own memory while Redis does not answer; in local mode the one  *)
(* process has only its memory.                                            *)
(***************************************************************************)
EXTENDS Integers, FiniteSets

CONSTANTS
    Proxies,        \* identities of proxy rows
    Tasks,          \* scrapes that run at the same time
    Checkers,       \* requests that check proxies at the same time
    MaxFail,        \* proxy_pool_max_fail_streak
    MaxScrapes,     \* bound on the scrapes that run through a proxy
    MaxChecks,      \* bound on the health checks
    MaxFaults       \* bound on lost processes and on calls Redis does not answer

ASSUME ProxyPoolAssumption ==
    /\ MaxFail \in Nat \ {0}
    /\ MaxScrapes \in Nat
    /\ MaxChecks \in Nat
    /\ MaxFaults \in Nat

VARIABLES
    hybrid,     \* LOCAL_MODE=false
    row,        \* row[x] = the ProxyEndpoint row
    redis,      \* proxies with a cooldown key in Redis
    memory,     \* memory[p] = proxies process p remembers as cooling
    task,       \* task[t] = how far the scrape of t has got
    check,      \* check[k] = the rows the request still has to check, and its stage
    prune,      \* the proxies a prune request has chosen and not yet deleted
    used,       \* scrapes and checks started, and faults so far
    streak,     \* streak[x] = failures reported since x last worked
    stale,      \* proxies whose counter was once written from an old copy
    orphaned    \* proxies whose check was lost with the process

vars == <<hybrid, row, redis, memory, task, check, prune, used, streak, stale, orphaned>>

Health == {"unknown", "checking", "healthy", "unhealthy"}
Fails == 0 .. MaxScrapes
Rows == [life : {"unused", "live", "deleted"}, enabled : BOOLEAN, health : Health, fail : Fails]
NoRow == [life |-> "unused", enabled |-> FALSE, health |-> "unknown", fail |-> 0]

\* In local mode everything runs in the API process.
Processes == Tasks \cup {"api"}
ProcessOf(t) == IF hybrid THEN t ELSE "api"

NoTask == [stage |-> "idle", ok |-> FALSE]
NoCheck == [stage |-> "idle", todo |-> {}]

\* A copy of a row as some transaction read it.
Copies == [proxy : Proxies, was : Rows]

PoolTypeOK ==
    /\ hybrid \in BOOLEAN
    /\ row \in [Proxies -> Rows]
    /\ redis \in SUBSET Proxies
    /\ memory \in [Processes -> SUBSET Proxies]
    /\ task \in [Tasks ->
                   [stage : {"idle", "direct"}, ok : {FALSE}]
                   \cup [stage : {"running", "ended"}, proxy : Proxies, ok : BOOLEAN]
                   \cup [stage : {"reported"}, copy : Copies, ok : BOOLEAN]]
    /\ check \in [Checkers ->
                    [stage : {"idle", "next"}, todo : SUBSET Copies]
                    \cup [stage : {"waiting"}, copy : Copies, todo : SUBSET Copies]]
    /\ prune \in SUBSET Proxies
    /\ used \in [scrapes : Fails, checks : 0 .. MaxChecks, faults : 0 .. MaxFaults]
    /\ streak \in [Proxies -> Nat]
    /\ stale \in SUBSET Proxies
    /\ orphaned \in SUBSET Proxies

Init ==
    /\ hybrid \in BOOLEAN
    /\ row = [x \in Proxies |-> NoRow]
    /\ redis = {}
    /\ memory = [p \in Processes |-> {}]
    /\ task = [t \in Tasks |-> NoTask]
    /\ check = [k \in Checkers |-> NoCheck]
    /\ prune = {}
    /\ used = [scrapes |-> 0, checks |-> 0, faults |-> 0]
    /\ streak = [x \in Proxies |-> 0]
    /\ stale = {}
    /\ orphaned = {}

-----------------------------------------------------------------------------
(* Copies and cooldowns.                                                   *)

Live(x) == row[x].life = "live"
Copy(x) == [proxy |-> x, was |-> row[x]]

\* The table after a transaction that read `was` and made it `is` commits: a
\* column it left as it was keeps what others have written since.
Written(x, was, is) ==
    [life    |-> row[x].life,
     enabled |-> row[x].enabled,
     health  |-> IF is.health = was.health THEN row[x].health ELSE is.health,
     fail    |-> IF is.fail = was.fail THEN row[x].fail ELSE is.fail]

\* Redis is asked only in the hybrid deployment, and may not answer.
Answers(up) ==
    /\ ~hybrid => up
    /\ ~up => used.faults < MaxFaults
Spend(up) == [used EXCEPT !.faults = IF up THEN @ ELSE @ + 1]

Cooling(p, x, up) == IF hybrid /\ up THEN x \in redis ELSE x \in memory[p]

SetCooldown(p, x, up) ==
    /\ memory' = [memory EXCEPT ![p] = @ \cup {x}]
    /\ redis' = IF hybrid /\ up THEN redis \cup {x} ELSE redis

ClearCooldown(p, x, up) ==
    /\ memory' = [memory EXCEPT ![p] = @ \ {x}]
    /\ redis' = IF hybrid /\ up THEN redis \ {x} ELSE redis

\* The time to live of a key, or of an entry of a process's memory, is over.
Expire(x) ==
    \/ /\ x \in redis
       /\ redis' = redis \ {x}
       /\ UNCHANGED <<hybrid, row, memory, task, check, prune, used, streak, stale, orphaned>>
    \/ \E p \in Processes :
          /\ x \in memory[p]
          /\ memory' = [memory EXCEPT ![p] = @ \ {x}]
          /\ UNCHANGED <<hybrid, row, redis, task, check, prune, used, streak, stale, orphaned>>

-----------------------------------------------------------------------------
(* One scrape.                                                             *)

Available(p, up) == {x \in Proxies : Live(x) /\ row[x].enabled /\ ~Cooling(p, x, up)}

\* The index comes from a hash that differs between processes, or from a
\* counter: any available proxy.  With none, the scrape runs through the
\* configured address or directly, and reports nothing.
Acquire(t) ==
    \E up \in BOOLEAN :
      /\ Answers(up)
      /\ task[t].stage = "idle"
      /\ IF Available(ProcessOf(t), up) = {}
         THEN /\ task' = [task EXCEPT ![t].stage = "direct"]
              /\ used' = Spend(up)
         ELSE /\ used.scrapes < MaxScrapes
              /\ used' = [Spend(up) EXCEPT !.scrapes = @ + 1]
              /\ \E x \in Available(ProcessOf(t), up) :
                    task' = [task EXCEPT ![t] = [stage |-> "running", proxy |-> x, ok |-> FALSE]]
      /\ UNCHANGED <<hybrid, row, redis, memory, check, prune, streak, stale, orphaned>>

\* The scrape marks a success, marks a failure, or raises: a raise reports
\* the failure the session began with.
ScrapeEnds(t) ==
    \/ /\ task[t].stage = "running"
       /\ \E ok \in BOOLEAN : task' = [task EXCEPT ![t].stage = "ended", ![t].ok = ok]
       /\ UNCHANGED <<hybrid, row, redis, memory, check, prune, used, streak, stale, orphaned>>
    \/ /\ task[t].stage = "direct"
       /\ task' = [task EXCEPT ![t] = NoTask]
       /\ UNCHANGED <<hybrid, row, redis, memory, check, prune, used, streak, stale, orphaned>>

\* report_result reads the row, decides, and changes the cooldown at once; a
\* row that is gone is not reported.
\* (Bugs would be to keep the counter at a success, or to count it down.)
ReportedKeeps(was, ok) ==
    IF ok THEN [was EXCEPT !.health = "healthy"]
    ELSE [was EXCEPT !.fail = @ + 1]

ReportedCountsDown(was, ok) ==
    IF ok THEN [was EXCEPT !.fail = @ - 1, !.health = "healthy"]
    ELSE [was EXCEPT !.fail = @ + 1]

Reported(was, ok) ==
    IF ok THEN [was EXCEPT !.fail = 0, !.health = "healthy"]
    ELSE [was EXCEPT !.fail = @ + 1,
                     !.health = IF was.fail + 1 >= MaxFail THEN "unhealthy" ELSE @]

ReportReads(t) ==
    /\ task[t].stage = "ended"
    /\ LET x == task[t].proxy
           ok == task[t].ok
       IN  IF ~Live(x)
           THEN /\ task' = [task EXCEPT ![t] = NoTask]
                /\ UNCHANGED <<redis, memory, used>>
           ELSE \E up \in BOOLEAN :
                  /\ Answers(up)
                  /\ task' = [task EXCEPT ![t] =
                                [stage |-> "reported", copy |-> Copy(x), ok |-> ok]]
                  /\ CASE ok -> /\ ClearCooldown(ProcessOf(t), x, up)
                                /\ used' = Spend(up)
                       [] ~ok /\ row[x].fail + 1 >= MaxFail ->
                                /\ SetCooldown(ProcessOf(t), x, up)
                                /\ used' = Spend(up)
                       [] OTHER -> up /\ UNCHANGED <<redis, memory, used>>
    /\ UNCHANGED <<hybrid, row, check, prune, streak, stale, orphaned>>

\* The update of a row that was deleted meanwhile fails, and raises.
ReportCommits(t) ==
    /\ task[t].stage = "reported"
    /\ LET x == task[t].copy.proxy
           was == task[t].copy.was
       IN  IF Live(x)
           THEN /\ row' = [row EXCEPT ![x] = Written(x, was, Reported(was, task[t].ok))]
                /\ streak' = [streak EXCEPT ![x] = IF task[t].ok THEN 0 ELSE @ + 1]
                /\ stale' = IF row[x].fail = was.fail THEN stale ELSE stale \cup {x}
           ELSE UNCHANGED <<row, streak, stale>>
    /\ task' = [task EXCEPT ![t] = NoTask]
    /\ UNCHANGED <<hybrid, redis, memory, check, prune, used, orphaned>>

\* A worker process dies: its scrape is not reported, its memory is gone.
WorkerLost(t) ==
    /\ hybrid
    /\ used.faults < MaxFaults
    /\ task[t].stage # "idle"
    /\ task' = [task EXCEPT ![t] = NoTask]
    /\ memory' = [memory EXCEPT ![t] = {}]
    /\ used' = [used EXCEPT !.faults = @ + 1]
    /\ UNCHANGED <<hybrid, row, redis, check, prune, streak, stale, orphaned>>

-----------------------------------------------------------------------------
(* The admin.                                                              *)

CreateProxy(x, on) ==
    /\ row[x].life = "unused"
    /\ row' = [row EXCEPT ![x].life = "live", ![x].enabled = on]
    /\ UNCHANGED <<hybrid, redis, memory, task, check, prune, used, streak, stale, orphaned>>

\* A gateway that cannot be rebuilt marks the edited vmess or vless row.
UpdateProxy(x, on, gatewayFailed) ==
    /\ Live(x)
    /\ row' = [row EXCEPT ![x].enabled = on,
                          ![x].health = IF gatewayFailed THEN "unhealthy" ELSE @]
    /\ UNCHANGED <<hybrid, redis, memory, task, check, prune, used, streak, stale, orphaned>>

Delete(x, up) ==
    /\ row' = [row EXCEPT ![x].life = "deleted"]
    /\ ClearCooldown("api", x, up)
    /\ used' = Spend(up)

DeleteProxy(x) ==
    \E up \in BOOLEAN :
      /\ Answers(up)
      /\ Live(x)
      /\ Delete(x, up)
      /\ UNCHANGED <<hybrid, task, check, prune, streak, stale, orphaned>>

\* The proxies to prune are the ones the admin names, or the ones the cluster
\* page lists as bad when the request arrives; they are deleted one by one.
PruneChooses(chosen) ==
    /\ prune = {}
    /\ chosen # {}
    /\ \A x \in chosen : Live(x) /\ row[x].health = "unhealthy"
    /\ prune' = chosen
    /\ UNCHANGED <<hybrid, row, redis, memory, task, check, used, streak, stale, orphaned>>

PruneDeletes(x) ==
    \E up \in BOOLEAN :
      /\ Answers(up)
      /\ x \in prune
      /\ prune' = prune \ {x}
      /\ IF Live(x) THEN Delete(x, up)
                    ELSE up /\ UNCHANGED <<row, redis, memory, used>>
      /\ UNCHANGED <<hybrid, task, check, streak, stale, orphaned>>

\* check-all loads every row first and checks the enabled ones in turn, each
\* from the copy loaded then; a single check loads one row.
CheckBegins(k, chosen) ==
    /\ check[k].stage = "idle"
    /\ used.checks < MaxChecks
    /\ chosen # {}
    /\ \A x \in chosen : Live(x)
    /\ check' = [check EXCEPT ![k] = [stage |-> "next", todo |-> {Copy(x) : x \in chosen}]]
    /\ used' = [used EXCEPT !.checks = @ + 1]
    /\ UNCHANGED <<hybrid, row, redis, memory, task, prune, streak, stale, orphaned>>

\* The row is shown as being checked before the request is sent.
CheckSends(k) ==
    /\ check[k].stage = "next"
    /\ \E copy \in check[k].todo :
         LET x == copy.proxy
             is == [copy.was EXCEPT !.health = "checking"]
         IN  IF Live(x)
             THEN /\ row' = [row EXCEPT ![x] = Written(x, copy.was, is)]
                  /\ check' = [check EXCEPT ![k] =
                                 [stage |-> "waiting", copy |-> [proxy |-> x, was |-> is],
                                  todo |-> check[k].todo \ {copy}]]
             ELSE check' = [check EXCEPT ![k] = NoCheck] /\ UNCHANGED row
    /\ UNCHANGED <<hybrid, redis, memory, task, prune, used, streak, stale, orphaned>>

Rest(k) == IF check[k].todo = {} THEN NoCheck ELSE [stage |-> "next", todo |-> check[k].todo]

\* A bug would be to leave the status as it is when the request fails.
CheckAnswersSilent(k, healthy) ==
    /\ check[k].stage = "waiting"
    /\ LET x == check[k].copy.proxy
           was == check[k].copy.was
           is == IF healthy THEN [was EXCEPT !.health = "healthy", !.fail = 0] ELSE was
       IN  row' = [row EXCEPT ![x] = Written(x, was, is)]
    /\ check' = [check EXCEPT ![k] = Rest(k)]
    /\ UNCHANGED <<hybrid, redis, memory, task, prune, used, streak, stale, orphaned>>

\* A healthy answer clears the counter and leaves the cooldown.
CheckAnswers(k, healthy) ==
    /\ check[k].stage = "waiting"
    /\ LET x == check[k].copy.proxy
           was == check[k].copy.was
           is == IF healthy THEN [was EXCEPT !.health = "healthy", !.fail = 0]
                            ELSE [was EXCEPT !.health = "unhealthy"]
       IN  IF Live(x)
           THEN /\ row' = [row EXCEPT ![x] = Written(x, was, is)]
                /\ streak' = IF healthy THEN [streak EXCEPT ![x] = 0] ELSE streak
                /\ stale' = IF healthy /\ row[x].fail # was.fail THEN stale \cup {x} ELSE stale
                /\ check' = [check EXCEPT ![k] = Rest(k)]
           ELSE check' = [check EXCEPT ![k] = NoCheck] /\ UNCHANGED <<row, streak, stale>>
    /\ UNCHANGED <<hybrid, redis, memory, task, prune, used, orphaned>>

\* The API process restarts: its memory, its requests and, in local mode, the
\* scrapes are gone.
ApiRestarts ==
    /\ used.faults < MaxFaults
    /\ used' = [used EXCEPT !.faults = @ + 1]
    /\ memory' = [memory EXCEPT !["api"] = {}]
    /\ task' = IF hybrid THEN task ELSE [t \in Tasks |-> NoTask]
    /\ orphaned' = orphaned \cup
                      {x \in Proxies : \E k \in Checkers :
                          check[k].stage = "waiting" /\ check[k].copy.proxy = x}
    /\ check' = [k \in Checkers |-> NoCheck]
    /\ prune' = {}
    /\ UNCHANGED <<hybrid, row, redis, streak, stale>>

Admin ==
    \/ \E x \in Proxies, on \in BOOLEAN : CreateProxy(x, on)
    \/ \E x \in Proxies, on \in BOOLEAN, gatewayFailed \in BOOLEAN :
          UpdateProxy(x, on, gatewayFailed)
    \/ \E x \in Proxies : DeleteProxy(x)
    \/ \E chosen \in SUBSET Proxies : PruneChooses(chosen)
    \/ \E x \in Proxies : PruneDeletes(x)

Checker(k) ==
    \/ \E chosen \in SUBSET Proxies : CheckBegins(k, chosen)
    \/ CheckSends(k)
    \/ \E healthy \in BOOLEAN : CheckAnswers(k, healthy)

Scrape(t) == Acquire(t) \/ ScrapeEnds(t) \/ ReportReads(t) \/ ReportCommits(t)

Next ==
    \/ Admin
    \/ \E k \in Checkers : Checker(k)
    \/ ApiRestarts
    \/ \E x \in Proxies : Expire(x)
    \/ \E t \in Tasks : Scrape(t) \/ WorkerLost(t)

Spec == Init /\ [][Next]_vars

-----------------------------------------------------------------------------
(* Properties.                                                             *)

\* The counter a proxy is judged by is the number of failures reported since
\* it last worked, as long as no transaction wrote it from an old copy
\* (report_result and check_health, each in its own process).
StreakExact ==
    \A x \in Proxies : Live(x) /\ x \notin stale => row[x].fail = streak[x]

\* A proxy shown as "checking" is being checked, or the process that checked it
\* was lost in the middle (check_health).
CheckingIsWatched ==
    \A x \in Proxies : Live(x) /\ row[x].health = "checking" =>
        \/ \E k \in Checkers : check[k].stage = "waiting" /\ check[k].copy.proxy = x
        \/ x \in orphaned
=============================================================================
