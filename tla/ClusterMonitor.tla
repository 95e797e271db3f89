--------------------------- MODULE ClusterMonitor ---------------------------
(***************************************************************************)
(* What the cluster page shows of a node: its API, its Beat and its Celery *)
(* workers.  API and Beat each store a key in Redis that expires, and      *)
(* store it again after a pause; the API counts the workers before.  The   *)
(* page takes what the key says, and the age it has by the clock of its    *)
(* own host.                                                               *)
(***************************************************************************)
EXTENDS Integers

CONSTANTS
    Ttl,            \* HEARTBEAT_TTL_SECONDS, in steps of the clock
    Period,         \* the pause between two heartbeats
    Lag,            \* most steps a heartbeat takes
    Skew,           \* most steps by which the clocks of two hosts differ
    Expected,       \* workers that the node should have
    MaxWorkers

ASSUME ClusterAssumption ==
    /\ {Lag, Skew, Expected, MaxWorkers} \subseteq Nat
    /\ {Ttl, Period} \subseteq Nat \ {0}
    /\ 2 * (Period + Lag) + Skew < Ttl

VARIABLES
    process,    \* process[p] = where the loop of the API, or of Beat, is
    age,        \* age[p] = steps since p's key was stored, Ttl when it is gone
    told,       \* the number of workers in the API's key
    missed,     \* missed[p] = stores that failed since the last one that did not
    workers,    \* the workers that run
    enoughAgo,  \* steps since there were enough of them (history)
    skew        \* the page's clock minus the node's, at its worst

clusterVars == <<process, age, told, missed, workers, enoughAgo, skew>>

Processes == {"api", "beat"}
Down == [stage |-> "down"]
Due == [stage |-> "due", steps |-> 0]
Counted == 0 .. MaxWorkers

\* int(expected * 0.6), and at least one
Enough == IF (6 * Expected) \div 10 > 1 THEN (6 * Expected) \div 10 ELSE 1

ClusterTypeOK ==
    /\ process \in [Processes -> {Down}
          \cup [stage : {"sleep"}, steps : 1 .. Period] \cup [stage : {"due"}, steps : 0 .. Lag]
          \cup [stage : {"store"}, steps : 0 .. Lag, count : Counted]]
    /\ age \in [Processes -> 0 .. Ttl]
    /\ told \in Counted
    /\ missed \in [Processes -> 0 .. 2]
    /\ workers \in Counted
    /\ enoughAgo \in 0 .. Ttl + Lag + 1
    /\ skew \in {-Skew, Skew}

ClusterInit ==
    /\ process = [p \in Processes |-> Down]
    /\ age = [p \in Processes |-> Ttl]
    /\ told = 0
    /\ missed = [p \in Processes |-> 2]
    /\ workers = 0
    /\ enoughAgo = Ttl + Lag + 1
    /\ skew \in {-Skew, Skew}

-----------------------------------------------------------------------------
AtMost(n, bound) == IF n < bound THEN n ELSE bound

\* A step of the clock: keys age, pauses end, and a heartbeat that is due is
\* stored within its lag.
Later(p) ==
    CASE process[p] = Down -> Down
      [] process[p] # Down /\ process[p].stage = "sleep" ->
            IF process[p].steps = 1 THEN Due ELSE [process[p] EXCEPT !.steps = @ - 1]
      [] OTHER -> [process[p] EXCEPT !.steps = @ + 1]

ClockStep ==
    /\ \A p \in Processes : process[p].stage \in {"due", "store"} => process[p].steps < Lag
    /\ process' = [p \in Processes |-> Later(p)]
    /\ age' = [p \in Processes |-> AtMost(age[p] + 1, Ttl)]
    /\ enoughAgo' = IF workers >= Enough THEN 0 ELSE AtMost(enoughAgo + 1, Ttl + Lag + 1)
    /\ UNCHANGED <<told, missed, workers, skew>>

\* A process starts with a heartbeat, and dies.
ProcessStarts(p) ==
    /\ process[p] = Down
    /\ process' = [process EXCEPT ![p] = Due]
    /\ missed' = [missed EXCEPT ![p] = 2]
    /\ UNCHANGED <<age, told, workers, enoughAgo, skew>>

ProcessDies(p) ==
    /\ process[p] # Down
    /\ process' = [process EXCEPT ![p] = Down]
    /\ UNCHANGED <<age, told, missed, workers, enoughAgo, skew>>

WorkersChange(n) ==
    /\ n # workers
    /\ workers' = n
    /\ enoughAgo' = IF n >= Enough THEN 0 ELSE enoughAgo
    /\ UNCHANGED <<process, age, told, missed, skew>>

\* What an inspection finds: workers that do not answer in time are not
\* counted.  (A bug would be to repeat what the key said when none answers.)
FoundKeeps(n) == n \in 0 .. workers \/ n = told
Found(n) == n \in 0 .. workers

\* publish_current_node_heartbeat counts first; Beat's loop counts nothing.
CountWorkers(n) ==
    /\ process["api"].stage = "due"
    /\ Found(n)
    /\ process' = [process EXCEPT !["api"] =
                     [stage |-> "store", steps |-> process["api"].steps, count |-> n]]
    /\ UNCHANGED <<age, told, missed, workers, enoughAgo, skew>>

Slept == [stage |-> "sleep", steps |-> Period]

\* (A bug would be to store a key only when it says something new.)
StoreKeyIfNew(p, stored) ==
    /\ process[p].stage = IF p = "api" THEN "store" ELSE "due"
    /\ process' = [process EXCEPT ![p] = Slept]
    /\ IF stored /\ (p = "api" => process[p].count # told \/ age[p] = Ttl)
       THEN age' = [age EXCEPT ![p] = 0] ELSE UNCHANGED age
    /\ missed' = [missed EXCEPT ![p] = IF stored THEN 0 ELSE AtMost(@ + 1, 2)]
    /\ told' = IF stored /\ p = "api" THEN process[p].count ELSE told
    /\ UNCHANGED <<workers, enoughAgo, skew>>

\* setex, which Redis may not answer.
StoreKey(p, stored) ==
    /\ process[p].stage = IF p = "api" THEN "store" ELSE "due"
    /\ process' = [process EXCEPT ![p] = Slept]
    /\ IF stored THEN /\ age' = [age EXCEPT ![p] = 0]
                      /\ missed' = [missed EXCEPT ![p] = 0]
       ELSE missed' = [missed EXCEPT ![p] = AtMost(@ + 1, 2)] /\ UNCHANGED age
    /\ told' = IF stored /\ p = "api" THEN process[p].count ELSE told
    /\ UNCHANGED <<workers, enoughAgo, skew>>

ClusterNext ==
    \/ ClockStep
    \/ \E p \in Processes : ProcessStarts(p) \/ ProcessDies(p)
    \/ \E n \in Counted : WorkersChange(n) \/ CountWorkers(n)
    \/ \E p \in Processes, stored \in BOOLEAN : StoreKey(p, stored)

ClusterSpec == ClusterInit /\ [][ClusterNext]_clusterVars

-----------------------------------------------------------------------------
(* The page, when Redis answers it and its own inspection counts n.        *)

KeyThere(p) == age[p] < Ttl
Online == KeyThere("api") /\ age["api"] + skew <= Ttl
ShownWorkers(n) == IF KeyThere("api") /\ told > n THEN told ELSE n
WorkersOk(n) == Online /\ ShownWorkers(n) >= Enough
BeatShown == KeyThere("beat")

-----------------------------------------------------------------------------
(* Properties.                                                             *)

\* An API, or a Beat, that runs and has stored one of its last two heartbeats is
\* shown, whatever the clocks of the hosts say: no false alarm, and one lost
\* write is forgiven (_build_node_view, _cluster_heartbeat_loop).
RunningIsShown ==
    /\ process["api"] # Down /\ missed["api"] <= 1 => Online
    /\ process["beat"] # Down /\ missed["beat"] <= 1 => BeatShown

\* A node that is shown with workers enough had as many within the life of a
\* key: a lost node and lost workers are shown (_build_node_view,
\* _worker_status).
WorkersWereThere ==
    \A n \in 0 .. workers : WorkersOk(n) => enoughAgo <= Ttl + Lag
=============================================================================
