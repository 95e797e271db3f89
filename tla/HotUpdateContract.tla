------------------------- MODULE HotUpdateContract -------------------------
(***************************************************************************)
(* What line B (the hot update) promises for every monitored group, as     *)
(* the docstring of run_hot_update_for_group states it: a group is updated *)
(* by one run at a time, a request that finds the group running is         *)
(* skipped, and last_hot_update_at moves only when a run completes.        *)
(* A run is cut short by an exception (Abort) or by the death of the       *)
(* process (Crash); neither moves the stamp.                               *)
(***************************************************************************)
EXTENDS Naturals

CONSTANT Groups

VARIABLES
    active,     \* active[g] = number of line B bodies in progress for g
    stamp       \* stamp[g] = last_hot_update_at of g, 0 when NULL

cvars == <<active, stamp>>

Init ==
    /\ active = [g \in Groups |-> 0]
    /\ stamp = [g \in Groups |-> 0]

Start(g) ==
    /\ active[g] = 0
    /\ active' = [active EXCEPT ![g] = 1]
    /\ UNCHANGED stamp

Finish(g) ==
    /\ active[g] = 1
    /\ active' = [active EXCEPT ![g] = 0]
    /\ stamp'[g] >= stamp[g]
    /\ stamp' = [stamp EXCEPT ![g] = stamp'[g]]

Abort(g) ==
    /\ active[g] = 1
    /\ active' = [active EXCEPT ![g] = 0]
    /\ UNCHANGED stamp

Crash ==
    /\ active' = [g \in Groups |-> 0]
    /\ UNCHANGED stamp

Next ==
    \/ Crash
    \/ \E g \in Groups : Start(g) \/ Finish(g) \/ Abort(g)

Spec == Init /\ [][Next]_cvars
=============================================================================
