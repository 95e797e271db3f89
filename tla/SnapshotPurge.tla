---------------------------- MODULE SnapshotPurge ----------------------------
(***************************************************************************)
(* The nightly purge of snapshots older than the retention, in batches     *)
(* that commit one by one, while scrapes add snapshots, creators are       *)
(* deleted with theirs, and a lost worker's purge is delivered again.      *)
(***************************************************************************)
EXTENDS Integers, FiniteSets

CONSTANTS
    MaxSnaps,       \* bound on the ids of snapshots, which are given in order
    BatchSize,      \* snapshot_purge_batch_size
    Purges          \* purges that run at the same time

ASSUME PurgeAssumption == MaxSnaps \in Nat /\ BatchSize \in Nat \ {0}

VARIABLES
    snaps,      \* ids of the snapshots there are
    lastSnap,   \* the last id given
    expired,    \* ids of the snapshots older than the retention
    purge       \* purge[p] = how far a purge has got

purgeVars == <<snaps, lastSnap, expired, purge>>

SnapIds == 1 .. MaxSnaps
NoPurge == [stage |-> "idle", due |-> {}, chosen |-> {}]

PurgeTypeOK ==
    /\ snaps \in SUBSET SnapIds
    /\ lastSnap \in 0 .. MaxSnaps
    /\ expired \in SUBSET SnapIds
    /\ purge \in [Purges -> [stage : {"idle", "next", "delete", "ended", "short"},
                             due : SUBSET SnapIds, chosen : SUBSET SnapIds]]

PurgeInit ==
    /\ snaps = {}
    /\ lastSnap = 0
    /\ expired = {}
    /\ purge = [p \in Purges |-> NoPurge]

-----------------------------------------------------------------------------
AddSnapshot ==
    /\ lastSnap < MaxSnaps
    /\ lastSnap' = lastSnap + 1
    /\ snaps' = snaps \cup {lastSnap + 1}
    /\ UNCHANGED <<expired, purge>>

SnapshotExpires(n) ==
    /\ n \in snaps \ expired
    /\ expired' = expired \cup {n}
    /\ UNCHANGED <<snaps, lastSnap, purge>>

\* A creator is deleted with its videos and their snapshots.
DeleteSnapshots(ns) ==
    /\ ns # {} /\ ns \subseteq snaps
    /\ snaps' = snaps \ ns
    /\ UNCHANGED <<lastSnap, expired, purge>>

\* The cutoff is fixed when the purge starts.
PurgeStarts(p) ==
    /\ purge[p].stage \in {"idle", "ended", "short"}
    /\ purge' = [purge EXCEPT ![p] = [stage |-> "next", due |-> expired, chosen |-> {}]]
    /\ UNCHANGED <<snaps, lastSnap, expired>>

FirstOf(ns) == {n \in ns : Cardinality({m \in ns : m < n}) < BatchSize}

SelectBatch(p) ==
    /\ purge[p].stage = "next"
    /\ LET chosen == FirstOf(purge[p].due \cap snaps)
       IN  purge' = [purge EXCEPT ![p].chosen = chosen,
                                  ![p].stage = IF chosen = {} THEN "ended" ELSE "delete"]
    /\ UNCHANGED <<snaps, lastSnap, expired>>

\* (A bug would be to stop at a batch that is not more than full.)
LastBatchFull(deleted) == Cardinality(deleted) <= BatchSize
LastBatch(deleted) == Cardinality(deleted) < BatchSize

\* The rows of the batch that are left are deleted; fewer than a batch, and the
\* purge is over, also if another transaction was faster with some of them.
DeleteBatch(p) ==
    /\ purge[p].stage = "delete"
    /\ LET chosen == purge[p].chosen
           deleted == chosen \cap snaps
       IN  purge' = [purge EXCEPT ![p].chosen = {},
               ![p].stage = IF ~LastBatch(deleted) THEN "next"
                            ELSE IF deleted # chosen /\ Cardinality(chosen) = BatchSize
                                 THEN "short" ELSE "ended"]
    /\ snaps' = snaps \ purge[p].chosen
    /\ UNCHANGED <<lastSnap, expired>>

\* An exception ends it; a lost worker's is delivered again.
PurgeLost(p) ==
    /\ purge[p].stage \in {"next", "delete"}
    /\ purge' = [purge EXCEPT ![p] = NoPurge]
    /\ UNCHANGED <<snaps, lastSnap, expired>>

PurgeNext ==
    \/ AddSnapshot
    \/ \E n \in SnapIds : SnapshotExpires(n)
    \/ \E ns \in SUBSET SnapIds : DeleteSnapshots(ns)
    \/ \E p \in Purges : PurgeStarts(p) \/ SelectBatch(p) \/ DeleteBatch(p) \/ PurgeLost(p)

PurgeSpec == PurgeInit /\ [][PurgeNext]_purgeVars

-----------------------------------------------------------------------------
(* Properties.                                                             *)

\* A purge that ends leaves nothing that had expired when it started, unless
\* rows of a full batch were deleted under it, and scrapes and other purges run
\* meanwhile (purge_old_video_snapshots).
PurgeComplete ==
    \A p \in Purges : purge[p].stage = "ended" => purge[p].due \cap snaps = {}
=============================================================================
