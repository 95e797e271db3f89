--------------------------- MODULE MC_HotPipeline ---------------------------
(* One group of two creators with a once ingest schedule, or two groups one *)
(* creator moves between; the bound on Runs leaves room for a run, its      *)
(* redelivery and an overlap.                                               *)
EXTENDS HotPipeline, TLC

CONSTANTS g1, g2, c1, c2, s1

MCGroupOf == c1 :> g1 @@ c2 :> g1
MCAlone == c1 :> g1
MCScheduleGroup == s1 :> g1
MCNoSchedule == <<>>

CreatorSymmetry == Permutations({c1, c2})
=============================================================================
