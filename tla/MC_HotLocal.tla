----------------------------- MODULE MC_HotLocal -----------------------------
(* Two groups and two concurrent requests besides the coordinator; a scrape  *)
(* loop takes one creator or finds the group empty.                         *)
EXTENDS HotLocal, TLC
=============================================================================
