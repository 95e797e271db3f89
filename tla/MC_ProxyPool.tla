---------------------------- MODULE MC_ProxyPool ----------------------------
(* Two scrapes overlap with each other, with checks and with the admin.    *)
EXTENDS ProxyPool, TLC
MCSymmetry == Permutations(Tasks) \cup Permutations(Checkers)
=============================================================================
