----------------------- MODULE MC_VideoClassification -----------------------
(* Two transactions on one video over the three hours of two days, and two   *)
(* groups.  The lenient settings call viral and hot what the strict ones do  *)
(* not.  Two scrape modes stand for the four: while a new video is taken in  *)
(* any case, and an old one up to the age of the window, `daily` does all    *)
(* that `hot_ingest` and `hot_update` do to the row.                         *)
EXTENDS VideoClassification, TLC

CONSTANTS t1, t2, g1, g2

Strict == [viral |-> 3, growth |-> 3, window |-> 1]
Lenient == [viral |-> 1, growth |-> 1, window |-> 1]
MCThresholds == {Strict, Lenient}
MCLenient == {[Lenient EXCEPT !.window = 2]}

TaskSymmetry == Permutations({t1, t2})
Symmetry == TaskSymmetry \cup Permutations({g1, g2})
=============================================================================
