----------------------------- MODULE DramaStats -----------------------------
(***************************************************************************)
(* Drama annotations and the table of statistics.  An annotation writes    *)
(* the video's recognition row and recounts the drama it had and the one   *)
(* it gets, in one transaction at READ COMMITTED; the admins' button       *)
(* recounts all.  What two open transactions count does not include what   *)
(* the other has not committed, and deleting a video recounts nothing.     *)
(***************************************************************************)
EXTENDS Integers, FiniteSets, Sequences, SequencesExt

CONSTANTS
    Videos,
    Dramas,         \* names that are counted
    Others,         \* names that are not ("unknown", "not a drama", noise)
    Txs             \* transactions that are open at the same time

NoRec == "none"

ASSUME DramaAssumption == IsFiniteSet(Videos) /\ NoRec \notin Dramas \cup Others

VARIABLES
    stored,     \* the videos there are
    rec,        \* rec[v] = the name in the recognition row of v
    stats,      \* stats[d] = total_videos of d, 0 if there is no row
    tx,         \* tx[t] = what an open transaction has read and will write
    dirt,       \* dirt[t] = dramas that others have touched since t began
    drift       \* dramas whose number may be off (history, read by nothing)

dramaVars == <<stored, rec, stats, tx, dirt, drift>>

Names == Dramas \cup Others
Closed == [stage |-> "closed"]
NoCount == -1
Counts == 0 .. Cardinality(Videos)

\* prior is the name read at first, todo the dramas still to recount, count the
\* number just counted, write the rows to write, held the rows deleted by a
\* rebuild, lost the rows read that others have deleted.
OpenTx == [stage : {"read", "flushed"}, video : Videos, prior : Names \cup {NoRec},
           new : Names, todo : Seq(Dramas), count : Counts \cup {NoCount},
           write : SUBSET [name : Dramas, was : Counts, count : Counts],
           held : SUBSET Dramas, lost : SUBSET Dramas]
RebuildTx == [stage : {"rebuild"}, todo : Seq(Dramas), count : Counts \cup {NoCount},
              write : SUBSET [name : Dramas, was : Counts, count : Counts],
              held : SUBSET Dramas, lost : SUBSET Dramas]

DramaTypeOK ==
    /\ stored \in SUBSET Videos
    /\ rec \in [Videos -> Names \cup {NoRec}]
    /\ stats \in [Dramas -> Counts]
    /\ tx \in [Txs -> {Closed} \cup OpenTx \cup RebuildTx]
    /\ dirt \in [Txs -> SUBSET Dramas]
    /\ drift \in SUBSET Dramas

DramaInit ==
    /\ stored = Videos
    /\ rec = [v \in Videos |-> NoRec]
    /\ stats = [d \in Dramas |-> 0]
    /\ tx = [t \in Txs |-> Closed]
    /\ dirt = [t \in Txs |-> {}]
    /\ drift = {}

-----------------------------------------------------------------------------
Open(t) == tx[t] # Closed
Wrote(t) == {w.name : w \in tx[t].write}

\* The ORM writes a column only if it differs from what was read: a name that is
\* entered again leaves what others have committed meanwhile.
Own(t) == IF tx[t].new = tx[t].prior THEN rec[tx[t].video] ELSE tx[t].new

\* The recognitions as t sees them.
SeenBy(t) == IF tx[t].stage = "flushed" THEN [rec EXCEPT ![tx[t].video] = Own(t)] ELSE rec
CountOf(r, d) == Cardinality({v \in Videos : r[v] = d})

\* Others see that t has touched the dramas.
Touch(t, dramas) ==
    dirt' = [u \in Txs |-> IF u = t THEN {} ELSE IF Open(u) THEN dirt[u] \cup dramas ELSE {}]

Close(t) == tx' = [tx EXCEPT ![t] = Closed]

\* save_manual_recognition: first the drama it had, then the one it gets.
\* (A bug would be to recount the new one only.)
CountedOnly(name) == IF name \in Dramas THEN <<name>> ELSE <<>>
ToRecountNew(prior, new) == CountedOnly(new)
ToRecount(prior, new) ==
    (IF prior # new THEN CountedOnly(prior) ELSE <<>>) \o CountedOnly(new)

-----------------------------------------------------------------------------

\* update_recognition_manual reads the row, or inserts one.
Annotate(t, v, name) ==
    /\ ~Open(t)
    /\ v \in stored
    /\ tx' = [tx EXCEPT ![t] =
                [stage |-> "read", video |-> v, prior |-> rec[v], new |-> name,
                 todo |-> ToRecount(rec[v], name), count |-> NoCount, write |-> {},
                 held |-> {}, lost |-> {}]]
    /\ dirt' = [dirt EXCEPT ![t] = {}]
    /\ UNCHANGED <<stored, rec, stats, drift>>

\* The first recount sends the UPDATE, which waits for another annotation of
\* the video and fails if the row is gone or was inserted twice.
FlushRec(t) ==
    /\ tx[t].stage = "read"
    /\ LET v == tx[t].video
       IN  /\ \A u \in Txs : tx[u].stage = "flushed" => tx[u].video # v
           /\ IF v \in stored /\ ((tx[t].prior = NoRec) <=> (rec[v] = NoRec))
              THEN tx' = [tx EXCEPT ![t].stage = "flushed"]
              ELSE Close(t)
    /\ UNCHANGED <<stored, rec, stats, dirt, drift>>

Recount(t) ==
    /\ tx[t].stage \in {"flushed", "rebuild"}
    /\ tx[t].todo # <<>>
    /\ tx[t].count = NoCount
    /\ tx' = [tx EXCEPT ![t].count = CountOf(SeenBy(t), Head(tx[t].todo))]
    /\ UNCHANGED <<stored, rec, stats, dirt, drift>>

\* rebuild_drama_stats_for reads the row to change after it has counted.
ReadStats(t) ==
    /\ Open(t)
    /\ tx[t].stage # "read"
    /\ tx[t].count # NoCount
    /\ LET d == Head(tx[t].todo)
           row == [name |-> d, count |-> tx[t].count,
                   was |-> IF d \in tx[t].held THEN 0 ELSE stats[d]]
       IN  tx' = [tx EXCEPT ![t].todo = Tail(@), ![t].count = NoCount,
                            ![t].write = @ \cup {row}]
    /\ UNCHANGED <<stored, rec, stats, dirt, drift>>

\* The rows to write are not held by a rebuild, and an inserted one is not there
\* yet, a changed one still there.
MayWrite(t) ==
    \A u \in Txs \ {t} : Open(u) => Wrote(t) \cap tx[u].held = {}
Conflicts(t) ==
    \E w \in tx[t].write :
        /\ w.count > 0
        /\ \/ w.was = 0 /\ stats[w.name] # 0 /\ w.name \notin tx[t].held
           \/ w.was # 0 /\ w.name \in tx[t].lost

Written(t) == [d \in Dramas |->
    IF d \notin Wrote(t) THEN (IF d \in tx[t].held THEN 0 ELSE stats[d])
    ELSE LET w == CHOOSE row \in tx[t].write : row.name = d
         IN  IF w.count = w.was \/ (w.count = 0 /\ d \in tx[t].lost)
             THEN (IF d \in tx[t].held THEN 0 ELSE stats[d])
             ELSE w.count]

\* Rows that t deletes are lost to those who have read them.
Delete(t) == [u \in Txs |->
    IF u = t THEN Closed
    ELSE IF ~Open(u) THEN tx[u]
    ELSE [tx[u] EXCEPT !.lost = @ \cup {w.name : w \in {x \in tx[u].write :
             x.was # 0 /\ (x.name \in tx[t].held \/ Written(t)[x.name] = 0)}}]]

AnnotateCommits(t) ==
    /\ tx[t].stage = "flushed"
    /\ tx[t].todo = <<>>
    /\ MayWrite(t)
    /\ ~Conflicts(t)
    /\ LET v == tx[t].video
           settled == {tx[t].prior, tx[t].new} \cap Dramas
           moved == {rec[v], Own(t)} \cap Dramas
       IN  /\ rec' = SeenBy(t)
           /\ drift' = (drift \ settled) \cup (dirt[t] \cap settled) \cup (moved \ settled)
           /\ Touch(t, settled \cup moved)
    /\ stats' = Written(t)
    /\ tx' = Delete(t)
    /\ UNCHANGED stored

\* A unique key, a row that is gone, a deadlock, a lost connection.
Aborts(t) ==
    /\ Open(t)
    /\ Close(t)
    /\ dirt' = [dirt EXCEPT ![t] = {}]
    /\ UNCHANGED <<stored, rec, stats, drift>>

\* rebuild_all_drama_stats lists the names and deletes all rows; one at a time.
RebuildBegins(t) ==
    /\ ~Open(t)
    /\ \A u \in Txs : tx[u].stage # "rebuild"
    /\ tx' = [tx EXCEPT ![t] =
                [stage |-> "rebuild", count |-> NoCount, write |-> {}, lost |-> {},
                 todo |-> SetToSeq({d \in Dramas : CountOf(rec, d) > 0}),
                 held |-> {d \in Dramas : stats[d] > 0}]]
    /\ dirt' = [dirt EXCEPT ![t] = {}]
    /\ UNCHANGED <<stored, rec, stats, drift>>

RebuildCommits(t) ==
    /\ tx[t].stage = "rebuild"
    /\ tx[t].todo = <<>>
    /\ ~Conflicts(t)
    /\ stats' = Written(t)
    /\ drift' = dirt[t]
    /\ Touch(t, Dramas)
    /\ tx' = Delete(t)
    /\ UNCHANGED <<stored, rec>>

\* The video goes with its creator, and its recognition with it.
DeleteVideo(v) ==
    /\ v \in stored
    /\ \A u \in Txs : tx[u].stage = "flushed" => tx[u].video # v
    /\ stored' = stored \ {v}
    /\ rec' = [rec EXCEPT ![v] = NoRec]
    /\ drift' = drift \cup ({rec[v]} \cap Dramas)
    /\ dirt' = [u \in Txs |-> IF Open(u) THEN dirt[u] \cup ({rec[v]} \cap Dramas) ELSE {}]
    /\ UNCHANGED <<stats, tx>>

DramaNext ==
    \/ \E t \in Txs :
          \/ \E v \in Videos, name \in Names : Annotate(t, v, name)
          \/ FlushRec(t) \/ Recount(t) \/ ReadStats(t) \/ AnnotateCommits(t)
          \/ Aborts(t) \/ RebuildBegins(t) \/ RebuildCommits(t)
    \/ \E v \in Videos : DeleteVideo(v)

DramaSpec == DramaInit /\ [][DramaNext]_dramaVars

-----------------------------------------------------------------------------
(* Properties.                                                             *)

\* A drama has the number of its videos in the table, unless a deletion or an
\* annotation that overlapped came after its last recount
\* (save_manual_recognition, rebuild_drama_stats_for).
StatsExact == \A d \in Dramas : d \notin drift => stats[d] = CountOf(rec, d)
=============================================================================
