----------------------------- MODULE HotSegments -----------------------------
(***************************************************************************)
(* The segments of one group: when of the day line B is due how often.     *)
(* Saving a set deletes the rows there are and inserts the new ones in one *)
(* transaction; a group without rows is given the defaults.  In PostgreSQL *)
(* a DELETE takes the rows that were committed when it began, even if it   *)
(* then waits for another transaction that deletes them.                   *)
(***************************************************************************)
EXTENDS Integers, FiniteSets

CONSTANTS
    Day,            \* length of a day in the unit of the segments' times
    Dawn, Dusk,     \* the two times of the default segments
    Layouts,        \* the sets of segments that admins send
    Writers,        \* requests that are served at the same time
    MaxSets         \* bound on the sets ever inserted

ASSUME SegmentsAssumption ==
    /\ Day \in Nat \ {0}
    /\ Dawn \in 0 .. Day - 1 /\ Dusk \in 0 .. Day - 1
    /\ MaxSets \in Nat \ {0}
    /\ IsFiniteSet(Writers) /\ Writers # {}
    /\ \A layout \in Layouts :
          layout \subseteq [from : 0 .. Day - 1, to : 0 .. Day - 1, every : Nat]

VARIABLES
    rows,       \* the committed rows: [set |-> its number, seg |-> the segment]
    writer,     \* writer[w] = what a request has read and will insert
    sets        \* number of the last set inserted

segmentVars == <<rows, writer, sets>>

Default == {[from |-> Dawn, to |-> Dusk, every |-> 30],
            [from |-> Dusk, to |-> Dawn, every |-> 60]}
Segments == (UNION Layouts) \cup Default
NoWriter == [stage |-> "idle"]

SegmentsTypeOK ==
    /\ rows \in SUBSET [set : 1 .. MaxSets, seg : Segments]
    /\ sets \in 0 .. MaxSets
    /\ writer \in [Writers -> {NoWriter} \cup
          [stage : {"writing"}, layout : SUBSET Segments, set : 1 .. MaxSets,
           old : SUBSET (1 .. MaxSets)]]

SegmentsInit ==
    /\ rows \in {{}, {[set |-> 1, seg |-> s] : s \in Default}}
    /\ sets = 1
    /\ writer = [w \in Writers |-> NoWriter]

-----------------------------------------------------------------------------
(* Segments of the day.                                                    *)

\* A segment that ends when it begins is the whole day, one that ends before it
\* begins runs over midnight.
Minutes(seg) ==
    IF seg.from = seg.to THEN 0 .. Day - 1
    ELSE IF seg.from < seg.to THEN seg.from .. seg.to - 1
    ELSE (seg.from .. Day - 1) \cup (0 .. seg.to - 1)

Disjoint(layout) ==
    \A a, b \in layout : a # b => Minutes(a) \cap Minutes(b) = {}

\* validate_segments_cover_24h.  (A bug would be to look for overlaps only.)
ValidIfDisjoint(layout) ==
    /\ layout # {}
    /\ \A seg \in layout : seg.every >= 5
    /\ Disjoint(layout)
Valid(layout) ==
    /\ ValidIfDisjoint(layout)
    /\ UNION {Minutes(seg) : seg \in layout} = 0 .. Day - 1

\* current_segment takes the first row in an order that need not be unique.
Current(m) == {r \in rows : m \in Minutes(r.seg)}

-----------------------------------------------------------------------------

Write(w, layout, old) ==
    /\ writer[w] = NoWriter
    /\ sets < MaxSets
    /\ sets' = sets + 1
    /\ writer' = [writer EXCEPT ![w] = [stage |-> "writing", layout |-> layout,
                                        set |-> sets + 1, old |-> old]]
    /\ UNCHANGED rows

\* replace_group_hot_segments.  (A bug would be to insert only.)
SaveSegmentsKeep(w, layout) == Valid(layout) /\ Write(w, layout, {})
SaveSegments(w, layout) == Valid(layout) /\ Write(w, layout, {r.set : r \in rows})

\* ensure_group_hot_segments, at a GET and at the start of Beat
EnsureSegments(w) == rows = {} /\ Write(w, Default, {})

WriteCommits(w) ==
    /\ writer[w] # NoWriter
    /\ rows' = {r \in rows : r.set \notin writer[w].old}
               \cup {[set |-> writer[w].set, seg |-> s] : s \in writer[w].layout}
    /\ writer' = [writer EXCEPT ![w] = NoWriter]
    /\ UNCHANGED sets

WriteFails(w) ==
    /\ writer[w] # NoWriter
    /\ writer' = [writer EXCEPT ![w] = NoWriter]
    /\ UNCHANGED <<rows, sets>>

SegmentsNext ==
    \E w \in Writers :
        \/ \E layout \in Layouts : SaveSegments(w, layout)
        \/ EnsureSegments(w) \/ WriteCommits(w) \/ WriteFails(w)

SegmentsSpec == SegmentsInit /\ [][SegmentsNext]_segmentVars

-----------------------------------------------------------------------------
(* Properties.                                                             *)

\* Once a group has segments, at every time of the day the coordinator finds
\* one, whatever requests overlap (replace_group_hot_segments,
\* ensure_group_hot_segments, current_segment).
NoGap == rows # {} => \A m \in 0 .. Day - 1 : Current(m) # {}

\* A group is to have one set of segments ("每组一套" says HotUpdateSegment).  No
\* lock keeps two saves apart: requests that overlap each leave their set, and
\* there are never more sets than requests (replace_group_hot_segments).
SetsBounded == Cardinality({r.set : r \in rows}) <= Cardinality(Writers)
=============================================================================
