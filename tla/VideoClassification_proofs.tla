--------------------- MODULE VideoClassification_proofs ---------------------
(***************************************************************************)
(* Theorems about VideoClassification, for any number of transactions, any *)
(* thresholds and counts: the type invariant, the two invariants on the    *)
(* verdicts, and what a step may never do to the daily records.            *)
(***************************************************************************)
EXTENDS VideoClassification, TLAPS

\* The settings Unread stands for are settings.
LEMMA UnreadType == Unread \in Thresholds
BY VideoAssumption DEF Unread

\* The day of a clock reading is one of the days.
LEMMA TodayType == \A at \in Times : DayOf(at) \in Days /\ Today(at) \in Days
BY DEF Today, Days

\* The clocks a transaction judges by are clocks, none before `since`.
LEMMA ClockTypes ==
    ASSUME TypeOK, NEW t \in Tasks, NEW at \in since[t] .. now, NEW on \in at .. now
    PROVE  /\ since[t] \in Times /\ at \in Times /\ on \in Times
           /\ since[t] <= at /\ at <= on /\ on <= now
           /\ on \in since[t] .. now
BY VideoAssumption DEF TypeOK, Times

\* Days pass with the clock.
LEMMA DaysPass == \A a, b \in Times : a <= b => DayOf(a) <= DayOf(b)
<1> SUFFICES ASSUME NEW a \in Nat, NEW b \in Nat, a <= b PROVE a \div DayLength <= b \div DayLength
    BY VideoAssumption DEF Times, DayOf
<1> QED
    BY VideoAssumption

\* Classifying a row, and writing the result, give a row.
LEMMA RowTypes ==
    ASSUME TypeOK, NEW c \in Rows, NEW b \in Rows, NEW h \in Thresholds,
           NEW at \in Times, NEW on \in Times
    PROVE  /\ Classified(c, h, at, on) \in Rows
           /\ Cancelled(c) \in Rows
           /\ \A v \in Views : Scraped(c, v, h, at, on) \in Rows
           /\ \A n \in Rows : Write(b, c, n) \in Rows
<1>1. ASSUME NEW d \in Rows PROVE Classified(d, h, at, on) \in Rows
    <2> DEFINE hot == IsHot(d.views, h, at) /\ InWindow(h, on)
               viral == d.viral \/ d.views >= h.viral
    <2>1. hot \in BOOLEAN /\ viral \in BOOLEAN
        BY DEF IsHot, InWindow
    <2>2. Category(hot, viral) \in {"normal", "historical_viral", "daily_hot"}
        BY DEF Category
    <2>3. DayOf(on) \in Days
        BY TodayType
    <2>4. Classified(d, h, at, on) =
            [d EXCEPT !.viral = viral, !.hot = hot,
                      !.hotAt = IF hot THEN DayOf(on) ELSE @,
                      !.category = Category(hot, viral)]
        BY DEF Classified
    <2> HIDE DEF hot, viral
    <2> QED
        BY <2>1, <2>2, <2>3, <2>4 DEF Rows
<1>2. Cancelled(c) \in Rows
    BY DEF Cancelled, Category, Rows
<1>3. ASSUME NEW v \in Views PROVE Scraped(c, v, h, at, on) \in Rows
    <2>1. [c EXCEPT !.exists = TRUE, !.views = v] \in Rows
        BY DEF Rows
    <2>2. Classified([c EXCEPT !.exists = TRUE, !.views = v], h, at, on) \in Rows
        BY <1>1, <2>1
    <2> QED
        BY <2>2 DEF Scraped, Rows
<1>4. ASSUME NEW n \in Rows PROVE Write(b, c, n) \in Rows
    <2>1. /\ n.exists \in BOOLEAN
          /\ Column(b.viral, c.viral, n.viral) \in BOOLEAN
          /\ Column(b.featured, c.featured, n.featured) \in BOOLEAN
          /\ Column(b.hot, c.hot, n.hot) \in BOOLEAN
        BY Zenon DEF Column, Rows
    <2>2. Column(b.views, c.views, n.views) \in Views
        BY DEF Column, Rows
    <2>3. (IF n.hot THEN n.hotAt ELSE Column(b.hotAt, c.hotAt, n.hotAt))
            \in Days \cup {Never}
        BY DEF Column, Rows
    <2>4. Column(b.category, c.category, n.category)
            \in {"normal", "historical_viral", "daily_hot"}
        BY DEF Column, Rows
    <2> QED
        BY <2>1, <2>2, <2>3, <2>4 DEF Write, Rows
<1> QED
    BY <1>1, <1>2, <1>3, <1>4

\* What is recorded stays a set of days.
LEMMA RecordTypes ==
    ASSUME NEW D \in SUBSET Days, NEW on \in Times, NEW o, NEW n
    PROVE  Records(o, n, D, on) \in SUBSET Days /\ DropToday(D, on) \in SUBSET Days
BY TodayType DEF Records, DropToday

\* The reconciliation reads settings.
LEMMA GroupReadTypes ==
    ASSUME TypeOK, NEW t \in Tasks
    PROVE  GroupReads(t) \in SUBSET Thresholds
BY DEF GroupReads, TypeOK

\* Moves of a transaction keep its variables typed.
TaskTypes ==
    /\ phase \in [Tasks -> {"idle", "begun", "read", "reconcile", "flagged"}]
    /\ kind \in [Tasks -> Kinds]
    /\ grp \in [Tasks -> Groups \cup {NoGroup}]
    /\ th \in [Tasks -> Thresholds]
    /\ stale \in [Tasks -> Rows]
    /\ since \in [Tasks -> Times]
    /\ had \in [Tasks -> SUBSET Thresholds]

\* Ending, or going on with a copy, a clock and settings.
LEMMA MoveTypes ==
    ASSUME TypeOK, NEW t \in Tasks,
           \/ End(t)
           \/ \E w \in {"read", "reconcile", "flagged"}, c \in Rows, f \in Times,
                 S \in SUBSET Thresholds : Goto(t, w, c, f, S)
    PROVE  TaskTypes'
<1> USE DEF TaskTypes
<1>1. NewRow \in Rows
    BY VideoAssumption DEF NewRow, Rows
<1>2. CASE End(t)
    <2>1. 0 \in Times
        BY VideoAssumption DEF Times
    <2> QED
        BY <1>1, <1>2, <2>1, UnreadType DEF End, TypeOK, Kinds
<1>3. ASSUME NEW w \in {"read", "reconcile", "flagged"}, NEW c \in Rows, NEW f \in Times,
             NEW S \in SUBSET Thresholds, Goto(t, w, c, f, S)
      PROVE  TaskTypes'
    BY <1>3 DEF Goto, TypeOK
<1> QED
    BY <1>2, <1>3

\* Typing: Init establishes TypeOK.
LEMMA InitType == Init => TypeOK
<1> SUFFICES ASSUME Init PROVE TypeOK
    OBVIOUS
<1>1. now \in Times
    BY VideoAssumption DEF Init, Times
<1>2. NewRow \in Rows
    BY VideoAssumption DEF NewRow, Rows
<1>3. 0 \in Times
    BY VideoAssumption DEF Times
<1> QED
    BY <1>1, <1>2, <1>3, UnreadType DEF Init, TypeOK, Kinds

\* A transaction that moves the creator was told where to.
Targeted == \A t \in Tasks : kind[t] = "move" => grp[t] \in Groups

\* Targeted is inductive relative to the types.
LEMMA TargetedInductive == TypeOK /\ Targeted /\ [Next]_vars => Targeted'
<1> SUFFICES ASSUME TypeOK, Targeted, [Next]_vars PROVE Targeted'
    OBVIOUS
<1> USE DEF TypeOK, Targeted
<1>1. ASSUME NEW t \in Tasks, End(t) PROVE Targeted'
    BY <1>1 DEF End
<1>2. CASE UNCHANGED <<kind, grp>>
    BY <1>2
<1>3. ASSUME NEW t \in Tasks, NEW w, NEW c, NEW f, NEW S, Goto(t, w, c, f, S) PROVE Targeted'
    BY <1>2, <1>3 DEF Goto
<1>4. ASSUME NEW t \in Tasks, Begin(t) PROVE Targeted'
    BY <1>4, VideoAssumption DEF Begin, BeginScrape, BeginFinalize, BeginMove, Started
<1>5. ASSUME NEW t \in Tasks, Step(t) PROVE Targeted'
    BY <1>1, <1>3, <1>5
       DEF Step, ScrapeReads, ScrapeCommits, FinalizeReads, FinalizeCommits,
           FinalizeKeeps, ReconcileReads, ReconcileCommits, MoveReads, MoveCommits,
           Abort
<1> QED
    BY <1>2, <1>4, <1>5 DEF Next, Tick, UpdateThreshold, vars, taskVars

\* Typing: every step preserves TypeOK.
LEMMA NextType == TypeOK /\ Targeted /\ [Next]_vars => TypeOK'
<1> SUFFICES ASSUME TypeOK, Targeted, [Next]_vars PROVE TypeOK'
    OBVIOUS
<1>0. NewRow \in Rows
    BY VideoAssumption DEF NewRow, Rows
<1>1. CASE Tick
    BY <1>1, VideoAssumption DEF Tick, TypeOK, dbVars, taskVars, Times
<1>2. ASSUME NEW g \in Groups, NEW h \in Thresholds, UpdateThreshold(g, h) PROVE TypeOK'
    BY <1>2 DEF UpdateThreshold, TypeOK, taskVars
<1>3. ASSUME NEW t \in Tasks, Begin(t) PROVE TypeOK'
    <2>1. PICK k \in Kinds, g \in Groups \cup {NoGroup}, h \in Thresholds :
             Started(t, k, g, h)
        BY <1>3 DEF Begin, BeginScrape, BeginFinalize, BeginMove, Kinds, TypeOK
    <2> QED
        BY <2>1 DEF Started, TypeOK, dbVars
<1>a. now \in Times /\ row \in Rows /\ {} \in SUBSET Thresholds
    BY DEF TypeOK
<1>b. ASSUME TaskTypes', UNCHANGED <<now, dbVars>> PROVE TypeOK'
    BY <1>b DEF TypeOK, TaskTypes, dbVars
<1>c. ASSUME TaskTypes', UNCHANGED <<now, settings>>, home' \in Groups,
             row' \in Rows, days' \in SUBSET Days, archived' \in BOOLEAN
      PROVE  TypeOK'
    BY <1>c DEF TypeOK, TaskTypes
<1>4. ASSUME NEW t \in Tasks, Step(t) PROVE TypeOK'
    <2>0. stale[t] \in Rows /\ th[t] \in Thresholds /\ home \in Groups
          /\ days \in SUBSET Days /\ archived \in BOOLEAN
        BY DEF TypeOK
    <2>1. ASSUME NEW fits \in BOOLEAN, ScrapeReads(t, fits) PROVE TypeOK'
        BY <1>a, <1>b, <2>1, MoveTypes DEF ScrapeReads
    <2>2. ASSUME NEW v \in Views, ScrapeCommits(t, v) PROVE TypeOK'
        <3>1. PICK at \in since[t] .. now :
                 \E on \in at .. now : Verdict(t, Scraped(stale[t], v, th[t], at, on), on)
            BY <2>2 DEF ScrapeCommits
        <3>2. PICK on \in at .. now : Verdict(t, Scraped(stale[t], v, th[t], at, on), on)
            BY <3>1
        <3>3. at \in Times /\ on \in Times
            BY ClockTypes
        <3>4. Write(row, stale[t], Scraped(stale[t], v, th[t], at, on)) \in Rows
            BY <1>a, <2>0, <3>3, RowTypes
        <3>5. row' \in Rows /\ days' \in SUBSET Days /\ archived' \in BOOLEAN
            BY <2>0, <3>2, <3>3, <3>4, RecordTypes DEF Verdict
        <3>6. End(t) /\ UNCHANGED <<now, settings, home>>
            BY <2>2 DEF ScrapeCommits
        <3> QED
            BY <1>c, <2>0, <3>5, <3>6, MoveTypes
    <2>3. CASE FinalizeReads(t)
        BY <1>0, <1>a, <1>b, <2>3, MoveTypes, GroupReadTypes DEF FinalizeReads
    <2>4. CASE FinalizeCommits(t)
        <3>1. PICK at \in since[t] .. now : \E on \in at .. now : FinalizeWrites(t, at, on)
            BY <2>4 DEF FinalizeCommits
        <3>2. PICK on \in at .. now : FinalizeWrites(t, at, on)
            BY <3>1
        <3> DEFINE new == Classified(stale[t], th[t], at, on)
                   held == Write(row, stale[t], new)
                   kept == Records(stale[t], new, days, on)
        <3>3. at \in Times /\ on \in Times
            BY ClockTypes
        <3>4. held \in Rows
            BY <1>a, <2>0, <3>3, RowTypes
        <3>5. Cancelled(held) \in Rows
            BY <2>0, <3>3, <3>4, RowTypes
        <3>6. kept \in SUBSET Days
            BY <2>0, <3>3, RecordTypes
        <3>7. \A today \in on .. now : DropToday(kept, today) \in SUBSET Days
            <4> SUFFICES ASSUME NEW today \in on .. now
                         PROVE  DropToday(kept, today) \in SUBSET Days
                OBVIOUS
            <4>1. today \in Times
                BY <1>a, <3>3, VideoAssumption DEF Times
            <4> QED
                BY <3>6, <4>1, RecordTypes
        <3>8. archived' \in BOOLEAN
            BY <2>0, <3>2 DEF FinalizeWrites
        <3>9. PICK again \in on .. now, h \in had[t] :
                 IF NeedsCancel(t, held, h, again)
                 THEN /\ row' = Cancelled(held)
                      /\ \E today \in on .. again : days' = DropToday(kept, today)
                 ELSE row' = held /\ days' = kept
            BY <3>2 DEF FinalizeWrites
        <3> HIDE DEF new, held, kept
        <3>10. on .. again \subseteq on .. now
            BY <1>a, <3>3 DEF Times
        <3>11. row' \in Rows /\ days' \in SUBSET Days
            BY <3>4, <3>5, <3>6, <3>7, <3>9, <3>10
        <3>12. End(t) /\ UNCHANGED <<now, settings, home>>
            BY <2>4 DEF FinalizeCommits
        <3> QED
            BY <1>c, <2>0, <3>8, <3>11, <3>12, MoveTypes
    <2>5. CASE FinalizeKeeps(t)
        BY <1>0, <1>a, <1>b, <2>5, MoveTypes DEF FinalizeKeeps
    <2>6. CASE ReconcileReads(t)
        <3>1. CASE End(t)
            BY <1>b, <2>6, <3>1, MoveTypes DEF ReconcileReads
        <3>2. ASSUME NEW today \in since[t] .. now, NEW h \in GroupReads(t),
                     Goto(t, "flagged", row, today, {h})
              PROVE  TypeOK'
            <4>1. today \in Times /\ {h} \in SUBSET Thresholds
                BY GroupReadTypes, VideoAssumption DEF TypeOK, Times
            <4> QED
                BY <1>a, <1>b, <2>6, <3>2, <4>1, MoveTypes DEF ReconcileReads
        <3> QED
            BY <2>6, <3>1, <3>2 DEF ReconcileReads
    <2>7. CASE ReconcileCommits(t)
        <3>1. Cancelled(stale[t]) \in Rows /\ since[t] \in Times
            BY <1>a, <2>0, RowTypes DEF TypeOK
        <3>2. Write(row, stale[t], Cancelled(stale[t])) \in Rows
            BY <1>a, <2>0, <3>1, RowTypes
        <3>3. DropToday(days, since[t]) \in SUBSET Days
            BY <2>0, <3>1, RecordTypes
        <3>4. row' \in Rows /\ days' \in SUBSET Days
            BY <1>a, <2>0, <2>7, <3>2, <3>3 DEF ReconcileCommits
        <3>5. End(t) /\ UNCHANGED <<now, settings, home, archived>>
            BY <2>7 DEF ReconcileCommits
        <3> QED
            BY <1>c, <2>0, <3>4, <3>5, MoveTypes
    <2>8. CASE Abort(t)
        BY <1>b, <2>8, MoveTypes DEF Abort
    <2>9. CASE MoveReads(t)
        <3>1. home' \in Groups
            BY <2>9 DEF MoveReads, TypeOK, Targeted
        <3>2. TaskTypes'
            BY <1>a, <2>9, MoveTypes DEF MoveReads
        <3> QED
            BY <1>a, <1>c, <2>0, <2>9, <3>1, <3>2 DEF MoveReads
    <2>10. CASE MoveCommits(t)
        <3>1. PICK at \in since[t] .. now :
                 \E on \in at .. now : Verdict(t, Classified(stale[t], th[t], at, on), on)
            BY <2>10 DEF MoveCommits
        <3>2. PICK on \in at .. now : Verdict(t, Classified(stale[t], th[t], at, on), on)
            BY <3>1
        <3>3. at \in Times /\ on \in Times
            BY ClockTypes
        <3>4. Write(row, stale[t], Classified(stale[t], th[t], at, on)) \in Rows
            BY <1>a, <2>0, <3>3, RowTypes
        <3>5. row' \in Rows /\ days' \in SUBSET Days /\ archived' \in BOOLEAN
            BY <2>0, <3>2, <3>3, <3>4, RecordTypes DEF Verdict
        <3>6. home' \in Groups /\ End(t) /\ UNCHANGED <<now, settings>>
            BY <2>10 DEF MoveCommits, TypeOK, Targeted
        <3> QED
            BY <1>c, <3>5, <3>6, MoveTypes
    <2> QED
        BY <1>4, <2>1, <2>2, <2>3, <2>4, <2>5, <2>6, <2>7, <2>8, <2>9, <2>10 DEF Step
<1>5. CASE UNCHANGED vars
    BY <1>5 DEF vars, TypeOK
<1> QED
    BY <1>1, <1>2, <1>3, <1>4, <1>5 DEF Next

\* Every variable keeps its type: verdicts, categories and record dates stay
\* in range whatever transactions overlap.
THEOREM TypeCorrect == Spec => []TypeOK
<1>1. Init => Targeted
    BY DEF Init, Targeted
<1> QED
    BY <1>1, InitType, NextType, TargetedInductive, PTL DEF Spec

-----------------------------------------------------------------------------
(* The verdicts.                                                           *)

\* A reconciliation cancels only what it had read flagged; without this the
\* deletion of today's record could leave the flag.
CancelsFlagged == \A t \in Tasks : phase[t] = "flagged" => stale[t].hot

\* A copy read as viral is a copy of a row that still is; without this a stale
\* scrape could feature a video that is not viral.
ViralCopies == \A t \in Tasks : stale[t].viral => row.viral

\* The inductive invariant.
IInv ==
    /\ TypeOK
    /\ Targeted
    /\ CancelsFlagged
    /\ ViralCopies
    /\ ViralIffArchived
    /\ HotFlagHasRecord

\* CancelsFlagged is inductive relative to the types.
LEMMA CancelsInductive == TypeOK /\ CancelsFlagged /\ [Next]_vars => CancelsFlagged'
<1> SUFFICES ASSUME TypeOK, CancelsFlagged, [Next]_vars PROVE CancelsFlagged'
    OBVIOUS
<1> USE DEF TypeOK, CancelsFlagged
<1>1. ASSUME NEW t \in Tasks, End(t) PROVE CancelsFlagged'
    BY <1>1 DEF End
<1>2. ASSUME NEW t \in Tasks, NEW w \in {"read", "reconcile"}, NEW c, NEW f, NEW S,
             Goto(t, w, c, f, S)
      PROVE  CancelsFlagged'
    BY <1>2 DEF Goto
<1>3. ASSUME NEW t \in Tasks, NEW f, NEW S, Goto(t, "flagged", row, f, S), row.hot
      PROVE  CancelsFlagged'
    BY <1>3 DEF Goto
<1>4. ASSUME NEW t \in Tasks, Begin(t) PROVE CancelsFlagged'
    BY <1>4, VideoAssumption DEF Begin, BeginScrape, BeginFinalize, BeginMove, Started
<1>5. CASE UNCHANGED <<phase, stale>>
    BY <1>5
<1>6. ASSUME NEW t \in Tasks, Step(t) PROVE CancelsFlagged'
    <2>1. CASE ReconcileReads(t)
        BY <1>1, <1>3, <2>1 DEF ReconcileReads
    <2> QED
        BY <1>1, <1>2, <1>6, <2>1
           DEF Step, ScrapeReads, ScrapeCommits, FinalizeReads, FinalizeCommits,
               FinalizeKeeps, ReconcileCommits, MoveReads, MoveCommits, Abort
<1> QED
    BY <1>4, <1>5, <1>6 DEF Next, Tick, UpdateThreshold, vars, taskVars

\* Writing a classification of an old copy c over the row b, with its records.
LEMMA WriteVerdict ==
    ASSUME TypeOK, HotFlagHasRecord, ViralIffArchived, NEW c \in Rows, NEW n \in Rows,
           c.viral => row.viral, n.featured => c.featured \/ n.viral,
           c.viral => n.viral, NEW on \in Times,
           n.hot => n.hotAt = DayOf(on), ~n.hot => n.hotAt = c.hotAt
    PROVE  LET held == Write(row, c, n)
               arch == archived \/ (n.viral /\ ~c.viral)
           IN /\ held.viral = arch
              /\ held.featured => held.viral
              /\ held.hot => held.hotAt \in Records(c, n, days, on)
<1> DEFINE held == Write(row, c, n)
           arch == archived \/ (n.viral /\ ~c.viral)
<1>1. /\ held.viral = Column(row.viral, c.viral, n.viral)
      /\ held.featured = Column(row.featured, c.featured, n.featured)
      /\ held.hot = Column(row.hot, c.hot, n.hot)
      /\ held.hotAt = IF n.hot THEN n.hotAt ELSE Column(row.hotAt, c.hotAt, n.hotAt)
    BY DEF Write
<1>2. /\ {row.viral, row.featured, row.hot} \subseteq BOOLEAN
      /\ {c.viral, c.featured, c.hot} \subseteq BOOLEAN
      /\ {n.viral, n.featured, n.hot} \subseteq BOOLEAN
      /\ archived \in BOOLEAN
    BY DEF TypeOK, Rows
<1>3. row.viral = archived /\ (row.featured => row.viral)
    BY DEF ViralIffArchived
<1>4. held.viral = arch
    BY <1>1, <1>2, <1>3 DEF Column
<1>5. held.featured => held.viral
    BY <1>1, <1>2, <1>3, <1>4 DEF Column
<1>6. held.hot => held.hotAt \in Records(c, n, days, on)
    <2>1. CASE n.hot
        <3>1. held.hotAt = DayOf(on)
            BY <1>1, <2>1
        <3>2. DayOf(on) \in Records(c, n, days, on)
            BY <2>1 DEF Records, Today
        <3> QED
            BY <3>1, <3>2
    <2>2. CASE ~n.hot /\ c.hot
        BY <1>1, <1>2, <2>2 DEF Column
    <2>3. CASE ~n.hot /\ ~c.hot
        <3>1. held.hot = row.hot /\ held.hotAt = row.hotAt
            BY <1>1, <1>2, <2>3 DEF Column
        <3>2. Records(c, n, days, on) = days
            BY <2>3 DEF Records
        <3> QED
            BY <3>1, <3>2 DEF HotFlagHasRecord
    <2> QED
        BY <2>1, <2>2, <2>3
<1> QED
    BY <1>4, <1>5, <1>6

\* What a classification changes of the copy it is given.
LEMMA ClassifiedShape ==
    ASSUME TypeOK, NEW c \in Rows, NEW h \in Thresholds, NEW at \in Times, NEW on \in Times
    PROVE  LET n == Classified(c, h, at, on)
           IN /\ n \in Rows
              /\ c.viral => n.viral
              /\ n.featured = c.featured
              /\ n.hot => n.hotAt = DayOf(on)
              /\ ~n.hot => n.hotAt = c.hotAt
<1>1. Classified(c, h, at, on) \in Rows
    BY RowTypes
<1> QED
    BY <1>1 DEF Classified, Rows

\* The same of a scrape, which also features viral videos.
LEMMA ScrapedShape ==
    ASSUME TypeOK, NEW c \in Rows, NEW h \in Thresholds, NEW v \in Views,
           NEW at \in Times, NEW on \in Times
    PROVE  LET n == Scraped(c, v, h, at, on)
           IN /\ n \in Rows
              /\ c.viral => n.viral
              /\ n.featured => c.featured \/ n.viral
              /\ n.hot => n.hotAt = DayOf(on)
              /\ ~n.hot => n.hotAt = c.hotAt
<1> DEFINE d == [c EXCEPT !.exists = TRUE, !.views = v]
           m == Classified(d, h, at, on)
<1>1. d \in Rows /\ d.viral = c.viral /\ d.featured = c.featured /\ d.hotAt = c.hotAt
    BY DEF Rows
<1>2. Scraped(c, v, h, at, on) = [m EXCEPT !.featured = @ \/ m.viral]
    BY DEF Scraped
<1> HIDE DEF d
<1>3. /\ m \in Rows
      /\ d.viral => m.viral
      /\ m.featured = d.featured
      /\ m.hot => m.hotAt = DayOf(on)
      /\ ~m.hot => m.hotAt = d.hotAt
    BY <1>1, ClassifiedShape
<1>4. Scraped(c, v, h, at, on) \in Rows
    BY RowTypes
<1> HIDE DEF m
<1> QED
    BY <1>1, <1>2, <1>3, <1>4 DEF Rows

\* Init establishes the inductive invariant.
LEMMA InitInvariant == Init => IInv
<1> SUFFICES ASSUME Init PROVE IInv
    OBVIOUS
<1>1. /\ Targeted /\ CancelsFlagged /\ ViralCopies /\ ViralIffArchived
      /\ HotFlagHasRecord
    BY DEF Init, Targeted, CancelsFlagged, ViralCopies, ViralIffArchived, HotFlagHasRecord, NewRow
<1> QED
    BY <1>1, InitType DEF IInv

\* The three verdict invariants after a step that writes no row and no record.
LEMMA ReadStep ==
    ASSUME IInv, UNCHANGED <<row, days, archived>>,
           \A t \in Tasks : stale'[t] \in {stale[t], row, NewRow}
    PROVE  ViralCopies' /\ ViralIffArchived' /\ HotFlagHasRecord'
<1>1. ~NewRow.viral
    BY DEF NewRow
<1> QED
    BY <1>1 DEF IInv, ViralCopies, ViralIffArchived, HotFlagHasRecord

\* The same after a transaction's commit: it ends, and viral stays viral.
LEMMA CommitStep ==
    ASSUME IInv, NEW t \in Tasks, End(t), row.viral => row'.viral,
           ViralIffArchived', HotFlagHasRecord'
    PROVE  ViralCopies' /\ ViralIffArchived' /\ HotFlagHasRecord'
<1>1. \A u \in Tasks : stale'[u] \in {stale[u], NewRow}
    BY DEF End, IInv, TypeOK
<1>2. ~NewRow.viral
    BY DEF NewRow
<1> QED
    BY <1>1, <1>2 DEF IInv, ViralCopies

\* Cancelling a flag leaves the verdicts consistent, whatever is deleted.
LEMMA CancelledVerdict ==
    ASSUME NEW c \in Rows
    PROVE  /\ ~Cancelled(c).hot
           /\ Cancelled(c).viral = c.viral
           /\ Cancelled(c).featured = c.featured
BY DEF Cancelled, Rows

\* The verdict invariants are inductive.
LEMMA VerdictsInductive ==
    IInv /\ [Next]_vars => ViralCopies' /\ ViralIffArchived' /\ HotFlagHasRecord'
<1> SUFFICES ASSUME IInv, [Next]_vars
             PROVE  ViralCopies' /\ ViralIffArchived' /\ HotFlagHasRecord'
    OBVIOUS
<1>0. TypeOK
    BY DEF IInv
<1>1. ASSUME NEW t \in Tasks, End(t), UNCHANGED <<row, days, archived>>
      PROVE  ViralCopies' /\ ViralIffArchived' /\ HotFlagHasRecord'
    <2>1. \A u \in Tasks : stale'[u] \in {stale[u], row, NewRow}
        BY <1>0, <1>1 DEF End, TypeOK
    <2> QED
        BY <1>1, <2>1, ReadStep
<1>2. ASSUME NEW t \in Tasks, NEW w, NEW c \in {row, NewRow}, NEW f, NEW S,
             Goto(t, w, c, f, S), UNCHANGED <<row, days, archived>>
      PROVE  ViralCopies' /\ ViralIffArchived' /\ HotFlagHasRecord'
    <2>1. \A u \in Tasks : stale'[u] \in {stale[u], row, NewRow}
        BY <1>0, <1>2 DEF Goto, TypeOK
    <2> QED
        BY <1>2, <2>1, ReadStep
<1>3. ASSUME UNCHANGED <<row, days, archived, stale>>
      PROVE  ViralCopies' /\ ViralIffArchived' /\ HotFlagHasRecord'
    BY <1>3, ReadStep
<1>a. \A t \in Tasks :
         stale[t] \in Rows /\ th[t] \in Thresholds /\ (stale[t].viral => row.viral)
    BY <1>0 DEF TypeOK, IInv, ViralCopies
\* A commit of a whole verdict: scrape or move.
<1>b. ASSUME NEW t \in Tasks, End(t), NEW new \in Rows, NEW on \in Times,
             Verdict(t, new, on), stale[t].viral => new.viral,
             new.featured => stale[t].featured \/ new.viral,
             new.hot => new.hotAt = DayOf(on), ~new.hot => new.hotAt = stale[t].hotAt
      PROVE  ViralCopies' /\ ViralIffArchived' /\ HotFlagHasRecord'
    <2>1. /\ row' = Write(row, stale[t], new)
          /\ days' = Records(stale[t], new, days, on)
          /\ archived' = (archived \/ (new.viral /\ ~stale[t].viral))
        BY <1>b DEF Verdict
    <2>2. /\ row'.viral = archived'
          /\ row'.featured => row'.viral
          /\ row'.hot => row'.hotAt \in days'
        BY <1>0, <1>a, <1>b, <2>1, WriteVerdict DEF IInv
    <2>3. row.viral => row'.viral
        BY <2>1, <2>2 DEF IInv, ViralIffArchived
    <2> QED
        BY <1>b, <2>2, <2>3, CommitStep DEF ViralIffArchived, HotFlagHasRecord
<1>4. ASSUME NEW t \in Tasks, NEW v \in Views, ScrapeCommits(t, v)
      PROVE  ViralCopies' /\ ViralIffArchived' /\ HotFlagHasRecord'
    <2>1. PICK at \in since[t] .. now :
             \E on \in at .. now : Verdict(t, Scraped(stale[t], v, th[t], at, on), on)
        BY <1>4 DEF ScrapeCommits
    <2>2. PICK on \in at .. now : Verdict(t, Scraped(stale[t], v, th[t], at, on), on)
        BY <2>1
    <2>3. at \in Times /\ on \in Times
        BY <1>0, ClockTypes
    <2> DEFINE new == Scraped(stale[t], v, th[t], at, on)
    <2>4. /\ new \in Rows
          /\ stale[t].viral => new.viral
          /\ new.featured => stale[t].featured \/ new.viral
          /\ new.hot => new.hotAt = DayOf(on)
          /\ ~new.hot => new.hotAt = stale[t].hotAt
        BY <1>0, <1>a, <2>3, ScrapedShape
    <2>5. End(t)
        BY <1>4 DEF ScrapeCommits
    <2> HIDE DEF new
    <2> QED
        BY <1>b, <2>2, <2>3, <2>4, <2>5 DEF new
<1>8. ASSUME NEW t \in Tasks, MoveCommits(t)
      PROVE  ViralCopies' /\ ViralIffArchived' /\ HotFlagHasRecord'
    <2>1. PICK at \in since[t] .. now :
             \E on \in at .. now : Verdict(t, Classified(stale[t], th[t], at, on), on)
        BY <1>8 DEF MoveCommits
    <2>2. PICK on \in at .. now : Verdict(t, Classified(stale[t], th[t], at, on), on)
        BY <2>1
    <2>3. at \in Times /\ on \in Times
        BY <1>0, ClockTypes
    <2> DEFINE new == Classified(stale[t], th[t], at, on)
    <2>4. /\ new \in Rows
          /\ stale[t].viral => new.viral
          /\ new.featured => stale[t].featured \/ new.viral
          /\ new.hot => new.hotAt = DayOf(on)
          /\ ~new.hot => new.hotAt = stale[t].hotAt
        BY <1>0, <1>a, <2>3, ClassifiedShape
    <2>5. End(t)
        BY <1>8 DEF MoveCommits
    <2> HIDE DEF new
    <2> QED
        BY <1>b, <2>2, <2>3, <2>4, <2>5 DEF new
<1>5. ASSUME NEW t \in Tasks, FinalizeCommits(t)
      PROVE  ViralCopies' /\ ViralIffArchived' /\ HotFlagHasRecord'
    <2>1. PICK at \in since[t] .. now : \E on \in at .. now : FinalizeWrites(t, at, on)
        BY <1>5 DEF FinalizeCommits
    <2>2. PICK on \in at .. now : FinalizeWrites(t, at, on)
        BY <2>1
    <2>3. at \in Times /\ on \in Times
        BY <1>0, ClockTypes
    <2> DEFINE new == Classified(stale[t], th[t], at, on)
               held == Write(row, stale[t], new)
               kept == Records(stale[t], new, days, on)
    <2>4. /\ new \in Rows
          /\ stale[t].viral => new.viral
          /\ new.featured => stale[t].featured \/ new.viral
          /\ new.hot => new.hotAt = DayOf(on)
          /\ ~new.hot => new.hotAt = stale[t].hotAt
        BY <1>0, <1>a, <2>3, ClassifiedShape
    <2>5. archived' = (archived \/ (new.viral /\ ~stale[t].viral)) /\ End(t)
        BY <1>5, <2>2 DEF FinalizeCommits, FinalizeWrites
    <2>6. \/ row' = held /\ days' = kept
          \/ row' = Cancelled(held)
        BY <2>2 DEF FinalizeWrites
    <2>7. held \in Rows
        BY <1>0, <1>a, <2>3, <2>4, RowTypes DEF TypeOK
    <2> HIDE DEF new
    <2>8. /\ held.viral = archived'
          /\ held.featured => held.viral
          /\ held.hot => held.hotAt \in kept
        BY <1>0, <1>a, <2>3, <2>4, <2>5, WriteVerdict DEF IInv
    <2> HIDE DEF held, kept
    <2>9. /\ row'.viral = archived'
          /\ row'.featured => row'.viral
          /\ row'.hot => row'.hotAt \in days'
        BY <2>6, <2>7, <2>8, CancelledVerdict
    <2>10. row.viral => row'.viral
        BY <2>5, <2>9 DEF IInv, ViralIffArchived
    <2> QED
        BY <2>5, <2>9, <2>10, CommitStep DEF ViralIffArchived, HotFlagHasRecord
<1>6. ASSUME NEW t \in Tasks, ReconcileCommits(t)
      PROVE  ViralCopies' /\ ViralIffArchived' /\ HotFlagHasRecord'
    <2> DEFINE new == Cancelled(stale[t])
    <2>1. stale[t] \in Rows /\ stale[t].hot
        BY <1>0, <1>6 DEF TypeOK, IInv, CancelsFlagged, ReconcileCommits
    <2>2. ~new.hot /\ new.viral = stale[t].viral /\ new.featured = stale[t].featured
        BY <2>1, CancelledVerdict
    <2>3. /\ UNCHANGED <<row, days>> \/ row' = Write(row, stale[t], new)
          /\ archived' = archived /\ End(t)
        BY <1>6 DEF ReconcileCommits
    <2>4. CASE UNCHANGED <<row, days>>
        BY <1>1, <2>3, <2>4
    <2>5. CASE row' = Write(row, stale[t], new)
        <3> HIDE DEF new
        <3>1. ~row'.hot /\ row'.viral = row.viral /\ row'.featured = row.featured
            BY <2>1, <2>2, <2>5 DEF Write, Column
        <3> QED
            BY <2>3, <3>1, CommitStep DEF IInv, ViralIffArchived, HotFlagHasRecord
    <2> QED
        BY <2>3, <2>4, <2>5
<1>7. ASSUME NEW t \in Tasks, Step(t)
      PROVE  ViralCopies' /\ ViralIffArchived' /\ HotFlagHasRecord'
    BY <1>1, <1>2, <1>4, <1>5, <1>6, <1>7, <1>8
       DEF Step, ScrapeReads, FinalizeReads, FinalizeKeeps, ReconcileReads, MoveReads,
           Abort, dbVars
<1>9. ASSUME NEW t \in Tasks, Begin(t)
      PROVE  ViralCopies' /\ ViralIffArchived' /\ HotFlagHasRecord'
    BY <1>3, <1>9 DEF Begin, BeginScrape, BeginFinalize, BeginMove, Started, dbVars
<1> QED
    BY <1>3, <1>7, <1>9 DEF Next, Tick, UpdateThreshold, vars, dbVars, taskVars

\* IInv holds throughout every behaviour.
LEMMA Invariant == Spec => []IInv
<1>1. IInv /\ [Next]_vars => IInv'
    BY NextType, TargetedInductive, CancelsInductive, VerdictsInductive DEF IInv
<1> QED
    BY <1>1, InitInvariant, PTL DEF Spec

\* The historical verdict, its archive row and the featured flag never part.
THEOREM ViralArchived == Spec => []ViralIffArchived
<1> QED
    BY Invariant, PTL DEF IInv

\* A flagged video always has the daily record of its last hot verdict.
THEOREM HotRecorded == Spec => []HotFlagHasRecord
<1> QED
    BY Invariant, PTL DEF IInv

-----------------------------------------------------------------------------
(* What a step does to the records and the flag.                           *)

\* A step of one transaction leaves the others where they are.
LEMMA OthersStay ==
    ASSUME TypeOK, NEW t \in Tasks, NEW u \in Tasks, u # t, Step(u)
    PROVE  phase'[t] = phase[t]
<1>1. \A w, c, f, S : Goto(u, w, c, f, S) => phase'[t] = phase[t]
    BY DEF Goto, TypeOK
<1>2. End(u) => phase'[t] = phase[t]
    BY DEF End, TypeOK
<1> QED
    BY <1>1, <1>2 DEF Step, ScrapeReads, ScrapeCommits, FinalizeReads,
       FinalizeCommits, FinalizeKeeps, ReconcileReads, ReconcileCommits, MoveReads,
       MoveCommits, Abort

\* A transaction that unflags its copy unflags the row.
LEMMA Unflags ==
    ASSUME NEW b \in Rows, NEW c \in Rows, NEW n \in Rows, c.hot, ~n.hot
    PROVE  ~Write(b, c, n).hot
BY DEF Write, Column, Rows

\* The records a verdict deletes are those of its day, with the flag.
LEMMA VerdictRecords ==
    ASSUME IInv, NEW t \in Tasks, NEW new \in Rows, NEW on \in since[t] .. now,
           NEW d \in days \ Records(stale[t], new, days, on)
    PROVE  ~Write(row, stale[t], new).hot /\ DayOf(since[t]) <= d
<1>1. stale[t] \in Rows /\ row \in Rows /\ since[t] \in Times /\ on \in Times
      /\ since[t] <= on
    BY VideoAssumption DEF IInv, TypeOK, Times
<1>2. ~new.hot /\ stale[t].hot /\ d = DayOf(on)
    BY DEF Records, Today
<1> QED
    BY <1>1, <1>2, Unflags, DaysPass

\* What a finalize that commits, a reconciliation included, deletes.
LEMMA FinalizeRecords ==
    ASSUME IInv, NEW t \in Tasks, FinalizeCommits(t) \/ ReconcileCommits(t),
           NEW d \in days \ days'
    PROVE  ~row'.hot /\ DayOf(since[t]) <= d
<1>0. stale[t] \in Rows /\ row \in Rows /\ th[t] \in Thresholds
      /\ since[t] \in Times /\ now \in Times /\ TypeOK
    BY DEF IInv, TypeOK
<1>1. CASE FinalizeCommits(t)
    <2>1. PICK at \in since[t] .. now : \E on \in at .. now : FinalizeWrites(t, at, on)
        BY <1>1 DEF FinalizeCommits
    <2>2. PICK on \in at .. now : FinalizeWrites(t, at, on)
        BY <2>1
    <2>3. at \in Times /\ on \in Times /\ on \in since[t] .. now /\ since[t] <= on
        BY <1>0, ClockTypes
    <2> DEFINE new == Classified(stale[t], th[t], at, on)
               held == Write(row, stale[t], new)
               kept == Records(stale[t], new, days, on)
    <2>4. new \in Rows
        BY <1>0, <2>3, RowTypes
    <2>5. held \in Rows
        BY <1>0, <2>3, <2>4, RowTypes
    <2>6. PICK again \in on .. now, h \in had[t] :
             IF NeedsCancel(t, held, h, again)
             THEN /\ row' = Cancelled(held)
                  /\ \E today \in on .. again : days' = DropToday(kept, today)
             ELSE row' = held /\ days' = kept
        BY <2>2 DEF FinalizeWrites
    <2> HIDE DEF new
    <2>7. \A e \in days \ kept : ~held.hot /\ DayOf(since[t]) <= e
        BY <2>3, <2>4, VerdictRecords
    <2>8. CASE NeedsCancel(t, held, h, again)
        <3>1. PICK today \in on .. again : days' = DropToday(kept, today)
            BY <2>6, <2>8
        <3>2. today \in Times /\ since[t] <= today
            BY <1>0, <2>3, <3>1, VideoAssumption DEF Times
        <3>3. d \in days \ kept \/ d = DayOf(today)
            BY <3>1 DEF DropToday, Today
        <3>4. DayOf(since[t]) <= d
            BY <1>0, <2>7, <3>2, <3>3, DaysPass
        <3> QED
            BY <2>5, <2>6, <2>8, <3>4, CancelledVerdict
    <2>9. CASE ~NeedsCancel(t, held, h, again)
        BY <2>6, <2>7, <2>9
    <2> QED
        BY <2>8, <2>9
<1>2. CASE ReconcileCommits(t)
    <2>1. row' = Write(row, stale[t], Cancelled(stale[t])) /\ d = DayOf(since[t])
        BY <1>2 DEF ReconcileCommits, DropToday, Today
    <2>2. stale[t].hot /\ ~Cancelled(stale[t]).hot
        BY <1>0, <1>2, CancelledVerdict DEF ReconcileCommits, IInv, CancelsFlagged
    <2>3. Cancelled(stale[t]) \in Rows
        BY <1>0, RowTypes
    <2>4. DayOf(since[t]) <= DayOf(since[t])
        BY <1>0, DaysPass DEF Times
    <2> QED
        BY <1>0, <2>1, <2>2, <2>3, <2>4, Unflags
<1> QED
    BY <1>1, <1>2

\* What the other commits delete.
LEMMA VerdictDeletes ==
    ASSUME IInv, NEW t \in Tasks,
           (\E v \in Views : ScrapeCommits(t, v)) \/ MoveCommits(t),
           NEW d \in days \ days'
    PROVE  ~row'.hot /\ DayOf(since[t]) <= d
<1>0. TypeOK /\ stale[t] \in Rows /\ th[t] \in Thresholds /\ row \in Rows
    BY DEF IInv, TypeOK
<1>1. ASSUME NEW new \in Rows, NEW on \in since[t] .. now, Verdict(t, new, on)
      PROVE  ~row'.hot /\ DayOf(since[t]) <= d
    BY <1>1, VerdictRecords DEF Verdict
<1>2. ASSUME NEW v \in Views, ScrapeCommits(t, v)
      PROVE  ~row'.hot /\ DayOf(since[t]) <= d
    <2>1. PICK at \in since[t] .. now :
             \E on \in at .. now : Verdict(t, Scraped(stale[t], v, th[t], at, on), on)
        BY <1>2 DEF ScrapeCommits
    <2>2. PICK on \in at .. now : Verdict(t, Scraped(stale[t], v, th[t], at, on), on)
        BY <2>1
    <2>3. at \in Times /\ on \in Times /\ on \in since[t] .. now
        BY <1>0, ClockTypes
    <2>4. Scraped(stale[t], v, th[t], at, on) \in Rows
        BY <1>0, <2>3, RowTypes
    <2> QED
        BY <1>1, <2>2, <2>3, <2>4
<1>3. CASE MoveCommits(t)
    <2>1. PICK at \in since[t] .. now :
             \E on \in at .. now : Verdict(t, Classified(stale[t], th[t], at, on), on)
        BY <1>3 DEF MoveCommits
    <2>2. PICK on \in at .. now : Verdict(t, Classified(stale[t], th[t], at, on), on)
        BY <2>1
    <2>3. at \in Times /\ on \in Times /\ on \in since[t] .. now
        BY <1>0, ClockTypes
    <2>4. Classified(stale[t], th[t], at, on) \in Rows
        BY <1>0, <2>3, RowTypes
    <2> QED
        BY <1>1, <2>2, <2>3, <2>4
<1> QED
    BY <1>2, <1>3

\* A record goes only with the flag, in the commit of a transaction, and is of
\* no day before the one on which that transaction read the row or, in a
\* reconciliation, fixed its date.
THEOREM HistoryKept == Spec => PastDaysKept
<1>1. ASSUME IInv, [Next]_vars, NEW d \in days \ days'
      PROVE  /\ ~row'.hot
             /\ \E t \in Tasks : /\ phase[t] # "idle" /\ phase'[t] = "idle"
                                /\ DayOf(since[t]) <= d
    <2>1. PICK t \in Tasks : Step(t)
        BY <1>1 DEF Next, Tick, UpdateThreshold, Begin, BeginScrape, BeginFinalize,
           BeginMove, Started, vars, dbVars
    <2>2. \/ FinalizeCommits(t) \/ ReconcileCommits(t)
          \/ \E v \in Views : ScrapeCommits(t, v)
          \/ MoveCommits(t)
        BY <1>1, <2>1 DEF Step, ScrapeReads, FinalizeReads, FinalizeKeeps,
           ReconcileReads, MoveReads, Abort, dbVars
    <2>3. ~row'.hot /\ DayOf(since[t]) <= d
        BY <1>1, <2>2, FinalizeRecords, VerdictDeletes
    <2>4. phase[t] # "idle" /\ phase'[t] = "idle"
        BY <1>1, <2>2 DEF FinalizeCommits, ReconcileCommits, ScrapeCommits, MoveCommits,
           End, IInv, TypeOK
    <2> QED
        BY <2>3, <2>4
<1>2. IInv /\ [Next]_vars =>
        [\A d \in days \ days' :
            /\ ~row'.hot
            /\ \E t \in Tasks : /\ phase[t] # "idle" /\ phase'[t] = "idle"
                               /\ DayOf(since[t]) <= d]_vars
    BY <1>1
<1> QED
    BY <1>2, Invariant, PTL DEF Spec, PastDaysKept

-----------------------------------------------------------------------------
(* The finalize.                                                           *)

\* What a committing finalize leaves in the row.
LEMMA FinalizeLeaves ==
    ASSUME IInv, NEW t \in Tasks, FinalizeCommits(t) \/ ReconcileCommits(t),
           row' # row, row'.hot, home = grp[t]
    PROVE  \E h \in had[t], at \in since[t] .. now : IsHot(row'.views, h, at)
<1>1. stale[t] \in Rows /\ th[t] \in Thresholds /\ row \in Rows /\ TypeOK
      /\ now \in Times /\ since[t] \in Times
    BY DEF IInv, TypeOK
<1>2. CASE FinalizeCommits(t)
    <2>1. PICK at \in since[t] .. now : \E on \in at .. now : FinalizeWrites(t, at, on)
        BY <1>2 DEF FinalizeCommits
    <2>2. PICK on \in at .. now : FinalizeWrites(t, at, on)
        BY <2>1
    <2>3. at \in Times /\ on \in Times /\ since[t] <= on
        BY <1>1, ClockTypes
    <2> DEFINE new == Classified(stale[t], th[t], at, on)
               held == Write(row, stale[t], new)
               kept == Records(stale[t], new, days, on)
    <2>4. new \in Rows
        BY <1>1, <2>3, RowTypes
    <2>5. held \in Rows
        BY <1>1, <2>3, <2>4, RowTypes
    <2>6. PICK again \in on .. now, h \in had[t] :
             IF NeedsCancel(t, held, h, again)
             THEN /\ row' = Cancelled(held)
                  /\ \E today \in on .. again : days' = DropToday(kept, today)
             ELSE row' = held /\ days' = kept
        BY <2>2 DEF FinalizeWrites
    <2> HIDE DEF new, held, kept
    <2>7. ~NeedsCancel(t, held, h, again) /\ row' = held
        BY <1>2, <2>5, <2>6, CancelledVerdict
    <2>8. again \in since[t] .. now
        BY <1>1, <2>3 DEF Times
    <2> QED
        BY <2>7, <2>8 DEF NeedsCancel
<1>3. CASE ReconcileCommits(t)
    <2>1. row' = Write(row, stale[t], Cancelled(stale[t]))
        BY <1>3 DEF ReconcileCommits
    <2>2. stale[t].hot /\ ~Cancelled(stale[t]).hot
        BY <1>1, <1>3, CancelledVerdict DEF ReconcileCommits, IInv, CancelsFlagged
    <2>3. Cancelled(stale[t]) \in Rows
        <3>1. 0 \in Times
            BY VideoAssumption DEF Times
        <3> QED
            BY <1>1, <3>1, RowTypes
    <2> QED
        BY <1>1, <2>1, <2>2, <2>3, Unflags
<1> QED
    BY <1>2, <1>3

\* A finalize that writes leaves no flag that no settings its group has had
\* since it read them, at no time since, justify for the count in the row,
\* although it may have judged an old copy of the row; unless the creator has
\* left the group meanwhile.
THEOREM FinalizeSettled == Spec => FinalizeSettles
<1>1. ASSUME IInv, [Next]_vars, NEW t \in Tasks,
             kind[t] = "finalize", phase[t] \in {"read", "flagged"},
             phase'[t] = "idle", row' # row, home = grp[t], row'.hot
      PROVE  \E h \in had[t], at \in since[t] .. now : IsHot(row'.views, h, at)
    <2>1. PICK u \in Tasks : Step(u)
        BY <1>1 DEF Next, Tick, UpdateThreshold, Begin, BeginScrape, BeginFinalize,
           BeginMove, Started, vars, dbVars
    <2>2. u = t
        BY <1>1, <2>1, OthersStay DEF IInv
    <2>3. FinalizeCommits(t) \/ ReconcileCommits(t)
        BY <1>1, <2>1, <2>2, VideoAssumption DEF Step, ScrapeReads, ScrapeCommits,
           FinalizeReads, FinalizeKeeps, ReconcileReads, MoveReads, MoveCommits, Abort,
           dbVars
    <2> QED
        BY <1>1, <2>3, FinalizeLeaves
<1>2. IInv /\ [Next]_vars =>
        [\A t \in Tasks :
            /\ kind[t] = "finalize" /\ phase[t] \in {"read", "flagged"}
            /\ phase'[t] = "idle" /\ row' # row /\ home = grp[t] /\ row'.hot
            => \E h \in had[t], at \in since[t] .. now : IsHot(row'.views, h, at)]_vars
    BY <1>1
<1> QED
    BY <1>2, Invariant, PTL DEF Spec, FinalizeSettles
=============================================================================
