------------------------ MODULE VideoClassification ------------------------
(***************************************************************************)
(* The verdicts on one video (historical viral, daily hot) as concurrent   *)
(* transactions write them: scrapes of its creator in four modes, the      *)
(* finalize of line B of a group, and the move of the creator into another *)
(* group.  Each transaction reads a group's thresholds and, later, the     *)
(* row; its first UPDATE locks the row until the commit.  What             *)
(* the ORM writes are the attributes that differ from what it had READ, so *)
(* a row that changed between the read and the lock keeps, attribute by    *)
(* attribute, whatever the transaction believes unchanged.  The verdicts   *)
(* are computed from the copy read, the daily records are changed in the   *)
(* table itself.                                                           *)
(*                                                                         *)
(* A transaction reads the clock and the settings when it computes a       *)
(* verdict and then waits for locks, for other videos and for its commit:  *)
(* what it writes may be minutes old, of the day before midnight, or by    *)
(* settings an admin has replaced meanwhile.  A commit is one step here,   *)
(* so that step takes the clock readings and the settings from everything  *)
(* they may have been since the row was read.                              *)
(***************************************************************************)
EXTENDS Integers, FiniteSets

CONSTANTS
    Tasks,          \* concurrent transactions
    Groups,
    NoGroup,        \* a transaction that was not asked for a group
    Modes,          \* scrape modes in use
    Published,      \* hour of published_at, or -1 when it is NULL
    Views,          \* play counts TikTok may report
    Thresholds,     \* settings an admin may give a group
    RecentAge,      \* runtime recent_video_days, in hours
    DayLength,      \* hours in a day
    MaxNow          \* bound on the clock

ASSUME VideoAssumption ==
    /\ NoGroup \notin Groups
    /\ Modes \subseteq {"historical", "daily", "hot_ingest", "hot_update"}
    /\ Published \in Nat \cup {-1}
    /\ Views \subseteq Nat /\ 0 \in Views
    /\ Thresholds \subseteq [viral : Nat, growth : Nat \ {0}, window : Nat \ {0}]
    /\ Thresholds # {}
    /\ RecentAge \in Nat
    /\ DayLength \in Nat \ {0}
    /\ MaxNow \in Nat
    /\ Published < MaxNow

VARIABLES
    now,        \* hours
    settings,   \* settings[g] = the thresholds of group g
    home,       \* the group of the video's creator
    row,        \* the Video row
    days,       \* hot_date of the video's DailyHotRecord rows
    archived,   \* the video has a HistoricalViralArchive row
    phase,      \* phase[t] = where transaction t is
    kind,       \* kind[t] = scrape mode of t, "finalize" or "move"
    grp,        \* grp[t] = the group t finalizes, or moves the creator to
    th,         \* th[t] = the settings t has read
    stale,      \* stale[t] = the row as t has read it
    since,      \* since[t] = no clock t judges or dates by is older
    had         \* had[t] = settings the reconciliation of t may judge by

dbVars == <<settings, home, row, days, archived>>
taskVars == <<phase, kind, grp, th, stale, since, had>>
vars == <<now, settings, home, row, days, archived, phase, kind, grp, th, stale,
          since, had>>

Kinds == Modes \cup {"finalize", "move"}
Never == -1     \* NULL of daily_hot_at, which is kept to the day
Times == 0 .. MaxNow
DayOf(t) == t \div DayLength
Days == {DayOf(t) : t \in Times}

Rows == [exists : BOOLEAN, views : Views, viral : BOOLEAN, featured : BOOLEAN,
         hot : BOOLEAN, hotAt : Days \cup {Never},
         category : {"normal", "historical_viral", "daily_hot"}]

NewRow == [exists |-> FALSE, views |-> 0, viral |-> FALSE, featured |-> FALSE,
           hot |-> FALSE, hotAt |-> Never, category |-> "normal"]

\* The settings of a task that has read none yet.
Unread == CHOOSE h \in Thresholds : TRUE

TypeOK ==
    /\ now \in Times
    /\ settings \in [Groups -> Thresholds]
    /\ home \in Groups
    /\ row \in Rows
    /\ days \in SUBSET Days
    /\ archived \in BOOLEAN
    /\ phase \in [Tasks -> {"idle", "begun", "read", "reconcile", "flagged"}]
    /\ kind \in [Tasks -> Kinds]
    /\ grp \in [Tasks -> Groups \cup {NoGroup}]
    /\ th \in [Tasks -> Thresholds]
    /\ stale \in [Tasks -> Rows]
    /\ since \in [Tasks -> Times]
    /\ had \in [Tasks -> SUBSET Thresholds]

Init ==
    /\ now = IF Published = -1 THEN 0 ELSE Published
    /\ settings \in [Groups -> Thresholds]
    /\ home \in Groups
    /\ row = NewRow
    /\ days = {}
    /\ archived = FALSE
    /\ phase = [t \in Tasks |-> "idle"]
    /\ kind = [t \in Tasks |-> "finalize"]
    /\ grp = [t \in Tasks |-> NoGroup]
    /\ th = [t \in Tasks |-> Unread]
    /\ stale = [t \in Tasks |-> NewRow]
    /\ since = [t \in Tasks |-> 0]
    /\ had = [t \in Tasks |-> {}]

-----------------------------------------------------------------------------
(* The rules.                                                              *)

\* Mutant: a clock behind UTC, still on the day before.
TodayBehind(at) == DayOf(at) - 1
Today(at) == DayOf(at)

Age(at) == IF Published = -1 THEN 0 ELSE at - Published

InWindow(h, at) == Age(at) <= h.window

\* Average growth (views over the video's age, at least one unit) reaches the
\* threshold, inside the window, by the clock `at`.
IsHot(v, h, at) ==
    /\ InWindow(h, at)
    /\ v >= h.growth * (IF Age(at) = 0 THEN 1 ELSE Age(at))

Category(hot, viral) ==
    IF hot THEN "daily_hot" ELSE IF viral THEN "historical_viral" ELSE "normal"

\* apply_video_classification on the copy c with settings h.  The growth is
\* computed at the clock `at`; the snapshots are queried, which flushes and
\* may wait for the row lock; the window is tested, and the verdict dated, at
\* the clock `on`.
Classified(c, h, at, on) ==
    LET viral == c.viral \/ c.views >= h.viral
        hot == IsHot(c.views, h, at) /\ InWindow(h, on)
    IN [c EXCEPT !.viral = viral,
                 !.hot = hot,
                 !.hotAt = IF hot THEN DayOf(on) ELSE @,
                 !.category = Category(hot, viral)]

\* A scrape also features what is historical viral.
Scraped(c, v, h, at, on) ==
    LET d == Classified([c EXCEPT !.exists = TRUE, !.views = v], h, at, on)
    IN [d EXCEPT !.featured = @ \/ d.viral]

\* Mutant: every column is written.
WriteWhole(base, old, new) == new

\* The UPDATE: a column the transaction left as it had read it keeps what the
\* row holds.  A hot verdict writes a timestamp that is always a new one.
Column(base, old, new) == IF new = old THEN base ELSE new
Write(base, old, new) ==
    [exists |-> new.exists,
     views |-> Column(base.views, old.views, new.views),
     viral |-> Column(base.viral, old.viral, new.viral),
     featured |-> Column(base.featured, old.featured, new.featured),
     hot |-> Column(base.hot, old.hot, new.hot),
     hotAt |-> IF new.hot THEN new.hotAt
               ELSE Column(base.hotAt, old.hotAt, new.hotAt),
     category |-> Column(base.category, old.category, new.category)]

\* Mutant: a video that is not hot loses the day's record, flagged or not.
RecordsAlways(old, new, D, on) ==
    IF new.hot THEN D \cup {Today(on)} ELSE D \ {Today(on)}

\* The record of the day of the verdict: added if hot, deleted if no longer.
Records(old, new, D, on) ==
    IF new.hot THEN D \cup {Today(on)}
    ELSE IF old.hot THEN D \ {Today(on)} ELSE D

\* Mutant: all the records of the video are deleted.
DropAllRecords(D, on) == {}

\* The reconciliation deletes the record of the day it began on.
DropToday(D, on) == D \ {Today(on)}

\* reconcile_daily_hot_records cancels the flag of the copy c.
Cancelled(c) ==
    [c EXCEPT !.hot = FALSE, !.hotAt = Never, !.category = Category(FALSE, c.viral)]

-----------------------------------------------------------------------------
(* Moves of a transaction.                                                 *)

Goto(t, where, copy, from, S) ==
    /\ phase' = [phase EXCEPT ![t] = where]
    /\ stale' = [stale EXCEPT ![t] = copy]
    /\ since' = [since EXCEPT ![t] = from]
    /\ had' = [had EXCEPT ![t] = S]
    /\ UNCHANGED <<kind, grp, th>>

End(t) ==
    /\ phase' = [phase EXCEPT ![t] = "idle"]
    /\ kind' = [kind EXCEPT ![t] = "finalize"]
    /\ grp' = [grp EXCEPT ![t] = NoGroup]
    /\ th' = [th EXCEPT ![t] = Unread]
    /\ stale' = [stale EXCEPT ![t] = NewRow]
    /\ since' = [since EXCEPT ![t] = 0]
    /\ had' = [had EXCEPT ![t] = {}]

\* The new copy is written with the record of its day and, the first time it
\* is viral, with the archive row.
Verdict(t, new, on) ==
    /\ row' = Write(row, stale[t], new)
    /\ days' = Records(stale[t], new, days, on)
    /\ archived' = (archived \/ (new.viral /\ ~stale[t].viral))

Tick ==
    /\ now < MaxNow
    /\ now' = now + 1
    /\ UNCHANGED <<dbVars, taskVars>>

\* An admin edits the group.  A finalize that is on its way to the commit may
\* reach its reconciliation, which reads the group again, after the edit.
UpdateThreshold(g, h) ==
    /\ settings' = [settings EXCEPT ![g] = h]
    /\ had' = [t \in Tasks |->
                 IF kind[t] = "finalize" /\ phase[t] = "read" /\ grp[t] = g
                 THEN had[t] \cup {h} ELSE had[t]]
    /\ UNCHANGED <<now, home, row, days, archived, phase, kind, grp, th, stale, since>>

Started(t, k, g, h) ==
    /\ phase[t] = "idle"
    /\ phase' = [phase EXCEPT ![t] = "begun"]
    /\ kind' = [kind EXCEPT ![t] = k]
    /\ grp' = [grp EXCEPT ![t] = g]
    /\ th' = [th EXCEPT ![t] = h]
    /\ UNCHANGED <<now, dbVars, stale, since, had>>

\* A scrape reads the settings with the creator, then fetches from TikTok,
\* which takes minutes.
BeginScrape(t, k) == Started(t, k, NoGroup, settings[home])

BeginFinalize(t, g) == Started(t, "finalize", g, settings[g])

\* The creator's row is locked until the commit, the video's is not.
BeginMove(t, g) == g # home /\ Started(t, "move", g, settings[g])

\* An exception, or the worker is lost: what is not committed is rolled back.
\* A retry begins again.
Abort(t) ==
    /\ phase[t] # "idle"
    /\ End(t)
    /\ UNCHANGED <<now, dbVars>>

-----------------------------------------------------------------------------
(* scrape_creator, as far as it concerns this video.                       *)

\* What each mode takes of the fetched videos.  `fits` is the outcome of the
\* tests on data left out here: daily's days since the last update, and
\* whether the count a historical scrape fetched is viral.
Takes(t, fits) ==
    IF row.exists
    THEN \/ kind[t] = "hot_update" /\ InWindow(th[t], now)
         \/ kind[t] = "daily" /\ Age(now) <= RecentAge /\ fits
    ELSE \/ kind[t] = "daily"
         \/ kind[t] = "hot_ingest" /\ InWindow(th[t], now)
         \/ kind[t] = "historical" /\ fits

\* The SELECT.  A video it skips ends the task, for this row.
ScrapeReads(t, fits) ==
    /\ phase[t] = "begun" /\ kind[t] \in Modes
    /\ IF Takes(t, fits) THEN Goto(t, "read", row, now, {}) ELSE End(t)
    /\ UNCHANGED <<now, dbVars>>

\* From the first flush, which waits for the row lock, to the commit.  An
\* INSERT finds the row unless another task inserted it: that one raises.
ScrapeCommits(t, v) ==
    /\ phase[t] = "read" /\ kind[t] \in Modes
    /\ kind[t] = "historical" => v >= th[t].viral
    /\ stale[t].exists = row.exists
    /\ \E at \in since[t] .. now : \E on \in at .. now :
         Verdict(t, Scraped(stale[t], v, th[t], at, on), on)
    /\ End(t)
    /\ UNCHANGED <<now, settings, home>>

-----------------------------------------------------------------------------
(* hot_update_finalize_group_task: reclassify, reconcile, commit.          *)

\* What the reconciliation finds when it loads the creator's group: the object
\* the session still holds from an earlier read, as in the coordinator's own
\* session in local mode, or the group as it is now.
GroupReads(t) == {th[t], settings[home]}

\* reclassify_group_daily_hot has all rows of the group read at once, and
\* leaves the videos outside the window to the reconciliation, and those of
\* other groups alone.
FinalizeReads(t) ==
    /\ phase[t] = "begun" /\ kind[t] = "finalize"
    /\ IF row.exists /\ home = grp[t] /\ InWindow(th[t], now)
       THEN Goto(t, "read", row, now, GroupReads(t))
       ELSE Goto(t, "reconcile", NewRow, now, {})
    /\ UNCHANGED <<now, dbVars>>

\* Mutant: the reconciliation judges the copy the session had read, not what
\* the row holds under the lock.
NeedsCancelAsRead(t, c, h, at) ==
    home = grp[t] /\ c.hot /\ ~IsHot(stale[t].views, h, at)

\* The reconciliation looks for flagged videos of the group, and cancels those
\* that settings h do not justify.
NeedsCancel(t, c, h, at) == home = grp[t] /\ c.hot /\ ~IsHot(c.views, h, at)

\* Reclassified, by the clocks `at` and `on`, under the row lock; the
\* reconciliation, in the same transaction, fixes its day, selects what the
\* row now holds, and judges it again.
FinalizeWrites(t, at, on) ==
    LET new == Classified(stale[t], th[t], at, on)
        held == Write(row, stale[t], new)
        kept == Records(stale[t], new, days, on)
    IN /\ archived' = (archived \/ (new.viral /\ ~stale[t].viral))
       /\ \E again \in on .. now, h \in had[t] :
            IF NeedsCancel(t, held, h, again)
            THEN /\ row' = Cancelled(held)
                 /\ \E today \in on .. again : days' = DropToday(kept, today)
            ELSE row' = held /\ days' = kept

FinalizeCommits(t) ==
    /\ phase[t] = "read" /\ kind[t] = "finalize"
    /\ \E at \in since[t] .. now : \E on \in at .. now : FinalizeWrites(t, at, on)
    /\ End(t)
    /\ UNCHANGED <<now, settings, home>>

\* The reclassification changed nothing, so it took no lock.
FinalizeKeeps(t) ==
    /\ phase[t] = "read" /\ kind[t] = "finalize"
    /\ \E at \in since[t] .. now : \E on \in at .. now :
         LET new == Classified(stale[t], th[t], at, on) IN ~new.hot /\ new = stale[t]
    /\ Goto(t, "reconcile", NewRow, now, {})
    /\ UNCHANGED <<now, dbVars>>

\* The reconciliation fixes its day, and selects the flagged rows of the group
\* with their thresholds; this transaction has not locked the row.
ReconcileReads(t) ==
    /\ phase[t] = "reconcile"
    /\ IF home = grp[t] /\ row.hot
       THEN \E today \in since[t] .. now, h \in GroupReads(t) :
               Goto(t, "flagged", row, today, {h})
       ELSE End(t)
    /\ UNCHANGED <<now, dbVars>>

\* Row by row, while others wait for their locks: a row that is hot is left
\* alone, the flag of another is cancelled with the record of the day fixed.
ReconcileCommits(t) ==
    /\ phase[t] = "flagged"
    /\ \E h \in had[t], at \in since[t] .. now :
         IF IsHot(stale[t].views, h, at) THEN UNCHANGED <<row, days>>
         ELSE /\ row' = Write(row, stale[t], Cancelled(stale[t]))
              /\ days' = DropToday(days, since[t])
    /\ End(t)
    /\ UNCHANGED <<now, settings, home, archived>>

-----------------------------------------------------------------------------
(* update_creator_category: move the creator, reclassify its videos.       *)

MoveReads(t) ==
    /\ phase[t] = "begun" /\ kind[t] = "move"
    /\ \/ row.exists /\ Goto(t, "read", row, now, {}) /\ UNCHANGED home
       \/ ~row.exists /\ End(t) /\ home' = grp[t]
    /\ UNCHANGED <<now, settings, row, days, archived>>

MoveCommits(t) ==
    /\ phase[t] = "read" /\ kind[t] = "move"
    /\ home' = grp[t]
    /\ \E at \in since[t] .. now : \E on \in at .. now :
         Verdict(t, Classified(stale[t], th[t], at, on), on)
    /\ End(t)
    /\ UNCHANGED <<now, settings>>

-----------------------------------------------------------------------------
Begin(t) ==
    \/ \E k \in Modes : BeginScrape(t, k)
    \/ \E g \in Groups : BeginFinalize(t, g) \/ BeginMove(t, g)

\* What transaction t does once it has begun.
Step(t) ==
    \/ \E fits \in BOOLEAN : ScrapeReads(t, fits)
    \/ \E v \in Views : ScrapeCommits(t, v)
    \/ FinalizeReads(t)
    \/ FinalizeCommits(t)
    \/ FinalizeKeeps(t)
    \/ ReconcileReads(t)
    \/ ReconcileCommits(t)
    \/ MoveReads(t)
    \/ MoveCommits(t)
    \/ Abort(t)

Next ==
    \/ Tick
    \/ \E g \in Groups, h \in Thresholds : UpdateThreshold(g, h)
    \/ \E t \in Tasks : Begin(t) \/ Step(t)

Spec == Init /\ [][Next]_vars

\* A worker carries a transaction it has begun to its commit or rollback.
FairSpec == Spec /\ \A t \in Tasks : WF_vars(Step(t))

-----------------------------------------------------------------------------
\* The historical verdict is permanent and archived with it: the flag is set
\* exactly when the archive row exists, and only viral videos are featured,
\* however many transactions judged the video from old copies of its row.
ViralIffArchived ==
    /\ row.viral = archived
    /\ row.featured => row.viral

\* A video flagged hot has the record of the day it was last judged hot, which
\* is what the daily list joins: no interleaving deletes it under the flag.
HotFlagHasRecord == row.hot => row.hotAt \in days

\* The daily records are history.  A record goes only together with the flag,
\* and only the transaction that takes the flag deletes it: a pass that crosses
\* midnight may delete the record of the day it started judging on, but no
\* step reaches further back, and none leaves a flag over a deleted record.
PastDaysKept ==
    [][\A d \in days \ days' :
          /\ ~row'.hot
          /\ \E t \in Tasks : /\ phase[t] # "idle" /\ phase'[t] = "idle"
                             /\ DayOf(since[t]) <= d]_vars

\* A finalize that writes leaves no flag that nothing justified while it ran:
\* for the count the row then has, some settings its group has had since the
\* finalize read them, at some time since, call it hot, even when it had
\* judged an old copy; unless the creator has left the group meanwhile.
FinalizeSettles ==
    [][\A t \in Tasks :
          /\ kind[t] = "finalize" /\ phase[t] \in {"read", "flagged"}
          /\ phase'[t] = "idle" /\ row' # row /\ home = grp[t] /\ row'.hot
          => \E h \in had[t], at \in since[t] .. now : IsHot(row'.views, h, at)]_vars

\* "Recomputes the verdict of every video in the window (adds, keeps, cancels
\* daily hot)": a finalize leaves a video of its group that is hot flagged.
FinalizeFlagsHot ==
    [][\A t \in Tasks : FinalizeCommits(t) /\ home = grp[t] /\ settings[home] = th[t]
          => (IsHot(row'.views, th[t], now) => row'.hot)]_vars
=============================================================================
