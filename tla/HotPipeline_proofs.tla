------------------------- MODULE HotPipeline_proofs -------------------------
(***************************************************************************)
(* Theorems about HotPipeline, for any groups, creators, schedules, number *)
(* of runs, retries and worker losses.                                     *)
(***************************************************************************)
EXTENDS HotPipeline, TLAPS

\* A run that has yet to mark its schedule has one, and has been fanned out.
MarkingRan ==
    \A r \in marking :
       /\ origin[r] \in Schedules
       /\ stage[r] \notin {"free", "ingest", "skipped"}
       /\ whole[r]

\* Typing: Init establishes TypeOK.
LEMMA InitType == Init => TypeOK
<1> SUFFICES ASSUME Init PROVE TypeOK
    OBVIOUS
<1>1. {0, 1} \subseteq Times /\ 0 \in 0 .. MaxRetries /\ 0 \in 0 .. MaxCrashes
    BY PipelineAssumption DEF Times
<1> QED
    BY <1>1, PipelineAssumption DEF Init, TypeOK, Stages, TaskStates

\* Publishing a run keeps what it writes typed.
LEMMA PublishType ==
    ASSUME TypeOK, NEW r \in Runs, NEW where \in Stages, NEW g \in Groups \cup {None},
           NEW o \in Schedules \cup {None}, Publish(r, where, g, o)
    PROVE  /\ stage' \in [Runs -> Stages]
           /\ grp' \in [Runs -> Groups \cup {None}]
           /\ origin' \in [Runs -> Schedules \cup {None}]
BY DEF Publish, TypeOK

\* So do publishing a chord header and forgetting one.
LEMMA HeaderType ==
    ASSUME TypeOK, NEW r \in Runs, NEW S, NEW b \in BOOLEAN,
           HeaderOf(r, S, b) \/ Forget(r)
    PROVE  /\ member' \in [Runs -> [Creators -> TaskStates]]
           /\ tries' \in [Runs -> [Creators -> 0 .. MaxRetries]]
           /\ whole' \in [Runs -> BOOLEAN]
           /\ begun' \in [Runs -> Times]
<1>1. 0 \in 0 .. MaxRetries /\ 0 \in Times
    BY PipelineAssumption DEF Times
<1>2. [c \in Creators |-> IF c \in S THEN "queued" ELSE "none"] \in [Creators -> TaskStates]
    BY DEF TaskStates
<1>3. [c \in Creators |-> "none"] \in [Creators -> TaskStates]
    BY DEF TaskStates
<1>4. [c \in Creators |-> 0] \in [Creators -> 0 .. MaxRetries]
    BY <1>1
<1>5. CASE HeaderOf(r, S, b)
    BY <1>2, <1>4, <1>5 DEF HeaderOf, TypeOK
<1>6. CASE Forget(r)
    BY <1>1, <1>3, <1>4, <1>6 DEF Forget, TypeOK
<1> QED
    BY <1>5, <1>6

\* Typing: the steps of the clock, the admin and the requests.
LEMMA RequestType ==
    ASSUME TypeOK, Tick \/ Admin \/ \E r \in Runs : Request(r)
    PROVE  TypeOK'
<1>1. CASE Tick
    BY <1>1, PipelineAssumption DEF Tick, TypeOK, Times, memberVars
<1>2. CASE Admin
    <2>1. ASSUME NEW c \in Creators, AddCreator(c) PROVE TypeOK'
        BY <2>1 DEF AddCreator, TypeOK, memberVars
    <2>2. ASSUME NEW c \in Creators, NEW g \in Groups, MoveCreator(c, g) PROVE TypeOK'
        BY <2>2 DEF MoveCreator, TypeOK, memberVars
    <2> QED
        BY <1>2, <2>1, <2>2 DEF Admin, DeleteCreator, UpdateGroup, UpdateSchedule, SoftDeleteGroup, TypeOK, memberVars
<1>3. ASSUME NEW r \in Runs, NEW g \in Groups,
             TriggerIngest(r, g) \/ TriggerUpdate(r, g) \/ CoordinatorDispatch(r, g)
      PROVE  TypeOK'
    <2>1. \E where \in Stages : Publish(r, where, g, None)
        BY <1>3 DEF TriggerIngest, TriggerUpdate, CoordinatorDispatch, Stages
    <2>2. UNCHANGED <<dbVars, memberVars, marking, crashes>>
        BY <1>3 DEF TriggerIngest, TriggerUpdate, CoordinatorDispatch
    <2> QED
        BY <2>1, <2>2, PublishType DEF TypeOK, dbVars, memberVars
<1>4. ASSUME NEW r \in Runs, NEW s \in Schedules, ScheduleFires(r, s)
      PROVE  TypeOK'
    <2>1. ScheduleGroup[s] \in Groups /\ "ingest" \in Stages
        BY PipelineAssumption DEF Stages
    <2> QED
        BY <1>4, <2>1, PublishType DEF ScheduleFires, TypeOK, dbVars, memberVars
<1> QED
    BY <1>1, <1>2, <1>3, <1>4 DEF Request

\* Updating one entry of a table keeps its type.
LEMMA EntryType ==
    ASSUME NEW A, NEW B, NEW T, NEW f \in [A -> [B -> T]],
           NEW a \in A, NEW b \in B, NEW v \in T
    PROVE  [f EXCEPT ![a][b] = v] \in [A -> [B -> T]]
OBVIOUS

\* Typing: the steps of a scrape task.
LEMMA ScrapeType ==
    ASSUME TypeOK, NEW r \in Runs, NEW c \in Creators, NEW ack \in BOOLEAN,
           ScrapeSkips(r, c) \/ ScrapeCommits(r, c, ack) \/ ScrapeRaises(r, c)
    PROVE  TypeOK'
<1>1. CASE ScrapeSkips(r, c)
    BY <1>1 DEF ScrapeSkips, TypeOK, TaskStates, dbVars
<1>2. CASE ScrapeCommits(r, c, ack)
    <2>1. crashes' \in 0 .. MaxCrashes
        BY <1>2, PipelineAssumption DEF ScrapeCommits, WorkerLost, TypeOK
    <2>2. member' \in [Runs -> [Creators -> TaskStates]]
        <3>1. [member EXCEPT ![r][c] = "ok"] \in [Runs -> [Creators -> TaskStates]]
            BY EntryType DEF TypeOK, TaskStates
        <3> QED
            BY <1>2, <3>1 DEF ScrapeCommits, TypeOK
    <2> QED
        BY <1>2, <2>1, <2>2 DEF ScrapeCommits, Scraped, TypeOK
<1>3. CASE ScrapeRaises(r, c)
    <2>1. tries' \in [Runs -> [Creators -> 0 .. MaxRetries]]
        <3>1. tries[r][c] \in 0 .. MaxRetries
            BY DEF TypeOK
        <3>2. CASE tries[r][c] < MaxRetries
            <4>1. tries[r][c] + 1 \in 0 .. MaxRetries
                BY <3>1, <3>2, PipelineAssumption
            <4>2. [tries EXCEPT ![r][c] = tries[r][c] + 1]
                    \in [Runs -> [Creators -> 0 .. MaxRetries]]
                BY <4>1, EntryType DEF TypeOK
            <4> QED
                BY <1>3, <4>2 DEF ScrapeRaises, TypeOK
        <3>3. CASE ~(tries[r][c] < MaxRetries)
            BY <1>3, <3>3 DEF ScrapeRaises, TypeOK
        <3> QED
            BY <3>2, <3>3
    <2>2. member' \in [Runs -> [Creators -> TaskStates]]
        <3>1. [member EXCEPT ![r][c] = "failed"] \in [Runs -> [Creators -> TaskStates]]
            BY EntryType DEF TypeOK, TaskStates
        <3> QED
            BY <1>3, <3>1 DEF ScrapeRaises, TypeOK
    <2>3. /\ ingestAt' \in [Creators -> Times] /\ updateAt' \in [Creators -> Times]
          /\ UNCHANGED <<now, live, home, joined, open, deleted, stamp, enabled, executed, stage,
                         grp, origin, whole, begun, marking, crashes>>
        BY <1>3 DEF ScrapeRaises, Scraped, TypeOK
    <2> QED
        BY <2>1, <2>2, <2>3 DEF TypeOK
<1> QED
    BY <1>1, <1>2, <1>3

\* Typing: the steps of the orchestration tasks and of the chords.
LEMMA RunType ==
    ASSUME TypeOK, MarkingRan, NEW r \in Runs, NEW q \in Runs, NEW ack \in BOOLEAN,
           \/ IngestSkipped(r) \/ IngestFanOut(r) \/ MarkSchedule(r)
           \/ MarkRaises(r) \/ FanOutRaises(r)
           \/ LostBeforeMark(r, q) \/ LostInFanOut(r, q) \/ UpdateFanOut(r)
           \/ Finalize(r, ack) \/ FinalizeRaises(r)
           \/ ChordCompletes(r) \/ ChordBreaks(r)
    PROVE  TypeOK'
<1> USE DEF dbVars
<1>1. CASE IngestSkipped(r)
    BY <1>1 DEF IngestSkipped, TypeOK, Stages, memberVars
<1>2. CASE IngestFanOut(r)
    <2>1. HeaderOf(r, GroupCreators(grp[r]), TRUE)
        BY <1>2 DEF IngestFanOut
    <2> QED
        BY <1>2, <2>1, HeaderType DEF IngestFanOut, TypeOK, Stages
<1>3. CASE MarkSchedule(r)
    <2>1. origin[r] \in Schedules
        BY <1>3 DEF MarkSchedule, MarkingRan
    <2> QED
        BY <1>3, <2>1 DEF MarkSchedule, TypeOK, memberVars
<1>4. CASE LostBeforeMark(r, q)
    <2>1. /\ Publish(q, "ingest", grp[r], origin[r]) /\ "ingest" \in Stages
          /\ grp[r] \in Groups \cup {None} /\ origin[r] \in Schedules \cup {None}
        BY <1>4 DEF LostBeforeMark, TypeOK, Stages
    <2>2. crashes' \in 0 .. MaxCrashes
        BY <1>4, PipelineAssumption DEF LostBeforeMark, WorkerLost, TypeOK
    <2> QED
        BY <1>4, <2>1, <2>2, PublishType DEF LostBeforeMark, TypeOK, memberVars
<1>5. CASE LostInFanOut(r, q)
    <2>1. PICK where \in {"ingest_chord", "update_chord"} :
             Publish(q, where, grp[r], origin[r])
        BY <1>5 DEF LostInFanOut
    <2>2. /\ where \in Stages
          /\ grp[r] \in Groups \cup {None} /\ origin[r] \in Schedules \cup {None}
        BY DEF TypeOK, Stages
    <2>3. \E S : HeaderOf(q, S, S = GroupCreators(grp[r]))
        BY <1>5 DEF LostInFanOut
    <2>4. crashes' \in 0 .. MaxCrashes
        BY <1>5, PipelineAssumption DEF LostInFanOut, WorkerLost, TypeOK
    <2> QED
        BY <1>5, <2>1, <2>2, <2>3, <2>4, PublishType, HeaderType
           DEF LostInFanOut, TypeOK
<1>6. CASE UpdateFanOut(r)
    <2>1. HeaderOf(r, GroupCreators(grp[r]), TRUE)
        BY <1>6 DEF UpdateFanOut
    <2> QED
        BY <1>6, <2>1, HeaderType DEF UpdateFanOut, TypeOK, Stages
<1>7. CASE Finalize(r, ack)
    <2>1. stamp' \in [Groups -> Times]
        BY <1>7 DEF Finalize, TypeOK
    <2>2. crashes' \in 0 .. MaxCrashes
        BY <1>7, PipelineAssumption DEF Finalize, WorkerLost, TypeOK
    <2>3. CASE Forget(r) /\ stage' = [stage EXCEPT ![r] = "done"]
        BY <1>7, <2>1, <2>2, <2>3, HeaderType DEF Finalize, TypeOK, Stages
    <2>4. CASE UNCHANGED <<stage, memberVars>>
        BY <1>7, <2>1, <2>2, <2>4 DEF Finalize, TypeOK, memberVars
    <2> QED
        BY <1>7, <2>3, <2>4 DEF Finalize
<1>8. CASE FinalizeRaises(r) \/ ChordBreaks(r)
    <2>1. Forget(r) /\ stage' = [stage EXCEPT ![r] = "broken"]
        BY <1>8 DEF FinalizeRaises, ChordBreaks
    <2> QED
        BY <1>8, <2>1, HeaderType DEF FinalizeRaises, ChordBreaks, TypeOK, Stages
<1>9. CASE ChordCompletes(r)
    <2>1. CASE Forget(r) /\ stage' = [stage EXCEPT ![r] = "update"]
        BY <1>9, <2>1, HeaderType DEF ChordCompletes, TypeOK, Stages
    <2>2. CASE UNCHANGED memberVars /\ stage' = [stage EXCEPT ![r] = "finalize"]
        BY <1>9, <2>2 DEF ChordCompletes, TypeOK, Stages, memberVars
    <2> QED
        BY <1>9, <2>1, <2>2 DEF ChordCompletes
<1>10. CASE MarkRaises(r) \/ FanOutRaises(r)
    BY <1>10 DEF MarkRaises, FanOutRaises, TypeOK, Stages, memberVars
<1> QED
    BY <1>1, <1>2, <1>3, <1>4, <1>5, <1>6, <1>7, <1>8, <1>9, <1>10

\* MarkingRan is inductive relative to the types.
LEMMA MarkingInductive == TypeOK /\ MarkingRan /\ [Next]_vars => MarkingRan'
<1> SUFFICES ASSUME TypeOK, MarkingRan, [Next]_vars PROVE MarkingRan'
    OBVIOUS
<1> USE DEF MarkingRan, TypeOK
<1>1. ASSUME NEW r \in Runs, NEW where, NEW g, NEW o, Publish(r, where, g, o),
             UNCHANGED whole, marking' \subseteq marking
      PROVE  MarkingRan'
    BY <1>1 DEF Publish
<1>2. ASSUME NEW r \in Runs, Request(r) PROVE MarkingRan'
    BY <1>1, <1>2 DEF Request, TriggerIngest, TriggerUpdate, CoordinatorDispatch,
       ScheduleFires, memberVars
<1>3. ASSUME UNCHANGED <<stage, origin, whole>>, marking' \subseteq marking
      PROVE  MarkingRan'
    BY <1>3
<1>4. ASSUME NEW r \in Runs, NEW where \in Stages \ {"free", "ingest", "skipped"},
             stage' = [stage EXCEPT ![r] = where], UNCHANGED <<origin, marking>>,
             \A q \in Runs : whole[q] => whole'[q]
      PROVE  MarkingRan'
    BY <1>4
<1>5. ASSUME NEW r \in Runs, IngestSkipped(r) PROVE MarkingRan'
    BY <1>5 DEF IngestSkipped, memberVars
<1>6. ASSUME NEW r \in Runs, IngestFanOut(r) PROVE MarkingRan'
    BY <1>6 DEF IngestFanOut, HeaderOf, Stages
<1>7. ASSUME NEW r \in Runs, UpdateFanOut(r) PROVE MarkingRan'
    <2>1. \A q \in Runs : whole[q] => whole'[q]
        BY <1>7 DEF UpdateFanOut, HeaderOf
    <2>2. PICK where \in {"finalize", "update_chord"} :
             stage' = [stage EXCEPT ![r] = where]
        BY <1>7 DEF UpdateFanOut
    <2> QED
        BY <1>4, <1>7, <2>1, <2>2 DEF UpdateFanOut, Stages
<1>8. ASSUME NEW r \in Runs,
             \/ FinalizeRaises(r) \/ ChordCompletes(r) \/ ChordBreaks(r)
             \/ \E ack \in BOOLEAN : Finalize(r, ack)
      PROVE  MarkingRan'
    <2>1. UNCHANGED <<whole, origin, marking>>
        BY <1>8 DEF FinalizeRaises, ChordCompletes, ChordBreaks, Finalize, Forget,
           memberVars
    <2>2. \/ UNCHANGED stage
          \/ \E where \in {"broken", "done", "update", "finalize"} :
                stage' = [stage EXCEPT ![r] = where]
        BY <1>8 DEF FinalizeRaises, ChordCompletes, ChordBreaks, Finalize
    <2> QED
        BY <1>3, <1>4, <2>1, <2>2 DEF Stages
<1>9. ASSUME NEW r \in Runs, NEW c \in Creators,
             \/ ScrapeSkips(r, c) \/ ScrapeRaises(r, c)
             \/ \E ack \in BOOLEAN : ScrapeCommits(r, c, ack)
      PROVE  MarkingRan'
    BY <1>3, <1>9 DEF ScrapeSkips, ScrapeRaises, ScrapeCommits
<1>10. ASSUME NEW r \in Runs, MarkSchedule(r) \/ MarkRaises(r) \/ FanOutRaises(r)
      PROVE  MarkingRan'
    <2>1. CASE MarkSchedule(r) \/ MarkRaises(r)
        BY <1>3, <2>1 DEF MarkSchedule, MarkRaises, memberVars
    <2>2. CASE FanOutRaises(r)
        BY <1>4, <2>2 DEF FanOutRaises, Stages, memberVars
    <2> QED
        BY <1>10, <2>1, <2>2
<1>11. ASSUME NEW r \in Runs, NEW q \in Runs, LostBeforeMark(r, q) PROVE MarkingRan'
    BY <1>1, <1>11 DEF LostBeforeMark, memberVars
<1>12. ASSUME NEW r \in Runs, NEW q \in Runs, LostInFanOut(r, q) PROVE MarkingRan'
    BY <1>12 DEF LostInFanOut, Publish, HeaderOf
<1>13. ASSUME NEW r \in Runs, Work(r) PROVE MarkingRan'
    BY <1>5, <1>6, <1>7, <1>8, <1>9, <1>10, <1>13 DEF Work
<1>14. ASSUME NEW r \in Runs, Loss(r) PROVE MarkingRan'
    BY <1>8, <1>9, <1>11, <1>12, <1>14 DEF Loss
<1>15. CASE Tick \/ Admin \/ UNCHANGED vars
    BY <1>3, <1>15 DEF Tick, Admin, AddCreator, MoveCreator, DeleteCreator, UpdateGroup,
       UpdateSchedule, SoftDeleteGroup, vars, memberVars
<1> QED
    BY <1>2, <1>13, <1>14, <1>15 DEF Next

\* Typing: every step preserves TypeOK.
LEMMA NextType == TypeOK /\ MarkingRan /\ [Next]_vars => TypeOK'
<1> SUFFICES ASSUME TypeOK, MarkingRan, [Next]_vars PROVE TypeOK'
    OBVIOUS
<1>1. ASSUME NEW r \in Runs, Work(r) PROVE TypeOK'
    BY <1>1, RunType, ScrapeType DEF Work
<1>2. ASSUME NEW r \in Runs, Loss(r) PROVE TypeOK'
    BY <1>2, RunType, ScrapeType DEF Loss
<1>3. CASE UNCHANGED vars
    BY <1>3 DEF vars, TypeOK
<1> QED
    BY <1>1, <1>2, <1>3, RequestType DEF Next

\* TypeOK and MarkingRan hold together throughout every behaviour.
LEMMA Typed == Spec => [](TypeOK /\ MarkingRan)
<1>1. Init => MarkingRan
    BY DEF Init, MarkingRan
<1> QED
    BY <1>1, InitType, NextType, MarkingInductive, PTL DEF Spec

\* Every variable keeps its type; in particular no scrape task is retried more
\* than MaxRetries times and only schedules are marked executed.
THEOREM TypeCorrect == Spec => []TypeOK
<1> QED
    BY Typed, PTL

-----------------------------------------------------------------------------
(* The once schedules.                                                     *)

\* A run that has been fanned out for a schedule never becomes one that has
\* not: what the witness of MarkedScheduleRan relies on.
Ran(r) == stage[r] \notin {"free", "ingest", "skipped"} /\ whole[r]

\* Every step keeps what has run, and moves no run to another schedule.
LEMMA RanStays ==
    ASSUME TypeOK, [Next]_vars, NEW r \in Runs, Ran(r)
    PROVE  Ran(r)' /\ origin'[r] = origin[r]
<1> USE DEF TypeOK, Ran
<1>1. ASSUME NEW q \in Runs, NEW where, NEW g, NEW o, Publish(q, where, g, o),
             whole'[r] = whole[r] \/ q = r
      PROVE  Ran(r)' /\ origin'[r] = origin[r]
    BY <1>1 DEF Publish
<1>2. ASSUME NEW q \in Runs, Request(q) PROVE Ran(r)' /\ origin'[r] = origin[r]
    BY <1>1, <1>2 DEF Request, TriggerIngest, TriggerUpdate, CoordinatorDispatch,
       ScheduleFires, memberVars
<1>3. ASSUME NEW q \in Runs, IngestFanOut(q) \/ UpdateFanOut(q) \/ IngestSkipped(q)
      PROVE  Ran(r)' /\ origin'[r] = origin[r]
    BY <1>3 DEF IngestFanOut, UpdateFanOut, IngestSkipped, HeaderOf, memberVars
<1>4. ASSUME NEW q \in Runs,
             \/ FinalizeRaises(q) \/ ChordCompletes(q) \/ ChordBreaks(q)
             \/ \E ack \in BOOLEAN : Finalize(q, ack)
      PROVE  Ran(r)' /\ origin'[r] = origin[r]
    BY <1>4 DEF FinalizeRaises, ChordCompletes, ChordBreaks, Finalize, Forget,
       memberVars
<1>5. ASSUME NEW q \in Runs, NEW c \in Creators,
             \/ ScrapeSkips(q, c) \/ ScrapeRaises(q, c)
             \/ \E ack \in BOOLEAN : ScrapeCommits(q, c, ack)
      PROVE  Ran(r)' /\ origin'[r] = origin[r]
    BY <1>5 DEF ScrapeSkips, ScrapeRaises, ScrapeCommits
<1>6. ASSUME NEW q \in Runs, MarkSchedule(q) \/ MarkRaises(q) \/ FanOutRaises(q)
      PROVE  Ran(r)' /\ origin'[r] = origin[r]
    BY <1>6 DEF MarkSchedule, MarkRaises, FanOutRaises, memberVars
<1>7. ASSUME NEW p \in Runs, NEW q \in Runs, LostBeforeMark(p, q)
      PROVE  Ran(r)' /\ origin'[r] = origin[r]
    BY <1>1, <1>7 DEF LostBeforeMark, memberVars
<1>8. ASSUME NEW p \in Runs, NEW q \in Runs, LostInFanOut(p, q)
      PROVE  Ran(r)' /\ origin'[r] = origin[r]
    BY <1>8 DEF LostInFanOut, Publish, HeaderOf
<1>9. CASE Tick \/ Admin \/ UNCHANGED vars
    BY <1>9 DEF Tick, Admin, AddCreator, MoveCreator, DeleteCreator, UpdateGroup,
       UpdateSchedule, SoftDeleteGroup, vars, memberVars
<1> QED
    BY <1>2, <1>3, <1>4, <1>5, <1>6, <1>7, <1>8, <1>9 DEF Next, Work, Loss

\* Only marking a schedule makes it executed.
LEMMA OnlyMarked ==
    ASSUME [Next]_vars, NEW s \in executed', s \notin executed
    PROVE  \E r \in marking : s = origin[r] /\ UNCHANGED <<stage, origin, whole>>
<1>1. PICK r : MarkSchedule(r)
    <2>1. executed' # executed
        OBVIOUS
    <2>2. ~(Tick \/ Admin)
        BY <2>1 DEF Tick, Admin, AddCreator, MoveCreator, DeleteCreator, UpdateGroup, UpdateSchedule,
                    SoftDeleteGroup
    <2>3. \A r \in Runs : ~Request(r)
        BY <2>1 DEF Request, TriggerIngest, TriggerUpdate, CoordinatorDispatch,
                    ScheduleFires, dbVars
    <2>4. \A r \in Runs : ~Loss(r)
        BY <2>1 DEF Loss, LostBeforeMark, LostInFanOut, Finalize, ScrapeCommits, dbVars
    <2>5. \A r \in Runs : Work(r) => MarkSchedule(r)
        BY <2>1 DEF Work, IngestSkipped, IngestFanOut, MarkRaises, FanOutRaises,
                    UpdateFanOut, Finalize, FinalizeRaises, ScrapeSkips, ScrapeCommits,
                    ScrapeRaises, ChordCompletes, ChordBreaks, dbVars
    <2> QED
        BY <2>1, <2>2, <2>3, <2>4, <2>5 DEF Next, vars
<1> QED
    BY <1>1 DEF MarkSchedule, memberVars

\* A once schedule is marked executed only after a run of it was fanned out
\* completely, whatever workers are lost in between.
THEOREM MarkedOnlyAfterRun == Spec => []MarkedScheduleRan
<1>1. Init => MarkedScheduleRan
    BY DEF Init, MarkedScheduleRan
<1>2. TypeOK /\ MarkingRan /\ MarkedScheduleRan /\ [Next]_vars => MarkedScheduleRan'
    <2> SUFFICES ASSUME TypeOK, MarkingRan, MarkedScheduleRan, [Next]_vars,
                        NEW s \in executed'
                 PROVE  \E r \in Runs : origin'[r] = s /\ Ran(r)'
        BY DEF MarkedScheduleRan, Ran
    <2>1. CASE s \in executed
        <3>1. PICK r \in Runs : origin[r] = s /\ Ran(r)
            BY <2>1 DEF MarkedScheduleRan, Ran
        <3> QED
            BY <3>1, RanStays
    <2>2. CASE s \notin executed
        <3>1. PICK r \in marking : s = origin[r] /\ UNCHANGED <<stage, origin, whole>>
            BY <2>2, OnlyMarked
        <3>2. r \in Runs /\ Ran(r)
            BY DEF MarkingRan, TypeOK, Ran
        <3> QED
            BY <3>1, <3>2 DEF Ran
    <2> QED
        BY <2>1, <2>2
<1> QED
    BY <1>1, <1>2, Typed, PTL DEF Spec

-----------------------------------------------------------------------------
(* What the chords guarantee.                                              *)

\* Nothing was stamped, and no chord published, in the future.
ClocksPast ==
    /\ \A r \in Runs : begun[r] <= now
    /\ \A c \in Creators : updateAt[c] <= now /\ ingestAt[c] <= now

\* Run r covers its group.  Of the creators that were there before its header
\* went out: a complete header has all that are left, those a task returned
\* for were scraped by the chord's line since then (or are gone), and so were
\* all of them at finalize.
Covers(r) ==
    /\ stage[r] \in Chords /\ whole[r] =>
         \A c \in Older(r) : member[r][c] # "none"
    /\ stage[r] = "ingest_chord" =>
         \A c \in Older(r) : member[r][c] = "ok" => ingestAt[c] >= begun[r]
    /\ stage[r] = "update_chord" =>
         \A c \in Older(r) : member[r][c] = "ok" => updateAt[c] >= begun[r]
    /\ stage[r] = "finalize" =>
         \A c \in Older(r) : updateAt[c] >= begun[r]

\* The inductive invariant behind both chord properties.
IInv == TypeOK /\ MarkingRan /\ ClocksPast /\ \A r \in Runs : Covers(r)

\* The types as numbers, for the comparisons below.
LEMMA Numbers ==
    ASSUME TypeOK
    PROVE  /\ now \in Nat
           /\ \A r \in Runs : begun[r] \in Nat
           /\ \A c \in Creators : updateAt[c] \in Nat /\ ingestAt[c] \in Nat
           /\ \A c \in Creators : joined[c] \in Nat
BY PipelineAssumption DEF TypeOK, Times

\* What a step does to the clocks and the creators: time and stamps only
\* advance, creators go, and those that come to a group come now.
Advances ==
    /\ now <= now'
    /\ \A c \in live' : \/ joined'[c] = now
                        \/ c \in live /\ home'[c] = home[c] /\ joined'[c] = joined[c]
    /\ \A c \in Creators : updateAt[c] <= updateAt'[c] /\ ingestAt[c] <= ingestAt'[c]

\* A step that leaves run r alone keeps what r covers.
LEMMA FrameCovers ==
    ASSUME TypeOK, TypeOK', ClocksPast, Advances, NEW r \in Runs, Covers(r),
           stage'[r] = stage[r], grp'[r] = grp[r], member'[r] = member[r],
           whole'[r] = whole[r], begun'[r] = begun[r]
    PROVE  Covers(r)'
<1>0. /\ now \in Nat /\ begun[r] \in Nat /\ begun[r] <= now
      /\ \A c \in Creators : updateAt[c] \in Nat /\ ingestAt[c] \in Nat
      /\ \A c \in Creators : updateAt'[c] \in Nat /\ ingestAt'[c] \in Nat
    BY Numbers, PipelineAssumption DEF TypeOK, Times, ClocksPast
<1>1. Older(r)' \subseteq Older(r) /\ Older(r) \subseteq Creators
    <2>1. ASSUME NEW c \in Older(r)' PROVE c \in Older(r)
        <3>1. c \in live' /\ home'[c] = grp[r] /\ joined'[c] < begun[r]
            BY <2>1 DEF Older, GroupCreators
        <3>2. c \in live /\ home'[c] = home[c] /\ joined'[c] = joined[c]
            BY <1>0, <3>1 DEF Advances
        <3> QED
            BY <3>1, <3>2 DEF Older, GroupCreators
    <2> QED
        BY <2>1 DEF Older, GroupCreators, TypeOK
<1>2. \A c \in Older(r) : /\ updateAt[c] >= begun[r] => updateAt'[c] >= begun'[r]
                          /\ ingestAt[c] >= begun[r] => ingestAt'[c] >= begun'[r]
    BY <1>0, <1>1 DEF Advances
<1> QED
    BY <1>1, <1>2 DEF Covers

\* A run outside chords and finalize covers its group vacuously.
LEMMA IdleCovers ==
    ASSUME NEW r, stage'[r] \notin {"ingest_chord", "update_chord", "finalize"}
    PROVE  Covers(r)'
BY DEF Covers, Chords

\* A header just published covers what it says it is complete for.
LEMMA HeaderCovers ==
    ASSUME TypeOK, NEW r \in Runs, NEW g, NEW S, NEW b \in BOOLEAN,
           HeaderOf(r, S, b), b => S = GroupCreators(g),
           stage'[r] \in Chords, grp'[r] = g, UNCHANGED <<live, home>>
    PROVE  Covers(r)'
<1>1. live \subseteq Creators
    BY DEF TypeOK
<1>2. \A c \in Creators : member'[r][c] = IF c \in S THEN "queued" ELSE "none"
    BY DEF HeaderOf, TypeOK
<1>3. whole'[r] = b
    BY DEF HeaderOf, TypeOK
<1>4. Older(r)' \subseteq GroupCreators(g) /\ GroupCreators(g) \subseteq Creators
    BY <1>1 DEF Older, GroupCreators
<1> QED
    BY <1>2, <1>3, <1>4 DEF Covers, Chords

\* The clocks stay past and advance.
LEMMA ClocksInductive ==
    TypeOK /\ TypeOK' /\ ClocksPast /\ [Next]_vars => ClocksPast' /\ Advances
<1> SUFFICES ASSUME TypeOK, TypeOK', ClocksPast, [Next]_vars
             PROVE  ClocksPast' /\ Advances
    OBVIOUS
<1>0. /\ now \in Nat
      /\ \A r \in Runs : begun[r] \in Nat
      /\ \A c \in Creators : updateAt[c] \in Nat /\ ingestAt[c] \in Nat
    BY Numbers
<1> USE DEF ClocksPast, Advances
<1>1. CASE UNCHANGED <<now, updateAt, ingestAt, begun, home, joined>> /\ live' \subseteq live
    BY <1>0, <1>1
<1>2. CASE Tick
    BY <1>0, <1>2 DEF Tick, memberVars
<1>3. ASSUME NEW r \in Runs, NEW S, NEW b, HeaderOf(r, S, b) \/ Forget(r),
             UNCHANGED <<now, updateAt, ingestAt, live, home, joined>>
      PROVE  ClocksPast' /\ Advances
    <2>1. \A q \in Runs : begun'[q] \in {begun[q], now, 0}
        BY <1>3 DEF HeaderOf, Forget, TypeOK
    <2> QED
        BY <1>0, <1>3, <2>1
<1>4. ASSUME NEW r \in Runs, NEW c \in Creators, NEW ack \in BOOLEAN,
             ScrapeCommits(r, c, ack) \/ ScrapeRaises(r, c)
      PROVE  ClocksPast' /\ Advances
    <2>1. /\ \A d \in Creators : updateAt'[d] \in {updateAt[d], now}
          /\ \A d \in Creators : ingestAt'[d] \in {ingestAt[d], now}
          /\ UNCHANGED <<now, live, home, joined, begun>>
        BY <1>4 DEF ScrapeCommits, ScrapeRaises, Scraped, TypeOK
    <2> QED
        BY <1>0, <2>1
<1>5. ASSUME NEW r \in Runs, Request(r) PROVE ClocksPast' /\ Advances
    BY <1>1, <1>5 DEF Request, TriggerIngest, TriggerUpdate, CoordinatorDispatch,
       ScheduleFires, dbVars, memberVars
<1>6. CASE Admin \/ UNCHANGED vars
    <2>1. ASSUME NEW c \in Creators, AddCreator(c) PROVE ClocksPast' /\ Advances
        <3>1. /\ UNCHANGED <<now, updateAt, ingestAt, begun, home>>
              /\ live' = live \cup {c} /\ joined' = [joined EXCEPT ![c] = now]
            BY <2>1 DEF AddCreator, memberVars
        <3> QED
            BY <1>0, <3>1 DEF TypeOK
    <2>2. ASSUME NEW c \in Creators, NEW g \in Groups, MoveCreator(c, g)
          PROVE  ClocksPast' /\ Advances
        <3>1. /\ UNCHANGED <<now, updateAt, ingestAt, begun, live>>
              /\ home' = [home EXCEPT ![c] = g] /\ joined' = [joined EXCEPT ![c] = now]
            BY <2>2 DEF MoveCreator, memberVars
        <3> QED
            BY <1>0, <3>1 DEF TypeOK
    <2> QED
        BY <1>1, <1>6, <2>1, <2>2 DEF Admin, DeleteCreator, UpdateGroup,
       UpdateSchedule, SoftDeleteGroup, vars, memberVars
<1>7. ASSUME NEW r \in Runs, Work(r) PROVE ClocksPast' /\ Advances
    <2>1. CASE IngestSkipped(r) \/ MarkSchedule(r) \/ MarkRaises(r) \/ FanOutRaises(r)
        BY <1>1, <2>1 DEF IngestSkipped, MarkSchedule, MarkRaises, FanOutRaises, dbVars,
           memberVars
    <2>2. CASE IngestFanOut(r)
        BY <1>3, <2>2 DEF IngestFanOut, dbVars
    <2>3. CASE UpdateFanOut(r)
        BY <1>3, <2>3 DEF UpdateFanOut, dbVars
    <2>4. CASE FinalizeRaises(r) \/ ChordBreaks(r) \/ Finalize(r, TRUE)
        BY <1>1, <1>3, <2>4 DEF FinalizeRaises, ChordBreaks, Finalize, dbVars, memberVars
    <2>5. CASE ChordCompletes(r)
        BY <1>1, <1>3, <2>5 DEF ChordCompletes, dbVars, memberVars
    <2>6. ASSUME NEW c \in Creators, ScrapeSkips(r, c)
          PROVE  ClocksPast' /\ Advances
        BY <1>1, <2>6 DEF ScrapeSkips, dbVars
    <2> QED
        BY <1>4, <1>7, <2>1, <2>2, <2>3, <2>4, <2>5, <2>6 DEF Work
<1>8. ASSUME NEW r \in Runs, Loss(r) PROVE ClocksPast' /\ Advances
    <2>1. ASSUME NEW q \in Runs, LostBeforeMark(r, q) PROVE ClocksPast' /\ Advances
        BY <1>1, <2>1 DEF LostBeforeMark, dbVars, memberVars
    <2>2. ASSUME NEW q \in Runs, LostInFanOut(r, q) PROVE ClocksPast' /\ Advances
        BY <1>3, <2>2 DEF LostInFanOut, dbVars
    <2>3. CASE Finalize(r, FALSE)
        BY <1>1, <2>3 DEF Finalize, memberVars
    <2> QED
        BY <1>4, <1>8, <2>1, <2>2, <2>3 DEF Loss
<1> QED
    BY <1>2, <1>5, <1>6, <1>7, <1>8 DEF Next

\* Publishing a run in an idle stage leaves every run covered.
LEMMA PublishCovers ==
    ASSUME TypeOK, TypeOK', ClocksPast, Advances, \A p \in Runs : Covers(p),
           NEW q \in Runs, NEW where \in {"ingest", "update"}, NEW g, NEW o,
           Publish(q, where, g, o), UNCHANGED memberVars
    PROVE  \A p \in Runs : Covers(p)'
<1> SUFFICES ASSUME NEW p \in Runs PROVE Covers(p)'
    OBVIOUS
<1>1. CASE p = q
    BY <1>1, IdleCovers DEF Publish, TypeOK
<1>2. CASE p # q
    BY <1>2, FrameCovers DEF Publish, TypeOK, memberVars
<1> QED
    BY <1>1, <1>2

\* A step that changes only run q, and leaves q covered, leaves all covered.
LEMMA OthersCover ==
    ASSUME TypeOK, TypeOK', ClocksPast, Advances, \A p \in Runs : Covers(p), NEW q \in Runs,
           Covers(q)',
           \A p \in Runs \ {q} : /\ stage'[p] = stage[p] /\ grp'[p] = grp[p]
                                 /\ member'[p] = member[p] /\ whole'[p] = whole[p]
                                 /\ begun'[p] = begun[p]
    PROVE  \A p \in Runs : Covers(p)'
BY FrameCovers

\* Run q forgets its chord.
LEMMA ForgetCovers ==
    ASSUME TypeOK, TypeOK', ClocksPast, Advances, \A p \in Runs : Covers(p), NEW q \in Runs,
           Forget(q), NEW where \in {"update", "broken", "done"},
           stage' = [stage EXCEPT ![q] = where], UNCHANGED grp
    PROVE  \A p \in Runs : Covers(p)'
<1>1. Covers(q)'
    BY IdleCovers DEF TypeOK
<1>2. \A p \in Runs \ {q} : /\ stage'[p] = stage[p] /\ grp'[p] = grp[p]
                            /\ member'[p] = member[p] /\ whole'[p] = whole[p]
                            /\ begun'[p] = begun[p]
    BY DEF Forget, TypeOK
<1> QED
    BY <1>1, <1>2, OthersCover

\* Run q publishes a header.
LEMMA FanOutCovers ==
    ASSUME TypeOK, TypeOK', ClocksPast, Advances, \A p \in Runs : Covers(p), NEW q \in Runs,
           NEW g, NEW S, NEW b \in BOOLEAN, HeaderOf(q, S, b),
           b => S = GroupCreators(g), grp'[q] = g, UNCHANGED <<live, home>>,
           \/ stage'[q] \in Chords
           \/ stage'[q] = "update"
           \/ stage'[q] = "finalize" /\ GroupCreators(g) = {},
           \A p \in Runs \ {q} : stage'[p] = stage[p] /\ grp'[p] = grp[p]
    PROVE  \A p \in Runs : Covers(p)'
<1>1. Covers(q)'
    <2>1. CASE stage'[q] \in Chords
        BY <2>1, HeaderCovers
    <2>2. CASE stage'[q] = "update"
        BY <2>2, IdleCovers
    <2>3. CASE stage'[q] = "finalize" /\ GroupCreators(g) = {}
        BY <2>3 DEF Covers, Older, GroupCreators, Chords
    <2> QED
        BY <2>1, <2>2, <2>3
<1>2. \A p \in Runs \ {q} : /\ stage'[p] = stage[p] /\ grp'[p] = grp[p]
                            /\ member'[p] = member[p] /\ whole'[p] = whole[p]
                            /\ begun'[p] = begun[p]
    BY DEF HeaderOf, TypeOK
<1> QED
    BY <1>1, <1>2, OthersCover

\* A step of the scrape of creator c in run q: a task that returned has just
\* stamped the creator, or has no creator left to stamp.
LEMMA ScrapeCovers ==
    ASSUME IInv, TypeOK', Advances, NEW q \in Runs, NEW c \in Creators,
           NEW ack \in BOOLEAN,
           ScrapeSkips(q, c) \/ ScrapeCommits(q, c, ack) \/ ScrapeRaises(q, c)
    PROVE  \A p \in Runs : Covers(p)'
<1>1. /\ UNCHANGED <<stage, grp, whole, begun, live, home, joined>>
      /\ \A p \in Runs \ {q} : member'[p] = member[p]
      /\ \A d \in Creators \ {c} : member'[q][d] = member[q][d]
      /\ member[q][c] = "queued" /\ stage[q] \in Chords
    BY DEF ScrapeSkips, ScrapeCommits, ScrapeRaises, Scraped, Queued, IInv, TypeOK, dbVars
<1>2. /\ Older(q)' = Older(q) /\ Older(q) \subseteq Creators
      /\ \A d \in Older(q) : d \in live
    BY <1>1 DEF IInv, TypeOK, Older, GroupCreators
<1>3. /\ begun[q] <= now /\ begun[q] \in Nat /\ now \in Nat
      /\ \A d \in Creators : updateAt[d] \in Nat /\ ingestAt[d] \in Nat
      /\ \A d \in Creators : updateAt'[d] \in Nat /\ ingestAt'[d] \in Nat
    BY Numbers, PipelineAssumption DEF IInv, ClocksPast, TypeOK, Times
<1>4. member'[q][c] \in {"queued", "ok", "failed"}
    BY <1>1 DEF ScrapeSkips, ScrapeCommits, ScrapeRaises, Scraped, IInv, TypeOK
<1>5. c \in live /\ member'[q][c] = "ok" =>
         IF stage[q] = "ingest_chord" THEN ingestAt'[c] = now ELSE updateAt'[c] = now
    BY <1>1 DEF ScrapeSkips, ScrapeCommits, ScrapeRaises, Scraped, IInv, TypeOK
<1>6. Covers(q)
    BY DEF IInv
<1>7. stage[q] \in Chords /\ whole[q] =>
        \A d \in Older(q) : member'[q][d] # "none"
    BY <1>1, <1>2, <1>4, <1>6 DEF Covers
<1>8. stage[q] = "ingest_chord" =>
        \A d \in Older(q) : member'[q][d] = "ok" => ingestAt'[d] >= begun[q]
    BY <1>1, <1>2, <1>3, <1>5, <1>6 DEF Covers, Advances
<1>9. stage[q] = "update_chord" =>
        \A d \in Older(q) : member'[q][d] = "ok" => updateAt'[d] >= begun[q]
    BY <1>1, <1>2, <1>3, <1>5, <1>6 DEF Covers, Advances
<1>10. Covers(q)'
    BY <1>1, <1>2, <1>7, <1>8, <1>9 DEF Covers, Chords
<1> QED
    BY <1>1, <1>10, OthersCover DEF IInv

\* Every step leaves every run covering its group.
LEMMA CoversInductive ==
    IInv /\ TypeOK' /\ Advances /\ [Next]_vars => \A p \in Runs : Covers(p)'
<1> SUFFICES ASSUME IInv, TypeOK', Advances, [Next]_vars
             PROVE  \A p \in Runs : Covers(p)'
    OBVIOUS
<1>0. TypeOK /\ ClocksPast /\ \A p \in Runs : Covers(p)
    BY DEF IInv
<1>1. CASE UNCHANGED <<stage, grp, memberVars>>
    BY <1>0, <1>1, FrameCovers DEF memberVars
<1>2. ASSUME NEW r \in Runs, Request(r) PROVE \A p \in Runs : Covers(p)'
    BY <1>0, <1>2, PublishCovers
       DEF Request, TriggerIngest, TriggerUpdate, CoordinatorDispatch, ScheduleFires
<1>3. ASSUME NEW r \in Runs, Work(r) PROVE \A p \in Runs : Covers(p)'
    <2>1. CASE IngestSkipped(r)
        <3>1. Covers(r)'
            BY <1>0, <2>1, IdleCovers DEF IngestSkipped, TypeOK
        <3> QED
            BY <1>0, <2>1, <3>1, OthersCover DEF IngestSkipped, TypeOK, memberVars
    <2>2. CASE IngestFanOut(r)
        <3>1. /\ HeaderOf(r, GroupCreators(grp[r]), TRUE) /\ grp' = grp /\ UNCHANGED <<live, home>>
              /\ stage'[r] \in {"update", "ingest_chord"}
              /\ \A p \in Runs \ {r} : stage'[p] = stage[p]
            BY <1>0, <2>2 DEF IngestFanOut, TypeOK, dbVars
        <3> QED
            BY <1>0, <3>1, FanOutCovers DEF Chords
    <2>3. CASE UpdateFanOut(r)
        <3>1. /\ HeaderOf(r, GroupCreators(grp[r]), TRUE) /\ grp' = grp /\ UNCHANGED <<live, home>>
              /\ \/ stage'[r] = "update_chord"
                 \/ stage'[r] = "finalize" /\ GroupCreators(grp[r]) = {}
              /\ \A p \in Runs \ {r} : stage'[p] = stage[p]
            BY <1>0, <2>3 DEF UpdateFanOut, TypeOK, dbVars
        <3> QED
            BY <1>0, <3>1, FanOutCovers DEF Chords
    <2>4. CASE MarkSchedule(r) \/ MarkRaises(r)
        BY <1>1, <2>4 DEF MarkSchedule, MarkRaises
    <2>7. CASE FanOutRaises(r)
        <3>1. Covers(r)'
            BY <1>0, <2>7, IdleCovers DEF FanOutRaises, TypeOK
        <3> QED
            BY <1>0, <2>7, <3>1, OthersCover DEF FanOutRaises, TypeOK, memberVars
    <2>5. CASE FinalizeRaises(r) \/ ChordBreaks(r) \/ Finalize(r, TRUE)
        BY <1>0, <2>5, ForgetCovers DEF FinalizeRaises, ChordBreaks, Finalize
    <2>6. CASE ChordCompletes(r)
        <3>1. CASE stage[r] = "ingest_chord"
            BY <1>0, <2>6, <3>1, ForgetCovers DEF ChordCompletes
        <3>2. CASE stage[r] = "update_chord"
            <4>1. /\ stage'[r] = "finalize" /\ UNCHANGED <<grp, memberVars, live, home, joined, updateAt>>
                  /\ \A p \in Runs \ {r} : stage'[p] = stage[p]
                BY <1>0, <2>6, <3>2 DEF ChordCompletes, TypeOK, dbVars
            <4>2. \A c \in Older(r) : member[r][c] = "ok"
                BY <1>0, <2>6 DEF ChordCompletes, Covers, Header, Older, GroupCreators,
                   TypeOK
            <4>3. \A c \in Older(r) : updateAt[c] >= begun[r]
                BY <1>0, <3>2, <4>2 DEF Covers
            <4>4. Covers(r)'
                BY <4>1, <4>3 DEF Covers, Older, GroupCreators, Chords, memberVars
            <4> QED
                BY <1>0, <4>1, <4>4, OthersCover DEF memberVars
        <3> QED
            BY <2>6, <3>1, <3>2 DEF ChordCompletes, Chords
    <2> QED
        BY <1>3, <2>1, <2>2, <2>3, <2>4, <2>5, <2>6, <2>7, ScrapeCovers DEF Work
<1>4. ASSUME NEW r \in Runs, Loss(r) PROVE \A p \in Runs : Covers(p)'
    <2>1. ASSUME NEW q \in Runs, LostBeforeMark(r, q) PROVE \A p \in Runs : Covers(p)'
        BY <1>0, <2>1, PublishCovers DEF LostBeforeMark
    <2>2. ASSUME NEW q \in Runs, LostInFanOut(r, q) PROVE \A p \in Runs : Covers(p)'
        <3>1. PICK S : HeaderOf(q, S, S = GroupCreators(grp[r]))
            BY <2>2 DEF LostInFanOut
        <3>2. /\ stage'[q] \in Chords /\ grp'[q] = grp[r] /\ UNCHANGED <<live, home>>
              /\ \A p \in Runs \ {q} : stage'[p] = stage[p] /\ grp'[p] = grp[p]
            BY <1>0, <2>2 DEF LostInFanOut, Publish, TypeOK, Chords, dbVars
        <3> QED
            BY <1>0, <3>1, <3>2, FanOutCovers
    <2>3. CASE Finalize(r, FALSE)
        BY <1>1, <2>3 DEF Finalize
    <2> QED
        BY <1>4, <2>1, <2>2, <2>3, ScrapeCovers DEF Loss
<1>5. CASE Tick \/ Admin \/ UNCHANGED vars
    <2>1. UNCHANGED <<stage, grp, memberVars>>
        BY <1>5 DEF Tick, Admin, AddCreator, MoveCreator, DeleteCreator, UpdateGroup,
       UpdateSchedule, SoftDeleteGroup, vars, memberVars
    <2> QED
        BY <1>1, <2>1
<1> QED
    BY <1>2, <1>3, <1>4, <1>5 DEF Next

\* IInv holds throughout every behaviour.
LEMMA Invariant == Spec => []IInv
<1>1. Init => IInv
    <2> SUFFICES ASSUME Init PROVE MarkingRan /\ ClocksPast /\ \A r \in Runs : Covers(r)
        BY InitType DEF IInv
    <2> QED
        BY DEF Init, MarkingRan, ClocksPast, Covers, Chords
<1>2. IInv /\ [Next]_vars => IInv'
    BY NextType, MarkingInductive, ClocksInductive, CoversInductive DEF IInv
<1> QED
    BY <1>1, <1>2, PTL DEF Spec

\* Only a finalize stamps a group.
LEMMA OnlyFinalizeStamps ==
    ASSUME TypeOK, [Next]_vars, NEW g \in Groups, stamp'[g] # stamp[g]
    PROVE  \E r \in Runs : stage[r] = "finalize" /\ grp[r] = g
<1>1. PICK r \in Runs, ack \in BOOLEAN : Finalize(r, ack)
    <2>1. stamp' # stamp
        OBVIOUS
    <2>2. ~(Tick \/ Admin)
        BY <2>1 DEF Tick, Admin, AddCreator, MoveCreator, DeleteCreator, UpdateGroup,
                    UpdateSchedule, SoftDeleteGroup
    <2>3. \A r \in Runs : ~Request(r)
        BY <2>1 DEF Request, TriggerIngest, TriggerUpdate, CoordinatorDispatch,
                    ScheduleFires, dbVars
    <2>4. \A r \in Runs : Loss(r) => Finalize(r, FALSE)
        BY <2>1 DEF Loss, LostBeforeMark, LostInFanOut, ScrapeCommits, dbVars
    <2>5. \A r \in Runs : Work(r) => Finalize(r, TRUE)
        BY <2>1 DEF Work, IngestSkipped, IngestFanOut, MarkSchedule, MarkRaises,
                    FanOutRaises, UpdateFanOut, FinalizeRaises, ScrapeSkips,
                    ScrapeCommits, ScrapeRaises, ChordCompletes, ChordBreaks, dbVars
    <2> QED
        BY <2>1, <2>2, <2>3, <2>4, <2>5 DEF Next, vars
<1>2. stamp' = [stamp EXCEPT ![grp[r]] = now] /\ stage[r] = "finalize"
    BY <1>1 DEF Finalize
<1>3. grp[r] = g
    BY <1>2 DEF TypeOK
<1> QED
    BY <1>2, <1>3

\* A group is stamped only when line B has scraped every creator it still has,
\* newcomers excepted, since the run that stamps it was fanned out: no
\* redelivery, retry, partial chord, addition, deletion or overlap of runs lets
\* a stale group pass for fresh.
THEOREM StampsCovered == Spec => StampCoversScrapes
<1>1. ASSUME IInv, [Next]_vars, NEW g \in Groups, stamp'[g] # stamp[g]
      PROVE  \E r \in Runs : /\ grp[r] = g /\ stage[r] = "finalize"
                             /\ \A c \in Older(r) : updateAt[c] >= begun[r]
    <2>1. PICK r \in Runs : stage[r] = "finalize" /\ grp[r] = g
        BY <1>1, OnlyFinalizeStamps DEF IInv
    <2> QED
        BY <1>1, <2>1 DEF IInv, Covers
<1>2. IInv /\ [Next]_vars =>
        [\A g \in Groups : stamp'[g] # stamp[g] =>
            \E r \in Runs :
               /\ grp[r] = g /\ stage[r] = "finalize"
               /\ \A c \in Older(r) : updateAt[c] >= begun[r]]_vars
    BY <1>1
<1> QED
    BY <1>2, Invariant, PTL DEF Spec, StampCoversScrapes

\* Only the completion of line A's chord chains line B.
LEMMA OnlyCompletionChains ==
    ASSUME TypeOK, [Next]_vars, NEW r \in Runs,
           stage[r] = "ingest_chord", stage'[r] = "update"
    PROVE  ChordCompletes(r)
<1>1. ASSUME NEW q \in Runs, NEW where, NEW g, NEW o, Publish(q, where, g, o)
      PROVE  FALSE
    BY <1>1 DEF Publish, TypeOK
<1>2. PICK q \in Runs : Work(q) \/ Loss(q)
    BY <1>1 DEF Next, Tick, Admin, AddCreator, MoveCreator, DeleteCreator, UpdateGroup,
       UpdateSchedule, SoftDeleteGroup, Request, TriggerIngest, TriggerUpdate, CoordinatorDispatch, ScheduleFires, vars
<1>3. Work(q)
    BY <1>1, <1>2 DEF Loss, LostBeforeMark, LostInFanOut, Finalize, ScrapeCommits
<1>4. \/ IngestSkipped(q) \/ IngestFanOut(q) \/ UpdateFanOut(q) \/ Finalize(q, TRUE)
      \/ FinalizeRaises(q) \/ FanOutRaises(q) \/ ChordCompletes(q) \/ ChordBreaks(q)
    BY <1>3 DEF Work, MarkSchedule, MarkRaises, ScrapeSkips, ScrapeCommits, ScrapeRaises
<1>5. q = r
    BY <1>4 DEF IngestSkipped, IngestFanOut, UpdateFanOut, Finalize, FinalizeRaises,
       FanOutRaises, ChordCompletes, ChordBreaks, TypeOK
<1> QED
    BY <1>4, <1>5 DEF IngestSkipped, IngestFanOut, UpdateFanOut, Finalize,
       FinalizeRaises, FanOutRaises, ChordBreaks, TypeOK

\* Line B chained to line A starts only when line A has ingested every creator
\* the group still has, newcomers excepted, since its chord was published.
THEOREM ChainCovered == Spec => ChainFollowsIngest
<1>1. ASSUME IInv, [Next]_vars, NEW r \in Runs,
             stage[r] = "ingest_chord", stage'[r] = "update",
             NEW c \in Older(r)
      PROVE  ingestAt[c] >= begun[r]
    <2>1. ChordCompletes(r)
        BY <1>1, OnlyCompletionChains DEF IInv
    <2>2. Covers(r) /\ TypeOK
        BY <1>1 DEF IInv
    <2>3. member[r][c] = "ok"
        BY <1>1, <2>1, <2>2 DEF ChordCompletes, Covers, Header, Older, GroupCreators,
           TypeOK
    <2> QED
        BY <1>1, <2>2, <2>3 DEF Covers
<1>2. IInv /\ [Next]_vars =>
        [\A r \in Runs : stage[r] = "ingest_chord" /\ stage'[r] = "update" =>
            \A c \in Older(r) : ingestAt[c] >= begun[r]]_vars
    BY <1>1
<1> QED
    BY <1>2, Invariant, PTL DEF Spec, ChainFollowsIngest
=============================================================================
