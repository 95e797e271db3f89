-------------------------- MODULE HotLocal_proofs --------------------------
(***************************************************************************)
(* Theorems about HotLocal, for any groups, creators and callers: the type *)
(* invariant, that the locks are never leaked nor shared, and that the     *)
(* module implements the contract of line B.                               *)
(***************************************************************************)
EXTENDS HotLocal, FiniteSetTheorems, TLAPS

\* Typing: Init establishes TypeOK.
LEMMA InitType == Init => TypeOK
<1> SUFFICES ASSUME Init PROVE TypeOK
    OBVIOUS
<1> USE LocalAssumption DEF Init, TypeOK, Times, Procs, Unread
<1>1. now \in Times /\ stamp \in [Groups -> Times]
    OBVIOUS
<1>2. seen \in [now : Times, stamp : [Groups -> Times]]
    OBVIOUS
<1> QED
    BY <1>1, <1>2

\* Updating a function with a value of its range keeps its type, wherever the
\* update falls.
LEMMA ExceptType ==
    ASSUME NEW S, NEW T, NEW f \in [S -> T], NEW x, NEW v \in T
    PROVE  [f EXCEPT ![x] = v] \in [S -> T]
OBVIOUS

\* What a coroutine's moves between parts of its code do to the variables
\* they set keeps those variables typed.
LEMMA MoveType ==
    ASSUME TypeOK, NEW p \in Procs, NEW g \in Groups,
           NEW where \in {"ingest", "update"},
           Scraping(p, g, where) \/ Return(p) \/ (Raise(p) /\ UNCHANGED now)
    PROVE  /\ pc' \in [Procs -> {"idle", "loop", "ingest", "update"}]
           /\ grp' \in [Procs -> Groups \cup {Free}]
           /\ left' \in [Procs -> SUBSET Creators]
           /\ tries' \in [Procs -> 0 .. MaxRetries]
<1> USE LocalAssumption DEF TypeOK
<1>1. CASE Scraping(p, g, where)
    BY <1>1 DEF Scraping
<1>2. CASE Return(p)
    BY <1>2 DEF Return
<1>3. CASE Raise(p)
    BY <1>3 DEF Raise
<1> QED
    BY <1>1, <1>2, <1>3

\* Typing: every step preserves TypeOK.
LEMMA NextType == TypeOK /\ [Next]_vars => TypeOK'
<1> SUFFICES ASSUME TypeOK, [Next]_vars PROVE TypeOK'
    OBVIOUS
<1> USE LocalAssumption DEF TypeOK
<1>0. Unread \in [now : Times, stamp : [Groups -> Times]]
    BY DEF Unread, Times
<1>1. CASE Tick
    BY <1>1 DEF Tick, Times
<1>2. CASE CoordinatorStart
    BY <1>2 DEF CoordinatorStart, Procs
<1>3. CASE CoordinatorStep
    <2>1. ASSUME NEW g \in Groups, CoordinatorSkip(g) PROVE TypeOK'
        BY <2>1 DEF CoordinatorSkip
    <2>2. ASSUME NEW g \in Groups, CoordinatorRun(g) PROVE TypeOK'
        BY <2>2, MoveType DEF CoordinatorRun, TryLock, Procs
    <2>3. CASE CoordinatorEnd
        BY <1>0, <2>3 DEF CoordinatorEnd
    <2> QED
        BY <1>3, <2>1, <2>2, <2>3 DEF CoordinatorStep
<1>4. ASSUME NEW p \in Callers, NEW g \in Groups,
             ManualUpdate(p, g) \/ StartIngest(p, g)
      PROVE TypeOK'
    <2>0. p \in Procs
        BY DEF Procs
    <2>1. CASE ManualUpdate(p, g)
        BY <2>0, <2>1, MoveType DEF ManualUpdate, TryLock
    <2>2. CASE StartIngest(p, g)
        BY <2>0, <2>2, MoveType DEF StartIngest
    <2> QED
        BY <1>4, <2>1, <2>2
<1>5. ASSUME NEW p \in Procs, Step(p) PROVE TypeOK'
    <2>1. ASSUME NEW c \in Creators, CreatorSettled(p, c) PROVE TypeOK'
        BY <2>1 DEF CreatorSettled
    <2>2. CASE ScrapeRetry(p)
        BY <2>2 DEF ScrapeRetry
    <2>3. CASE IngestDone(p)
        <3>1. CASE TryLock(p, grp[p]) /\ grp[p] \in Groups
            BY <2>3, <3>1, MoveType DEF IngestDone, TryLock
        <3>2. CASE Return(p) /\ UNCHANGED lock
            BY <2>3, <3>2 DEF IngestDone, Return
        <3>3. CASE TryLock(p, grp[p]) /\ grp[p] \notin Groups
            <4>1. lock' \in [Groups -> Procs \cup {Free}]
                BY <3>3, ExceptType DEF TryLock
            <4>2. grp[p] \in Groups \cup {Free}
                OBVIOUS
            <4> QED
                BY <2>3, <3>3, <4>1, <4>2 DEF IngestDone, TryLock, Scraping
        <3> QED
            BY <2>3, <3>1, <3>2, <3>3 DEF IngestDone
    <2>4. CASE IngestRaises(p)
        BY <1>0, <2>4 DEF IngestRaises, Raise
    <2>5. CASE UpdateDone(p)
        <3>1. lock' \in [Groups -> Procs \cup {Free}]
            BY <2>5, ExceptType DEF UpdateDone, Unlock
        <3>2. stamp' \in [Groups -> Times]
            BY <2>5, ExceptType DEF UpdateDone
        <3> QED
            BY <2>5, <3>1, <3>2 DEF UpdateDone, Return
    <2>6. CASE UpdateRaises(p)
        <3>1. lock' \in [Groups -> Procs \cup {Free}]
            BY <2>6, ExceptType DEF UpdateRaises, Unlock
        <3> QED
            BY <1>0, <2>6, <3>1 DEF UpdateRaises, Raise
    <2> QED
        BY <1>5, <2>1, <2>2, <2>3, <2>4, <2>5, <2>6 DEF Step
<1>6. CASE Restart
    BY <1>0, <1>6 DEF Restart
<1>7. CASE UNCHANGED vars
    BY <1>7 DEF vars
<1> QED
    BY <1>1, <1>2, <1>3, <1>4, <1>5, <1>6, <1>7 DEF Next

\* Every variable keeps its type; in particular no coroutine retries a
\* creator more than MaxRetries times.
THEOREM TypeCorrect == Spec => []TypeOK
<1> QED
    BY InitType, NextType, PTL DEF Spec

-----------------------------------------------------------------------------
\* A coroutine that scrapes, for line A or line B, does so for a group.
ScrapesAGroup ==
    \A p \in Procs : pc[p] \in {"ingest", "update"} => grp[p] \in Groups

\* The inductive invariant: LockMatchesBody alone says nothing of the group a
\* chained line B run is about to lock.
IInv == TypeOK /\ ScrapesAGroup /\ LockMatchesBody

\* Init establishes the inductive invariant.
LEMMA InitInvariant == Init => IInv
<1> SUFFICES ASSUME Init PROVE ScrapesAGroup /\ LockMatchesBody
    BY InitType DEF IInv
<1> QED
    BY LocalAssumption DEF Init, ScrapesAGroup, LockMatchesBody, InUpdate, Procs

\* ScrapesAGroup is inductive relative to the types.
LEMMA ScrapesInductive == TypeOK /\ ScrapesAGroup /\ [Next]_vars => ScrapesAGroup'
<1> SUFFICES ASSUME TypeOK, ScrapesAGroup, [Next]_vars PROVE ScrapesAGroup'
    OBVIOUS
<1> USE DEF TypeOK, ScrapesAGroup, Procs
<1>1. CASE Tick
    BY <1>1 DEF Tick
<1>2. CASE CoordinatorStart
    BY <1>2 DEF CoordinatorStart
<1>3. CASE CoordinatorStep
    BY <1>3 DEF CoordinatorStep, CoordinatorSkip, CoordinatorRun, CoordinatorEnd,
                TryLock, Scraping
<1>4. ASSUME NEW p \in Callers, NEW g \in Groups,
             ManualUpdate(p, g) \/ StartIngest(p, g)
      PROVE ScrapesAGroup'
    BY <1>4 DEF ManualUpdate, StartIngest, TryLock, Scraping
<1>5. ASSUME NEW p \in Procs, Step(p) PROVE ScrapesAGroup'
    BY <1>5 DEF Step, CreatorSettled, ScrapeRetry, IngestDone, IngestRaises,
                UpdateDone, UpdateRaises, TryLock, Scraping, Return, Raise
<1>6. CASE Restart
    BY <1>6 DEF Restart
<1>7. CASE UNCHANGED vars
    BY <1>7 DEF vars
<1> QED
    BY <1>1, <1>2, <1>3, <1>4, <1>5, <1>6, <1>7 DEF Next

\* A coroutine that is not in the line B body holds no lock.
LEMMA HoldsOnlyInUpdate ==
    ASSUME LockMatchesBody, NEW p \in Procs, pc[p] # "update", NEW g \in Groups
    PROVE  lock[g] # p
BY DEF LockMatchesBody, InUpdate

\* Taking the lock and entering the body are one step.
LEMMA TryLockMatches ==
    ASSUME TypeOK, LockMatchesBody, NEW p \in Procs, NEW g \in Groups,
           pc[p] # "update", TryLock(p, g)
    PROVE  LockMatchesBody'
<1> USE LocalAssumption DEF TypeOK, Procs
<1>1. lock' = [lock EXCEPT ![g] = p] /\ lock[g] = Free
    BY DEF TryLock
<1>2. pc' = [pc EXCEPT ![p] = "update"] /\ grp' = [grp EXCEPT ![p] = g]
    BY DEF TryLock, Scraping
<1> SUFFICES ASSUME NEW h \in Groups, NEW q \in Procs
             PROVE  lock'[h] = q <=> (pc'[q] = "update" /\ grp'[q] = h)
    BY DEF LockMatchesBody, InUpdate
<1>3. lock[h] = q <=> (pc[q] = "update" /\ grp[q] = h)
    BY DEF LockMatchesBody, InUpdate
<1>4. CASE q = p
    BY <1>1, <1>2, <1>4, HoldsOnlyInUpdate
<1>5. CASE q # p
    BY <1>1, <1>2, <1>3, <1>5
<1> QED
    BY <1>4, <1>5

\* Leaving the body, by its commit or by an exception, leaves the lock.
LEMMA UnlockMatches ==
    ASSUME TypeOK, LockMatchesBody, NEW p \in Procs, pc[p] = "update",
           Unlock(p), Return(p) \/ Raise(p)
    PROVE  LockMatchesBody'
<1> USE LocalAssumption DEF TypeOK, Procs
<1>1. lock' = [lock EXCEPT ![grp[p]] = Free]
    BY DEF Unlock
<1>2. \E where \in {"idle", "loop"} : pc' = [pc EXCEPT ![p] = where]
    BY DEF Return, Raise
<1>3. grp' = [grp EXCEPT ![p] = Free]
    BY DEF Return, Raise
<1> SUFFICES ASSUME NEW h \in Groups, NEW q \in Procs
             PROVE  lock'[h] = q <=> (pc'[q] = "update" /\ grp'[q] = h)
    BY DEF LockMatchesBody, InUpdate
<1>4. lock[h] = q <=> (pc[q] = "update" /\ grp[q] = h)
    BY DEF LockMatchesBody, InUpdate
<1>5. pc'[p] # "update" /\ (lock[h] = p <=> grp[p] = h)
    BY <1>2 DEF LockMatchesBody, InUpdate
<1>6. CASE q = p
    BY <1>1, <1>4, <1>5, <1>6
<1>7. CASE q # p
    BY <1>1, <1>2, <1>3, <1>4, <1>5, <1>7
<1> QED
    BY <1>6, <1>7

\* A step that leaves the locks alone and moves only a coroutine outside the
\* body, to somewhere outside it, keeps LockMatchesBody.
LEMMA OutsideMatches ==
    ASSUME TypeOK, LockMatchesBody, NEW p \in Procs, pc[p] # "update",
           UNCHANGED lock,
           \E where \in {"idle", "loop", "ingest"} : pc' = [pc EXCEPT ![p] = where],
           \E h \in Groups \cup {Free} : grp' = [grp EXCEPT ![p] = h]
    PROVE  LockMatchesBody'
<1> SUFFICES ASSUME NEW h \in Groups, NEW q \in Procs
             PROVE  lock'[h] = q <=> (pc'[q] = "update" /\ grp'[q] = h)
    BY DEF LockMatchesBody, InUpdate
<1>1. lock[h] = q <=> (pc[q] = "update" /\ grp[q] = h)
    BY DEF LockMatchesBody, InUpdate
<1>2. CASE q = p
    BY <1>1, <1>2 DEF TypeOK
<1>3. CASE q # p
    BY <1>1, <1>3 DEF TypeOK
<1> QED
    BY <1>2, <1>3

\* A step that moves no coroutine and leaves the locks alone keeps it too.
LEMMA StillMatches ==
    LockMatchesBody /\ UNCHANGED <<lock, pc, grp>> => LockMatchesBody'
BY DEF LockMatchesBody, InUpdate

\* LockMatchesBody is preserved, given the types and ScrapesAGroup.
LEMMA LockInductive == IInv /\ [Next]_vars => LockMatchesBody'
<1> SUFFICES ASSUME TypeOK, ScrapesAGroup, LockMatchesBody, [Next]_vars
             PROVE  LockMatchesBody'
    BY DEF IInv
<1>0. Coordinator \in Procs /\ Free \in Groups \cup {Free}
    BY DEF Procs
<1>1. CASE Tick
    BY <1>1, StillMatches DEF Tick
<1>2. CASE CoordinatorStart
    <2>1. grp' = [grp EXCEPT ![Coordinator] = grp[Coordinator]]
        BY <1>0, <1>2 DEF CoordinatorStart, TypeOK
    <2>2. grp[Coordinator] \in Groups \cup {Free}
        BY <1>0 DEF TypeOK
    <2> QED
        BY <1>0, <1>2, <2>1, <2>2, OutsideMatches DEF CoordinatorStart
<1>3. CASE CoordinatorStep
    <2>1. ASSUME NEW g \in Groups, CoordinatorSkip(g) PROVE LockMatchesBody'
        BY <2>1, StillMatches DEF CoordinatorSkip
    <2>2. ASSUME NEW g \in Groups, CoordinatorRun(g) PROVE LockMatchesBody'
        BY <1>0, <2>2, TryLockMatches DEF CoordinatorRun
    <2>3. CASE CoordinatorEnd
        <3>1. grp' = [grp EXCEPT ![Coordinator] = grp[Coordinator]]
            BY <1>0, <2>3 DEF CoordinatorEnd, TypeOK
        <3>2. grp[Coordinator] \in Groups \cup {Free}
            BY <1>0 DEF TypeOK
        <3> QED
            BY <1>0, <2>3, <3>1, <3>2, OutsideMatches DEF CoordinatorEnd
    <2> QED
        BY <1>3, <2>1, <2>2, <2>3 DEF CoordinatorStep
<1>4. ASSUME NEW p \in Callers, NEW g \in Groups,
             ManualUpdate(p, g) \/ StartIngest(p, g)
      PROVE LockMatchesBody'
    <2>0. p \in Procs
        BY DEF Procs
    <2>1. CASE ManualUpdate(p, g)
        BY <2>0, <2>1, TryLockMatches DEF ManualUpdate
    <2>2. CASE StartIngest(p, g)
        BY <2>0, <2>2, OutsideMatches DEF StartIngest, Scraping
    <2> QED
        BY <1>4, <2>1, <2>2
<1>5. ASSUME NEW p \in Procs, Step(p) PROVE LockMatchesBody'
    <2>1. ASSUME NEW c \in Creators, CreatorSettled(p, c) PROVE LockMatchesBody'
        BY <2>1, StillMatches DEF CreatorSettled
    <2>2. CASE ScrapeRetry(p)
        BY <2>2, StillMatches DEF ScrapeRetry
    <2>3. CASE IngestDone(p)
        <3>0. grp[p] \in Groups
            BY <2>3 DEF IngestDone, ScrapesAGroup
        <3>1. CASE TryLock(p, grp[p])
            BY <2>3, <3>0, <3>1, TryLockMatches DEF IngestDone
        <3>2. CASE Return(p) /\ UNCHANGED lock
            BY <1>0, <2>3, <3>2, OutsideMatches DEF IngestDone, Return
        <3> QED
            BY <2>3, <3>1, <3>2 DEF IngestDone
    <2>4. CASE IngestRaises(p)
        BY <1>0, <2>4, OutsideMatches DEF IngestRaises, Raise
    <2>5. CASE UpdateDone(p)
        BY <2>5, UnlockMatches DEF UpdateDone
    <2>6. CASE UpdateRaises(p)
        BY <2>6, UnlockMatches DEF UpdateRaises
    <2> QED
        BY <1>5, <2>1, <2>2, <2>3, <2>4, <2>5, <2>6 DEF Step
<1>6. CASE Restart
    BY <1>6, LocalAssumption DEF Restart, LockMatchesBody, InUpdate, Procs
<1>7. CASE UNCHANGED vars
    BY <1>7, StillMatches DEF vars
<1> QED
    BY <1>1, <1>2, <1>3, <1>4, <1>5, <1>6, <1>7 DEF Next

\* IInv holds throughout every behaviour.
LEMMA Invariant == Spec => []IInv
<1>1. IInv /\ [Next]_vars => IInv'
    BY NextType, ScrapesInductive, LockInductive DEF IInv
<1> QED
    BY <1>1, InitInvariant, PTL DEF Spec

\* No path leaks or shares a lock: it is held exactly while its owner runs the
\* body, so at most one coroutine is in the body of a group.
THEOREM LocksMatch == Spec => []LockMatchesBody
<1> QED
    BY Invariant, PTL DEF IInv

-----------------------------------------------------------------------------
(* The contract of line B.                                                 *)

\* No stamp lies in the future.
StampsPast == \A g \in Groups : stamp[g] <= now

\* StampsPast holds in every state.
LEMMA StampsPastInvariant == Spec => []StampsPast
<1>1. Init => StampsPast
    BY DEF Init, StampsPast
<1>2. TypeOK /\ StampsPast /\ [Next]_vars => StampsPast'
    <2> SUFFICES ASSUME TypeOK, StampsPast, [Next]_vars PROVE StampsPast'
        OBVIOUS
    <2>0. now \in Int /\ \A g \in Groups : stamp[g] \in Int
        BY LocalAssumption DEF TypeOK, Times
    <2>1. CASE UNCHANGED stamp /\ (now' = now \/ now' = now + 1)
        BY <2>0, <2>1 DEF StampsPast
    <2>2. ASSUME NEW p \in Procs, UpdateDone(p) PROVE StampsPast'
        BY <2>0, <2>2 DEF StampsPast, UpdateDone, TypeOK
    <2> QED
        BY <2>1, <2>2 DEF Next, Tick, CoordinatorStart, CoordinatorStep,
           CoordinatorSkip, CoordinatorRun, CoordinatorEnd, ManualUpdate,
           StartIngest, Step, CreatorSettled, ScrapeRetry, IngestDone,
           IngestRaises, UpdateRaises, Restart, vars
<1> QED
    BY <1>1, <1>2, Invariant, PTL DEF Spec, IInv

\* The number of bodies the refinement mapping counts, as the lock tells it.
Held == [g \in Groups |-> IF lock[g] = Free THEN 0 ELSE 1]

\* Counting the bodies of a group gives the state of its lock.
LEMMA ActiveIsHeld == IInv => Active = Held
<1> SUFFICES ASSUME IInv, NEW g \in Groups
             PROVE  Cardinality({p \in Procs : InUpdate(p, g)})
                      = IF lock[g] = Free THEN 0 ELSE 1
    BY DEF Active, Held
<1>1. CASE lock[g] = Free
    <2>1. {p \in Procs : InUpdate(p, g)} = {}
        BY <1>1, LocalAssumption DEF IInv, LockMatchesBody, Procs
    <2> QED
        BY <1>1, <2>1, FS_EmptySet
<1>2. CASE lock[g] # Free
    <2>1. lock[g] \in Procs
        BY <1>2 DEF IInv, TypeOK
    <2>2. {p \in Procs : InUpdate(p, g)} = {lock[g]}
        BY <2>1 DEF IInv, LockMatchesBody
    <2> QED
        BY <1>2, <2>2, FS_Singleton
<1> QED
    BY <1>1, <1>2

\* The initial states map to the contract's.
LEMMA InitRefines == Init => Contract!Init
<1> SUFFICES ASSUME Init PROVE Contract!Init
    OBVIOUS
<1>1. IInv
    BY InitInvariant
<1>2. Held = [g \in Groups |-> 0]
    BY DEF Held, Init
<1> QED
    BY <1>1, <1>2, ActiveIsHeld DEF Init, Contract!Init

\* Only the stamp of g moves, and it does not move back.
Stamped(g) ==
    /\ stamp' = [stamp EXCEPT ![g] = stamp'[g]]
    /\ stamp'[g] >= stamp[g]

\* What the locks and stamps do in a step decides the contract's step.
LEMMA MappedStep ==
    ASSUME IInv, IInv'
    PROVE  /\ UNCHANGED <<lock, stamp>> => UNCHANGED Contract!cvars
           /\ Held' = [g \in Groups |-> 0] /\ UNCHANGED stamp => Contract!Crash
           /\ \A g \in Groups :
                /\ Held[g] = 0 /\ Held' = [Held EXCEPT ![g] = 1] /\ UNCHANGED stamp
                     => Contract!Start(g)
                /\ Held[g] = 1 /\ Held' = [Held EXCEPT ![g] = 0] /\ UNCHANGED stamp
                     => Contract!Abort(g)
                /\ Held[g] = 1 /\ Held' = [Held EXCEPT ![g] = 0] /\ Stamped(g)
                     => Contract!Finish(g)
<1>1. Active = Held
    BY ActiveIsHeld
<1>2. (Active = Held)'
    BY ActiveIsHeld, PTL
<1>3. UNCHANGED lock => Held' = Held
    BY DEF Held
<1>4. UNCHANGED <<lock, stamp>> => UNCHANGED Contract!cvars
    BY <1>1, <1>2, <1>3 DEF Contract!cvars
<1>5. Held' = [g \in Groups |-> 0] /\ UNCHANGED stamp => Contract!Crash
    BY <1>1, <1>2 DEF Contract!Crash
<1>6. ASSUME NEW g \in Groups
      PROVE  /\ Held[g] = 0 /\ Held' = [Held EXCEPT ![g] = 1] /\ UNCHANGED stamp
                  => Contract!Start(g)
             /\ Held[g] = 1 /\ Held' = [Held EXCEPT ![g] = 0] /\ UNCHANGED stamp
                  => Contract!Abort(g)
             /\ Held[g] = 1 /\ Held' = [Held EXCEPT ![g] = 0] /\ Stamped(g)
                  => Contract!Finish(g)
    <2>1. Held[g] = 0 /\ Held' = [Held EXCEPT ![g] = 1] /\ UNCHANGED stamp
            => Contract!Start(g)
        BY <1>1, <1>2 DEF Contract!Start
    <2>2. Held[g] = 1 /\ Held' = [Held EXCEPT ![g] = 0] /\ UNCHANGED stamp
            => Contract!Abort(g)
        BY <1>1, <1>2 DEF Contract!Abort
    <2>3. Held[g] = 1 /\ Held' = [Held EXCEPT ![g] = 0] /\ Stamped(g)
            => Contract!Finish(g)
        BY <1>1, <1>2 DEF Contract!Finish, Stamped
    <2> QED
        BY <2>1, <2>2, <2>3
<1> QED
    BY <1>4, <1>5, <1>6

\* Every step of the module is a step of the contract, or none.
LEMMA NextRefines ==
    ASSUME IInv, IInv', StampsPast, [Next]_vars
    PROVE  [Contract!Next]_(Contract!cvars)
<1> USE DEF IInv, Contract!Next
<1>1. ASSUME UNCHANGED <<lock, stamp>> PROVE [Contract!Next]_(Contract!cvars)
    BY <1>1, MappedStep
<1>2. ASSUME NEW p \in Procs, NEW g \in Groups, TryLock(p, g), UNCHANGED stamp
      PROVE  Contract!Next
    <2>1. Held[g] = 0 /\ Held' = [Held EXCEPT ![g] = 1]
        BY <1>2, LocalAssumption DEF Held, TryLock, TypeOK, Procs
    <2> QED
        BY <1>2, <2>1, MappedStep
<1>3. ASSUME NEW p \in Procs, pc[p] = "update", Unlock(p)
      PROVE  /\ grp[p] \in Groups
             /\ Held[grp[p]] = 1 /\ Held' = [Held EXCEPT ![grp[p]] = 0]
    <2>1. grp[p] \in Groups /\ lock[grp[p]] = p
        BY <1>3 DEF ScrapesAGroup, LockMatchesBody, InUpdate
    <2> QED
        BY <1>3, <2>1, LocalAssumption DEF Held, Unlock, TypeOK, Procs
<1>4. ASSUME NEW p \in Procs, UpdateDone(p) PROVE Contract!Next
    <2>1. pc[p] = "update" /\ Unlock(p) /\ stamp' = [stamp EXCEPT ![grp[p]] = now]
        BY <1>4 DEF UpdateDone
    <2>2. grp[p] \in Groups
        BY <1>3, <2>1
    <2>3. stamp'[grp[p]] = now /\ stamp[grp[p]] <= now
        BY <2>1, <2>2 DEF TypeOK, StampsPast
    <2>4. now \in Nat /\ stamp[grp[p]] \in Nat
        BY <2>2, LocalAssumption DEF TypeOK, Times
    <2>5. Stamped(grp[p])
        BY <2>1, <2>3, <2>4 DEF Stamped
    <2> QED
        BY <1>3, <2>1, <2>5, MappedStep
<1>5. ASSUME NEW p \in Procs, UpdateRaises(p) PROVE Contract!Next
    BY <1>3, <1>5, MappedStep DEF UpdateRaises
<1>6. CASE Restart
    <2>1. Held' = [g \in Groups |-> 0] /\ UNCHANGED stamp
        BY <1>6 DEF Restart, Held
    <2> QED
        BY <2>1, MappedStep
<1>7. CASE CoordinatorStep
    BY <1>1, <1>2, <1>7 DEF CoordinatorStep, CoordinatorSkip, CoordinatorRun,
                            CoordinatorEnd, Procs
<1>8. ASSUME NEW p \in Callers, NEW g \in Groups,
             ManualUpdate(p, g) \/ StartIngest(p, g)
      PROVE  [Contract!Next]_(Contract!cvars)
    BY <1>1, <1>2, <1>8 DEF ManualUpdate, StartIngest, Procs
<1>9. ASSUME NEW p \in Procs, Step(p) PROVE [Contract!Next]_(Contract!cvars)
    <2>1. CASE IngestDone(p)
        BY <1>1, <1>2, <2>1 DEF IngestDone, ScrapesAGroup
    <2> QED
        BY <1>1, <1>4, <1>5, <1>9, <2>1
           DEF Step, CreatorSettled, ScrapeRetry, IngestRaises
<1> QED
    BY <1>1, <1>6, <1>7, <1>8, <1>9 DEF Next, Tick, CoordinatorStart, vars

\* Line B in local mode implements its contract: one body per group at a time,
\* a request that meets a running body is skipped, and a stamp moves, forward,
\* only when a body completes.
THEOREM ImplementsContract == Spec => RefinesContract
<1>1. Init => Contract!Init
    BY InitRefines
<1>2. IInv /\ IInv' /\ StampsPast /\ [Next]_vars => [Contract!Next]_(Contract!cvars)
    BY NextRefines
<1> QED
    BY <1>1, <1>2, Invariant, StampsPastInvariant, PTL
       DEF Spec, RefinesContract, Contract!Spec
=============================================================================
