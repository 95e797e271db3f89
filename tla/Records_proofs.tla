--------------------------- MODULE Records_proofs ---------------------------
(***************************************************************************)
(* Theorems about what the tables hold: the creators and their places      *)
(* (Catalogue), the rows that refer to videos (VideoRefs), the numbers of the *)
(* dramas (DramaStats) and the segments of the day (HotSegments), for any  *)
(* requests, transactions, rows and bounds that meet the assumptions of these *)
(* modules.  They share no state; each has a section of its own.           *)
(***************************************************************************)
EXTENDS Catalogue, VideoRefs, DramaStats, HotSegments, FiniteSetTheorems,
        SequenceTheorems, TLAPS

-----------------------------------------------------------------------------
(* Catalogue.                                                              *)

\* What CatalogueTypeOK says of a creator's row and of a request.
FlushedRows == [life : {"flushed"}, by : Requests, info : Infos, uid : Uids,
                group : Groups \cup {NoPlace}, collection : Collections \cup {NoPlace}]
LiveRows == [life : {"live"}, info : Infos, uid : Uids,
             group : Groups \cup {NoPlace}, collection : Collections \cup {NoPlace}]

\* The row of a creator has the fields of its life.
LEMMA RowFields ==
    ASSUME CatalogueTypeOK, NEW c \in Creators
    PROVE  /\ creator[c] \in {NoCreator, Gone} \cup FlushedRows \cup LiveRows
           /\ Live(c) => creator[c] \in LiveRows
           /\ creator[c].life = "flushed" => creator[c] \in FlushedRows
<1>1. creator[c] \in {NoCreator, Gone} \cup FlushedRows \cup LiveRows
    BY DEF CatalogueTypeOK, FlushedRows, LiveRows
<1>2. CASE creator[c] \in {NoCreator, Gone}
    BY <1>2 DEF NoCreator, Gone, Live
<1>3. CASE creator[c] \in FlushedRows
    BY <1>3 DEF FlushedRows, Live
<1>4. CASE creator[c] \in LiveRows
    BY <1>4 DEF LiveRows, Live
<1> QED
    BY <1>1, <1>2, <1>3, <1>4

\* A request has the fields of its stage.
LEMMA RequestFields ==
    ASSUME CatalogueTypeOK, NEW q \in Requests, ~Idle(q)
    PROVE  /\ request[q].place \in Places
           /\ request[q].stage = "room" => request[q] \in [stage : {"room"}, place : Places, info : Infos]
           /\ request[q].stage = "move" => request[q] \in [stage : {"move"}, place : Groups, creator : Creators]
           /\ request[q].stage = "alarm" => request[q] \in [stage : {"alarm"}, place : Groups]
BY DEF CatalogueTypeOK, Idle, NoRequest, Places

\* A request that is at a stage is not idle.
LEMMA StageIsIdle ==
    ASSUME NEW q, request[q].stage # "idle" PROVE ~Idle(q)
BY DEF Idle, NoRequest

\* Typing, of a row that is flushed.
LEMMA FlushType ==
    ASSUME CatalogueTypeOK, NEW q \in Requests, NEW c \in Creators, NEW p \in Places,
           NEW info \in Infos, Flush(q, c, p, info)
    PROVE  creator' \in [Creators -> {NoCreator, Gone} \cup FlushedRows \cup LiveRows]
<1>1. creator \in [Creators -> {NoCreator, Gone} \cup FlushedRows \cup LiveRows]
    BY DEF CatalogueTypeOK, FlushedRows, LiveRows
<1>2. [life |-> "flushed", by |-> q, info |-> info, uid |-> info.uid,
       group |-> IF p \in Groups THEN p ELSE NoPlace,
       collection |-> IF p \in Collections THEN p ELSE NoPlace] \in FlushedRows
    BY DEF FlushedRows, Uids
<1> QED
    BY <1>1, <1>2 DEF Flush

\* Typing: every step preserves CatalogueTypeOK.
LEMMA CatalogueNextType ==
    CatalogueTypeOK /\ [CatalogueNext]_catalogueVars => CatalogueTypeOK'
<1> SUFFICES ASSUME CatalogueTypeOK, [CatalogueNext]_catalogueVars PROVE CatalogueTypeOK'
    OBVIOUS
<1> DEFINE creatorRows == {NoCreator, Gone} \cup FlushedRows \cup LiveRows
           states == {NoRequest} \cup [stage : {"room"}, place : Places, info : Infos]
                         \cup [stage : {"flushed"}, place : Places]
                         \cup [stage : {"move"}, place : Groups, creator : Creators]
                         \cup [stage : {"alarm"}, place : Groups]
           lives == {"unused", "active", "hidden", "deleted", "expired", "gone"}
           limits == Limits \cup {0}
           types == /\ foreignKeys \in BOOLEAN
                    /\ place \in [Places -> lives]
                    /\ cap \in [Places -> limits] /\ most \in [Places -> limits]
                    /\ alarm \in [Groups -> {"none", "on", "off"}]
                    /\ creator \in [Creators -> creatorRows]
                    /\ request \in [Requests -> states]
<1>1. types
    BY DEF CatalogueTypeOK, FlushedRows, LiveRows
<1>2. SUFFICES types'
    BY DEF CatalogueTypeOK, FlushedRows, LiveRows
<1>3. NoRequest \in states /\ NoCreator \in creatorRows /\ Gone \in creatorRows
    OBVIOUS
<1>4. \A g \in Groups : g \in Places
    BY DEF Places
<1>20. ASSUME NEW p \in Places, NEW limit \in Limits, LimitIs(p, limit)
       PROVE  cap' \in [Places -> limits] /\ most' \in [Places -> limits]
    BY <1>1, <1>20 DEF LimitIs
<1>21. \A k \in Collections : k \in Places
    BY DEF Places
<1> HIDE DEF creatorRows, states, lives, limits
<1>5. ASSUME NEW p \in Places, NEW limit \in Limits, CreatePlace(p, limit) PROVE types'
    BY <1>1, <1>5, <1>20 DEF CreatePlace, lives
<1>22. ASSUME NEW g \in Groups, NEW shown \in BOOLEAN, NEW limit \in Limits, UpdateGroup(g, shown, limit)
       PROVE  types'
    BY <1>1, <1>4, <1>20, <1>22 DEF UpdateGroup, lives
<1>23. ASSUME NEW k \in Collections, NEW limit \in Limits, UpdateCollection(k, limit) PROVE types'
    BY <1>1, <1>20, <1>21, <1>23 DEF UpdateCollection
<1>24. ASSUME NEW c \in Creators, NEW uid \in Uids, FillUid(c, uid) PROVE types'
    <2>1. [creator[c] EXCEPT !.uid = uid] \in creatorRows
        BY <1>24, RowFields DEF FillUid, LiveRows, creatorRows
    <2>2. creator' \in [Creators -> creatorRows]
        BY <1>24, <1>1, <2>1 DEF FillUid
    <2> QED
        BY <1>24, <1>1, <2>2 DEF FillUid
<1>6. ASSUME NEW g \in Groups, DeleteGroup(g) \/ RetentionEnds(g) \/ DeleteAlarm(g)
      PROVE  types'
    <2>2. CASE DeleteGroup(g)
        BY <2>2, <1>1, <1>4 DEF DeleteGroup, lives
    <2>3. CASE RetentionEnds(g)
        BY <2>3, <1>1, <1>4 DEF RetentionEnds, lives
    <2>4. CASE DeleteAlarm(g)
        BY <2>4, <1>1, <1>4 DEF DeleteAlarm, lives
    <2> QED
        BY <1>6, <2>2, <2>3, <2>4
<1>7. ASSUME NEW g \in Groups, PurgeGroup(g) PROVE types'
    <2>1. ASSUME NEW c \in Creators, Live(c) PROVE [creator[c] EXCEPT !.group = NoPlace] \in creatorRows
        BY <2>1, RowFields DEF LiveRows, creatorRows
    <2>2. creator' \in [Creators -> creatorRows]
        BY <1>7, <1>1, <2>1 DEF PurgeGroup
    <2> QED
        BY <1>7, <1>1, <1>4, <2>2 DEF PurgeGroup, lives
<1>8. ASSUME NEW k \in Collections, DeleteCollection(k) PROVE types'
    <2>1. ASSUME NEW c \in Creators, Live(c) PROVE [creator[c] EXCEPT !.collection = NoPlace] \in creatorRows
        BY <2>1, RowFields DEF LiveRows, creatorRows
    <2>2. creator' \in [Creators -> creatorRows]
        BY <1>8, <1>1, <2>1 DEF DeleteCollection
    <2> QED
        BY <1>8, <1>1, <2>2 DEF DeleteCollection, lives
<1>9. ASSUME NEW c \in Creators, DeleteCreator(c) PROVE types'
    BY <1>9, <1>1, <1>3 DEF DeleteCreator
<1>10. ASSUME NEW q \in Requests, NEW p \in Places, NEW info \in Infos, AddChecksRoom(q, p, info)
       PROVE  types'
    BY <1>10, <1>1 DEF AddChecksRoom, states
<1>11. ASSUME NEW q \in Requests, AddRefused(q) PROVE types'
    BY <1>11, <1>1, <1>3 DEF AddRefused, Ends
<1>12. ASSUME NEW q \in Requests, AddCommits(q) PROVE types'
    <2>1. ASSUME NEW c \in Flushed(q)
          PROVE  [life |-> "live", info |-> creator[c].info, uid |-> creator[c].uid,
                  group |-> creator[c].group, collection |-> creator[c].collection] \in creatorRows
        BY <2>1, RowFields DEF Flushed, FlushedRows, LiveRows, creatorRows
    <2>2. creator' \in [Creators -> creatorRows]
        BY <1>12, <1>1, <1>3, <2>1 DEF AddCommits
    <2> QED
        BY <1>12, <1>1, <1>3, <2>2 DEF AddCommits, Ends
<1>13. ASSUME NEW q \in Requests, NEW c \in Creators, AddInserts(q, c) PROVE types'
    <2>1. request[q].place \in Places /\ request[q].info \in Infos
        BY <1>13, RequestFields, StageIsIdle DEF AddInserts
    <2>2. creator' \in [Creators -> creatorRows]
        BY <1>13, <2>1, FlushType DEF AddInserts, creatorRows
    <2>3. request' \in [Requests -> states]
        BY <1>13, <1>1, <2>1 DEF AddInserts, states
    <2> QED
        BY <1>13, <1>1, <2>2, <2>3 DEF AddInserts
<1>14. ASSUME NEW q \in Requests, NEW c \in Creators, NEW info \in Infos, BatchInserts(q, c, info)
       PROVE  types'
    <2>1. request[q].place \in Places
        BY <1>14, <1>4 DEF BatchInserts
    <2>2. creator' \in [Creators -> creatorRows]
        BY <1>14, <2>1, FlushType DEF BatchInserts, creatorRows
    <2> QED
        BY <1>14, <1>1, <2>2 DEF BatchInserts
<1>15. ASSUME NEW q \in Requests, NEW c \in Creators, NEW g \in Groups, MoveChecks(q, c, g)
       PROVE  types'
    BY <1>15, <1>1 DEF MoveChecks, states
<1>16. ASSUME NEW q \in Requests, MoveCommits(q) PROVE types'
    <2> DEFINE c == request[q].creator
    <2>1. c \in Creators /\ request[q].place \in Groups
        BY <1>16, RequestFields, StageIsIdle DEF MoveCommits
    <2>2. Live(c) => [creator[c] EXCEPT !.group = request[q].place] \in creatorRows
        BY <2>1, RowFields DEF LiveRows, creatorRows
    <2>3. creator' \in [Creators -> creatorRows]
        BY <1>16, <1>1, <2>1, <2>2 DEF MoveCommits
    <2> QED
        BY <1>16, <1>1, <1>3, <2>3 DEF MoveCommits, Ends
<1>17. ASSUME NEW q \in Requests, NEW g \in Groups, AlarmChecks(q, g) PROVE types'
    BY <1>17, <1>1 DEF AlarmChecks, states
<1>18. ASSUME NEW q \in Requests, AlarmCommits(q) PROVE types'
    <2>1. request[q].place \in Groups
        BY <1>18, RequestFields, StageIsIdle DEF AlarmCommits
    <2> QED
        BY <1>18, <1>1, <1>3, <2>1 DEF AlarmCommits, Ends
<1>19. CASE UNCHANGED catalogueVars
    BY <1>19, <1>1 DEF catalogueVars
<1> QED
    BY <1>5, <1>6, <1>7, <1>8, <1>9, <1>10, <1>11, <1>12, <1>13, <1>14, <1>15, <1>16, <1>17,
       <1>18, <1>19, <1>22, <1>23, <1>24 DEF CatalogueNext

\* Type correctness of Catalogue.
THEOREM CatalogueTypeCorrect == CatalogueSpec => []CatalogueTypeOK
<1>1. CatalogueInit => CatalogueTypeOK
    BY DEF CatalogueInit, CatalogueTypeOK
<1> QED
    BY <1>1, CatalogueNextType, PTL DEF CatalogueSpec

-----------------------------------------------------------------------------
\* What makes PurgedIsGone inductive.  A row that is flushed is filed under the
\* place of its request, which still knows it; no request has business with a
\* group whose retention has ended, nor a flushed row in a collection that an
\* enforcing database has deleted.
FiledFor(c) ==
    creator[c].life = "flushed" =>
        LET q == creator[c].by
        IN  /\ request[q].stage = "flushed"
            /\ creator[c].group = IF request[q].place \in Groups THEN request[q].place ELSE NoPlace
            /\ creator[c].collection =
                   IF request[q].place \in Collections THEN request[q].place ELSE NoPlace
NoBusiness(q) ==
    ~Idle(q) =>
        /\ place[request[q].place] # "expired"
        /\ place[request[q].place] = "gone" =>
               /\ request[q].place \notin Groups
               /\ ~ (foreignKeys /\ request[q].stage = "flushed")
Placed == (\A c \in Creators : FiledFor(c)) /\ (\A q \in Requests : NoBusiness(q))

\* Nothing of a row that is flushed is live, and of no other row changes.
LEMMA FlushRows ==
    ASSUME CatalogueTypeOK, NEW q \in Requests, NEW c \in Creators, NEW p \in Places,
           NEW info \in Infos, Flush(q, c, p, info)
    PROVE  /\ creator[c] = NoCreator /\ ~Live(c)
           /\ creator'[c] = [life |-> "flushed", by |-> q, info |-> info, uid |-> info.uid,
                             group |-> IF p \in Groups THEN p ELSE NoPlace,
                             collection |-> IF p \in Collections THEN p ELSE NoPlace]
           /\ ~Live(c)'
           /\ \A d \in Creators \ {c} : creator'[d] = creator[d]
BY DEF Flush, Live, NoCreator, CatalogueTypeOK

\* The fields of a row that is flushed.
LEMMA FlushFields ==
    ASSUME CatalogueTypeOK, NEW q \in Requests, NEW c \in Creators, NEW p \in Places,
           NEW info \in Infos, Flush(q, c, p, info)
    PROVE  creator'[c].life = "flushed" /\ creator'[c].by = q /\ creator'[c].info = info
<1>1. creator'[c] = [life |-> "flushed", by |-> q, info |-> info, uid |-> info.uid,
                     group |-> IF p \in Groups THEN p ELSE NoPlace,
                     collection |-> IF p \in Collections THEN p ELSE NoPlace]
    BY FlushRows
<1> QED
    BY <1>1

\* The rows of a request that commits.
LEMMA CommitRows ==
    ASSUME CatalogueTypeOK, NEW q \in Requests, AddCommits(q), NEW c \in Creators
    PROVE  /\ c \notin Flushed(q) => creator'[c] = creator[c]
           /\ c \in Flushed(q) =>
                 \/ creator'[c] = NoCreator
                 \/ creator'[c] = [life |-> "live", info |-> creator[c].info, uid |-> creator[c].uid,
                       group |-> creator[c].group, collection |-> creator[c].collection]
BY DEF AddCommits

\* No step breaks Placed.
LEMMA CatalogueNextPlaced ==
    CatalogueTypeOK /\ Placed /\ [CatalogueNext]_catalogueVars => Placed'
<1> SUFFICES ASSUME CatalogueTypeOK, Placed, [CatalogueNext]_catalogueVars PROVE Placed'
    OBVIOUS
<1> USE DEF Placed
<1>1. ASSUME UNCHANGED <<foreignKeys, creator, request>>,
             \A p \in Places : place'[p] \notin {"expired", "gone"} \/ place'[p] = place[p]
      PROVE  Placed'
    <2>1. \A q \in Requests : ~Idle(q) => request[q].place \in Places
        BY RequestFields
    <2> QED
        BY <1>1, <2>1 DEF FiledFor, NoBusiness, Idle
<1>2. ASSUME NEW p \in Places, NEW limit \in Limits, CreatePlace(p, limit) PROVE Placed'
    BY <1>1, <1>2 DEF CreatePlace, CatalogueTypeOK
<1>3. ASSUME NEW g \in Groups, DeleteGroup(g) \/ DeleteAlarm(g) PROVE Placed'
    <2>1. g \in Places
        BY DEF Places
    <2> QED
        BY <1>1, <1>3, <2>1 DEF DeleteGroup, DeleteAlarm, CatalogueTypeOK
<1>21. ASSUME NEW g \in Groups, NEW shown \in BOOLEAN, NEW limit \in Limits, UpdateGroup(g, shown, limit)
       PROVE  Placed'
    <2>1. g \in Places
        BY DEF Places
    <2> QED
        BY <1>1, <1>21, <2>1 DEF UpdateGroup, CatalogueTypeOK
<1>22. ASSUME NEW k \in Collections, NEW limit \in Limits, UpdateCollection(k, limit) PROVE Placed'
    BY <1>1, <1>22 DEF UpdateCollection
<1>23. ASSUME NEW c \in Creators, NEW uid \in Uids, FillUid(c, uid) PROVE Placed'
    <2>1. UNCHANGED <<foreignKeys, place, request>>
        BY <1>23 DEF FillUid
    <2>2. creator'[c].life = "live" /\ \A d \in Creators \ {c} : creator'[d] = creator[d]
        BY <1>23, RowFields DEF FillUid, LiveRows, CatalogueTypeOK
    <2> QED
        BY <2>1, <2>2 DEF FiledFor, NoBusiness, Idle
<1>4. ASSUME NEW g \in Groups, RetentionEnds(g) PROVE Placed'
    <2>1. UNCHANGED <<foreignKeys, creator, request>>
        BY <1>4 DEF RetentionEnds
    <2>2. \A q \in Requests : ~Idle(q) => request[q].place \in Places \ {g}
        BY <1>4, RequestFields DEF RetentionEnds
    <2>3. \A p \in Places \ {g} : place'[p] = place[p]
        BY <1>4 DEF RetentionEnds, CatalogueTypeOK
    <2> QED
        BY <2>1, <2>2, <2>3 DEF FiledFor, NoBusiness, Idle
<1>5. ASSUME NEW g \in Groups, PurgeGroup(g) PROVE Placed'
    <2>1. UNCHANGED <<foreignKeys, request>> /\ place[g] = "expired"
        BY <1>5 DEF PurgeGroup
    <2>2. \A q \in Requests : ~Idle(q) => request[q].place \in Places \ {g}
        BY <2>1, RequestFields DEF NoBusiness
    <2>3. \A p \in Places \ {g} : place'[p] = place[p]
        BY <1>5 DEF PurgeGroup, CatalogueTypeOK
    <2>4. ASSUME NEW c \in Creators PROVE FiledFor(c)'
        <3>1. CASE Live(c)
            <4>1. creator'[c].life = "live"
                BY <1>5, <3>1, RowFields DEF PurgeGroup, LiveRows
            <4> QED
                BY <4>1 DEF FiledFor
        <3>2. CASE ~Live(c)
            BY <1>5, <2>1, <3>2 DEF PurgeGroup, FiledFor
        <3> QED
            BY <3>1, <3>2
    <2> QED
        BY <2>1, <2>2, <2>3, <2>4 DEF NoBusiness, Idle
<1>6. ASSUME NEW k \in Collections, DeleteCollection(k) PROVE Placed'
    <2>1. UNCHANGED <<foreignKeys, request>> /\ k \notin Groups
        BY <1>6, CatalogueAssumption DEF DeleteCollection
    <2>2. \A p \in Places \ {k} : place'[p] = place[p]
        BY <1>6 DEF DeleteCollection, CatalogueTypeOK
    <2>3. k \in Places /\ place'[k] = "gone"
        BY <1>6 DEF DeleteCollection, CatalogueTypeOK, Places
    <2>4. ASSUME NEW c \in Creators PROVE FiledFor(c)'
        <3>1. CASE Live(c)
            <4>1. creator'[c].life = "live"
                BY <1>6, <3>1, RowFields DEF DeleteCollection, LiveRows
            <4> QED
                BY <4>1 DEF FiledFor
        <3>2. CASE ~Live(c)
            BY <1>6, <2>1, <3>2 DEF DeleteCollection, FiledFor
        <3> QED
            BY <3>1, <3>2
    <2>5. ASSUME NEW q \in Requests PROVE NoBusiness(q)'
        <3>1. CASE ~Idle(q) /\ request[q].place = k
            BY <1>6, <2>1, <2>3, <3>1 DEF NoBusiness, DeleteCollection
        <3>2. CASE ~Idle(q) /\ request[q].place # k
            BY <2>1, <2>2, <3>2, RequestFields DEF NoBusiness
        <3>3. CASE Idle(q)
            BY <2>1, <3>3 DEF NoBusiness, Idle
        <3> QED
            BY <3>1, <3>2, <3>3
    <2> QED
        BY <2>4, <2>5
<1>7. ASSUME NEW c \in Creators, DeleteCreator(c) PROVE Placed'
    BY <1>7 DEF DeleteCreator, FiledFor, NoBusiness, Idle, Gone, CatalogueTypeOK
\* A request that turns to a place has found it active.
<1>8. ASSUME NEW q \in Requests, NEW p \in Places, Idle(q), place[p] = "active",
             UNCHANGED <<foreignKeys, place, creator>>,
             request'[q].place = p, \A r \in Requests \ {q} : request'[r] = request[r]
      PROVE  Placed'
    <2>1. ASSUME NEW c \in Creators PROVE FiledFor(c)'
        <3>1. creator[c].life = "flushed" => creator[c].by \in Requests
            BY RowFields DEF FlushedRows
        <3> QED
            BY <1>8, <3>1 DEF FiledFor, Idle, NoRequest
    <2>2. ASSUME NEW r \in Requests PROVE NoBusiness(r)'
        BY <1>8 DEF NoBusiness, Idle
    <2> QED
        BY <2>1, <2>2
<1>9. ASSUME NEW q \in Requests, NEW p \in Places, NEW info \in Infos, AddChecksRoom(q, p, info)
      PROVE  Placed'
    BY <1>8, <1>9 DEF AddChecksRoom, HasRoom, CatalogueTypeOK
<1>10. ASSUME NEW q \in Requests, NEW c \in Creators, NEW g \in Groups, MoveChecks(q, c, g)
       PROVE  Placed'
    BY <1>8, <1>10 DEF MoveChecks, HasRoom, CatalogueTypeOK, Places
<1>11. ASSUME NEW q \in Requests, NEW g \in Groups, AlarmChecks(q, g) PROVE Placed'
    BY <1>8, <1>11 DEF AlarmChecks, CatalogueTypeOK, Places
\* A request that ends takes none of its flushed rows along.
<1>12. ASSUME NEW q \in Requests, Ends(q), UNCHANGED <<foreignKeys, place>>,
              \A c \in Creators : \/ creator'[c].life # "flushed"
                                  \/ creator'[c] = creator[c] /\ c \notin Flushed(q)
       PROVE  Placed'
    <2>1. request'[q] = NoRequest /\ \A r \in Requests \ {q} : request'[r] = request[r]
        BY <1>12 DEF Ends, CatalogueTypeOK
    <2>2. ASSUME NEW c \in Creators PROVE FiledFor(c)'
        <3>1. creator'[c].life = "flushed" => creator[c].by \in Requests \ {q}
            BY <1>12, RowFields DEF FlushedRows, Flushed
        <3> QED
            BY <1>12, <2>1, <3>1 DEF FiledFor
    <2>3. ASSUME NEW r \in Requests PROVE NoBusiness(r)'
        BY <1>12, <2>1 DEF NoBusiness, Idle
    <2> QED
        BY <2>2, <2>3
<1>13. ASSUME NEW q \in Requests, AddRefused(q) PROVE Placed'
    <2>1. \A c \in Creators : c \notin Flushed(q)
        BY <1>13 DEF AddRefused, FiledFor, Flushed
    <2> QED
        BY <1>12, <1>13, <2>1 DEF AddRefused
<1>14. ASSUME NEW q \in Requests, AlarmCommits(q) PROVE Placed'
    <2>1. \A c \in Creators : c \notin Flushed(q)
        BY <1>14 DEF AlarmCommits, FiledFor, Flushed
    <2> QED
        BY <1>12, <1>14, <2>1 DEF AlarmCommits
<1>15. ASSUME NEW q \in Requests, MoveCommits(q) PROVE Placed'
    <2> DEFINE d == request[q].creator
    <2>1. \A c \in Creators : c \notin Flushed(q)
        BY <1>15 DEF MoveCommits, FiledFor, Flushed
    <2>2. d \in Creators
        BY <1>15, RequestFields, StageIsIdle DEF MoveCommits
    <2>3. Live(d) => creator'[d].life = "live"
        BY <1>15, <2>2, RowFields DEF MoveCommits, CatalogueTypeOK, LiveRows
    <2>4. \A c \in Creators : creator'[c] = creator[c] \/ (c = d /\ Live(d))
        BY <1>15, <2>2 DEF MoveCommits, CatalogueTypeOK
    <2> QED
        BY <1>12, <1>15, <2>1, <2>3, <2>4 DEF MoveCommits
<1>16. ASSUME NEW q \in Requests, AddCommits(q) PROVE Placed'
    <2>1. \A c \in Creators : \/ creator'[c].life # "flushed"
                              \/ creator'[c] = creator[c] /\ c \notin Flushed(q)
        <3>1. ASSUME NEW c \in Flushed(q) PROVE creator'[c].life # "flushed"
            <4>1. c \in Creators
                BY DEF Flushed
            <4>2. CASE creator'[c] = NoCreator
                BY <4>2 DEF NoCreator
            <4>3. CASE creator'[c] = [life |-> "live", info |-> creator[c].info, uid |-> creator[c].uid,
                          group |-> creator[c].group, collection |-> creator[c].collection]
                BY <4>3
            <4> QED
                BY <1>16, <4>1, <4>2, <4>3, CommitRows
        <3> QED
            BY <1>16, <3>1, CommitRows
    <2> QED
        BY <1>12, <1>16, <2>1 DEF AddCommits
\* A row that is flushed belongs to its request, whose place it is filed under.
<1>17. ASSUME NEW q \in Requests, NEW c \in Creators, NEW p \in Places, NEW info \in Infos,
              Flush(q, c, p, info), UNCHANGED <<foreignKeys, place>>,
              request'[q].stage = "flushed", request'[q].place = p,
              request[q].place = p, ~Idle(q), ~(foreignKeys /\ place[p] = "gone"),
              \A r \in Requests \ {q} : request'[r] = request[r]
       PROVE  Placed'
    <2>1. ASSUME NEW d \in Creators PROVE FiledFor(d)'
        <3>1. CASE d = c
            <4>1. creator'[c] = [life |-> "flushed", by |-> q, info |-> info, uid |-> info.uid,
                                 group |-> IF p \in Groups THEN p ELSE NoPlace,
                                 collection |-> IF p \in Collections THEN p ELSE NoPlace]
                BY <1>17, FlushRows
            <4> QED
                BY <1>17, <3>1, <4>1 DEF FiledFor
        <3>2. CASE d # c
            <4>1. creator'[d] = creator[d]
                BY <1>17, <3>2, FlushRows
            <4>2. creator[d].life = "flushed" => creator[d].by \in Requests
                BY RowFields DEF FlushedRows
            <4> QED
                BY <1>17, <4>1, <4>2 DEF FiledFor
        <3> QED
            BY <3>1, <3>2
    <2>2. ASSUME NEW r \in Requests PROVE NoBusiness(r)'
        BY <1>17 DEF NoBusiness, Idle
    <2> QED
        BY <2>1, <2>2
<1>18. ASSUME NEW q \in Requests, NEW c \in Creators, AddInserts(q, c) PROVE Placed'
    <2>1. ~Idle(q) /\ request[q].place \in Places /\ request[q].info \in Infos
        BY <1>18, RequestFields, StageIsIdle DEF AddInserts
    <2>2. request'[q].stage = "flushed" /\ request'[q].place = request[q].place
          /\ \A r \in Requests \ {q} : request'[r] = request[r]
        BY <1>18 DEF AddInserts, CatalogueTypeOK
    <2> QED
        BY <1>17, <1>18, <2>1, <2>2 DEF AddInserts
<1>19. ASSUME NEW q \in Requests, NEW c \in Creators, NEW info \in Infos, BatchInserts(q, c, info)
       PROVE  Placed'
    <2>1. ~Idle(q) /\ request[q].place \in Places
        BY <1>19, RequestFields, StageIsIdle DEF BatchInserts
    <2> QED
        BY <1>17, <1>19, <2>1 DEF BatchInserts, HasRoom
<1>20. CASE UNCHANGED catalogueVars
    BY <1>20 DEF catalogueVars, FiledFor, NoBusiness, Idle
<1> QED
    BY <1>2, <1>3, <1>4, <1>5, <1>6, <1>7, <1>9, <1>10, <1>11, <1>13, <1>14, <1>15, <1>16,
       <1>18, <1>19, <1>20, <1>21, <1>22, <1>23 DEF CatalogueNext

\* No step files anything live under a place that is gone.
LEMMA CatalogueNextGone ==
    CatalogueTypeOK /\ Placed /\ PurgedIsGone /\ [CatalogueNext]_catalogueVars => PurgedIsGone'
<1> SUFFICES ASSUME CatalogueTypeOK, Placed, PurgedIsGone, [CatalogueNext]_catalogueVars,
                    NEW p \in Places, place'[p] = "gone"
             PROVE  /\ foreignKeys' \/ p \in Groups => Under(p)' = {}
                    /\ p \in Groups => alarm'[p] = "none"
    BY DEF PurgedIsGone
<1> DEFINE goal == /\ foreignKeys' \/ p \in Groups => Under(p)' = {}
                   /\ p \in Groups => alarm'[p] = "none"
<1>1. ASSUME foreignKeys' = foreignKeys, p \in Groups => alarm'[p] = alarm[p], place[p] = "gone",
             \A c \in Creators : Live(c)' /\ In(c, p)' => Live(c) /\ In(c, p)
      PROVE  goal
    BY <1>1 DEF PurgedIsGone, Under
<1>2. p # NoPlace
    BY CatalogueAssumption DEF Places, NoPlace
<1>3. ASSUME creator' = creator PROVE \A c \in Creators : Live(c)' /\ In(c, p)' => Live(c) /\ In(c, p)
    BY <1>3 DEF Live, In
<1> HIDE DEF goal
<1>4. ASSUME NEW x \in Places, NEW limit \in Limits, CreatePlace(x, limit) PROVE goal
    BY <1>1, <1>3, <1>4 DEF CreatePlace, CatalogueTypeOK
<1>20. ASSUME NEW g \in Groups, NEW shown \in BOOLEAN, NEW limit \in Limits, UpdateGroup(g, shown, limit)
       PROVE  goal
    <2>1. g \in Places
        BY DEF Places
    <2> QED
        BY <1>1, <1>3, <1>20, <2>1 DEF UpdateGroup, CatalogueTypeOK
<1>21. ASSUME NEW k \in Collections, NEW limit \in Limits, UpdateCollection(k, limit) PROVE goal
    BY <1>1, <1>3, <1>21 DEF UpdateCollection
<1>22. ASSUME NEW c \in Creators, NEW uid \in Uids, FillUid(c, uid) PROVE goal
    <2>1. creator'[c] = [creator[c] EXCEPT !.uid = uid] /\ creator[c] \in LiveRows
          /\ \A d \in Creators \ {c} : creator'[d] = creator[d]
        BY <1>22, RowFields DEF FillUid, CatalogueTypeOK
    <2>2. \A d \in Creators : Live(d)' /\ In(d, p)' => Live(d) /\ In(d, p)
        BY <2>1 DEF Live, In, LiveRows
    <2> QED
        BY <1>1, <1>22, <2>2 DEF FillUid
<1>5. ASSUME NEW g \in Groups, DeleteGroup(g) \/ RetentionEnds(g) \/ DeleteAlarm(g)
      PROVE  goal
    <2>1. g \in Places
        BY DEF Places
    <2>3. CASE DeleteGroup(g)
        <3>1. p # g /\ place[p] = "gone" /\ creator' = creator /\ foreignKeys' = foreignKeys
            BY <2>1, <2>3 DEF DeleteGroup, CatalogueTypeOK
        <3>2. p \in Groups => alarm'[p] = alarm[p]
            BY <2>3, <3>1 DEF DeleteGroup, CatalogueTypeOK
        <3> QED
            BY <1>1, <1>3, <3>1, <3>2
    <2>4. CASE RetentionEnds(g)
        BY <1>1, <1>3, <2>1, <2>4 DEF RetentionEnds, CatalogueTypeOK
    <2>5. CASE DeleteAlarm(g)
        <3>1. p # g /\ place[p] = "gone" /\ creator' = creator /\ foreignKeys' = foreignKeys
            BY <2>1, <2>5 DEF DeleteAlarm, CatalogueTypeOK
        <3>2. p \in Groups => alarm'[p] = alarm[p]
            BY <2>5, <3>1 DEF DeleteAlarm, CatalogueTypeOK
        <3> QED
            BY <1>1, <1>3, <3>1, <3>2
    <2> QED
        BY <1>5, <2>3, <2>4, <2>5
<1>6. ASSUME NEW g \in Groups, PurgeGroup(g) PROVE goal
    <2>1. \A c \in Creators : creator'[c] = IF Live(c) /\ creator[c].group = g
                                            THEN [creator[c] EXCEPT !.group = NoPlace] ELSE creator[c]
        BY <1>6 DEF PurgeGroup
    <2>2. \A c \in Creators : Live(c)' => /\ Live(c)
                                          /\ creator'[c].group \in {creator[c].group, NoPlace} \ {g}
                                          /\ creator'[c].collection = creator[c].collection
        <3>1. TAKE c \in Creators
        <3>2. HAVE Live(c)'
        <3>3. Live(c)
            BY <2>1, <3>2 DEF Live
        <3>4. g # NoPlace /\ creator[c] \in LiveRows
            BY <3>3, RowFields, CatalogueAssumption DEF NoPlace
        <3> QED
            BY <2>1, <3>3, <3>4 DEF LiveRows
    <2>3. CASE p = g
        <3>1. \A c \in Creators : Live(c) => creator[c].collection # g
            BY RowFields, CatalogueAssumption DEF LiveRows, NoPlace
        <3>2. Under(p)' = {}
            BY <2>2, <2>3, <3>1 DEF Under, In
        <3>3. alarm'[g] = "none"
            BY <1>6 DEF PurgeGroup, CatalogueTypeOK
        <3> QED
            BY <2>3, <3>2, <3>3 DEF goal
    <2>4. CASE p # g
        <3>1. /\ foreignKeys' = foreignKeys /\ place[p] = "gone"
              /\ p \in Groups => alarm'[p] = alarm[p]
            BY <1>6, <2>4 DEF PurgeGroup, CatalogueTypeOK, Places
        <3>2. \A c \in Creators : Live(c)' /\ In(c, p)' => Live(c) /\ In(c, p)
            BY <1>2, <2>2 DEF In
        <3> QED
            BY <1>1, <3>1, <3>2
    <2> QED
        BY <2>3, <2>4
<1>7. ASSUME NEW k \in Collections, DeleteCollection(k) PROVE goal
    <2>1. \A c \in Creators : creator'[c] = IF Live(c) /\ creator[c].collection = k
                                            THEN [creator[c] EXCEPT !.collection = NoPlace] ELSE creator[c]
        BY <1>7 DEF DeleteCollection
    <2>2. \A c \in Creators : Live(c)' => /\ Live(c)
                                          /\ creator'[c].collection \in {creator[c].collection, NoPlace} \ {k}
                                          /\ creator'[c].group = creator[c].group
        <3>1. TAKE c \in Creators
        <3>2. HAVE Live(c)'
        <3>3. Live(c)
            BY <2>1, <3>2 DEF Live
        <3>4. k # NoPlace /\ creator[c] \in LiveRows
            BY <3>3, RowFields, CatalogueAssumption DEF NoPlace
        <3> QED
            BY <2>1, <3>3, <3>4 DEF LiveRows
    <2>3. CASE p = k
        <3>1. \A c \in Creators : Live(c) => creator[c].group # k
            BY RowFields, CatalogueAssumption DEF LiveRows, NoPlace
        <3>2. Under(p)' = {}
            BY <2>2, <2>3, <3>1 DEF Under, In
        <3> QED
            BY <2>3, <3>2, CatalogueAssumption DEF goal
    <2>4. CASE p # k
        <3>1. foreignKeys' = foreignKeys /\ place[p] = "gone" /\ alarm' = alarm
            BY <1>7, <2>4 DEF DeleteCollection, CatalogueTypeOK, Places
        <3>2. \A c \in Creators : Live(c)' /\ In(c, p)' => Live(c) /\ In(c, p)
            BY <1>2, <2>2 DEF In
        <3> QED
            BY <1>1, <3>1, <3>2
    <2> QED
        BY <2>3, <2>4
<1>8. ASSUME NEW c \in Creators, DeleteCreator(c) PROVE goal
    <2>1. \A d \in Creators : Live(d)' => Live(d) /\ creator'[d] = creator[d]
        BY <1>8 DEF DeleteCreator, Live, Gone, CatalogueTypeOK
    <2> QED
        BY <1>1, <1>8, <2>1 DEF DeleteCreator, In
<1>9. ASSUME NEW q \in Requests, NEW x \in Places, NEW info \in Infos, AddChecksRoom(q, x, info)
      PROVE  goal
    BY <1>1, <1>3, <1>9 DEF AddChecksRoom
<1>10. ASSUME NEW q \in Requests, NEW c \in Creators, NEW g \in Groups, MoveChecks(q, c, g)
       PROVE  goal
    BY <1>1, <1>3, <1>10 DEF MoveChecks
<1>11. ASSUME NEW q \in Requests, NEW g \in Groups, AlarmChecks(q, g) PROVE goal
    BY <1>1, <1>3, <1>11 DEF AlarmChecks
<1>12. ASSUME NEW q \in Requests, AddRefused(q) PROVE goal
    BY <1>1, <1>3, <1>12 DEF AddRefused
<1>13. ASSUME NEW q \in Requests, AlarmCommits(q) PROVE goal
    <2>1. request[q].place \in Groups /\ place[request[q].place] # "gone"
        BY <1>13, RequestFields, StageIsIdle DEF AlarmCommits, Placed, NoBusiness
    <2>2. p \in Groups => alarm'[p] = alarm[p]
        BY <1>13, <2>1 DEF AlarmCommits, CatalogueTypeOK
    <2> QED
        BY <1>1, <1>3, <1>13, <2>2 DEF AlarmCommits
<1>14. ASSUME NEW q \in Requests, MoveCommits(q) PROVE goal
    <2> DEFINE d == request[q].creator
               g == request[q].place
    <2>1. d \in Creators /\ g \in Groups /\ place[g] # "gone"
        BY <1>14, RequestFields, StageIsIdle DEF MoveCommits, Placed, NoBusiness
    <2>2. \A c \in Creators : \/ creator'[c] = creator[c]
                              \/ c = d /\ Live(d) /\ creator'[c] = [creator[d] EXCEPT !.group = g]
        BY <1>14, <2>1 DEF MoveCommits, CatalogueTypeOK
    <2>3. UNCHANGED <<foreignKeys, place, alarm>> /\ p # g
        BY <1>14, <2>1 DEF MoveCommits
    <2> HIDE DEF d, g
    <2>4. ASSUME NEW c \in Creators, Live(c)', In(c, p)' PROVE Live(c) /\ In(c, p)
        <3>1. CASE creator'[c] = creator[c]
            BY <2>4, <3>1 DEF Live, In
        <3>2. CASE c = d /\ Live(d) /\ creator'[c] = [creator[d] EXCEPT !.group = g]
            <4>1. creator[d] \in LiveRows
                BY <2>1, <3>2, RowFields
            <4>2. creator'[c].group = g /\ creator'[c].collection = creator[c].collection
                BY <3>2, <4>1 DEF LiveRows
            <4> QED
                BY <2>3, <2>4, <3>2, <4>2 DEF In
        <3> QED
            BY <2>2, <3>1, <3>2
    <2> QED
        BY <1>1, <2>3, <2>4
<1>15. ASSUME NEW q \in Requests, AddCommits(q) PROVE goal
    <2>1. UNCHANGED <<foreignKeys, place, alarm>>
        BY <1>15 DEF AddCommits
    <2>2. CASE ~(foreignKeys \/ p \in Groups)
        BY <2>1, <2>2 DEF goal
    <2>3. CASE foreignKeys \/ p \in Groups
        <3>1. p # request[q].place
            BY <1>15, <2>1, <2>3, StageIsIdle DEF AddCommits, Placed, NoBusiness
        <3>2. ASSUME NEW c \in Creators, Live(c)', In(c, p)' PROVE Live(c) /\ In(c, p)
            <4>1. CASE c \in Flushed(q)
                <5>1. creator'[c] = [life |-> "live", info |-> creator[c].info, uid |-> creator[c].uid,
                          group |-> creator[c].group, collection |-> creator[c].collection]
                    BY <1>15, <3>2, <4>1, CommitRows DEF Live, NoCreator
                <5>2. creator[c].group \in {request[q].place, NoPlace}
                      /\ creator[c].collection \in {request[q].place, NoPlace}
                    BY <4>1 DEF Flushed, Placed, FiledFor
                <5> QED
                    BY <1>2, <3>1, <3>2, <5>1, <5>2 DEF In
            <4>2. CASE c \notin Flushed(q)
                <5>1. creator'[c] = creator[c]
                    BY <1>15, <4>2, CommitRows
                <5> QED
                    BY <3>2, <5>1 DEF Live, In
            <4> QED
                BY <4>1, <4>2
        <3> QED
            BY <1>1, <2>1, <3>2
    <2> QED
        BY <2>2, <2>3
<1>16. ASSUME NEW q \in Requests, NEW c \in Creators, NEW x \in Places, NEW info \in Infos,
              Flush(q, c, x, info), UNCHANGED <<foreignKeys, place, alarm>>
       PROVE  goal
    <2>1. \A d \in Creators : Live(d)' => d # c /\ creator'[d] = creator[d]
        BY <1>16, FlushRows
    <2>2. \A d \in Creators : Live(d)' /\ In(d, p)' => Live(d) /\ In(d, p)
        BY <2>1 DEF Live, In
    <2> QED
        BY <1>1, <1>16, <2>2
<1>17. ASSUME NEW q \in Requests, NEW c \in Creators, AddInserts(q, c) PROVE goal
    <2>1. request[q].place \in Places /\ request[q].info \in Infos
        BY <1>17, RequestFields, StageIsIdle DEF AddInserts
    <2> QED
        BY <1>16, <1>17, <2>1 DEF AddInserts
<1>18. ASSUME NEW q \in Requests, NEW c \in Creators, NEW info \in Infos, BatchInserts(q, c, info)
       PROVE  goal
    <2>1. request[q].place \in Places
        BY <1>18 DEF BatchInserts, Places
    <2> QED
        BY <1>16, <1>18, <2>1 DEF BatchInserts
<1>19. CASE UNCHANGED catalogueVars
    <2>1. UNCHANGED <<foreignKeys, place, alarm, creator>>
        BY <1>19 DEF catalogueVars
    <2>2. \A c \in Creators : Live(c)' /\ In(c, p)' => Live(c) /\ In(c, p)
        BY <1>3, <2>1
    <2>3. foreignKeys' = foreignKeys
        BY <2>1
    <2>4. p \in Groups => alarm'[p] = alarm[p]
        BY <2>1
    <2>5. place[p] = "gone"
        BY <2>1
    <2> QED
        BY <1>1, <2>2, <2>3, <2>4, <2>5 DEF goal
<1> QED
    BY <1>4, <1>5, <1>6, <1>7, <1>8, <1>9, <1>10, <1>11, <1>12, <1>13, <1>14, <1>15, <1>17,
       <1>18, <1>19, <1>20, <1>21, <1>22 DEF CatalogueNext, goal

\* Nothing is left under a group that was purged, nor under a collection that
\* an enforcing database has deleted, whatever requests overlap the deletion.
THEOREM PurgedCorrect == CatalogueSpec => []PurgedIsGone
<1>1. CatalogueInit => Placed /\ PurgedIsGone
    BY DEF CatalogueInit, Placed, FiledFor, NoBusiness, Idle, NoCreator, PurgedIsGone
<1> QED
    BY <1>1, CatalogueTypeCorrect, CatalogueNextPlaced, CatalogueNextGone, PTL DEF CatalogueSpec

-----------------------------------------------------------------------------
\* A step other than an insertion or a move brings no row, files none under a
\* place anew, leaves the rows that stay flushed as they were, and changes no id.
Row(c) == creator[c].life \in {"flushed", "live"}
KeptRow(c) ==
    Row(c)' => /\ Row(c)
               /\ creator'[c].info = creator[c].info
               /\ creator[c].uid # NoUid => creator'[c].uid = creator[c].uid
               /\ creator'[c].group \in {creator[c].group, NoPlace}
               /\ creator'[c].collection \in {creator[c].collection, NoPlace}
               /\ creator'[c].life = "flushed" => creator'[c] = creator[c]
Inserts(q, c, info) ==
    /\ Flush(q, c, request[q].place, info)
    /\ Duplicates(q, info) = {}
    /\ \/ AddInserts(q, c) /\ info = request[q].info
       \/ BatchInserts(q, c, info)

\* What a step may do to the rows of the catalogue.
LEMMA StepRows ==
    ASSUME CatalogueTypeOK, [CatalogueNext]_catalogueVars
    PROVE  \/ \A c \in Creators : KeptRow(c)
           \/ \E q \in Requests, c \in Creators, info \in Infos : Inserts(q, c, info)
           \/ \E q \in Requests : MoveCommits(q)
<1>1. ASSUME NEW c \in Creators, creator'[c] = creator[c] PROVE KeptRow(c)
    BY <1>1 DEF KeptRow, Row
<1>2. ASSUME creator' = creator PROVE \A c \in Creators : KeptRow(c)
    BY <1>1, <1>2
<1>3. ASSUME NEW c \in Creators, creator'[c] \in {NoCreator, Gone} PROVE KeptRow(c)
    BY <1>3 DEF KeptRow, Row, NoCreator, Gone
<1>4. ASSUME NEW p \in Places, NEW limit \in Limits, CreatePlace(p, limit) PROVE creator' = creator
    BY <1>4 DEF CreatePlace
<1>5. ASSUME NEW g \in Groups, \/ \E shown \in BOOLEAN, limit \in Limits : UpdateGroup(g, shown, limit)
                               \/ DeleteGroup(g) \/ RetentionEnds(g) \/ DeleteAlarm(g)
      PROVE  creator' = creator
    BY <1>5 DEF UpdateGroup, DeleteGroup, RetentionEnds, DeleteAlarm
<1>15. ASSUME NEW k \in Collections, NEW limit \in Limits, UpdateCollection(k, limit) PROVE creator' = creator
    BY <1>15 DEF UpdateCollection
<1>16. ASSUME NEW d \in Creators, NEW uid \in Uids, FillUid(d, uid), NEW c \in Creators PROVE KeptRow(c)
    <2>1. /\ creator'[d] = [creator[d] EXCEPT !.uid = uid] /\ creator[d] \in LiveRows
          /\ creator[d].uid = NoUid
          /\ \A e \in Creators \ {d} : creator'[e] = creator[e]
        BY <1>16, RowFields DEF FillUid, CatalogueTypeOK
    <2>2. CASE c = d
        BY <2>1, <2>2 DEF LiveRows, KeptRow, Row
    <2>3. CASE c # d
        BY <1>1, <2>1, <2>3
    <2> QED
        BY <2>2, <2>3
<1>6. ASSUME NEW g \in Groups, PurgeGroup(g), NEW c \in Creators PROVE KeptRow(c)
    <2>1. CASE Live(c)
        <3>1. creator[c] \in LiveRows
            BY <2>1, RowFields
        <3>2. creator'[c] = creator[c] \/ creator'[c] = [creator[c] EXCEPT !.group = NoPlace]
            BY <1>6 DEF PurgeGroup
        <3> QED
            BY <1>1, <3>1, <3>2 DEF LiveRows, KeptRow, Row
    <2>2. CASE ~Live(c)
        BY <1>1, <1>6, <2>2 DEF PurgeGroup
    <2> QED
        BY <2>1, <2>2
<1>7. ASSUME NEW k \in Collections, DeleteCollection(k), NEW c \in Creators PROVE KeptRow(c)
    <2>1. CASE Live(c)
        <3>1. creator[c] \in LiveRows
            BY <2>1, RowFields
        <3>2. creator'[c] = creator[c] \/ creator'[c] = [creator[c] EXCEPT !.collection = NoPlace]
            BY <1>7 DEF DeleteCollection
        <3> QED
            BY <1>1, <3>1, <3>2 DEF LiveRows, KeptRow, Row
    <2>2. CASE ~Live(c)
        BY <1>1, <1>7, <2>2 DEF DeleteCollection
    <2> QED
        BY <2>1, <2>2
<1>8. ASSUME NEW d \in Creators, DeleteCreator(d), NEW c \in Creators PROVE KeptRow(c)
    BY <1>1, <1>3, <1>8 DEF DeleteCreator, CatalogueTypeOK
<1>9. ASSUME NEW q \in Requests, AddCommits(q), NEW c \in Creators PROVE KeptRow(c)
    <2>1. CASE c \in Flushed(q)
        <3>1. creator[c] \in FlushedRows
            BY <2>1, RowFields DEF Flushed
        <3>2. \/ creator'[c] = NoCreator
              \/ creator'[c] = [life |-> "live", info |-> creator[c].info, uid |-> creator[c].uid,
                     group |-> creator[c].group, collection |-> creator[c].collection]
            BY <1>9, <2>1, CommitRows
        <3> QED
            BY <1>3, <3>1, <3>2 DEF FlushedRows, KeptRow, Row
    <2>2. CASE c \notin Flushed(q)
        BY <1>1, <1>9, <2>2, CommitRows
    <2> QED
        BY <2>1, <2>2
<1>10. ASSUME NEW q \in Requests,
              \/ \E p \in Places, info \in Infos : AddChecksRoom(q, p, info)
              \/ AddRefused(q)
              \/ \E c \in Creators, g \in Groups : MoveChecks(q, c, g)
              \/ \E g \in Groups : AlarmChecks(q, g)
              \/ AlarmCommits(q)
       PROVE  creator' = creator
    BY <1>10 DEF AddChecksRoom, AddRefused, MoveChecks, AlarmChecks, AlarmCommits
<1>11. ASSUME NEW q \in Requests, NEW c \in Creators, AddInserts(q, c)
       PROVE  request[q].info \in Infos /\ Inserts(q, c, request[q].info)
    <2>1. request[q].info \in Infos
        BY <1>11, RequestFields, StageIsIdle DEF AddInserts
    <2> QED
        BY <1>11, <2>1 DEF AddInserts, Inserts
<1>12. ASSUME NEW q \in Requests, NEW c \in Creators, NEW info \in Infos, BatchInserts(q, c, info)
       PROVE  Inserts(q, c, info)
    BY <1>12 DEF BatchInserts, Inserts
<1>13. CASE UNCHANGED catalogueVars
    BY <1>2, <1>13 DEF catalogueVars
<1>14. CASE CatalogueNext
    BY <1>2, <1>4, <1>5, <1>6, <1>7, <1>8, <1>9, <1>10, <1>11, <1>12, <1>14, <1>15, <1>16
       DEF CatalogueNext
<1> QED
    BY <1>13, <1>14

\* The rows of accounts that are all the same: at most one for each request,
\* and of those that a request has flushed there is one.
Alike(infos) == {c \in Creators : Row(c) /\ creator[c].info \in infos}
AllSame(infos) == \A a, b \in infos : Same(a, b)
OncePerRequest(infos) ==
    /\ Cardinality(Alike(infos)) <= Cardinality(Requests)
    /\ \A c, d \in Alike(infos) :
          creator[c].life = "flushed" /\ creator[d].life = "flushed"
              /\ creator[c].by = creator[d].by => c = d
\* A scrape leaves alone the id that an account was added with.
KeepsUid ==
    \A c \in Creators : Row(c) /\ creator[c].info.uid # NoUid => creator[c].uid = creator[c].info.uid
DuplicatesInv ==
    /\ KeepsUid
    /\ \A infos \in SUBSET Infos : AllSame(infos) => OncePerRequest(infos)

\* Sets of creators are finite.
LEMMA CreatorsFinite ==
    ASSUME NEW cs \in SUBSET Creators PROVE IsFiniteSet(cs) /\ Cardinality(cs) \in Nat
BY CatalogueAssumption, FS_Subset, FS_CardinalityType

\* Sets of requests are finite.
LEMMA RequestsFinite ==
    ASSUME NEW qs \in SUBSET Requests PROVE IsFiniteSet(qs) /\ Cardinality(qs) \in Nat
BY CatalogueAssumption, FS_Subset, FS_CardinalityType

\* An insertion that saw no duplicate: those there are belong to other requests.
LEMMA InsertsOnce ==
    ASSUME CatalogueTypeOK, KeepsUid, NEW infos \in SUBSET Infos, AllSame(infos),
           OncePerRequest(infos), NEW q \in Requests, NEW c \in Creators, NEW info \in infos, NEW p \in Places,
           Flush(q, c, p, info), Duplicates(q, info) = {}
    PROVE  OncePerRequest(infos)'
<1> DEFINE others == Requests \ {q}
           alike == Alike(infos)
<1>1. \A d \in alike : d \notin Seen(q)
    <2>1. ASSUME NEW d \in alike PROVE Same(Account(d), info)
        BY DEF Alike, AllSame, Same, Account, KeepsUid
    <2> QED
        BY <2>1 DEF Duplicates
<1>2. \A d \in alike : creator[d].life = "flushed" /\ creator[d].by \in others
    BY <1>1, RowFields DEF Alike, Row, Seen, Flushed, Live, FlushedRows
<1> DEFINE owner == [d \in alike |-> creator[d].by]
<1>3. owner \in Injection(alike, others)
    BY <1>2 DEF Injection, IsInjective, OncePerRequest
<1>4. Cardinality(alike) <= Cardinality(others)
    BY <1>3, RequestsFinite, FS_Injection
<1>5. Cardinality(others) = Cardinality(Requests) - 1
    BY RequestsFinite, FS_RemoveElement
<1>6. /\ creator[c] = NoCreator
      /\ \A d \in Creators \ {c} : creator'[d] = creator[d]
      /\ creator'[c].life = "flushed" /\ creator'[c].by = q /\ creator'[c].info = info
    <2>1. info \in Infos
        OBVIOUS
    <2>2. /\ creator[c] = NoCreator
          /\ \A d \in Creators \ {c} : creator'[d] = creator[d]
        BY <2>1, FlushRows
    <2>3. creator'[c].life = "flushed" /\ creator'[c].by = q /\ creator'[c].info = info
        BY <2>1, FlushFields
    <2> QED
        BY <2>2, <2>3
<1>7. Alike(infos)' = alike \cup {c} /\ c \notin alike
    BY <1>6 DEF Alike, Row, NoCreator
<1>8. Cardinality(Alike(infos)') = Cardinality(alike) + 1
    BY <1>7, CreatorsFinite, FS_AddElement DEF Alike
<1>9. Cardinality(Alike(infos)') <= Cardinality(Requests)
    BY <1>4, <1>5, <1>8, CreatorsFinite, RequestsFinite DEF Alike
<1>10. ASSUME NEW d \in Alike(infos)', NEW e \in Alike(infos)', creator'[d].life = "flushed",
              creator'[e].life = "flushed", creator'[d].by = creator'[e].by
       PROVE  d = e
    <2>1. \A x \in alike : x \in Creators \ {c} /\ creator'[x].by # q
        BY <1>2, <1>6, <1>7 DEF Alike
    <2>2. CASE d \in alike /\ e \in alike
        BY <1>6, <1>10, <2>1, <2>2 DEF OncePerRequest
    <2> QED
        BY <1>6, <1>7, <1>10, <2>1, <2>2
<1> QED
    BY <1>9, <1>10 DEF OncePerRequest

\* No step changes the id of such an account.
LEMMA CatalogueNextUids ==
    CatalogueTypeOK /\ KeepsUid /\ [CatalogueNext]_catalogueVars => KeepsUid'
<1> SUFFICES ASSUME CatalogueTypeOK, KeepsUid, [CatalogueNext]_catalogueVars,
                    NEW c \in Creators, Row(c)', creator'[c].info.uid # NoUid
             PROVE  creator'[c].uid = creator'[c].info.uid
    BY DEF KeepsUid
<1>1. CASE KeptRow(c)
    BY <1>1 DEF KeptRow, KeepsUid
<1>2. ASSUME creator'[c] = creator[c] PROVE creator'[c].uid = creator'[c].info.uid
    BY <1>2 DEF KeepsUid, Row
<1>3. ASSUME NEW q \in Requests, NEW d \in Creators, NEW info \in Infos, Inserts(q, d, info)
      PROVE  creator'[c].uid = creator'[c].info.uid
    <2> DEFINE p == request[q].place
    <2>1. p \in Places /\ Flush(q, d, p, info)
        BY <1>3, RequestFields, StageIsIdle DEF Inserts, AddInserts, BatchInserts
    <2> HIDE DEF p
    <2>2. /\ creator'[d] = [life |-> "flushed", by |-> q, info |-> info, uid |-> info.uid,
                           group |-> IF p \in Groups THEN p ELSE NoPlace,
                           collection |-> IF p \in Collections THEN p ELSE NoPlace]
          /\ \A e \in Creators \ {d} : creator'[e] = creator[e]
        BY <2>1, FlushRows
    <2>3. creator'[d].uid = creator'[d].info.uid
        BY <2>2
    <2> QED
        BY <1>2, <2>2, <2>3
<1>4. ASSUME NEW q \in Requests, MoveCommits(q) PROVE creator'[c].uid = creator'[c].info.uid
    <2> DEFINE m == request[q].creator
    <2>1. m \in Creators
        BY <1>4, RequestFields, StageIsIdle DEF MoveCommits
    <2>2. \/ creator'[c] = creator[c]
          \/ c = m /\ Live(m) /\ creator'[c] = [creator[m] EXCEPT !.group = request[q].place]
        BY <1>4, <2>1 DEF MoveCommits, CatalogueTypeOK
    <2>3. Live(m) => creator[m] \in LiveRows
        BY <2>1, RowFields
    <2> HIDE DEF m
    <2>4. CASE c = m /\ Live(m) /\ creator'[c] = [creator[m] EXCEPT !.group = request[q].place]
        <3>1. creator'[c].uid = creator[c].uid /\ creator'[c].info = creator[c].info /\ Row(c)
            BY <2>3, <2>4 DEF LiveRows, Row
        <3> QED
            BY <3>1 DEF KeepsUid
    <2> QED
        BY <1>2, <2>2, <2>4
<1> QED
    BY <1>1, <1>3, <1>4, StepRows

\* No step breaks the bound.
LEMMA CatalogueNextDuplicates ==
    CatalogueTypeOK /\ DuplicatesInv /\ [CatalogueNext]_catalogueVars => DuplicatesInv'
<1> SUFFICES ASSUME CatalogueTypeOK, DuplicatesInv, [CatalogueNext]_catalogueVars,
                    NEW infos \in SUBSET Infos, AllSame(infos)
             PROVE  OncePerRequest(infos)'
    BY CatalogueNextUids DEF DuplicatesInv, AllSame, Same
<1>1. OncePerRequest(infos)
    BY DEF DuplicatesInv
<1>2. ASSUME \A c \in Alike(infos)' : /\ c \in Alike(infos)
                                      /\ creator'[c].life = "flushed" => creator'[c] = creator[c]
      PROVE  OncePerRequest(infos)'
    <2>1. Cardinality(Alike(infos)') <= Cardinality(Alike(infos))
        BY <1>2, CreatorsFinite, FS_Subset DEF Alike
    <2>2. Alike(infos) \in SUBSET Creators /\ Alike(infos)' \in SUBSET Creators
        BY DEF Alike
    <2>3. Cardinality(Alike(infos)') <= Cardinality(Requests)
        BY <1>1, <2>1, <2>2, CreatorsFinite, RequestsFinite DEF OncePerRequest
    <2>4. ASSUME NEW c \in Alike(infos)', NEW d \in Alike(infos)', creator'[c].life = "flushed",
                 creator'[d].life = "flushed", creator'[c].by = creator'[d].by
          PROVE  c = d
        BY <1>1, <1>2, <2>4 DEF OncePerRequest
    <2> QED
        BY <2>3, <2>4 DEF OncePerRequest
<1>3. CASE \A c \in Creators : KeptRow(c)
    BY <1>2, <1>3 DEF KeptRow, Alike
<1>4. ASSUME NEW q \in Requests, NEW c \in Creators, NEW info \in Infos, Inserts(q, c, info)
      PROVE  OncePerRequest(infos)'
    <2>1. request[q].place \in Places
        BY <1>4, RequestFields, StageIsIdle DEF Inserts, AddInserts, BatchInserts
    <2>2. CASE info \in infos
        BY <1>1, <1>4, <2>1, <2>2, InsertsOnce DEF Inserts, DuplicatesInv
    <2>3. CASE info \notin infos
        <3>1. creator'[c].info = info /\ \A d \in Creators \ {c} : creator'[d] = creator[d]
            <4>1. Flush(q, c, request[q].place, info)
                BY <1>4 DEF Inserts
            <4>2. creator'[c].info = info
                BY <2>1, <4>1, FlushFields
            <4>3. \A d \in Creators \ {c} : creator'[d] = creator[d]
                BY <2>1, <4>1, FlushRows
            <4> QED
                BY <4>2, <4>3
        <3> QED
            BY <1>2, <2>3, <3>1 DEF Alike, Row
    <2> QED
        BY <2>2, <2>3
<1>5. ASSUME NEW q \in Requests, MoveCommits(q) PROVE OncePerRequest(infos)'
    <2> DEFINE m == request[q].creator
    <2>1. m \in Creators
        BY <1>5, RequestFields, StageIsIdle DEF MoveCommits
    <2>2. \A c \in Creators : \/ creator'[c] = creator[c]
                              \/ c = m /\ Live(m) /\ creator'[c] = [creator[m] EXCEPT !.group = request[q].place]
        BY <1>5, <2>1 DEF MoveCommits, CatalogueTypeOK
    <2>3. Live(m) => creator[m] \in LiveRows
        BY <2>1, RowFields
    <2> HIDE DEF m
    <2>4. ASSUME NEW c \in Alike(infos)'
          PROVE  c \in Alike(infos) /\ (creator'[c].life = "flushed" => creator'[c] = creator[c])
        BY <2>2, <2>3 DEF Alike, Row, LiveRows
    <2> QED
        BY <1>2, <2>4
<1> QED
    BY <1>3, <1>4, <1>5, StepRows

\* Accounts of one name are the same, and accounts of one id.
LEMMA DuplicatesFollow == CatalogueTypeOK /\ DuplicatesInv => DuplicatesBounded
<1> SUFFICES ASSUME CatalogueTypeOK, DuplicatesInv, NEW info \in Infos
             PROVE  /\ Cardinality({c \in Creators : Live(c) /\ creator[c].info.name = info.name})
                           <= Cardinality(Requests)
                    /\ info.uid # NoUid =>
                           Cardinality({c \in Creators : Live(c) /\ creator[c].info.uid = info.uid})
                               <= Cardinality(Requests)
    BY DEF DuplicatesBounded
<1>1. ASSUME NEW infos \in SUBSET Infos, AllSame(infos), NEW cs \in SUBSET Alike(infos)
      PROVE  Cardinality(cs) <= Cardinality(Requests)
    <2>1. cs \in SUBSET Creators /\ Alike(infos) \in SUBSET Creators
        BY DEF Alike
    <2>2. Cardinality(cs) <= Cardinality(Alike(infos))
        BY <2>1, CreatorsFinite, FS_Subset
    <2>3. Cardinality(Alike(infos)) <= Cardinality(Requests)
        BY <1>1 DEF DuplicatesInv, OncePerRequest
    <2> QED
        BY <2>1, <2>2, <2>3, CreatorsFinite, RequestsFinite
<1>2. \A c \in Creators : Live(c) => Row(c) /\ creator[c].info \in Infos
    BY RowFields DEF Live, Row, LiveRows
<1>3. Cardinality({c \in Creators : Live(c) /\ creator[c].info.name = info.name})
          <= Cardinality(Requests)
    <2> DEFINE named == {i \in Infos : i.name = info.name}
    <2>1. AllSame(named)
        BY DEF AllSame, Same
    <2>2. {c \in Creators : Live(c) /\ creator[c].info.name = info.name} \in SUBSET Alike(named)
        BY <1>2 DEF Alike
    <2> QED
        BY <1>1, <2>1, <2>2
<1>4. ASSUME info.uid # NoUid
      PROVE  Cardinality({c \in Creators : Live(c) /\ creator[c].info.uid = info.uid})
                 <= Cardinality(Requests)
    <2> DEFINE known == {i \in Infos : i.uid = info.uid}
    <2>1. AllSame(known)
        BY <1>4 DEF AllSame, Same
    <2>2. {c \in Creators : Live(c) /\ creator[c].info.uid = info.uid} \in SUBSET Alike(known)
        BY <1>2 DEF Alike
    <2> QED
        BY <1>1, <2>1, <2>2
<1> QED
    BY <1>3, <1>4

\* An account, known by its name or by an id that it was added with, is monitored
\* at most once for each request that is served at the same time, whatever the
\* accounts are and whatever ids the scrapes fill in.
THEOREM DuplicatesCorrect == CatalogueSpec => []DuplicatesBounded
<1>1. CatalogueInit => DuplicatesInv
    <2>1. ASSUME CatalogueInit, NEW infos \in SUBSET Infos PROVE OncePerRequest(infos)
        <3>1. Alike(infos) = {}
            BY <2>1 DEF CatalogueInit, Alike, Row, NoCreator
        <3> QED
            BY <3>1, FS_EmptySet, RequestsFinite DEF OncePerRequest
    <2>2. CatalogueInit => KeepsUid
        BY DEF CatalogueInit, KeepsUid, Row, NoCreator
    <2> QED
        BY <2>1, <2>2 DEF DuplicatesInv
<1> QED
    BY <1>1, CatalogueTypeCorrect, CatalogueNextDuplicates, DuplicatesFollow, PTL DEF CatalogueSpec

-----------------------------------------------------------------------------
\* The places that are taken, and those that requests will take which have
\* found room: each of them has at most as many rows flushed as it may.
Limit(p) == IF MaxBatch < most[p] THEN MaxBatch ELSE most[p]
Bound(p) == most[p] + (Cardinality(Requests) - 1) * Limit(p)
Owned(p) == {c \in Creators : Row(c) /\ In(c, p)}
Waits(q) == request[q].stage \in {"room", "move"}
Checked(p) == {q \in Requests : Waits(q) /\ request[q].place = p}
FewFlushed(q) ==
    request[q].stage = "flushed" => Cardinality(Flushed(q)) <= Limit(request[q].place)
RoomFor(p) == Cardinality(Owned(p)) + Cardinality(Checked(p)) <= Bound(p)
CapIsSeen(p) == cap[p] <= most[p]
HadRoom(q) == Waits(q) => 1 <= most[request[q].place]
CapacityInv ==
    /\ \A q \in Requests : FewFlushed(q) /\ HadRoom(q)
    /\ \A p \in Places : RoomFor(p) /\ CapIsSeen(p)

\* Limits are numbers.
LEMMA CapIsNat == CatalogueTypeOK => cap \in [Places -> Nat] /\ most \in [Places -> Nat]
<1>1. Limits \cup {0} \subseteq Nat
    BY CatalogueAssumption
<1>2. CatalogueTypeOK => cap \in [Places -> Limits \cup {0}] /\ most \in [Places -> Limits \cup {0}]
    BY DEF CatalogueTypeOK
<1> QED
    BY <1>1, <1>2

\* Places to take are numbers.
LEMMA LimitIsNat ==
    ASSUME CatalogueTypeOK, NEW p \in Places
    PROVE  /\ Limit(p) \in Nat /\ Limit(p) <= most[p] /\ most[p] \in Nat /\ cap[p] \in Nat
           /\ MaxBatch \in Nat /\ Limit(p) <= MaxBatch
           /\ \A n \in Nat : n < MaxBatch /\ n < most[p] => n + 1 <= Limit(p)
<1>1. MaxBatch \in Nat \ {0} /\ most[p] \in Nat /\ cap[p] \in Nat
    BY CatalogueAssumption, CapIsNat
<1> QED
    BY <1>1 DEF Limit

\* Typing, of the bound.
LEMMA BoundIsInt ==
    ASSUME CatalogueTypeOK, NEW p \in Places
    PROVE  Bound(p) \in Int
<1>1. Cardinality(Requests) \in Nat
    BY RequestsFinite
<1> QED
    BY <1>1, LimitIsNat DEF Bound

\* The largest limit never gets smaller, and the limit is never above it.
LEMMA MostGrows ==
    ASSUME CatalogueTypeOK, CatalogueTypeOK', [CatalogueNext]_catalogueVars, NEW p \in Places
    PROVE  most[p] <= most'[p] /\ (CapIsSeen(p) => CapIsSeen(p)')
<1>1. /\ most[p] \in Nat /\ cap[p] \in Nat
      /\ most \in [Places -> Nat] /\ cap \in [Places -> Nat]
    BY CapIsNat
<1>2. ASSUME NEW x \in Places, NEW limit \in Limits, LimitIs(x, limit)
      PROVE  most[p] <= most'[p] /\ (CapIsSeen(p) => CapIsSeen(p)')
    <2>1. limit \in Nat
        BY CatalogueAssumption
    <2> QED
        BY <1>1, <1>2, <2>1 DEF LimitIs, CapIsSeen
<1>3. ASSUME UNCHANGED <<cap, most>>
      PROVE  most[p] <= most'[p] /\ (CapIsSeen(p) => CapIsSeen(p)')
    BY <1>1, <1>3 DEF CapIsSeen
<1>4. ASSUME NEW x \in Places, NEW limit \in Limits, CreatePlace(x, limit) PROVE LimitIs(x, limit)
    BY <1>4 DEF CreatePlace
<1>5. ASSUME NEW g \in Groups, NEW shown \in BOOLEAN, NEW limit \in Limits, UpdateGroup(g, shown, limit)
      PROVE  g \in Places /\ LimitIs(g, limit)
    BY <1>5 DEF UpdateGroup, Places
<1>6. ASSUME NEW k \in Collections, NEW limit \in Limits, UpdateCollection(k, limit)
      PROVE  k \in Places /\ LimitIs(k, limit)
    BY <1>6 DEF UpdateCollection, Places
<1>7. ASSUME NEW g \in Groups, \/ DeleteGroup(g) \/ RetentionEnds(g)
                               \/ PurgeGroup(g) \/ DeleteAlarm(g)
      PROVE  UNCHANGED <<cap, most>>
    BY <1>7 DEF DeleteGroup, RetentionEnds, PurgeGroup, DeleteAlarm
<1>8. ASSUME NEW k \in Collections, DeleteCollection(k) PROVE UNCHANGED <<cap, most>>
    BY <1>8 DEF DeleteCollection
<1>9. ASSUME NEW c \in Creators, DeleteCreator(c) \/ \E uid \in Uids : FillUid(c, uid)
      PROVE  UNCHANGED <<cap, most>>
    BY <1>9 DEF DeleteCreator, FillUid
<1>10. ASSUME NEW q \in Requests,
              \/ \E x \in Places, info \in Infos : AddChecksRoom(q, x, info)
              \/ AddRefused(q) \/ AddCommits(q)
              \/ \E c \in Creators : AddInserts(q, c)
              \/ \E c \in Creators, info \in Infos : BatchInserts(q, c, info)
       PROVE  UNCHANGED <<cap, most>>
    BY <1>10 DEF AddChecksRoom, AddRefused, AddCommits, AddInserts, BatchInserts
<1>11. ASSUME NEW q \in Requests,
              \/ \E c \in Creators, g \in Groups : MoveChecks(q, c, g)
              \/ MoveCommits(q)
              \/ \E g \in Groups : AlarmChecks(q, g)
              \/ AlarmCommits(q)
       PROVE  UNCHANGED <<cap, most>>
    BY <1>11 DEF MoveChecks, MoveCommits, AlarmChecks, AlarmCommits
<1>12. CASE UNCHANGED catalogueVars
    BY <1>3, <1>12 DEF catalogueVars
<1>13. CASE CatalogueNext
    BY <1>2, <1>3, <1>4, <1>5, <1>6, <1>7, <1>8, <1>9, <1>10, <1>11, <1>13 DEF CatalogueNext
<1> QED
    BY <1>12, <1>13

\* So the bound never gets smaller.
LEMMA BoundGrows ==
    ASSUME CatalogueTypeOK, CatalogueTypeOK', NEW p \in Places, most[p] <= most'[p]
    PROVE  /\ Limit(p) \in Nat /\ Limit(p)' \in Nat /\ Limit(p) <= Limit(p)'
           /\ Bound(p) \in Int /\ Bound(p)' \in Int /\ Bound(p) <= Bound(p)'
<1> DEFINE n == Cardinality(Requests)
<1>1. /\ MaxBatch \in Nat /\ most[p] \in Nat /\ most'[p] \in Nat
    <2>1. (CatalogueTypeOK => most \in [Places -> Nat])'
        BY CapIsNat, PTL
    <2> QED
        BY <2>1, CatalogueAssumption, CapIsNat
<1>2. Limit(p) \in Nat /\ Limit(p)' \in Nat /\ Limit(p) <= Limit(p)'
      /\ Limit(p)' - Limit(p) <= most'[p] - most[p]
    BY <1>1 DEF Limit
<1>3. n \in Nat
    BY RequestsFinite
<1> DEFINE l == Limit(p)
           m == Limit(p)'
<1> HIDE DEF n, l, m
<1>4. l \in Nat /\ m \in Nat /\ l <= m /\ m - l <= most'[p] - most[p]
    BY <1>2 DEF l, m
<1>5. most[p] + (n - 1) * l <= most'[p] + (n - 1) * m
    <2>1. CASE n = 0
        BY <1>1, <1>4, <2>1
    <2>2. CASE n >= 1
        <3>1. (n - 1) * l <= (n - 1) * m /\ (n - 1) * l \in Int /\ (n - 1) * m \in Int
            BY <1>3, <1>4, <2>2
        <3> QED
            BY <1>1, <3>1
    <2> QED
        BY <1>3, <2>1, <2>2
<1>6. most[p] + (n - 1) * l \in Int /\ most'[p] + (n - 1) * m \in Int
    BY <1>1, <1>3, <1>4
<1> QED
    BY <1>2, <1>5, <1>6 DEF Bound, n, l, m

\* The rows of a place are finitely many.
LEMMA OwnedFinite ==
    ASSUME NEW p
    PROVE  /\ IsFiniteSet(Owned(p)) /\ Cardinality(Owned(p)) \in Nat
           /\ IsFiniteSet(Checked(p)) /\ Cardinality(Checked(p)) \in Nat
BY CreatorsFinite, RequestsFinite DEF Owned, Checked

\* A set that is not larger than a number can be counted up to it.
LEMMA CountedUpTo ==
    ASSUME NEW cs \in SUBSET Creators, NEW n \in Nat, Cardinality(cs) <= n
    PROVE  \E f \in [cs -> 1 .. n] : IsInjective(f)
<1> DEFINE m == Cardinality(cs)
<1>1. m \in Nat /\ ExistsBijection(1 .. m, cs)
    BY CreatorsFinite, FS_CardinalityType
<1>2. PICK g \in Bijection(1 .. m, cs) : TRUE
    BY <1>1 DEF ExistsBijection
<1>3. /\ g \in [1 .. m -> cs]
      /\ \A i, j \in 1 .. m : g[i] = g[j] => i = j
      /\ \A c \in cs : \E i \in 1 .. m : g[i] = c
    BY <1>2 DEF Bijection, Injection, Surjection, IsInjective
<1> DEFINE f == [c \in cs |-> CHOOSE i \in 1 .. m : g[i] = c]
<1>4. \A c \in cs : f[c] \in 1 .. m /\ g[f[c]] = c
    BY <1>3
<1>5. 1 .. m \subseteq 1 .. n
    BY <1>1
<1>6. f \in [cs -> 1 .. n]
    BY <1>4, <1>5
<1> HIDE DEF f
<1>7. IsInjective(f)
    BY <1>4, <1>6 DEF IsInjective
<1> QED
    BY <1>6, <1>7

\* The rows that requests qs have flushed for place p.
LEMMA FlushedBounded ==
    ASSUME CatalogueTypeOK, Placed, CapacityInv, NEW p \in Places, NEW qs \in SUBSET Requests,
           \A q \in qs : request[q].stage = "flushed" /\ request[q].place = p
    PROVE  Cardinality({c \in Creators : \E q \in qs : c \in Flushed(q)})
               <= Cardinality(qs) * Limit(p)
<1> DEFINE creatorRows == {c \in Creators : \E q \in qs : c \in Flushed(q)}
           slots == qs \X (1 .. Limit(p))
           number == [q \in qs |-> CHOOSE f \in [Flushed(q) -> 1 .. Limit(p)] : IsInjective(f)]
           slot == [c \in creatorRows |-> <<creator[c].by, number[creator[c].by][c]>>]
<1>1. Limit(p) \in Nat
    BY LimitIsNat
<1>2. ASSUME NEW q \in qs
      PROVE  number[q] \in [Flushed(q) -> 1 .. Limit(p)] /\ IsInjective(number[q])
    <2>1. Flushed(q) \in SUBSET Creators /\ Cardinality(Flushed(q)) <= Limit(p)
        BY DEF Flushed, CapacityInv, FewFlushed
    <2>2. \E f \in [Flushed(q) -> 1 .. Limit(p)] : IsInjective(f)
        BY <1>1, <2>1, CountedUpTo
    <2> QED
        BY <2>2
<1>3. \A c \in creatorRows : creator[c].by \in qs /\ c \in Flushed(creator[c].by)
    BY DEF Flushed
<1> HIDE DEF number, creatorRows
<1>4. slot \in [creatorRows -> slots]
    BY <1>2, <1>3
<1>5. IsInjective(slot)
    <2>1. SUFFICES ASSUME NEW c \in creatorRows, NEW d \in creatorRows, slot[c] = slot[d] PROVE c = d
        BY <1>4 DEF IsInjective
    <2>2. creator[c].by = creator[d].by /\ number[creator[c].by][c] = number[creator[c].by][d]
        BY <2>1
    <2> QED
        BY <1>2, <1>3, <2>2 DEF IsInjective
<1>6. IsFiniteSet(slots) /\ Cardinality(slots) = Cardinality(qs) * Limit(p)
    <2>1. IsFiniteSet(1 .. Limit(p)) /\ Cardinality(1 .. Limit(p)) = Limit(p)
        BY <1>1, LimitIsNat, FS_Interval
    <2> QED
        BY <2>1, RequestsFinite, FS_Product
<1>7. slot \in Injection(creatorRows, slots)
    BY <1>4, <1>5 DEF Injection
<1>8. Cardinality(creatorRows) <= Cardinality(slots)
    BY <1>6, <1>7, FS_Injection
<1> QED
    BY <1>6, <1>8 DEF creatorRows

\* What requests other than q have flushed for a place, or may still.
LEMMA OthersBounded ==
    ASSUME CatalogueTypeOK, Placed, CapacityInv, NEW p \in Places, NEW q \in Requests
    PROVE  Cardinality({c \in Owned(p) : ~Live(c) /\ c \notin Flushed(q)})
               + Cardinality(Checked(p) \ {q}) <= (Cardinality(Requests) - 1) * Limit(p)
<1> DEFINE adding == {r \in Requests \ {q} : request[r].stage = "flushed" /\ request[r].place = p}
           creatorRows == {c \in Creators : \E r \in adding : c \in Flushed(r)}
           theirs == {c \in Owned(p) : ~Live(c) /\ c \notin Flushed(q)}
           waiting == Checked(p) \ {q}
           m == Limit(p)
<1>1. Cardinality(creatorRows) <= Cardinality(adding) * m
    BY FlushedBounded
<1>2. theirs \subseteq creatorRows
    <2>1. ASSUME NEW c \in theirs PROVE c \in creatorRows
        <3>1. c \in Creators /\ creator[c].life = "flushed" /\ creator[c].by \in Requests \ {q}
              /\ In(c, p)
            BY RowFields DEF Owned, Row, Live, Flushed, FlushedRows
        <3>2. p # NoPlace
            BY CatalogueAssumption DEF Places, NoPlace
        <3>3. request[creator[c].by].stage = "flushed" /\ request[creator[c].by].place = p
            BY <3>1, <3>2 DEF Placed, FiledFor, In
        <3> QED
            BY <3>1, <3>3 DEF Flushed
    <2> QED
        BY <2>1
<1>3. Cardinality(theirs) <= Cardinality(creatorRows)
    BY <1>2, CreatorsFinite, FS_Subset
<1>4. Cardinality(adding) + Cardinality(waiting) <= Cardinality(Requests) - 1
    <2>1. adding \cap waiting = {}
        BY DEF Checked, Waits
    <2>2. Cardinality(adding \cup waiting) = Cardinality(adding) + Cardinality(waiting)
        <3>1. Cardinality(adding \cup waiting)
                  = Cardinality(adding) + Cardinality(waiting) - Cardinality(adding \cap waiting)
            BY RequestsFinite, FS_Union DEF Checked
        <3> QED
            BY <2>1, <3>1, FS_EmptySet, RequestsFinite DEF Checked
    <2>3. Cardinality(adding \cup waiting) <= Cardinality(Requests \ {q})
        BY RequestsFinite, FS_Subset DEF Checked
    <2>4. Cardinality(Requests \ {q}) = Cardinality(Requests) - 1
        BY RequestsFinite, FS_RemoveElement
    <2> QED
        BY <2>2, <2>3, <2>4
<1>5. /\ Cardinality(adding) \in Nat /\ Cardinality(waiting) \in Nat
      /\ Cardinality(Requests) \in Nat /\ Cardinality(creatorRows) \in Nat
      /\ Cardinality(theirs) \in Nat
    BY RequestsFinite, CreatorsFinite DEF Checked, Owned
<1>6. m \in Nat /\ (waiting # {} => 1 <= m)
    <2>1. m \in Nat /\ (1 <= most[p] => 1 <= m)
        BY CatalogueAssumption, LimitIsNat DEF Limit
    <2>2. waiting # {} => 1 <= most[p]
        BY DEF CapacityInv, HadRoom, Checked
    <2> QED
        BY <2>1, <2>2
<1>13. waiting = {} => Cardinality(waiting) = 0
    BY FS_EmptySet
<1> HIDE DEF adding, creatorRows, theirs, waiting, m
<1>7. Cardinality(waiting) <= Cardinality(waiting) * m
    <2>1. CASE waiting = {}
        BY <1>6, <1>13, <2>1
    <2>2. CASE waiting # {}
        BY <1>5, <1>6, <2>2
    <2> QED
        BY <2>1, <2>2
<1>8. (Cardinality(adding) + Cardinality(waiting)) * m <= (Cardinality(Requests) - 1) * m
    BY <1>4, <1>5, <1>6
<1>9. (Cardinality(adding) + Cardinality(waiting)) * m
          = Cardinality(adding) * m + Cardinality(waiting) * m
    BY <1>5, <1>6
<1>10. /\ Cardinality(adding) * m \in Nat /\ Cardinality(waiting) * m \in Nat
       /\ (Cardinality(Requests) - 1) * m \in Int
    BY <1>5, <1>6
<1>11. Cardinality(theirs) + Cardinality(waiting) <= (Cardinality(Requests) - 1) * m
    BY <1>1, <1>3, <1>5, <1>7, <1>8, <1>9, <1>10
<1> QED
    BY <1>11 DEF theirs, waiting, m

\* A step lets requests end or turn to a schedule, or one of them has found room,
\* or has inserted a row.
FindsRoom(q, p) ==
    /\ Idle(q) /\ HasRoom(q, p) /\ creator' = creator
    /\ request'[q].stage \in {"room", "move"} /\ request'[q].place = p
    /\ \A r \in Requests \ {q} : request'[r] = request[r]
StaysOrEnds(r) == request'[r] \in {request[r], NoRequest} \/ request'[r].stage = "alarm"

\* What a step may do to the requests.
LEMMA StepRequests ==
    ASSUME CatalogueTypeOK, [CatalogueNext]_catalogueVars
    PROVE  \/ \A r \in Requests : StaysOrEnds(r)
           \/ \E q \in Requests, p \in Places : FindsRoom(q, p)
           \/ \E q \in Requests, c \in Creators : AddInserts(q, c)
<1>1. ASSUME request' = request PROVE \A r \in Requests : StaysOrEnds(r)
    BY <1>1 DEF StaysOrEnds
<1>2. ASSUME NEW q \in Requests, Ends(q) PROVE \A r \in Requests : StaysOrEnds(r)
    BY <1>2 DEF Ends, StaysOrEnds, CatalogueTypeOK
<1>3. ASSUME NEW p \in Places, NEW limit \in Limits, CreatePlace(p, limit) PROVE request' = request
    BY <1>3 DEF CreatePlace
<1>4. ASSUME NEW g \in Groups, \/ \E shown \in BOOLEAN, limit \in Limits : UpdateGroup(g, shown, limit)
                               \/ DeleteGroup(g) \/ RetentionEnds(g)
                               \/ PurgeGroup(g) \/ DeleteAlarm(g)
      PROVE  request' = request
    BY <1>4 DEF UpdateGroup, DeleteGroup, RetentionEnds, PurgeGroup, DeleteAlarm
<1>5. ASSUME NEW k \in Collections,
             DeleteCollection(k) \/ \E limit \in Limits : UpdateCollection(k, limit)
      PROVE  request' = request
    BY <1>5 DEF DeleteCollection, UpdateCollection
<1>6. ASSUME NEW c \in Creators, DeleteCreator(c) \/ \E uid \in Uids : FillUid(c, uid)
      PROVE  request' = request
    BY <1>6 DEF DeleteCreator, FillUid
<1>7. ASSUME NEW q \in Requests, NEW c \in Creators, NEW info \in Infos, BatchInserts(q, c, info)
      PROVE  request' = request
    BY <1>7 DEF BatchInserts
<1>8. ASSUME NEW q \in Requests, AddRefused(q) \/ AddCommits(q) \/ MoveCommits(q) \/ AlarmCommits(q)
      PROVE  Ends(q)
    BY <1>8 DEF AddRefused, AddCommits, MoveCommits, AlarmCommits
<1>9. ASSUME NEW q \in Requests, NEW p \in Places, NEW info \in Infos, AddChecksRoom(q, p, info)
      PROVE  FindsRoom(q, p)
    BY <1>9 DEF AddChecksRoom, FindsRoom, CatalogueTypeOK
<1>10. ASSUME NEW q \in Requests, NEW c \in Creators, NEW g \in Groups, MoveChecks(q, c, g)
       PROVE  g \in Places /\ FindsRoom(q, g)
    BY <1>10 DEF MoveChecks, FindsRoom, CatalogueTypeOK, Places
<1>11. ASSUME NEW q \in Requests, NEW g \in Groups, AlarmChecks(q, g)
       PROVE  \A r \in Requests : StaysOrEnds(r)
    BY <1>11 DEF AlarmChecks, StaysOrEnds, CatalogueTypeOK
<1>12. CASE UNCHANGED catalogueVars
    BY <1>1, <1>12 DEF catalogueVars
<1>13. CASE CatalogueNext
    BY <1>1, <1>2, <1>3, <1>4, <1>5, <1>6, <1>7, <1>8, <1>9, <1>10, <1>11, <1>13
       DEF CatalogueNext
<1> QED
    BY <1>12, <1>13

\* Where a request finds room, one more row fits in with those of the others.
LEMMA RoomIsThere ==
    ASSUME CatalogueTypeOK, Placed, CapacityInv, NEW q \in Requests, NEW p \in Places, HasRoom(q, p)
    PROVE  Cardinality(Owned(p)) + Cardinality(Checked(p) \ {q}) + 1 <= Bound(p)
<1> DEFINE seen == {c \in Seen(q) : In(c, p)}
           theirs == {c \in Owned(p) : ~Live(c) /\ c \notin Flushed(q)}
           waiting == Checked(p) \ {q}
           others == (Cardinality(Requests) - 1) * Limit(p)
<1>1. Cardinality(seen) < cap[p] /\ cap[p] <= most[p]
    BY DEF HasRoom, CapacityInv, CapIsSeen
<1>2. Cardinality(theirs) + Cardinality(waiting) <= others
    BY OthersBounded
<1>3. seen \in SUBSET Creators /\ theirs \in SUBSET Creators
    BY DEF Seen, Flushed, Owned
<1>4. Owned(p) \subseteq seen \cup theirs
    BY DEF Owned, Seen, Row, Live
<1>5. Cardinality(Owned(p)) <= Cardinality(seen \cup theirs)
    BY <1>3, <1>4, CreatorsFinite, FS_Subset
<1>6. Cardinality(seen \cup theirs) = Cardinality(seen) + Cardinality(theirs) - Cardinality(seen \cap theirs)
    BY <1>3, CreatorsFinite, FS_Union
<1>7. /\ Cardinality(seen) \in Nat /\ Cardinality(theirs) \in Nat
      /\ Cardinality(seen \cap theirs) \in Nat /\ Cardinality(seen \cup theirs) \in Nat
      /\ Cardinality(Owned(p)) \in Nat /\ Cardinality(waiting) \in Nat
    BY <1>3, CreatorsFinite, RequestsFinite, OwnedFinite DEF Checked
<1>8. others \in Int /\ cap[p] \in Nat /\ most[p] \in Nat
    <2>1. Cardinality(Requests) \in Nat
        BY RequestsFinite
    <2> QED
        BY <2>1, LimitIsNat
<1> HIDE DEF seen, theirs, waiting, others
<1>9. Cardinality(Owned(p)) + Cardinality(waiting) + 1 <= most[p] + others
    BY <1>1, <1>2, <1>5, <1>6, <1>7, <1>8
<1> QED
    BY <1>9 DEF waiting, others, Bound

\* A step that leaves a place no more rows and no more checks leaves it room.
LEMMA FewerHaveRoom ==
    ASSUME CapacityInv, NEW p \in Places, Owned(p)' \subseteq Owned(p), Checked(p)' \subseteq Checked(p),
           Bound(p) \in Int, Bound(p)' \in Int, Bound(p) <= Bound(p)'
    PROVE  RoomFor(p)'
<1>1. Cardinality(Owned(p)') <= Cardinality(Owned(p)) /\ Cardinality(Owned(p)') \in Nat
    BY OwnedFinite, FS_Subset, FS_CardinalityType
<1>2. Cardinality(Checked(p)') <= Cardinality(Checked(p)) /\ Cardinality(Checked(p)') \in Nat
    BY OwnedFinite, FS_Subset, FS_CardinalityType
<1>3. Cardinality(Owned(p)) + Cardinality(Checked(p)) <= Bound(p)
    BY DEF CapacityInv, RoomFor
<1>4. Cardinality(Owned(p)') + Cardinality(Checked(p)') <= Bound(p)'
    BY <1>1, <1>2, <1>3, OwnedFinite
<1> QED
    BY <1>4 DEF RoomFor

\* One more row.
LEMMA OneMoreOwned ==
    ASSUME NEW p, NEW c
    PROVE  /\ IsFiniteSet(Owned(p) \cup {c})
           /\ Cardinality(Owned(p) \cup {c}) <= Cardinality(Owned(p)) + 1
<1>1. /\ IsFiniteSet(Owned(p) \cup {c})
      /\ Cardinality(Owned(p) \cup {c}) =
            IF c \in Owned(p) THEN Cardinality(Owned(p)) ELSE Cardinality(Owned(p)) + 1
    BY OwnedFinite, FS_AddElement
<1>2. Cardinality(Owned(p)) \in Nat
    BY OwnedFinite
<1> QED
    BY <1>1, <1>2

\* So does one that takes a place which was checked for.
LEMMA TakenHasRoom ==
    ASSUME CapacityInv, NEW p \in Places, NEW q \in Checked(p), NEW c \in Creators,
           Owned(p)' \subseteq Owned(p) \cup {c}, Checked(p)' \subseteq Checked(p) \ {q},
           Bound(p) \in Int, Bound(p)' \in Int, Bound(p) <= Bound(p)'
    PROVE  RoomFor(p)'
<1>1. Cardinality(Owned(p)') <= Cardinality(Owned(p)) + 1 /\ Cardinality(Owned(p)') \in Nat
    <2>1. IsFiniteSet(Owned(p) \cup {c}) /\ Cardinality(Owned(p) \cup {c}) <= Cardinality(Owned(p)) + 1
        BY OneMoreOwned
    <2>2. /\ IsFiniteSet(Owned(p)')
          /\ Cardinality(Owned(p)') <= Cardinality(Owned(p) \cup {c})
        BY <2>1, FS_Subset
    <2>3. Cardinality(Owned(p)') \in Nat /\ Cardinality(Owned(p) \cup {c}) \in Nat
        BY <2>1, <2>2, FS_CardinalityType
    <2> QED
        BY <2>1, <2>2, <2>3, OwnedFinite
<1>2. Cardinality(Checked(p)') <= Cardinality(Checked(p)) - 1 /\ Cardinality(Checked(p)') \in Nat
    <2>1. IsFiniteSet(Checked(p) \ {q}) /\ Cardinality(Checked(p) \ {q}) = Cardinality(Checked(p)) - 1
        BY OwnedFinite, FS_RemoveElement
    <2> QED
        BY <2>1, FS_Subset, FS_CardinalityType
<1>3. Cardinality(Owned(p)) + Cardinality(Checked(p)) <= Bound(p)
    BY DEF CapacityInv, RoomFor
<1>4. Cardinality(Owned(p)') + Cardinality(Checked(p)') <= Bound(p)'
    BY <1>1, <1>2, <1>3, OwnedFinite
<1> QED
    BY <1>4 DEF RoomFor

\* No step of a request leaves a place without the room it needs.
LEMMA CatalogueNextRoom ==
    ASSUME CatalogueTypeOK, Placed, CapacityInv, [CatalogueNext]_catalogueVars, NEW p \in Places
    PROVE  RoomFor(p)'
<1>1. p # NoPlace
    BY CatalogueAssumption DEF Places, NoPlace
<1>7. Bound(p) \in Int /\ Bound(p)' \in Int /\ Bound(p) <= Bound(p)'
    BY CatalogueNextType, MostGrows, BoundGrows
<1>2. CASE (\A c \in Creators : KeptRow(c)) /\ (\A r \in Requests : StaysOrEnds(r))
    <2>1. Owned(p)' \subseteq Owned(p)
        BY <1>1, <1>2 DEF Owned, KeptRow, In
    <2>2. Checked(p)' \subseteq Checked(p)
        BY <1>2 DEF Checked, Waits, StaysOrEnds, NoRequest
    <2> QED
        BY <1>7, <2>1, <2>2, FewerHaveRoom
<1>3. ASSUME NEW q \in Requests, NEW x \in Places, FindsRoom(q, x) PROVE RoomFor(p)'
    <2>1. Owned(p)' = Owned(p)
        BY <1>3 DEF FindsRoom, Owned, Row, In
    <2>2. CASE p # x
        <3>1. Checked(p)' \subseteq Checked(p)
            BY <1>3, <2>2 DEF FindsRoom, Checked, Waits
        <3> QED
            BY <1>7, <2>1, <3>1, FewerHaveRoom
    <2>3. CASE p = x
        <3> DEFINE waiting == Checked(p) \ {q}
        <3>1. Cardinality(Owned(p)) + Cardinality(waiting) + 1 <= Bound(p)
            BY <1>3, <2>3, RoomIsThere DEF FindsRoom
        <3>2. Checked(p)' = waiting \cup {q}
            BY <1>3, <2>3 DEF FindsRoom, Checked, Waits
        <3>3. IsFiniteSet(waiting) /\ Cardinality(waiting) \in Nat
            BY RequestsFinite DEF Checked
        <3>4. Cardinality(waiting \cup {q}) = Cardinality(waiting) + 1
            BY <3>3, FS_AddElement
        <3> HIDE DEF waiting
        <3>5. Cardinality(Owned(p)) + Cardinality(Checked(p)') <= Bound(p)'
            BY <1>7, <3>1, <3>2, <3>3, <3>4, OwnedFinite
        <3> QED
            BY <2>1, <3>5 DEF RoomFor
    <2> QED
        BY <2>2, <2>3
<1>4. ASSUME NEW q \in Requests, NEW c \in Creators, NEW info \in Infos, Inserts(q, c, info)
      PROVE  RoomFor(p)'
    <2> DEFINE x == request[q].place
    <2>1. x \in Places
        BY <1>4, RequestFields, StageIsIdle DEF Inserts, AddInserts, BatchInserts
    <2>2. Owned(p)' \subseteq Owned(p) \cup {c} /\ (p # x => Owned(p)' \subseteq Owned(p))
        <3>1. Flush(q, c, x, info)
            BY <1>4 DEF Inserts
        <3>2. creator'[c] = [life |-> "flushed", by |-> q, info |-> info, uid |-> info.uid,
                             group |-> IF x \in Groups THEN x ELSE NoPlace,
                             collection |-> IF x \in Collections THEN x ELSE NoPlace]
            BY <2>1, <3>1, FlushRows
        <3>3. \A d \in Creators \ {c} : creator'[d] = creator[d]
            BY <2>1, <3>1, FlushRows
        <3>4. creator'[c].group \in {x, NoPlace} /\ creator'[c].collection \in {x, NoPlace}
            BY <3>2
        <3> HIDE DEF x
        <3> QED
            BY <1>1, <3>3, <3>4 DEF Owned, Row, In
    <2>3. CASE AddInserts(q, c)
        <3>1. request'[q].stage = "flushed" /\ request[q].stage = "room"
              /\ \A r \in Requests \ {q} : request'[r] = request[r]
            BY <2>3 DEF AddInserts, CatalogueTypeOK
        <3>2. Checked(p)' \subseteq Checked(p) \ {q}
            BY <3>1 DEF Checked, Waits
        <3>3. CASE p = x
            <4>1. q \in Checked(p)
                BY <3>1, <3>3 DEF Checked, Waits
            <4> QED
                BY <1>7, <2>2, <3>2, <4>1, TakenHasRoom
        <3>4. CASE p # x
            BY <1>7, <2>2, <3>2, <3>4, FewerHaveRoom
        <3> QED
            BY <3>3, <3>4
    <2>4. CASE BatchInserts(q, c, info)
        <3>1. request' = request /\ request[q].stage = "flushed" /\ HasRoom(q, x)
            BY <2>4 DEF BatchInserts
        <3>2. Checked(p)' = Checked(p)
            BY <3>1 DEF Checked, Waits
        <3>3. CASE p = x
            <4>1. Cardinality(Owned(p)) + Cardinality(Checked(p) \ {q}) + 1 <= Bound(p)
                BY <3>1, <3>3, RoomIsThere
            <4>2. Checked(p) \ {q} = Checked(p)
                BY <3>1 DEF Checked, Waits
            <4>3. IsFiniteSet(Owned(p) \cup {c}) /\ Cardinality(Owned(p) \cup {c}) <= Cardinality(Owned(p)) + 1
                BY OneMoreOwned
            <4>4. IsFiniteSet(Owned(p)') /\ Cardinality(Owned(p)') <= Cardinality(Owned(p) \cup {c})
                BY <2>2, <4>3, FS_Subset
            <4>5. Cardinality(Owned(p)') \in Nat /\ Cardinality(Owned(p) \cup {c}) \in Nat
                BY <4>3, <4>4, FS_CardinalityType
            <4>6. Cardinality(Owned(p)') + Cardinality(Checked(p)) <= Bound(p)'
                BY <1>7, <4>1, <4>2, <4>3, <4>4, <4>5, OwnedFinite
            <4> QED
                BY <3>2, <4>6 DEF RoomFor
        <3>4. CASE p # x
            BY <1>7, <2>2, <3>2, <3>4, FewerHaveRoom
        <3> QED
            BY <3>3, <3>4
    <2> QED
        BY <1>4, <2>3, <2>4 DEF Inserts
<1>5. ASSUME NEW q \in Requests, MoveCommits(q) PROVE RoomFor(p)'
    <2> DEFINE m == request[q].creator
               g == request[q].place
    <2>1. m \in Creators /\ g \in Groups /\ request[q].stage = "move"
        BY <1>5, RequestFields, StageIsIdle DEF MoveCommits
    <2>2. \A c \in Creators : \/ creator'[c] = creator[c]
                              \/ c = m /\ Live(m) /\ creator'[c] = [creator[m] EXCEPT !.group = g]
        BY <1>5, <2>1 DEF MoveCommits, CatalogueTypeOK
    <2>3. Live(m) => creator[m] \in LiveRows
        BY <2>1, RowFields
    <2>4. Checked(p)' \subseteq Checked(p) \ {q}
        BY <1>5 DEF MoveCommits, Ends, CatalogueTypeOK, Checked, Waits, NoRequest
    <2>5. p = g => q \in Checked(p)
        BY <2>1 DEF Checked, Waits
    <2> HIDE DEF m, g
    <2>6. Owned(p)' \subseteq Owned(p) \cup {m}
        BY <2>2 DEF Owned, Row, In
    <2>7. ASSUME p # g, NEW c \in Owned(p)' PROVE c \in Owned(p)
        <3>1. CASE creator'[c] = creator[c]
            BY <2>7, <3>1 DEF Owned, Row, In
        <3>2. CASE c = m /\ Live(m) /\ creator'[c] = [creator[m] EXCEPT !.group = g]
            <4>1. creator'[c].group = g /\ creator'[c].collection = creator[c].collection
                BY <2>3, <3>2 DEF LiveRows
            <4> QED
                BY <2>1, <2>7, <3>2, <4>1 DEF Owned, Row, In, Live
        <3>3. c \in Creators
            BY <2>7 DEF Owned
        <3> QED
            BY <2>2, <3>1, <3>2, <3>3
    <2> QED
        BY <1>7, <2>1, <2>4, <2>5, <2>6, <2>7, TakenHasRoom, FewerHaveRoom
<1>6. ASSUME NEW q \in Requests, NEW c \in Creators, AddInserts(q, c) PROVE RoomFor(p)'
    <2>1. request[q].info \in Infos
        BY <1>6, RequestFields, StageIsIdle DEF AddInserts
    <2> QED
        BY <1>4, <1>6, <2>1 DEF AddInserts, Inserts
<1> QED
    BY <1>2, <1>3, <1>4, <1>5, <1>6, StepRows, StepRequests

\* No step makes a request flush more rows than it may.
LEMMA CatalogueNextFew ==
    ASSUME CatalogueTypeOK, Placed, CapacityInv, [CatalogueNext]_catalogueVars, NEW r \in Requests
    PROVE  FewFlushed(r)'
<1>7. \A p \in Places : Limit(p) \in Nat /\ Limit(p)' \in Nat /\ Limit(p) <= Limit(p)'
    BY CatalogueNextType, MostGrows, BoundGrows
<1>1. ASSUME Flushed(r)' \subseteq Flushed(r), request'[r] = request[r] \/ request'[r].stage # "flushed"
      PROVE  FewFlushed(r)'
    <2>1. SUFFICES ASSUME request'[r].stage = "flushed" PROVE FewFlushed(r)'
        BY DEF FewFlushed
    <2>2. request'[r] = request[r]
        BY <1>1, <2>1
    <2>3. Flushed(r) \in SUBSET Creators /\ Flushed(r)' \in SUBSET Creators
        BY DEF Flushed
    <2>4. Cardinality(Flushed(r)') <= Cardinality(Flushed(r))
        BY <1>1, <2>3, CreatorsFinite, FS_Subset
    <2>5. PICK p \in Places : p = request[r].place
        BY <2>1, <2>2, RequestFields, StageIsIdle
    <2>6. Cardinality(Flushed(r)) <= Limit(p)
        BY <2>1, <2>2, <2>5 DEF CapacityInv, FewFlushed
    <2>7. Cardinality(Flushed(r)') <= Limit(p)'
        BY <1>7, <2>3, <2>4, <2>5, <2>6, CreatorsFinite
    <2> QED
        BY <2>2, <2>5, <2>7 DEF FewFlushed, Limit
<1>2. CASE (\A c \in Creators : KeptRow(c)) /\ (\A q \in Requests : StaysOrEnds(q))
    <2>1. Flushed(r)' \subseteq Flushed(r)
        BY <1>2 DEF KeptRow, Row, Flushed
    <2>2. request'[r] = request[r] \/ request'[r].stage # "flushed"
        BY <1>2 DEF StaysOrEnds, NoRequest
    <2> QED
        BY <1>1, <2>1, <2>2
<1>3. ASSUME NEW q \in Requests, NEW x \in Places, FindsRoom(q, x) PROVE FewFlushed(r)'
    BY <1>1, <1>3 DEF FindsRoom, Flushed
<1>4. ASSUME NEW q \in Requests, NEW c \in Creators, NEW info \in Infos, Inserts(q, c, info)
      PROVE  FewFlushed(r)'
    <2> DEFINE x == request[q].place
    <2>1. x \in Places
        BY <1>4, RequestFields, StageIsIdle DEF Inserts, AddInserts, BatchInserts
    <2>2. Flush(q, c, x, info)
        BY <1>4 DEF Inserts
    <2>3. creator'[c].life = "flushed" /\ creator'[c].by = q
        BY <2>1, <2>2, FlushFields
    <2>4. \A d \in Creators \ {c} : creator'[d] = creator[d]
        BY <2>1, <2>2, FlushRows
    <2>5. request'[q].place = x /\ \A s \in Requests \ {q} : request'[s] = request[s]
        BY <1>4 DEF Inserts, AddInserts, BatchInserts, CatalogueTypeOK
    <2>6. CASE r # q
        <3>1. Flushed(r)' \subseteq Flushed(r)
            BY <2>3, <2>4, <2>6 DEF Flushed
        <3> QED
            BY <1>1, <2>5, <2>6, <3>1
    <2>7. CASE r = q
        <3>1. Flushed(q) \in SUBSET Creators /\ Flushed(q)' \subseteq Flushed(q) \cup {c}
            BY <2>3, <2>4 DEF Flushed
        <3>2. Cardinality(Flushed(q)) + 1 <= Limit(x)
            <4>1. CASE AddInserts(q, c)
                <5>1. Flushed(q) = {}
                    BY <4>1 DEF AddInserts, Placed, FiledFor, Flushed
                <5>2. 1 <= most[x] /\ 1 <= MaxBatch
                    BY <4>1, CatalogueAssumption DEF AddInserts, CapacityInv, HadRoom, Waits
                <5>3. Cardinality(Flushed(q)) = 0
                    BY <5>1, FS_EmptySet
                <5> HIDE DEF x
                <5> QED
                    BY <2>1, <5>2, <5>3, LimitIsNat
            <4>2. CASE BatchInserts(q, c, info)
                <5> DEFINE seen == {d \in Seen(q) : In(d, x)}
                <5>1. /\ Cardinality(Flushed(q)) < MaxBatch /\ Cardinality(seen) < cap[x]
                      /\ cap[x] <= most[x]
                    BY <2>1, <4>2 DEF BatchInserts, HasRoom, CapacityInv, CapIsSeen
                <5>2. Flushed(q) \subseteq seen
                    BY <4>2 DEF BatchInserts, Seen, Flushed, In, Placed, FiledFor
                <5>3. seen \in SUBSET Creators
                    BY DEF Seen, Flushed
                <5>4. Cardinality(Flushed(q)) <= Cardinality(seen)
                    BY <5>2, <5>3, CreatorsFinite, FS_Subset
                <5>5. Cardinality(Flushed(q)) \in Nat /\ Cardinality(seen) \in Nat
                    BY <3>1, <5>3, CreatorsFinite
                <5> HIDE DEF seen, x
                <5>6. Cardinality(Flushed(q)) < most[x]
                    BY <2>1, <5>1, <5>4, <5>5, LimitIsNat
                <5> QED
                    BY <2>1, <5>1, <5>5, <5>6, LimitIsNat
            <4> QED
                BY <1>4, <4>1, <4>2 DEF Inserts
        <3>3. IsFiniteSet(Flushed(q)) /\ Cardinality(Flushed(q)) \in Nat
            BY <3>1, CreatorsFinite
        <3>4. /\ IsFiniteSet(Flushed(q) \cup {c})
              /\ Cardinality(Flushed(q) \cup {c}) =
                    IF c \in Flushed(q) THEN Cardinality(Flushed(q)) ELSE Cardinality(Flushed(q)) + 1
            BY <3>3, FS_AddElement
        <3>5. Cardinality(Flushed(q)') <= Cardinality(Flushed(q) \cup {c})
            BY <3>1, <3>4, FS_Subset
        <3>6. Cardinality(Flushed(q)') \in Nat
            BY <3>1, <3>4, FS_Subset, FS_CardinalityType
        <3>7. PICK p \in Places : p = x
            BY <2>1
        <3>8. Cardinality(Flushed(q)') <= Limit(p)'
            <4> HIDE DEF x
            <4> QED
                BY <1>7, <3>2, <3>3, <3>4, <3>5, <3>6, <3>7
        <3>9. request'[q].place = p
            BY <2>5, <3>7
        <3> QED
            BY <2>7, <3>8, <3>9 DEF FewFlushed, Limit
    <2> QED
        BY <2>6, <2>7
<1>5. ASSUME NEW q \in Requests, MoveCommits(q) PROVE FewFlushed(r)'
    <2> DEFINE m == request[q].creator
    <2>1. m \in Creators
        BY <1>5, RequestFields, StageIsIdle DEF MoveCommits
    <2>2. \A c \in Creators : \/ creator'[c] = creator[c]
                              \/ c = m /\ Live(m) /\ creator'[c] = [creator[m] EXCEPT !.group = request[q].place]
        BY <1>5, <2>1 DEF MoveCommits, CatalogueTypeOK
    <2>3. Live(m) => creator[m] \in LiveRows
        BY <2>1, RowFields
    <2>4. request'[r] = request[r] \/ request'[r].stage # "flushed"
        BY <1>5 DEF MoveCommits, Ends, NoRequest, CatalogueTypeOK
    <2> HIDE DEF m
    <2>5. ASSUME NEW c \in Flushed(r)' PROVE c \in Flushed(r)
        BY <2>2, <2>3, <2>5 DEF Flushed, LiveRows
    <2> QED
        BY <1>1, <2>4, <2>5
<1>6. ASSUME NEW q \in Requests, NEW c \in Creators, AddInserts(q, c) PROVE FewFlushed(r)'
    <2>1. request[q].info \in Infos
        BY <1>6, RequestFields, StageIsIdle DEF AddInserts
    <2> QED
        BY <1>4, <1>6, <2>1 DEF AddInserts, Inserts
<1> QED
    BY <1>2, <1>3, <1>4, <1>5, <1>6, StepRows, StepRequests

\* A request that waits for its place has found one, and the limit is no more
\* than the largest there has been.
LEMMA CatalogueNextHad ==
    ASSUME CatalogueTypeOK, CapacityInv, [CatalogueNext]_catalogueVars
    PROVE  (\A r \in Requests : HadRoom(r)') /\ (\A p \in Places : CapIsSeen(p)')
<1>1. \A p \in Places : /\ most[p] \in Nat /\ most'[p] \in Nat /\ cap[p] \in Nat
                        /\ most[p] <= most'[p] /\ CapIsSeen(p)'
    <2>1. CatalogueTypeOK'
        BY CatalogueNextType
    <2>2. \A p \in Places : most[p] <= most'[p] /\ CapIsSeen(p)'
        BY <2>1, MostGrows DEF CapacityInv
    <2>3. (CatalogueTypeOK => most \in [Places -> Nat])'
        BY CapIsNat, PTL
    <2> QED
        BY <2>1, <2>2, <2>3, CapIsNat
<1>2. ASSUME NEW r \in Requests, Waits(r)', request'[r] = request[r] PROVE HadRoom(r)'
    <2>1. request[r].place \in Places /\ 1 <= most[request[r].place]
        BY <1>2, RequestFields, StageIsIdle DEF Waits, CapacityInv, HadRoom
    <2> QED
        BY <1>1, <1>2, <2>1 DEF HadRoom
<1>3. ASSUME NEW r \in Requests, StaysOrEnds(r) PROVE HadRoom(r)'
    BY <1>2, <1>3 DEF StaysOrEnds, HadRoom, Waits, NoRequest
<1>4. ASSUME NEW q \in Requests, NEW p \in Places, FindsRoom(q, p), NEW r \in Requests
      PROVE  HadRoom(r)'
    <2>1. CASE r = q
        <3> DEFINE seen == {c \in Seen(q) : In(c, p)}
        <3>1. Cardinality(seen) < cap[p] /\ cap[p] <= most[p]
            BY <1>4 DEF FindsRoom, HasRoom, CapacityInv, CapIsSeen
        <3>2. Cardinality(seen) \in Nat
            BY CreatorsFinite DEF Seen, Flushed
        <3> HIDE DEF seen
        <3>3. 1 <= most'[p]
            BY <1>1, <3>1, <3>2
        <3> QED
            BY <1>4, <2>1, <3>3 DEF FindsRoom, HadRoom
    <2>2. CASE r # q
        BY <1>2, <1>4, <2>2 DEF FindsRoom, HadRoom
    <2> QED
        BY <2>1, <2>2
<1>5. ASSUME NEW q \in Requests, NEW c \in Creators, AddInserts(q, c), NEW r \in Requests
      PROVE  HadRoom(r)'
    <2>1. request'[q].stage = "flushed" /\ \A x \in Requests \ {q} : request'[x] = request[x]
        BY <1>5 DEF AddInserts, CatalogueTypeOK
    <2> QED
        BY <1>2, <2>1 DEF HadRoom, Waits
<1> QED
    BY <1>1, <1>3, <1>4, <1>5, StepRequests

\* The bound on what is filed under a place follows.
LEMMA CapacityFollows == CatalogueTypeOK /\ CapacityInv => CapacityHolds
<1> SUFFICES ASSUME CatalogueTypeOK, CapacityInv, NEW p \in Places
             PROVE  Cardinality(Under(p)) <= Bound(p)
    BY DEF CapacityHolds, Bound, Limit
<1>1. Under(p) \in SUBSET Owned(p)
    BY DEF Under, Owned, Row, Live
<1>2. Cardinality(Under(p)) <= Cardinality(Owned(p)) /\ Cardinality(Under(p)) \in Nat
    BY <1>1, OwnedFinite, FS_Subset, FS_CardinalityType
<1>3. Cardinality(Owned(p)) + Cardinality(Checked(p)) <= Bound(p) /\ Bound(p) \in Int
    BY BoundIsInt DEF CapacityInv, RoomFor
<1> QED
    BY <1>2, <1>3, OwnedFinite

\* Requests that overlap put a place over the largest limit it has had by no
\* more than each of the others may add, for all limits and changes of them, sizes
\* of a batch and numbers of requests.
THEOREM CapacityCorrect == CatalogueSpec => []CapacityHolds
<1>1. CatalogueInit => Placed
    BY DEF CatalogueInit, Placed, FiledFor, NoBusiness, Idle, NoCreator
<1>2. ASSUME CatalogueInit PROVE CapacityInv
    <2>1. \A q \in Requests : FewFlushed(q) /\ HadRoom(q)
        BY <1>2 DEF CatalogueInit, FewFlushed, HadRoom, Waits, NoRequest
    <2>2. ASSUME NEW p \in Places PROVE RoomFor(p) /\ CapIsSeen(p)
        <3>1. Owned(p) = {} /\ Checked(p) = {} /\ cap[p] = 0 /\ most[p] = 0
            BY <1>2 DEF CatalogueInit, Owned, Row, Checked, Waits, NoCreator, NoRequest
        <3>2. Cardinality(Owned(p)) = 0 /\ Cardinality(Checked(p)) = 0
            BY <3>1, FS_EmptySet
        <3>3. Limit(p) = 0
            BY <3>1, CatalogueAssumption DEF Limit
        <3>4. Bound(p) = 0
            BY <3>1, <3>3, RequestsFinite DEF Bound
        <3> QED
            BY <3>1, <3>2, <3>4 DEF RoomFor, CapIsSeen
    <2> QED
        BY <2>1, <2>2 DEF CapacityInv
<1>3. CatalogueTypeOK /\ Placed /\ CapacityInv /\ [CatalogueNext]_catalogueVars => CapacityInv'
    BY CatalogueNextRoom, CatalogueNextFew, CatalogueNextHad DEF CapacityInv
<1> QED
    BY <1>1, <1>2, <1>3, CatalogueTypeCorrect, CatalogueNextPlaced, CapacityFollows, PTL
    DEF CatalogueSpec

-----------------------------------------------------------------------------
(* VideoRefs.                                                              *)

\* The ids are numbers.
LEMMA IdsAreNumbers == Ids \subseteq Nat \ {0}
<1>1. Cardinality(Ids) \in Nat
    BY VideoRefsAssumption, FS_CardinalityType
<1> QED
    BY <1>1, VideoRefsAssumption

\* Typing: every step of VideoRefs preserves RefsTypeOK.
LEMMA RefsNextType == RefsTypeOK /\ [RefsNext]_refVars => RefsTypeOK'
<1> SUFFICES ASSUME RefsTypeOK, [RefsNext]_refVars PROVE RefsTypeOK'
    OBVIOUS
<1> USE DEF RefsTypeOK
<1>1. CASE StoreVideo
    BY <1>1 DEF StoreVideo
<1>2. ASSUME NEW ns \in SUBSET Ids, DeleteVideos(ns) PROVE RefsTypeOK'
    BY <1>2 DEF DeleteVideos
<1>3. ASSUME NEW r \in Clients, NEW ref \in Refs, LookUp(r, ref) PROVE RefsTypeOK'
    BY <1>3 DEF LookUp
<1>4. ASSUME NEW r \in Clients, Insert(r) PROVE RefsTypeOK'
    BY <1>4 DEF Insert, NoClient
<1>5. ASSUME NEW kind \in RefKinds, NEW user \in Users, NEW ns \in SUBSET Ids,
             RemoveRefs(kind, user, ns)
      PROVE  RefsTypeOK'
    BY <1>5 DEF RemoveRefs
<1>6. CASE UNCHANGED refVars
    BY <1>6 DEF refVars
<1> QED
    BY <1>1, <1>2, <1>3, <1>4, <1>5, <1>6 DEF RefsNext

\* Type correctness of VideoRefs.
THEOREM RefsTypeCorrect == RefsSpec => []RefsTypeOK
<1>1. RefsInit => RefsTypeOK
    BY DEF RefsInit, RefsTypeOK, NoClient
<1> QED
    BY <1>1, RefsNextType, PTL DEF RefsSpec

-----------------------------------------------------------------------------
(* DramaStats.                                                             *)

(* What a transaction still has to recount.                                *)

\* A finite set in some order.
LEMMA SetInOrder ==
    ASSUME NEW names, IsFiniteSet(names)
    PROVE  SetToSeq(names) \in Seq(names) /\ ToSet(SetToSeq(names)) = names
<1> DEFINE n == Cardinality(names)
           f == SetToSeq(names)
<1>1. n \in Nat /\ ExistsBijection(1 .. n, names)
    BY FS_CardinalityType
<1>2. \E g \in [1 .. n -> names] : IsInjective(g)
    BY <1>1 DEF ExistsBijection, Bijection, Injection, IsInjective
<1>3. f \in [1 .. n -> names] /\ IsInjective(f)
    BY <1>2 DEF SetToSeq
<1> HIDE DEF f
<1>4. ToSet(f) \in SUBSET names /\ f \in Bijection(1 .. n, ToSet(f))
    BY <1>3 DEF ToSet, Bijection, Injection, Surjection, IsInjective
<1>5. Cardinality(ToSet(f)) = n
    BY <1>1, <1>4, FS_CountingElements DEF ExistsBijection
<1>6. ToSet(f) = names
    BY <1>4, <1>5, FS_Subset
<1>7. f \in Seq(names)
    BY <1>1, <1>3
<1> QED
    BY <1>6, <1>7 DEF f

\* The head is taken off: the others stay.
LEMMA HeadTaken ==
    ASSUME NEW todo \in Seq(Dramas), todo # <<>>
    PROVE  /\ Head(todo) \in Dramas /\ Head(todo) \in ToSet(todo)
           /\ Tail(todo) \in Seq(Dramas)
           /\ ToSet(todo) = {Head(todo)} \cup ToSet(Tail(todo))
<1>1. /\ Head(todo) = todo[1] /\ Len(todo) \in Nat /\ Len(todo) >= 1
      /\ Tail(todo) \in Seq(Dramas) /\ Len(Tail(todo)) = Len(todo) - 1
      /\ \A i \in 1 .. Len(Tail(todo)) : Tail(todo)[i] = todo[i + 1]
      /\ Head(todo) \in Dramas
    BY HeadTailProperties
<1>2. /\ ToSet(todo) = {todo[i] : i \in 1 .. Len(todo)}
      /\ ToSet(Tail(todo)) = {Tail(todo)[i] : i \in 1 .. Len(Tail(todo))}
    <2>1. DOMAIN todo = 1 .. Len(todo) /\ DOMAIN Tail(todo) = 1 .. Len(Tail(todo))
        BY <1>1
    <2> QED
        BY <2>1 DEF ToSet
<1>3. \A i \in 1 .. Len(todo) : todo[i] = Head(todo) \/ todo[i] \in ToSet(Tail(todo))
    <2>1. ASSUME NEW i \in 1 .. Len(todo), i # 1 PROVE todo[i] \in ToSet(Tail(todo))
        <3>1. i - 1 \in 1 .. Len(Tail(todo)) /\ Tail(todo)[i - 1] = todo[(i - 1) + 1]
            BY <1>1, <2>1
        <3>2. (i - 1) + 1 = i
            OBVIOUS
        <3> QED
            BY <1>2, <3>1, <3>2
    <2> QED
        BY <1>1, <2>1
<1>4. ToSet(Tail(todo)) \subseteq ToSet(todo)
    <2>1. \A i \in 1 .. Len(Tail(todo)) : i + 1 \in 1 .. Len(todo)
        BY <1>1
    <2> QED
        BY <1>1, <1>2, <2>1
<1> QED
    BY <1>1, <1>2, <1>3, <1>4

\* Two sequences joined.
LEMMA JoinedNames ==
    ASSUME NEW s \in Seq(Dramas), NEW t \in Seq(Dramas)
    PROVE  ToSet(s \o t) = ToSet(s) \cup ToSet(t)
<1> DEFINE st == s \o t
<1>1. /\ st \in Seq(Dramas) /\ Len(s) \in Nat /\ Len(t) \in Nat /\ Len(st) = Len(s) + Len(t)
      /\ \A i \in 1 .. Len(st) : st[i] = IF i <= Len(s) THEN s[i] ELSE t[i - Len(s)]
    BY ConcatProperties
<1>2. DOMAIN s = 1 .. Len(s) /\ DOMAIN t = 1 .. Len(t) /\ DOMAIN st = 1 .. Len(st)
    BY <1>1
<1> HIDE DEF st
<1>3. \A i \in 1 .. Len(s) : i \in 1 .. Len(st) /\ st[i] = s[i]
    BY <1>1
<1>4. \A i \in 1 .. Len(t) : i + Len(s) \in 1 .. Len(st) /\ st[i + Len(s)] = t[i]
    <2> SUFFICES ASSUME NEW i \in 1 .. Len(t)
                 PROVE  i + Len(s) \in 1 .. Len(st) /\ st[i + Len(s)] = t[i]
        OBVIOUS
    <2>1. i + Len(s) \in 1 .. Len(st) /\ ~ (i + Len(s) <= Len(s)) /\ (i + Len(s)) - Len(s) = i
        BY <1>1
    <2> QED
        BY <1>1, <2>1
<1>5. \A i \in 1 .. Len(st) : i \in 1 .. Len(s) \/ i - Len(s) \in 1 .. Len(t)
    BY <1>1
<1>6. \A x : x \in ToSet(s) <=> \E i \in 1 .. Len(s) : x = s[i]
    BY <1>2 DEF ToSet
<1>7. \A x : x \in ToSet(t) <=> \E i \in 1 .. Len(t) : x = t[i]
    BY <1>2 DEF ToSet
<1>8. \A x : x \in ToSet(st) <=> \E i \in 1 .. Len(st) : x = st[i]
    BY <1>2 DEF ToSet
<1>9. ASSUME NEW x \in ToSet(st) PROVE x \in ToSet(s) \cup ToSet(t)
    <2>1. PICK i \in 1 .. Len(st) : x = st[i]
        BY <1>8, <1>9
    <2>2. CASE i <= Len(s)
        BY <1>1, <1>6, <2>1, <2>2
    <2>3. CASE ~ (i <= Len(s))
        <3>1. i - Len(s) \in 1 .. Len(t) /\ st[i] = t[i - Len(s)]
            BY <1>1, <2>3
        <3> QED
            BY <1>7, <2>1, <3>1
    <2> QED
        BY <2>2, <2>3
<1>10. ToSet(s) \cup ToSet(t) \subseteq ToSet(st)
    BY <1>3, <1>4, <1>6, <1>7, <1>8
<1> QED
    BY <1>9, <1>10 DEF st

\* The counted names of an annotation.
LEMMA RecountNames ==
    ASSUME NEW prior, NEW new
    PROVE  /\ ToRecount(prior, new) \in Seq(Dramas)
           /\ ToSet(ToRecount(prior, new)) = {prior, new} \cap Dramas
<1> DEFINE first == IF prior # new THEN CountedOnly(prior) ELSE <<>>
<1>1. \A name : /\ CountedOnly(name) \in Seq(Dramas)
               /\ ToSet(CountedOnly(name)) = {name} \cap Dramas
    <2>1. \A name \in Dramas : CountedOnly(name) = <<name>>
        BY DEF CountedOnly
    <2>2. \A name : name \notin Dramas => CountedOnly(name) = <<>>
        BY DEF CountedOnly
    <2>3. ToSet(<<>>) = {} /\ <<>> \in Seq(Dramas)
        BY DEF ToSet
    <2>4. \A name \in Dramas : ToSet(<<name>>) = {name} /\ <<name>> \in Seq(Dramas)
        BY DEF ToSet
    <2> SUFFICES ASSUME NEW name
                 PROVE  /\ CountedOnly(name) \in Seq(Dramas)
                        /\ ToSet(CountedOnly(name)) = {name} \cap Dramas
        OBVIOUS
    <2>5. CASE name \in Dramas
        <3>1. CountedOnly(name) = <<name>>
            BY <2>1, <2>5
        <3>2. ToSet(CountedOnly(name)) = {name} /\ CountedOnly(name) \in Seq(Dramas)
            BY <2>4, <2>5, <3>1
        <3> QED
            BY <2>5, <3>2
    <2>6. CASE name \notin Dramas
        <3>1. CountedOnly(name) = <<>>
            BY <2>2, <2>6
        <3> QED
            BY <2>3, <2>6, <3>1
    <2> QED
        BY <2>5, <2>6
<1>2. first \in Seq(Dramas) /\ (prior # new => ToSet(first) = {prior} \cap Dramas)
        /\ (prior = new => ToSet(first) = {})
    <2>1. ToSet(<<>>) = {} /\ <<>> \in Seq(Dramas)
        BY DEF ToSet
    <2> QED
        BY <1>1, <2>1
<1>3. ToRecount(prior, new) = first \o CountedOnly(new)
    BY DEF ToRecount
<1> HIDE DEF first
<1>4. first \o CountedOnly(new) \in Seq(Dramas)
    BY <1>1, <1>2
<1>5. ToSet(first \o CountedOnly(new)) = ToSet(first) \cup ToSet(CountedOnly(new))
    BY <1>1, <1>2, JoinedNames
<1> QED
    BY <1>1, <1>2, <1>3, <1>4, <1>5

\* Names that some video has are finitely many.
LEMMA NamesFinite ==
    ASSUME NEW r, NEW names, names \subseteq {r[v] : v \in Videos}
    PROVE  IsFiniteSet(names)
<1> DEFINE vs == {v \in Videos : r[v] \in names}
           f == [v \in vs |-> r[v]]
<1>1. IsFiniteSet(vs)
    BY DramaAssumption, FS_Subset
<1>2. f \in Surjection(vs, names)
    BY DEF Surjection
<1> QED
    BY <1>1, <1>2, FS_Surjection

\* A count is one of the counts, and a drama of no video counts none.
LEMMA CountsAreCounts ==
    ASSUME NEW r, NEW d
    PROVE  CountOf(r, d) \in Counts /\ (CountOf(r, d) > 0 => \E v \in Videos : r[v] = d)
<1> DEFINE vs == {v \in Videos : r[v] = d}
<1>1. IsFiniteSet(Videos) /\ vs \in SUBSET Videos
    BY DramaAssumption
<1>2. Cardinality(vs) \in Nat /\ Cardinality(vs) <= Cardinality(Videos) /\ Cardinality(Videos) \in Nat
    BY <1>1, FS_Subset, FS_CardinalityType
<1>3. vs = {} => Cardinality(vs) = 0
    BY FS_EmptySet
<1> QED
    BY <1>2, <1>3 DEF CountOf, Counts

-----------------------------------------------------------------------------
(* Types.                                                                  *)

\* What is counted is the head of what is to recount; before the UPDATE nothing is.
Counting(t) ==
    /\ tx[t].stage = "read" => tx[t].count = NoCount /\ tx[t].write = {}
    /\ tx[t].count # NoCount => tx[t].todo # <<>>

DramaTypeInv == DramaTypeOK /\ \A t \in Txs : Open(t) => Counting(t)

\* An open transaction is an annotation or a rebuild.
LEMMA TxFields ==
    ASSUME DramaTypeOK, NEW t \in Txs
    PROVE  /\ ~Open(t) => tx[t] = Closed
           /\ Open(t) => tx[t] \in OpenTx \cup RebuildTx
           /\ tx[t].stage \in {"read", "flushed"} => Open(t) /\ tx[t] \in OpenTx
           /\ tx[t].stage = "rebuild" => Open(t) /\ tx[t] \in RebuildTx
           /\ Open(t) => /\ tx[t].stage \in {"read", "flushed", "rebuild"}
                         /\ tx[t].todo \in Seq(Dramas)
                         /\ tx[t].count \in Counts \cup {NoCount}
                         /\ tx[t].write \in SUBSET [name : Dramas, was : Counts, count : Counts]
                         /\ tx[t].held \in SUBSET Dramas /\ tx[t].lost \in SUBSET Dramas
BY DEF DramaTypeOK, Open, OpenTx, RebuildTx, Closed

\* No count is the absence of a count; none is a count.
LEMMA CountsBasic == 0 \in Counts /\ NoCount \notin Counts
<1>1. Cardinality(Videos) \in Nat
    BY DramaAssumption, FS_CardinalityType
<1> QED
    BY <1>1 DEF Counts, NoCount

\* What a transaction writes are numbers.
LEMMA WrittenType ==
    ASSUME DramaTypeOK, NEW t \in Txs, Open(t)
    PROVE  Written(t) \in [Dramas -> Counts]
<1> SUFFICES ASSUME NEW d \in Dramas PROVE Written(t)[d] \in Counts
    BY DEF Written
<1> DEFINE w == CHOOSE row \in tx[t].write : row.name = d
<1>1. tx[t].write \in SUBSET [name : Dramas, was : Counts, count : Counts]
    BY TxFields
<1>2. d \in Wrote(t) => w \in tx[t].write
    BY DEF Wrote
<1>3. d \in Wrote(t) => w.count \in Counts
    BY <1>1, <1>2
<1>4. stats[d] \in Counts /\ 0 \in Counts
    BY CountsBasic DEF DramaTypeOK
<1> QED
    BY <1>3, <1>4 DEF Written

\* Deletions are noticed by those who have read the rows.
LEMMA DeleteType ==
    ASSUME DramaTypeInv, NEW t \in Txs, tx' = Delete(t)
    PROVE  /\ tx' \in [Txs -> {Closed} \cup OpenTx \cup RebuildTx]
           /\ \A u \in Txs : Open(u)' => Open(u) /\ u # t /\ Counting(u)'
<1>1. ASSUME NEW u \in Txs, Open(u), u # t
      PROVE  tx'[u] \in OpenTx \cup RebuildTx /\ Counting(u)'
    <2> DEFINE more == {w.name : w \in {x \in tx[u].write :
                           x.was # 0 /\ (x.name \in tx[t].held \/ Written(t)[x.name] = 0)}}
    <2>1. tx[u] \in OpenTx \cup RebuildTx
        BY <1>1, TxFields DEF DramaTypeInv
    <2>2. more \in SUBSET Dramas
        BY <1>1, TxFields DEF DramaTypeInv
    <2>3. tx'[u] = [tx[u] EXCEPT !.lost = tx[u].lost \cup more]
        BY <1>1 DEF Delete
    <2> HIDE DEF more
    <2>4. tx'[u] \in OpenTx \cup RebuildTx
        BY <2>1, <2>2, <2>3 DEF OpenTx, RebuildTx
    <2>5. /\ tx'[u].stage = tx[u].stage /\ tx'[u].count = tx[u].count
          /\ tx'[u].write = tx[u].write /\ tx'[u].todo = tx[u].todo
        BY <2>1, <2>3 DEF OpenTx, RebuildTx
    <2> QED
        BY <1>1, <2>4, <2>5 DEF DramaTypeInv, Counting
<1>2. \A u \in Txs : u = t \/ ~Open(u) => tx'[u] = Closed
    BY DEF Delete, Open
<1> QED
    BY <1>1, <1>2 DEF Delete, Open

\* One transaction changes.
LEMMA OneChanges ==
    ASSUME DramaTypeInv, NEW t \in Txs, NEW new \in {Closed} \cup OpenTx \cup RebuildTx,
           tx' = [tx EXCEPT ![t] = new],
           new # Closed => /\ new.stage = "read" => new.count = NoCount /\ new.write = {}
                           /\ new.count # NoCount => new.todo # <<>>
    PROVE  /\ tx' \in [Txs -> {Closed} \cup OpenTx \cup RebuildTx]
           /\ \A u \in Txs : Open(u)' => Counting(u)'
<1>1. tx \in [Txs -> {Closed} \cup OpenTx \cup RebuildTx]
    BY DEF DramaTypeInv, DramaTypeOK
<1>2. tx'[t] = new /\ \A u \in Txs \ {t} : tx'[u] = tx[u]
    BY <1>1
<1> QED
    BY <1>1, <1>2 DEF DramaTypeInv, Open, Counting

\* Typing: every step preserves DramaTypeInv.
LEMMA DramaNextType == DramaTypeInv /\ [DramaNext]_dramaVars => DramaTypeInv'
<1> SUFFICES ASSUME DramaTypeInv, [DramaNext]_dramaVars PROVE DramaTypeInv'
    OBVIOUS
<1> DEFINE TxsOK == /\ tx' \in [Txs -> {Closed} \cup OpenTx \cup RebuildTx]
                    /\ \A u \in Txs : Open(u)' => Counting(u)'
           OthersOK == /\ stored' \in SUBSET Videos
                       /\ rec' \in [Videos -> Names \cup {NoRec}]
                       /\ stats' \in [Dramas -> Counts]
                       /\ dirt' \in [Txs -> SUBSET Dramas]
                       /\ drift' \in SUBSET Dramas
<1> SUFFICES TxsOK /\ OthersOK
    BY DEF DramaTypeInv, DramaTypeOK
<1>1. ASSUME NEW t \in Txs, NEW v \in Videos, NEW name \in Names, Annotate(t, v, name)
      PROVE  TxsOK /\ OthersOK
    <2> DEFINE new == [stage |-> "read", video |-> v, prior |-> rec[v], new |-> name,
                       todo |-> ToRecount(rec[v], name), count |-> NoCount, write |-> {},
                       held |-> {}, lost |-> {}]
    <2>1. new \in OpenTx
        BY RecountNames DEF OpenTx, DramaTypeInv, DramaTypeOK
    <2>2. TxsOK
        BY <1>1, <2>1, OneChanges DEF Annotate
    <2> QED
        BY <1>1, <2>2 DEF Annotate, DramaTypeInv, DramaTypeOK
<1>2. ASSUME NEW t \in Txs, FlushRec(t) PROVE TxsOK /\ OthersOK
    <2>1. tx[t] \in OpenTx /\ Open(t) /\ Counting(t)
        BY <1>2, TxFields DEF FlushRec, DramaTypeInv
    <2> DEFINE new == [tx[t] EXCEPT !.stage = "flushed"]
    <2>2. new \in OpenTx /\ new.count = tx[t].count /\ new.todo = tx[t].todo /\ new.stage = "flushed"
        BY <2>1 DEF OpenTx
    <2>3. tx' = [tx EXCEPT ![t] = new] \/ tx' = [tx EXCEPT ![t] = Closed]
        BY <1>2 DEF FlushRec, Close
    <2> HIDE DEF new
    <2>4. TxsOK
        BY <2>1, <2>2, <2>3, OneChanges DEF Counting
    <2> QED
        BY <1>2, <2>4 DEF FlushRec, DramaTypeInv, DramaTypeOK
<1>3. ASSUME NEW t \in Txs, Recount(t) PROVE TxsOK /\ OthersOK
    <2> DEFINE n == CountOf(SeenBy(t), Head(tx[t].todo))
               new == [tx[t] EXCEPT !.count = n]
    <2>1. tx[t] \in OpenTx \cup RebuildTx /\ tx[t].stage # "read"
        BY <1>3, TxFields DEF Recount, DramaTypeInv
    <2>2. n \in Counts
        BY CountsAreCounts
    <2> HIDE DEF n
    <2>3. new \in OpenTx \cup RebuildTx /\ new.todo # <<>> /\ new.stage = tx[t].stage
        BY <1>3, <2>1, <2>2 DEF OpenTx, RebuildTx, Recount
    <2>4. tx' = [tx EXCEPT ![t] = new]
        BY <1>3 DEF Recount, n
    <2> HIDE DEF new
    <2>5. TxsOK
        BY <2>1, <2>3, <2>4, OneChanges
    <2> QED
        BY <1>3, <2>5 DEF Recount, DramaTypeInv, DramaTypeOK
<1>4. ASSUME NEW t \in Txs, ReadStats(t) PROVE TxsOK /\ OthersOK
    <2> DEFINE d == Head(tx[t].todo)
               row == [name |-> d, count |-> tx[t].count,
                       was |-> IF d \in tx[t].held THEN 0 ELSE stats[d]]
               new == [tx[t] EXCEPT !.todo = Tail(tx[t].todo), !.count = NoCount,
                                    !.write = tx[t].write \cup {row}]
    <2>1. tx[t] \in OpenTx \cup RebuildTx /\ tx[t].stage # "read" /\ tx[t].todo # <<>>
          /\ tx[t].todo \in Seq(Dramas) /\ tx[t].count \in Counts
        BY <1>4, TxFields DEF ReadStats, DramaTypeInv, Counting
    <2>2. d \in Dramas /\ Tail(tx[t].todo) \in Seq(Dramas)
        BY <2>1, HeadTaken
    <2>3. row \in [name : Dramas, was : Counts, count : Counts]
        BY <2>1, <2>2, CountsBasic DEF DramaTypeInv, DramaTypeOK
    <2>4. tx' = [tx EXCEPT ![t] = new]
        BY <1>4 DEF ReadStats
    <2> HIDE DEF row
    <2>5. /\ new \in OpenTx \cup RebuildTx
          /\ new.count = NoCount /\ new.stage = tx[t].stage
        BY <2>1, <2>2, <2>3 DEF OpenTx, RebuildTx
    <2> HIDE DEF new
    <2>6. TxsOK
        BY <2>1, <2>4, <2>5, OneChanges
    <2> QED
        BY <1>4, <2>6 DEF ReadStats, DramaTypeInv, DramaTypeOK
<1>5. ASSUME NEW t \in Txs, NEW dramas \in SUBSET Dramas, Touch(t, dramas)
      PROVE  dirt' \in [Txs -> SUBSET Dramas]
    BY <1>5 DEF Touch, DramaTypeInv, DramaTypeOK
<1>6. ASSUME NEW t \in Txs, AnnotateCommits(t) PROVE TxsOK /\ OthersOK
    <2>1. tx[t] \in OpenTx /\ Open(t)
        BY <1>6, TxFields DEF AnnotateCommits, DramaTypeInv
    <2>2. stats' \in [Dramas -> Counts]
        BY <1>6, <2>1, WrittenType DEF AnnotateCommits, DramaTypeInv
    <2>3. TxsOK
        BY <1>6, DeleteType DEF AnnotateCommits
    <2>4. rec' \in [Videos -> Names \cup {NoRec}]
        BY <1>6, <2>1 DEF AnnotateCommits, SeenBy, Own, OpenTx, DramaTypeInv, DramaTypeOK
    <2>5. dirt' \in [Txs -> SUBSET Dramas]
        BY <1>5, <1>6 DEF AnnotateCommits
    <2>6. drift' \in SUBSET Dramas
        BY <1>6 DEF AnnotateCommits, DramaTypeInv, DramaTypeOK
    <2> QED
        BY <1>6, <2>2, <2>3, <2>4, <2>5, <2>6 DEF AnnotateCommits, DramaTypeInv, DramaTypeOK
<1>7. ASSUME NEW t \in Txs, Aborts(t) PROVE TxsOK /\ OthersOK
    <2>1. TxsOK
        BY <1>7, OneChanges DEF Aborts, Close
    <2> QED
        BY <1>7, <2>1 DEF Aborts, DramaTypeInv, DramaTypeOK
<1>8. ASSUME NEW t \in Txs, RebuildBegins(t) PROVE TxsOK /\ OthersOK
    <2> DEFINE names == {d \in Dramas : CountOf(rec, d) > 0}
               new == [stage |-> "rebuild", count |-> NoCount, write |-> {}, lost |-> {},
                       todo |-> SetToSeq(names), held |-> {d \in Dramas : stats[d] > 0}]
    <2>1. names \subseteq {rec[v] : v \in Videos}
        BY CountsAreCounts
    <2>2. SetToSeq(names) \in Seq(names)
        BY <2>1, NamesFinite, SetInOrder
    <2>3. SetToSeq(names) \in Seq(Dramas)
        BY <2>2
    <2>4. new \in RebuildTx
        BY <2>3 DEF RebuildTx
    <2>5. TxsOK
        BY <1>8, <2>4, OneChanges DEF RebuildBegins
    <2> QED
        BY <1>8, <2>5 DEF RebuildBegins, DramaTypeInv, DramaTypeOK
<1>9. ASSUME NEW t \in Txs, RebuildCommits(t) PROVE TxsOK /\ OthersOK
    <2>1. Open(t)
        BY <1>9, TxFields DEF RebuildCommits, DramaTypeInv
    <2>2. stats' \in [Dramas -> Counts]
        BY <1>9, <2>1, WrittenType DEF RebuildCommits, DramaTypeInv
    <2>3. TxsOK
        BY <1>9, DeleteType DEF RebuildCommits
    <2>4. dirt' \in [Txs -> SUBSET Dramas]
        BY <1>5, <1>9 DEF RebuildCommits
    <2> QED
        BY <1>9, <2>2, <2>3, <2>4 DEF RebuildCommits, DramaTypeInv, DramaTypeOK
<1>10. ASSUME NEW v \in Videos, DeleteVideo(v) PROVE TxsOK /\ OthersOK
    <2>1. TxsOK
        BY <1>10 DEF DeleteVideo, DramaTypeInv, DramaTypeOK, Open, Counting
    <2> QED
        BY <1>10, <2>1 DEF DeleteVideo, DramaTypeInv, DramaTypeOK
<1>11. CASE UNCHANGED dramaVars
    BY <1>11 DEF dramaVars, DramaTypeInv, DramaTypeOK, Open, Counting
<1> QED
    BY <1>1, <1>2, <1>3, <1>4, <1>6, <1>7, <1>8, <1>9, <1>10, <1>11 DEF DramaNext

\* The initial states.
LEMMA DramaInitType == DramaInit => DramaTypeInv
BY CountsBasic DEF DramaInit, DramaTypeInv, DramaTypeOK, Open, Closed

\* The statistics and the open transactions are typed (drama_stats.py).
THEOREM DramaTypeCorrect == DramaSpec => []DramaTypeOK
<1>1. DramaTypeInv => DramaTypeOK
    BY DEF DramaTypeInv
<1> QED
    BY <1>1, DramaInitType, DramaNextType, PTL DEF DramaSpec

-----------------------------------------------------------------------------
(* The numbers.                                                            *)

\* A drama that nobody else has touched since t began is counted as it is, was
\* read as it is, and will be written.
InTouch(t) ==
    /\ tx[t].stage # "rebuild" =>
          /\ tx[t].held = {}
          /\ ToSet(tx[t].todo) \cup Wrote(t) = {tx[t].prior, tx[t].new} \cap Dramas
    /\ tx[t].stage = "rebuild" =>
          \A d \in Dramas \ dirt[t] :
             /\ d \in tx[t].held <=> stats[d] # 0
             /\ CountOf(rec, d) # 0 => d \in ToSet(tx[t].todo) \cup Wrote(t)
    /\ tx[t].lost \subseteq dirt[t]
    /\ tx[t].count # NoCount /\ Head(tx[t].todo) \notin dirt[t] =>
          tx[t].count = CountOf(SeenBy(t), Head(tx[t].todo))
    /\ \A w \in tx[t].write : w.name \notin dirt[t] =>
          /\ w.count = CountOf(SeenBy(t), w.name)
          /\ w.was = IF w.name \in tx[t].held THEN 0 ELSE stats[w.name]

\* The UPDATE locks the row.
FlushedApart ==
    \A t, u \in Txs : tx[t].stage = "flushed" /\ tx[u].stage = "flushed" /\ tx[t].video = tx[u].video
                      => t = u

StatsInv ==
    /\ StatsExact
    /\ FlushedApart
    /\ \A t \in Txs : Open(t) => InTouch(t)

\* A count does not change if no video comes to the drama or leaves it.
LEMMA SameCount ==
    ASSUME NEW r, NEW s, NEW d, \A v \in Videos : r[v] = d <=> s[v] = d
    PROVE  CountOf(r, d) = CountOf(s, d)
<1>1. {v \in Videos : r[v] = d} = {v \in Videos : s[v] = d}
    OBVIOUS
<1> QED
    BY <1>1 DEF CountOf

\* What a step leaves of a transaction that it only touches: the dramas that
\* it changes are marked.
LEMMA StaysInTouch ==
    ASSUME DramaTypeInv, NEW u \in Txs, Open(u), InTouch(u), NEW touched \in SUBSET Dramas,
           /\ tx'[u].stage = tx[u].stage /\ tx'[u].todo = tx[u].todo
           /\ tx'[u].count = tx[u].count /\ tx'[u].write = tx[u].write
           /\ tx'[u].held = tx[u].held /\ tx'[u].lost \subseteq tx[u].lost \cup dirt'[u]
           /\ tx[u].stage # "rebuild" =>
                 tx'[u].prior = tx[u].prior /\ tx'[u].new = tx[u].new,
           dirt'[u] = dirt[u] \cup touched,
           \A d \in Dramas \ touched :
              /\ stats'[d] = stats[d] /\ CountOf(rec', d) = CountOf(rec, d)
              /\ tx[u].stage # "read" => CountOf(SeenBy(u)', d) = CountOf(SeenBy(u), d)
    PROVE  InTouch(u)'
<1>1. tx[u].count # NoCount => Head(tx[u].todo) \in Dramas
    BY TxFields, HeadTaken DEF DramaTypeInv, Counting
<1>2. \A w \in tx[u].write : w.name \in Dramas
    BY TxFields DEF DramaTypeInv
<1>3. Wrote(u)' = Wrote(u)
    BY DEF Wrote
<1>4. tx[u].stage = "read" => tx[u].count = NoCount /\ tx[u].write = {}
    BY DEF DramaTypeInv, Counting
<1>5. (tx[u].stage # "rebuild" =>
          /\ tx[u].held = {}
          /\ ToSet(tx[u].todo) \cup Wrote(u) = {tx[u].prior, tx[u].new} \cap Dramas)'
    BY <1>3 DEF InTouch
<1>6. (tx[u].stage = "rebuild" =>
          \A d \in Dramas \ dirt[u] :
             /\ d \in tx[u].held <=> stats[d] # 0
             /\ CountOf(rec, d) # 0 => d \in ToSet(tx[u].todo) \cup Wrote(u))'
    BY <1>3 DEF InTouch
<1>7. (tx[u].lost \subseteq dirt[u])'
    BY DEF InTouch
<1>8. (tx[u].count # NoCount /\ Head(tx[u].todo) \notin dirt[u] =>
          tx[u].count = CountOf(SeenBy(u), Head(tx[u].todo)))'
    BY <1>1, <1>4 DEF InTouch
<1>9. (\A w \in tx[u].write : w.name \notin dirt[u] =>
          /\ w.count = CountOf(SeenBy(u), w.name)
          /\ w.was = IF w.name \in tx[u].held THEN 0 ELSE stats[w.name])'
    BY <1>2, <1>4 DEF InTouch
<1> QED
    BY <1>5, <1>6, <1>7, <1>8, <1>9 DEF InTouch

\* A step of one transaction that touches nothing leaves the others as they are.
LEMMA OthersStay ==
    ASSUME DramaTypeInv, StatsInv, NEW t \in Txs, NEW u \in Txs \ {t}, Open(u)',
           NEW new, tx' = [tx EXCEPT ![t] = new], dirt'[u] = dirt[u], UNCHANGED <<rec, stats>>
    PROVE  InTouch(u)'
<1>1. tx'[u] = tx[u]
    BY DEF DramaTypeInv, DramaTypeOK
<1>2. Open(u) /\ InTouch(u)
    BY <1>1 DEF Open, StatsInv
<1>3. SeenBy(u)' = SeenBy(u) /\ Wrote(u)' = Wrote(u)
    BY <1>1 DEF SeenBy, Own, Wrote
<1> QED
    BY <1>1, <1>2, <1>3 DEF InTouch

\* A step of one transaction that touches nothing.
LEMMA OneMoves ==
    ASSUME DramaTypeInv, StatsInv, NEW t \in Txs, NEW new,
           tx' = [tx EXCEPT ![t] = new], UNCHANGED <<rec, stats, drift>>,
           \A u \in Txs \ {t} : dirt'[u] = dirt[u],
           new # Closed => InTouch(t)',
           new.stage = "flushed" =>
               \A u \in Txs \ {t} : tx[u].stage = "flushed" => tx[u].video # new.video
    PROVE  StatsInv'
<1>1. tx'[t] = new /\ \A u \in Txs \ {t} : tx'[u] = tx[u]
    BY DEF DramaTypeInv, DramaTypeOK
<1>2. \A u \in Txs : Open(u)' => InTouch(u)'
    BY <1>1, OthersStay DEF Open
<1>3. FlushedApart'
    BY <1>1 DEF FlushedApart, StatsInv
<1>4. StatsExact'
    BY DEF StatsExact, StatsInv
<1> QED
    BY <1>2, <1>3, <1>4 DEF StatsInv

\* An annotation that begins has all to recount.
LEMMA AnnotateStats ==
    ASSUME DramaTypeInv, StatsInv, NEW t \in Txs, NEW v \in Videos, NEW name \in Names,
           Annotate(t, v, name)
    PROVE  StatsInv'
<1> DEFINE new == [stage |-> "read", video |-> v, prior |-> rec[v], new |-> name,
                   todo |-> ToRecount(rec[v], name), count |-> NoCount, write |-> {},
                   held |-> {}, lost |-> {}]
<1>1. tx' = [tx EXCEPT ![t] = new] /\ dirt' = [dirt EXCEPT ![t] = {}] /\ UNCHANGED <<rec, stats, drift>>
    BY DEF Annotate
<1>2. tx'[t] = new /\ dirt'[t] = {} /\ \A u \in Txs \ {t} : dirt'[u] = dirt[u]
    BY <1>1 DEF DramaTypeInv, DramaTypeOK
<1>3. Wrote(t)' = {}
    BY <1>2 DEF Wrote
<1>4. InTouch(t)'
    BY <1>2, <1>3, RecountNames DEF InTouch
<1> QED
    BY <1>1, <1>2, <1>4, OneMoves

\* The UPDATE.
LEMMA FlushStats ==
    ASSUME DramaTypeInv, StatsInv, NEW t \in Txs, FlushRec(t)
    PROVE  StatsInv'
<1>1. tx[t] \in OpenTx /\ Open(t) /\ Counting(t) /\ InTouch(t)
    BY TxFields DEF FlushRec, DramaTypeInv, StatsInv
<1>2. UNCHANGED <<rec, stats, drift, dirt>>
    BY DEF FlushRec
<1>3. CASE tx' = [tx EXCEPT ![t] = Closed]
    BY <1>2, <1>3, OneMoves DEF Closed
<1>4. CASE tx' = [tx EXCEPT ![t].stage = "flushed"]
    <2> DEFINE new == [tx[t] EXCEPT !.stage = "flushed"]
    <2>1. tx' = [tx EXCEPT ![t] = new]
        BY <1>4
    <2>2. /\ new.stage = "flushed" /\ new.video = tx[t].video /\ new.todo = tx[t].todo
          /\ new.prior = tx[t].prior /\ new.new = tx[t].new /\ new.held = tx[t].held
          /\ new.lost = tx[t].lost /\ new.write = {} /\ new.count = NoCount
        BY <1>1 DEF OpenTx, FlushRec, Counting
    <2> HIDE DEF new
    <2>3. tx'[t] = new
        BY <2>1 DEF DramaTypeInv, DramaTypeOK
    <2>4. Wrote(t)' = {} /\ Wrote(t) = {}
        BY <1>1, <2>2, <2>3 DEF Wrote, Counting, FlushRec
    <2>5. InTouch(t)'
        BY <1>1, <1>2, <2>2, <2>3, <2>4 DEF InTouch, FlushRec
    <2>6. \A u \in Txs : tx[u].stage = "flushed" => tx[u].video # new.video
        BY <2>2 DEF FlushRec
    <2> QED
        BY <1>2, <2>1, <2>5, <2>6, OneMoves
<1> QED
    BY <1>3, <1>4 DEF FlushRec, Close

\* A count.
LEMMA RecountStats ==
    ASSUME DramaTypeInv, StatsInv, NEW t \in Txs, Recount(t)
    PROVE  StatsInv'
<1> DEFINE n == CountOf(SeenBy(t), Head(tx[t].todo))
           new == [tx[t] EXCEPT !.count = n]
<1>1. tx[t] \in OpenTx \cup RebuildTx /\ Open(t) /\ InTouch(t)
    BY TxFields DEF Recount, DramaTypeInv, StatsInv
<1>2. tx' = [tx EXCEPT ![t] = new] /\ UNCHANGED <<rec, stats, drift, dirt>>
    BY DEF Recount
<1> HIDE DEF n
<1>3. /\ new.stage = tx[t].stage /\ new.todo = tx[t].todo /\ new.held = tx[t].held
      /\ new.lost = tx[t].lost /\ new.write = tx[t].write /\ new.count = n
      /\ tx[t].stage # "rebuild" =>
            new.prior = tx[t].prior /\ new.new = tx[t].new /\ new.video = tx[t].video
    BY <1>1 DEF OpenTx, RebuildTx
<1> HIDE DEF new
<1>4. tx'[t] = new
    BY <1>2 DEF DramaTypeInv, DramaTypeOK
<1>5. Wrote(t)' = Wrote(t) /\ SeenBy(t)' = SeenBy(t)
    <2>1. Wrote(t)' = Wrote(t)
        BY <1>3, <1>4 DEF Wrote
    <2>2. tx[t].stage # "rebuild" => Own(t)' = Own(t)
        BY <1>2, <1>3, <1>4 DEF Own
    <2>3. SeenBy(t)' = SeenBy(t)
        BY <1>2, <1>3, <1>4, <2>2 DEF SeenBy
    <2> QED
        BY <2>1, <2>3
<1>6. InTouch(t)'
    BY <1>1, <1>2, <1>3, <1>4, <1>5 DEF InTouch, n
<1>7. new.stage = "flushed" =>
        \A u \in Txs \ {t} : tx[u].stage = "flushed" => tx[u].video # new.video
    BY <1>3 DEF StatsInv, FlushedApart
<1> QED
    BY <1>2, <1>6, <1>7, OneMoves

\* A row is read: what is to recount is now to write.
LEMMA ReadStats_Stats ==
    ASSUME DramaTypeInv, StatsInv, NEW t \in Txs, ReadStats(t)
    PROVE  StatsInv'
<1> DEFINE d == Head(tx[t].todo)
           row == [name |-> d, count |-> tx[t].count,
                   was |-> IF d \in tx[t].held THEN 0 ELSE stats[d]]
           new == [tx[t] EXCEPT !.todo = Tail(tx[t].todo), !.count = NoCount,
                                !.write = tx[t].write \cup {row}]
<1>1. /\ tx[t] \in OpenTx \cup RebuildTx /\ Open(t) /\ InTouch(t)
      /\ tx[t].todo # <<>> /\ tx[t].todo \in Seq(Dramas) /\ tx[t].count # NoCount
    BY TxFields DEF ReadStats, DramaTypeInv, StatsInv, Counting
<1>2. tx' = [tx EXCEPT ![t] = new] /\ UNCHANGED <<rec, stats, drift, dirt>>
    BY DEF ReadStats
<1>3. ToSet(tx[t].todo) = {d} \cup ToSet(Tail(tx[t].todo))
    BY <1>1, HeadTaken
<1>4. row.name = d /\ row.count = tx[t].count /\ row.was = IF d \in tx[t].held THEN 0 ELSE stats[d]
    OBVIOUS
<1> HIDE DEF row, d
<1>5. /\ new.stage = tx[t].stage /\ new.todo = Tail(tx[t].todo) /\ new.held = tx[t].held
      /\ new.lost = tx[t].lost /\ new.write = tx[t].write \cup {row} /\ new.count = NoCount
      /\ tx[t].stage # "rebuild" =>
            new.prior = tx[t].prior /\ new.new = tx[t].new /\ new.video = tx[t].video
    BY <1>1 DEF OpenTx, RebuildTx
<1> HIDE DEF new
<1>6. tx'[t] = new
    BY <1>2 DEF DramaTypeInv, DramaTypeOK
<1>7. Wrote(t)' = Wrote(t) \cup {d} /\ SeenBy(t)' = SeenBy(t)
    <2>1. Wrote(t)' = Wrote(t) \cup {d}
        BY <1>4, <1>5, <1>6 DEF Wrote
    <2>2. tx[t].stage # "rebuild" => Own(t)' = Own(t)
        BY <1>2, <1>5, <1>6 DEF Own
    <2>3. SeenBy(t)' = SeenBy(t)
        BY <1>2, <1>5, <1>6, <2>2 DEF SeenBy
    <2> QED
        BY <2>1, <2>3
<1>8. ToSet(tx'[t].todo) \cup Wrote(t)' = ToSet(tx[t].todo) \cup Wrote(t)
    BY <1>3, <1>5, <1>6, <1>7
<1>9. d \notin dirt[t] => tx[t].count = CountOf(SeenBy(t), d)
    BY <1>1 DEF InTouch, d
<1>10. (\A w \in tx[t].write : w.name \notin dirt[t] =>
          /\ w.count = CountOf(SeenBy(t), w.name)
          /\ w.was = IF w.name \in tx[t].held THEN 0 ELSE stats[w.name])'
    BY <1>1, <1>2, <1>4, <1>5, <1>6, <1>7, <1>9 DEF InTouch
<1>11. InTouch(t)'
    BY <1>1, <1>2, <1>5, <1>6, <1>8, <1>10 DEF InTouch
<1>12. new.stage = "flushed" =>
        \A u \in Txs \ {t} : tx[u].stage = "flushed" => tx[u].video # new.video
    BY <1>5 DEF StatsInv, FlushedApart
<1> QED
    BY <1>2, <1>11, <1>12, OneMoves

\* A rebuild that begins lists the dramas that count something, and holds the rows.
LEMMA RebuildStats ==
    ASSUME DramaTypeInv, StatsInv, NEW t \in Txs, RebuildBegins(t)
    PROVE  StatsInv'
<1> DEFINE names == {d \in Dramas : CountOf(rec, d) > 0}
           new == [stage |-> "rebuild", count |-> NoCount, write |-> {}, lost |-> {},
                   todo |-> SetToSeq(names), held |-> {d \in Dramas : stats[d] > 0}]
<1>1. tx' = [tx EXCEPT ![t] = new] /\ dirt' = [dirt EXCEPT ![t] = {}] /\ UNCHANGED <<rec, stats, drift>>
    BY DEF RebuildBegins
<1>2. tx'[t] = new /\ dirt'[t] = {} /\ \A u \in Txs \ {t} : dirt'[u] = dirt[u]
    BY <1>1 DEF DramaTypeInv, DramaTypeOK
<1>3. names \subseteq {rec[v] : v \in Videos}
    BY CountsAreCounts
<1>4. ToSet(SetToSeq(names)) = names
    BY <1>3, NamesFinite, SetInOrder
<1>5. \A d \in Dramas : CountOf(rec, d) \in Nat /\ stats[d] \in Nat
    BY CountsAreCounts DEF Counts, DramaTypeInv, DramaTypeOK
<1>6. \A d \in Dramas : /\ d \in new.held <=> stats[d] # 0
                        /\ CountOf(rec, d) # 0 => d \in ToSet(new.todo)
    BY <1>4, <1>5
<1>7. new.stage = "rebuild" /\ new.lost = {} /\ new.count = NoCount /\ new.write = {}
    OBVIOUS
<1> HIDE DEF new, names
<1>8. InTouch(t)'
    BY <1>1, <1>2, <1>6, <1>7 DEF InTouch
<1> QED
    BY <1>1, <1>2, <1>7, <1>8, OneMoves

-----------------------------------------------------------------------------
(* The commits.                                                            *)

\* The number written for a drama that nobody else has touched.
LEMMA WrittenRight ==
    ASSUME DramaTypeInv, NEW t \in Txs, Open(t), InTouch(t), NEW d \in Dramas
    PROVE  /\ d \notin Wrote(t) =>
                Written(t)[d] = IF d \in tx[t].held THEN 0 ELSE stats[d]
           /\ d \in Wrote(t) \ dirt[t] => Written(t)[d] = CountOf(SeenBy(t), d)
<1> DEFINE w == CHOOSE row \in tx[t].write : row.name = d
<1>1. Written(t)[d] =
        IF d \notin Wrote(t) THEN (IF d \in tx[t].held THEN 0 ELSE stats[d])
        ELSE IF w.count = w.was \/ (w.count = 0 /\ d \in tx[t].lost)
             THEN (IF d \in tx[t].held THEN 0 ELSE stats[d])
             ELSE w.count
    BY DEF Written
<1>2. d \in Wrote(t) => w \in tx[t].write /\ w.name = d
    BY DEF Wrote
<1> HIDE DEF w
<1>3. d \in Wrote(t) \ dirt[t] =>
          /\ w.count = CountOf(SeenBy(t), d)
          /\ w.was = IF d \in tx[t].held THEN 0 ELSE stats[d]
          /\ d \notin tx[t].lost
    BY <1>2 DEF InTouch
<1> QED
    BY <1>1, <1>3

\* What a commit deletes is lost for those who have read it, and marked.
LEMMA LostIsMarked ==
    ASSUME DramaTypeInv, StatsInv, NEW t \in Txs, Open(t), tx' = Delete(t),
           NEW touched \in SUBSET Dramas, Touch(t, touched),
           tx[t].held \subseteq touched, Wrote(t) \subseteq touched,
           NEW u \in Txs \ {t}, Open(u)
    PROVE  /\ tx'[u].stage = tx[u].stage /\ tx'[u].todo = tx[u].todo
           /\ tx'[u].count = tx[u].count /\ tx'[u].write = tx[u].write
           /\ tx'[u].held = tx[u].held /\ tx'[u].lost \subseteq tx[u].lost \cup dirt'[u]
           /\ tx[u].stage # "rebuild" =>
                 /\ tx'[u].prior = tx[u].prior /\ tx'[u].new = tx[u].new
                 /\ tx'[u].video = tx[u].video
           /\ dirt'[u] = dirt[u] \cup touched
<1> DEFINE read == {x \in tx[u].write :
                       x.was # 0 /\ (x.name \in tx[t].held \/ Written(t)[x.name] = 0)}
           more == {w.name : w \in read}
<1>1. tx'[u] = [tx[u] EXCEPT !.lost = tx[u].lost \cup more]
    BY DEF Delete
<1>2. dirt'[u] = dirt[u] \cup touched
    BY DEF Touch
<1>3. tx[u] \in OpenTx \cup RebuildTx /\ InTouch(u) /\ InTouch(t)
    BY TxFields DEF DramaTypeInv, StatsInv
<1>4. ASSUME NEW x \in read PROVE x.name \in dirt[u] \cup touched
    <2>1. x.name \in Dramas /\ x \in tx[u].write /\ x.was # 0
        BY TxFields DEF DramaTypeInv
    <2>2. SUFFICES ASSUME x.name \notin dirt[u], x.name \notin touched PROVE FALSE
        OBVIOUS
    <2>3. x.was = IF x.name \in tx[u].held THEN 0 ELSE stats[x.name]
        BY <1>3, <2>1, <2>2 DEF InTouch
    <2>4. Written(t)[x.name] = stats[x.name]
        BY <1>3, <2>1, <2>2, WrittenRight
    <2> QED
        BY <2>1, <2>2, <2>3, <2>4
<1>5. more \subseteq dirt'[u]
    BY <1>2, <1>4
<1> HIDE DEF more
<1>6. /\ tx'[u].stage = tx[u].stage /\ tx'[u].todo = tx[u].todo
      /\ tx'[u].count = tx[u].count /\ tx'[u].write = tx[u].write
      /\ tx'[u].held = tx[u].held /\ tx'[u].lost = tx[u].lost \cup more
    BY <1>1, <1>3 DEF OpenTx, RebuildTx
<1>7. tx[u].stage # "rebuild" =>
                 /\ tx'[u].prior = tx[u].prior /\ tx'[u].new = tx[u].new
                 /\ tx'[u].video = tx[u].video
    BY <1>1, <1>3 DEF OpenTx, RebuildTx
<1> QED
    BY <1>2, <1>5, <1>6, <1>7

\* A commit leaves the flushed ones apart, and closes t.
LEMMA CommitApart ==
    ASSUME DramaTypeInv, StatsInv, NEW t \in Txs, tx' = Delete(t),
           \A u \in Txs \ {t} : Open(u) =>
              /\ tx'[u].stage = tx[u].stage
              /\ tx[u].stage # "rebuild" => tx'[u].video = tx[u].video
    PROVE  FlushedApart' /\ \A u \in Txs : Open(u)' => u # t /\ Open(u)
<1>1. \A u \in Txs : u = t \/ ~Open(u) => tx'[u] = Closed
    BY DEF Delete, Open
<1>2. \A u \in Txs : Open(u)' => u # t /\ Open(u)
    BY <1>1 DEF Open
<1>3. \A u \in Txs : tx'[u].stage = "flushed" =>
          tx[u].stage = "flushed" /\ tx'[u].video = tx[u].video
    BY <1>1 DEF Closed
<1> QED
    BY <1>2, <1>3 DEF FlushedApart, StatsInv

\* An annotation that commits: the video moves from one drama to another.
LEMMA AnnotateCommitsStats ==
    ASSUME DramaTypeInv, StatsInv, NEW t \in Txs, AnnotateCommits(t)
    PROVE  StatsInv'
<1> DEFINE v == tx[t].video
           settled == {tx[t].prior, tx[t].new} \cap Dramas
           moved == {rec[v], Own(t)} \cap Dramas
           touched == settled \cup moved
<1>1. /\ tx[t] \in OpenTx /\ Open(t) /\ InTouch(t) /\ tx[t].stage = "flushed"
      /\ v \in Videos /\ tx[t].todo = <<>>
    BY TxFields DEF AnnotateCommits, DramaTypeInv, StatsInv, OpenTx
<1>2. /\ rec' = [rec EXCEPT ![v] = Own(t)] /\ stats' = Written(t)
      /\ drift' = (drift \ settled) \cup (dirt[t] \cap settled) \cup (moved \ settled)
      /\ Touch(t, touched) /\ tx' = Delete(t)
    BY <1>1 DEF AnnotateCommits, SeenBy
<1>3. rec' = SeenBy(t)
    BY DEF AnnotateCommits
<1>4. tx[t].held = {} /\ Wrote(t) = settled
    <2>1. ToSet(<<>>) = {}
        BY DEF ToSet
    <2> QED
        BY <1>1, <2>1 DEF InTouch
<1>5. rec \in [Videos -> Names \cup {NoRec}]
    BY DEF DramaTypeInv, DramaTypeOK
<1> HIDE DEF settled
<1>6. \A d \in Dramas \ touched : CountOf(rec', d) = CountOf(rec, d) /\ stats'[d] = stats[d]
    <2> SUFFICES ASSUME NEW d \in Dramas \ touched
                 PROVE  CountOf(rec', d) = CountOf(rec, d) /\ stats'[d] = stats[d]
        OBVIOUS
    <2>1. \A x \in Videos : rec'[x] = d <=> rec[x] = d
        BY <1>2, <1>5
    <2>2. CountOf(rec', d) = CountOf(rec, d)
        BY <2>1, SameCount
    <2>3. d \notin Wrote(t) /\ d \notin tx[t].held
        BY <1>4
    <2>4. Written(t)[d] = stats[d]
        BY <1>1, <2>3, WrittenRight
    <2> QED
        BY <1>2, <2>2, <2>4
<1>7. ASSUME NEW u \in Txs \ {t}, Open(u)
      PROVE  /\ tx'[u].stage = tx[u].stage /\ tx'[u].todo = tx[u].todo
             /\ tx'[u].count = tx[u].count /\ tx'[u].write = tx[u].write
             /\ tx'[u].held = tx[u].held /\ tx'[u].lost \subseteq tx[u].lost \cup dirt'[u]
             /\ tx[u].stage # "rebuild" =>
                   /\ tx'[u].prior = tx[u].prior /\ tx'[u].new = tx[u].new
                   /\ tx'[u].video = tx[u].video
             /\ dirt'[u] = dirt[u] \cup touched
    <2>1. touched \in SUBSET Dramas
        BY DEF settled
    <2> HIDE DEF touched
    <2>2. tx[t].held \subseteq touched /\ Wrote(t) \subseteq touched
        BY <1>4 DEF touched
    <2> QED
        BY <1>1, <1>2, <1>7, <2>1, <2>2, LostIsMarked
<1>8. ASSUME NEW u \in Txs \ {t}, Open(u) PROVE InTouch(u)'
    <2>1. ASSUME NEW d \in Dramas \ touched, tx[u].stage # "read"
          PROVE  CountOf(SeenBy(u)', d) = CountOf(SeenBy(u), d)
        <3>1. CASE tx[u].stage = "rebuild"
            <4>1. SeenBy(u)' = rec' /\ SeenBy(u) = rec
                BY <1>7, <1>8, <3>1 DEF SeenBy
            <4> QED
                BY <1>6, <4>1
        <3>2. CASE tx[u].stage = "flushed"
            <4>1. tx[u].video # v
                BY <1>1, <1>8, <3>2 DEF StatsInv, FlushedApart
            <4>2. tx[u] \in OpenTx
                BY <3>2, TxFields DEF DramaTypeInv
            <4>3. tx[u].video \in Videos
                BY <4>2 DEF OpenTx
            <4>4. rec'[tx[u].video] = rec[tx[u].video]
                BY <1>2, <1>5, <4>1, <4>3
            <4>5. Own(u)' = Own(u)
                BY <1>7, <1>8, <3>2, <4>4 DEF Own
            <4>6. /\ SeenBy(u)' = [rec' EXCEPT ![tx[u].video] = Own(u)]
                  /\ SeenBy(u) = [rec EXCEPT ![tx[u].video] = Own(u)]
                BY <1>7, <1>8, <3>2, <4>5 DEF SeenBy
            <4>7. rec' \in [Videos -> Names \cup {NoRec, Own(t)}]
                BY <1>2, <1>5
            <4>8. \A x \in Videos : SeenBy(u)'[x] = d <=> SeenBy(u)[x] = d
                BY <1>2, <1>5, <4>6, <4>7
            <4> QED
                BY <4>8, SameCount
        <3> QED
            BY <1>8, <2>1, <3>1, <3>2, TxFields DEF DramaTypeInv
    <2>2. touched \in SUBSET Dramas
        BY DEF settled
    <2>3. InTouch(u)
        BY <1>8 DEF StatsInv
    <2> HIDE DEF touched
    <2> QED
        BY <1>6, <1>7, <1>8, <2>1, <2>2, <2>3, StaysInTouch
<1>9. StatsExact'
    <2> SUFFICES ASSUME NEW d \in Dramas, d \notin drift' PROVE stats'[d] = CountOf(rec', d)
        BY DEF StatsExact
    <2>1. CASE d \in settled
        <3>1. d \notin dirt[t]
            BY <1>2, <2>1
        <3> QED
            BY <1>1, <1>2, <1>3, <1>4, <2>1, <3>1, WrittenRight
    <2>2. CASE d \notin settled
        <3>1. d \notin drift /\ d \notin touched
            BY <1>2, <2>2
        <3> QED
            BY <1>6, <3>1 DEF StatsInv, StatsExact
    <2> QED
        BY <2>1, <2>2
<1>10. FlushedApart' /\ \A u \in Txs : Open(u)' => u # t /\ Open(u)
    BY <1>2, <1>7, CommitApart
<1> QED
    BY <1>8, <1>9, <1>10 DEF StatsInv

\* A rebuild that commits: all that nobody else has touched is exact.
LEMMA RebuildCommitsStats ==
    ASSUME DramaTypeInv, StatsInv, NEW t \in Txs, RebuildCommits(t)
    PROVE  StatsInv'
<1>1. /\ tx[t] \in RebuildTx /\ Open(t) /\ InTouch(t) /\ tx[t].stage = "rebuild"
      /\ tx[t].todo = <<>> /\ tx[t].held \in SUBSET Dramas
      /\ tx[t].write \in SUBSET [name : Dramas, was : Counts, count : Counts]
    BY TxFields DEF RebuildCommits, DramaTypeInv, StatsInv
<1>2. /\ rec' = rec /\ stats' = Written(t) /\ drift' = dirt[t]
      /\ Touch(t, Dramas) /\ tx' = Delete(t)
    BY DEF RebuildCommits
<1>3. Wrote(t) \subseteq Dramas
    BY <1>1 DEF Wrote
<1>4. ASSUME NEW u \in Txs \ {t}, Open(u)
      PROVE  /\ tx'[u].stage = tx[u].stage /\ tx'[u].todo = tx[u].todo
             /\ tx'[u].count = tx[u].count /\ tx'[u].write = tx[u].write
             /\ tx'[u].held = tx[u].held /\ tx'[u].lost \subseteq tx[u].lost \cup dirt'[u]
             /\ tx[u].stage # "rebuild" =>
                   /\ tx'[u].prior = tx[u].prior /\ tx'[u].new = tx[u].new
                   /\ tx'[u].video = tx[u].video
             /\ dirt'[u] = dirt[u] \cup Dramas
    BY <1>1, <1>2, <1>3, <1>4, LostIsMarked
<1>5. ASSUME NEW u \in Txs \ {t}, Open(u) PROVE InTouch(u)'
    <2>1. InTouch(u)
        BY <1>5 DEF StatsInv
    <2> QED
        BY <1>4, <1>5, <2>1, StaysInTouch
<1>6. StatsExact'
    <2> SUFFICES ASSUME NEW d \in Dramas, d \notin dirt[t] PROVE Written(t)[d] = CountOf(rec, d)
        BY <1>2 DEF StatsExact
    <2>1. CASE d \in Wrote(t)
        <3>1. SeenBy(t) = rec
            BY <1>1 DEF SeenBy
        <3> QED
            BY <1>1, <2>1, <3>1, WrittenRight
    <2>2. CASE d \notin Wrote(t)
        <3>1. ToSet(<<>>) = {}
            BY DEF ToSet
        <3>2. CountOf(rec, d) = 0 /\ (d \in tx[t].held <=> stats[d] # 0)
            BY <1>1, <2>2, <3>1 DEF InTouch
        <3> QED
            BY <1>1, <2>2, <3>2, WrittenRight
    <2> QED
        BY <2>1, <2>2
<1>7. FlushedApart' /\ \A u \in Txs : Open(u)' => u # t /\ Open(u)
    BY <1>2, <1>4, CommitApart
<1> QED
    BY <1>5, <1>6, <1>7 DEF StatsInv

\* A video that is deleted takes its recognition with it.
LEMMA DeleteVideoStats ==
    ASSUME DramaTypeInv, StatsInv, NEW v \in Videos, DeleteVideo(v)
    PROVE  StatsInv'
<1> DEFINE touched == {rec[v]} \cap Dramas
<1>1. /\ rec' = [rec EXCEPT ![v] = NoRec] /\ UNCHANGED <<stats, tx>>
      /\ drift' = drift \cup touched
      /\ \A u \in Txs : Open(u) => dirt'[u] = dirt[u] \cup touched
      /\ \A u \in Txs : tx[u].stage = "flushed" => tx[u].video # v
    BY DEF DeleteVideo
<1>2. rec \in [Videos -> Names \cup {NoRec}] /\ NoRec \notin Dramas
    BY DramaAssumption DEF DramaTypeInv, DramaTypeOK
<1>3. \A d \in Dramas \ touched : CountOf(rec', d) = CountOf(rec, d)
    <2> SUFFICES ASSUME NEW d \in Dramas \ touched PROVE CountOf(rec', d) = CountOf(rec, d)
        OBVIOUS
    <2>1. \A x \in Videos : rec'[x] = d <=> rec[x] = d
        BY <1>1, <1>2
    <2> QED
        BY <2>1, SameCount
<1>4. ASSUME NEW u \in Txs, Open(u) PROVE InTouch(u)'
    <2>1. ASSUME NEW d \in Dramas \ touched, tx[u].stage # "read"
          PROVE  CountOf(SeenBy(u)', d) = CountOf(SeenBy(u), d)
        <3>1. CASE tx[u].stage = "rebuild"
            <4>1. SeenBy(u)' = rec' /\ SeenBy(u) = rec
                BY <1>1, <3>1 DEF SeenBy
            <4> QED
                BY <1>3, <4>1
        <3>2. CASE tx[u].stage = "flushed"
            <4>1. tx[u].video # v
                BY <1>1, <3>2
            <4>2. tx[u] \in OpenTx
                BY <3>2, TxFields DEF DramaTypeInv
            <4>3. tx[u].video \in Videos
                BY <4>2 DEF OpenTx
            <4>4. rec'[tx[u].video] = rec[tx[u].video]
                BY <1>1, <1>2, <4>1, <4>3
            <4>5. Own(u)' = Own(u)
                BY <1>1, <4>4 DEF Own
            <4>6. /\ SeenBy(u)' = [rec' EXCEPT ![tx[u].video] = Own(u)]
                  /\ SeenBy(u) = [rec EXCEPT ![tx[u].video] = Own(u)]
                BY <1>1, <3>2, <4>5 DEF SeenBy
            <4>7. rec' \in [Videos -> Names \cup {NoRec}]
                BY <1>1, <1>2
            <4>8. \A x \in Videos : SeenBy(u)'[x] = d <=> SeenBy(u)[x] = d
                BY <1>1, <1>2, <4>6, <4>7
            <4> QED
                BY <4>8, SameCount
        <3> QED
            BY <1>4, <2>1, <3>1, <3>2, TxFields DEF DramaTypeInv
    <2>2. InTouch(u)
        BY <1>4 DEF StatsInv
    <2> HIDE DEF touched
    <2>3. touched \in SUBSET Dramas
        BY DEF touched
    <2> QED
        BY <1>1, <1>3, <1>4, <2>1, <2>2, <2>3, StaysInTouch
<1>5. StatsExact'
    BY <1>1, <1>3 DEF StatsExact, StatsInv
<1>6. FlushedApart'
    BY <1>1 DEF FlushedApart, StatsInv
<1> QED
    BY <1>1, <1>4, <1>5, <1>6 DEF StatsInv, Open

\* Each step keeps the numbers.
LEMMA DramaNextStats ==
    DramaTypeInv /\ StatsInv /\ [DramaNext]_dramaVars => StatsInv'
<1> SUFFICES ASSUME DramaTypeInv, StatsInv, [DramaNext]_dramaVars PROVE StatsInv'
    OBVIOUS
<1>1. ASSUME NEW t \in Txs, Aborts(t) PROVE StatsInv'
    <2>1. /\ tx' = [tx EXCEPT ![t] = Closed] /\ dirt' = [dirt EXCEPT ![t] = {}]
          /\ UNCHANGED <<rec, stats, drift>> /\ Closed.stage # "flushed"
        BY <1>1 DEF Aborts, Close, Closed
    <2>2. \A u \in Txs \ {t} : dirt'[u] = dirt[u]
        BY <2>1 DEF DramaTypeInv, DramaTypeOK
    <2> QED
        BY <2>1, <2>2, OneMoves
<1>2. CASE UNCHANGED dramaVars
    <2>1. \A u \in Txs : /\ Open(u)' <=> Open(u)
                         /\ SeenBy(u)' = SeenBy(u) /\ Wrote(u)' = Wrote(u)
        BY <1>2 DEF dramaVars, Open, SeenBy, Own, Wrote
    <2>2. \A u \in Txs : InTouch(u) => InTouch(u)'
        BY <1>2, <2>1 DEF dramaVars, InTouch
    <2>3. FlushedApart' /\ StatsExact'
        BY <1>2 DEF dramaVars, StatsInv, FlushedApart, StatsExact
    <2> QED
        BY <2>1, <2>2, <2>3 DEF StatsInv
<1> QED
    BY <1>1, <1>2, AnnotateStats, FlushStats, RecountStats, ReadStats_Stats, RebuildStats,
       AnnotateCommitsStats, RebuildCommitsStats, DeleteVideoStats DEF DramaNext

\* The number of a drama is exact unless something came after its last recount
\* (rebuild_drama_stats_for, save_manual_recognition).
THEOREM StatsCorrect == DramaSpec => []StatsExact
<1>1. DramaInit => StatsInv
    <2>1. SUFFICES ASSUME DramaInit PROVE StatsInv
        OBVIOUS
    <2>2. \A t \in Txs : ~Open(t) /\ tx[t].stage # "flushed"
        BY <2>1 DEF DramaInit, Open, Closed
    <2>3. \A d \in Dramas : CountOf(rec, d) = 0 /\ stats[d] = 0
        <3>1. \A v \in Videos : rec[v] \notin Dramas
            BY <2>1, DramaAssumption DEF DramaInit
        <3>2. \A d \in Dramas : {v \in Videos : rec[v] = d} = {}
            BY <3>1
        <3> QED
            BY <2>1, <3>2, FS_EmptySet DEF CountOf, DramaInit
    <2> QED
        BY <2>2, <2>3 DEF StatsInv, StatsExact, FlushedApart
<1>2. StatsInv => StatsExact
    BY DEF StatsInv
<1> QED
    BY <1>1, <1>2, DramaInitType, DramaNextType, DramaNextStats, PTL DEF DramaSpec

-----------------------------------------------------------------------------
(* HotSegments.                                                            *)

\* A request that writes has its fields.
LEMMA WriterFields ==
    ASSUME SegmentsTypeOK, NEW w \in Writers, writer[w] # NoWriter
    PROVE  writer[w] \in [stage : {"writing"}, layout : SUBSET Segments, set : 1 .. MaxSets,
                          old : SUBSET (1 .. MaxSets)]
BY DEF SegmentsTypeOK

\* Typing: every step preserves SegmentsTypeOK.
LEMMA WriteType ==
    ASSUME SegmentsTypeOK, NEW w \in Writers, NEW layout \in SUBSET Segments,
           NEW old \in SUBSET (1 .. MaxSets), Write(w, layout, old)
    PROVE  SegmentsTypeOK'
<1>1. sets + 1 \in 1 .. MaxSets
    BY SegmentsAssumption DEF SegmentsTypeOK, Write
<1> QED
    BY <1>1, SegmentsAssumption DEF SegmentsTypeOK, Write

\* Every action keeps the types of the segments.
LEMMA SegmentsNextType == SegmentsTypeOK /\ [SegmentsNext]_segmentVars => SegmentsTypeOK'
<1> SUFFICES ASSUME SegmentsTypeOK, [SegmentsNext]_segmentVars PROVE SegmentsTypeOK'
    OBVIOUS
<1>1. ASSUME NEW w \in Writers, NEW layout \in Layouts, SaveSegments(w, layout) PROVE SegmentsTypeOK'
    <2>1. layout \in SUBSET Segments /\ {r.set : r \in rows} \in SUBSET (1 .. MaxSets)
        BY DEF Segments, SegmentsTypeOK
    <2> QED
        BY <1>1, <2>1, WriteType DEF SaveSegments
<1>2. ASSUME NEW w \in Writers, EnsureSegments(w) PROVE SegmentsTypeOK'
    BY <1>2, WriteType DEF EnsureSegments, Segments
<1>3. ASSUME NEW w \in Writers, WriteCommits(w) PROVE SegmentsTypeOK'
    <2>1. writer[w] \in [stage : {"writing"}, layout : SUBSET Segments, set : 1 .. MaxSets,
                         old : SUBSET (1 .. MaxSets)]
        BY <1>3, WriterFields DEF WriteCommits
    <2>2. \A s \in writer[w].layout :
              [set |-> writer[w].set, seg |-> s] \in [set : 1 .. MaxSets, seg : Segments]
        BY <2>1
    <2>3. rows' \in SUBSET [set : 1 .. MaxSets, seg : Segments]
        BY <1>3, <2>2 DEF WriteCommits, SegmentsTypeOK
    <2> QED
        BY <1>3, <2>3 DEF WriteCommits, SegmentsTypeOK
<1>4. ASSUME NEW w \in Writers, WriteFails(w) PROVE SegmentsTypeOK'
    BY <1>4 DEF WriteFails, SegmentsTypeOK
<1>5. CASE UNCHANGED segmentVars
    BY <1>5 DEF segmentVars, SegmentsTypeOK
<1> QED
    BY <1>1, <1>2, <1>3, <1>4, <1>5 DEF SegmentsNext

\* Init establishes SegmentsTypeOK.
LEMMA SegmentsInitType == SegmentsInit => SegmentsTypeOK
<1> SUFFICES ASSUME SegmentsInit PROVE SegmentsTypeOK
    OBVIOUS
<1>1. 1 \in 1 .. MaxSets /\ 1 \in 0 .. MaxSets
    BY SegmentsAssumption
<1>2. \A s \in Default : [set |-> 1, seg |-> s] \in [set : 1 .. MaxSets, seg : Segments]
    BY <1>1 DEF Segments
<1> QED
    BY <1>1, <1>2 DEF SegmentsInit, SegmentsTypeOK

\* Type correctness of HotSegments.
THEOREM SegmentsTypeCorrect == SegmentsSpec => []SegmentsTypeOK
BY SegmentsInitType, SegmentsNextType, PTL DEF SegmentsSpec

\* A layout that covers the day.  What makes NoGap inductive: each set that has
\* rows has all of its rows, which cover the day, and so will each that is being
\* written.
Covers(layout) == \A m \in 0 .. Day - 1 : \E seg \in layout : m \in Minutes(seg)
SetOf(n) == {r.seg : r \in {x \in rows : x.set = n}}
SetsWhole ==
    /\ \A r \in rows : Covers(SetOf(r.set))
    /\ \A w \in Writers : writer[w] # NoWriter => Covers(writer[w].layout)

\* The default segments cover the day, and so does what is valid.
LEMMA DefaultCovers == Covers(Default)
<1> SUFFICES ASSUME NEW m \in 0 .. Day - 1 PROVE \E seg \in Default : m \in Minutes(seg)
    BY DEF Covers
<1> DEFINE light == [from |-> Dawn, to |-> Dusk, every |-> 30]
           dark == [from |-> Dusk, to |-> Dawn, every |-> 60]
<1>1. light \in Default /\ dark \in Default
    BY DEF Default
<1>2. m \in Minutes(light) \/ m \in Minutes(dark)
    BY SegmentsAssumption DEF Minutes
<1> QED
    BY <1>1, <1>2

\* A valid layout covers the day.
LEMMA ValidCovers == ASSUME NEW layout, Valid(layout) PROVE Covers(layout)
BY DEF Valid, Covers

\* No step breaks it.
LEMMA SegmentsNextWhole ==
    SegmentsTypeOK /\ SetsWhole /\ [SegmentsNext]_segmentVars => SetsWhole'
<1> SUFFICES ASSUME SegmentsTypeOK, SetsWhole, [SegmentsNext]_segmentVars PROVE SetsWhole'
    OBVIOUS
<1>1. ASSUME NEW w \in Writers, NEW layout, NEW old, Covers(layout), Write(w, layout, old)
      PROVE  SetsWhole'
    <2>1. rows' = rows /\ \A n : SetOf(n)' = SetOf(n)
        BY <1>1 DEF Write, SetOf
    <2>2. \A u \in Writers : writer'[u] # NoWriter => Covers(writer'[u].layout)
        BY <1>1 DEF Write, SegmentsTypeOK, SetsWhole
    <2> QED
        BY <2>1, <2>2 DEF SetsWhole, Covers
<1>2. ASSUME NEW w \in Writers, NEW layout \in Layouts, SaveSegments(w, layout) PROVE SetsWhole'
    BY <1>1, <1>2, ValidCovers DEF SaveSegments
<1>3. ASSUME NEW w \in Writers, EnsureSegments(w) PROVE SetsWhole'
    BY <1>1, <1>3, DefaultCovers DEF EnsureSegments
<1>4. ASSUME NEW w \in Writers, WriteCommits(w) PROVE SetsWhole'
    <2> DEFINE new == {[set |-> writer[w].set, seg |-> s] : s \in writer[w].layout}
               kept == {r \in rows : r.set \notin writer[w].old}
    <2>1. rows' = kept \cup new /\ writer[w] # NoWriter
        BY <1>4 DEF WriteCommits
    <2>2. ASSUME NEW r \in rows', NEW m \in 0 .. Day - 1
          PROVE  \E seg \in SetOf(r.set)' : m \in Minutes(seg)
        <3>1. CASE r \in kept
            <4>1. PICK seg \in SetOf(r.set) : m \in Minutes(seg)
                BY <3>1 DEF SetsWhole, Covers
            <4>2. PICK x \in rows : x.set = r.set /\ x.seg = seg
                BY DEF SetOf
            <4>3. x \in rows'
                BY <2>1, <3>1, <4>2
            <4> QED
                BY <4>1, <4>2, <4>3 DEF SetOf
        <3>2. CASE r \in new
            <4>1. PICK seg \in writer[w].layout : m \in Minutes(seg)
                BY <2>1 DEF SetsWhole, Covers
            <4> DEFINE x == [set |-> writer[w].set, seg |-> seg]
            <4>2. x \in rows' /\ x.set = r.set /\ x.seg = seg
                BY <2>1, <3>2
            <4> QED
                BY <4>1, <4>2 DEF SetOf
        <3> QED
            BY <2>1, <3>1, <3>2
    <2>3. \A u \in Writers : writer'[u] # NoWriter => writer'[u] = writer[u]
        BY <1>4 DEF WriteCommits, SegmentsTypeOK
    <2> QED
        BY <2>2, <2>3 DEF SetsWhole, Covers
<1>5. ASSUME NEW w \in Writers, WriteFails(w) PROVE SetsWhole'
    <2>1. rows' = rows /\ \A u \in Writers : writer'[u] # NoWriter => writer'[u] = writer[u]
        BY <1>5 DEF WriteFails, SegmentsTypeOK
    <2> QED
        BY <2>1 DEF SetsWhole, Covers, SetOf
<1>6. CASE UNCHANGED segmentVars
    BY <1>6 DEF segmentVars, SetsWhole, Covers, SetOf
<1> QED
    BY <1>2, <1>3, <1>4, <1>5, <1>6 DEF SegmentsNext

\* Once a group has segments there is one for every time of the day, for every
\* length of the day, every default and whatever requests overlap.
THEOREM NoGapCorrect == SegmentsSpec => []NoGap
<1>1. SegmentsInit => SetsWhole
    <2> SUFFICES ASSUME SegmentsInit PROVE SetsWhole
        OBVIOUS
    <2>1. \A w \in Writers : writer[w] = NoWriter
        BY DEF SegmentsInit
    <2>2. ASSUME NEW r \in rows, NEW m \in 0 .. Day - 1
          PROVE  \E seg \in SetOf(r.set) : m \in Minutes(seg)
        <3>1. PICK seg \in Default : m \in Minutes(seg)
            BY DefaultCovers DEF Covers
        <3> DEFINE x == [set |-> 1, seg |-> seg]
        <3>2. x \in rows /\ r.set = 1 /\ x.set = 1 /\ x.seg = seg
            BY DEF SegmentsInit
        <3> QED
            BY <3>1, <3>2 DEF SetOf
    <2> QED
        BY <2>1, <2>2 DEF SetsWhole, Covers
<1>2. ASSUME SetsWhole PROVE NoGap
    <2> SUFFICES ASSUME NEW r \in rows, NEW m \in 0 .. Day - 1 PROVE Current(m) # {}
        BY DEF NoGap
    <2>1. PICK seg \in SetOf(r.set) : m \in Minutes(seg)
        BY <1>2 DEF SetsWhole, Covers
    <2>2. PICK x \in rows : x.seg = seg
        BY DEF SetOf
    <2> QED
        BY <2>1, <2>2 DEF Current
<1> QED
    BY <1>1, <1>2, SegmentsTypeCorrect, SegmentsNextWhole, PTL DEF SegmentsSpec

\* What makes SetsBounded inductive: each set has a writer, who has no other,
\* and who has read the one it has when it writes again.
SetNumbers == {r.set : r \in rows}
OwnedBy(owner) ==
    /\ \A m, n \in SetNumbers : owner[m] = owner[n] => m = n
    /\ \A w \in Writers : writer[w] # NoWriter =>
          /\ owner[writer[w].set] = w
          /\ \A n \in SetNumbers : owner[n] = w => n \in writer[w].old
NumbersGiven ==
    /\ \A n \in SetNumbers : n <= sets
    /\ \A w \in Writers : writer[w] # NoWriter => writer[w].set <= sets
SetsOwned == NumbersGiven /\ \E owner \in [1 .. MaxSets -> Writers] : OwnedBy(owner)

\* A request that starts to write owns the number it is given, and has read the
\* set it owns if there is one.
LEMMA WriteOwned ==
    ASSUME SegmentsTypeOK, SetsOwned, NEW w \in Writers, NEW layout, NEW old,
           SetNumbers \subseteq old, Write(w, layout, old)
    PROVE  SetsOwned'
<1>1. PICK owner \in [1 .. MaxSets -> Writers] : OwnedBy(owner)
    BY DEF SetsOwned
<1>2. rows' = rows /\ sets' = sets + 1 /\ sets + 1 \in 1 .. MaxSets /\ sets \in Nat
    BY SegmentsAssumption DEF Write, SegmentsTypeOK
<1>3. SetNumbers' = SetNumbers /\ SetNumbers \subseteq 1 .. MaxSets
    BY <1>2 DEF SetNumbers, SegmentsTypeOK
<1>4. /\ writer'[w].set = sets + 1 /\ writer'[w].old = old
      /\ \A u \in Writers \ {w} : writer'[u] = writer[u]
    BY DEF Write, SegmentsTypeOK
<1>5. \A n \in SetNumbers : n <= sets
    BY DEF SetsOwned, NumbersGiven
<1>6. \A u \in Writers : writer[u] # NoWriter => writer[u].set \in 1 .. MaxSets /\ writer[u].set <= sets
    BY WriterFields DEF SetsOwned, NumbersGiven
<1>7. NumbersGiven'
    <2>1. \A n \in SetNumbers' : n <= sets'
        BY <1>2, <1>3, <1>5, SegmentsAssumption
    <2>2. ASSUME NEW u \in Writers, writer'[u] # NoWriter PROVE writer'[u].set <= sets'
        <3>1. CASE u = w
            BY <1>2, <1>4, <3>1
        <3>2. CASE u # w
            BY <1>2, <1>4, <1>6, <2>2, <3>2, SegmentsAssumption
        <3> QED
            BY <3>1, <3>2
    <2> QED
        BY <2>1, <2>2 DEF NumbersGiven
<1>8. PICK next \in [1 .. MaxSets -> Writers] :
          /\ next[sets + 1] = w
          /\ \A n \in 1 .. MaxSets : n <= sets => next[n] = owner[n]
    <2> DEFINE next == [owner EXCEPT ![sets + 1] = w]
    <2>1. next \in [1 .. MaxSets -> Writers]
        OBVIOUS
    <2>2. next[sets + 1] = w /\ \A n \in 1 .. MaxSets : n <= sets => next[n] = owner[n]
        BY <1>2, SegmentsAssumption
    <2> QED
        BY <2>1, <2>2
<1>9. \A n \in SetNumbers : next[n] = owner[n]
    BY <1>3, <1>5, <1>8
<1>10. OwnedBy(next)'
    <2>1. \A m, n \in SetNumbers' : next[m] = next[n] => m = n
        BY <1>1, <1>3, <1>9 DEF OwnedBy
    <2>2. ASSUME NEW u \in Writers, writer'[u] # NoWriter
          PROVE  /\ next[writer'[u].set] = u
                 /\ \A n \in SetNumbers' : next[n] = u => n \in writer'[u].old
        <3>1. CASE u = w
            BY <1>3, <1>4, <1>8, <3>1
        <3>2. CASE u # w
            BY <1>1, <1>3, <1>4, <1>6, <1>8, <1>9, <2>2, <3>2 DEF OwnedBy
        <3> QED
            BY <3>1, <3>2
    <2> QED
        BY <2>1, <2>2 DEF OwnedBy
<1> QED
    BY <1>7, <1>8, <1>10 DEF SetsOwned

\* No step breaks it.
LEMMA SegmentsNextOwned ==
    SegmentsTypeOK /\ SetsOwned /\ [SegmentsNext]_segmentVars => SetsOwned'
<1> SUFFICES ASSUME SegmentsTypeOK, SetsOwned, [SegmentsNext]_segmentVars PROVE SetsOwned'
    OBVIOUS
<1>1. PICK owner \in [1 .. MaxSets -> Writers] : OwnedBy(owner)
    BY DEF SetsOwned
<1>2. ASSUME NEW w \in Writers, NEW layout \in Layouts, SaveSegments(w, layout) PROVE SetsOwned'
    BY <1>2, WriteOwned DEF SaveSegments, SetNumbers
<1>3. ASSUME NEW w \in Writers, EnsureSegments(w) PROVE SetsOwned'
    <2>1. SetNumbers = {}
        BY <1>3 DEF EnsureSegments, SetNumbers
    <2> QED
        BY <1>3, <2>1, WriteOwned DEF EnsureSegments
<1>4. ASSUME NEW w \in Writers, WriteCommits(w) PROVE SetsOwned'
    <2>1. writer[w] # NoWriter /\ sets' = sets
        BY <1>4 DEF WriteCommits
    <2>2. \A u \in Writers : writer'[u] # NoWriter => u # w /\ writer'[u] = writer[u]
        BY <1>4 DEF WriteCommits, SegmentsTypeOK
    <2>3. ASSUME NEW n \in SetNumbers' PROVE n = writer[w].set \/ n \in SetNumbers \ writer[w].old
        <3>1. PICK r \in rows' : r.set = n
            BY <2>3 DEF SetNumbers
        <3>2. CASE r \in rows /\ r.set \notin writer[w].old
            BY <3>1, <3>2 DEF SetNumbers
        <3>3. CASE \E s \in writer[w].layout : r = [set |-> writer[w].set, seg |-> s]
            BY <3>1, <3>3
        <3> QED
            BY <1>4, <3>1, <3>2, <3>3 DEF WriteCommits
    <2>4. NumbersGiven'
        BY <2>1, <2>2, <2>3 DEF SetsOwned, NumbersGiven
    <2>5. \A n \in SetNumbers \ writer[w].old : owner[n] # w
        BY <1>1, <2>1 DEF OwnedBy
    <2>6. owner[writer[w].set] = w
        BY <1>1, <2>1 DEF OwnedBy
    <2>7. OwnedBy(owner)'
        <3>1. ASSUME NEW m \in SetNumbers', NEW n \in SetNumbers', owner[m] = owner[n] PROVE m = n
            BY <1>1, <2>3, <2>5, <2>6, <3>1 DEF OwnedBy
        <3>2. ASSUME NEW u \in Writers, writer'[u] # NoWriter
              PROVE  /\ owner[writer'[u].set] = u
                     /\ \A n \in SetNumbers' : owner[n] = u => n \in writer'[u].old
            BY <1>1, <2>2, <2>3, <2>6, <3>2 DEF OwnedBy
        <3> QED
            BY <3>1, <3>2 DEF OwnedBy
    <2> QED
        BY <2>4, <2>7 DEF SetsOwned
<1>5. ASSUME NEW w \in Writers, WriteFails(w) PROVE SetsOwned'
    <2>1. UNCHANGED <<rows, sets>> /\ \A u \in Writers : writer'[u] # NoWriter => writer'[u] = writer[u]
        BY <1>5 DEF WriteFails, SegmentsTypeOK
    <2>2. SetNumbers' = SetNumbers /\ sets' = sets
        BY <2>1 DEF SetNumbers
    <2>3. NumbersGiven'
        BY <2>1, <2>2 DEF SetsOwned, NumbersGiven
    <2>4. OwnedBy(owner)'
        BY <1>1, <2>1, <2>2 DEF OwnedBy
    <2> QED
        BY <2>3, <2>4 DEF SetsOwned
<1>6. CASE UNCHANGED segmentVars
    <2>1. SetNumbers' = SetNumbers /\ writer' = writer /\ sets' = sets
        BY <1>6 DEF segmentVars, SetNumbers
    <2>2. NumbersGiven'
        BY <2>1 DEF SetsOwned, NumbersGiven
    <2>3. OwnedBy(owner)'
        BY <1>1, <2>1 DEF OwnedBy
    <2> QED
        BY <2>2, <2>3 DEF SetsOwned
<1> QED
    BY <1>2, <1>3, <1>4, <1>5, <1>6 DEF SegmentsNext

\* A group never has more sets of segments than requests that are served at the
\* same time, for any number of them.
THEOREM SetsBoundedCorrect == SegmentsSpec => []SetsBounded
<1>1. SegmentsInit => SetsOwned
    <2> SUFFICES ASSUME SegmentsInit PROVE SetsOwned
        OBVIOUS
    <2>1. PICK some \in Writers : TRUE
        BY SegmentsAssumption
    <2> DEFINE owner == [n \in 1 .. MaxSets |-> some]
    <2>2. \A n \in SetNumbers : n = 1
        BY DEF SegmentsInit, SetNumbers
    <2>3. OwnedBy(owner) /\ NumbersGiven
        BY <2>2 DEF SegmentsInit, OwnedBy, NumbersGiven
    <2>4. owner \in [1 .. MaxSets -> Writers]
        OBVIOUS
    <2> QED
        BY <2>3, <2>4 DEF SetsOwned
<1>2. ASSUME SegmentsTypeOK, SetsOwned PROVE SetsBounded
    <2>1. PICK owner \in [1 .. MaxSets -> Writers] : OwnedBy(owner)
        BY <1>2 DEF SetsOwned
    <2> DEFINE mine == [n \in SetNumbers |-> owner[n]]
    <2>2. SetNumbers \subseteq 1 .. MaxSets
        BY <1>2 DEF SetNumbers, SegmentsTypeOK
    <2>3. mine \in Injection(SetNumbers, Writers)
        BY <2>1, <2>2 DEF Injection, IsInjective, OwnedBy
    <2>4. Cardinality(SetNumbers) <= Cardinality(Writers)
        BY <2>3, SegmentsAssumption, FS_Injection
    <2> QED
        BY <2>4 DEF SetsBounded, SetNumbers
<1> QED
    BY <1>1, <1>2, SegmentsTypeCorrect, SegmentsNextOwned, PTL DEF SegmentsSpec
=============================================================================
