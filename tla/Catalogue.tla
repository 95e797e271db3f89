------------------------------ MODULE Catalogue ------------------------------
(***************************************************************************)
(* The catalogue: groups and user collections, the creators filed under    *)
(* them, and a group's schedule row.  A request reads what it needs and    *)
(* writes in the end; between its reads and its commit others commit.      *)
(* PostgreSQL (hybrid) enforces foreign keys, SQLite (local) does not.     *)
(***************************************************************************)
EXTENDS Integers, FiniteSets

CONSTANTS
    Groups,         \* the admins' categories
    Collections,    \* the users' own collections
    Creators,       \* identities of creator rows, given in order
    Infos,          \* what TikTok says of the accounts that are added: [name, uid]
    Requests,       \* requests that are served at the same time
    Limits,         \* limits that a place is given; below zero is as good as zero
    MaxBatch        \* most accounts of one request

ASSUME CatalogueAssumption ==
    /\ Limits \subseteq Nat
    /\ MaxBatch \in Nat \ {0}
    /\ Groups \cap Collections = {} /\ "none" \notin Groups \cup Collections
    /\ IsFiniteSet(Requests)
    /\ IsFiniteSet(Creators) /\ Creators \subseteq Nat

VARIABLES
    foreignKeys,    \* the database enforces foreign keys
    place,          \* place[p] = the life of a group or a collection
    cap,            \* cap[p] = max_creators of the place
    most,           \* most[p] = the largest limit that p has had (history)
    alarm,          \* alarm[g] = the state of the group's schedule row
    creator,        \* creator[c] = the MonitoredCreator row
    request         \* request[q] = what the request has read so far

catalogueVars == <<foreignKeys, place, cap, most, alarm, creator, request>>

Places == Groups \cup Collections
NoPlace == "none"
NoUid == "no uid"
Uids == {info.uid : info \in Infos} \cup {NoUid}
NoCreator == [life |-> "unused"]
Gone == [life |-> "deleted"]
NoRequest == [stage |-> "idle"]

\* A row is flushed by its request, and live once that has committed.  It was
\* added with info, and its id is now uid.
CatalogueTypeOK ==
    /\ foreignKeys \in BOOLEAN
    /\ place \in [Places -> {"unused", "active", "hidden", "deleted", "expired", "gone"}]
    /\ cap \in [Places -> Limits \cup {0}] /\ most \in [Places -> Limits \cup {0}]
    /\ alarm \in [Groups -> {"none", "on", "off"}]
    /\ creator \in [Creators -> {NoCreator, Gone} \cup
          [life : {"flushed"}, by : Requests, info : Infos, uid : Uids,
           group : Groups \cup {NoPlace}, collection : Collections \cup {NoPlace}] \cup
          [life : {"live"}, info : Infos, uid : Uids,
           group : Groups \cup {NoPlace}, collection : Collections \cup {NoPlace}]]
    /\ request \in [Requests -> {NoRequest} \cup
          [stage : {"room"}, place : Places, info : Infos]
          \cup [stage : {"flushed"}, place : Places]
          \cup [stage : {"move"}, place : Groups, creator : Creators]
          \cup [stage : {"alarm"}, place : Groups]]

CatalogueInit ==
    /\ foreignKeys \in BOOLEAN
    /\ place = [p \in Places |-> "unused"]
    /\ cap = [p \in Places |-> 0] /\ most = cap
    /\ alarm = [g \in Groups |-> "none"]
    /\ creator = [c \in Creators |-> NoCreator]
    /\ request = [q \in Requests |-> NoRequest]

-----------------------------------------------------------------------------
Live(c) == creator[c].life = "live"
Flushed(q) == {c \in Creators : creator[c].life = "flushed" /\ creator[c].by = q}
In(c, p) == p \in {creator[c].group, creator[c].collection}
Under(p) == {c \in Creators : Live(c) /\ In(c, p)}

\* What request q sees: what is committed, and its own rows.
Seen(q) == {c \in Creators : Live(c)} \cup Flushed(q)

\* The same account: the name, or the id where the lookup gave one.
Same(a, b) == a.name = b.name \/ (a.uid # NoUid /\ a.uid = b.uid)
Account(c) == [name |-> creator[c].info.name, uid |-> creator[c].uid]
Duplicates(q, info) == {c \in Seen(q) : Same(Account(c), info)}

Idle(q) == request[q] = NoRequest
Ends(q) == request' = [request EXCEPT ![q] = NoRequest]

\* get_active_group and ensure_group_has_capacity; a collection only has to
\* exist.  (A bug would be to compare with one more.)
HasRoomLoose(q, p) ==
    place[p] = "active" /\ Cardinality({c \in Seen(q) : In(c, p)}) <= cap[p]
HasRoom(q, p) ==
    place[p] = "active" /\ Cardinality({c \in Seen(q) : In(c, p)}) < cap[p]

-----------------------------------------------------------------------------
(* Groups and collections.                                                 *)

LimitIs(p, limit) ==
    /\ cap' = [cap EXCEPT ![p] = limit]
    /\ most' = [most EXCEPT ![p] = IF @ < limit THEN limit ELSE @]

CreatePlace(p, limit) ==
    /\ place[p] = "unused"
    /\ place' = [place EXCEPT ![p] = "active"]
    /\ LimitIs(p, limit)
    /\ UNCHANGED <<foreignKeys, alarm, creator, request>>

\* update_group may switch is_active and change the limit, also to less than
\* there is; so may update_collection, whose is_active nobody asks for.
UpdateGroup(g, shown, limit) ==
    /\ place[g] \in {"active", "hidden"}
    /\ place' = [place EXCEPT ![g] = IF shown THEN "active" ELSE "hidden"]
    /\ LimitIs(g, limit)
    /\ UNCHANGED <<foreignKeys, alarm, creator, request>>

UpdateCollection(k, limit) ==
    /\ place[k] = "active"
    /\ LimitIs(k, limit)
    /\ UNCHANGED <<foreignKeys, place, alarm, creator, request>>

\* soft_delete_group: the creators stay, the schedules are switched off.
DeleteGroup(g) ==
    /\ place[g] \in {"active", "hidden"}
    /\ place' = [place EXCEPT ![g] = "deleted"]
    /\ alarm' = [alarm EXCEPT ![g] = IF @ = "none" THEN @ ELSE "off"]
    /\ UNCHANGED <<foreignKeys, cap, most, creator, request>>

\* Seven days pass, and no request lasts that long.
RetentionEnds(g) ==
    /\ place[g] = "deleted"
    /\ \A q \in Requests : ~Idle(q) => request[q].place # g
    /\ place' = [place EXCEPT ![g] = "expired"]
    /\ UNCHANGED <<foreignKeys, cap, most, alarm, creator, request>>

\* (A bug would be to delete the group and leave its creators filed under it.)
PurgeGroupOnly(g) ==
    /\ place[g] = "expired"
    /\ place' = [place EXCEPT ![g] = "gone"]
    /\ alarm' = [alarm EXCEPT ![g] = "none"]
    /\ UNCHANGED <<foreignKeys, cap, most, creator, request>>

PurgeGroup(g) ==
    /\ place[g] = "expired"
    /\ place' = [place EXCEPT ![g] = "gone"]
    /\ alarm' = [alarm EXCEPT ![g] = "none"]
    /\ creator' = [c \in Creators |-> IF Live(c) /\ creator[c].group = g
                                      THEN [creator[c] EXCEPT !.group = NoPlace]
                                      ELSE creator[c]]
    /\ UNCHANGED <<foreignKeys, cap, most, request>>

\* Deleting a collection leaves its creators, filed under nothing.  In an
\* enforcing database a row that is being added under it holds it.
DeleteCollection(k) ==
    /\ place[k] = "active"
    /\ foreignKeys => \A q \in Requests : request[q].stage = "flushed" => request[q].place # k
    /\ place' = [place EXCEPT ![k] = "gone"]
    /\ creator' = [c \in Creators |-> IF Live(c) /\ creator[c].collection = k
                                      THEN [creator[c] EXCEPT !.collection = NoPlace]
                                      ELSE creator[c]]
    /\ UNCHANGED <<foreignKeys, cap, most, alarm, request>>

-----------------------------------------------------------------------------
(* Adding creators.  The place must have room; the account is looked up,   *)
(* which may take minutes, must be new, and is flushed.  A batch does so   *)
(* for one account after the other (its lookups are made before).  The     *)
(* rows are seen by others when the request has ended.                     *)

AddChecksRoom(q, p, info) ==
    /\ Idle(q)
    /\ HasRoom(q, p)
    /\ request' = [request EXCEPT ![q] = [stage |-> "room", place |-> p, info |-> info]]
    /\ UNCHANGED <<foreignKeys, place, cap, most, alarm, creator>>

Flush(q, c, p, info) ==
    /\ creator[c] = NoCreator
    /\ \A d \in Creators : creator[d] = NoCreator => c <= d
    /\ creator' = [creator EXCEPT ![c] =
           [life |-> "flushed", by |-> q, info |-> info, uid |-> info.uid,
            group |-> IF p \in Groups THEN p ELSE NoPlace,
            collection |-> IF p \in Collections THEN p ELSE NoPlace]]

\* A duplicate is refused; with two of them the query itself raises.  So does
\* a collection that is gone by now.
AddRefused(q) ==
    /\ request[q].stage = "room"
    /\ \/ Duplicates(q, request[q].info) # {}
       \/ foreignKeys /\ place[request[q].place] = "gone"
    /\ Ends(q)
    /\ UNCHANGED <<foreignKeys, place, cap, most, alarm, creator>>

\* (A bug would be to look for the account under the same place only.)
AddInsertsIfNewHere(q, c) ==
    /\ request[q].stage = "room"
    /\ LET p == request[q].place
       IN  /\ {d \in Duplicates(q, request[q].info) : In(d, p)} = {}
           /\ ~ (foreignKeys /\ place[p] = "gone")
           /\ Flush(q, c, p, request[q].info)
           /\ request' = [request EXCEPT ![q] = [stage |-> "flushed", place |-> p]]
    /\ UNCHANGED <<foreignKeys, place, cap, most, alarm>>

AddInserts(q, c) ==
    /\ request[q].stage = "room"
    /\ LET p == request[q].place
       IN  /\ Duplicates(q, request[q].info) = {}
           /\ ~ (foreignKeys /\ place[p] = "gone")
           /\ Flush(q, c, p, request[q].info)
           /\ request' = [request EXCEPT ![q] = [stage |-> "flushed", place |-> p]]
    /\ UNCHANGED <<foreignKeys, place, cap, most, alarm>>

\* batch_add_creators: the next account, into the same group.
BatchInserts(q, c, info) ==
    /\ request[q].stage = "flushed"
    /\ Cardinality(Flushed(q)) < MaxBatch
    /\ request[q].place \in Groups
    /\ HasRoom(q, request[q].place)
    /\ Duplicates(q, info) = {}
    /\ Flush(q, c, request[q].place, info)
    /\ UNCHANGED <<foreignKeys, place, cap, most, alarm, request>>

\* A collection holds a name once: of two requests the second one fails.
AddCommits(q) ==
    /\ request[q].stage = "flushed"
    /\ LET p == request[q].place
           clash(c) == p \in Collections /\ \E d \in Under(p) :
                           creator[d].info.name = creator[c].info.name
       IN  creator' = [c \in Creators |->
               IF c \notin Flushed(q) THEN creator[c]
               ELSE IF clash(c) THEN NoCreator
               ELSE [life |-> "live", info |-> creator[c].info, uid |-> creator[c].uid,
                     group |-> creator[c].group, collection |-> creator[c].collection]]
    /\ Ends(q)
    /\ UNCHANGED <<foreignKeys, place, cap, most, alarm>>

\* update_creator_category: to another group that has room.
MoveChecks(q, c, g) ==
    /\ Idle(q)
    /\ Live(c)
    /\ creator[c].group # g
    /\ HasRoom(q, g)
    /\ request' = [request EXCEPT ![q] = [stage |-> "move", place |-> g, creator |-> c]]
    /\ UNCHANGED <<foreignKeys, place, cap, most, alarm, creator>>

MoveCommits(q) ==
    /\ request[q].stage = "move"
    /\ LET c == request[q].creator
       IN  creator' = IF Live(c) THEN [creator EXCEPT ![c].group = request[q].place]
                                 ELSE creator
    /\ Ends(q)
    /\ UNCHANGED <<foreignKeys, place, cap, most, alarm>>

-----------------------------------------------------------------------------
(* A scrape fills in the id of an account that was added without one; it   *)
(* does not look for duplicates.                                           *)

FillUid(c, uid) ==
    /\ Live(c)
    /\ creator[c].uid = NoUid
    /\ creator' = [creator EXCEPT ![c].uid = uid]
    /\ UNCHANGED <<foreignKeys, place, cap, most, alarm, request>>

(* Deleting a creator (what becomes of its videos is in VideoRefs).        *)

DeleteCreator(c) ==
    /\ Live(c)
    /\ creator' = [creator EXCEPT ![c] = Gone]
    /\ UNCHANGED <<foreignKeys, place, cap, most, alarm, request>>

-----------------------------------------------------------------------------
(* A group's schedule is created for a group that was active when asked.   *)

AlarmChecks(q, g) ==
    /\ Idle(q)
    /\ place[g] = "active"
    /\ alarm[g] = "none"
    /\ request' = [request EXCEPT ![q] = [stage |-> "alarm", place |-> g]]
    /\ UNCHANGED <<foreignKeys, place, cap, most, alarm, creator>>

AlarmCommits(q) ==
    /\ request[q].stage = "alarm"
    /\ alarm' = [alarm EXCEPT ![request[q].place] = "on"]
    /\ Ends(q)
    /\ UNCHANGED <<foreignKeys, place, cap, most, creator>>

DeleteAlarm(g) ==
    /\ alarm[g] # "none"
    /\ place[g] = "active"
    /\ alarm' = [alarm EXCEPT ![g] = "none"]
    /\ UNCHANGED <<foreignKeys, place, cap, most, creator, request>>

CatalogueNext ==
    \/ \E p \in Places, limit \in Limits : CreatePlace(p, limit)
    \/ \E g \in Groups : \/ \E shown \in BOOLEAN, limit \in Limits : UpdateGroup(g, shown, limit)
                         \/ DeleteGroup(g) \/ RetentionEnds(g)
                         \/ PurgeGroup(g) \/ DeleteAlarm(g)
    \/ \E k \in Collections : DeleteCollection(k) \/ \E limit \in Limits : UpdateCollection(k, limit)
    \/ \E c \in Creators : DeleteCreator(c) \/ \E uid \in Uids \ {NoUid} : FillUid(c, uid)
    \/ \E q \in Requests :
          \/ \E p \in Places, info \in Infos : AddChecksRoom(q, p, info)
          \/ AddRefused(q) \/ AddCommits(q)
          \/ \E c \in Creators : AddInserts(q, c)
          \/ \E c \in Creators, info \in Infos : BatchInserts(q, c, info)
          \/ \E c \in Creators, g \in Groups : MoveChecks(q, c, g)
          \/ MoveCommits(q)
          \/ \E g \in Groups : AlarmChecks(q, g)
          \/ AlarmCommits(q)

CatalogueSpec == CatalogueInit /\ [][CatalogueNext]_catalogueVars

-----------------------------------------------------------------------------
(* Properties.                                                             *)

\* The count is taken without a lock: requests that overlap may put a place
\* over the largest limit it has had, each of the others by what it adds
\* (ensure_group_has_capacity).
CapacityHolds ==
    \A p \in Places :
        Cardinality(Under(p)) <= most[p] + (Cardinality(Requests) - 1) *
                                    (IF MaxBatch < most[p] THEN MaxBatch ELSE most[p])

\* Nor is the check for duplicates locked: an account is monitored at most once
\* for each request that looked at the same time, be it under one name or with
\* one id that it was added with (ensure_creator_not_duplicate).  A row that
\* gets its id later, from a scrape, may come on top.
DuplicatesBounded ==
    \A info \in Infos :
        /\ Cardinality({c \in Creators : Live(c) /\ creator[c].info.name = info.name})
               <= Cardinality(Requests)
        /\ info.uid # NoUid =>
               Cardinality({c \in Creators : Live(c) /\ creator[c].info.uid = info.uid})
                   <= Cardinality(Requests)

\* Nothing is left under a group that was purged, nor under a collection that
\* was deleted from an enforcing database (purge_expired_groups).
PurgedIsGone ==
    \A p \in Places : place[p] = "gone" =>
        /\ foreignKeys \/ p \in Groups => Under(p) = {}
        /\ p \in Groups => alarm[p] = "none"
=============================================================================
