------------------------------ MODULE VideoRefs ------------------------------
(***************************************************************************)
(* Favourites, shares and daily records refer to videos by their row's id, *)
(* and deleting a creator deletes its videos.  PostgreSQL (hybrid) refuses *)
(* the deletion of a video that a row refers to.  SQLite (local) does not, *)
(* and gives the id of the last row, once deleted, to the next video.      *)
(***************************************************************************)
EXTENDS Integers, FiniteSets

CONSTANTS
    Ids,            \* ids of video rows: 1 .. some bound
    Users,          \* users and, for a daily record, days
    Clients         \* requests that are served at the same time

ASSUME VideoRefsAssumption == IsFiniteSet(Ids) /\ Ids = 1 .. Cardinality(Ids)

VARIABLES
    enforced,   \* the database enforces foreign keys
    video,      \* ids of the videos
    given,      \* the last id given to a video
    refs,       \* <<kind, user, id>>: the rows that refer to videos
    client      \* what a request has looked up

refVars == <<enforced, video, given, refs, client>>

RefKinds == {"favorite", "share", "daily_hot"}
Refs == RefKinds \X Users \X Ids
NoClient == {}

RefsTypeOK ==
    /\ enforced \in BOOLEAN
    /\ video \in SUBSET Ids
    /\ given \in Ids \cup {0}
    /\ refs \in SUBSET Refs
    /\ client \in [Clients -> SUBSET Refs]

RefsInit ==
    /\ enforced \in BOOLEAN
    /\ video = {}
    /\ given = 0
    /\ refs = {}
    /\ client = [r \in Clients |-> NoClient]

\* A scrape stores a new video: PostgreSQL never gives an id twice, SQLite
\* gives the one after the largest there is.
NextId == IF enforced THEN given + 1
          ELSE IF video = {} THEN 1 ELSE 1 + CHOOSE n \in video : \A m \in video : m <= n

StoreVideo ==
    /\ NextId \in Ids
    /\ video' = video \cup {NextId}
    /\ given' = NextId
    /\ UNCHANGED <<enforced, refs, client>>

Referred(n) == \E ref \in refs : ref[3] = n

\* delete_creator: the creator's videos, with their snapshots, recognitions and
\* archives, in one transaction.
DeleteVideos(ns) ==
    /\ ns # {} /\ ns \subseteq video
    /\ enforced => \A n \in ns : ~Referred(n)
    /\ video' = video \ ns
    /\ UNCHANGED <<enforced, given, refs, client>>

\* add_favorite, create_share and record_daily_hot look the video up and insert
\* the row in the end.
LookUp(r, ref) ==
    /\ client[r] = NoClient
    /\ ref[3] \in video
    /\ ref \notin refs
    /\ client' = [client EXCEPT ![r] = {ref}]
    /\ UNCHANGED <<enforced, video, given, refs>>

\* The unique constraints and the foreign keys hold or the request fails.
Insert(r) ==
    /\ client[r] # NoClient
    /\ refs' = IF enforced /\ \E ref \in client[r] : ref[3] \notin video
               THEN refs ELSE refs \cup client[r]
    /\ client' = [client EXCEPT ![r] = NoClient]
    /\ UNCHANGED <<enforced, video, given>>

\* Favourites (one or a batch of one user) and a share are taken back.
RemoveRefs(kind, user, ns) ==
    /\ kind # "daily_hot"
    /\ ns # {} /\ \A n \in ns : <<kind, user, n>> \in refs
    /\ kind = "share" => Cardinality(ns) = 1
    /\ refs' = refs \ {<<kind, user, n>> : n \in ns}
    /\ UNCHANGED <<enforced, video, given, client>>

RefsNext ==
    \/ StoreVideo
    \/ \E ns \in SUBSET Ids : DeleteVideos(ns)
    \/ \E r \in Clients : (\E ref \in Refs : LookUp(r, ref)) \/ Insert(r)
    \/ \E kind \in RefKinds, user \in Users, ns \in SUBSET Ids : RemoveRefs(kind, user, ns)

RefsSpec == RefsInit /\ [][RefsNext]_refVars
=============================================================================
