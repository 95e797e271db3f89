----------------------------- MODULE VideoFetch -----------------------------
(***************************************************************************)
(* TikTokScraper.fetch_creator_videos: what TikTok lists for a creator is  *)
(* asked from the profile page, then page by page from the list API, then  *)
(* from yt-dlp, then from a browser that scrolls, while the creator posts. *)
(* Every source may fail; a window of 0 hours asks for everything, and     *)
(* then yt-dlp and the browser are asked in any case.                      *)
(***************************************************************************)
EXTENDS Integers, FiniteSets, FiniteSetsExt

CONSTANTS
    MaxPosts,       \* posts are numbered by age: 1 is the oldest
    PageSize,       \* most posts of a page of the list, pinned ones not counted
    MaxItems,       \* posts after which no further page is asked for
    Tries,          \* times the browser is started (3)
    StopAfter,      \* rounds without a new post after which scrolling stops
    MaxRounds       \* rounds of scrolling

ASSUME FetchAssumption ==
    /\ MaxPosts \in Nat /\ PageSize \in Nat \ {0} /\ MaxItems \in Nat \ {0}
    /\ Tries \in Nat \ {0} /\ StopAfter \in Nat \ {0} /\ MaxRounds \in Nat \ {0}

VARIABLES
    newest,     \* the posts are 1 .. newest
    pinned,     \* posts that the creator has pinned to the top of the list
    since,      \* the oldest post of the window, 0 if there is no window
    fetch,      \* how far the fetch has got
    found,      \* the videos it has
    got,        \* what each source has given (history)
    listing     \* the newest post when the list was asked, and how it ended (history)

fetchVars == <<newest, pinned, since, fetch, found, got, listing>>

Posts == 1 .. MaxPosts
Public == 1 .. newest
Sources == {"html", "api", "ytdlp", "browser"}
Unlimited == since = 0
InWindow(posts) == {n \in posts : n >= since}
Start == [stage |-> "profile"]

FetchTypeOK ==
    /\ newest \in 0 .. MaxPosts
    /\ pinned \in SUBSET Posts
    /\ since \in 0 .. MaxPosts
    /\ fetch \in [stage : {"profile", "ytdlp", "mock", "done"}]
          \cup [stage : {"api"}, cursor : Posts \cup {MaxPosts + 1},
                collected : SUBSET Posts, pages : Nat]
          \cup [stage : {"browser"}, attempt : 1 .. Tries, items : SUBSET Posts,
                prev : 0 .. MaxPosts, round : 0 .. MaxRounds, stagnant : 0 .. StopAfter]
    /\ found \in SUBSET Posts
    /\ got \in [Sources -> SUBSET Posts]
    /\ listing \in [from : 0 .. MaxPosts, end : {"none", "whole", "failed", "limit", "pinned"}]

FetchInit ==
    /\ newest \in 0 .. MaxPosts
    /\ pinned \in SUBSET Public
    /\ since \in 0 .. MaxPosts
    /\ fetch = Start
    /\ found = {}
    /\ got = [source \in Sources |-> {}]
    /\ listing = [from |-> 0, end |-> "none"]

-----------------------------------------------------------------------------
\* The creator posts; TikTok's order is its own, pinned posts come first.
Post ==
    /\ newest < MaxPosts
    /\ newest' = newest + 1
    /\ UNCHANGED <<pinned, since, fetch, found, got, listing>>

NewAttempt(n) == [stage |-> "browser", attempt |-> n, items |-> {}, prev |-> 0,
                  round |-> 0, stagnant |-> 0]

\* Whether the next source is asked at all.
Wanting(videos) == videos = {} \/ Unlimited
Then(next, videos) == IF Wanting(videos) THEN next ELSE [stage |-> "done"]
Give(source, videos) == got' = [got EXCEPT ![source] = videos]

\* The videos that the profile page holds; their times are made up from their
\* places, so the window may keep any of them.
ProfileLists(videos) ==
    /\ fetch.stage = "profile"
    /\ videos # {} /\ videos \subseteq Public
    /\ found' = videos
    /\ Give("html", videos)
    /\ fetch' = Then([stage |-> "ytdlp"], videos)
    /\ UNCHANGED <<newest, pinned, since, listing>>

\* No video in it, but the id that the list is asked with.
ProfileOnly ==
    /\ fetch.stage = "profile"
    /\ fetch' = [stage |-> "api", cursor |-> MaxPosts + 1, collected |-> {}, pages |-> 0]
    /\ listing' = [listing EXCEPT !.from = newest]
    /\ UNCHANGED <<newest, pinned, since, found, got>>

\* No answer, another status, or no id.
ProfileFails ==
    /\ fetch.stage = "profile"
    /\ fetch' = [stage |-> "ytdlp"]
    /\ UNCHANGED <<newest, pinned, since, found, got, listing>>

-----------------------------------------------------------------------------
(* _fetch_videos_via_api.                                                  *)

\* The answer to a cursor (external): the posts before it, newest first, and on
\* top of the first page what is pinned.  When there are none, an empty page or
\* the last one again, with the same cursor.
Older(cursor) == {n \in Public : n < cursor}
Newest(posts) == {n \in posts : Cardinality({m \in posts : m > n}) < PageSize}
Page(cursor) == Newest(IF Older(cursor) = {} THEN Public ELSE Older(cursor))
PageItems == Page(fetch.cursor) \cup (IF fetch.cursor > MaxPosts THEN pinned ELSE {})

EndApi(videos, end) ==
    /\ found' = videos
    /\ Give("api", videos)
    /\ fetch' = Then([stage |-> "ytdlp"], videos)
    /\ listing' = [listing EXCEPT !.end = end]

\* Another status, no JSON, or a page without posts: what was collected stays.
PageMissing ==
    /\ fetch.stage = "api"
    /\ EndApi(fetch.collected, IF Older(fetch.cursor) = {} THEN "whole" ELSE "failed")
    /\ UNCHANGED <<newest, pinned, since>>

\* A request that raises loses what was collected.
PageRaises ==
    /\ fetch.stage = "api"
    /\ EndApi({}, "failed")
    /\ UNCHANGED <<newest, pinned, since>>

\* When the list is left: a post before the window, no more, or the same cursor
\* again.  (Bugs would be to leave it at a page without news, or to trust the
\* flag alone.)
LeavesAtNoNews(items, more, next) ==
    \/ \E n \in items : n < since
    \/ ~more
    \/ InWindow(items) \subseteq fetch.collected
LeavesByFlag(items, more, next) ==
    \/ \E n \in items : n < since
    \/ ~more
Leaves(items, more, next) ==
    \/ \E n \in items : n < since
    \/ ~more
    \/ next = fetch.cursor

PageListed(more) ==
    /\ fetch.stage = "api"
    /\ PageItems # {}
    /\ LET items == PageItems
           older == Older(fetch.cursor)
           next == IF older = {} THEN fetch.cursor ELSE Min(Page(fetch.cursor))
           collected == fetch.collected \cup InWindow(items)
           passed(ns) == \E n \in ns : n < since
       IN  /\ Older(next) # {} => more
           /\ IF Leaves(items, more, next)
              THEN EndApi(collected, IF passed(items) /\ ~passed(Page(fetch.cursor))
                                     THEN "pinned" ELSE "whole")
              ELSE IF Cardinality(collected) >= MaxItems THEN EndApi(collected, "limit")
              ELSE /\ fetch' = [fetch EXCEPT !.cursor = next, !.collected = collected,
                                             !.pages = @ + 1]
                   /\ UNCHANGED <<found, got, listing>>
    /\ UNCHANGED <<newest, pinned, since>>

-----------------------------------------------------------------------------
(* yt-dlp, the browser, the mock.                                          *)

\* (A bug would be to take whatever yt-dlp lists.)
TakeAny(videos) == IF videos = {} THEN found ELSE videos

\* Its list replaces a shorter one.
TakeLonger(videos) ==
    IF videos # {} /\ Cardinality(videos) >= Cardinality(found) THEN videos ELSE found

\* yt-dlp lists posts or fails; posts it gives no time for count as new.
YtdlpLists(videos) ==
    /\ fetch.stage = "ytdlp"
    /\ videos \subseteq Public
    /\ found' = TakeLonger(videos)
    /\ Give("ytdlp", videos)
    /\ fetch' = Then(NewAttempt(1), TakeLonger(videos))
    /\ UNCHANGED <<newest, pinned, since, listing>>

\* A round: the browser scrolls, and the answers that have arrived by its end
\* are kept (a slow one may come later).
Scroll(items) ==
    /\ fetch.stage = "browser"
    /\ fetch.round < MaxRounds
    /\ fetch.stagnant < StopAfter
    /\ items \subseteq Public \ fetch.items
    /\ LET all == fetch.items \cup items
           still == Cardinality(all) = fetch.prev
       IN  fetch' = [fetch EXCEPT !.items = all, !.prev = Cardinality(all), !.round = @ + 1,
                                  !.stagnant = IF still THEN @ + 1 ELSE 0]
    /\ UNCHANGED <<newest, pinned, since, found, got, listing>>

EndFetch(videos) ==
    fetch' = [stage |-> IF videos = {} THEN "mock" ELSE "done"]

\* An exception ends the rounds, or, before them, the attempt with nothing.
BrowserEnds ==
    /\ fetch.stage = "browser"
    /\ LET videos == InWindow(fetch.items)
           all == found \cup videos
       IN  /\ found' = all
           /\ got' = [got EXCEPT !["browser"] = @ \cup videos]
           /\ IF (Unlimited /\ videos # {}) \/ (~Unlimited /\ all # {}) \/ fetch.attempt = Tries
              THEN EndFetch(all)
              ELSE fetch' = NewAttempt(fetch.attempt + 1)
    /\ UNCHANGED <<newest, pinned, since, listing>>

\* scrape_allow_mock: videos of its own, else nothing.
Mock(allowed) ==
    /\ fetch.stage = "mock"
    /\ fetch' = [stage |-> "done"]
    /\ found' = IF allowed THEN Posts ELSE {}
    /\ UNCHANGED <<newest, pinned, since, got, listing>>

FetchNext ==
    \/ Post
    \/ \E videos \in SUBSET Posts : \/ ProfileLists(videos) \/ YtdlpLists(videos)
                                    \/ Scroll(videos)
    \/ ProfileOnly \/ ProfileFails \/ PageMissing \/ PageRaises
    \/ \E more \in BOOLEAN : PageListed(more)
    \/ BrowserEnds
    \/ \E allowed \in BOOLEAN : Mock(allowed)

FetchSpec == FetchInit /\ [][FetchNext]_fetchVars

-----------------------------------------------------------------------------
(* Properties.                                                             *)

\* A list that was read to its end gave every post of the window that was there
\* when it was asked, although pinned posts come out of order and twice and
\* others are posted meanwhile; it ends early after a failure, at the limit, or
\* at an old post that is pinned (_fetch_videos_via_api).
ListComplete ==
    listing.end = "whole" => InWindow(1 .. listing.from) \subseteq got["api"]

\* The fetch ends: no page is asked for twice (the cursor's test).
PagesBounded == fetch.stage = "api" => fetch.pages <= MaxPosts

\* Each source that is asked leaves at least as many videos as it and those
\* before it gave, and what the browser saw is kept (fetch_creator_videos).
BestKept ==
    fetch.stage = "done" =>
        /\ \A source \in Sources : Cardinality(got[source]) <= Cardinality(found)
        /\ got["browser"] \subseteq found
=============================================================================
