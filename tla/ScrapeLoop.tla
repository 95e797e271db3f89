----------------------------- MODULE ScrapeLoop -----------------------------
(***************************************************************************)
(* A scheduled run of local mode: the creators of a group are scraped one  *)
(* after the other in one database session, with attempts through several  *)
(* proxies and retries, and then a once schedule is marked executed.  A    *)
(* failed flush rolls the session back and leaves it unusable: nothing in  *)
(* the loop resets it.  The report to the proxy pool commits whatever the  *)
(* session holds.                                                          *)
(***************************************************************************)
EXTENDS Naturals, FiniteSets

CONSTANTS
    Members,       \* the active creators of the group
    Listed,         \* what TikTok may list for a creator
    Attempts,       \* proxies that are tried for one scrape
    MaxRetries      \* scrape_max_retries

ASSUME ScrapeAssumption ==
    /\ Attempts \in Nat \ {0}
    /\ MaxRetries \in Nat

VARIABLES
    left,       \* creators the loop has not come to
    scrape,     \* the creator under way
    pending,    \* what the session has flushed: <<creator, video>>, <<creator, Stamp>>
    saved,      \* what is committed
    usable,     \* the session has not been left by a failed flush
    tally,      \* creators counted as success, and as failed
    run         \* the run: under way, or how it ended

scrapeVars == <<left, scrape, pending, saved, usable, tally, run>>

Stamp == "stamp"
NoScrape == [stage |-> "idle"]
Writes == Members \X (Listed \cup {Stamp})

ScrapeTypeOK ==
    /\ left \in SUBSET Members
    /\ scrape \in {NoScrape} \cup
          [stage : {"fetch", "store", "report"}, creator : Members, tries : 0 .. MaxRetries,
           attempt : 1 .. Attempts, proxy : BOOLEAN, fetched : SUBSET Listed,
           stored : SUBSET Listed]
    /\ pending \in SUBSET Writes
    /\ saved \in SUBSET Writes
    /\ usable \in BOOLEAN
    /\ tally \in [success : SUBSET Members, failed : SUBSET Members]
    /\ run \in {"loop", "executed", "raised"}

ScrapeInit ==
    /\ left = Members
    /\ scrape = NoScrape
    /\ pending = {}
    /\ saved = {}
    /\ usable = TRUE
    /\ tally = [success |-> {}, failed |-> {}]
    /\ run = "loop"

-----------------------------------------------------------------------------
Begin(c, tries, attempt, proxy) ==
    [stage |-> "fetch", creator |-> c, tries |-> tries, attempt |-> attempt,
     proxy |-> proxy, fetched |-> {}, stored |-> {}]

\* Leaving the session of a proxy commits, unless the session cannot.
Report == IF scrape.proxy THEN /\ saved' = saved \cup pending
                               /\ pending' = {}
          ELSE UNCHANGED <<saved, pending>>

\* The except branch: again after a pause, or the creator has failed.  (A bug
\* would be to count the retries from one.)
FailedOnceMore ==
    IF scrape.tries <= MaxRetries
    THEN /\ \E proxy \in BOOLEAN :
               scrape' = Begin(scrape.creator, scrape.tries + 1, 1, proxy)
         /\ UNCHANGED tally
    ELSE /\ scrape' = NoScrape
         /\ tally' = [tally EXCEPT !.failed = @ \cup {scrape.creator}]

Failed ==
    IF scrape.tries < MaxRetries
    THEN /\ \E proxy \in BOOLEAN :
               scrape' = Begin(scrape.creator, scrape.tries + 1, 1, proxy)
         /\ UNCHANGED tally
    ELSE /\ scrape' = NoScrape
         /\ tally' = [tally EXCEPT !.failed = @ \cup {scrape.creator}]

\* The transaction is gone with what it had flushed.
Broken == usable' = FALSE /\ pending' = {} /\ UNCHANGED saved

-----------------------------------------------------------------------------

\* scrape_group_creators takes the next creator; proxy says if the pool gives
\* one (the environment's proxy and none are not reported).
TakeCreator(c, proxy) ==
    /\ run = "loop"
    /\ scrape = NoScrape
    /\ c \in left
    /\ left' = left \ {c}
    /\ scrape' = Begin(c, 0, 1, proxy)
    /\ UNCHANGED <<pending, saved, usable, tally, run>>

\* An empty list is tried again through the next proxy, if there is one.
FetchEmpty(proxy) ==
    /\ scrape.stage = "fetch"
    /\ usable
    /\ scrape.attempt < Attempts
    /\ scrape' = Begin(scrape.creator, scrape.tries, scrape.attempt + 1, proxy)
    /\ Report
    /\ UNCHANGED <<left, usable, tally, run>>

Fetch(vs) ==
    /\ scrape.stage = "fetch"
    /\ usable
    /\ vs = {} => scrape.attempt = Attempts
    /\ scrape' = [scrape EXCEPT !.stage = "store", !.fetched = vs]
    /\ UNCHANGED <<left, pending, saved, usable, tally, run>>

\* With an unusable session the creator cannot even be read.
ScrapeBroken ==
    /\ scrape.stage = "fetch"
    /\ ~usable
    /\ Failed
    /\ UNCHANGED <<left, pending, saved, usable, run>>

StoreListed(v) ==
    /\ scrape.stage = "store"
    /\ v \in scrape.fetched \ scrape.stored
    /\ scrape' = [scrape EXCEPT !.stored = @ \cup {v}]
    /\ pending' = pending \cup {<<scrape.creator, v>>}
    /\ UNCHANGED <<left, saved, usable, tally, run>>

\* An exception of the fetch or of a cover file: the report commits the videos
\* so far.
ScrapeRaises ==
    /\ scrape.stage = "fetch" \/ (scrape.stage = "store" /\ scrape.stored # scrape.fetched)
    /\ usable
    /\ Report
    /\ Failed
    /\ UNCHANGED <<left, usable, run>>

\* A flush, a commit or the report fails (the database is locked, a unique key).
\* _flush_with_retry does not help: the second flush finds a session that has
\* to be rolled back.
FlushFails ==
    /\ scrape.stage \in {"fetch", "store", "report"}
    /\ usable
    /\ Broken
    /\ Failed
    /\ UNCHANGED <<left, run>>

\* (A bug would be to leave the commit to the end of the run.)
ScrapeFinishesOpen ==
    /\ scrape.stage = "store"
    /\ scrape.stored = scrape.fetched
    /\ pending' = pending \cup {<<scrape.creator, Stamp>>}
    /\ scrape' = [scrape EXCEPT !.stage = "report"]
    /\ UNCHANGED <<left, saved, usable, tally, run>>

\* The stamp is set and the scrape committed, then reported.
ScrapeFinishes ==
    /\ scrape.stage = "store"
    /\ scrape.stored = scrape.fetched
    /\ saved' = saved \cup pending \cup {<<scrape.creator, Stamp>>}
    /\ pending' = {}
    /\ scrape' = [scrape EXCEPT !.stage = "report"]
    /\ UNCHANGED <<left, usable, tally, run>>

ScrapeReported ==
    /\ scrape.stage = "report"
    /\ Report
    /\ tally' = [tally EXCEPT !.success = @ \cup {scrape.creator}]
    /\ scrape' = NoScrape
    /\ UNCHANGED <<left, usable, run>>

\* (A bug would be to mark the schedule in a finally clause.)
RunEndsFinally ==
    /\ run = "loop"
    /\ left = {}
    /\ scrape = NoScrape
    /\ run' = "executed"
    /\ saved' = saved \cup pending
    /\ pending' = {}
    /\ UNCHANGED <<left, scrape, usable, tally>>

\* _run_creator_scrape, _run_hot_ingest_schedule: the mark needs the session.
RunEnds ==
    /\ run = "loop"
    /\ left = {}
    /\ scrape = NoScrape
    /\ run' = IF usable THEN "executed" ELSE "raised"
    /\ saved' = saved \cup pending
    /\ pending' = {}
    /\ UNCHANGED <<left, scrape, usable, tally>>

\* With auto_historical the mode of the next creator is read from its row,
\* outside the try of the loop.
RunRaises ==
    /\ run = "loop"
    /\ scrape = NoScrape
    /\ left # {}
    /\ ~usable
    /\ run' = "raised"
    /\ pending' = {}
    /\ UNCHANGED <<left, scrape, saved, usable, tally>>

ScrapeNext ==
    \/ \E c \in Members, proxy \in BOOLEAN : TakeCreator(c, proxy)
    \/ \E proxy \in BOOLEAN : FetchEmpty(proxy)
    \/ \E vs \in SUBSET Listed : Fetch(vs)
    \/ \E v \in Listed : StoreListed(v)
    \/ ScrapeBroken \/ ScrapeRaises \/ FlushFails \/ ScrapeFinishes \/ ScrapeReported
    \/ RunEnds \/ RunRaises

ScrapeSpec == ScrapeInit /\ [][ScrapeNext]_scrapeVars

-----------------------------------------------------------------------------
(* Properties.                                                             *)

\* What is counted as a success is committed, whatever becomes of the session
\* later, and until then nothing that was stored is lost unless the scrape
\* raises (scrape_creator).
SuccessIsSaved ==
    /\ \A c \in tally.success : <<c, Stamp>> \in saved
    /\ scrape # NoScrape =>
          \A v \in scrape.stored : <<scrape.creator, v>> \in pending \cup saved

\* A schedule is marked only if every creator was scraped, or failed as often
\* as it is retried, and no write of the run was rolled back
\* (_run_creator_scrape).
MarkedMeansTried ==
    run = "executed" => usable /\ tally.success \cup tally.failed = Members
=============================================================================
