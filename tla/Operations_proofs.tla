------------------------- MODULE Operations_proofs --------------------------
(***************************************************************************)
(* Theorems about the parts that ask TikTok for videos, keep the settings  *)
(* and watch the machines: ScrapeLoop, VideoFetch, RuntimeSettings,        *)
(* SnapshotPurge, ProxyGateway and ClusterMonitor, for any creators, videos, *)
(* keys, processes and nodes and any bounds that meet the assumptions of   *)
(* these modules.  They share no state; each has a section of its own.     *)
(***************************************************************************)
EXTENDS ScrapeLoop, VideoFetch, RuntimeSettings, SnapshotPurge, ProxyGateway,
        ClusterMonitor, FiniteSetTheorems, SequenceTheorems, WellFoundedInduction, TLAPS

\* A set of numbers that is not empty has a least element.
LEMMA LeastExists ==
    ASSUME NEW ns \in SUBSET Nat, ns # {}
    PROVE  \E n \in ns : \A m \in ns : n <= m
<1>1. PICK n \in ns : \A m \in ns : ~ (<<m, n>> \in OpToRel(<, Nat))
    BY WFMin, NatLessThanWellFounded
<1>2. \A m \in ns : ~ (m < n)
    BY <1>1 DEF OpToRel
<1> QED
    BY <1>2

-----------------------------------------------------------------------------
(* ScrapeLoop: what a success has saved, and what the mark stands for.     *)

Underway ==
    [stage : {"fetch", "store", "report"}, creator : Members, tries : 0 .. MaxRetries,
     attempt : 1 .. Attempts, proxy : BOOLEAN, fetched : SUBSET Listed, stored : SUBSET Listed]

\* An attempt begins with nothing stored.
LEMMA BeginType ==
    ASSUME NEW c \in Members, NEW n \in 0 .. MaxRetries, NEW a \in 1 .. Attempts,
           NEW proxy \in BOOLEAN
    PROVE  Begin(c, n, a, proxy) \in Underway
BY DEF Begin, Underway

\* Where the scrape goes on.
LEMMA Scraping ==
    ASSUME ScrapeTypeOK, scrape.stage # "idle"
    PROVE  scrape \in Underway
BY DEF ScrapeTypeOK, NoScrape, Underway

\* A failed attempt is tried again, with nothing stored, or the creator failed.
LEMMA FailedType ==
    ASSUME ScrapeTypeOK, scrape \in Underway, Failed
    PROVE  \/ /\ \E proxy \in BOOLEAN :
                    scrape' = Begin(scrape.creator, scrape.tries + 1, 1, proxy)
              /\ scrape' \in Underway
              /\ tally' = tally
           \/ /\ scrape' = NoScrape
              /\ tally' = [tally EXCEPT !.failed = @ \cup {scrape.creator}]
              /\ tally' \in [success : SUBSET Members, failed : SUBSET Members]
<1>1. CASE scrape.tries < MaxRetries
    <2>1. scrape.tries + 1 \in 0 .. MaxRetries /\ 1 \in 1 .. Attempts
        BY <1>1, ScrapeAssumption DEF Underway
    <2> QED
        BY <1>1, <2>1, BeginType DEF Failed, Underway
<1>2. CASE ~(scrape.tries < MaxRetries)
    BY <1>2 DEF Failed, ScrapeTypeOK, Underway
<1> QED
    BY <1>1, <1>2

\* Typing: Init establishes ScrapeTypeOK.
LEMMA ScrapeInitType == ScrapeInit => ScrapeTypeOK
BY DEF ScrapeInit, ScrapeTypeOK, Writes

\* Typing: every step preserves ScrapeTypeOK.
LEMMA ScrapeNextType == ScrapeTypeOK /\ [ScrapeNext]_scrapeVars => ScrapeTypeOK'
<1> SUFFICES ASSUME ScrapeTypeOK, [ScrapeNext]_scrapeVars PROVE ScrapeTypeOK'
    OBVIOUS
<1>0. /\ left \in SUBSET Members /\ scrape \in {NoScrape} \cup Underway
      /\ pending \in SUBSET Writes /\ saved \in SUBSET Writes /\ usable \in BOOLEAN
      /\ tally \in [success : SUBSET Members, failed : SUBSET Members]
      /\ run \in {"loop", "executed", "raised"}
    BY DEF ScrapeTypeOK, Underway
<1> SUFFICES /\ left' \in SUBSET Members /\ scrape' \in {NoScrape} \cup Underway
             /\ pending' \in SUBSET Writes /\ saved' \in SUBSET Writes /\ usable' \in BOOLEAN
             /\ tally' \in [success : SUBSET Members, failed : SUBSET Members]
             /\ run' \in {"loop", "executed", "raised"}
    BY DEF ScrapeTypeOK, Underway
<1>1. ASSUME NEW c \in Members, NEW proxy \in BOOLEAN, TakeCreator(c, proxy)
      PROVE  scrape' \in Underway
    BY <1>1, BeginType, ScrapeAssumption DEF TakeCreator
<1>2. ASSUME NEW proxy \in BOOLEAN, FetchEmpty(proxy)
      PROVE  scrape' \in Underway
    <2>1. scrape \in Underway
        BY <1>2, Scraping DEF FetchEmpty
    <2>2. scrape.attempt + 1 \in 1 .. Attempts
        BY <1>2, <2>1, ScrapeAssumption DEF FetchEmpty, Underway
    <2> QED
        BY <1>2, <2>1, <2>2, BeginType DEF FetchEmpty, Underway
<1>3. ASSUME NEW vs \in SUBSET Listed, Fetch(vs) PROVE scrape' \in Underway
    <2>1. scrape \in Underway
        BY <1>3, Scraping DEF Fetch
    <2> DEFINE fetching == [scrape EXCEPT !.stage = "store"]
    <2>2. fetching \in Underway
        BY <2>1 DEF Underway
    <2>3. scrape' = [fetching EXCEPT !.fetched = vs]
        BY <1>3 DEF Fetch
    <2> HIDE DEF fetching
    <2> QED
        BY <2>2, <2>3 DEF Underway
<1>4. ASSUME NEW v \in Listed, StoreListed(v)
      PROVE  scrape' \in Underway /\ pending' \in SUBSET Writes
    <2>1. scrape \in Underway
        BY <1>4, Scraping DEF StoreListed
    <2>2. <<scrape.creator, v>> \in Writes
        BY <2>1 DEF Underway, Writes
    <2> QED
        BY <1>0, <1>4, <2>1, <2>2 DEF StoreListed, Underway
<1>5. ASSUME ScrapeBroken \/ ScrapeRaises \/ FlushFails
      PROVE  /\ scrape' \in {NoScrape} \cup Underway
             /\ tally' \in [success : SUBSET Members, failed : SUBSET Members]
    <2>1. scrape \in Underway /\ Failed
        BY <1>5, Scraping DEF ScrapeBroken, ScrapeRaises, FlushFails
    <2> QED
        BY <1>0, <2>1, FailedType
<1>6. ASSUME ScrapeFinishes PROVE scrape' \in Underway /\ saved' \in SUBSET Writes
    <2>1. scrape \in Underway
        BY <1>6, Scraping DEF ScrapeFinishes
    <2>2. <<scrape.creator, Stamp>> \in Writes
        BY <2>1 DEF Underway, Writes
    <2> QED
        BY <1>0, <1>6, <2>1, <2>2 DEF ScrapeFinishes, Underway
<1>7. ASSUME ScrapeReported
      PROVE  tally' \in [success : SUBSET Members, failed : SUBSET Members]
    <2>1. scrape \in Underway
        BY <1>7, Scraping DEF ScrapeReported
    <2> QED
        BY <1>0, <1>7, <2>1 DEF ScrapeReported, Underway
<1> QED
    BY <1>0, <1>1, <1>2, <1>3, <1>4, <1>5, <1>6, <1>7
       DEF ScrapeNext, scrapeVars, TakeCreator, FetchEmpty, Fetch, StoreListed, ScrapeBroken,
           ScrapeRaises, FlushFails, ScrapeFinishes, ScrapeReported, RunEnds, RunRaises,
           Report, Broken

\* The variables of ScrapeLoop keep their types (scrape_group_creators).
THEOREM ScrapeTypeCorrect == ScrapeSpec => []ScrapeTypeOK
<1> QED
    BY ScrapeInitType, ScrapeNextType, PTL DEF ScrapeSpec

-----------------------------------------------------------------------------
(* Successes.                                                              *)

\* A scrape that is only to be reported is committed.
SavedInv ==
    /\ ScrapeTypeOK
    /\ SuccessIsSaved
    /\ scrape.stage = "report" => <<scrape.creator, Stamp>> \in saved

\* What is saved stays saved, and what is flushed is given up only with the attempt.
LEMMA SavedStep == SavedInv /\ [ScrapeNext]_scrapeVars => SavedInv'
<1> SUFFICES ASSUME SavedInv, [ScrapeNext]_scrapeVars
             PROVE  /\ SuccessIsSaved'
                    /\ (scrape.stage = "report" => <<scrape.creator, Stamp>> \in saved)'
    BY ScrapeNextType DEF SavedInv
<1> USE DEF SavedInv
<1>1. ASSUME NEW c \in Members, NEW proxy \in BOOLEAN, TakeCreator(c, proxy)
      PROVE  /\ SuccessIsSaved'
             /\ (scrape.stage = "report" => <<scrape.creator, Stamp>> \in saved)'
    BY <1>1 DEF TakeCreator, Begin, SuccessIsSaved
<1>2. ASSUME NEW proxy \in BOOLEAN, FetchEmpty(proxy)
      PROVE  /\ SuccessIsSaved'
             /\ (scrape.stage = "report" => <<scrape.creator, Stamp>> \in saved)'
    BY <1>2 DEF FetchEmpty, Report, Begin, SuccessIsSaved
<1>3. ASSUME NEW vs \in SUBSET Listed, Fetch(vs)
      PROVE  /\ SuccessIsSaved'
             /\ (scrape.stage = "report" => <<scrape.creator, Stamp>> \in saved)'
    <2>1. /\ scrape \in Underway /\ scrape # NoScrape
          /\ UNCHANGED <<pending, saved, tally>>
        BY <1>3, Scraping DEF Fetch, NoScrape
    <2>2. /\ scrape'.stage = "store" /\ scrape'.creator = scrape.creator
          /\ scrape'.stored = scrape.stored
        BY <1>3, <2>1 DEF Fetch, Underway
    <2> QED
        BY <2>1, <2>2 DEF SuccessIsSaved
<1>4. ASSUME NEW v \in Listed, StoreListed(v)
      PROVE  /\ SuccessIsSaved'
             /\ (scrape.stage = "report" => <<scrape.creator, Stamp>> \in saved)'
    <2>1. scrape \in Underway /\ scrape # NoScrape
        BY <1>4, Scraping DEF StoreListed, NoScrape
    <2>2. /\ scrape'.stage = "store" /\ scrape'.creator = scrape.creator
          /\ scrape'.stored = scrape.stored \cup {v}
        BY <1>4, <2>1 DEF StoreListed, Underway
    <2> QED
        BY <1>4, <2>1, <2>2 DEF StoreListed, SuccessIsSaved
<1>5. ASSUME ScrapeBroken \/ ScrapeRaises \/ FlushFails
      PROVE  /\ SuccessIsSaved'
             /\ (scrape.stage = "report" => <<scrape.creator, Stamp>> \in saved)'
    <2>1. scrape \in Underway /\ Failed
        BY <1>5, Scraping DEF ScrapeBroken, ScrapeRaises, FlushFails
    <2>2. saved \subseteq saved'
        BY <1>5 DEF ScrapeBroken, ScrapeRaises, FlushFails, Report, Broken
    <2>3. /\ tally'.success = tally.success
          /\ \/ scrape' = NoScrape
             \/ \E proxy \in BOOLEAN :
                   scrape' = Begin(scrape.creator, scrape.tries + 1, 1, proxy)
        BY <2>1, FailedType DEF ScrapeTypeOK
    <2>4. scrape'.stage # "report" /\ (scrape' # NoScrape => scrape'.stored = {})
        BY <2>3 DEF Begin, NoScrape
    <2> QED
        BY <2>2, <2>3, <2>4 DEF SuccessIsSaved
<1>6. ASSUME ScrapeFinishes
      PROVE  /\ SuccessIsSaved'
             /\ (scrape.stage = "report" => <<scrape.creator, Stamp>> \in saved)'
    <2>1. scrape \in Underway /\ scrape # NoScrape
        BY <1>6, Scraping DEF ScrapeFinishes, NoScrape
    <2>2. scrape'.creator = scrape.creator /\ scrape'.stored = scrape.stored
        BY <1>6, <2>1 DEF ScrapeFinishes, Underway
    <2> QED
        BY <1>6, <2>1, <2>2 DEF ScrapeFinishes, SuccessIsSaved
<1>7. ASSUME ScrapeReported
      PROVE  /\ SuccessIsSaved'
             /\ (scrape.stage = "report" => <<scrape.creator, Stamp>> \in saved)'
    <2>1. /\ saved \subseteq saved' /\ scrape' = NoScrape
          /\ <<scrape.creator, Stamp>> \in saved
        BY <1>7 DEF ScrapeReported, Report
    <2>2. tally'.success = tally.success \cup {scrape.creator}
        BY <1>7 DEF ScrapeReported, ScrapeTypeOK
    <2> QED
        BY <2>1, <2>2 DEF SuccessIsSaved, NoScrape
<1>8. ASSUME RunEnds \/ RunRaises
      PROVE  /\ SuccessIsSaved'
             /\ (scrape.stage = "report" => <<scrape.creator, Stamp>> \in saved)'
    BY <1>8 DEF RunEnds, RunRaises, SuccessIsSaved, NoScrape
<1>9. CASE UNCHANGED scrapeVars
    BY <1>9 DEF scrapeVars, SuccessIsSaved
<1> QED
    BY <1>1, <1>2, <1>3, <1>4, <1>5, <1>6, <1>7, <1>8, <1>9 DEF ScrapeNext

\* What is counted as a success is committed, whatever becomes of the session
\* later, and until then nothing that was stored is lost unless the scrape
\* raises (scrape_creator, report_result).
THEOREM SuccessSaved == ScrapeSpec => []SuccessIsSaved
<1>1. ScrapeInit => SavedInv
    BY ScrapeInitType DEF ScrapeInit, SavedInv, SuccessIsSaved, NoScrape
<1>2. SavedInv => SuccessIsSaved
    BY DEF SavedInv
<1> QED
    BY <1>1, <1>2, SavedStep, PTL DEF ScrapeSpec

-----------------------------------------------------------------------------
(* The mark.                                                               *)

\* Every creator is waiting, under way, or counted; a run that has ended has
\* nothing under way.
CountedInv ==
    /\ ScrapeTypeOK
    /\ MarkedMeansTried
    /\ Members \subseteq left \cup tally.success \cup tally.failed \cup
                         (IF scrape.stage = "idle" THEN {} ELSE {scrape.creator})
    /\ run # "loop" => scrape = NoScrape

\* A creator is taken from the loop only to be counted in the end.
LEMMA CountedStep == CountedInv /\ [ScrapeNext]_scrapeVars => CountedInv'
<1> SUFFICES ASSUME CountedInv, [ScrapeNext]_scrapeVars PROVE CountedInv'
    OBVIOUS
<1>0. ScrapeTypeOK'
    BY ScrapeNextType DEF CountedInv
<1> USE DEF CountedInv
<1>1. ASSUME NEW c \in Members, NEW proxy \in BOOLEAN, TakeCreator(c, proxy) PROVE CountedInv'
    BY <1>0, <1>1 DEF TakeCreator, Begin, NoScrape, MarkedMeansTried
<1>2. ASSUME NEW proxy \in BOOLEAN, FetchEmpty(proxy) PROVE CountedInv'
    <2>1. run = "loop"
        BY <1>2 DEF FetchEmpty, NoScrape, ScrapeTypeOK
    <2> QED
        BY <1>0, <1>2, <2>1 DEF FetchEmpty, Begin, MarkedMeansTried
<1>3. ASSUME (\E vs \in SUBSET Listed : Fetch(vs)) \/ (\E v \in Listed : StoreListed(v))
             \/ ScrapeFinishes
      PROVE  CountedInv'
    <2>1. scrape.stage # "idle" /\ UNCHANGED <<left, tally, run>>
        BY <1>3 DEF Fetch, StoreListed, ScrapeFinishes
    <2>2. scrape \in Underway /\ run = "loop"
        BY <2>1, Scraping DEF NoScrape
    <2>3. scrape'.stage # "idle" /\ scrape'.creator = scrape.creator
        BY <1>3, <2>2 DEF Fetch, StoreListed, ScrapeFinishes, Underway
    <2> QED
        BY <1>0, <2>1, <2>2, <2>3 DEF MarkedMeansTried
<1>4. ASSUME ScrapeBroken \/ ScrapeRaises \/ FlushFails PROVE CountedInv'
    <2>1. scrape.stage # "idle" /\ Failed /\ UNCHANGED <<left, run>>
        BY <1>4 DEF ScrapeBroken, ScrapeRaises, FlushFails
    <2>2. scrape \in Underway /\ run = "loop"
        BY <2>1, Scraping DEF NoScrape
    <2>3. \/ /\ tally' = tally
             /\ \E proxy \in BOOLEAN :
                   scrape' = Begin(scrape.creator, scrape.tries + 1, 1, proxy)
          \/ /\ scrape' = NoScrape
             /\ tally'.success = tally.success
             /\ tally'.failed = tally.failed \cup {scrape.creator}
        BY <2>1, <2>2, FailedType DEF ScrapeTypeOK
    <2> QED
        BY <1>0, <2>1, <2>2, <2>3 DEF Begin, NoScrape, MarkedMeansTried
<1>5. ASSUME ScrapeReported PROVE CountedInv'
    <2>1. /\ scrape.stage = "report" /\ scrape' = NoScrape /\ UNCHANGED <<left, run>>
          /\ tally'.success = tally.success \cup {scrape.creator}
          /\ tally'.failed = tally.failed
        BY <1>5 DEF ScrapeReported, ScrapeTypeOK
    <2>2. run = "loop"
        BY <2>1 DEF NoScrape
    <2> QED
        BY <1>0, <2>1, <2>2 DEF NoScrape, MarkedMeansTried
<1>6. ASSUME RunEnds PROVE CountedInv'
    <2>1. /\ left = {} /\ scrape.stage = "idle"
          /\ UNCHANGED <<left, scrape, usable, tally>>
          /\ run' = IF usable THEN "executed" ELSE "raised"
        BY <1>6 DEF RunEnds, NoScrape
    <2>2. tally.success \cup tally.failed = Members
        BY <2>1 DEF ScrapeTypeOK
    <2> QED
        BY <1>0, <1>6, <2>1, <2>2 DEF RunEnds, MarkedMeansTried
<1>7. ASSUME RunRaises PROVE CountedInv'
    BY <1>0, <1>7 DEF RunRaises, MarkedMeansTried
<1>8. CASE UNCHANGED scrapeVars
    BY <1>8, <1>0 DEF scrapeVars, MarkedMeansTried
<1> QED
    BY <1>1, <1>2, <1>3, <1>4, <1>5, <1>6, <1>7, <1>8 DEF ScrapeNext

\* A schedule is marked only if every creator was scraped, or failed as often as
\* it is retried, and no write of the run was rolled back (_run_creator_scrape).
THEOREM MarkMeansTried == ScrapeSpec => []MarkedMeansTried
<1>1. ScrapeInit => CountedInv
    BY ScrapeInitType DEF ScrapeInit, CountedInv, MarkedMeansTried, NoScrape
<1>2. CountedInv => MarkedMeansTried
    BY DEF CountedInv
<1> QED
    BY <1>1, <1>2, CountedStep, PTL DEF ScrapeSpec

-----------------------------------------------------------------------------
(* VideoFetch: the end of the fetch, its list, and the best of its sources. *)

\* Sets of posts are finite, and a part of one is not larger.
LEMMA PostsFinite ==
    ASSUME NEW all \in SUBSET Posts, NEW some \in SUBSET all
    PROVE  /\ IsFiniteSet(all) /\ Cardinality(all) \in Nat
           /\ Cardinality(some) \in Nat /\ Cardinality(some) <= Cardinality(all)
<1>1. IsFiniteSet(Posts)
    BY FetchAssumption, FS_Interval DEF Posts
<1>2. IsFiniteSet(all) /\ IsFiniteSet(some) /\ Cardinality(some) <= Cardinality(all)
    BY <1>1, FS_Subset
<1> QED
    BY <1>2, FS_CardinalityType

\* What the stages of a fetch hold.
LEMMA FetchFields ==
    ASSUME FetchTypeOK
    PROVE  /\ fetch.stage = "api" =>
                fetch \in [stage : {"api"}, cursor : Posts \cup {MaxPosts + 1},
                           collected : SUBSET Posts, pages : Nat]
           /\ fetch.stage = "browser" =>
                fetch \in [stage : {"browser"}, attempt : 1 .. Tries, items : SUBSET Posts,
                           prev : 0 .. MaxPosts, round : 0 .. MaxRounds,
                           stagnant : 0 .. StopAfter]
           /\ fetch.stage \in {"profile", "api", "ytdlp", "browser", "mock", "done"}
           /\ Public \in SUBSET Posts
BY FetchAssumption DEF FetchTypeOK, Public, Posts

\* A page holds public posts, the newest ones before the cursor if there are any;
\* it ends at a post, and leaves out none that is newer than one it lists.
LEMMA PageShape ==
    ASSUME FetchTypeOK, NEW cursor \in Posts \cup {MaxPosts + 1}
    PROVE  /\ Page(cursor) \in SUBSET Public
           /\ Older(cursor) # {} =>
                /\ Page(cursor) \subseteq Older(cursor)
                /\ Min(Page(cursor)) \in Page(cursor)
                /\ \A n \in Page(cursor) : Min(Page(cursor)) <= n
                /\ \A n \in Page(cursor), m \in Older(cursor) : m > n => m \in Page(cursor)
<1>0. Public \in SUBSET Posts
    BY FetchFields
<1>1. Older(cursor) \in SUBSET Posts /\ Older(cursor) \in SUBSET Nat
    <2>1. Older(cursor) \subseteq Public
        BY DEF Older
    <2>2. Posts \subseteq Nat
        BY DEF Posts
    <2> QED
        BY <1>0, <2>1, <2>2
<1>2. ASSUME Older(cursor) # {}
      PROVE  /\ Page(cursor) = Newest(Older(cursor))
             /\ Page(cursor) \subseteq Older(cursor)
    BY <1>2 DEF Page, Newest
<1>3. ASSUME Older(cursor) # {}, NEW n \in Page(cursor), NEW m \in Older(cursor), m > n
      PROVE  m \in Page(cursor)
    <2> DEFINE Above(k) == {x \in Older(cursor) : x > k}
    <2>1. n \in Older(cursor) /\ Cardinality(Above(n)) < PageSize
        BY <1>3, <1>2 DEF Newest
    <2>2. Above(m) \subseteq Above(n)
        BY <1>1, <1>3, <2>1
    <2>3. Above(n) \in SUBSET Posts
        BY <1>1
    <2>4. /\ Cardinality(Above(m)) \in Nat /\ Cardinality(Above(n)) \in Nat
          /\ Cardinality(Above(m)) <= Cardinality(Above(n))
        BY <2>2, <2>3, PostsFinite
    <2>5. Cardinality(Above(m)) < PageSize
        BY <2>1, <2>4, FetchAssumption
    <2> QED
        BY <1>2, <1>3, <2>5 DEF Newest
<1>4. ASSUME Older(cursor) # {} PROVE Page(cursor) # {}
    <2> DEFINE uppers == {u \in Nat : \A x \in Older(cursor) : x <= u}
    <2>1. MaxPosts \in uppers
        BY <1>1, FetchAssumption DEF Posts
    <2>2. PICK u \in uppers : \A w \in uppers : u <= w
        BY <2>1, LeastExists
    <2>3. u \in Older(cursor)
        <3>1. SUFFICES ASSUME u \notin Older(cursor) PROVE FALSE
            OBVIOUS
        <3>2. \A x \in Older(cursor) : x \in Nat /\ x > 0 /\ x <= u - 1
            BY <1>1, <2>2, <3>1 DEF Posts
        <3>3. u - 1 \in uppers
            BY <1>4, <3>2, <2>2
        <3> QED
            BY <2>2, <3>3
    <2>4. {x \in Older(cursor) : x > u} = {}
        BY <1>1, <2>2
    <2>5. Cardinality({x \in Older(cursor) : x > u}) = 0
        BY <2>4, FS_EmptySet
    <2> QED
        BY <2>3, <2>5, <1>2, <1>4, FetchAssumption DEF Newest
<1>5. ASSUME Older(cursor) # {}
      PROVE  /\ Min(Page(cursor)) \in Page(cursor)
             /\ \A n \in Page(cursor) : Min(Page(cursor)) <= n
    <2>1. Page(cursor) \in SUBSET Nat
        BY <1>1, <1>2, <1>5
    <2>2. \E n \in Page(cursor) : \A m \in Page(cursor) : n <= m
        BY <2>1, <1>4, <1>5, LeastExists
    <2> QED
        BY <2>2 DEF Min
<1> QED
    BY <1>2, <1>3, <1>5 DEF Page, Newest, Older

\* What one step does with a page that is listed.
LEMMA ListedFields ==
    ASSUME FetchTypeOK, fetch.stage = "api"
    PROVE  /\ fetch.cursor \in Posts \cup {MaxPosts + 1}
           /\ fetch.collected \in SUBSET Posts
           /\ fetch.pages \in Nat
           /\ PageItems \in SUBSET Posts
           /\ InWindow(PageItems) \in SUBSET Posts
           /\ fetch.collected \cup InWindow(PageItems) \in SUBSET Posts
<1>1. fetch \in [stage : {"api"}, cursor : Posts \cup {MaxPosts + 1},
                           collected : SUBSET Posts, pages : Nat]
    BY FetchFields
<1>2. Page(fetch.cursor) \in SUBSET Posts
    BY <1>1, PageShape, FetchFields
<1>3. PageItems \in SUBSET Posts
    BY <1>2 DEF PageItems, FetchTypeOK
<1> QED
    BY <1>1, <1>3 DEF InWindow

\* The end of the list keeps the types.
LEMMA EndApiType ==
    ASSUME FetchTypeOK, NEW videos \in SUBSET Posts,
           NEW end \in {"whole", "failed", "limit", "pinned"},
           EndApi(videos, end), UNCHANGED <<newest, pinned, since>>
    PROVE  FetchTypeOK'
BY DEF EndApi, Give, Then, FetchTypeOK, Sources, Posts

\* What the steps keep typed.
LEMMA FetchNextType == ASSUME FetchTypeOK, [FetchNext]_fetchVars PROVE FetchTypeOK'
<1> USE FetchAssumption
<1>1. CASE UNCHANGED fetchVars
    BY <1>1 DEF fetchVars, FetchTypeOK, Posts
<1>2. CASE Post
    BY <1>2 DEF Post, FetchTypeOK, Posts
<1>3. ASSUME NEW videos \in SUBSET Posts, ProfileLists(videos) PROVE FetchTypeOK'
    BY <1>3 DEF ProfileLists, Give, Then, FetchTypeOK, Sources, Posts
<1>4. ASSUME NEW videos \in SUBSET Posts, YtdlpLists(videos) PROVE FetchTypeOK'
    <2>1. NewAttempt(1) \in [stage : {"browser"}, attempt : 1 .. Tries, items : SUBSET Posts,
                prev : 0 .. MaxPosts, round : 0 .. MaxRounds, stagnant : 0 .. StopAfter]
        BY DEF NewAttempt
    <2>2. TakeLonger(videos) \in SUBSET Posts
        BY DEF TakeLonger, FetchTypeOK
    <2> QED
        BY <1>4, <2>1, <2>2 DEF YtdlpLists, Give, Then, FetchTypeOK, Sources, Posts
<1>5. ASSUME NEW videos \in SUBSET Posts, Scroll(videos) PROVE FetchTypeOK'
    <2>1. fetch \in [stage : {"browser"}, attempt : 1 .. Tries, items : SUBSET Posts,
                     prev : 0 .. MaxPosts, round : 0 .. MaxRounds, stagnant : 0 .. StopAfter]
        BY <1>5, FetchFields DEF Scroll
    <2> DEFINE all == fetch.items \cup videos
    <2>2. all \in SUBSET Posts /\ fetch.round + 1 \in 0 .. MaxRounds
            /\ fetch.stagnant + 1 \in 0 .. StopAfter
        BY <1>5, <2>1 DEF Scroll
    <2>3. Cardinality(all) \in 0 .. MaxPosts
        <3>1. Cardinality(Posts) = MaxPosts
            BY FS_Interval DEF Posts
        <3> QED
            BY <2>2, <3>1, PostsFinite
    <2> HIDE DEF all
    <2>4. fetch' \in [stage : {"browser"}, attempt : 1 .. Tries, items : SUBSET Posts,
                      prev : 0 .. MaxPosts, round : 0 .. MaxRounds, stagnant : 0 .. StopAfter]
        <3>1. fetch' = [fetch EXCEPT !.items = all, !.prev = Cardinality(all),
                  !.round = fetch.round + 1,
                  !.stagnant = IF Cardinality(all) = fetch.prev THEN fetch.stagnant + 1 ELSE 0]
            BY <1>5 DEF Scroll, all
        <3>2. fetch' = [stage |-> "browser", attempt |-> fetch.attempt, items |-> all,
                  prev |-> Cardinality(all), round |-> fetch.round + 1,
                  stagnant |-> IF Cardinality(all) = fetch.prev THEN fetch.stagnant + 1 ELSE 0]
            BY <3>1, <2>1
        <3> QED
            BY <3>2, <2>1, <2>2, <2>3
    <2> QED
        BY <1>5, <2>4 DEF Scroll, FetchTypeOK, Posts
<1>6. CASE ProfileOnly
    BY <1>6 DEF ProfileOnly, FetchTypeOK, Posts
<1>7. CASE ProfileFails
    BY <1>7 DEF ProfileFails, FetchTypeOK, Posts
<1>8. CASE PageMissing
    BY <1>8, ListedFields, EndApiType DEF PageMissing
<1>9. CASE PageRaises
    BY <1>9, EndApiType DEF PageRaises
<1>10. ASSUME NEW more \in BOOLEAN, PageListed(more) PROVE FetchTypeOK'
    <2> DEFINE collected == fetch.collected \cup InWindow(PageItems)
               next == IF Older(fetch.cursor) = {} THEN fetch.cursor ELSE Min(Page(fetch.cursor))
    <2>1. collected \in SUBSET Posts
        BY <1>10, ListedFields DEF PageListed
    <2>2. CASE \E end \in {"whole", "failed", "limit", "pinned"} : EndApi(collected, end)
        BY <1>10, <2>1, <2>2, EndApiType DEF PageListed
    <2>3. CASE /\ fetch' = [fetch EXCEPT !.cursor = next, !.collected = collected,
                                         !.pages = fetch.pages + 1]
               /\ UNCHANGED <<found, got, listing>>
        <3>1. fetch \in [stage : {"api"}, cursor : Posts \cup {MaxPosts + 1},
                           collected : SUBSET Posts, pages : Nat]
            BY <1>10, FetchFields DEF PageListed
        <3>2. next \in Posts \cup {MaxPosts + 1}
            BY <3>1, PageShape, FetchFields
        <3> HIDE DEF collected, next
        <3>3. fetch' = [stage |-> "api", cursor |-> next, collected |-> collected,
                        pages |-> fetch.pages + 1]
            BY <2>3, <3>1
        <3>4. fetch' \in [stage : {"api"}, cursor : Posts \cup {MaxPosts + 1},
                           collected : SUBSET Posts, pages : Nat]
            BY <3>1, <3>2, <3>3, <2>1
        <3> QED
            BY <1>10, <2>3, <3>4 DEF PageListed, FetchTypeOK, Posts
    <2> QED
        BY <1>10, <2>2, <2>3 DEF PageListed
<1>11. CASE BrowserEnds
    <2>1. fetch \in [stage : {"browser"}, attempt : 1 .. Tries, items : SUBSET Posts,
                     prev : 0 .. MaxPosts, round : 0 .. MaxRounds, stagnant : 0 .. StopAfter]
        BY <1>11, FetchFields DEF BrowserEnds
    <2> DEFINE videos == InWindow(fetch.items)
    <2>2. videos \in SUBSET Posts
        BY <2>1 DEF InWindow
    <2> HIDE DEF videos
    <2>3. /\ found' = found \cup videos
          /\ got' = [got EXCEPT !["browser"] = got["browser"] \cup videos]
        BY <1>11 DEF BrowserEnds, videos
    <2>4. \/ fetch' \in [stage : {"mock", "done"}]
          \/ fetch.attempt # Tries /\ fetch' = NewAttempt(fetch.attempt + 1)
        BY <1>11 DEF BrowserEnds, EndFetch
    <2>5. \/ fetch' \in [stage : {"mock", "done"}]
          \/ fetch' \in [stage : {"browser"}, attempt : 1 .. Tries, items : SUBSET Posts,
                     prev : 0 .. MaxPosts, round : 0 .. MaxRounds, stagnant : 0 .. StopAfter]
        BY <2>1, <2>4 DEF NewAttempt
    <2>6. found' \in SUBSET Posts /\ got' \in [Sources -> SUBSET Posts]
        BY <2>2, <2>3 DEF FetchTypeOK, Sources
    <2> QED
        BY <1>11, <2>5, <2>6 DEF BrowserEnds, FetchTypeOK, Posts
<1>12. ASSUME NEW allowed \in BOOLEAN, Mock(allowed) PROVE FetchTypeOK'
    BY <1>12 DEF Mock, FetchTypeOK, Posts
<1> QED
    BY <1>1, <1>2, <1>3, <1>4, <1>5, <1>6, <1>7, <1>8, <1>9, <1>10, <1>11, <1>12 DEF FetchNext

\* A fetch is typed (fetch_creator_videos).
THEOREM FetchTypeCorrect == FetchSpec => []FetchTypeOK
<1>1. FetchInit => FetchTypeOK
    BY FetchAssumption DEF FetchInit, FetchTypeOK, Start, Public, Posts
<1> QED
    BY <1>1, FetchNextType, PTL DEF FetchSpec

-----------------------------------------------------------------------------
(* The list API.                                                           *)

\* A page that is followed by another lowers the cursor.
CursorFalls == fetch.stage = "api" => fetch.pages + fetch.cursor <= MaxPosts + 1

\* What the list has left to give lies before the cursor.
ListSoFar ==
    /\ listing.from <= newest
    /\ fetch.stage \in {"profile", "api"} => listing.end = "none"
    /\ fetch.stage = "api" =>
          \A n \in 1 .. listing.from : n >= since /\ n >= fetch.cursor => n \in fetch.collected
    /\ ListComplete

\* The end of the list keeps what the list promises.
LEMMA EndApiList ==
    ASSUME FetchTypeOK, FetchTypeOK', NEW videos \in SUBSET Posts,
           NEW end \in {"whole", "failed", "limit", "pinned"},
           EndApi(videos, end), UNCHANGED <<newest, pinned, since>>, ListSoFar,
           end = "whole" => \A n \in 1 .. listing.from : n >= since => n \in videos
    PROVE  ListSoFar'
<1>1. listing' = [from |-> listing.from, end |-> end] /\ got'["api"] = videos
    BY DEF EndApi, Give, FetchTypeOK, Sources
<1>2. fetch'.stage \notin {"profile", "api"}
    BY DEF EndApi, Then
<1>3. newest' = newest /\ since' = since
    OBVIOUS
<1>4. listing'.from <= newest'
    BY <1>1, <1>3 DEF ListSoFar
<1>5. ListComplete'
    BY <1>1, <1>3 DEF ListComplete, InWindow
<1> QED
    BY <1>2, <1>4, <1>5 DEF ListSoFar

\* What a page adds: every post of the window that is not before the next cursor,
\* and, where the list says that it is whole, every post of the window.
LEMMA ListedSoFar ==
    ASSUME FetchTypeOK, ListSoFar, fetch.stage = "api", NEW more \in BOOLEAN,
           NEW next, next = IF Older(fetch.cursor) = {} THEN fetch.cursor
                            ELSE Min(Page(fetch.cursor)),
           Older(next) # {} => more,
           NEW n \in 1 .. listing.from, n >= since
    PROVE  /\ n >= next => n \in fetch.collected \cup InWindow(PageItems)
           /\ /\ Leaves(PageItems, more, next)
              /\ ~ /\ \E m \in PageItems : m < since
                   /\ ~ \E m \in Page(fetch.cursor) : m < since
              => n \in fetch.collected \cup InWindow(PageItems)
<1>1. /\ fetch.cursor \in Posts \cup {MaxPosts + 1} /\ fetch.cursor \in Nat
      /\ n \in Public /\ n \in Nat /\ since \in Nat
    BY FetchAssumption, ListedFields DEF ListSoFar, FetchTypeOK, Public, Posts
<1>2. n >= fetch.cursor => n \in fetch.collected
    BY DEF ListSoFar
<1>3. n < fetch.cursor => n \in Older(fetch.cursor)
    BY <1>1 DEF Older
<1>4. CASE Older(fetch.cursor) = {}
    BY <1>1, <1>2, <1>3, <1>4
<1>5. CASE Older(fetch.cursor) # {}
    <2>1. /\ next \in Page(fetch.cursor)
          /\ \A k \in Page(fetch.cursor), m \in Older(fetch.cursor) :
                m > k => m \in Page(fetch.cursor)
          /\ Page(fetch.cursor) \subseteq Older(fetch.cursor)
        BY <1>1, <1>5, PageShape
    <2>2. Page(fetch.cursor) \subseteq PageItems
        BY DEF PageItems
    <2>3. Older(fetch.cursor) \subseteq Nat
        BY DEF Older, Public
    <2>4. next \in Nat /\ next < fetch.cursor
        BY <2>1, <2>3 DEF Older
    <2>5. n \in Page(fetch.cursor) => n \in InWindow(PageItems)
        BY <2>2 DEF InWindow
    <2>6. n >= next => n \in fetch.collected \cup InWindow(PageItems)
        <3>1. CASE n >= fetch.cursor
            BY <1>2, <3>1
        <3>2. CASE n < fetch.cursor /\ n >= next
            BY <1>1, <1>3, <2>1, <2>4, <2>5, <3>2
        <3> QED
            BY <1>1, <2>4, <3>1, <3>2
    <2>7. ASSUME ~more PROVE n >= next
        <3>1. Older(next) = {}
            BY <2>7
        <3> QED
            BY <1>1, <2>4, <3>1 DEF Older
    <2>8. ASSUME NEW m \in Page(fetch.cursor), m < since
          PROVE  n \in fetch.collected \cup InWindow(PageItems)
        <3>1. m \in Nat /\ n > m
            BY <1>1, <2>1, <2>3, <2>8
        <3>2. CASE n >= fetch.cursor
            BY <1>2, <3>2
        <3>3. CASE n < fetch.cursor
            BY <1>3, <2>1, <2>5, <2>8, <3>1, <3>3
        <3> QED
            BY <1>1, <3>2, <3>3
    <2> QED
        BY <2>4, <2>6, <2>7, <2>8 DEF Leaves
<1> QED
    BY <1>4, <1>5

\* Each step keeps the list's promise.
LEMMA FetchNextList ==
    ASSUME FetchTypeOK, FetchTypeOK', ListSoFar, [FetchNext]_fetchVars
    PROVE  ListSoFar'
<1> USE FetchAssumption
<1>1. CASE UNCHANGED fetchVars
    BY <1>1 DEF fetchVars, ListSoFar, ListComplete, InWindow
<1>2. CASE Post
    BY <1>2 DEF Post, ListSoFar, ListComplete, InWindow, FetchTypeOK
<1>3. ASSUME NEW source \in Sources \ {"api"}, NEW videos,
             got' = [got EXCEPT ![source] = videos],
             UNCHANGED <<newest, since, listing>>,
             fetch'.stage \notin {"profile", "api"}
      PROVE  ListSoFar'
    <2>1. got'["api"] = got["api"]
        BY <1>3 DEF FetchTypeOK, Sources
    <2> QED
        BY <1>3, <2>1 DEF ListSoFar, ListComplete, InWindow
<1>4. ASSUME NEW videos \in SUBSET Posts, ProfileLists(videos) PROVE ListSoFar'
    BY <1>3, <1>4 DEF ProfileLists, Give, Then, Sources
<1>5. ASSUME NEW videos \in SUBSET Posts, YtdlpLists(videos) PROVE ListSoFar'
    BY <1>3, <1>5 DEF YtdlpLists, Give, Then, NewAttempt, Sources
<1>6. ASSUME UNCHANGED <<newest, since, got, listing>>, fetch'.stage \notin {"profile", "api"}
      PROVE  ListSoFar'
    BY <1>6 DEF ListSoFar, ListComplete, InWindow
<1>7. ASSUME NEW videos \in SUBSET Posts, Scroll(videos) PROVE ListSoFar'
    <2>1. fetch \in [stage : {"browser"}, attempt : 1 .. Tries, items : SUBSET Posts,
                     prev : 0 .. MaxPosts, round : 0 .. MaxRounds, stagnant : 0 .. StopAfter]
        BY <1>7, FetchFields DEF Scroll
    <2>2. fetch'.stage = "browser"
        BY <1>7, <2>1 DEF Scroll
    <2> QED
        BY <1>6, <1>7, <2>2 DEF Scroll
<1>8. CASE ProfileOnly
    <2>1. /\ listing' = [from |-> newest, end |-> "none"]
          /\ fetch'.cursor = MaxPosts + 1 /\ newest' = newest /\ newest \in 0 .. MaxPosts
        BY <1>8 DEF ProfileOnly, ListSoFar, FetchTypeOK
    <2>2. \A n \in 1 .. listing'.from : ~ n >= fetch'.cursor
        BY <2>1
    <2> QED
        BY <2>1, <2>2 DEF ListSoFar, ListComplete
<1>9. CASE ProfileFails
    BY <1>6, <1>9 DEF ProfileFails
<1>10. CASE PageMissing
    <2> DEFINE end == IF Older(fetch.cursor) = {} THEN "whole" ELSE "failed"
    <2>1. fetch.collected \in SUBSET Posts /\ fetch.cursor \in Posts \cup {MaxPosts + 1}
        BY <1>10, ListedFields DEF PageMissing
    <2>2. ASSUME Older(fetch.cursor) = {}, NEW n \in 1 .. listing.from, n >= since
          PROVE  n \in fetch.collected
        <3>1. n \in Public
            BY <2>2 DEF ListSoFar, Public, FetchTypeOK
        <3>2. n >= fetch.cursor
            BY <2>1, <2>2, <3>1 DEF Older, Posts
        <3> QED
            BY <1>10, <2>2, <3>2 DEF ListSoFar, PageMissing
    <2> QED
        BY <1>10, <2>1, <2>2, EndApiList DEF PageMissing
<1>11. CASE PageRaises
    BY <1>11, EndApiList DEF PageRaises
<1>12. ASSUME NEW more \in BOOLEAN, PageListed(more) PROVE ListSoFar'
    <2> DEFINE collected == fetch.collected \cup InWindow(PageItems)
               next == IF Older(fetch.cursor) = {} THEN fetch.cursor ELSE Min(Page(fetch.cursor))
               pin == /\ \E m \in PageItems : m < since
                      /\ ~ \E m \in Page(fetch.cursor) : m < since
    <2>1. /\ fetch.stage = "api" /\ collected \in SUBSET Posts /\ (Older(next) # {} => more)
          /\ UNCHANGED <<newest, pinned, since>>
        BY <1>12, ListedFields DEF PageListed
    <2>2. \A n \in 1 .. listing.from : n >= since =>
             /\ n >= next => n \in collected
             /\ Leaves(PageItems, more, next) /\ ~pin => n \in collected
        BY <2>1, ListedSoFar
    <2>3. \/ Leaves(PageItems, more, next) /\ EndApi(collected, IF pin THEN "pinned" ELSE "whole")
          \/ EndApi(collected, "limit")
          \/ /\ fetch' = [fetch EXCEPT !.cursor = next, !.collected = collected,
                                       !.pages = fetch.pages + 1]
             /\ UNCHANGED <<found, got, listing>>
        BY <1>12 DEF PageListed
    <2> HIDE DEF collected, next, pin
    <2>4. CASE Leaves(PageItems, more, next) /\ EndApi(collected, IF pin THEN "pinned" ELSE "whole")
        BY <2>1, <2>2, <2>4, EndApiList
    <2>5. CASE EndApi(collected, "limit")
        BY <2>1, <2>5, EndApiList
    <2>6. CASE /\ fetch' = [fetch EXCEPT !.cursor = next, !.collected = collected,
                                         !.pages = fetch.pages + 1]
               /\ UNCHANGED <<found, got, listing>>
        <3>1. fetch \in [stage : {"api"}, cursor : Posts \cup {MaxPosts + 1},
                           collected : SUBSET Posts, pages : Nat]
            BY <2>1, FetchFields
        <3>2. fetch'.stage = "api" /\ fetch'.cursor = next /\ fetch'.collected = collected
            BY <2>6, <3>1
        <3> QED
            BY <2>1, <2>2, <2>6, <3>2 DEF ListSoFar, ListComplete, InWindow
    <2> QED
        BY <2>3, <2>4, <2>5, <2>6
<1>13. CASE BrowserEnds
    <2>1. fetch'.stage \notin {"profile", "api"}
        BY <1>13 DEF BrowserEnds, EndFetch, NewAttempt
    <2> QED
        BY <1>3, <1>13, <2>1 DEF BrowserEnds, Sources
<1>14. ASSUME NEW allowed \in BOOLEAN, Mock(allowed) PROVE ListSoFar'
    BY <1>6, <1>14 DEF Mock
<1> QED
    BY <1>1, <1>2, <1>4, <1>5, <1>7, <1>8, <1>9, <1>10, <1>11, <1>12, <1>13, <1>14
       DEF FetchNext

\* A list that was read to its end is complete (_fetch_videos_via_api).
THEOREM ListCorrect == FetchSpec => []ListComplete
<1>1. FetchInit => FetchTypeOK
    BY FetchAssumption DEF FetchInit, FetchTypeOK, Start, Public, Posts
<1>2. FetchInit => ListSoFar
    BY DEF FetchInit, ListSoFar, ListComplete, Start
<1>3. ListSoFar => ListComplete
    BY DEF ListSoFar
<1> QED
    BY <1>1, <1>2, <1>3, FetchNextType, FetchNextList, PTL DEF FetchSpec

\* Each page lowers the cursor.
LEMMA FetchNextPages ==
    ASSUME FetchTypeOK, CursorFalls, [FetchNext]_fetchVars
    PROVE  CursorFalls'
<1> USE FetchAssumption
<1>1. ASSUME UNCHANGED fetch PROVE CursorFalls'
    BY <1>1 DEF CursorFalls
<1>2. ASSUME fetch'.stage # "api" PROVE CursorFalls'
    BY <1>2 DEF CursorFalls
<1>3. ASSUME NEW videos \in SUBSET Posts, Scroll(videos) PROVE CursorFalls'
    <2>1. fetch \in [stage : {"browser"}, attempt : 1 .. Tries, items : SUBSET Posts,
                     prev : 0 .. MaxPosts, round : 0 .. MaxRounds, stagnant : 0 .. StopAfter]
        BY <1>3, FetchFields DEF Scroll
    <2> QED
        BY <1>2, <1>3, <2>1 DEF Scroll
<1>4. CASE ProfileOnly
    BY <1>4 DEF ProfileOnly, CursorFalls
<1>5. ASSUME NEW more \in BOOLEAN, PageListed(more) PROVE CursorFalls'
    <2> DEFINE collected == fetch.collected \cup InWindow(PageItems)
               next == IF Older(fetch.cursor) = {} THEN fetch.cursor ELSE Min(Page(fetch.cursor))
    <2>1. fetch.stage = "api"
        BY <1>5 DEF PageListed
    <2>2. fetch \in [stage : {"api"}, cursor : Posts \cup {MaxPosts + 1},
                     collected : SUBSET Posts, pages : Nat]
        BY <2>1, FetchFields
    <2>3. CASE \E end : EndApi(collected, end)
        BY <1>2, <2>3 DEF EndApi, Then
    <2>4. CASE next # fetch.cursor
               /\ fetch' = [fetch EXCEPT !.cursor = next, !.collected = collected,
                                         !.pages = fetch.pages + 1]
        <3>1. Older(fetch.cursor) # {}
            BY <2>4
        <3>2. next \in Older(fetch.cursor)
            BY <2>2, <3>1, PageShape
        <3>3. next \in Nat /\ next < fetch.cursor
            BY <3>2 DEF Older, Public
        <3>4. fetch'.pages = fetch.pages + 1 /\ fetch'.cursor = next
            BY <2>2, <2>4
        <3> HIDE DEF next
        <3>5. fetch.pages + fetch.cursor <= MaxPosts + 1 /\ fetch.cursor \in Nat /\ fetch.pages \in Nat
            BY <2>1, <2>2 DEF CursorFalls, Posts
        <3> QED
            BY <3>3, <3>4, <3>5 DEF CursorFalls
    <2> QED
        BY <1>5, <2>3, <2>4 DEF PageListed, Leaves
<1> QED
    BY <1>1, <1>2, <1>3, <1>4, <1>5
       DEF FetchNext, fetchVars, Post, ProfileLists, YtdlpLists, ProfileFails, PageMissing,
           PageRaises, EndApi, Then, NewAttempt, BrowserEnds, EndFetch, Mock

\* No more pages are asked for than there are posts (the cursor's test).
THEOREM PagesCorrect == FetchSpec => []PagesBounded
<1>1. FetchInit => FetchTypeOK
    BY FetchAssumption DEF FetchInit, FetchTypeOK, Start, Public, Posts
<1>2. FetchInit => CursorFalls
    BY DEF FetchInit, CursorFalls, Start
<1>3. ASSUME FetchTypeOK, CursorFalls PROVE PagesBounded
    <2>1. SUFFICES ASSUME fetch.stage = "api" PROVE fetch.pages <= MaxPosts
        BY DEF PagesBounded
    <2>2. fetch.pages \in Nat /\ fetch.cursor \in Nat /\ fetch.cursor >= 1
        BY <1>3, <2>1, FetchFields, FetchAssumption DEF Posts
    <2> QED
        BY <1>3, <2>1, <2>2, FetchAssumption DEF CursorFalls
<1> QED
    BY <1>1, <1>2, <1>3, FetchNextType, FetchNextPages, PTL DEF FetchSpec

-----------------------------------------------------------------------------
(* What the sources leave.                                                 *)

\* At every stage the videos that are kept are as many as any source gave; before
\* the browser has ended there are none of its, and the mock starts from nothing.
BestSoFar ==
    /\ \A source \in Sources : Cardinality(got[source]) <= Cardinality(found)
    /\ got["browser"] \subseteq found
    /\ fetch.stage \in {"profile", "api", "ytdlp"} => got["browser"] = {}
    /\ fetch.stage \in {"profile", "api"} => \A source \in Sources : got[source] = {}
    /\ fetch.stage = "mock" => found = {}

\* The first source that gives anything gives all there is.
LEMMA FirstGives ==
    ASSUME FetchTypeOK, NEW source \in Sources \ {"browser"}, NEW videos \in SUBSET Posts,
           \A s \in Sources : got[s] = {}, Give(source, videos), found' = videos,
           fetch'.stage \notin {"profile", "api", "mock"}
    PROVE  BestSoFar'
<1>1. Cardinality({}) = 0 /\ Cardinality(videos) \in Nat
    BY FS_EmptySet, PostsFinite
<1>2. \A s \in Sources : got'[s] = IF s = source THEN videos ELSE {}
    BY DEF Give, FetchTypeOK
<1>3. \A s \in Sources : Cardinality(got'[s]) <= Cardinality(found')
    BY <1>1, <1>2
<1>4. got'["browser"] = {}
    BY <1>2 DEF Sources
<1> QED
    BY <1>3, <1>4 DEF BestSoFar

\* Each step keeps the best.
LEMMA FetchNextBest ==
    ASSUME FetchTypeOK, FetchTypeOK', BestSoFar, [FetchNext]_fetchVars
    PROVE  BestSoFar'
<1>1. ASSUME UNCHANGED <<found, got>>, UNCHANGED fetch PROVE BestSoFar'
    BY <1>1 DEF BestSoFar
<1>2. ASSUME UNCHANGED <<found, got>>, fetch.stage \in {"profile", "api"},
             fetch'.stage \in {"api", "ytdlp"}
      PROVE  BestSoFar'
    <2>1. "browser" \in Sources
        BY DEF Sources
    <2> QED
        BY <1>2, <2>1 DEF BestSoFar
<1>3. ASSUME NEW videos \in SUBSET Posts, ProfileLists(videos) PROVE BestSoFar'
    BY <1>3, FirstGives DEF ProfileLists, Then, BestSoFar, Sources
<1>4. ASSUME NEW videos \in SUBSET Posts, YtdlpLists(videos) PROVE BestSoFar'
    <2> DEFINE kept == TakeLonger(videos)
    <2>1. /\ Cardinality(found) \in Nat /\ Cardinality(videos) \in Nat
          /\ \A s \in Sources : Cardinality(got[s]) \in Nat
        BY PostsFinite DEF FetchTypeOK
    <2>2. Cardinality({}) = 0
        BY FS_EmptySet
    <2>3. /\ Cardinality(kept) \in Nat
          /\ Cardinality(kept) >= Cardinality(found)
          /\ Cardinality(kept) >= Cardinality(videos)
        BY <2>1, <2>2 DEF TakeLonger
    <2>4. \A s \in Sources : got'[s] = IF s = "ytdlp" THEN videos ELSE got[s]
        BY <1>4 DEF YtdlpLists, Give, FetchTypeOK
    <2>5. got'["browser"] = {}
        BY <1>4, <2>4 DEF BestSoFar, YtdlpLists, Sources
    <2>6. found' = kept /\ fetch'.stage \in {"browser", "done"}
        BY <1>4 DEF YtdlpLists, Then, NewAttempt
    <2> HIDE DEF kept
    <2>7. \A s \in Sources : Cardinality(got'[s]) <= Cardinality(found')
        BY <2>1, <2>3, <2>4, <2>6 DEF BestSoFar
    <2> QED
        BY <2>5, <2>6, <2>7 DEF BestSoFar
<1>5. ASSUME NEW videos \in SUBSET Posts, Scroll(videos) PROVE BestSoFar'
    <2>1. fetch \in [stage : {"browser"}, attempt : 1 .. Tries, items : SUBSET Posts,
                     prev : 0 .. MaxPosts, round : 0 .. MaxRounds, stagnant : 0 .. StopAfter]
        BY <1>5, FetchFields DEF Scroll
    <2>2. fetch'.stage = "browser"
        BY <1>5, <2>1 DEF Scroll
    <2> QED
        BY <1>5, <2>2 DEF Scroll, BestSoFar
<1>6. ASSUME NEW videos \in SUBSET Posts, NEW end, fetch.stage = "api", EndApi(videos, end)
      PROVE  BestSoFar'
    BY <1>6, FirstGives DEF EndApi, Then, BestSoFar, Sources
<1>7. ASSUME NEW more \in BOOLEAN, PageListed(more) PROVE BestSoFar'
    <2> DEFINE collected == fetch.collected \cup InWindow(PageItems)
    <2>1. collected \in SUBSET Posts /\ fetch.stage = "api"
        BY <1>7, ListedFields DEF PageListed
    <2>2. CASE \E end : EndApi(collected, end)
        BY <1>6, <2>1, <2>2
    <2>3. CASE (\E next : fetch' = [fetch EXCEPT !.cursor = next, !.collected = collected,
                                                 !.pages = fetch.pages + 1])
               /\ UNCHANGED <<found, got>>
        <3>1. fetch \in [stage : {"api"}, cursor : Posts \cup {MaxPosts + 1},
                         collected : SUBSET Posts, pages : Nat]
            BY <2>1, FetchFields
        <3>2. fetch'.stage = "api"
            BY <2>3, <3>1
        <3> QED
            BY <1>2, <2>1, <2>3, <3>2
    <2> QED
        BY <1>7, <2>2, <2>3 DEF PageListed
<1>8. CASE BrowserEnds
    <2>1. fetch \in [stage : {"browser"}, attempt : 1 .. Tries, items : SUBSET Posts,
                     prev : 0 .. MaxPosts, round : 0 .. MaxRounds, stagnant : 0 .. StopAfter]
        BY <1>8, FetchFields DEF BrowserEnds
    <2> DEFINE videos == InWindow(fetch.items)
               all == found \cup videos
    <2>2. all \in SUBSET Posts
        BY <2>1 DEF InWindow, FetchTypeOK
    <2>3. /\ found' = all
          /\ got' = [got EXCEPT !["browser"] = got["browser"] \cup videos]
          /\ fetch'.stage \in {"browser", "mock", "done"}
          /\ fetch'.stage = "mock" => all = {}
        BY <1>8 DEF BrowserEnds, EndFetch, NewAttempt
    <2> HIDE DEF videos
    <2>4. \A s \in Sources : got'[s] = IF s = "browser" THEN got[s] \cup videos ELSE got[s]
        BY <2>3 DEF FetchTypeOK
    <2>5. got'["browser"] \subseteq all
        BY <2>4 DEF BestSoFar, Sources
    <2>6. Cardinality(found) \in Nat /\ Cardinality(all) \in Nat /\ Cardinality(found) <= Cardinality(all)
        BY <2>2, PostsFinite
    <2>7. Cardinality(got'["browser"]) <= Cardinality(all)
        BY <2>2, <2>5, PostsFinite
    <2>8. \A s \in Sources \ {"browser"} :
             Cardinality(got[s]) \in Nat /\ Cardinality(got[s]) <= Cardinality(found)
        BY PostsFinite DEF BestSoFar, FetchTypeOK
    <2> HIDE DEF all
    <2>9. \A s \in Sources : Cardinality(got'[s]) <= Cardinality(found')
        BY <2>3, <2>4, <2>6, <2>7, <2>8
    <2> QED
        BY <2>3, <2>5, <2>9 DEF BestSoFar
<1>9. ASSUME NEW allowed \in BOOLEAN, Mock(allowed) PROVE BestSoFar'
    <2>1. found = {} /\ got' = got /\ fetch'.stage = "done" /\ Cardinality({}) = 0
        BY <1>9, FS_EmptySet DEF Mock, BestSoFar
    <2>2. Cardinality(found') \in Nat /\ \A s \in Sources : Cardinality(got[s]) \in Nat
        BY PostsFinite DEF FetchTypeOK
    <2>3. got["browser"] = {}
        BY <2>1 DEF BestSoFar
    <2>4. \A s \in Sources : Cardinality(got'[s]) <= Cardinality(found')
        BY <2>1, <2>2 DEF BestSoFar
    <2> QED
        BY <2>1, <2>3, <2>4 DEF BestSoFar
<1>10. CASE PageMissing
    BY <1>6, <1>10, ListedFields DEF PageMissing
<1>11. CASE PageRaises
    BY <1>6, <1>11 DEF PageRaises
<1> QED
    BY <1>1, <1>2, <1>3, <1>4, <1>5, <1>7, <1>8, <1>9, <1>10, <1>11
       DEF FetchNext, fetchVars, Post, ProfileOnly, ProfileFails

\* The best of what the sources gave is kept (fetch_creator_videos).
THEOREM BestCorrect == FetchSpec => []BestKept
<1>1. FetchInit => FetchTypeOK
    BY FetchAssumption DEF FetchInit, FetchTypeOK, Start, Public, Posts
<1>2. FetchInit => BestSoFar
    BY FS_EmptySet DEF FetchInit, BestSoFar, Start, Sources
<1>3. BestSoFar => BestKept
    BY DEF BestSoFar, BestKept
<1> QED
    BY <1>1, <1>2, <1>3, FetchNextType, FetchNextBest, PTL DEF FetchSpec

-----------------------------------------------------------------------------
(* RuntimeSettings: the cache of a process against the table.              *)

\* The keys of a save, in the order of its loop.
LEMMA KeysInOrder == ASSUME NEW keys \in SUBSET Keys PROVE SetToSeq(keys) \in Seq(Keys)
<1> DEFINE n == Cardinality(keys)
<1>1. n \in Nat /\ ExistsBijection(1 .. n, keys)
    BY SettingsAssumption, FS_Subset, FS_CardinalityType
<1>2. PICK f \in [1 .. n -> keys] : IsInjective(f)
    BY <1>1 DEF ExistsBijection, Bijection, Injection, IsInjective
<1>3. SetToSeq(keys) \in [1 .. n -> keys]
    BY <1>2 DEF SetToSeq
<1> QED
    BY <1>1, <1>3

\* A save under way has all its fields, and reads nothing from keys to come.
LEMMA SaveFields ==
    ASSUME SettingsTypeOK, NEW s \in Saves, Saving(s)
    PROVE  /\ save[s] \in SaveStates
           /\ save[s].left # <<>> => Head(save[s].left) \in Keys /\ Tail(save[s].left) \in Seq(Keys)
BY HeadTailProperties DEF SettingsTypeOK, Saving, SaveStates

\* Typing: every step preserves SettingsTypeOK.
LEMMA SettingsNextType == SettingsTypeOK /\ [SettingsNext]_settingsVars => SettingsTypeOK'
<1> SUFFICES ASSUME SettingsTypeOK, [SettingsNext]_settingsVars PROVE SettingsTypeOK'
    OBVIOUS
<1>1. ASSUME NEW s \in Saves, NEW p \in Apis, NEW keys \in SUBSET Keys \ {{}},
             NEW value \in [Keys -> Values], SaveBegins(s, p, keys, value)
      PROVE  SettingsTypeOK'
    BY <1>1, KeysInOrder DEF SaveBegins, SettingsTypeOK, SaveStates
<1>2. ASSUME NEW s \in Saves, SaveKey(s) PROVE SettingsTypeOK'
    <2> DEFINE k == Head(save[s].left)
    <2>1. save[s] \in SaveStates /\ k \in Keys /\ Tail(save[s].left) \in Seq(Keys)
        BY <1>2, SaveFields DEF SaveKey
    <2>2. cache' \in [Apis -> [Keys -> Values \cup {Unset}]]
        BY <1>2, <2>1 DEF SaveKey, SettingsTypeOK, SaveStates
    <2>3. save' \in [Saves -> {NoSave} \cup SaveStates]
        <3>1. [save[s] EXCEPT !.left = Tail(@), !.read[k] = setting[k]] \in SaveStates
            BY <2>1 DEF SettingsTypeOK, SaveStates
        <3> QED
            BY <1>2, <3>1 DEF SaveKey, SettingsTypeOK
    <2> QED
        BY <1>2, <2>1, <2>2, <2>3 DEF SaveKey, SettingsTypeOK, Mix
<1>3. ASSUME NEW s \in Saves, SaveCommits(s) PROVE SettingsTypeOK'
    <2>1. save[s] \in SaveStates
        BY <1>3, SaveFields DEF SaveCommits
    <2> QED
        BY <1>3, <2>1 DEF SaveCommits, SettingsTypeOK, Mix, Touched, SaveStates
<1>4. ASSUME NEW s \in Saves, SaveFails(s) PROVE SettingsTypeOK'
    <2>1. save[s] \in SaveStates
        BY <1>4, SaveFields DEF SaveFails
    <2> QED
        BY <1>4, <2>1 DEF SaveFails, SettingsTypeOK, Mix, Touched, SaveStates
<1>5. ASSUME NEW p \in Apis, ApiStarts(p) PROVE SettingsTypeOK'
    BY <1>5 DEF ApiStarts, SettingsTypeOK, Load
<1>6. CASE UNCHANGED settingsVars
    BY <1>6 DEF settingsVars, SettingsTypeOK
<1> QED
    BY <1>1, <1>2, <1>3, <1>4, <1>5, <1>6 DEF SettingsNext

\* Type correctness of RuntimeSettings.
THEOREM SettingsTypeCorrect == SettingsSpec => []SettingsTypeOK
<1>1. SettingsInit => SettingsTypeOK
    BY DEF SettingsInit, SettingsTypeOK
<1> QED
    BY <1>1, SettingsNextType, PTL DEF SettingsSpec

\* What makes CacheIsTable inductive: of what a save has touched alone, its
\* process holds the value and the save has read the row; and a process of
\* which no save is under way at a key holds the row of that key.
TouchedAlone(s, k) ==
    k \in Touched(s) \ mixed[s] =>
        /\ cache[save[s].by][k] = save[s].value[k]
        /\ save[s].read[k] = setting[k]
OwnSaves(p) == {s \in Saves : Saving(s) /\ save[s].by = p}
Unsaved(p, k) == \A s \in OwnSaves(p) : k \notin Touched(s)
SettingsInv ==
    /\ \A s \in Saves, k \in Keys : TouchedAlone(s, k)
    /\ \A p \in Apis, k \in Keys :
          k \notin doubt[p] /\ Unsaved(p, k) => cache[p][k] = setting[k]

\* It implies CacheIsTable: where nobody saves, no save of the process does.
LEMMA UnsavedIsTable == SettingsInv => CacheIsTable
BY DEF SettingsInv, CacheIsTable, Unsaved, OwnSaves

\* A save that begins has touched nothing.
LEMMA BeginsInv ==
    ASSUME SettingsTypeOK, SettingsInv, NEW s \in Saves, NEW p \in Apis,
           NEW keys \in SUBSET Keys, NEW value \in [Keys -> Values],
           SaveBegins(s, p, keys, value)
    PROVE  SettingsInv'
<1>1. UNCHANGED <<setting, cache, doubt>> /\ ~Saving(s)
    BY DEF SaveBegins
<1>2. \A r \in Saves \ {s} : save'[r] = save[r] /\ mixed'[r] = mixed[r]
    BY DEF SaveBegins
<1>3. Touched(s)' = {}
    BY DEF SaveBegins, SettingsTypeOK, Touched
<1>4. \A r \in Saves \ {s} : Touched(r)' = Touched(r) /\ (Saving(r)' <=> Saving(r))
    BY <1>2 DEF Touched, Saving
<1>5. \A r \in Saves, k \in Keys : TouchedAlone(r, k)'
    BY <1>1, <1>2, <1>3, <1>4 DEF TouchedAlone, SettingsInv
<1>6. ASSUME NEW q \in Apis, NEW k \in Keys, Unsaved(q, k)' PROVE Unsaved(q, k)
    BY <1>6, <1>1, <1>2, <1>4 DEF Unsaved, OwnSaves
<1> QED
    BY <1>1, <1>5, <1>6 DEF SettingsInv

\* The key that a save touches is the save's alone until another one touches
\* it, and no longer that of the saves that had touched it.
LEMMA KeyInv ==
    ASSUME SettingsTypeOK, SettingsInv, NEW s \in Saves, SaveKey(s)
    PROVE  SettingsInv'
<1> DEFINE k == Head(save[s].left)
           p == save[s].by
<1>1. save[s] \in SaveStates /\ k \in Keys /\ p \in Apis /\ Saving(s)
    BY SaveFields DEF SaveKey, SaveStates
<1>2. UNCHANGED <<setting, doubt>>
    BY DEF SaveKey
<1>3. \A r \in Saves \ {s} : save'[r] = save[r] /\ mixed'[r] = mixed[r] \cup ({k} \cap Touched(r))
    <2>1. \A r \in Saves \ {s} : save'[r] = save[r]
        BY DEF SaveKey, SettingsTypeOK
    <2>2. \A r \in Saves \ {s} : mixed'[r] = mixed[r] \cup ({k} \cap Touched(r))
        BY DEF SaveKey, Mix
    <2> QED
        BY <2>1, <2>2
<1>4. /\ save'[s].by = p /\ save'[s].value = save[s].value
      /\ save'[s].read = [save[s].read EXCEPT ![k] = setting[k]]
      /\ save'[s].stage = "open"
      /\ mixed'[s] = mixed[s] \ {k}
    BY <1>1 DEF SaveKey, Mix, SettingsTypeOK, SaveStates
<1>5. cache' = [cache EXCEPT ![p][k] = save[s].value[k]]
    BY DEF SaveKey
<1>6. Saving(s)' /\ save'[s].read[k] = setting[k] /\ setting[k] # "untouched"
    BY <1>1, <1>4, SettingsAssumption DEF Saving, NoSave, SettingsTypeOK, SaveStates, Unset
<1>7. Touched(s)' = Touched(s) \cup {k}
    BY <1>1, <1>4, <1>6 DEF Touched, SaveStates
<1>8. \A r \in Saves \ {s} : Touched(r)' = Touched(r) /\ (Saving(r)' <=> Saving(r))
    BY <1>3 DEF Touched, Saving
<1>9. \A q \in Apis, m \in Keys : cache'[q][m] = IF q = p /\ m = k THEN save[s].value[k] ELSE cache[q][m]
    BY <1>1, <1>5 DEF SettingsTypeOK
<1> HIDE DEF k, p
<1>10. ASSUME NEW m \in Keys PROVE TouchedAlone(s, m)'
    <2>1. CASE m = k
        BY <2>1, <1>1, <1>2, <1>4, <1>6, <1>9 DEF TouchedAlone
    <2>2. CASE m # k
        <3>1. save'[s].read[m] = save[s].read[m]
            BY <2>2, <1>1, <1>4 DEF SaveStates
        <3> QED
            BY <2>2, <3>1, <1>1, <1>2, <1>4, <1>7, <1>9 DEF TouchedAlone, SettingsInv, p
    <2> QED
        BY <2>1, <2>2
<1>11. ASSUME NEW r \in Saves \ {s}, NEW m \in Keys PROVE TouchedAlone(r, m)'
    <2>1. SUFFICES ASSUME m \in Touched(r) \ mixed'[r]
                   PROVE  /\ cache'[save[r].by][m] = save[r].value[m]
                          /\ save[r].read[m] = setting[m]
        BY <1>2, <1>3, <1>8 DEF TouchedAlone
    <2>2. m # k /\ m \notin mixed[r]
        BY <2>1, <1>3
    <2>3. Saving(r) /\ save[r].by \in Apis
        BY <2>1, SaveFields DEF Touched, SaveStates
    <2> QED
        BY <2>1, <2>2, <2>3, <1>9 DEF SettingsInv, TouchedAlone
<1>12. ASSUME NEW q \in Apis, NEW m \in Keys, Unsaved(q, m)' PROVE Unsaved(q, m) /\ ~(q = p /\ m = k)
    BY <1>12, <1>1, <1>3, <1>4, <1>6, <1>7, <1>8 DEF Unsaved, OwnSaves, p
<1> QED
    BY <1>2, <1>9, <1>10, <1>11, <1>12 DEF SettingsInv

\* A commit writes what the process of the save holds, where it was alone.
LEMMA CommitsInv ==
    ASSUME SettingsTypeOK, SettingsInv, NEW s \in Saves, SaveCommits(s)
    PROVE  SettingsInv'
<1> DEFINE p == save[s].by
<1>1. save[s] \in SaveStates /\ p \in Apis /\ Saving(s) /\ Touched(s) \subseteq Keys
    BY SaveFields DEF SaveCommits, SaveStates, Touched
<1>2. cache' = cache /\ save'[s] = NoSave
    BY DEF SaveCommits, SettingsTypeOK
<1>3. \A r \in Saves \ {s} : save'[r] = save[r] /\ mixed'[r] = mixed[r] \cup (Touched(s) \cap Touched(r))
    BY DEF SaveCommits, Mix
<1>4. \A r \in Saves \ {s} : Touched(r)' = Touched(r) /\ (Saving(r)' <=> Saving(r))
    BY <1>3 DEF Touched, Saving
<1>5. Touched(s)' = {} /\ ~Saving(s)'
    BY <1>2 DEF Touched, Saving
<1>6. \A k \in Keys : setting'[k] = IF k \in Touched(s) /\ save[s].value[k] # save[s].read[k]
                                    THEN save[s].value[k] ELSE setting[k]
    BY DEF SaveCommits
<1>7. ASSUME NEW r \in Saves, NEW m \in Keys PROVE TouchedAlone(r, m)'
    <2>1. CASE r = s
        BY <2>1, <1>5 DEF TouchedAlone
    <2>2. CASE r # s
        BY <2>2, <1>2, <1>3, <1>4, <1>6 DEF TouchedAlone, SettingsInv
    <2> QED
        BY <2>1, <2>2
<1>8. ASSUME NEW q \in Apis, NEW m \in Keys, m \notin doubt'[q], Unsaved(q, m)'
      PROVE  cache'[q][m] = setting'[m]
    <2>1. CASE m \in Touched(s)
        <3>1. q = p /\ m \notin mixed[s]
            BY <2>1, <1>8 DEF SaveCommits
        <3>2. cache[p][m] = save[s].value[m] /\ save[s].read[m] = setting[m]
            BY <2>1, <3>1 DEF SettingsInv, TouchedAlone
        <3> QED
            BY <2>1, <3>1, <3>2, <1>2, <1>6
    <2>2. CASE m \notin Touched(s)
        <3>1. m \notin doubt[q]
            BY <2>2, <1>8 DEF SaveCommits
        <3>2. Unsaved(q, m)
            BY <2>2, <1>8, <1>3, <1>4 DEF Unsaved, OwnSaves
        <3> QED
            BY <2>2, <3>1, <3>2, <1>2, <1>6 DEF SettingsInv
    <2> QED
        BY <2>1, <2>2
<1> QED
    BY <1>7, <1>8 DEF SettingsInv

\* A save that fails leaves its process in doubt of what it has touched.
LEMMA FailsInv ==
    ASSUME SettingsTypeOK, SettingsInv, NEW s \in Saves, SaveFails(s)
    PROVE  SettingsInv'
<1> DEFINE p == save[s].by
<1>1. save[s] \in SaveStates /\ p \in Apis /\ Saving(s)
    BY SaveFields DEF SaveFails, SaveStates
<1>2. UNCHANGED <<setting, cache>> /\ save'[s] = NoSave
    BY DEF SaveFails, SettingsTypeOK
<1>3. \A r \in Saves \ {s} : save'[r] = save[r] /\ mixed'[r] = mixed[r] \cup (Touched(s) \cap Touched(r))
    BY DEF SaveFails, Mix
<1>4. \A r \in Saves \ {s} : Touched(r)' = Touched(r) /\ (Saving(r)' <=> Saving(r))
    BY <1>3 DEF Touched, Saving
<1>5. Touched(s)' = {}
    BY <1>2 DEF Touched, Saving
<1>6. ASSUME NEW r \in Saves, NEW m \in Keys PROVE TouchedAlone(r, m)'
    BY <1>2, <1>3, <1>4, <1>5 DEF TouchedAlone, SettingsInv
<1>7. \A q \in Apis : doubt'[q] = IF q = p THEN doubt[q] \cup Touched(s) ELSE doubt[q]
    BY DEF SaveFails, SettingsTypeOK
<1>8. ASSUME NEW q \in Apis, NEW m \in Keys, m \notin doubt'[q], Unsaved(q, m)'
      PROVE  m \notin doubt[q] /\ Unsaved(q, m)
    <2>1. m \notin doubt[q] /\ (q = p => m \notin Touched(s))
        BY <1>7, <1>8
    <2> QED
        BY <2>1, <1>8, <1>3, <1>4 DEF Unsaved, OwnSaves
<1> QED
    BY <1>2, <1>6, <1>8 DEF SettingsInv

\* A process that starts again holds the table; the others lose nothing.
LEMMA StartsInv ==
    ASSUME SettingsTypeOK, SettingsInv, NEW p \in Apis, ApiStarts(p)
    PROVE  SettingsInv'
<1>1. setting' = setting /\ mixed' = mixed
    BY DEF ApiStarts
<1>2. \A r \in Saves : save'[r] = IF r \in OwnSaves(p) THEN NoSave ELSE save[r]
    BY DEF ApiStarts, OwnSaves
<1>3. \A q \in Apis : /\ cache'[q] = IF q = p THEN Load(p) ELSE cache[q]
                      /\ q # p => doubt'[q] = doubt[q]
    BY DEF ApiStarts, SettingsTypeOK
<1>4. \A r \in Saves : /\ r \in OwnSaves(p) => Touched(r)' = {}
                       /\ r \notin OwnSaves(p) => Touched(r)' = Touched(r) /\ (Saving(r)' <=> Saving(r))
    BY <1>2 DEF Touched, Saving
<1>5. ASSUME NEW r \in Saves, NEW m \in Keys PROVE TouchedAlone(r, m)'
    <2>1. CASE r \in OwnSaves(p) \/ m \notin Touched(r)
        BY <2>1, <1>4 DEF TouchedAlone
    <2>2. CASE r \notin OwnSaves(p) /\ m \in Touched(r)
        <3>1. save[r].by \in Apis \ {p} /\ save'[r] = save[r]
            BY <2>2, <1>2, SaveFields DEF OwnSaves, Touched, SaveStates
        <3> QED
            BY <2>2, <3>1, <1>1, <1>3, <1>4 DEF TouchedAlone, SettingsInv
    <2> QED
        BY <2>1, <2>2
<1>6. ASSUME NEW q \in Apis, NEW m \in Keys, m \notin doubt'[q], Unsaved(q, m)'
      PROVE  cache'[q][m] = setting'[m]
    <2>1. CASE q = p
        BY <2>1, <1>1, <1>3 DEF Load
    <2>2. CASE q # p
        <3>1. Unsaved(q, m)
            BY <2>2, <1>6, <1>2, <1>4 DEF Unsaved, OwnSaves
        <3> QED
            BY <2>2, <3>1, <1>1, <1>3, <1>6 DEF SettingsInv
    <2> QED
        BY <2>1, <2>2
<1> QED
    BY <1>5, <1>6 DEF SettingsInv

\* No step breaks the invariant.
LEMMA SettingsNextInv ==
    SettingsTypeOK /\ SettingsInv /\ [SettingsNext]_settingsVars => SettingsInv'
<1> SUFFICES ASSUME SettingsTypeOK, SettingsInv, [SettingsNext]_settingsVars PROVE SettingsInv'
    OBVIOUS
<1>1. CASE UNCHANGED settingsVars
    BY <1>1 DEF settingsVars, SettingsInv, TouchedAlone, Unsaved, OwnSaves, Touched, Saving
<1> QED
    BY <1>1, BeginsInv, KeyInv, CommitsInv, FailsInv, StartsInv DEF SettingsNext

\* A process of the API uses what the table holds but for the keys of its own
\* saves that overlapped or failed and of the saves of other processes, for any
\* number of processes, keys and saves.
THEOREM CacheCorrect == SettingsSpec => []CacheIsTable
<1>1. SettingsInit => SettingsInv
    BY DEF SettingsInit, SettingsInv, TouchedAlone, Unsaved, OwnSaves, Touched, Saving
<1> QED
    BY <1>1, SettingsTypeCorrect, SettingsNextInv, UnsavedIsTable, PTL DEF SettingsSpec

-----------------------------------------------------------------------------
(* SnapshotPurge: nothing old is left behind.                              *)

\* Sets of snapshots are finite.
LEMMA SnapsFinite == ASSUME NEW ns \in SUBSET SnapIds PROVE IsFiniteSet(ns) /\ Cardinality(ns) \in Nat
<1>1. IsFiniteSet(SnapIds)
    BY PurgeAssumption, FS_Interval DEF SnapIds
<1> QED
    BY <1>1, FS_Subset, FS_CardinalityType

\* A set of snapshots that is not empty has a last one.
LEMMA LastSnapExists ==
    ASSUME NEW ns \in SUBSET SnapIds, ns # {}
    PROVE  \E n \in ns : \A m \in ns : m <= n
<1> DEFINE above == {u \in Nat : \A m \in ns : m <= u}
<1>1. above # {}
    BY PurgeAssumption DEF SnapIds
<1>2. PICK u \in above : \A v \in above : u <= v
    BY <1>1, LeastExists
<1>3. u \in ns
    <2>1. SUFFICES ASSUME u \notin ns PROVE FALSE
        OBVIOUS
    <2>2. u \in Nat /\ \A m \in ns : m \in Nat /\ m > 0 /\ m <= u - 1
        BY <2>1, <1>2 DEF SnapIds
    <2>3. u - 1 \in above
        BY <2>2
    <2> QED
        BY <2>2, <2>3, <1>2
<1> QED
    BY <1>2, <1>3

\* A batch is not larger than its limit.
LEMMA BatchBounded == ASSUME NEW ns \in SUBSET SnapIds PROVE Cardinality(FirstOf(ns)) <= BatchSize
<1> DEFINE batch == FirstOf(ns)
<1>1. batch \in SUBSET SnapIds
    BY DEF FirstOf
<1>2. CASE batch = {}
    BY <1>2, FS_EmptySet, PurgeAssumption
<1>3. CASE batch # {}
    <2>1. PICK n \in batch : \A m \in batch : m <= n
        BY <1>1, <1>3, LastSnapExists
    <2> DEFINE lower == {m \in ns : m < n}
    <2>2. Cardinality(lower) < BatchSize
        BY <2>1 DEF FirstOf
    <2>3. batch \ {n} \subseteq lower /\ lower \in SUBSET SnapIds
        <3>1. \A m \in batch \ {n} : m < n
            BY <1>1, <2>1, PurgeAssumption DEF SnapIds
        <3>2. batch \subseteq ns
            BY DEF FirstOf
        <3> QED
            BY <3>1, <3>2
    <2>4. Cardinality(batch \ {n}) <= Cardinality(lower)
        BY <2>3, SnapsFinite, FS_Subset
    <2>5. Cardinality(batch \ {n}) = Cardinality(batch) - 1
        BY <1>1, <2>1, SnapsFinite, FS_RemoveElement
    <2> QED
        BY <2>2, <2>4, <2>5, <1>1, <2>3, SnapsFinite, PurgeAssumption
<1> QED
    BY <1>2, <1>3

\* A batch that is not full holds everything there is to delete.
LEMMA ShortBatchIsAll ==
    ASSUME NEW ns \in SUBSET SnapIds, Cardinality(FirstOf(ns)) < BatchSize
    PROVE  FirstOf(ns) = ns
<1> DEFINE rest == ns \ FirstOf(ns)
<1>1. SUFFICES ASSUME rest # {} PROVE FALSE
    BY DEF FirstOf
<1>2. rest \in SUBSET Nat
    <2>1. ns \in SUBSET Nat
        BY PurgeAssumption DEF SnapIds
    <2> QED
        BY <2>1
<1>3. PICK n \in rest : \A m \in rest : n <= m
    BY <1>1, <1>2, LeastExists
<1> DEFINE lower == {m \in ns : m < n}
<1>4. lower \subseteq FirstOf(ns)
    <2>1. ASSUME NEW m \in lower, m \in rest PROVE FALSE
        BY <2>1, <1>2, <1>3
    <2> QED
        BY <2>1
<1>5. FirstOf(ns) \in SUBSET SnapIds /\ lower \in SUBSET SnapIds
    BY DEF FirstOf
<1>6. Cardinality(lower) <= Cardinality(FirstOf(ns))
    BY <1>4, <1>5, SnapsFinite, FS_Subset
<1>7. Cardinality(lower) < BatchSize
    BY <1>5, <1>6, SnapsFinite, PurgeAssumption
<1>8. n \in FirstOf(ns)
    BY <1>3, <1>7 DEF FirstOf
<1> QED
    BY <1>3, <1>8

\* Typing: every step preserves PurgeTypeOK.
LEMMA PurgeNextType == PurgeTypeOK /\ [PurgeNext]_purgeVars => PurgeTypeOK'
<1> SUFFICES ASSUME PurgeTypeOK, [PurgeNext]_purgeVars PROVE PurgeTypeOK'
    OBVIOUS
<1> USE PurgeAssumption DEF PurgeTypeOK, SnapIds
<1>1. CASE AddSnapshot
    BY <1>1 DEF AddSnapshot
<1>2. ASSUME NEW n \in SnapIds, SnapshotExpires(n) PROVE PurgeTypeOK'
    BY <1>2 DEF SnapshotExpires
<1>3. ASSUME NEW ns \in SUBSET SnapIds, DeleteSnapshots(ns) PROVE PurgeTypeOK'
    BY <1>3 DEF DeleteSnapshots
<1>4. ASSUME NEW p \in Purges, PurgeStarts(p) PROVE PurgeTypeOK'
    BY <1>4 DEF PurgeStarts
<1>5. ASSUME NEW p \in Purges, SelectBatch(p) PROVE PurgeTypeOK'
    BY <1>5 DEF SelectBatch, FirstOf
<1>6. ASSUME NEW p \in Purges, DeleteBatch(p) PROVE PurgeTypeOK'
    BY <1>6 DEF DeleteBatch
<1>7. ASSUME NEW p \in Purges, PurgeLost(p) PROVE PurgeTypeOK'
    BY <1>7 DEF PurgeLost, NoPurge
<1>8. CASE UNCHANGED purgeVars
    BY <1>8 DEF purgeVars
<1> QED
    BY <1>1, <1>2, <1>3, <1>4, <1>5, <1>6, <1>7, <1>8 DEF PurgeNext

\* Type correctness of SnapshotPurge.
THEOREM PurgeTypeCorrect == PurgeSpec => []PurgeTypeOK
<1>1. PurgeInit => PurgeTypeOK
    BY PurgeAssumption DEF PurgeInit, PurgeTypeOK, NoPurge, SnapIds
<1> QED
    BY <1>1, PurgeNextType, PTL DEF PurgeSpec

\* What makes PurgeComplete inductive: a snapshot's id is never given again, so
\* nothing new is due; and a batch that is not full holds all that is due.
IdsGiven ==
    /\ snaps \cup expired \subseteq 1 .. lastSnap
    /\ \A p \in Purges : purge[p].due \subseteq 1 .. lastSnap
BatchIsEnough(p) ==
    purge[p].stage = "delete" =>
        /\ Cardinality(purge[p].chosen) <= BatchSize
        /\ Cardinality(purge[p].chosen) < BatchSize => purge[p].due \cap snaps \subseteq purge[p].chosen
PurgeInv == IdsGiven /\ PurgeComplete /\ \A p \in Purges : BatchIsEnough(p)

\* No step breaks it.
LEMMA PurgeNextInv == PurgeTypeOK /\ PurgeInv /\ [PurgeNext]_purgeVars => PurgeInv'
<1> SUFFICES ASSUME PurgeTypeOK, PurgeInv, [PurgeNext]_purgeVars PROVE PurgeInv'
    OBVIOUS
<1> USE DEF PurgeTypeOK, PurgeInv, IdsGiven, PurgeComplete, BatchIsEnough
<1>1. CASE AddSnapshot
    BY <1>1 DEF AddSnapshot
<1>2. ASSUME NEW n \in SnapIds, SnapshotExpires(n) PROVE PurgeInv'
    BY <1>2 DEF SnapshotExpires
<1>3. ASSUME NEW ns \in SUBSET SnapIds, DeleteSnapshots(ns) PROVE PurgeInv'
    BY <1>3 DEF DeleteSnapshots
<1>4. ASSUME NEW p \in Purges, PurgeStarts(p) PROVE PurgeInv'
    BY <1>4 DEF PurgeStarts
<1>5. ASSUME NEW p \in Purges, SelectBatch(p) PROVE PurgeInv'
    <2> DEFINE remaining == purge[p].due \cap snaps
    <2>1. remaining \in SUBSET SnapIds
        OBVIOUS
    <2>2. Cardinality(FirstOf(remaining)) <= BatchSize
        BY <2>1, BatchBounded
    <2>3. Cardinality(FirstOf(remaining)) < BatchSize => FirstOf(remaining) = remaining
        BY <2>1, ShortBatchIsAll
    <2>4. ASSUME FirstOf(remaining) = {} PROVE remaining = {}
        <3>1. Cardinality(FirstOf(remaining)) = 0
            BY <2>4, FS_EmptySet
        <3>2. Cardinality(FirstOf(remaining)) < BatchSize
            BY <3>1, PurgeAssumption
        <3>3. FirstOf(remaining) = remaining
            BY <2>3, <3>2
        <3> QED
            BY <2>4, <3>3
    <2>5. /\ purge'[p].due = purge[p].due
          /\ purge'[p].chosen = FirstOf(remaining)
          /\ purge'[p].stage = IF FirstOf(remaining) = {} THEN "ended" ELSE "delete"
        BY <1>5 DEF SelectBatch
    <2>6. \A q \in Purges \ {p} : purge'[q] = purge[q]
        BY <1>5 DEF SelectBatch
    <2>7. UNCHANGED <<snaps, lastSnap, expired>>
        BY <1>5 DEF SelectBatch
    <2>8. BatchIsEnough(p)' /\ (purge'[p].stage = "ended" => purge'[p].due \cap snaps' = {})
        BY <2>2, <2>3, <2>4, <2>5, <2>7
    <2> HIDE DEF remaining
    <2>9. \A q \in Purges : purge'[q].due = purge[q].due
        BY <2>5, <2>6
    <2> QED
        BY <2>6, <2>7, <2>8, <2>9
<1>6. ASSUME NEW p \in Purges, DeleteBatch(p) PROVE PurgeInv'
    <2> DEFINE chosen == purge[p].chosen
               deleted == chosen \cap snaps
    <2>1. purge[p].stage = "delete" /\ snaps' = snaps \ chosen /\ UNCHANGED <<lastSnap, expired>>
        BY <1>6 DEF DeleteBatch
    <2>2. \A q \in Purges \ {p} : purge'[q] = purge[q]
        BY <1>6 DEF DeleteBatch
    <2>3. purge'[p].due = purge[p].due /\ purge'[p].stage # "delete"
        BY <1>6 DEF DeleteBatch
    <2>4. ASSUME purge'[p].stage = "ended" PROVE Cardinality(chosen) < BatchSize
        <3>1. Cardinality(deleted) < BatchSize /\ ~(deleted # chosen /\ Cardinality(chosen) = BatchSize)
            BY <1>6, <2>4 DEF DeleteBatch, LastBatch
        <3>2. Cardinality(chosen) <= BatchSize /\ Cardinality(chosen) \in Nat
            BY <2>1, SnapsFinite
        <3> QED
            <4>1. CASE deleted = chosen
                BY <4>1, <3>1
            <4>2. CASE deleted # chosen
                BY <4>2, <3>1, <3>2, PurgeAssumption
            <4> QED
                BY <4>1, <4>2
    <2>5. purge'[p].stage = "ended" => purge'[p].due \cap snaps' = {}
        BY <2>1, <2>3, <2>4
    <2>6. \A q \in Purges : purge'[q].due = purge[q].due
        BY <2>2, <2>3
    <2> HIDE DEF chosen, deleted
    <2> QED
        BY <2>1, <2>2, <2>3, <2>5, <2>6
<1>7. ASSUME NEW p \in Purges, PurgeLost(p) PROVE PurgeInv'
    BY <1>7 DEF PurgeLost, NoPurge
<1>8. CASE UNCHANGED purgeVars
    BY <1>8 DEF purgeVars
<1> QED
    BY <1>1, <1>2, <1>3, <1>4, <1>5, <1>6, <1>7, <1>8 DEF PurgeNext

\* A purge that ends leaves nothing that had expired when it started, for every
\* size of a batch and any number of purges, scrapes and deletions meanwhile.
THEOREM PurgeIsComplete == PurgeSpec => []PurgeComplete
<1>1. PurgeInit => PurgeInv
    BY DEF PurgeInit, PurgeInv, IdsGiven, PurgeComplete, BatchIsEnough, NoPurge
<1>2. PurgeInv => PurgeComplete
    BY DEF PurgeInv
<1> QED
    BY <1>1, <1>2, PurgeTypeCorrect, PurgeNextInv, PTL DEF PurgeSpec

-----------------------------------------------------------------------------
(* ProxyGateway: what is served is what the file says.                     *)

\* A synchronisation that is under way has its fields.
LEMMA SyncFields ==
    ASSUME GatewayTypeOK, NEW y \in Syncs, syncing[y].stage # "idle"
    PROVE  syncing[y] \in [stage : SyncStages, node : Nodes \cup {"all"}, rows : SUBSET Links]
BY DEF GatewayTypeOK, Quiet

\* Typing: every step preserves GatewayTypeOK.
LEMMA GatewayNextType == GatewayTypeOK /\ [GatewayNext]_gatewayVars => GatewayTypeOK'
<1> SUFFICES ASSUME GatewayTypeOK, [GatewayNext]_gatewayVars PROVE GatewayTypeOK'
    OBVIOUS
<1> DEFINE states == {Quiet} \cup [stage : SyncStages, node : Nodes \cup {"all"}, rows : SUBSET Links]
           types == /\ table \in [Nodes -> Links \cup {NoLink}]
                    /\ marked \in SUBSET Nodes
                    /\ file \in [Hosts -> SUBSET Links]
                    /\ served \in [Hosts -> (SUBSET Links) \cup {Stopped}]
                    /\ syncing \in [Syncs -> states]
                    /\ changes \in 0 .. MaxChanges
<1>1. types
    BY DEF GatewayTypeOK
<1>2. SUFFICES types'
    BY DEF GatewayTypeOK
<1>3. Quiet \in states
    OBVIOUS
<1>4. \A y \in Syncs : HostOf[y] \in Hosts
    BY GatewayAssumption
<1>5. ASSUME NEW y \in Syncs, syncing[y].stage # "idle"
      PROVE  /\ syncing[y].rows \in SUBSET Links
             /\ \A s \in SyncStages, links \in SUBSET Links :
                   /\ [syncing[y] EXCEPT !.stage = s] \in states
                   /\ [syncing[y] EXCEPT !.stage = s, !.rows = links] \in states
    BY <1>5, SyncFields
<1>6. Rows(table) \in SUBSET Links
    BY <1>1 DEF Rows
<1> HIDE DEF states
<1>7. ASSUME NEW y \in Syncs, NEW n \in Nodes, NEW link \in Links \cup {NoLink}, NEW raw \in BOOLEAN,
             ChangeRow(y, n, link, raw)
      PROVE  types'
    <2>1. [stage |-> "committed", rows |-> {}, node |-> IF link = NoLink THEN "all" ELSE n] \in states
        BY DEF states, SyncStages
    <2>2. changes' \in 0 .. MaxChanges
        BY <1>1, <1>7, GatewayAssumption DEF ChangeRow
    <2> QED
        BY <1>1, <1>7, <2>1, <2>2 DEF ChangeRow
<1>8. ASSUME NEW y \in Syncs, Reload(y) PROVE types'
    <2>1. [stage |-> "committed", node |-> "all", rows |-> {}] \in states
        BY DEF states, SyncStages
    <2>2. changes' \in 0 .. MaxChanges
        BY <1>1, <1>8, GatewayAssumption DEF Reload
    <2> QED
        BY <1>1, <1>8, <2>1, <2>2 DEF Reload
<1>9. ASSUME NEW y \in Syncs, SyncReads(y) PROVE types'
    BY <1>1, <1>5, <1>6, <1>9 DEF SyncReads, SyncStages
<1>10. ASSUME NEW y \in Syncs, SyncFails(y) PROVE marked' \in SUBSET Nodes /\ syncing' \in [Syncs -> states]
    BY <1>1, <1>3, <1>10 DEF SyncFails
<1>11. ASSUME NEW y \in Syncs, SyncRaises(y) \/ SyncFindsNoBinary(y) \/ SyncStops(y) PROVE types'
    <2>1. CASE SyncRaises(y)
        BY <1>1, <1>3, <2>1 DEF SyncRaises
    <2>2. CASE SyncFindsNoBinary(y)
        BY <1>1, <1>10, <2>2 DEF SyncFindsNoBinary
    <2>3. CASE SyncStops(y)
        BY <1>1, <1>3, <1>4, <2>3 DEF SyncStops
    <2> QED
        BY <1>11, <2>1, <2>2, <2>3
<1>12. ASSUME NEW y \in Syncs, SyncWrites(y) PROVE types'
    BY <1>1, <1>4, <1>5, <1>12 DEF SyncWrites, SyncStages
<1>13. ASSUME NEW y \in Syncs, SyncKills(y) PROVE types'
    BY <1>1, <1>4, <1>5, <1>13 DEF SyncKills, SyncStages
<1>14. ASSUME NEW y \in Syncs, SyncStarts(y) PROVE types'
    <2>1. CASE served[HostOf[y]] = Stopped /\ Starts(file[HostOf[y]])
        BY <1>1, <1>3, <1>4, <1>14, <2>1 DEF SyncStarts
    <2>2. CASE ~ (served[HostOf[y]] = Stopped /\ Starts(file[HostOf[y]]))
        BY <1>1, <1>10, <1>14, <2>2 DEF SyncStarts
    <2> QED
        BY <2>1, <2>2
<1>15. ASSUME NEW h \in Hosts, GatewayStops(h) PROVE types'
    BY <1>1, <1>15 DEF GatewayStops
<1>16. CASE UNCHANGED gatewayVars
    BY <1>1, <1>16 DEF gatewayVars
<1> QED
    BY <1>7, <1>8, <1>9, <1>11, <1>12, <1>13, <1>14, <1>15, <1>16 DEF GatewayNext

\* Type correctness of ProxyGateway.
THEOREM GatewayTypeCorrect == GatewaySpec => []GatewayTypeOK
<1>1. GatewayInit => GatewayTypeOK
    BY GatewayAssumption DEF GatewayInit, GatewayTypeOK
<1> QED
    BY <1>1, GatewayNextType, PTL DEF GatewaySpec

\* What makes ServedIsFile inductive: whoever has written another file than the
\* one that is served has yet to kill what serves it.
ServedOrWritten ==
    \A h \in Hosts :
        \/ served[h] \in {Stopped, file[h]}
        \/ \E y \in Syncs : HostOf[y] = h /\ syncing[y].stage = "written"

\* What a step serves is what it wrote, or what it served before.
LEMMA GatewayNextServed ==
    GatewayTypeOK /\ ServedOrWritten /\ [GatewayNext]_gatewayVars => ServedOrWritten'
<1> SUFFICES ASSUME GatewayTypeOK, ServedOrWritten, [GatewayNext]_gatewayVars
             PROVE  ServedOrWritten'
    OBVIOUS
<1>1. ASSUME UNCHANGED <<file, served>>,
             \A y \in Syncs : syncing[y].stage = "written" => syncing'[y] = syncing[y]
      PROVE  ServedOrWritten'
    BY <1>1 DEF ServedOrWritten
<1>2. ASSUME NEW y \in Syncs, syncing[y].stage # "written",
             \A x \in Syncs \ {y} : syncing'[x] = syncing[x]
      PROVE  \A x \in Syncs : syncing[x].stage = "written" => syncing'[x] = syncing[x]
    BY <1>2
<1>3. \A y \in Syncs : HostOf[y] \in Hosts
    BY GatewayAssumption
<1>4. ASSUME NEW y \in Syncs, NEW n \in Nodes, NEW link \in Links \cup {NoLink}, NEW raw \in BOOLEAN,
             ChangeRow(y, n, link, raw)
      PROVE  ServedOrWritten'
    <2>1. syncing[y].stage # "written" /\ \A x \in Syncs \ {y} : syncing'[x] = syncing[x]
        BY <1>4 DEF ChangeRow, Quiet, GatewayTypeOK
    <2>2. UNCHANGED <<file, served>>
        BY <1>4 DEF ChangeRow
    <2> QED
        BY <1>1, <1>2, <2>1, <2>2
<1>5. ASSUME NEW y \in Syncs, Reload(y) \/ SyncReads(y) \/ SyncRaises(y) \/ SyncFindsNoBinary(y)
      PROVE  ServedOrWritten'
    <2>1. syncing[y].stage # "written" /\ \A x \in Syncs \ {y} : syncing'[x] = syncing[x]
        BY <1>5 DEF Reload, SyncReads, SyncRaises, SyncFindsNoBinary, SyncFails, Quiet, GatewayTypeOK
    <2>2. UNCHANGED <<file, served>>
        BY <1>5 DEF Reload, SyncReads, SyncRaises, SyncFindsNoBinary, SyncFails
    <2> QED
        BY <1>1, <1>2, <2>1, <2>2
<1>6. ASSUME NEW y \in Syncs, SyncStops(y) \/ SyncKills(y) PROVE ServedOrWritten'
    <2>1. \A x \in Syncs \ {y} : syncing'[x] = syncing[x]
        BY <1>6 DEF SyncStops, SyncKills, GatewayTypeOK
    <2>2. file' = file /\ served'[HostOf[y]] = Stopped
          /\ \A h \in Hosts \ {HostOf[y]} : served'[h] = served[h]
        BY <1>3, <1>6 DEF SyncStops, SyncKills, GatewayTypeOK
    <2> QED
        BY <2>1, <2>2 DEF ServedOrWritten
<1>7. ASSUME NEW y \in Syncs, SyncWrites(y) PROVE ServedOrWritten'
    <2>1. /\ syncing'[y].stage = "written"
          /\ \A x \in Syncs \ {y} : syncing'[x] = syncing[x]
        BY <1>7, SyncFields DEF SyncWrites, GatewayTypeOK
    <2>2. served' = served /\ \A h \in Hosts \ {HostOf[y]} : file'[h] = file[h]
        BY <1>7 DEF SyncWrites, GatewayTypeOK
    <2>3. syncing[y].stage = "read"
        BY <1>7 DEF SyncWrites
    <2> QED
        BY <2>1, <2>2, <2>3 DEF ServedOrWritten
<1>8. ASSUME NEW y \in Syncs, SyncStarts(y) PROVE ServedOrWritten'
    <2>1. syncing[y].stage = "killed" /\ \A x \in Syncs \ {y} : syncing'[x] = syncing[x]
        BY <1>8 DEF SyncStarts, SyncFails, GatewayTypeOK
    <2>2. file' = file /\ \A h \in Hosts : served'[h] = served[h] \/ served'[h] = file[h]
        BY <1>3, <1>8 DEF SyncStarts, GatewayTypeOK
    <2> QED
        BY <2>1, <2>2 DEF ServedOrWritten
<1>9. ASSUME NEW h \in Hosts, GatewayStops(h) PROVE ServedOrWritten'
    BY <1>9 DEF GatewayStops, ServedOrWritten, GatewayTypeOK
<1>10. CASE UNCHANGED gatewayVars
    BY <1>10 DEF gatewayVars, ServedOrWritten
<1> QED
    BY <1>4, <1>5, <1>6, <1>7, <1>8, <1>9, <1>10 DEF GatewayNext

\* Whenever no restart is under way on a host, its sing-box serves the file as
\* it stands or nothing, for any number of processes and hosts.
THEOREM ServedCorrect == GatewaySpec => []ServedIsFile
<1>1. GatewayInit => ServedOrWritten
    BY DEF GatewayInit, ServedOrWritten
<1>2. ServedOrWritten => ServedIsFile
    BY DEF ServedOrWritten, ServedIsFile
<1> QED
    BY <1>1, <1>2, GatewayTypeCorrect, GatewayNextServed, PTL DEF GatewaySpec

-----------------------------------------------------------------------------
(* ClusterMonitor: the timing of the heartbeats.                           *)

\* One worker at least has to be there.
LEMMA EnoughIsNat == Enough \in Nat /\ Enough >= 1
<1>1. Expected \in Nat
    BY ClusterAssumption
<1>2. (6 * Expected) \div 10 \in Nat
    BY <1>1
<1> QED
    BY <1>2 DEF Enough

\* The numbers of the module are numbers.
LEMMA Numbers ==
    /\ Ttl \in Nat /\ Period \in Nat /\ Lag \in Nat /\ Skew \in Nat /\ MaxWorkers \in Nat
    /\ Ttl > 0 /\ Period > 0
    /\ 2 * (Period + Lag) + Skew < Ttl
BY ClusterAssumption

\* Typing: Init establishes ClusterTypeOK.
LEMMA ClusterInitType == ClusterInit => ClusterTypeOK
BY Numbers DEF ClusterInit, ClusterTypeOK, Processes, Counted, Down

\* A loop moves to a place of the loop when a step passes.
LEMMA LaterType ==
    ASSUME ClusterTypeOK, ClockStep, NEW p \in Processes
    PROVE  Later(p) \in {Down}
               \cup [stage : {"sleep"}, steps : 1 .. Period]
               \cup [stage : {"due"}, steps : 0 .. Lag]
               \cup [stage : {"store"}, steps : 0 .. Lag, count : Counted]
<1> USE Numbers DEF ClusterTypeOK
<1>1. CASE process[p] = Down
    BY <1>1 DEF Later
<1>2. CASE process[p] \in [stage : {"sleep"}, steps : 1 .. Period]
    BY <1>2 DEF Later, Down, Due
<1>3. CASE process[p] \in [stage : {"due"}, steps : 0 .. Lag]
    BY <1>3 DEF Later, Down, ClockStep
<1>4. CASE process[p] \in [stage : {"store"}, steps : 0 .. Lag, count : Counted]
    BY <1>4 DEF Later, Down, ClockStep
<1> QED
    BY <1>1, <1>2, <1>3, <1>4

\* Typing: every step preserves ClusterTypeOK.
LEMMA ClusterNextType == ClusterTypeOK /\ [ClusterNext]_clusterVars => ClusterTypeOK'
<1> SUFFICES ASSUME ClusterTypeOK, [ClusterNext]_clusterVars PROVE ClusterTypeOK'
    OBVIOUS
<1> USE Numbers
<1>1. CASE ClockStep
    <2>1. process' \in [Processes -> {Down}
              \cup [stage : {"sleep"}, steps : 1 .. Period] \cup [stage : {"due"}, steps : 0 .. Lag]
              \cup [stage : {"store"}, steps : 0 .. Lag, count : Counted]]
        BY <1>1, LaterType DEF ClockStep
    <2>2. age' \in [Processes -> 0 .. Ttl] /\ enoughAgo' \in 0 .. Ttl + Lag + 1
        BY <1>1 DEF ClockStep, ClusterTypeOK, AtMost
    <2> QED
        BY <1>1, <2>1, <2>2 DEF ClockStep, ClusterTypeOK
<1>2. ASSUME NEW p \in Processes, ProcessStarts(p) \/ ProcessDies(p) PROVE ClusterTypeOK'
    BY <1>2 DEF ProcessStarts, ProcessDies, ClusterTypeOK, Due
<1>3. ASSUME NEW n \in Counted, WorkersChange(n) \/ CountWorkers(n) PROVE ClusterTypeOK'
    <2>1. CASE WorkersChange(n)
        BY <2>1 DEF WorkersChange, ClusterTypeOK
    <2>2. CASE CountWorkers(n)
        <3>1. process["api"].steps \in 0 .. Lag
            BY <2>2 DEF CountWorkers, ClusterTypeOK, Processes, Down
        <3> QED
            BY <2>2, <3>1 DEF CountWorkers, ClusterTypeOK
    <2> QED
        BY <1>3, <2>1, <2>2
<1>4. ASSUME NEW p \in Processes, NEW stored \in BOOLEAN, StoreKey(p, stored)
      PROVE  ClusterTypeOK'
    <2>1. process' \in [Processes -> {Down}
              \cup [stage : {"sleep"}, steps : 1 .. Period] \cup [stage : {"due"}, steps : 0 .. Lag]
              \cup [stage : {"store"}, steps : 0 .. Lag, count : Counted]]
        BY <1>4 DEF StoreKey, ClusterTypeOK, Slept
    <2>2. age' \in [Processes -> 0 .. Ttl] /\ missed' \in [Processes -> 0 .. 2]
        BY <1>4 DEF StoreKey, ClusterTypeOK, AtMost
    <2>3. told' \in Counted
        BY <1>4 DEF StoreKey, ClusterTypeOK, Processes, Down
    <2> QED
        BY <1>4, <2>1, <2>2, <2>3 DEF StoreKey, ClusterTypeOK
<1>5. CASE UNCHANGED clusterVars
    BY <1>5 DEF clusterVars, ClusterTypeOK
<1> QED
    BY <1>1, <1>2, <1>3, <1>4, <1>5 DEF ClusterNext

\* Timing is typed: no key is older than its life (heartbeats of the processes).
THEOREM ClusterTypeCorrect == ClusterSpec => []ClusterTypeOK
BY ClusterInitType, ClusterNextType, PTL DEF ClusterSpec

-----------------------------------------------------------------------------
(* A key is renewed before it expires.                                     *)

\* How old a key may be: a round for each heartbeat that was missed, and what
\* has passed of this one.
Fresh(p) ==
    process[p] # Down /\ missed[p] <= 1 =>
        age[p] <= missed[p] * (Period + Lag) +
                  (IF process[p].stage = "sleep" THEN Period - process[p].steps
                                                 ELSE Period + process[p].steps)

FreshInv == ClusterTypeOK /\ \A p \in Processes : Fresh(p)

\* The clock makes a key older by what the loop has come on.
LEMMA FreshClock ==
    ASSUME FreshInv, ClockStep, NEW p \in Processes
    PROVE  Fresh(p)'
<1> USE Numbers DEF FreshInv, ClusterTypeOK
<1>1. /\ process'[p] = Later(p) /\ missed'[p] = missed[p]
      /\ age[p] \in Int /\ age'[p] \in Int /\ age'[p] <= age[p] + 1
    BY DEF ClockStep, AtMost
<1>2. CASE process[p] = Down
    BY <1>1, <1>2 DEF Later, Fresh
<1>3. CASE process[p] \in [stage : {"sleep"}, steps : 1 .. Period]
    <2>1. CASE process[p].steps = 1
        BY <1>1, <1>3, <2>1 DEF Later, Fresh, Down, Due
    <2>2. CASE process[p].steps # 1
        <3>1. Later(p) = [process[p] EXCEPT !.steps = @ - 1]
            BY <1>3, <2>2 DEF Later, Down
        <3> QED
            BY <1>1, <1>3, <3>1 DEF Fresh, Down
    <2> QED
        BY <2>1, <2>2
<1>4. CASE process[p] \in [stage : {"due"}, steps : 0 .. Lag]
                       \cup [stage : {"store"}, steps : 0 .. Lag, count : Counted]
    <2>1. Later(p) = [process[p] EXCEPT !.steps = @ + 1]
        BY <1>4 DEF Later, Down
    <2> QED
        BY <1>1, <1>4, <2>1 DEF Fresh, Down
<1> QED
    BY <1>2, <1>3, <1>4

\* A heartbeat that is stored makes the key new; one that is lost leaves it a
\* round older.
LEMMA FreshStore ==
    ASSUME FreshInv, NEW p \in Processes, NEW q \in Processes, NEW stored \in BOOLEAN,
           StoreKey(q, stored)
    PROVE  Fresh(p)'
<1> USE Numbers DEF FreshInv, ClusterTypeOK
<1>1. CASE p # q
    BY <1>1 DEF StoreKey, Fresh
<1>2. CASE p = q
    <2>1. process'[p] = Slept
        BY <1>2 DEF StoreKey
    <2>2. /\ process[p].steps \in 0 .. Lag
          /\ process[p].stage # "sleep" /\ process[p] # Down
        BY <1>2 DEF StoreKey, Down, Processes
    <2>3. CASE stored
        <3>1. age'[p] = 0 /\ missed'[p] = 0
            BY <1>2, <2>3 DEF StoreKey
        <3> QED
            BY <2>1, <3>1 DEF Fresh, Slept
    <2>4. CASE ~stored
        <3>1. age'[p] = age[p] /\ missed'[p] = AtMost(missed[p] + 1, 2)
            BY <1>2, <2>4 DEF StoreKey
        <3>2. CASE missed[p] = 0
            <4>1. age[p] <= Period + process[p].steps
                BY <2>2, <3>2 DEF Fresh
            <4> QED
                BY <2>1, <2>2, <3>1, <3>2, <4>1 DEF Fresh, Slept, AtMost
        <3>3. CASE missed[p] # 0
            <4>1. missed'[p] = 2
                BY <3>1, <3>3 DEF AtMost
            <4> QED
                BY <4>1 DEF Fresh
        <3> QED
            BY <3>2, <3>3
    <2> QED
        BY <2>3, <2>4
<1> QED
    BY <1>1, <1>2

\* Every step keeps the bound.
LEMMA FreshStep == FreshInv /\ [ClusterNext]_clusterVars => FreshInv'
<1> SUFFICES ASSUME FreshInv, [ClusterNext]_clusterVars, NEW p \in Processes PROVE Fresh(p)'
    BY ClusterNextType DEF FreshInv
<1> USE Numbers DEF FreshInv, ClusterTypeOK
<1>1. CASE ClockStep
    BY <1>1, FreshClock
<1>2. ASSUME NEW q \in Processes, ProcessStarts(q) PROVE Fresh(p)'
    BY <1>2 DEF ProcessStarts, Fresh
<1>3. ASSUME NEW q \in Processes, ProcessDies(q) PROVE Fresh(p)'
    BY <1>3 DEF ProcessDies, Fresh
<1>4. ASSUME NEW n \in Counted, WorkersChange(n) PROVE Fresh(p)'
    BY <1>4 DEF WorkersChange, Fresh
<1>5. ASSUME NEW n \in Counted, CountWorkers(n) PROVE Fresh(p)'
    <2>1. CASE p # "api"
        BY <1>5, <2>1 DEF CountWorkers, Fresh
    <2>2. CASE p = "api"
        <3>1. process'[p] = [stage |-> "store", steps |-> process[p].steps, count |-> n]
            BY <1>5, <2>2 DEF CountWorkers
        <3>2. process[p] # Down /\ process[p].stage = "due"
            BY <1>5, <2>2 DEF CountWorkers, Down
        <3> QED
            BY <1>5, <3>1, <3>2 DEF CountWorkers, Fresh
    <2> QED
        BY <2>1, <2>2
<1>6. ASSUME NEW q \in Processes, NEW stored \in BOOLEAN, StoreKey(q, stored) PROVE Fresh(p)'
    BY <1>6, FreshStore
<1>7. CASE UNCHANGED clusterVars
    BY <1>7 DEF clusterVars, Fresh
<1> QED
    BY <1>1, <1>2, <1>3, <1>4, <1>5, <1>6, <1>7 DEF ClusterNext

\* An API or a Beat that runs and has stored one of its last two heartbeats is
\* shown, whatever the clocks of the hosts say, if two rounds and the
\* difference of the clocks are shorter than the life of a key
\* (_build_node_view, _cluster_heartbeat_loop).
THEOREM RunningShown == ClusterSpec => []RunningIsShown
<1>1. ClusterInit => FreshInv
    BY ClusterInitType DEF ClusterInit, FreshInv, Fresh
<1>2. FreshInv => RunningIsShown
    <2> SUFFICES ASSUME FreshInv PROVE RunningIsShown
        OBVIOUS
    <2>1. ASSUME NEW p \in Processes, process[p] # Down, missed[p] <= 1
          PROVE  age[p] <= 2 * (Period + Lag)
        <3> USE Numbers DEF FreshInv, ClusterTypeOK
        <3>1. missed[p] = 0 \/ missed[p] = 1
            BY <2>1
        <3>2. age[p] <= missed[p] * (Period + Lag) + (Period + Lag)
            <4>1. CASE process[p] \in [stage : {"sleep"}, steps : 1 .. Period]
                BY <2>1, <3>1, <4>1 DEF Fresh
            <4>2. CASE process[p] \in [stage : {"due"}, steps : 0 .. Lag]
                                   \cup [stage : {"store"}, steps : 0 .. Lag, count : Counted]
                BY <2>1, <3>1, <4>2 DEF Fresh
            <4> QED
                BY <2>1, <4>1, <4>2
        <3> QED
            BY <3>1, <3>2
    <2>2. skew <= Skew /\ skew \in Int /\ \A p \in Processes : age[p] \in Int
        BY Numbers DEF FreshInv, ClusterTypeOK
    <2> QED
        BY <2>1, <2>2, Numbers DEF RunningIsShown, Online, KeyThere, BeatShown, Processes
<1> QED
    BY <1>1, <1>2, FreshStep, PTL DEF ClusterSpec

-----------------------------------------------------------------------------
(* Workers that are shown were there.                                      *)

\* Enough workers were counted when the heartbeat began that is under way, or
\* when the one began that the key is from.
CountedThen ==
    /\ workers >= Enough => enoughAgo = 0
    /\ process["api"].stage = "store" /\ process["api"].count >= Enough
           => enoughAgo <= process["api"].steps
    /\ age["api"] < Ttl /\ told >= Enough => enoughAgo <= age["api"] + Lag

WorkersInv == ClusterTypeOK /\ CountedThen

\* Every step keeps it.
LEMMA WorkersStep == WorkersInv /\ [ClusterNext]_clusterVars => WorkersInv'
<1> SUFFICES ASSUME WorkersInv, [ClusterNext]_clusterVars PROVE CountedThen'
    BY ClusterNextType DEF WorkersInv
<1> USE Numbers, EnoughIsNat DEF WorkersInv, ClusterTypeOK
<1>0. "api" \in Processes
    BY DEF Processes
<1>1. CASE ClockStep
    <2>1. /\ process'["api"] = Later("api")
          /\ age["api"] \in Int /\ age'["api"] \in Int
          /\ age'["api"] < Ttl => age'["api"] = age["api"] + 1
          /\ enoughAgo' \in Int /\ enoughAgo' <= enoughAgo + 1
          /\ workers >= Enough => enoughAgo' = 0
        BY <1>0, <1>1 DEF ClockStep, AtMost
    <2>2. ASSUME Later("api").stage = "store"
          PROVE  /\ process["api"].stage = "store"
                 /\ process["api"] \in [stage : {"store"}, steps : 0 .. Lag, count : Counted]
                 /\ Later("api") = [process["api"] EXCEPT !.steps = @ + 1]
        <3>1. process["api"] # Down
            BY <2>2 DEF Later, Down
        <3>2. process["api"].stage # "sleep"
            BY <1>0, <2>2, <3>1 DEF Later, Due
        <3>3. Later("api") = [process["api"] EXCEPT !.steps = @ + 1]
            BY <3>1, <3>2 DEF Later
        <3> QED
            BY <1>0, <2>2, <3>1, <3>2, <3>3
    <2>3. UNCHANGED <<told, workers>>
        BY <1>1 DEF ClockStep
    <2> QED
        BY <2>1, <2>2, <2>3 DEF CountedThen
<1>2. ASSUME NEW p \in Processes, ProcessStarts(p) \/ ProcessDies(p) PROVE CountedThen'
    BY <1>0, <1>2 DEF ProcessStarts, ProcessDies, CountedThen, Due, Down
<1>3. ASSUME NEW n \in Counted, WorkersChange(n) PROVE CountedThen'
    <2>1. process["api"].stage = "store" => process["api"].steps \in Nat
        BY <1>0 DEF Down
    <2>2. /\ age["api"] \in Nat
          /\ UNCHANGED <<process, age, told>>
          /\ workers' = n /\ enoughAgo' = IF n >= Enough THEN 0 ELSE enoughAgo
        BY <1>0, <1>3 DEF WorkersChange
    <2> QED
        BY <2>1, <2>2 DEF CountedThen
<1>4. ASSUME NEW n \in Counted, CountWorkers(n) PROVE CountedThen'
    <2>1. /\ process'["api"] = [stage |-> "store", steps |-> process["api"].steps, count |-> n]
          /\ process["api"].steps \in 0 .. Lag
          /\ n \in 0 .. workers
          /\ UNCHANGED <<age, told, workers, enoughAgo>>
        BY <1>0, <1>4 DEF CountWorkers, Found, Down
    <2> QED
        BY <2>1 DEF CountedThen, Counted
<1>5. ASSUME NEW p \in Processes, NEW stored \in BOOLEAN, StoreKey(p, stored)
      PROVE  CountedThen'
    <2>1. CASE p # "api"
        BY <1>0, <1>5, <2>1 DEF StoreKey, CountedThen
    <2>2. CASE p = "api"
        <3>1. /\ process["api"].stage = "store"
              /\ process["api"] \in [stage : {"store"}, steps : 0 .. Lag, count : Counted]
              /\ process'["api"].stage = "sleep"
            BY <1>0, <1>5, <2>2 DEF StoreKey, Slept, Down
        <3>2. UNCHANGED <<workers, enoughAgo>>
            BY <1>5 DEF StoreKey
        <3>3. CASE stored
            <4>1. age'["api"] = 0 /\ told' = process["api"].count
                BY <1>0, <1>5, <2>2, <3>3 DEF StoreKey
            <4> QED
                BY <3>1, <3>2, <4>1 DEF CountedThen
        <3>4. CASE ~stored
            <4>1. UNCHANGED <<age, told>>
                BY <1>5, <3>4 DEF StoreKey
            <4> QED
                BY <3>1, <3>2, <4>1 DEF CountedThen
        <3> QED
            BY <3>3, <3>4
    <2> QED
        BY <2>1, <2>2
<1>6. CASE UNCHANGED clusterVars
    BY <1>6 DEF clusterVars, CountedThen
<1> QED
    BY <1>1, <1>2, <1>3, <1>4, <1>5, <1>6 DEF ClusterNext

\* A node that is shown with workers enough had as many within the life of a
\* key, however long it has been dead (_build_node_view, _worker_status).
THEOREM WorkersShownWereThere == ClusterSpec => []WorkersWereThere
<1>1. ClusterInit => WorkersInv
    BY ClusterInitType, Numbers, EnoughIsNat
       DEF ClusterInit, WorkersInv, CountedThen, Processes, Down
<1>2. WorkersInv => WorkersWereThere
    <2> SUFFICES ASSUME WorkersInv, NEW n \in 0 .. workers, WorkersOk(n)
                 PROVE  enoughAgo <= Ttl + Lag
        BY DEF WorkersWereThere
    <2> USE Numbers, EnoughIsNat DEF WorkersInv, ClusterTypeOK, Counted, Processes
    <2>1. KeyThere("api") /\ ShownWorkers(n) >= Enough
        BY DEF WorkersOk, Online
    <2>2. CASE told > n
        BY <2>1, <2>2 DEF ShownWorkers, KeyThere, CountedThen
    <2>3. CASE ~(told > n)
        BY <2>1, <2>3 DEF ShownWorkers, CountedThen
    <2> QED
        BY <2>2, <2>3
<1> QED
    BY <1>1, <1>2, WorkersStep, PTL DEF ClusterSpec
=============================================================================
