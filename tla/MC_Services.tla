----------------------------- MODULE MC_Services -----------------------------
(* The components that share no state: each state belongs to one of them,   *)
(* part, which is the only one that moves.  What acts concurrently in one   *)
(* of them (requests, transactions, processes) is one of two actors.        *)
EXTENDS ProxyGateway, Catalogue, VideoRefs, DramaStats, RuntimeSettings,
        HotSegments, ScrapeLoop, VideoFetch, SnapshotPurge, ClusterMonitor, TLC

CONSTANTS a1, a2, v1, v2, g1, k1

VARIABLE part

Link(scheme, uuid, net) ==
    [scheme |-> scheme, decodes |-> TRUE, uuid |-> uuid, net |-> net,
     security |-> "reality", pbk |-> TRUE]
MCLinks == {Link("vmess", TRUE, "tcp"), Link("vless", TRUE, "ws"),
            Link("vmess", TRUE, "other"), Link("vless", FALSE, "tcp")}
MCHostOf == a1 :> "h1" @@ a2 :> "h1"

MCInfos == {[name |-> "n1", uid |-> "u1"], [name |-> "n2", uid |-> "u1"],
            [name |-> "n3", uid |-> NoUid]}
\* No account has been given another name.
NoneRenamed ==
    /\ \A c \in Creators : creator[c].life \in {"flushed", "live"} => creator[c].info.name # "n2"
    /\ \A q \in Requests : request[q].stage = "room" => request[q].info.name # "n2"

Seg(from, to, every) == [from |-> from, to |-> to, every |-> every]
MCLayouts == {{Seg(0, 0, 10)}, {Seg(6, 18, 20), Seg(18, 6, 40)}, {Seg(8, 22, 5)},
              {Seg(0, 12, 5), Seg(11, 0, 5)}, {Seg(0, 0, 4)}}

MCSymmetry == Permutations({a1, a2}) \cup Permutations({v1, v2})

\* The catalogue in two parts: with a group, whose limit changes, and a collection,
\* whose limit does not, in PostgreSQL and without accounts that are renamed; and
\* with the collection alone, whose limit changes, and all the rest.
Parts == {"gateway", "catalogue", "collection", "refs", "drama", "settings", "segments",
          "scrape", "fetch", "purge", "cluster"}

ServicesInit ==
    /\ part \in Parts
    /\ GatewayInit /\ CatalogueInit /\ RefsInit /\ DramaInit /\ SettingsInit
    /\ SegmentsInit /\ ScrapeInit /\ FetchInit /\ PurgeInit
    /\ ClusterInit
    /\ part # "collection" => foreignKeys
    /\ part # "refs" => enforced
    /\ part # "segments" => rows = {}
    /\ part # "fetch" => newest = 0 /\ since = 0
    /\ part # "cluster" => skew = Skew

ServicesNext ==
    /\ UNCHANGED part
    /\ \/ part = "gateway" /\ GatewayNext
       \/ part # "gateway" /\ UNCHANGED gatewayVars
    /\ \/ part = "catalogue" /\ CatalogueNext /\ cap'[k1] <= 1 /\ NoneRenamed'
       \/ part = "collection" /\ CatalogueNext /\ place'[g1] = "unused"
       \/ part \notin {"catalogue", "collection"} /\ UNCHANGED catalogueVars
    /\ \/ part = "refs" /\ RefsNext
       \/ part # "refs" /\ UNCHANGED refVars
    /\ \/ part = "drama" /\ DramaNext
       \/ part # "drama" /\ UNCHANGED dramaVars
    /\ \/ part = "settings" /\ SettingsNext
       \/ part # "settings" /\ UNCHANGED settingsVars
    /\ \/ part = "segments" /\ SegmentsNext
       \/ part # "segments" /\ UNCHANGED segmentVars
    /\ \/ part = "scrape" /\ ScrapeNext
       \/ part # "scrape" /\ UNCHANGED scrapeVars
    /\ \/ part = "fetch" /\ FetchNext
       \/ part # "fetch" /\ UNCHANGED fetchVars
    /\ \/ part = "purge" /\ PurgeNext
       \/ part # "purge" /\ UNCHANGED purgeVars
    /\ \/ part = "cluster" /\ ClusterNext
       \/ part # "cluster" /\ UNCHANGED clusterVars

ServicesSpec ==
    ServicesInit /\ [][ServicesNext]_<<part, gatewayVars, catalogueVars, refVars, dramaVars,
        settingsVars, segmentVars, scrapeVars, fetchVars, purgeVars, clusterVars>>

\* The types of the component that moves.
ServicesTypeOK ==
    /\ part \in Parts
    /\ CASE part = "gateway" -> GatewayTypeOK
         [] part \in {"catalogue", "collection"} -> CatalogueTypeOK
         [] part = "refs" -> RefsTypeOK
         [] part = "drama" -> DramaTypeOK
         [] part = "settings" -> SettingsTypeOK
         [] part = "segments" -> SegmentsTypeOK
         [] part = "scrape" -> ScrapeTypeOK
         [] part = "fetch" -> FetchTypeOK
         [] part = "purge" -> PurgeTypeOK
         [] part = "cluster" -> ClusterTypeOK
=============================================================================
