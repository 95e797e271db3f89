-------------------------- MODULE Services_proofs --------------------------
(***************************************************************************)
(* The components side by side: a behaviour of MC_Services is, for each    *)
(* component, a behaviour of its own specification, so that what is proved *)
(* of each one holds of all of them together.                              *)
(***************************************************************************)
EXTENDS MC_Services, Operations_proofs, Records_proofs

\* They start as each of them starts, and one of them moves.
LEMMA StartsApart ==
    ServicesInit => /\ part \in Parts
                    /\ GatewayInit /\ CatalogueInit /\ RefsInit /\ DramaInit
                    /\ SettingsInit /\ SegmentsInit /\ ScrapeInit /\ FetchInit
                    /\ PurgeInit /\ ClusterInit
BY DEF ServicesInit

\* A step is a step of the component that moves and a stutter of the others.
servicesVars ==
    <<part, gatewayVars, catalogueVars, refVars, dramaVars, settingsVars, segmentVars,
      scrapeVars, fetchVars, purgeVars, clusterVars>>
LEMMA StepsApart ==
    [ServicesNext]_servicesVars =>
        /\ part' = part
        /\ [GatewayNext]_gatewayVars /\ [CatalogueNext]_catalogueVars
        /\ [RefsNext]_refVars /\ [DramaNext]_dramaVars
        /\ [SettingsNext]_settingsVars /\ [SegmentsNext]_segmentVars
        /\ [ScrapeNext]_scrapeVars /\ [FetchNext]_fetchVars
        /\ [PurgeNext]_purgeVars /\ [ClusterNext]_clusterVars
BY DEF ServicesNext, servicesVars

\* The services refine every component's specification.
THEOREM ServicesImplementParts ==
    ServicesSpec =>
        /\ GatewaySpec /\ CatalogueSpec /\ RefsSpec /\ DramaSpec /\ SettingsSpec
        /\ SegmentsSpec /\ ScrapeSpec /\ FetchSpec /\ PurgeSpec /\ ClusterSpec
<1>1. ServicesSpec => ServicesInit /\ [][ServicesNext]_servicesVars
    BY DEF ServicesSpec, servicesVars
<1> QED
    BY <1>1, StartsApart, StepsApart, PTL
    DEF GatewaySpec, CatalogueSpec, RefsSpec, DramaSpec, SettingsSpec, SegmentsSpec,
        ScrapeSpec, FetchSpec, PurgeSpec, ClusterSpec

\* The one that moves is one of them, from beginning to end.
LEMMA PartStays == ServicesSpec => [](part \in Parts)
<1>1. ServicesSpec => ServicesInit /\ [][ServicesNext]_servicesVars
    BY DEF ServicesSpec, servicesVars
<1>2. part \in Parts /\ part' = part => (part \in Parts)'
    BY DEF Parts
<1> QED
    BY <1>1, <1>2, StartsApart, StepsApart, PTL

\* The types of whichever component moves, and of those that do not.
THEOREM ServicesTypeCorrect == ServicesSpec => []ServicesTypeOK
<1>1. /\ part \in Parts
      /\ GatewayTypeOK /\ CatalogueTypeOK /\ RefsTypeOK /\ DramaTypeOK /\ SettingsTypeOK
      /\ SegmentsTypeOK /\ ScrapeTypeOK /\ FetchTypeOK /\ PurgeTypeOK /\ ClusterTypeOK
      => ServicesTypeOK
    BY DEF ServicesTypeOK, Parts
<1> QED
    BY <1>1, PartStays, ServicesImplementParts, GatewayTypeCorrect, CatalogueTypeCorrect,
       RefsTypeCorrect, DramaTypeCorrect, SettingsTypeCorrect, SegmentsTypeCorrect,
       ScrapeTypeCorrect, FetchTypeCorrect, PurgeTypeCorrect, ClusterTypeCorrect, PTL

\* The invariants of the run Services, all at once and for any constants: what
\* each component is proved to keep, it keeps beside the others.
THEOREM ServicesCorrect ==
    ServicesSpec =>
        [](/\ ServedIsFile /\ CapacityHolds /\ DuplicatesBounded /\ PurgedIsGone
           /\ StatsExact /\ CacheIsTable /\ NoGap /\ SetsBounded
           /\ SuccessIsSaved /\ MarkedMeansTried /\ ListComplete /\ PagesBounded
           /\ BestKept /\ PurgeComplete /\ RunningIsShown /\ WorkersWereThere)
BY ServicesImplementParts, ServedCorrect, CapacityCorrect, DuplicatesCorrect,
   PurgedCorrect, StatsCorrect, CacheCorrect, NoGapCorrect,
   SetsBoundedCorrect, SuccessSaved, MarkMeansTried, ListCorrect, PagesCorrect,
   BestCorrect, PurgeIsComplete, RunningShown, WorkersShownWereThere, PTL
=============================================================================
