--------------------------- MODULE RuntimeSettings ---------------------------
(***************************************************************************)
(* System settings: rows of a table, and a cache of them in each process   *)
(* of the API, filled at its start and changed by the saves it serves,     *)
(* key by key, before they commit.  Workers and Beat never fill theirs and *)
(* use the defaults of the environment.                                    *)
(***************************************************************************)
EXTENDS Naturals, Sequences, FiniteSets, SequencesExt

CONSTANTS
    Apis,           \* processes that serve the API
    Keys,           \* settings
    Values,
    Saves           \* requests to save that are served at the same time

ASSUME SettingsAssumption == IsFiniteSet(Keys) /\ "untouched" \notin Values

VARIABLES
    setting,    \* setting[k] = the committed row of key k
    cache,      \* cache[p][k] = what process p uses
    save,       \* save[s] = a save under way
    mixed,      \* mixed[s] = keys of s that others have touched since
    doubt       \* doubt[p] = keys that p may use another value of (history)

settingsVars == <<setting, cache, save, mixed, doubt>>

Unset == "default"
NoSave == [stage |-> "idle"]
SaveStates == [stage : {"open"}, by : Apis, left : Seq(Keys), value : [Keys -> Values],
               read : [Keys -> Values \cup {Unset, "untouched"}]]

SettingsTypeOK ==
    /\ setting \in [Keys -> Values \cup {Unset}]
    /\ cache \in [Apis -> [Keys -> Values \cup {Unset}]]
    /\ save \in [Saves -> {NoSave} \cup SaveStates]
    /\ mixed \in [Saves -> SUBSET Keys]
    /\ doubt \in [Apis -> SUBSET Keys]

SettingsInit ==
    /\ setting = [k \in Keys |-> Unset]
    /\ cache = [p \in Apis |-> setting]
    /\ save = [s \in Saves |-> NoSave]
    /\ mixed = [s \in Saves |-> {}]
    /\ doubt = [p \in Apis |-> {}]

-----------------------------------------------------------------------------
Saving(s) == save[s] # NoSave
Touched(s) == IF Saving(s) THEN {k \in Keys : save[s].read[k] # "untouched"} ELSE {}

\* The saves that have touched a key of ks are no longer alone with it.
Mix(s, ks) == mixed' = [r \in Saves |-> IF r = s THEN mixed[r] \ ks
                                        ELSE mixed[r] \cup (ks \cap Touched(r))]

SaveBegins(s, p, keys, value) ==
    /\ ~Saving(s)
    /\ save' = [save EXCEPT ![s] = [stage |-> "open", by |-> p, left |-> SetToSeq(keys),
                                    value |-> value, read |-> [k \in Keys |-> "untouched"]]]
    /\ mixed' = [mixed EXCEPT ![s] = {}]
    /\ UNCHANGED <<setting, cache, doubt>>

\* (A bug would be to write the row and leave the cache as it is.)
SaveKeyRowOnly(s) ==
    /\ Saving(s)
    /\ save[s].left # <<>>
    /\ LET k == Head(save[s].left)
       IN  /\ save' = [save EXCEPT ![s].left = Tail(@), ![s].read[k] = setting[k]]
           /\ Mix(s, {k})
    /\ UNCHANGED <<setting, cache, doubt>>

\* The cache first, then the row is read (and in the end written).
SaveKey(s) ==
    /\ Saving(s)
    /\ save[s].left # <<>>
    /\ LET k == Head(save[s].left)
       IN  /\ cache' = [cache EXCEPT ![save[s].by][k] = save[s].value[k]]
           /\ save' = [save EXCEPT ![s].left = Tail(@), ![s].read[k] = setting[k]]
           /\ Mix(s, {k})
    /\ UNCHANGED <<setting, doubt>>

\* The ORM inserts a row that was not there and updates one that differs from
\* what was read.
SaveCommits(s) ==
    /\ Saving(s)
    /\ save[s].left = <<>>
    /\ \A k \in Touched(s) : save[s].read[k] = Unset => setting[k] = Unset
    /\ setting' = [k \in Keys |->
           IF k \in Touched(s) /\ save[s].value[k] # save[s].read[k]
           THEN save[s].value[k] ELSE setting[k]]
    /\ doubt' = [p \in Apis |->
           IF p = save[s].by THEN (doubt[p] \ Touched(s)) \cup (mixed[s] \cap Touched(s))
           ELSE doubt[p] \cup Touched(s)]
    /\ Mix(s, Touched(s))
    /\ save' = [save EXCEPT ![s] = NoSave]
    /\ UNCHANGED cache

\* A key inserted twice, a deadlock of two saves, a lost connection.
SaveFails(s) ==
    /\ Saving(s)
    /\ doubt' = [doubt EXCEPT ![save[s].by] = @ \cup Touched(s)]
    /\ Mix(s, Touched(s))
    /\ save' = [save EXCEPT ![s] = NoSave]
    /\ UNCHANGED <<setting, cache>>

Load(p) == [k \in Keys |-> setting[k]]

\* The process starts again: its saves are lost and its cache is filled.
ApiStarts(p) ==
    /\ save' = [s \in Saves |-> IF Saving(s) /\ save[s].by = p THEN NoSave ELSE save[s]]
    /\ cache' = [cache EXCEPT ![p] = Load(p)]
    /\ doubt' = [doubt EXCEPT ![p] = {}]
    /\ UNCHANGED <<setting, mixed>>

SettingsNext ==
    \/ \E s \in Saves :
          \/ \E p \in Apis, keys \in SUBSET Keys \ {{}}, value \in [Keys -> Values] :
                SaveBegins(s, p, keys, value)
          \/ SaveKey(s) \/ SaveCommits(s) \/ SaveFails(s)
    \/ \E p \in Apis : ApiStarts(p)

SettingsSpec == SettingsInit /\ [][SettingsNext]_settingsVars

-----------------------------------------------------------------------------
(* Properties.                                                             *)

\* A process of the API uses what the table holds, unless since its start a
\* save of its own failed or overlapped another one, or another process has
\* saved (save, load).
CacheIsTable ==
    \A p \in Apis, k \in Keys :
        (k \notin doubt[p] /\ \A s \in Saves : k \notin Touched(s))
            => cache[p][k] = setting[k]
=============================================================================
