----------------------------- MODULE BridgeStats -----------------------------
(***************************************************************************)
(* The bridge figures on the screen (hooks/useBridgeStats.ts) over the     *)
(* ten-second cache of view calls (lib/stellarContract.ts).  The figures   *)
(* of one fetch are one number here, the contract's version when they were *)
(* simulated.                                                              *)
(***************************************************************************)
EXTENDS Naturals, FiniteSets

CONSTANTS MaxVersions,  \* changes of the contract
          MaxFetched    \* fetches of the hook

ASSUME StatsAssumption == MaxVersions \in Nat /\ MaxFetched \in Nat \ {0}

VARIABLES
  version,      \* the contract's figures now
  viewCache,    \* the cached view calls: 0 none, else version + 1
  views,        \* fetches under way: id and what the simulation read, 0 not yet
  fetchId,      \* fetchIdRef
  shownStats,   \* fetch and version of the figures shown, fetch 0 for none
  statsLoading, statsError, statsMounted

statsVars == <<version, viewCache, views, fetchId, shownStats, statsLoading,
               statsError, statsMounted>>
face == <<shownStats, statsLoading, statsError>>

View(id, read, hit) == [id |-> id, read |-> read, hit |-> hit]

(* runFetch: a cached value is the answer at once, else simulate           *)
RunFetch(cached) ==
  /\ statsMounted /\ fetchId < MaxFetched
  /\ fetchId' = fetchId + 1
  /\ views' = views \cup {View(fetchId + 1, cached, cached > 0)}
  /\ statsLoading' = TRUE /\ statsError' = FALSE

(* The first fetch goes with the mount.                                    *)
StatsInit ==
  /\ version = 0 /\ viewCache = 0
  /\ views = {View(1, 0, FALSE)} /\ fetchId = 1
  /\ shownStats = [id |-> 0, version |-> 0]
  /\ statsLoading = TRUE /\ statsError = FALSE /\ statsMounted = TRUE

(* refetchStats and the poll                                               *)
Refetch ==
  RunFetch(viewCache) /\ UNCHANGED <<version, viewCache, shownStats, statsMounted>>

(* refresh                                                                 *)
RefreshStats ==
  /\ RunFetch(0)
  /\ viewCache' = 0
  /\ UNCHANGED <<version, shownStats, statsMounted>>

(* viewCall: the simulation reads the contract, its answer enters the      *)
(* cache whenever it arrives.                                              *)
Simulates(v) ==
  /\ v \in views /\ v.read = 0
  /\ views' = (views \ {v}) \cup {View(v.id, version + 1, FALSE)}
  /\ UNCHANGED <<version, viewCache, fetchId, face, statsMounted>>

SupersededByUnmount(v) == ~statsMounted      \* a wrong Superseded: the fetch id is not compared

Superseded(v) == ~statsMounted \/ v.id # fetchId

StatsAnswer(v) ==
  /\ v \in views /\ v.read > 0
  /\ views' = views \ {v}
  /\ viewCache' = IF v.hit THEN viewCache ELSE v.read
  /\ IF Superseded(v)
       THEN UNCHANGED face
       ELSE /\ shownStats' = [id |-> v.id, version |-> v.read - 1]
            /\ statsLoading' = FALSE /\ UNCHANGED statsError
  /\ UNCHANGED <<version, fetchId, statsMounted>>

StatsFail(v) ==
  /\ v \in views /\ ~v.hit
  /\ views' = views \ {v}
  /\ IF Superseded(v)
       THEN UNCHANGED <<statsLoading, statsError>>
       ELSE statsLoading' = FALSE /\ statsError' = TRUE
  /\ UNCHANGED <<version, viewCache, fetchId, shownStats, statsMounted>>

(* Ten seconds after the last answer                                       *)
CacheExpires ==
  /\ viewCache > 0 /\ viewCache' = 0
  /\ UNCHANGED <<version, views, fetchId, face, statsMounted>>

StatsUnmount ==
  /\ statsMounted /\ statsMounted' = FALSE
  /\ UNCHANGED <<version, viewCache, views, fetchId, face>>

ContractMoves ==
  /\ version < MaxVersions /\ version' = version + 1
  /\ UNCHANGED <<viewCache, views, fetchId, face, statsMounted>>

StatsNext ==
  \/ Refetch \/ RefreshStats \/ CacheExpires \/ StatsUnmount \/ ContractMoves
  \/ \E v \in views : Simulates(v) \/ StatsAnswer(v) \/ StatsFail(v)

StatsSpec == StatsInit /\ [][StatsNext]_statsVars

(***************************************************************************)
(* Properties                                                              *)
(***************************************************************************)
(* The hook's state is of its shape.                                       *)
StatsTypeOK ==
  /\ version \in 0 .. MaxVersions /\ viewCache \in 0 .. version + 1
  /\ views \subseteq [id : 1 .. fetchId, read : 0 .. version + 1, hit : BOOLEAN]
  /\ shownStats.id \in 0 .. fetchId /\ shownStats.version \in 0 .. version
  /\ {statsLoading, statsError, statsMounted} \subseteq BOOLEAN

(* Mounted, neither loading nor in error, the figures shown are those of   *)
(* the newest fetch, in whatever order the overlapping polls, refreshes    *)
(* and refetches were answered (useBridgeStats.ts:155-212).                *)
StatsAreNewest ==
  (statsMounted /\ ~statsLoading /\ ~statsError) => shownStats.id = fetchId

=============================================================================
