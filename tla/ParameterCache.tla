--------------------------- MODULE ParameterCache ---------------------------
(***************************************************************************)
(* The item parameters of one test in one process: the rows of             *)
(* parametros_items and ThetaCalculatorService.parameterCache              *)
(* (theta-calculator.service.ts).                                          *)
(*                                                                         *)
(* calibrate.py replaces all the rows of an organization in one            *)
(* transaction, so its rows are abstracted to the number of the            *)
(* calibration that wrote them.  A reader that misses and a reload both    *)
(* await their query: what they write to the cache may be older than what  *)
(* another one has written meanwhile.                                      *)
(***************************************************************************)
EXTENDS Integers, FiniteSets

CONSTANTS
    Tenant,     \* organizations
    AnyTenant,  \* the cache key of a test without an organization
    Reader,     \* requests that look parameters up
    Idle,       \* a reader that awaits no query
    Missing     \* the cache has no entry for the key

ASSUME CacheAssumption == AnyTenant \notin Tenant

VARIABLES
    stored,     \* of each organization, the calibration its rows come from
    cache,      \* parameterCache
    reading,    \* the query each reader awaits
    loading     \* the queries of the reloads in progress

cacheVars == <<stored, cache, reading, loading>>

Key == Tenant \cup {AnyTenant}

-----------------------------------------------------------------------------
\* No row before the first calibration of an organization (0).
RowsOf(tenants) == {<<t, stored[t]>> : t \in {u \in tenants : stored[u] > 0}}

Scope(key) == IF key = AnyTenant THEN Tenant ELSE {key}

Rows(key) == RowsOf(Scope(key))

\* loadAllParameters: a whole new map, with the keys of the rows it found.
Loaded(rows) == [key \in Key |->
    LET own == {row \in rows : row[1] = key} IN IF own = {} THEN Missing ELSE own]

CacheInit ==
    /\ stored \in [Tenant -> {0, 1}]
    /\ cache = Loaded(RowsOf(Tenant))
    /\ reading = [r \in Reader |-> Idle]
    /\ loading = {}

\* The empty list is a hit, except for getCachedParameters, which also
\* leaves an empty answer out of the cache.
Hit(key) == cache[key] # Missing /\ (key = AnyTenant => cache[key] # {})

\* calcularTheta, getTestInformation and computeMarginalReliability read with
\* an organization, calculatePersonFit without one.
LookUp(r, key) ==
    /\ reading[r] = Idle
    /\ ~Hit(key)
    /\ reading' = [reading EXCEPT ![r] = [key |-> key, rows |-> Rows(key)]]
    /\ UNCHANGED <<stored, cache, loading>>

Fill(r) ==
    /\ reading[r] # Idle
    /\ LET key == reading[r].key
           rows == reading[r].rows
       IN  cache' = IF key = AnyTenant /\ rows = {} THEN cache
                    ELSE [cache EXCEPT ![key] = rows]
    /\ reading' = [reading EXCEPT ![r] = Idle]
    /\ UNCHANGED <<stored, loading>>

\* handleCacheCron and clearCache.  A load whose query fails changes nothing.
StartLoad == loading' = loading \cup {RowsOf(Tenant)}

Cron ==
    /\ StartLoad
    /\ UNCHANGED <<stored, cache, reading>>

\* Mutant: entries are only added.
MergedMap(rows) ==
    /\ rows \in loading
    /\ loading' = loading \ {rows}
    /\ cache' = [key \in Key |->
        IF cache[key] # Missing THEN cache[key] ELSE Loaded(rows)[key]]
    /\ UNCHANGED <<stored, reading>>

SwapMap(rows) ==
    /\ rows \in loading
    /\ loading' = loading \ {rows}
    /\ cache' = Loaded(rows)
    /\ UNCHANGED <<stored, reading>>

FailLoad(rows) ==
    /\ rows \in loading
    /\ loading' = loading \ {rows}
    /\ UNCHANGED <<stored, cache, reading>>

CacheStep ==
    \/ \E r \in Reader : Fill(r) \/ \E key \in Key : LookUp(r, key)
    \/ Cron
    \/ \E rows \in loading : SwapMap(rows) \/ FailLoad(rows)

-----------------------------------------------------------------------------
\* What estimateEAP would be given for the key now.
UpToDate(key) == cache[key] \in {Missing, Rows(key)}
=============================================================================
