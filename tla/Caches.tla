------------------------------- MODULE Caches --------------------------------
(***************************************************************************)
(* Two caches of query results: QueryCache (query/cache.rs), whose methods   *)
(* hold all of its locks and are single steps, and the LRU cache of          *)
(* QueryEngine (query/engine.rs), which is unlocked while a query runs.      *)
(***************************************************************************)
EXTENDS Integers, Sequences, FiniteSets, SequencesExt, Filters

CONSTANTS
  CKeys,       \* queries with their ranges
  MaxSize,     \* max_size of QueryCache
  Ttl,
  EngineSize,  \* capacity of the engine's LruCache
  Cacheable,   \* the keys is_cacheable accepts
  Askers,      \* tasks that query the engine
  CacheTime,   \* bound on the clock
  CacheOps,    \* bound on the calls of QueryCache
  StoreMax     \* bound on the versions of the stored data
ASSUME CachesAssumption ==
  {MaxSize, Ttl, EngineSize, CacheTime, CacheOps, StoreMax} \subseteq Nat \ {0}

VARIABLES
  cache,         \* key -> the time its entry was set
  access_order,
  spoilt,        \* keys left in access_order without being the entry's (history)
  ops,
  cacheNow,
  store,         \* version of the data a query reads
  lru,           \* the engine's entries [key, version], least recently used first
  enabled,       \* enable_cache
  asker,         \* task -> its query in progress
  clearedAt,     \* the store's version at the last clear_cache (history)
  inFlight       \* tasks that were executing a query at that time (history)
qcacheVars == <<cache, access_order, spoilt, ops, cacheNow>>
engineVars == <<store, lru, enabled, asker, clearedAt, inFlight>>

NoAsk == [pc |-> "idle", key |-> "", version |-> 0, since |-> 0, old |-> FALSE]
CachesInit ==
  /\ cache = <<>>
  /\ access_order = <<>>
  /\ spoilt = 0
  /\ ops = 0
  /\ cacheNow = 0
  /\ store = 0
  /\ lru = <<>>
  /\ enabled \in BOOLEAN
  /\ asker = [a \in Askers |-> NoAsk]
  /\ clearedAt = 0
  /\ inFlight = {}

-----------------------------------------------------------------------------
is_expired(k) == cacheNow - cache[k] > Ttl
Drop(keys) == [x \in DOMAIN cache \ keys |-> cache[x]]
Forget(keys) == Keep(access_order, CKeys \ keys)
CacheCall == ops < CacheOps /\ ops' = ops + 1

\* get: an entry that has expired goes, and its key stays in access_order.
CacheGet(k) ==
  /\ CacheCall
  /\ IF k \notin DOMAIN cache THEN UNCHANGED <<cache, access_order, spoilt>>
     ELSE IF is_expired(k)
     THEN cache' = Drop({k}) /\ spoilt' = spoilt + 1 /\ UNCHANGED access_order
     ELSE access_order' = Append(Forget({k}), k) /\ UNCHANGED <<cache, spoilt>>
  /\ UNCHANGED <<cacheNow, engineVars>>

\* set: a full cache gives up the first key of access_order, cached or not, and
\* the key is appended even when access_order has it already.
CacheSet(k) ==
  LET full == Cardinality(DOMAIN cache) >= MaxSize /\ access_order # <<>>
      kept == IF full THEN Drop({Head(access_order)}) ELSE cache
      order == IF full THEN Tail(access_order) ELSE access_order
  IN  /\ CacheCall
      /\ cache' = [x \in DOMAIN kept \cup {k} |-> IF x = k THEN cacheNow ELSE kept[x]]
      /\ access_order' = Append(order, k)
      /\ spoilt' = spoilt + (IF k \in DOMAIN cache THEN 1 ELSE 0)
      /\ UNCHANGED <<cacheNow, engineVars>>

CacheRemove(k) ==
  /\ CacheCall
  /\ k \in DOMAIN cache
  /\ cache' = Drop({k})
  /\ access_order' = Forget({k})
  /\ UNCHANGED <<spoilt, cacheNow, engineVars>>

CacheClear ==
  /\ CacheCall
  /\ cache' = <<>>
  /\ access_order' = <<>>
  /\ UNCHANGED <<spoilt, cacheNow, engineVars>>

CacheCleanup ==
  LET old == {k \in DOMAIN cache : is_expired(k)}
  IN  /\ CacheCall
      /\ old # {}
      /\ cache' = Drop(old)
      /\ access_order' = Forget(old)
      /\ UNCHANGED <<spoilt, cacheNow, engineVars>>

CacheTick ==
  /\ cacheNow < CacheTime
  /\ cacheNow' = cacheNow + 1
  /\ UNCHANGED <<cache, access_order, spoilt, ops, engineVars>>

QcacheNext ==
  \/ \E k \in CKeys : CacheGet(k) \/ CacheSet(k) \/ CacheRemove(k)
  \/ CacheClear \/ CacheCleanup \/ CacheTick

-----------------------------------------------------------------------------
StoreChanges ==
  /\ store < StoreMax
  /\ store' = store + 1
  /\ UNCHANGED <<qcacheVars, lru, enabled, asker, clearedAt, inFlight>>

EntriesOf(k) == {i \in DOMAIN lru : lru[i].key = k}
Others(k) == Keep(lru, {e \in ToSet(lru) : e.key # k})
UsesCache(k) == enabled /\ k \in Cacheable

\* query: a hit answers with what the cache has, however old.
EngineHit(a, k) ==
  /\ asker[a].pc = "idle"
  /\ UsesCache(k)
  /\ EntriesOf(k) # {}
  /\ LET e == lru[CHOOSE i \in EntriesOf(k) : TRUE]
     IN  /\ lru' = Append(Others(k), e)
         /\ asker' = [asker EXCEPT ![a] =
              [pc |-> "done", key |-> k, version |-> e.version, since |-> store, old |-> TRUE]]
  /\ UNCHANGED <<qcacheVars, store, enabled, clearedAt, inFlight>>

EngineMiss(a, k) ==
  /\ asker[a].pc = "idle"
  /\ ~(UsesCache(k) /\ EntriesOf(k) # {})
  /\ asker' = [asker EXCEPT ![a] =
       [pc |-> "run", key |-> k, version |-> 0, since |-> store, old |-> FALSE]]
  /\ UNCHANGED <<qcacheVars, store, lru, enabled, clearedAt, inFlight>>

\* execute_query reads the store while others write it.
EngineExecute(a) ==
  /\ asker[a].pc = "run"
  /\ asker' = [asker EXCEPT ![a].pc = "put", ![a].version = store]
  /\ UNCHANGED <<qcacheVars, store, lru, enabled, clearedAt, inFlight>>

\* Mutant: the capacity is compared with >, so that one entry too many is kept.
MutEnginePut(a) ==
  LET k == asker[a].key
      room == IF Len(Others(k)) > EngineSize THEN Tail(Others(k)) ELSE Others(k)
  IN  /\ asker[a].pc = "put"
      /\ asker' = [asker EXCEPT ![a].pc = "done"]
      /\ lru' = IF UsesCache(k)
                THEN Append(room, [key |-> k, version |-> asker[a].version, by |-> a]) ELSE lru
      /\ UNCHANGED <<qcacheVars, store, enabled, clearedAt, inFlight>>

\* The result replaces what another task may have put meanwhile.
EnginePut(a) ==
  LET k == asker[a].key
      room == IF Len(Others(k)) >= EngineSize THEN Tail(Others(k)) ELSE Others(k)
  IN  /\ asker[a].pc = "put"
      /\ asker' = [asker EXCEPT ![a].pc = "done"]
      /\ lru' = IF UsesCache(k)
                THEN Append(room, [key |-> k, version |-> asker[a].version, by |-> a]) ELSE lru
      /\ UNCHANGED <<qcacheVars, store, enabled, clearedAt, inFlight>>

EngineAgain(a) ==
  /\ asker[a].pc = "done"
  /\ asker' = [asker EXCEPT ![a] = NoAsk]
  /\ UNCHANGED <<qcacheVars, store, lru, enabled, clearedAt, inFlight>>

clear_cache ==
  /\ lru # <<>>
  /\ lru' = <<>>
  /\ clearedAt' = store
  /\ inFlight' = {a \in Askers : asker[a].pc = "put"}
  /\ UNCHANGED <<qcacheVars, store, enabled, asker>>

EngineNext ==
  \/ StoreChanges \/ clear_cache
  \/ \E a \in Askers : \/ \E k \in CKeys : EngineHit(a, k) \/ EngineMiss(a, k)
                       \/ EngineExecute(a) \/ EnginePut(a) \/ EngineAgain(a)

CachesNext == QcacheNext \/ EngineNext
CachesSpec == CachesInit /\ [][CachesNext]_<<qcacheVars, engineVars>>

-----------------------------------------------------------------------------
\* What QueryCache holds can be evicted: every key is in access_order, and its
\* size passes max_size only by as many entries as access_order was left with
\* keys that are not entries of their own (get, set).
CacheReclaimable ==
  /\ DOMAIN cache \subseteq ToSet(access_order)
  /\ Cardinality(DOMAIN cache) <= MaxSize + spoilt

\* The engine's cache has one entry per query, none it may not have, no more than
\* its capacity, and nothing a query did not really find in the store.
EngineCacheSound ==
  /\ Len(lru) <= EngineSize
  /\ \A i, j \in DOMAIN lru : lru[i].key = lru[j].key => i = j
  /\ \A i \in DOMAIN lru : enabled /\ lru[i].key \in Cacheable /\ lru[i].version <= store

\* After clear_cache an entry is older than the call only when it was put by a
\* query that was at work during it; nothing else removes what a write has made
\* wrong, so without the call an entry of any age is answered.
OldNeedsFlight ==
  \A i \in DOMAIN lru : lru[i].version < clearedAt => lru[i].by \in inFlight

\* Neither cache keeps what it cannot drop, nor answers what was never true.
CachesSound == CacheReclaimable /\ EngineCacheSound /\ OldNeedsFlight
=============================================================================
