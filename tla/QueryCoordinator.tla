-------------------------- MODULE QueryCoordinator --------------------------
(***************************************************************************)
(* QueryCoordinator with its ShardManager and ConsistentHash,                *)
(* storage/src/distributed/query_coordinator.rs.  A query is a task of four  *)
(* steps: the cache and the local index, the shards' primaries (spawned side *)
(* by side, each may fail), the merge, and the cache again.  A series' data  *)
(* is the version it was last written with; ids are natural numbers.         *)
(***************************************************************************)
EXTENDS Ratio, FiniteSets

CONSTANTS
  QNodes, QIds, QShardCount,
  Queries,         \* query -> the series its matchers select
  CacheSize, CacheTtl,
  HashOfNode,      \* node -> the hashes of its virtual nodes
  HashOfKey,       \* key -> its hash
  QTime, QVersions, RingMax, RowMax \* bounds: clock, versions of a series, ring, a shard's nodes

VARIABLES
  shard_to_nodes, \* shard -> sequence of nodes
  qdata,          \* node -> series -> version it holds (0: none)
  index,          \* the series the coordinator's own mem_store has indexed
  query_cache,    \* query -> [result, at]
  running,        \* query -> its task
  ring, qnow,
  answered        \* query -> the last answer given
qcVars == <<shard_to_nodes, qdata, index, query_cache, running, ring, qnow, answered>>

Shards == 0..(QShardCount - 1)
get_shard_for_series(id) == id % QShardCount
Resting == [pc |-> "rest", ids |-> {}, left |-> {}, got |-> <<>>]
NoAnswer == [result |-> <<>>, at |-> 0, began |-> 0]

EmptyRing == [owner |-> <<>>, sorted |-> <<>>]

\* ConsistentHash::add_node and remove_node over the map of virtual nodes and the
\* sorted vector beside it, which keeps repetitions.
ring_add_node(r, n) ==
  [owner |-> [h \in DOMAIN r.owner \cup HashOfNode[n] |->
                IF h \in HashOfNode[n] THEN n ELSE r.owner[h]],
   sorted |-> SortBy(r.sorted \o SetToSeq(HashOfNode[n]), LAMBDA a, b : a < b)]

ring_remove_node(r, n) ==
  LET gone == {h \in DOMAIN r.owner : r.owner[h] = n}
  IN  [owner |-> [h \in DOMAIN r.owner \ gone |-> r.owner[h]],
       sorted |-> SelectSeq(r.sorted, LAMBDA h : h \notin gone)]

\* The first virtual node at or behind the key's hash, around the ring.
get_node(r, key) ==
  IF DOMAIN r.owner = {} THEN "none"
  ELSE LET behind == SelectSeq(r.sorted, LAMBDA h : h >= HashOfKey[key])
       IN  r.owner[IF behind = <<>> THEN r.sorted[1] ELSE behind[1]]

QcInit ==
  /\ shard_to_nodes = <<>>
  /\ qdata = [n \in QNodes |-> [i \in QIds |-> 0]]
  /\ index = {}
  /\ query_cache = <<>>
  /\ running = [q \in DOMAIN Queries |-> Resting]
  /\ ring = EmptyRing
  /\ qnow = 0
  /\ answered = [q \in DOMAIN Queries |-> NoAnswer]

get_nodes_for_shard(s) == IF s \in DOMAIN shard_to_nodes THEN shard_to_nodes[s] ELSE <<>>

assign_shard_to_node(s, n) ==
  /\ Len(get_nodes_for_shard(s)) < RowMax
  /\ shard_to_nodes' = [t \in DOMAIN shard_to_nodes \cup {s} |->
                          IF t = s THEN Append(get_nodes_for_shard(s), n) ELSE shard_to_nodes[t]]
  /\ UNCHANGED <<qdata, index, query_cache, running, ring, qnow, answered>>

ring_step(n) ==
  /\ ring' \in {ring_add_node(ring, n), ring_remove_node(ring, n)}
  /\ ring' # ring
  /\ Len(ring'.sorted) <= RingMax
  /\ UNCHANGED <<shard_to_nodes, qdata, index, query_cache, running, qnow, answered>>

\* The nodes store a new version; the coordinator's index knows the series when
\* it is itself a replica.
StoreVersion(n, i) ==
  /\ qdata[n][i] < QVersions
  /\ qdata' = [qdata EXCEPT ![n][i] = @ + 1]
  /\ index' \in {index, index \cup {i}}
  /\ UNCHANGED <<shard_to_nodes, query_cache, running, ring, qnow, answered>>

Age(q) == qnow - query_cache[q].at

\* Mutant: an entry is used at its age limit.
MutCacheHit(q) == q \in DOMAIN query_cache /\ Age(q) <= CacheTtl

CacheHit(q) == q \in DOMAIN query_cache /\ Age(q) < CacheTtl

Answer(q, result, began) ==
  answered' = [answered EXCEPT ![q] = [result |-> result, at |-> qnow, began |-> began]]

\* Into the cache: a full one loses its oldest entry first, also when the key
\* is already there.
CacheAfterEviction(old) == [q \in DOMAIN query_cache \ old |-> query_cache[q]]
Oldest == {q \in DOMAIN query_cache : \A p \in DOMAIN query_cache : query_cache[q].at <= query_cache[p].at}

cache_result(q, result) ==
  \E old \in IF Cardinality(DOMAIN query_cache) >= CacheSize /\ DOMAIN query_cache # {}
             THEN {{o} : o \in Oldest} ELSE {{}} :
    LET kept == CacheAfterEviction(old)
    IN  query_cache' = [p \in DOMAIN kept \cup {q} |->
                          IF p = q THEN [result |-> result, at |-> qnow] ELSE kept[p]]

\* extract_series_ids: the index, or every series it has for a query without
\* matchers.
extract_series_ids(q) == IF Queries[q] = {} THEN index ELSE Queries[q] \cap index

execute_query(q) ==
  LET ids == extract_series_ids(q)
  IN  /\ running[q].pc = "rest"
      /\ IF CacheHit(q)
         THEN /\ Answer(q, query_cache[q].result, query_cache[q].at)
              /\ UNCHANGED <<query_cache, running>>
         ELSE IF ids = {}
         THEN Answer(q, <<>>, qnow) /\ cache_result(q, <<>>) /\ UNCHANGED running
         ELSE /\ running' = [running EXCEPT ![q] =
                   [pc |-> "shards", ids |-> ids, got |-> <<>>,
                    left |-> {s \in {get_shard_for_series(i) : i \in ids} :
                                get_nodes_for_shard(s) # <<>>}]]
              /\ UNCHANGED <<query_cache, answered>>
      /\ UNCHANGED <<shard_to_nodes, qdata, index, ring, qnow>>

\* query_shard at the first node of the shard; a failure is logged and skipped.
query_shard(q, s) ==
  LET n == get_nodes_for_shard(s)[1]
      mine == {i \in running[q].ids : get_shard_for_series(i) = s /\ qdata[n][i] > 0}
      rows == SetToSeq({[id |-> i, version |-> qdata[n][i]] : i \in mine})
  IN  /\ running[q].pc = "shards"
      /\ s \in running[q].left
      /\ \E got \in {rows, <<>>} :
           running' = [running EXCEPT ![q].left = @ \ {s}, ![q].got = @ \o got]
      /\ UNCHANGED <<shard_to_nodes, qdata, index, query_cache, ring, qnow, answered>>

\* Duplicates by id go; the first row stays.
merge_results(rows) ==
  FoldLeft(LAMBDA acc, r : IF \E i \in DOMAIN acc : acc[i].id = r.id THEN acc ELSE Append(acc, r),
           <<>>, rows)

Complete(q) ==
  /\ running[q].pc = "shards"
  /\ running[q].left = {}
  /\ Answer(q, merge_results(running[q].got), qnow)
  /\ cache_result(q, merge_results(running[q].got))
  /\ running' = [running EXCEPT ![q] = Resting]
  /\ UNCHANGED <<shard_to_nodes, qdata, index, ring, qnow>>

cleanup_cache ==
  /\ query_cache' = [q \in {p \in DOMAIN query_cache : Age(p) < CacheTtl} |-> query_cache[q]]
  /\ UNCHANGED <<shard_to_nodes, qdata, index, running, ring, qnow, answered>>

QcTick ==
  /\ qnow < QTime
  /\ qnow' = qnow + 1
  /\ UNCHANGED <<shard_to_nodes, qdata, index, query_cache, running, ring, answered>>

RingNext == \E n \in DOMAIN HashOfNode : ring_step(n)
QueryNext ==
  \/ \E n \in QNodes, s \in Shards : assign_shard_to_node(s, n)
  \/ \E n \in QNodes, i \in QIds : StoreVersion(n, i)
  \/ \E q \in DOMAIN Queries : \/ execute_query(q)
                               \/ Complete(q)
                               \/ \E s \in running[q].left : query_shard(q, s)
  \/ cleanup_cache
  \/ QcTick

-----------------------------------------------------------------------------
\* An answer never invents or repeats a series: each row was selected by the
\* query, is there once, and no newer than what some node holds, although shards
\* that failed or have no node are missing from it without an error.
AnswersSound ==
  \A q \in DOMAIN Queries :
    LET rows == answered[q].result
    IN  /\ \A i \in DOMAIN rows :
             /\ Queries[q] # {} => rows[i].id \in Queries[q]
             /\ \E n \in QNodes : rows[i].version \in 1..qdata[n][rows[i].id]
        /\ \A i, j \in DOMAIN rows : rows[i].id = rows[j].id => i = j

\* The cache never exceeds its size, and no answer is older than its lifetime,
\* whichever order queries end and entries are evicted in.
CacheBounded ==
  /\ Cardinality(DOMAIN query_cache) <= IF CacheSize = 0 THEN 1 ELSE CacheSize
  /\ \A q \in DOMAIN Queries : answered[q].at - answered[q].began < CacheTtl

\* Every key has a node while the ring has one, the vector and the map stay in
\* step, and a node that joins or leaves only takes or gives its own keys.
RingLookup ==
  /\ Len(ring.sorted) >= Cardinality(DOMAIN ring.owner)
  /\ {ring.sorted[i] : i \in DOMAIN ring.sorted} = DOMAIN ring.owner

\* Answers, cache and ring of the query coordinator while nodes fail, queries
\* overlap and entries age.
CoordinatorSound == AnswersSound /\ CacheBounded /\ RingLookup
=============================================================================
