------------------------------- MODULE Shards -------------------------------
(***************************************************************************)
(* ShardManager of storage/src/distributed/shard.rs: which nodes hold a    *)
(* shard, and the index from a node to its shards that failover works      *)
(* from.  Callers run beside each other: the heartbeat task of Cluster     *)
(* (handle_node_failure, rebalance_shards), the failover monitor of        *)
(* distributed/mod.rs (the same two), trigger_failover, and assign_shard.  *)
(*                                                                         *)
(* Both maps have an RwLock of their own, and two operations keep one      *)
(* while they wait for the other.  A step is what a task does between two  *)
(* awaits; a lock that is given back in the same step is not recorded.     *)
(*                                                                         *)
(* Node lists come out of a HashMap, so their order is arbitrary: where    *)
(* the code takes the first of several equally good nodes the model takes  *)
(* any of them.  A list of followers, and a list of shards in the index,   *)
(* is the number of times each element occurs in it.                       *)
(***************************************************************************)
EXTENDS Integers, FiniteSets

CONSTANTS
    Node,        \* node ids
    ShardCount,  \* shard_count
    RF,          \* replication_factor
    Task,        \* callers
    Ops,         \* the operations the callers use
    MaxOps       \* bound: calls made in all

Shard == 0 .. ShardCount - 1
NoNode == "none"        \* the empty primary_node of a shard never placed

\* A replication factor of 0 underflows in handle_node_failure.
ASSUME ShardsAssumption ==
    /\ IsFiniteSet(Node)
    /\ NoNode \notin Node
    /\ ShardCount \in Nat \ {0}
    /\ RF \in Nat \ {0}
    /\ MaxOps \in Nat
    /\ Ops \subseteq {"assign", "rebalance", "failure"}

VARIABLES
    shards,       \* shards: id -> primary_node and follower_nodes
    node_shards,  \* node_shards: node -> how often each shard is listed
    task,         \* the calls in progress
    ops,          \* calls made
    unindexed     \* history: rebalance_shards has run and the index was not built since

vars == <<shards, node_shards, task, ops, unindexed>>

NoShards == [s \in Shard |-> 0]
CallAt(pc, node, healthy, left, shard) ==
    [pc |-> pc, node |-> node, healthy |-> healthy, left |-> left, shard |-> shard]
Idle == CallAt("idle", NoNode, {}, NoShards, 0)

NoList == [n \in Node |-> 0]
ListOf(S) == [n \in Node |-> IF n \in S THEN 1 ELSE 0]
Entries(list) == UNION {{x} \X (1 .. list[x]) : x \in DOMAIN list}
Length(list) == Cardinality(Entries(list))
Members(list) == {x \in DOMAIN list : list[x] > 0}

\* start: every shard exists and has no node.
Init ==
    /\ shards = [s \in Shard |-> [primary |-> NoNode, followers |-> NoList]]
    /\ node_shards = [n \in Node |-> NoShards]
    /\ task = [t \in Task |-> Idle]
    /\ ops = 0
    /\ unindexed = FALSE

----------------------------------------------------------------------------
(* Locks: who keeps one between two steps.                                 *)

ShardsFree == \A t \in Task : task[t].pc \notin {"index", "place"}
IndexFree == \A t \in Task : task[t].pc # "rebuild"

At(t, l) == task[t].pc = l
Goto(t, l) == task' = [task EXCEPT ![t].pc = l]
Finish(t) == task' = [task EXCEPT ![t] = Idle]

Call(t, op) ==
    /\ At(t, "idle")
    /\ op \in Ops
    /\ ops < MaxOps
    /\ ops' = ops + 1

----------------------------------------------------------------------------
(* assign_shard: shards.write, then node_shards.write as well.             *)

assign_shard(t, s, p, F) ==
    /\ Call(t, "assign")
    /\ ShardsFree
    /\ p \notin F
    /\ Cardinality(F) < RF
    /\ shards' = [shards EXCEPT ![s] = [primary |-> p, followers |-> ListOf(F)]]
    /\ task' = [task EXCEPT ![t] = CallAt("index", p, F, NoShards, s)]
    /\ UNCHANGED <<node_shards, unindexed>>

assign_index(t) ==
    /\ At(t, "index")
    /\ IndexFree
    /\ node_shards' = [n \in Node |-> [node_shards[n] EXCEPT
                         ![task[t].shard] = IF n \in task[t].healthy \cup {task[t].node} THEN @ + 1 ELSE @]]
    /\ Finish(t)
    /\ UNCHANGED <<shards, ops, unindexed>>

----------------------------------------------------------------------------
(* rebalance_shards: round robin over the nodes, under shards.write; the   *)
(* index is not touched.                                                   *)

\* The orders a set of nodes can come in.
Orders(S) == {q \in [1 .. Cardinality(S) -> S] : \A i, j \in DOMAIN q : i # j => q[i] # q[j]}

Place(q, s) ==
    LET n == Cardinality(DOMAIN q)
        copies == IF RF < n THEN RF ELSE n
    IN [primary |-> q[(s % n) + 1],
        followers |-> ListOf({q[(((s % n) + i) % n) + 1] : i \in 1 .. copies - 1})]

rebalance_shards(t, S) ==
    /\ Call(t, "rebalance")
    /\ ShardsFree
    /\ S # {}
    /\ \E q \in Orders(S) : shards' = [s \in Shard |-> Place(q, s)]
    /\ unindexed' = TRUE
    /\ UNCHANGED <<node_shards, task>>

----------------------------------------------------------------------------
(* handle_node_failure(n, healthy).                                        *)

\* The shards the index has for the node; with none the call is over.
handle_node_failure(t, n, healthy) ==
    /\ Call(t, "failure")
    /\ healthy # {} /\ n \notin healthy
    /\ IndexFree
    /\ Members(node_shards[n]) # {}
    /\ task' = [task EXCEPT ![t] = CallAt("loop", n, healthy, node_shards[n], 0)]
    /\ UNCHANGED <<shards, node_shards, unindexed>>

\* No healthy node is an error, no shard a success; nothing changes.
handle_node_failure_nothing(t, n, healthy) ==
    /\ Call(t, "failure")
    /\ n \notin healthy
    /\ IndexFree
    /\ healthy = {} \/ Members(node_shards[n]) = {}
    /\ UNCHANGED <<shards, node_shards, task, unindexed>>

\* The next shard of the list: shards.write is taken ...
take_shard(t, s) ==
    /\ At(t, "loop")
    /\ s \in Members(task[t].left)
    /\ ShardsFree
    /\ task' = [task EXCEPT ![t] = CallAt("place", task[t].node, task[t].healthy, [task[t].left EXCEPT ![s] = @ - 1], s)]
    /\ UNCHANGED <<shards, node_shards, ops, unindexed>>

\* ... and kept while the index is read to compare the loads.
Load(n) == Length(node_shards[n])

\* select_new_primary: a healthy node with the shortest list.
select_new_primary(healthy) == {p \in healthy : \A q \in healthy : Load(p) <= Load(q)}

\* Seeded fault: the new primary can be chosen as a follower as well.
select_new_followersAny(p, healthy, count) ==
    LET some == IF count < Cardinality(healthy) THEN count ELSE Cardinality(healthy)
    IN {F \in SUBSET healthy : Cardinality(F) = some}

\* select_new_followers: count of the other healthy nodes, the shortest
\* lists first; the followers the shard has already are candidates too.
select_new_followers(p, healthy, count) ==
    LET others == healthy \ {p}
        some == IF count < Cardinality(others) THEN count ELSE Cardinality(others)
    IN {F \in SUBSET others : Cardinality(F) = some /\ \A f \in F, g \in others \ F : Load(f) <= Load(g)}

\* The failed node was the primary: new primary, new followers.
replace_primary(t) ==
    LET s == task[t].shard
        H == task[t].healthy
    IN /\ shards[s].primary = task[t].node
       /\ IndexFree
       /\ \E p \in select_new_primary(H) : \E F \in select_new_followers(p, H, RF - 1) :
             shards' = [shards EXCEPT ![s] = [primary |-> p, followers |-> ListOf(F)]]

\* retain(|node| node != failed_node_id)
Without(list, n) == [list EXCEPT ![n] = 0]

Needed(list) == (RF - 1) - Length(list)

\* It was a follower (or has left already): it is taken off the list, and
\* nodes are added while there are fewer than RF - 1.
replace_follower(t) ==
    LET s == task[t].shard
        kept == Without(shards[s].followers, task[t].node)
        needed == Needed(kept)
    IN /\ shards[s].primary # task[t].node
       /\ needed > 0 => IndexFree
       /\ \E F \in (IF needed > 0 THEN select_new_followers(shards[s].primary, task[t].healthy, needed) ELSE {{}}) :
             shards' = [shards EXCEPT ![s].followers =
                          [n \in Node |-> kept[n] + ListOf(F)[n]]]

place_shard(t) ==
    /\ At(t, "place")
    /\ replace_primary(t) \/ replace_follower(t)
    /\ Goto(t, "loop")
    /\ UNCHANGED <<node_shards, ops, unindexed>>

\* After the last shard node_shards.write is taken and the index cleared ...
clear_index(t) ==
    /\ At(t, "loop")
    /\ Members(task[t].left) = {}
    /\ IndexFree
    /\ node_shards' = [n \in Node |-> NoShards]
    /\ Goto(t, "rebuild")
    /\ UNCHANGED <<shards, ops, unindexed>>

\* Seeded fault: the rebuilt index has the primaries only.
rebuild_indexPrimary(t) ==
    /\ At(t, "rebuild")
    /\ ShardsFree
    /\ node_shards' = [n \in Node |-> [s \in Shard |-> IF shards[s].primary = n THEN 1 ELSE 0]]
    /\ Finish(t)
    /\ unindexed' = FALSE
    /\ UNCHANGED <<shards, ops>>

\* ... and kept until shards.read has been had to build it anew.
rebuild_index(t) ==
    /\ At(t, "rebuild")
    /\ ShardsFree
    /\ node_shards' = [n \in Node |-> [s \in Shard |->
                         shards[s].followers[n] + ListOf({shards[s].primary})[n]]]
    /\ Finish(t)
    /\ unindexed' = FALSE
    /\ UNCHANGED <<shards, ops>>

----------------------------------------------------------------------------

Proceed(t) ==
    \/ assign_index(t)
    \/ \E s \in Shard : take_shard(t, s)
    \/ place_shard(t)
    \/ clear_index(t)
    \/ rebuild_index(t)

Next ==
    \/ \E t \in Task, s \in Shard, p \in Node, F \in SUBSET Node : assign_shard(t, s, p, F)
    \/ \E t \in Task, S \in SUBSET Node : rebalance_shards(t, S)
    \/ \E t \in Task, n \in Node, H \in SUBSET Node :
          handle_node_failure(t, n, H) \/ handle_node_failure_nothing(t, n, H)
    \/ \E t \in Task : Proceed(t)

Spec == Init /\ [][Next]_vars

----------------------------------------------------------------------------
(* Properties.                                                             *)

\* Shards are placed on nodes of the cluster and lists have no negative counts.
TypeOK ==
    /\ \A s \in Shard : shards[s].primary \in Node \cup {NoNode} /\ shards[s].followers \in [Node -> Nat]
    /\ node_shards \in [Node -> [Shard -> Nat]]
    /\ \A t \in Task : task[t].pc \in {"idle", "index", "loop", "place", "rebuild"}
    /\ ops \in 0 .. MaxOps
    /\ unindexed \in BOOLEAN

\* No shard has its primary among its followers, whichever assignments,
\* rebalances and failovers ran between each other's steps: a replicated
\* write always goes to another node.
PrimaryNotFollower == \A s \in Shard : shards[s].primary \notin Members(shards[s].followers)

\* No shard has more than RF - 1 entries in its list of followers.
FollowerBound == \A s \in Shard : Length(shards[s].followers) <= RF - 1

AllIdle == \A t \in Task : task[t].pc = "idle"

\* When no call is in progress the index lists a shard under every node that
\* holds a copy of it, so that handle_node_failure would find it, however the
\* earlier assignments and failovers were interleaved.  Only rebalance_shards
\* breaks this, and the next failover that finds a shard repairs it.
IndexComplete ==
    AllIdle /\ ~unindexed =>
        \A s \in Shard, n \in Node :
           (n = shards[s].primary \/ n \in Members(shards[s].followers)) => s \in Members(node_shards[n])

\* Every placement is one replication can work with, whichever calls overlap.
PlacementSound == TypeOK /\ PrimaryNotFollower /\ FollowerBound
=============================================================================
