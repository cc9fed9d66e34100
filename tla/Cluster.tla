------------------------------ MODULE Cluster ------------------------------
(***************************************************************************)
(* The membership view of one process: ClusterManager of                   *)
(* storage/src/distributed/cluster.rs with the callers it has in           *)
(* distributed/mod.rs (start, the Heartbeat request) and in                *)
(* fault_injection (register_node, handle_node_failure).                   *)
(*                                                                         *)
(* A step is what a tokio task does between two awaits.  Two locks matter: *)
(* nodes, which the heartbeat task keeps for a whole tick, and leader_id,  *)
(* which get_leader keeps while it waits for nodes.  All the other         *)
(* sections take one lock and give it back before they wait again.         *)
(*                                                                         *)
(* Times are abstracted to what the tick tells apart: the age of the last  *)
(* heartbeat is 0 (at most node_timeout_ms/2), 1 (at most node_timeout_ms) *)
(* or 2.  The tick reads the clock before it waits for the lock; the age   *)
(* it then sees is one the node had a moment earlier, which is a tick      *)
(* before the clock moved, so Scan may read the age of its own step.       *)
(***************************************************************************)
EXTENDS Integers, FiniteSets

CONSTANTS
    Node,       \* node ids, ordered as the strings are
    Self,       \* config.node_id of this process
    Task,       \* requests being served at the same time
    Ops,        \* the operations the requests may be
    MaxOps,     \* bound: requests started in all, discoveries included
    MaxDelay    \* the greatest age of a heartbeat when it is applied

NoLeader == 0

ASSUME ClusterAssumption ==
    /\ Node \subseteq Nat \ {NoLeader}
    /\ Self \in Node
    /\ MaxOps \in Nat
    /\ MaxDelay \in 0 .. 2
    /\ Ops \subseteq {"heartbeat", "register", "remove", "failure", "switch", "elect", "discover"}

VARIABLES
    nodes,      \* nodes: node id -> status, age, is_leader, version
    leader,     \* leader_id
    counts,     \* timeout_counts of the heartbeat task (no entry is 0)
    tick,       \* the heartbeat task: where it is in a tick, its local sets
    task,       \* the requests in progress
    ops         \* requests started

vars == <<nodes, leader, counts, tick, task, ops>>

Status == {"Online", "Degraded", "Suspect", "Offline"}
Age == 0 .. 2
Overdue == 2

\* shard_count is 0, or 100 (here 1) for a node the fault injector registers;
\* version "" (here 0) is below the one of registered and discovered nodes.
NodeInfo == [status : Status, age : Age, is_leader : BOOLEAN, shard_count : 0 .. 1, version : 0 .. 1]

Pc == {"idle", "beat", "lookup", "lookup2", "get_nodes", "insert", "check", "elect",
       "set_leader", "set_flags", "remove", "fail", "reread", "clear", "notify"}

Known == DOMAIN nodes
Healthy == {n \in Known : nodes[n].status = "Online"}

IdleTask == [op |-> "none", pc |-> "idle", node |-> Self, saw |-> NoLeader, is_leader |-> FALSE,
             shard_count |-> 0, version |-> 0, cand |-> NoLeader, healthy |-> FALSE, second |-> FALSE]
IdleTick == [pc |-> "idle", failed |-> {}, recovered |-> {}]

\* DistributedStorage::start: the process registers itself and, being alone,
\* elects itself.
Init ==
    /\ nodes = [n \in {Self} |-> [status |-> "Online", age |-> 0, is_leader |-> TRUE,
                                shard_count |-> 0, version |-> 1]]
    /\ leader = Self
    /\ counts = [n \in Node |-> 0]
    /\ tick = IdleTick
    /\ task = [t \in Task |-> IdleTask]
    /\ ops = 0

----------------------------------------------------------------------------
(* Locks.                                                                  *)

\* Only the heartbeat task keeps nodes.write across an await.
NodesFree == tick.pc = "idle"

\* leader_id.write needs every reader gone.
LeaderFree == \A t \in Task : task[t].pc # "lookup2"

\* Task t is at label l, which needs the nodes lock.
At(t, l) == task[t].pc = l
AtNodes(t, l) == At(t, l) /\ NodesFree

\* A request that has answered leaves nothing behind.
Become(t, r) == task' = [task EXCEPT ![t] = IF r.pc = "idle" THEN IdleTask ELSE r]
Goto(t, l) == Become(t, [task[t] EXCEPT !.pc = l])

----------------------------------------------------------------------------
(* The heartbeat task.                                                     *)

Timeouts(n) == counts[n] + 1
GoesOffline(n) == nodes[n].age = Overdue /\ Timeouts(n) >= 3

Recovers(n) ==
    \/ nodes[n].status = "Degraded" /\ nodes[n].age = 0
    \/ nodes[n].status = "Suspect" /\ nodes[n].age # Overdue

NextStatus(n) ==
    CASE nodes[n].status = "Offline" -> "Offline"
      [] nodes[n].status # "Offline" /\ nodes[n].age = Overdue ->
            IF GoesOffline(n) THEN "Offline" ELSE "Suspect"
      [] Recovers(n) -> "Online"
      [] nodes[n].status = "Online" /\ nodes[n].age = 1 -> "Degraded"
      [] OTHER -> nodes[n].status

\* leader_timed_out is set in the Online arm only.
LeaderTimedOut ==
    \E n \in Known : nodes[n].status = "Online" /\ GoesOffline(n) /\ nodes[n].is_leader

\* Seeded fault: the counters start anew with every tick.
NextCountFresh(n) == IF nodes[n].status # "Offline" /\ nodes[n].age = Overdue THEN 1 ELSE 0

\* Seeded fault: the first timeout does not count.
NextCountLate(n) == IF nodes[n].age = Overdue /\ nodes[n].status # "Online" THEN Timeouts(n) ELSE counts[n]

NextCount(n) ==
    CASE nodes[n].status = "Offline" -> counts[n]
      [] nodes[n].status # "Offline" /\ nodes[n].age = Overdue -> Timeouts(n)
      [] Recovers(n) -> 0
      [] OTHER -> counts[n]

\* One pass over the nodes, with nodes.write taken at its start and kept.
TickScan ==
    /\ NodesFree
    /\ nodes' = [n \in Known |-> [nodes[n] EXCEPT !.status = NextStatus(n)]]
    /\ counts' = [n \in Node |-> IF n \in Known THEN NextCount(n) ELSE counts[n]]
    /\ tick' = [pc |-> IF LeaderTimedOut THEN "clear" ELSE "finish",
                failed |-> {n \in Known : nodes[n].status # "Offline" /\ NextStatus(n) = "Offline"},
                recovered |-> {n \in Known : Recovers(n)}]
    /\ UNCHANGED <<leader, task, ops>>

\* *leader_id.write().await = None, with nodes.write held.
TickClear ==
    /\ tick.pc = "clear"
    /\ LeaderFree
    /\ leader' = NoLeader
    /\ tick' = [tick EXCEPT !.pc = "finish"]
    /\ UNCHANGED <<nodes, counts, task, ops>>

\* Seeded fault: every node that is not healthy is removed with the failed ones.
TickFinishSweeps ==
    /\ tick.pc = "finish"
    /\ nodes' = [n \in Healthy |-> nodes[n]]
    /\ counts' = [n \in Node |-> IF n \in tick.failed \cup tick.recovered THEN 0 ELSE counts[n]]
    /\ tick' = IdleTick
    /\ UNCHANGED <<leader, task, ops>>

\* The managers are told of the failed nodes, a recovery rebalances, the
\* counters are dropped and the failed nodes leave the map.
TickFinish ==
    /\ tick.pc = "finish"
    /\ nodes' = [n \in Known \ tick.failed |-> nodes[n]]
    /\ counts' = [n \in Node |-> IF n \in tick.failed \cup tick.recovered THEN 0 ELSE counts[n]]
    /\ tick' = IdleTick
    /\ UNCHANGED <<leader, task, ops>>

\* Time passes for one node.
Grow(n) ==
    /\ n \in Known
    /\ nodes[n].age < Overdue
    /\ nodes' = [nodes EXCEPT ![n].age = @ + 1]
    /\ UNCHANGED <<leader, counts, tick, task, ops>>

----------------------------------------------------------------------------
(* The requests.                                                           *)

First(op) == CASE op = "heartbeat" -> "beat" [] op = "register" -> "insert" [] op = "remove" -> "remove"
               [] op = "failure" -> "fail" [] op = "elect" -> "check" [] OTHER -> "lookup"

\* A request arrives.  A process sends no heartbeat to itself.
Start(t, op, n) ==
    /\ At(t, "idle")
    /\ ops < MaxOps
    /\ op \in Ops \ {"discover"}
    /\ op = "heartbeat" => n # Self
    /\ task' = [task EXCEPT ![t] = [IdleTask EXCEPT !.op = op, !.pc = First(op), !.node = n,
                                                      !.shard_count = 1, !.version = 1]]
    /\ ops' = ops + 1
    /\ UNCHANGED <<nodes, leader, counts, tick>>

\* update_heartbeat: the status goes back to Online, the counter stays.
update_heartbeat(t) ==
    /\ AtNodes(t, "beat")
    /\ nodes' = [m \in Known |-> IF m = task[t].node THEN [nodes[m] EXCEPT !.age = 0, !.status = "Online"]
                                 ELSE nodes[m]]
    /\ Goto(t, "lookup")
    /\ UNCHANGED <<leader, counts, tick, ops>>

\* Where a request goes when get_leader has answered l.
AfterLookup(t, l) ==
    Become(t, [task[t] EXCEPT
                 !.saw = l,
                 !.pc = CASE task[t].op = "heartbeat" -> "get_nodes"
                          [] task[t].op = "switch" /\ ~task[t].second /\ l = task[t].node -> "clear"
                          [] OTHER -> "idle"])

\* get_leader takes leader_id.read; without a leader it is done.
get_leader(t) ==
    /\ At(t, "lookup")
    /\ IF leader = NoLeader THEN AfterLookup(t, NoLeader) ELSE Goto(t, "lookup2")
    /\ UNCHANGED <<nodes, leader, counts, tick, ops>>

\* ... and keeps it until it has nodes.read.
get_leader_nodes(t) ==
    /\ AtNodes(t, "lookup2")
    /\ AfterLookup(t, IF leader \in Known THEN leader ELSE NoLeader)
    /\ UNCHANGED <<nodes, leader, counts, tick, ops>>

\* The Heartbeat handler builds the entry it will register.
get_nodes(t) ==
    /\ AtNodes(t, "get_nodes")
    /\ LET n == task[t].node IN
       Become(t, [task[t] EXCEPT !.pc = "insert",
                                 !.is_leader = (task[t].saw = n),
                                 !.shard_count = IF n \in Known THEN nodes[n].shard_count ELSE 0,
                                 !.version = IF n \in Known THEN nodes[n].version ELSE 0])
    /\ UNCHANGED <<nodes, leader, counts, tick, ops>>

\* register_node overwrites the entry; a heartbeat carries the sender's time.
register_node(t, age) ==
    /\ AtNodes(t, "insert")
    /\ task[t].op = "register" => age = 0
    /\ LET n == task[t].node IN
       nodes' = [m \in Known \cup {n} |->
                   IF m = n THEN [status |-> "Online", age |-> age, is_leader |-> task[t].is_leader,
                                  shard_count |-> task[t].shard_count, version |-> task[t].version]
                   ELSE nodes[m]]
    /\ Goto(t, "check")
    /\ UNCHANGED <<leader, counts, tick, ops>>

check_leader_election(t) ==
    /\ At(t, "check")
    /\ Goto(t, IF leader = NoLeader THEN "elect" ELSE "idle")
    /\ UNCHANGED <<nodes, leader, counts, tick, ops>>

\* Where a request goes when elect_leader has returned.
AfterElection(t) ==
    CASE task[t].op = "failure" /\ ~task[t].second -> IF task[t].healthy THEN "reread" ELSE "idle"
      [] task[t].op = "failure" /\ task[t].second -> "notify"
      [] task[t].op = "switch" -> "lookup"
      [] OTHER -> "idle"

\* The order of the candidates: the marked leader, then fewer shards, then
\* the newer version, then the smaller id.
Before(a, b) ==
    \/ nodes[a].is_leader /\ ~nodes[b].is_leader
    \/ /\ nodes[a].is_leader = nodes[b].is_leader
       /\ \/ nodes[a].shard_count < nodes[b].shard_count
          \/ /\ nodes[a].shard_count = nodes[b].shard_count
             /\ \/ nodes[a].version > nodes[b].version
                \/ nodes[a].version = nodes[b].version /\ a < b

\* elect_leader, under nodes.read: choose among the healthy nodes.
elect_leader(t) ==
    /\ AtNodes(t, "elect")
    /\ IF Healthy = {}
       THEN Become(t, [task[t] EXCEPT !.pc = AfterElection(t), !.second = TRUE])
       ELSE \E c \in Healthy :
              /\ \A d \in Healthy \ {c} : Before(c, d)
              /\ Become(t, [task[t] EXCEPT !.pc = "set_leader", !.cand = c])
    /\ UNCHANGED <<nodes, leader, counts, tick, ops>>

set_leader(t) ==
    /\ At(t, "set_leader")
    /\ LeaderFree
    /\ leader' = task[t].cand
    /\ Goto(t, "set_flags")
    /\ UNCHANGED <<nodes, counts, tick, ops>>

set_flags(t) ==
    /\ AtNodes(t, "set_flags")
    /\ nodes' = [n \in Known |-> [nodes[n] EXCEPT !.is_leader = (n = task[t].cand)]]
    /\ Become(t, [task[t] EXCEPT !.pc = AfterElection(t), !.second = TRUE])
    /\ UNCHANGED <<leader, counts, tick, ops>>

remove_node(t) ==
    /\ AtNodes(t, "remove")
    /\ nodes' = [n \in Known \ {task[t].node} |-> nodes[n]]
    /\ Goto(t, "reread")
    /\ UNCHANGED <<leader, counts, tick, ops>>

\* The node is marked Offline, the healthy ones are collected and it is
\* removed, all under one lock.
handle_node_failure(t) ==
    /\ AtNodes(t, "fail")
    /\ nodes' = [n \in Known \ {task[t].node} |-> nodes[n]]
    /\ Become(t, [task[t] EXCEPT !.pc = "reread", !.healthy = (Healthy \ {task[t].node} # {})])
    /\ UNCHANGED <<leader, counts, tick, ops>>

\* remove_node, handle_node_failure and trigger_failover compare the leader
\* with the node that left.
read_leader(t) ==
    /\ At(t, "reread")
    /\ Become(t, [task[t] EXCEPT
                    !.pc = CASE leader = task[t].node -> "clear"
                             [] leader # task[t].node /\ task[t].op = "failure" -> AfterElection(t)
                             [] OTHER -> "idle",
                    !.second = @ \/ (leader # task[t].node)])
    /\ UNCHANGED <<nodes, leader, counts, tick, ops>>

clear_leader(t) ==
    /\ At(t, "clear")
    /\ LeaderFree
    /\ leader' = NoLeader
    /\ Goto(t, IF task[t].op = "remove" THEN "check" ELSE "elect")
    /\ UNCHANGED <<nodes, counts, tick, ops>>

\* The end of trigger_failover: the shard and replication managers are told.
trigger_failover(t) ==
    /\ At(t, "notify")
    /\ Goto(t, "idle")
    /\ UNCHANGED <<nodes, leader, counts, tick, ops>>

\* perform_discovery: a peer's answer adds nodes this process does not know.
\* A peer reports no node Offline (OfflineNeverVisible) and reports Degraded
\* and Suspect alike, which arrive as Degraded.
perform_discovery(n, status, age, is_leader) ==
    /\ "discover" \in Ops
    /\ NodesFree
    /\ ops < MaxOps
    /\ ops' = ops + 1
    /\ n \notin Known
    /\ nodes' = [m \in Known \cup {n} |->
                   IF m = n THEN [status |-> status, age |-> age, is_leader |-> is_leader,
                                  shard_count |-> 0, version |-> 1]
                   ELSE nodes[m]]
    /\ UNCHANGED <<leader, counts, tick, task>>

----------------------------------------------------------------------------

Tick == TickScan \/ TickClear \/ TickFinish

TaskStep(t) ==
    \/ update_heartbeat(t)
    \/ get_leader(t)
    \/ get_leader_nodes(t)
    \/ get_nodes(t)
    \/ \E age \in 0 .. MaxDelay : register_node(t, age)
    \/ check_leader_election(t)
    \/ elect_leader(t)
    \/ set_leader(t)
    \/ set_flags(t)
    \/ remove_node(t)
    \/ handle_node_failure(t)
    \/ read_leader(t)
    \/ clear_leader(t)
    \/ trigger_failover(t)

Next ==
    \/ Tick
    \/ \E n \in Node : Grow(n)
    \/ \E t \in Task, op \in Ops, n \in Node : Start(t, op, n)
    \/ \E t \in Task : TaskStep(t)
    \/ \E n \in Node, status \in {"Online", "Degraded"}, age \in Age, is_leader \in BOOLEAN :
          perform_discovery(n, status, age, is_leader)

Spec == Init /\ [][Next]_vars

\* The interval of the heartbeat task keeps firing, time passes, and a request
\* goes on: tokio's RwLock serves waiters in the order they came, so no task is
\* passed over for ever by the ticks.  No request has to arrive.
Fairness ==
    /\ WF_vars(Tick)
    /\ \A t \in Task : SF_vars(TaskStep(t))
    /\ \A n \in Node : WF_vars(Grow(n))

FairSpec == Spec /\ Fairness

----------------------------------------------------------------------------
(* Properties.                                                             *)

\* The view is a map from node ids to entries, the tick's sets are of nodes
\* it has looked at, and the counters stay below the threshold between ticks.
TypeOK ==
    /\ Known \subseteq Node
    /\ \A n \in Known : nodes[n] \in NodeInfo
    /\ leader \in Node \cup {NoLeader}
    /\ counts \in [Node -> 0 .. 3]
    /\ tick.pc \in {"idle", "clear", "finish"}
    /\ tick.failed \subseteq Known
    /\ tick.recovered \subseteq Known
    /\ \A t \in Task : task[t].pc \in Pc /\ task[t].node \in Node /\ task[t].cand \in Node \cup {NoLeader}
    /\ ops \in 0 .. MaxOps

\* A node marked Offline never outlives the lock it was marked under: no
\* other task, and no peer that asks for the cluster status, sees it.  The
\* branch of the failover monitor that looks for Offline nodes (mod.rs:238)
\* therefore never runs; all failover is the tick's and handle_node_failure's.
OfflineNeverVisible == NodesFree => \A n \in Known : nodes[n].status # "Offline"

\* A Suspect node has one or two timeouts on its counter, whatever heartbeats,
\* removals, registrations and discoveries came in between: it is always on
\* the way to the third one or to a recovery.
SuspectCounted == NodesFree => \A n \in Known : nodes[n].status = "Suspect" => counts[n] \in 1 .. 2

\* A tick takes a node out of the view only if its last heartbeat is overdue
\* at that moment, although other tasks register and refresh nodes all along.
TickRemovesOverdue ==
    [][tick.pc # "idle" => \A n \in Known : n \in DOMAIN nodes' \/ nodes[n].age = Overdue]_vars

\* The strengthening that makes these inductive: the types of the requests'
\* locals; every Offline node is one the running tick has marked and will
\* remove, and stays overdue; only such a node has reached the third timeout;
\* and a node whose counter the tick will drop is Online.
TaskState ==
    [op : {"none", "heartbeat", "register", "remove", "failure", "switch", "elect"},
     pc : Pc, node : Node, saw : Node \cup {NoLeader}, is_leader : BOOLEAN,
     shard_count : 0 .. 1, version : 0 .. 1, cand : Node \cup {NoLeader},
     healthy : BOOLEAN, second : BOOLEAN]

LocalsTyped ==
    /\ task \in [Task -> TaskState]
    /\ tick \in [pc : {"idle", "clear", "finish"}, failed : SUBSET Node, recovered : SUBSET Node]
    /\ tick.pc = "idle" => tick.failed = {} /\ tick.recovered = {}

TickFlow ==
    /\ \A n \in tick.failed : nodes[n].age = Overdue
    /\ \A n \in tick.recovered : nodes[n].status = "Online"
    /\ \A n \in Known : nodes[n].status = "Offline" => n \in tick.failed
    /\ \A n \in Known : nodes[n].status = "Suspect" => counts[n] \in 1 .. 2
    /\ \A n \in Node : counts[n] = 3 => n \in tick.failed

\* The tick keeps nodes and waits for leader_id, which a get_leader keeps while
\* it waits for nodes.
LockCycle == tick.pc = "clear" /\ ~LeaderFree

\* Once no request arrives any more, those in progress end and every node, this
\* process included, leaves the view: a silent node is always detected in the
\* end.  The one thing that can prevent it is the tick and a get_leader that
\* wait for each other's lock (cluster.rs:266 and 615).
SilentLeave ==
    (ops = MaxOps) ~> (LockCycle \/ (Known = {} /\ \A t \in Task : task[t].pc = "idle"))

\* What the comment at cluster.rs:206 says: a node goes offline only after
\* three timeouts in a row.  A node the previous tick found overdue is Suspect
\* unless a heartbeat or a registration came since, so the least this asks is
\* that the node was Suspect.
ThreeInARow == [][\A n \in tick'.failed \ tick.failed : nodes[n].status = "Suspect"]_vars

\* The view of the cluster that other tasks see between the heartbeat task's
\* locks.
ViewSound == TypeOK /\ OfflineNeverVisible /\ SuspectCounted
=============================================================================
