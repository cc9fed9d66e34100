--------------------------- MODULE ClusterProofs ---------------------------
(***************************************************************************)
(* Proofs about Cluster for any number of nodes, of requests at a time and *)
(* of requests in all.                                                     *)
(***************************************************************************)
EXTENDS Cluster, TLAPS

TypeInv == TypeOK /\ LocalsTyped
ViewInv == TypeInv /\ TickFlow

\* An idle request is well typed.
LEMMA IdleTaskType == IdleTask \in TaskState /\ IdleTask.pc = "idle"
  BY ClusterAssumption DEF IdleTask, TaskState, Pc, NoLeader

\* A request that goes on, or ends, leaves the requests well typed.
LEMMA BecomeType ==
    ASSUME task \in [Task -> TaskState], NEW t \in Task, NEW r \in TaskState, Become(t, r)
    PROVE  task' \in [Task -> TaskState]
  BY IdleTaskType DEF Become

\* TypeInv' for a step of a request: what is left to show of it.
LEMMA RequestType ==
    ASSUME TypeInv, NEW t \in Task, NEW r \in TaskState, Become(t, r),
           DOMAIN nodes' \subseteq Node, \A n \in DOMAIN nodes' : nodes'[n] \in NodeInfo,
           leader' \in Node \cup {NoLeader},
           tick.pc = "idle" \/ DOMAIN nodes' = Known,
           UNCHANGED <<counts, tick, ops>>
    PROVE  TypeInv'
<1>1. task' \in [Task -> TaskState]
  BY BecomeType DEF TypeInv, LocalsTyped
<1>2. \A u \in Task : task'[u].pc \in Pc /\ task'[u].node \in Node /\ task'[u].cand \in Node \cup {NoLeader}
  BY <1>1 DEF TaskState
<1>3. tick'.failed \subseteq DOMAIN nodes' /\ tick'.recovered \subseteq DOMAIN nodes'
  BY DEF TypeInv, TypeOK, LocalsTyped, Known
<1> QED BY <1>1, <1>2, <1>3 DEF TypeInv, TypeOK, LocalsTyped, Known

\* Moving a request to another label.
LEMMA GotoType ==
    ASSUME TypeInv, NEW t \in Task, NEW l \in Pc
    PROVE  [task[t] EXCEPT !.pc = l] \in TaskState
<1>1. task[t] \in TaskState
  BY DEF TypeInv, LocalsTyped
<1> QED BY <1>1 DEF TaskState

\* A heartbeat gives an entry a new age and status.
LEMMA RefreshType ==
    ASSUME NEW v \in NodeInfo, NEW a \in Age, NEW s \in Status
    PROVE  [v EXCEPT !.age = a, !.status = s] \in NodeInfo
  BY DEF NodeInfo

\* A request that arrives.
LEMMA StartType ==
    ASSUME NEW o \in {"heartbeat", "register", "remove", "failure", "switch", "elect"},
           NEW l \in Pc, NEW n \in Node, NEW c \in 0 .. 1, NEW v \in 0 .. 1
    PROVE  [IdleTask EXCEPT !.op = o, !.pc = l, !.node = n, !.shard_count = c, !.version = v] \in TaskState
<1>1. IdleTask \in TaskState
  BY IdleTaskType
<1> QED BY <1>1 DEF TaskState

\* The initial state is well typed.
LEMMA TypeInit == Init => TypeInv
<1> SUFFICES ASSUME Init PROVE TypeInv
  OBVIOUS
<1>1. LocalsTyped
  BY IdleTaskType DEF Init, LocalsTyped, IdleTick
<1>2. \A t \in Task : task[t].pc \in Pc /\ task[t].node \in Node /\ task[t].cand \in Node \cup {NoLeader}
  BY <1>1 DEF LocalsTyped, TaskState
<1>3. Known = {Self} /\ nodes[Self] \in NodeInfo
  BY DEF Init, Known, NodeInfo, Status, Age
<1> QED BY <1>1, <1>2, <1>3, ClusterAssumption DEF Init, TypeInv, TypeOK, IdleTick

\* No node is Suspect or Offline at the start.
LEMMA ViewInit == Init => ViewInv
<1> SUFFICES ASSUME Init PROVE TickFlow
  BY TypeInit DEF ViewInv
<1> QED BY DEF Init, TickFlow, Known, IdleTick

\* What the scan makes of one node.
LEMMA ScanNode ==
    ASSUME ViewInv, tick.pc = "idle", NEW n \in Known
    PROVE  /\ NextStatus(n) \in Status /\ NextCount(n) \in 0 .. 3
           /\ NextStatus(n) = "Offline" => nodes[n].age = Overdue /\ nodes[n].status # "Offline"
           /\ NextStatus(n) = "Suspect" => NextCount(n) \in 1 .. 2
           /\ NextCount(n) = 3 => NextStatus(n) = "Offline"
           /\ Recovers(n) => NextStatus(n) = "Online"
<1>1. /\ n \in Node /\ nodes[n].status \in Status /\ nodes[n].age \in Age
      /\ counts[n] \in 0 .. 2 /\ nodes[n].status # "Offline"
      /\ nodes[n].status = "Suspect" => counts[n] \in 1 .. 2
  BY DEF ViewInv, TypeInv, TypeOK, LocalsTyped, TickFlow, NodeInfo
<1>2. CASE nodes[n].age = Overdue
  <2>1. NextStatus(n) = (IF GoesOffline(n) THEN "Offline" ELSE "Suspect") /\ NextCount(n) = Timeouts(n)
    BY <1>1, <1>2 DEF NextStatus, NextCount, Recovers, Overdue
  <2>2. ~Recovers(n)
    BY <1>1, <1>2 DEF Recovers, Overdue
  <2> QED BY <1>1, <1>2, <2>1, <2>2 DEF GoesOffline, Timeouts, Status
<1>3. CASE nodes[n].age # Overdue
  <2>1. CASE Recovers(n)
    BY <1>1, <1>3, <2>1 DEF NextStatus, NextCount, Recovers, Overdue, Status
  <2>2. CASE ~Recovers(n)
    <3>1. nodes[n].status # "Suspect"
      BY <1>3, <2>2 DEF Recovers
    <3>2. NextStatus(n) \in {"Degraded", nodes[n].status} /\ NextCount(n) = counts[n]
      BY <1>1, <1>3, <2>2 DEF NextStatus, NextCount
    <3> QED BY <1>1, <2>2, <3>1, <3>2 DEF Status
  <2> QED BY <2>1, <2>2
<1> QED BY <1>2, <1>3

\* A tick keeps the invariant, in each of its three steps.
LEMMA TickView == ASSUME ViewInv, Tick PROVE ViewInv'
<1>0. /\ Known \subseteq Node /\ counts \in [Node -> 0 .. 3] /\ \A n \in Known : nodes[n] \in NodeInfo
      /\ tick \in [pc : {"idle", "clear", "finish"}, failed : SUBSET Node, recovered : SUBSET Node]
      /\ tick.failed \subseteq Known /\ tick.recovered \subseteq Known
  BY DEF ViewInv, TypeInv, TypeOK, LocalsTyped
<1>1. CASE TickScan
  <2>1. tick.pc = "idle" /\ UNCHANGED <<leader, task, ops>>
    BY <1>1 DEF TickScan, NodesFree
  <2>2. DOMAIN nodes' = Known /\ \A n \in Known : nodes'[n] = [nodes[n] EXCEPT !.status = NextStatus(n)]
    BY <1>1 DEF TickScan
  <2>3. /\ \A n \in Known : nodes'[n] \in NodeInfo /\ nodes'[n].status = NextStatus(n)
        /\ \A n \in Known : nodes'[n].age = nodes[n].age
    BY <1>0, <2>1, <2>2, ScanNode DEF NodeInfo
  <2>4. /\ counts' \in [Node -> 0 .. 3] /\ \A n \in Known : counts'[n] = NextCount(n)
        /\ \A n \in Node \ Known : counts'[n] = counts[n] /\ counts[n] # 3
    <3>1. \A n \in Node : counts[n] # 3
      BY <2>1 DEF ViewInv, TypeInv, LocalsTyped, TickFlow
    <3>2. counts' = [n \in Node |-> IF n \in Known THEN NextCount(n) ELSE counts[n]]
      BY <1>1 DEF TickScan
    <3> QED BY <1>0, <2>1, <3>1, <3>2, ScanNode
  <2>5. /\ tick' \in [pc : {"idle", "clear", "finish"}, failed : SUBSET Node, recovered : SUBSET Node]
        /\ tick'.pc # "idle" /\ tick'.recovered = {n \in Known : Recovers(n)}
        /\ tick'.failed = {n \in Known : nodes[n].status # "Offline" /\ NextStatus(n) = "Offline"}
    BY <1>0, <1>1 DEF TickScan
  <2>6. TypeInv'
    BY <2>1, <2>2, <2>3, <2>4, <2>5 DEF ViewInv, TypeInv, TypeOK, LocalsTyped, Known
  <2>7. TickFlow'
    BY <1>0, <2>1, <2>2, <2>3, <2>4, <2>5, ScanNode DEF TickFlow, Known
  <2> QED BY <2>6, <2>7 DEF ViewInv
<1>2. CASE TickClear
  <2>1. /\ tick' \in [pc : {"idle", "clear", "finish"}, failed : SUBSET Node, recovered : SUBSET Node]
        /\ tick'.pc = "finish" /\ tick'.failed = tick.failed /\ tick'.recovered = tick.recovered
    BY <1>0, <1>2 DEF TickClear
  <2>2. leader' = NoLeader /\ UNCHANGED <<nodes, counts, task, ops>>
    BY <1>2 DEF TickClear
  <2> QED BY <2>1, <2>2 DEF ViewInv, TypeInv, TypeOK, LocalsTyped, TickFlow, Known
<1>3. CASE TickFinish
  <2>1. /\ DOMAIN nodes' = Known \ tick.failed /\ \A n \in Known \ tick.failed : nodes'[n] = nodes[n]
        /\ counts' = [n \in Node |-> IF n \in tick.failed \cup tick.recovered THEN 0 ELSE counts[n]]
        /\ tick' = IdleTick /\ UNCHANGED <<leader, task, ops>>
    BY <1>3 DEF TickFinish
  <2>2. TypeInv'
    BY <1>0, <2>1 DEF ViewInv, TypeInv, TypeOK, LocalsTyped, Known, IdleTick
  <2>3. TickFlow'
    BY <1>0, <2>1 DEF ViewInv, TickFlow, Known, IdleTick
  <2> QED BY <2>2, <2>3 DEF ViewInv
<1> QED BY <1>1, <1>2, <1>3 DEF Tick

\* A step of another task, or of time, between which the view only gains or
\* refreshes nodes, and only while no tick runs.
LEMMA QuietFlow ==
    ASSUME ViewInv, UNCHANGED <<counts, tick>>,
           \/ nodes' = nodes
           \/ /\ tick.pc = "idle"
              /\ \A n \in DOMAIN nodes' : \/ nodes'[n].status \in {"Online", "Degraded"}
                                          \/ n \in Known /\ nodes'[n].status = nodes[n].status
    PROVE  TickFlow'
<1>1. CASE nodes' = nodes
  BY <1>1 DEF ViewInv, TickFlow, Known
<1>2. CASE nodes' # nodes
  <2>1. tick'.failed = {} /\ tick'.recovered = {} /\ tick.failed = {}
    BY <1>2 DEF ViewInv, TypeInv, LocalsTyped
  <2>2. \A n \in DOMAIN nodes' : nodes'[n].status # "Offline"
    BY <1>2, <2>1 DEF ViewInv, TickFlow
  <2>3. \A n \in DOMAIN nodes' : nodes'[n].status = "Suspect" => counts'[n] \in 1 .. 2
    BY <1>2 DEF ViewInv, TickFlow
  <2>4. \A n \in Node : counts'[n] # 3
    BY <2>1 DEF ViewInv, TickFlow
  <2> QED BY <2>1, <2>2, <2>3, <2>4 DEF TickFlow, Known
<1> QED BY <1>1, <1>2

\* A request that changes neither the view nor the leader.
LEMMA LocalStep ==
    ASSUME ViewInv, NEW t \in Task, NEW r \in TaskState, Become(t, r),
           leader' \in Node \cup {NoLeader}, UNCHANGED <<nodes, counts, tick, ops>>
    PROVE  ViewInv'
<1>1. TypeInv'
  BY RequestType DEF ViewInv, TypeInv, TypeOK, Known
<1>2. TickFlow'
  BY QuietFlow
<1> QED BY <1>1, <1>2 DEF ViewInv

\* A request that changes the view while no tick runs.
LEMMA ViewStep ==
    ASSUME ViewInv, NEW t \in Task, NEW r \in TaskState, Become(t, r), tick.pc = "idle",
           DOMAIN nodes' \subseteq Node, \A n \in DOMAIN nodes' : nodes'[n] \in NodeInfo,
           \A n \in DOMAIN nodes' : \/ nodes'[n].status \in {"Online", "Degraded"}
                                    \/ n \in Known /\ nodes'[n].status = nodes[n].status,
           UNCHANGED <<leader, counts, tick, ops>>
    PROVE  ViewInv'
<1>1. TypeInv'
  BY RequestType DEF ViewInv, TypeInv, TypeOK
<1>2. TickFlow'
  BY QuietFlow
<1> QED BY <1>1, <1>2 DEF ViewInv

\* Where a request goes after an election is a label.
LEMMA AfterElectionType == ASSUME NEW t \in Task PROVE AfterElection(t) \in Pc
  BY DEF AfterElection, Pc

\* The request that get_leader has answered is well typed.
LEMMA LookupType ==
    ASSUME ViewInv, NEW t \in Task, NEW l \in Node \cup {NoLeader}, AfterLookup(t, l)
    PROVE  \E r \in TaskState : Become(t, r)
<1> DEFINE p == CASE task[t].op = "heartbeat" -> "get_nodes"
                  [] task[t].op = "switch" /\ ~task[t].second /\ l = task[t].node -> "clear"
                  [] OTHER -> "idle"
           r == [task[t] EXCEPT !.saw = l, !.pc = p]
<1>1. p \in Pc
  BY DEF Pc
<1>2. task[t] \in TaskState
  BY DEF ViewInv, TypeInv, LocalsTyped
<1>3. Become(t, r)
  BY DEF AfterLookup
<1> HIDE DEF p
<1>4. r \in TaskState
  BY <1>1, <1>2 DEF TaskState
<1> QED BY <1>3, <1>4

\* Every step of a request keeps the invariant.
LEMMA TaskView == ASSUME ViewInv, NEW t \in Task, TaskStep(t) PROVE ViewInv'
<1> USE ClusterAssumption
<1>0. /\ task[t] \in TaskState /\ leader \in Node \cup {NoLeader} /\ NoLeader \in Node \cup {NoLeader}
      /\ task[t].node \in Node /\ task[t].cand \in Node \cup {NoLeader}
      /\ Known \subseteq Node /\ \A n \in Known : nodes[n] \in NodeInfo
  BY DEF ViewInv, TypeInv, TypeOK, LocalsTyped
<1>g. ASSUME NEW l \in Pc PROVE [task[t] EXCEPT !.pc = l] \in TaskState
  BY GotoType DEF ViewInv
<1>e. AfterElection(t) \in Pc /\ [task[t] EXCEPT !.pc = AfterElection(t), !.second = TRUE] \in TaskState
  <2>1. AfterElection(t) \in Pc
    BY AfterElectionType
  <2> QED BY <1>0, <2>1 DEF TaskState
<1>1. CASE update_heartbeat(t)
  <2>1. "lookup" \in Pc
    BY DEF Pc
  <2>2. tick.pc = "idle" /\ DOMAIN nodes' = Known
    BY <1>1 DEF update_heartbeat, AtNodes, NodesFree
  <2>3. ASSUME NEW n \in Known PROVE nodes'[n] \in NodeInfo
    <3>1. nodes[n] \in NodeInfo /\ [nodes[n] EXCEPT !.age = 0, !.status = "Online"] \in NodeInfo
      <4>1. nodes[n] \in NodeInfo /\ 0 \in Age /\ "Online" \in Status
        BY <1>0 DEF Age, Status
      <4> QED BY <4>1, RefreshType
    <3>2. \/ nodes'[n] = nodes[n]
          \/ nodes'[n] = [nodes[n] EXCEPT !.age = 0, !.status = "Online"]
      BY <1>1 DEF update_heartbeat
    <3> QED BY <3>1, <3>2
  <2>4. \A n \in Known : nodes'[n].status = "Online" \/ nodes'[n].status = nodes[n].status
    BY <1>0, <1>1 DEF update_heartbeat, NodeInfo
  <2>5. Become(t, [task[t] EXCEPT !.pc = "lookup"]) /\ UNCHANGED <<leader, counts, tick, ops>>
    BY <1>1 DEF update_heartbeat, Goto
  <2> QED BY <1>0, <1>g, <2>1, <2>2, <2>3, <2>4, <2>5, ViewStep
<1>2. CASE get_leader(t)
  <2>1. UNCHANGED <<nodes, leader, counts, tick, ops>>
    BY <1>2 DEF get_leader
  <2>2. "lookup2" \in Pc
    BY DEF Pc
  <2>3. \E r \in TaskState : Become(t, r)
    BY <1>0, <1>2, <1>g, <2>2, LookupType DEF get_leader, Goto
  <2> QED BY <1>0, <2>1, <2>3, LocalStep
<1>3. CASE get_leader_nodes(t)
  <2>1. \E r \in TaskState : Become(t, r)
    BY <1>0, <1>3, LookupType DEF get_leader_nodes
  <2> QED BY <1>0, <1>3, <2>1, LocalStep DEF get_leader_nodes
<1>4. CASE get_nodes(t)
  <2> DEFINE n == task[t].node
             sc == IF n \in Known THEN nodes[n].shard_count ELSE 0
             ve == IF n \in Known THEN nodes[n].version ELSE 0
             b == (task[t].saw = n)
             r == [task[t] EXCEPT !.pc = "insert", !.is_leader = b, !.shard_count = sc, !.version = ve]
  <2>1. sc \in 0 .. 1 /\ ve \in 0 .. 1
    BY <1>0 DEF NodeInfo
  <2>2. b \in BOOLEAN /\ "insert" \in Pc
    BY DEF Pc
  <2>3. Become(t, r)
    BY <1>4 DEF get_nodes
  <2> HIDE DEF sc, ve, b
  <2>4. r \in TaskState
    BY <1>0, <2>1, <2>2 DEF TaskState
  <2> QED BY <1>0, <1>4, <2>3, <2>4, LocalStep DEF get_nodes
<1>5. ASSUME NEW age \in 0 .. MaxDelay, register_node(t, age) PROVE ViewInv'
  <2>1. "check" \in Pc /\ age \in Age
    BY DEF Pc, Age
  <2>2. /\ tick.pc = "idle" /\ DOMAIN nodes' = Known \cup {task[t].node}
        /\ Become(t, [task[t] EXCEPT !.pc = "check"]) /\ UNCHANGED <<leader, counts, tick, ops>>
    BY <1>5 DEF register_node, AtNodes, NodesFree, Goto
  <2>3. nodes'[task[t].node] \in NodeInfo /\ nodes'[task[t].node].status = "Online"
    BY <1>0, <1>5, <2>1 DEF register_node, NodeInfo, Status, TaskState
  <2>4. \A n \in Known : n # task[t].node => nodes'[n] = nodes[n]
    BY <1>5 DEF register_node
  <2> QED BY <1>0, <1>g, <2>1, <2>2, <2>3, <2>4, ViewStep
<1>6. CASE check_leader_election(t)
  <2>1. "elect" \in Pc /\ "idle" \in Pc
    BY DEF Pc
  <2> QED BY <1>0, <1>6, <1>g, <2>1, LocalStep DEF check_leader_election, Goto
<1>7. CASE elect_leader(t)
  <2>1. UNCHANGED <<nodes, leader, counts, tick, ops>>
    BY <1>7 DEF elect_leader
  <2>2. ASSUME NEW c \in Healthy PROVE [task[t] EXCEPT !.pc = "set_leader", !.cand = c] \in TaskState
    <3>1. c \in Node
      BY <1>0 DEF Healthy
    <3> QED BY <1>0, <3>1 DEF TaskState, Pc
  <2>3. \E r \in TaskState : Become(t, r)
    BY <1>7, <1>e, <2>2 DEF elect_leader
  <2> QED BY <1>0, <2>1, <2>3, LocalStep
<1>8. CASE set_leader(t)
  <2>1. "set_flags" \in Pc
    BY DEF Pc
  <2> QED BY <1>0, <1>8, <1>g, <2>1, LocalStep DEF set_leader, Goto
<1>9. CASE set_flags(t)
  <2>1. /\ tick.pc = "idle" /\ DOMAIN nodes' = Known /\ UNCHANGED <<leader, counts, tick, ops>>
        /\ Become(t, [task[t] EXCEPT !.pc = AfterElection(t), !.second = TRUE])
    BY <1>9 DEF set_flags, AtNodes, NodesFree
  <2>2. \A n \in Known : nodes'[n] \in NodeInfo /\ nodes'[n].status = nodes[n].status
    BY <1>0, <1>9 DEF set_flags, NodeInfo
  <2> QED BY <1>0, <1>e, <2>1, <2>2, ViewStep
<1>10. CASE remove_node(t)
  <2>1. "reread" \in Pc
    BY DEF Pc
  <2>2. /\ tick.pc = "idle" /\ DOMAIN nodes' = Known \ {task[t].node} /\ UNCHANGED <<leader, counts, tick, ops>>
        /\ Become(t, [task[t] EXCEPT !.pc = "reread"])
        /\ \A n \in DOMAIN nodes' : nodes'[n] = nodes[n]
    BY <1>10 DEF remove_node, AtNodes, NodesFree, Goto
  <2> QED BY <1>0, <1>g, <2>1, <2>2, ViewStep
<1>11. CASE handle_node_failure(t)
  <2> DEFINE b == (Healthy \ {task[t].node} # {})
             r == [task[t] EXCEPT !.pc = "reread", !.healthy = b]
  <2>1. b \in BOOLEAN /\ "reread" \in Pc
    BY DEF Pc
  <2>2. /\ tick.pc = "idle" /\ DOMAIN nodes' = Known \ {task[t].node} /\ UNCHANGED <<leader, counts, tick, ops>>
        /\ Become(t, r)
        /\ \A n \in DOMAIN nodes' : nodes'[n] = nodes[n]
    BY <1>11 DEF handle_node_failure, AtNodes, NodesFree
  <2> HIDE DEF b
  <2>3. r \in TaskState
    BY <1>0, <2>1 DEF TaskState
  <2> QED BY <1>0, <2>2, <2>3, ViewStep
<1>12. CASE read_leader(t)
  <2> DEFINE p == CASE leader = task[t].node -> "clear"
                    [] leader # task[t].node /\ task[t].op = "failure" -> AfterElection(t)
                    [] OTHER -> "idle"
             b == task[t].second \/ (leader # task[t].node)
             r == [task[t] EXCEPT !.pc = p, !.second = b]
  <2>1. p \in Pc
    BY <1>e DEF Pc
  <2>2. b \in BOOLEAN
    OBVIOUS
  <2>3. Become(t, r) /\ UNCHANGED <<nodes, leader, counts, tick, ops>>
    BY <1>0, <1>12 DEF read_leader
  <2> HIDE DEF p, b
  <2>4. r \in TaskState
    BY <1>0, <2>1, <2>2 DEF TaskState
  <2> QED BY <1>0, <2>3, <2>4, LocalStep
<1>13. CASE clear_leader(t)
  <2>1. "check" \in Pc /\ "elect" \in Pc
    BY DEF Pc
  <2> QED BY <1>0, <1>13, <1>g, <2>1, LocalStep DEF clear_leader, Goto
<1>14. CASE trigger_failover(t)
  <2>1. "idle" \in Pc
    BY DEF Pc
  <2> QED BY <1>0, <1>14, <1>g, <2>1, LocalStep DEF trigger_failover, Goto
<1> QED
  BY <1>1, <1>2, <1>3, <1>4, <1>5, <1>6, <1>7, <1>8, <1>9, <1>10, <1>11, <1>12, <1>13, <1>14 DEF TaskStep
\* The rest of the steps: time, a request that arrives, a discovery.
LEMMA OtherView ==
    ASSUME ViewInv,
           \/ \E n \in Node : Grow(n)
           \/ \E t \in Task, op \in Ops, n \in Node : Start(t, op, n)
           \/ \E n \in Node, status \in {"Online", "Degraded"}, age \in Age, is_leader \in BOOLEAN :
                 perform_discovery(n, status, age, is_leader)
    PROVE  ViewInv'
<1> USE ClusterAssumption
<1>0. /\ Known \subseteq Node /\ \A n \in Known : nodes[n] \in NodeInfo
      /\ tick.failed \subseteq Known /\ tick.recovered \subseteq Known /\ ops \in 0 .. MaxOps
  BY DEF ViewInv, TypeInv, TypeOK
<1>1. ASSUME NEW n \in Node, Grow(n) PROVE ViewInv'
  <2>1. n \in Known /\ nodes[n].age # Overdue /\ UNCHANGED <<leader, counts, tick, task, ops>>
    BY <1>0, <1>1 DEF Grow, NodeInfo, Age, Overdue
  <2>2. DOMAIN nodes' = Known /\ \A m \in Known : m # n => nodes'[m] = nodes[m]
    BY <1>1 DEF Grow, Known
  <2>3. nodes'[n] \in NodeInfo /\ nodes'[n].status = nodes[n].status
    <3>1. nodes' = [nodes EXCEPT ![n] = [nodes[n] EXCEPT !.age = nodes[n].age + 1]]
      BY <1>1 DEF Grow
    <3>2. nodes[n].age + 1 \in Age
      BY <1>0, <1>1 DEF Grow, NodeInfo, Age, Overdue
    <3> QED BY <1>0, <2>1, <3>1, <3>2 DEF NodeInfo, Known
  <2>4. TypeInv'
    BY <1>0, <2>1, <2>2, <2>3 DEF ViewInv, TypeInv, TypeOK, LocalsTyped, Known
  <2>5. n \notin tick.failed
    BY <2>1 DEF ViewInv, TickFlow
  <2>6. TickFlow'
    BY <1>0, <2>1, <2>2, <2>3, <2>5 DEF ViewInv, TickFlow, Known
  <2> QED BY <2>4, <2>6 DEF ViewInv
<1>2. ASSUME NEW t \in Task, NEW op \in Ops, NEW n \in Node, Start(t, op, n) PROVE ViewInv'
  <2> DEFINE l == First(op)
             r == [IdleTask EXCEPT !.op = op, !.pc = l, !.node = n, !.shard_count = 1, !.version = 1]
  <2>1. l \in Pc /\ op \in {"heartbeat", "register", "remove", "failure", "switch", "elect"}
    BY <1>2 DEF Start, First, Pc
  <2>2. ops' \in 0 .. MaxOps /\ UNCHANGED <<nodes, leader, counts, tick>>
    <3>1. ops < MaxOps /\ ops' = ops + 1 /\ UNCHANGED <<nodes, leader, counts, tick>>
      BY <1>2, Zenon DEF Start
    <3> QED BY <1>0, <3>1
  <2>3. task' = [task EXCEPT ![t] = r]
    BY <1>2, Zenon DEF Start
  <2> HIDE DEF l
  <2>r. r \in TaskState
    <3>1. 1 \in 0 .. 1
      OBVIOUS
    <3> QED BY <2>1, <3>1, StartType, Zenon
  <2> HIDE DEF r
  <2>4. task' \in [Task -> TaskState]
    BY <2>3, <2>r DEF ViewInv, TypeInv, LocalsTyped
  <2>5. \A u \in Task : task'[u].pc \in Pc /\ task'[u].node \in Node /\ task'[u].cand \in Node \cup {NoLeader}
    BY <2>4 DEF TaskState
  <2>6. TypeInv'
    BY <2>2, <2>4, <2>5 DEF ViewInv, TypeInv, TypeOK, LocalsTyped, Known
  <2>7. TickFlow'
    BY <2>2, QuietFlow
  <2> QED BY <2>6, <2>7 DEF ViewInv
<1>3. ASSUME NEW n \in Node, NEW status \in {"Online", "Degraded"}, NEW age \in Age, NEW is_leader \in BOOLEAN,
             perform_discovery(n, status, age, is_leader)
      PROVE  ViewInv'
  <2>1. /\ tick.pc = "idle" /\ n \notin Known /\ UNCHANGED <<leader, counts, tick, task>>
        /\ ops' \in 0 .. MaxOps /\ DOMAIN nodes' = Known \cup {n}
        /\ \A m \in Known : nodes'[m] = nodes[m]
    BY <1>0, <1>3 DEF perform_discovery, NodesFree
  <2>2. nodes'[n] \in NodeInfo /\ nodes'[n].status = status
    BY <1>3 DEF perform_discovery, NodeInfo, Status
  <2>3. TypeInv'
    BY <1>0, <2>1, <2>2 DEF ViewInv, TypeInv, TypeOK, LocalsTyped, Known
  <2>4. TickFlow'
    BY <2>1, <2>2, QuietFlow
  <2> QED BY <2>3, <2>4 DEF ViewInv
<1> QED BY <1>1, <1>2, <1>3

\* Every step keeps the invariant.
LEMMA ViewNext == ViewInv /\ [Next]_vars => ViewInv'
<1> SUFFICES ASSUME ViewInv, [Next]_vars PROVE ViewInv'
  OBVIOUS
<1>1. CASE UNCHANGED vars
  BY <1>1 DEF vars, ViewInv, TypeInv, TypeOK, LocalsTyped, TickFlow, Known
<1> QED BY <1>1, TickView, TaskView, OtherView DEF Next

\* The invariant holds in every state.
LEMMA ViewAlways == Spec => []ViewInv
  BY ViewInit, ViewNext, PTL DEF Spec

\* The view, the counters, the tick and the requests of ClusterManager keep
\* their types, for any number of nodes and of requests at a time.
THEOREM TypeCorrect == Spec => []TypeOK
<1>1. ViewInv => TypeOK
  BY DEF ViewInv, TypeInv
<1> QED BY <1>1, ViewAlways, PTL

\* While the nodes lock is free no node is Offline: the heartbeat task removes
\* the nodes it marks before it gives the lock back, whatever heartbeats,
\* registrations, failures and discoveries come in between.
THEOREM OfflineNeverVisibleHolds == Spec => []OfflineNeverVisible
<1>1. ViewInv => OfflineNeverVisible
  BY DEF ViewInv, TypeInv, LocalsTyped, TickFlow, OfflineNeverVisible, NodesFree
<1> QED BY <1>1, ViewAlways, PTL

\* While the nodes lock is free a Suspect node has one or two timeouts on its
\* counter, although heartbeats set the status and leave the counter.
THEOREM SuspectCountedHolds == Spec => []SuspectCounted
<1>1. ViewInv => SuspectCounted
  BY DEF ViewInv, TickFlow, SuspectCounted
<1> QED BY <1>1, ViewAlways, PTL

\* What other tasks see between the heartbeat task's locks: well typed, no
\* Offline node, and a counter that agrees with every Suspect status.
THEOREM ViewSoundHolds == Spec => []ViewSound
  BY TypeCorrect, OfflineNeverVisibleHolds, SuspectCountedHolds, PTL DEF ViewSound

\* A running tick takes out of the view only nodes whose last heartbeat is
\* overdue at that moment: the lock it keeps holds back every refresh.
THEOREM TickRemovesOverdueHolds == Spec => TickRemovesOverdue
<1> DEFINE Removed == \A n \in Known : n \in DOMAIN nodes' \/ nodes[n].age = Overdue
<1>1. ViewInv /\ [Next]_vars => [tick.pc # "idle" => Removed]_vars
  <2> SUFFICES ASSUME ViewInv, Next, tick.pc # "idle" PROVE Removed
    OBVIOUS
  <2>1. CASE Tick
    <3>1. CASE TickFinish
      <4>1. DOMAIN nodes' = Known \ tick.failed
        BY <3>1 DEF TickFinish
      <4> QED BY <4>1 DEF ViewInv, TickFlow
    <3> QED BY <2>1, <3>1 DEF Tick, TickScan, TickClear, NodesFree, Known
  <2>2. ASSUME NEW n \in Node, Grow(n) PROVE Removed
    BY <2>2 DEF Grow, Known
  <2>3. ASSUME NEW t \in Task, TaskStep(t) PROVE Removed
    <3>1. nodes' = nodes
      BY <2>3 DEF TaskStep, AtNodes, NodesFree, update_heartbeat, get_leader, get_leader_nodes, get_nodes,
         register_node, check_leader_election, elect_leader, set_leader, set_flags, remove_node,
         handle_node_failure, read_leader, clear_leader, trigger_failover
    <3> QED BY <3>1 DEF Known
  <2> QED BY <2>1, <2>2, <2>3 DEF Next, Start, perform_discovery, NodesFree, Known
<1> QED BY <1>1, ViewAlways, PTL DEF Spec, TickRemovesOverdue
=============================================================================
