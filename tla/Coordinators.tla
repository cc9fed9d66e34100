---------------------------- MODULE Coordinators ----------------------------
(***************************************************************************)
(* Two registries of the cluster that work by heartbeats of their own:        *)
(* Coordinator (storage/src/distributed/coordinator.rs), which marks silent   *)
(* nodes, and DistributedPreAggregationCoordinator                            *)
(* (storage/src/distributed/preagg_coordinator.rs), which owns the tasks of   *)
(* pre-aggregation rules.  A timestamp is the time since then, in check       *)
(* intervals, and stops growing one past the timeout.                         *)
(***************************************************************************)
EXTENDS Integers, Sequences, FiniteSets, FiniteSetsExt

CONSTANTS
  CNodes, Rules,
  NodeTimeout,  \* node_timeout_ms
  TaskTimeout,  \* task_timeout_ms
  TaskRetries,  \* max_retries
  AutoFailover  \* enable_auto_failover

ASSUME CoordAssumption == {NodeTimeout, TaskTimeout, TaskRetries} \subseteq Nat

VARIABLES
  cnodes,      \* Coordinator.nodes: node -> [since, healthy]
  checker,     \* the health check task runs
  assignments, \* task_assignments: rule -> [node, status, since, retries]
  node_tasks,  \* node -> set of rules
  orphaned     \* rules whose node was reported failed since they were assigned
coordVars == <<cnodes, checker, assignments, node_tasks, orphaned>>
healthVars == <<cnodes, checker>>
taskVars == <<assignments, node_tasks, orphaned>>

CoordInit ==
  /\ cnodes = <<>> /\ checker = FALSE
  /\ assignments = <<>> /\ node_tasks = <<>> /\ orphaned = {}

Put(f, k, v) == [x \in DOMAIN f \cup {k} |-> IF x = k THEN v ELSE f[x]]
Without(f, k) == [x \in DOMAIN f \ {k} |-> f[x]]
Older(n, limit) == IF n > limit THEN n ELSE n + 1

-----------------------------------------------------------------------------
(* Coordinator.                                                              *)

start == ~checker /\ checker' = TRUE /\ UNCHANGED <<cnodes, taskVars>>
stop == checker /\ checker' = FALSE /\ UNCHANGED <<cnodes, taskVars>>

register_node(n) ==
  /\ cnodes' = Put(cnodes, n, [since |-> 0, healthy |-> TRUE])
  /\ UNCHANGED <<checker, taskVars>>

update_heartbeat(n) ==
  /\ n \in DOMAIN cnodes
  /\ cnodes' = [cnodes EXCEPT ![n] = [since |-> 0, healthy |-> TRUE]]
  /\ UNCHANGED <<checker, taskVars>>

health_check ==
  /\ checker
  /\ cnodes' = [n \in DOMAIN cnodes |->
                  IF cnodes[n].since > NodeTimeout THEN [cnodes[n] EXCEPT !.healthy = FALSE]
                  ELSE cnodes[n]]
  /\ UNCHANGED <<checker, taskVars>>

NodesAge ==
  /\ cnodes' = [n \in DOMAIN cnodes |-> [cnodes[n] EXCEPT !.since = Older(@, NodeTimeout)]]
  /\ UNCHANGED <<checker, taskVars>>

get_healthy_nodes == {n \in DOMAIN cnodes : cnodes[n].healthy /\ cnodes[n].since < NodeTimeout}

HealthNext ==
  \/ start \/ stop \/ health_check \/ NodesAge
  \/ \E n \in CNodes : register_node(n) \/ update_heartbeat(n)

-----------------------------------------------------------------------------
(* DistributedPreAggregationCoordinator.                                      *)

Statuses == {"Pending", "Running", "Completed", "Failed", "Timeout"}
TaskCount(n) == IF n \in DOMAIN node_tasks THEN Cardinality(node_tasks[n]) ELSE 0

\* The first of the least loaded nodes, in the order given.
select_node_for_task(available) ==
  LET least == {i \in DOMAIN available :
                  \A j \in DOMAIN available : TaskCount(available[i]) <= TaskCount(available[j])}
  IN  available[Min(least)]

\* Mutant: a rule that is assigned again is not entered in the new node's list.
MutAssignTask(r, available) ==
  /\ available # <<>>
  /\ ~(r \in DOMAIN assignments /\ assignments[r].status \in {"Running", "Pending"})
  /\ LET n == select_node_for_task(available)
     IN  /\ assignments' = Put(assignments, r, [node |-> n, status |-> "Pending", since |-> 0, retries |-> 0])
         /\ node_tasks' = IF r \in DOMAIN assignments THEN node_tasks
                          ELSE Put(node_tasks, n, {r} \cup IF n \in DOMAIN node_tasks THEN node_tasks[n] ELSE {})
  /\ orphaned' = orphaned \ {r}
  /\ UNCHANGED healthVars

assign_task(r, available) ==
  /\ available # <<>>
  /\ ~(r \in DOMAIN assignments /\ assignments[r].status \in {"Running", "Pending"})
  /\ LET n == select_node_for_task(available)
     IN  /\ assignments' = Put(assignments, r, [node |-> n, status |-> "Pending", since |-> 0, retries |-> 0])
         /\ node_tasks' = Put(node_tasks, n, {r} \cup IF n \in DOMAIN node_tasks THEN node_tasks[n] ELSE {})
  /\ orphaned' = orphaned \ {r}
  /\ UNCHANGED healthVars

\* A node reports on a rule; nothing compares the node with the assignment.
update_task_status(r, s) ==
  /\ r \in DOMAIN assignments
  /\ assignments' = [assignments EXCEPT ![r].status = s, ![r].since = 0]
  /\ UNCHANGED <<node_tasks, orphaned, healthVars>>

heartbeat(r) ==
  /\ r \in DOMAIN assignments
  /\ assignments' = [assignments EXCEPT ![r].since = 0]
  /\ UNCHANGED <<node_tasks, orphaned, healthVars>>

remove_task(r) ==
  /\ r \in DOMAIN assignments
  /\ assignments' = Without(assignments, r)
  /\ node_tasks' = [n \in DOMAIN node_tasks |->
                      IF n = assignments[r].node THEN node_tasks[n] \ {r} ELSE node_tasks[n]]
  /\ orphaned' = orphaned \ {r}
  /\ UNCHANGED healthVars

\* The failed node's list goes, and with it every rule on the list fails.
handle_node_failure(n) ==
  /\ n \in DOMAIN node_tasks
  /\ assignments' = [r \in DOMAIN assignments |->
                       IF r \in node_tasks[n] THEN [assignments[r] EXCEPT !.status = "Failed"]
                       ELSE assignments[r]]
  /\ node_tasks' = Without(node_tasks, n)
  /\ orphaned' = orphaned \cup {r \in DOMAIN assignments : assignments[r].node = n}
  /\ UNCHANGED healthVars

\* Mutant: the age of the last report is not looked at.
MutAnyAge(a) == IF a.status = "Running" THEN [a EXCEPT !.status = "Timeout"] ELSE a

\* One round of the coordination task: a silent running task times out and goes
\* back to Pending, on the same node, or fails for good.
Coordinated(a) ==
  IF a.status = "Running" /\ a.since > TaskTimeout
  THEN IF ~AutoFailover THEN [a EXCEPT !.status = "Timeout"]
       ELSE IF a.retries < TaskRetries THEN [a EXCEPT !.status = "Pending", !.retries = @ + 1]
       ELSE [a EXCEPT !.status = "Failed"]
  ELSE a

coordinate ==
  /\ assignments' = [r \in DOMAIN assignments |-> Coordinated(assignments[r])]
  /\ UNCHANGED <<node_tasks, orphaned, healthVars>>

TasksAge ==
  /\ assignments' = [r \in DOMAIN assignments |-> [assignments[r] EXCEPT !.since = Older(@, TaskTimeout)]]
  /\ UNCHANGED <<node_tasks, orphaned, healthVars>>

TaskNext ==
  \/ coordinate \/ TasksAge
  \/ \E r \in Rules : \/ heartbeat(r) \/ remove_task(r)
                      \/ \E s \in Statuses : update_task_status(r, s)
                      \/ \E available \in {<<n>> : n \in CNodes} \cup {p \in CNodes \X CNodes : p[1] # p[2]} :
                           assign_task(r, available)
  \/ \E n \in CNodes : handle_node_failure(n)
TaskSpec == CoordInit /\ [][TaskNext]_coordVars

-----------------------------------------------------------------------------
\* A rule stays in the list of the node that owns it until that node is reported
\* failed, whatever re-assignments, removals and late reports happen meanwhile:
\* handle_node_failure finds the rules of a node only through that list.
ListedByOwner ==
  \A r \in DOMAIN assignments \ orphaned :
    LET n == assignments[r].node
    IN  n \in DOMAIN node_tasks /\ r \in node_tasks[n]

\* A task is never retried more often than configured, across time-outs, node
\* failures and re-assignments, which start the count again.
RetriesBounded == \A r \in DOMAIN assignments : assignments[r].retries <= TaskRetries

\* A running task whose node falls silent does not stay running.
SilentTasksEnd ==
  \A r \in Rules :
    (r \in DOMAIN assignments /\ assignments[r].status = "Running")
      ~> (r \notin DOMAIN assignments \/ assignments[r].status # "Running" \/ assignments[r].since = 0)

\* The pre-aggregation coordinator's two maps agree and its retries are bounded.
AssignmentsSound == ListedByOwner /\ RetriesBounded
=============================================================================
