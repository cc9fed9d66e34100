---------------------------- MODULE Replication ----------------------------
(***************************************************************************)
(* ReplicationManager of storage/src/distributed/replication.rs with       *)
(* asynchronous replication (the default): replicate puts a task in the    *)
(* queue and an entry in the log, workers take tasks from the queue, send  *)
(* the series to the followers, mark log entries and put failed tasks back *)
(* up to max_retries times.                                                *)
(*                                                                         *)
(* The lock on metrics is the outermost one: replicate keeps it from its   *)
(* first line to its last, a worker takes it before it marks the log and   *)
(* puts a task back.  The semaphore has 100 permits for 5 workers and      *)
(* never blocks.  A call without followers returns before it touches       *)
(* anything and is not modelled.                                           *)
(***************************************************************************)
EXTENDS Integers, Sequences, FiniteSets

CONSTANTS
    Write,       \* series handed to replicate, each once
    Shard,       \* shards they belong to
    Follower,    \* nodes a write can be replicated to
    Calls,       \* the calls that may be made: write, shard, follower_nodes
    Worker,      \* replication workers
    QueueSize,   \* replication_queue_size
    MinReplicas, \* min_write_replicas
    MaxRetries   \* max_retries

ASSUME ReplicationAssumption ==
    /\ IsFiniteSet(Worker) /\ IsFiniteSet(Follower)
    /\ QueueSize \in Nat
    /\ MinReplicas \in Nat
    /\ MaxRetries \in Nat
    /\ Calls \subseteq [write : Write, shard : Shard, targets : Seq(Follower) \ {<<>>}]
    /\ \A c \in Calls : \A i, j \in DOMAIN c.targets : i # j => c.targets[i] # c.targets[j]

VARIABLES
    queue,     \* replication_queue: tasks [write, retry_count]
    log,       \* replication_log: entries [write, status]
    caller,    \* write -> where its replicate call is: "none", "locked", "logging", "ok", "full"
    args,      \* write -> the shard and the follower list replicate was called with
    worker,    \* what every worker is doing
    clients,   \* nodes ClusterRpcManager has a client for
    failing,   \* nodes a handle_node_failure call is about to unregister
    stored,    \* node -> the writes it has stored
    ended      \* write -> how its task ended: "none", "ok", "given_up"

vars == <<queue, log, caller, args, worker, clients, failing, stored, ended>>

TaskOf(w, k) == [write |-> w, retry_count |-> k]
NoArgs == [shard |-> "none", targets |-> <<>>]
Resting == [pc |-> "rest", task |-> [write |-> "none", retry_count |-> 0], left |-> <<>>, success |-> 0, ok |-> FALSE]

Init ==
    /\ queue = <<>>
    /\ log = <<>>
    /\ caller = [w \in Write |-> "none"]
    /\ args = [w \in Write |-> NoArgs]
    /\ worker = [k \in Worker |-> Resting]
    /\ clients = Follower
    /\ failing = {}
    /\ stored = [f \in Follower |-> {}]
    /\ ended = [w \in Write |-> "none"]

----------------------------------------------------------------------------
(* replicate.                                                              *)

\* metrics.write is kept by a replicate call; a worker gives it back in the
\* step in which it takes it.
MetricsFree == \A w \in Write : caller[w] \notin {"locked", "logging"}

replicate(c) ==
    /\ caller[c.write] = "none"
    /\ MetricsFree
    /\ caller' = [caller EXCEPT ![c.write] = "locked"]
    /\ args' = [args EXCEPT ![c.write] = [shard |-> c.shard, targets |-> c.targets]]
    /\ UNCHANGED <<queue, log, worker, clients, failing, stored, ended>>

\* Seeded fault: the bound is compared after the push.
enqueueLate(w) ==
    /\ caller[w] = "locked"
    /\ IF Len(queue) <= QueueSize
       THEN queue' = Append(queue, TaskOf(w, 0)) /\ caller' = [caller EXCEPT ![w] = "logging"]
       ELSE queue' = queue /\ caller' = [caller EXCEPT ![w] = "full"]
    /\ UNCHANGED <<log, args, worker, clients, failing, stored, ended>>

enqueue(w) ==
    /\ caller[w] = "locked"
    /\ IF Len(queue) < QueueSize
       THEN queue' = Append(queue, TaskOf(w, 0)) /\ caller' = [caller EXCEPT ![w] = "logging"]
       ELSE queue' = queue /\ caller' = [caller EXCEPT ![w] = "full"]
    /\ UNCHANGED <<log, args, worker, clients, failing, stored, ended>>

\* log_replication, and the end of the call.
log_replication(w) ==
    /\ caller[w] = "logging"
    /\ log' = Append(log, [write |-> w, status |-> "Pending"])
    /\ caller' = [caller EXCEPT ![w] = "ok"]
    /\ UNCHANGED <<queue, args, worker, clients, failing, stored, ended>>

----------------------------------------------------------------------------
(* The workers.                                                            *)

pop(k) ==
    /\ worker[k].pc = "rest"
    /\ queue # <<>>
    /\ queue' = Tail(queue)
    /\ worker' = [worker EXCEPT ![k] = [pc |-> "send", task |-> Head(queue), success |-> 0, ok |-> FALSE,
                                        left |-> args[Head(queue).write].targets]]
    /\ UNCHANGED <<log, caller, args, clients, failing, stored, ended>>

\* The next follower.  A node without a client is skipped; an answer that
\* says success counts; one that does not, does not; an error or a timeout
\* ends the attempt, whether or not the node has stored the series.
Skip(k) ==
    /\ Head(worker[k].left) \notin clients
    /\ worker' = [worker EXCEPT ![k].left = Tail(@)]
    /\ UNCHANGED stored

Answered(k) ==
    LET f == Head(worker[k].left) IN
    /\ f \in clients
    /\ worker' = [worker EXCEPT ![k] = [worker[k] EXCEPT !.left = Tail(@), !.success = @ + 1]]
    /\ stored' = [stored EXCEPT ![f] = @ \cup {worker[k].task.write}]

Refused(k) ==
    /\ Head(worker[k].left) \in clients
    /\ worker' = [worker EXCEPT ![k].left = Tail(@)]
    /\ UNCHANGED stored

Failed(k) ==
    LET f == Head(worker[k].left) IN
    /\ f \in clients
    /\ worker' = [worker EXCEPT ![k].pc = "finish", ![k].ok = FALSE]
    /\ \/ UNCHANGED stored
       \/ stored' = [stored EXCEPT ![f] = @ \cup {worker[k].task.write}]

send(k) ==
    /\ worker[k].pc = "send"
    /\ worker[k].left # <<>>
    /\ Skip(k) \/ Answered(k) \/ Refused(k) \/ Failed(k)
    /\ UNCHANGED <<queue, log, caller, args, clients, failing, ended>>

\* Seeded fault: an attempt is good with one replica fewer than required.
countLess(k) ==
    /\ worker[k].pc = "send"
    /\ worker[k].left = <<>>
    /\ worker' = [worker EXCEPT ![k].pc = "finish", ![k].ok = (worker[k].success + 1 >= MinReplicas)]
    /\ UNCHANGED <<queue, log, caller, args, clients, failing, stored, ended>>

\* Every follower was tried: are there enough replicas?
count(k) ==
    /\ worker[k].pc = "send"
    /\ worker[k].left = <<>>
    /\ worker' = [worker EXCEPT ![k] = [worker[k] EXCEPT !.pc = "finish", !.ok = (worker[k].success >= MinReplicas)]]
    /\ UNCHANGED <<queue, log, caller, args, clients, failing, stored, ended>>

\* All the Pending entries of the task's shard are marked, whatever write
\* they are of.
Mark(s, status) ==
    [i \in DOMAIN log |->
        IF args[log[i].write].shard = s /\ log[i].status = "Pending" THEN [log[i] EXCEPT !.status = status] ELSE log[i]]

\* Seeded fault: the log is marked without the metrics lock.
succeedUnlocked(k) ==
    /\ worker[k].pc = "finish"
    /\ worker[k].ok
    /\ log' = Mark(args[worker[k].task.write].shard, "Completed")
    /\ ended' = [ended EXCEPT ![worker[k].task.write] = "ok"]
    /\ worker' = [worker EXCEPT ![k] = Resting]
    /\ UNCHANGED <<queue, caller, args, clients, failing, stored>>

succeed(k) ==
    /\ worker[k].pc = "finish"
    /\ worker[k].ok
    /\ MetricsFree
    /\ log' = Mark(args[worker[k].task.write].shard, "Completed")
    /\ ended' = [ended EXCEPT ![worker[k].task.write] = "ok"]
    /\ worker' = [worker EXCEPT ![k] = Resting]
    /\ UNCHANGED <<queue, caller, args, clients, failing, stored>>

\* Seeded fault: the retry does not count itself.
failForever(k) ==
    LET t == worker[k].task IN
    /\ worker[k].pc = "finish"
    /\ ~worker[k].ok
    /\ MetricsFree
    /\ log' = Mark(args[t.write].shard, "Failed")
    /\ queue' = Append(queue, TaskOf(t.write, t.retry_count))
    /\ worker' = [worker EXCEPT ![k] = Resting]
    /\ UNCHANGED <<caller, args, clients, failing, stored, ended>>

\* A failed task goes to the back of the queue, whatever its length, until
\* it has been tried max_retries + 1 times.
fail(k) ==
    LET t == worker[k].task IN
    /\ worker[k].pc = "finish"
    /\ ~worker[k].ok
    /\ MetricsFree
    /\ log' = Mark(args[t.write].shard, "Failed")
    /\ queue' = IF t.retry_count < MaxRetries THEN Append(queue, TaskOf(t.write, t.retry_count + 1)) ELSE queue
    /\ ended' = IF t.retry_count < MaxRetries THEN ended ELSE [ended EXCEPT ![t.write] = "given_up"]
    /\ worker' = [worker EXCEPT ![k] = Resting]
    /\ UNCHANGED <<caller, args, clients, failing, stored>>

----------------------------------------------------------------------------
(* handle_node_failure: every Pending entry becomes Failed, whatever its   *)
(* shard, and then the node loses its client.                              *)

handle_node_failure(f) ==
    /\ f \in clients \ failing
    /\ log' = [i \in DOMAIN log |-> IF log[i].status = "Pending" THEN [log[i] EXCEPT !.status = "Failed"] ELSE log[i]]
    /\ failing' = failing \cup {f}
    /\ UNCHANGED <<queue, caller, args, worker, clients, stored, ended>>

unregister_node(f) ==
    /\ f \in failing
    /\ clients' = clients \ {f}
    /\ failing' = failing \ {f}
    /\ UNCHANGED <<queue, log, caller, args, worker, stored, ended>>

WorkerStep(k) == pop(k) \/ send(k) \/ count(k) \/ succeed(k) \/ fail(k)
CallerStep(w) == enqueue(w) \/ log_replication(w)

\* Nothing is in progress.
Finished ==
    /\ \A w \in Write : caller[w] \notin {"locked", "logging"}
    /\ queue = <<>>
    /\ \A k \in Worker : worker[k].pc = "rest"
    /\ UNCHANGED vars

Next ==
    \/ \E c \in Calls : replicate(c)
    \/ \E w \in Write : CallerStep(w)
    \/ \E k \in Worker : WorkerStep(k)
    \/ \E f \in Follower : handle_node_failure(f) \/ unregister_node(f)
    \/ Finished

Spec == Init /\ [][Next]_vars

\* Workers loop for ever, a call that has begun goes on, and an RPC is over
\* after replication_timeout_ms.
FairSpec ==
    /\ Spec
    /\ \A k \in Worker : WF_vars(WorkerStep(k))
    /\ \A w \in Write : WF_vars(CallerStep(w))

----------------------------------------------------------------------------
(* Properties.                                                             *)

Statuses == {"Pending", "Completed", "Failed"}

\* The queue, the log and the workers' tasks are of the calls' writes.
TypeOK ==
    /\ queue \in Seq([write : Write, retry_count : 0 .. MaxRetries])
    /\ log \in Seq([write : Write, status : Statuses])
    /\ caller \in [Write -> {"none", "locked", "logging", "ok", "full"}]
    /\ \A k \in Worker : worker[k].pc \in {"rest", "send", "finish"}
    /\ clients \subseteq Follower
    /\ failing \subseteq clients
    /\ stored \in [Follower -> SUBSET Write]
    /\ ended \in [Write -> {"none", "ok", "given_up"}]

\* Retries go past the limit that replicate respects, but not without bound:
\* the tasks that have not been tried yet never exceed replication_queue_size,
\* and queued and running tasks together never exceed it by more than one
\* for every worker.
Busy == {k \in Worker : worker[k].pc # "rest"}
Untried == {i \in DOMAIN queue : queue[i].retry_count = 0}
QueueBound ==
    /\ Cardinality(Untried) <= QueueSize
    /\ Len(queue) + Cardinality(Busy) <= QueueSize + Cardinality(Worker)

\* A task is in one place: an accepted write is queued once, or held by one
\* worker, or ended; it is never lost and never doubled by a retry.
Places(w) == Cardinality({i \in DOMAIN queue : queue[i].write = w})
             + Cardinality({k \in Worker : worker[k].pc # "rest" /\ worker[k].task.write = w})
Accepted(w) == caller[w] \in {"logging", "ok"}
OneTask == \A w \in Write : Places(w) = IF Accepted(w) /\ ended[w] = "none" THEN 1 ELSE 0

\* An entry that is still Pending belongs to a shard some task is in flight
\* for: because replicate keeps the metrics lock, no worker can finish the
\* task before its entry is in the log and leave the entry behind.
PendingHasTask ==
    \A i \in DOMAIN log : log[i].status = "Pending" =>
        \E w \in Write : args[w].shard = args[log[i].write].shard /\ Places(w) > 0

\* The nodes that have stored a write.
StoredOn(w) == {f \in Follower : w \in stored[f]}

\* A task that ended well has stored its write on min_write_replicas nodes.
OkIsReplicated ==
    \A w \in Write : ended[w] = "ok" => Cardinality(StoredOn(w)) >= MinReplicas

\* The strengthening that makes QueueBound and OkIsReplicated inductive: the
\* types of the workers' locals, and that an attempt counts different nodes,
\* each of which has stored the write and is no longer among those left.
WorkerState == [pc : {"rest", "send", "finish"},
                task : [write : Write \cup {"none"}, retry_count : 0 .. MaxRetries],
                left : Seq(Follower), success : Nat, ok : BOOLEAN]

WorkersTyped ==
    /\ args \in [Write -> [shard : Shard \cup {"none"}, targets : Seq(Follower)]]
    /\ worker \in [Worker -> WorkerState]
    /\ \A k \in Worker : worker[k].pc # "rest" => worker[k].task.write \in Write

Distinct(q) == \A i, j \in DOMAIN q : i # j => q[i] # q[j]
Passed(w, left) == {f \in StoredOn(w) : \A i \in DOMAIN left : left[i] # f}

CountedStored ==
    /\ \A w \in Write : Distinct(args[w].targets)
    /\ \A k \in Worker : worker[k].pc = "send" =>
          /\ Distinct(worker[k].left)
          /\ worker[k].success <= Cardinality(Passed(worker[k].task.write, worker[k].left))
    /\ \A k \in Worker : worker[k].pc = "finish" /\ worker[k].ok =>
          Cardinality(StoredOn(worker[k].task.write)) >= MinReplicas

\* Every accepted write comes to an end, well or not, whatever the answers.
TasksEnd == \A w \in Write : (caller[w] = "ok") ~> (ended[w] # "none")

\* Queue, workers and log agree on which writes are still to be replicated.
TasksSound == TypeOK /\ OneTask /\ PendingHasTask
=============================================================================
