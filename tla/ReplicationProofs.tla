------------------------- MODULE ReplicationProofs -------------------------
(***************************************************************************)
(* Proofs about Replication for any number of writes, shards, followers    *)
(* and workers, any queue size, number of retries and of replicas.         *)
(***************************************************************************)
EXTENDS Replication, TLAPS, FiniteSetTheorems, SequenceTheorems

QueueTask == [write : Write, retry_count : 0 .. MaxRetries]
LogEntry == [write : Write, status : Statuses]

\* A log whose entries are replaced one for one is a log.
LEMMA MappedLog ==
    ASSUME NEW q \in Seq(LogEntry), NEW r, DOMAIN r = DOMAIN q,
           r = [i \in DOMAIN q |-> r[i]],
           \A i \in DOMAIN q : r[i] \in LogEntry
    PROVE  r \in Seq(LogEntry)
<1>1. Len(q) \in Nat /\ DOMAIN q = 1 .. Len(q)
  BY LenProperties
<1>2. r \in [1 .. Len(q) -> LogEntry]
  BY <1>1
<1> QED BY <1>1, <1>2, SeqDef

\* Marking the entries of a shard keeps the log a log.
LEMMA MarkType ==
    ASSUME log \in Seq(LogEntry), NEW s, NEW status \in Statuses
    PROVE  Mark(s, status) \in Seq(LogEntry)
<1>1. \A i \in DOMAIN log : log[i] \in LogEntry
  BY LenProperties, ElementOfSeq
<1>2. DOMAIN Mark(s, status) = DOMAIN log /\ Mark(s, status) = [i \in DOMAIN log |-> Mark(s, status)[i]]
  BY DEF Mark
<1>3. \A i \in DOMAIN log : Mark(s, status)[i] \in LogEntry
  BY <1>1 DEF Mark, LogEntry
<1> QED BY <1>2, <1>3, MappedLog

\* The parts of a queue or of a list of followers that is not empty.
LEMMA Parts ==
    ASSUME NEW S, NEW q \in Seq(S), q # <<>>
    PROVE  Head(q) \in S /\ Tail(q) \in Seq(S) /\ Len(Tail(q)) = Len(q) - 1 /\ Len(q) \in Nat \ {0}
  BY HeadTailProperties, EmptySeq

-----------------------------------------------------------------------------

TypeInv == TypeOK /\ WorkersTyped

\* The initial state is well typed.
LEMMA TypeInit == Init => TypeInv
<1> SUFFICES ASSUME Init PROVE TypeInv
  OBVIOUS
<1>1. <<>> \in Seq(QueueTask) /\ <<>> \in Seq(LogEntry) /\ <<>> \in Seq(Follower)
  BY EmptySeq
<1>2. 0 \in 0 .. MaxRetries
  BY ReplicationAssumption
<1> QED BY <1>1, <1>2 DEF Init, TypeInv, TypeOK, WorkersTyped, WorkerState, QueueTask, LogEntry, Resting, NoArgs, Statuses

\* Every step keeps the types.
LEMMA TypeNext == TypeInv /\ [Next]_vars => TypeInv'
<1> SUFFICES ASSUME TypeInv, [Next]_vars PROVE TypeInv'
  OBVIOUS
<1> USE ReplicationAssumption
<1>q. queue \in Seq(QueueTask) /\ log \in Seq(LogEntry)
  BY DEF TypeInv, TypeOK, QueueTask, LogEntry
<1>r. Resting.pc = "rest" /\ Resting \in WorkerState
  BY EmptySeq DEF Resting, WorkerState
<1>1. ASSUME NEW c \in Calls, replicate(c) PROVE TypeInv'
  <2>1. c.write \in Write /\ c.shard \in Shard /\ c.targets \in Seq(Follower)
    OBVIOUS
  <2> QED BY <1>1, <2>1 DEF replicate, TypeInv, TypeOK, WorkersTyped, WorkerState
<1>2. ASSUME NEW w \in Write, enqueue(w) PROVE TypeInv'
  <2>1. TaskOf(w, 0) \in QueueTask
    BY DEF TaskOf, QueueTask
  <2>2. queue' \in Seq(QueueTask)
    BY <1>2, <1>q, <2>1 DEF enqueue
  <2>3. caller' \in [Write -> {"none", "locked", "logging", "ok", "full"}]
    BY <1>2 DEF enqueue, TypeInv, TypeOK
  <2> QED BY <1>2, <2>2, <2>3 DEF enqueue, TypeInv, TypeOK, WorkersTyped, WorkerState, QueueTask
<1>3. ASSUME NEW w \in Write, log_replication(w) PROVE TypeInv'
  <2>1. [write |-> w, status |-> "Pending"] \in LogEntry
    BY DEF LogEntry, Statuses
  <2>2. log' \in Seq(LogEntry)
    BY <1>3, <1>q, <2>1 DEF log_replication
  <2> QED BY <1>3, <2>2 DEF log_replication, TypeInv, TypeOK, WorkersTyped, WorkerState, LogEntry
<1>4. ASSUME NEW k \in Worker, pop(k) PROVE TypeInv'
  <2>1. Head(queue) \in QueueTask /\ queue' \in Seq(QueueTask)
    BY <1>4, <1>q, Parts DEF pop
  <2>2. Head(queue).write \in Write /\ args[Head(queue).write].targets \in Seq(Follower)
    BY <2>1 DEF QueueTask, TypeInv, WorkersTyped, WorkerState
  <2>3. worker' \in [Worker -> WorkerState]
    <3>1. Head(queue) \in [write : Write \cup {"none"}, retry_count : 0 .. MaxRetries]
      BY <2>1 DEF QueueTask
    <3>2. worker' = [worker EXCEPT ![k] = [pc |-> "send", task |-> Head(queue), success |-> 0, ok |-> FALSE,
                                           left |-> args[Head(queue).write].targets]]
      BY <1>4 DEF pop
    <3> QED BY <2>2, <3>1, <3>2 DEF TypeInv, WorkersTyped, WorkerState
  <2>4. \A j \in Worker : worker'[j].pc # "rest" => worker'[j].task.write \in Write
    BY <1>4, <2>2 DEF pop, TypeInv, WorkersTyped, WorkerState
  <2>5. \A j \in Worker : worker'[j].pc \in {"rest", "send", "finish"}
    BY <2>3 DEF WorkerState
  <2> QED BY <1>4, <2>1, <2>3, <2>4, <2>5 DEF pop, TypeInv, TypeOK, WorkersTyped, WorkerState, QueueTask
<1>5. ASSUME NEW k \in Worker, send(k) PROVE TypeInv'
  <2>1. /\ Head(worker[k].left) \in Follower /\ Tail(worker[k].left) \in Seq(Follower)
        /\ worker[k].task.write \in Write
    BY <1>5, Parts DEF send, TypeInv, WorkersTyped, WorkerState
  <2>2. /\ worker' \in [Worker -> WorkerState]
        /\ \A j \in Worker : worker'[j].task = worker[j].task /\ (worker'[j].pc # "rest" => worker[j].pc # "rest")
    <3>1. CASE Skip(k)
      BY <2>1, <3>1 DEF Skip, TypeInv, WorkersTyped, WorkerState
    <3>2. CASE Answered(k)
      <4> DEFINE v == [worker[k] EXCEPT !.left = Tail(@), !.success = @ + 1]
      <4>1. worker' = [worker EXCEPT ![k] = v]
        BY <3>2 DEF Answered, TypeInv, WorkersTyped
      <4>2. v \in WorkerState /\ v.task = worker[k].task /\ v.pc = worker[k].pc
        <5>1. worker[k] \in WorkerState /\ worker[k].success + 1 \in Nat
          BY DEF TypeInv, WorkersTyped, WorkerState
        <5> QED BY <2>1, <5>1 DEF WorkerState
      <4> HIDE DEF v
      <4> QED BY <4>1, <4>2 DEF TypeInv, WorkersTyped
    <3>3. CASE Refused(k)
      BY <2>1, <3>3 DEF Refused, TypeInv, WorkersTyped, WorkerState
    <3>4. CASE Failed(k)
      <4> DEFINE v == [worker[k] EXCEPT !.pc = "finish", !.ok = FALSE]
      <4>1. worker' = [worker EXCEPT ![k] = v]
        BY <3>4 DEF Failed, TypeInv, WorkersTyped
      <4>2. v \in WorkerState /\ v.task = worker[k].task /\ worker[k].pc # "rest"
        BY <1>5 DEF send, TypeInv, WorkersTyped, WorkerState
      <4> HIDE DEF v
      <4> QED BY <4>1, <4>2 DEF TypeInv, WorkersTyped
    <3> QED BY <1>5, <3>1, <3>2, <3>3, <3>4 DEF send
  <2>3. stored' \in [Follower -> SUBSET Write]
    BY <1>5, <2>1 DEF send, Skip, Answered, Refused, Failed, TypeInv, TypeOK
  <2>4. \A j \in Worker : worker'[j].pc \in {"rest", "send", "finish"}
    BY <2>2 DEF WorkerState
  <2>5. UNCHANGED <<queue, log, caller, args, clients, failing, ended>>
    BY <1>5 DEF send
  <2> QED BY <2>2, <2>3, <2>4, <2>5 DEF TypeInv, TypeOK, WorkersTyped, WorkerState
<1>6. ASSUME NEW k \in Worker, count(k) PROVE TypeInv'
  <2> DEFINE v == [worker[k] EXCEPT !.pc = "finish", !.ok = (worker[k].success >= MinReplicas)]
  <2>1. worker' = [worker EXCEPT ![k] = v]
    BY <1>6 DEF count, TypeInv, WorkersTyped
  <2>2. v \in WorkerState /\ v.task = worker[k].task /\ worker[k].pc # "rest"
    <3>1. worker[k] \in WorkerState /\ worker[k].pc # "rest"
      BY <1>6 DEF count, TypeInv, WorkersTyped
    <3>2. (worker[k].success >= MinReplicas) \in BOOLEAN
      OBVIOUS
    <3> QED BY <3>1, <3>2 DEF WorkerState
  <2> HIDE DEF v
  <2>3. worker' \in [Worker -> WorkerState] /\ \A j \in Worker : worker'[j].pc # "rest" => worker'[j].task.write \in Write
    BY <2>1, <2>2 DEF TypeInv, WorkersTyped
  <2>4. \A j \in Worker : worker'[j].pc \in {"rest", "send", "finish"}
    BY <2>3 DEF WorkerState
  <2> QED BY <1>6, <2>3, <2>4 DEF count, TypeInv, TypeOK, WorkersTyped
<1>7. ASSUME NEW k \in Worker, succeed(k) PROVE TypeInv'
  <2>1. worker[k].task.write \in Write
    BY <1>7 DEF succeed, TypeInv, WorkersTyped, WorkerState
  <2>2. log' \in Seq(LogEntry)
    BY <1>7, <1>q, MarkType DEF succeed, Statuses
  <2>3. WorkersTyped'
    BY <1>7, <1>r DEF succeed, TypeInv, WorkersTyped, WorkerState
  <2> QED BY <1>7, <2>1, <2>2, <2>3 DEF succeed, TypeInv, TypeOK, WorkersTyped, WorkerState, LogEntry
<1>8. ASSUME NEW k \in Worker, fail(k) PROVE TypeInv'
  <2>1. worker[k].task.write \in Write /\ worker[k].task.retry_count \in 0 .. MaxRetries
    BY <1>8 DEF fail, TypeInv, WorkersTyped, WorkerState
  <2>2. log' \in Seq(LogEntry)
    BY <1>8, <1>q, MarkType DEF fail, Statuses
  <2>3. queue' \in Seq(QueueTask)
    <3>1. worker[k].task.retry_count < MaxRetries
          => TaskOf(worker[k].task.write, worker[k].task.retry_count + 1) \in QueueTask
      BY <2>1 DEF TaskOf, QueueTask
    <3> QED BY <1>8, <1>q, <3>1 DEF fail
  <2>4. WorkersTyped'
    BY <1>8, <1>r DEF fail, TypeInv, WorkersTyped, WorkerState
  <2>5. ended' \in [Write -> {"none", "ok", "given_up"}]
    BY <1>8, <2>1 DEF fail, TypeInv, TypeOK
  <2> QED BY <1>8, <2>2, <2>3, <2>4, <2>5 DEF fail, TypeInv, TypeOK, WorkersTyped, WorkerState, LogEntry, QueueTask
<1>9. ASSUME NEW f \in Follower, handle_node_failure(f) PROVE TypeInv'
  <2>1. \A i \in DOMAIN log : log[i] \in LogEntry
    BY <1>q, LenProperties, ElementOfSeq
  <2>2. DOMAIN log' = DOMAIN log /\ log' = [i \in DOMAIN log |-> log'[i]]
    BY <1>9 DEF handle_node_failure
  <2>3. \A i \in DOMAIN log : log'[i] \in LogEntry
    BY <1>9, <2>1 DEF handle_node_failure, LogEntry, Statuses
  <2>4. log' \in Seq(LogEntry)
    BY <1>q, <2>2, <2>3, MappedLog
  <2> QED BY <1>9, <2>4 DEF handle_node_failure, TypeInv, TypeOK, WorkersTyped, WorkerState, LogEntry
<1>10. ASSUME NEW f \in Follower, unregister_node(f) PROVE TypeInv'
  BY <1>10 DEF unregister_node, TypeInv, TypeOK, WorkersTyped, WorkerState
<1>11. CASE UNCHANGED vars
  BY <1>11 DEF vars, TypeInv, TypeOK, WorkersTyped, WorkerState
<1> QED
  BY <1>1, <1>2, <1>3, <1>4, <1>5, <1>6, <1>7, <1>8, <1>9, <1>10, <1>11
     DEF Next, CallerStep, WorkerStep, Finished

\* The queue, the log, the calls, the workers and the followers keep their
\* types, whatever number of retries and node failures: in particular no task
\* is retried more than max_retries times.
THEOREM TypeCorrect == Spec => []TypeOK
<1>1. Spec => []TypeInv
  BY TypeInit, TypeNext, PTL DEF Spec
<1> QED BY <1>1, PTL DEF TypeInv

-----------------------------------------------------------------------------

(* The bound on the queue.  A retry leaves its worker as it enters the      *)
(* queue, so queued and running tasks together only grow in enqueue, which *)
(* compares the queue with its limit first.                                *)

BoundInv == TypeInv /\ QueueBound

Countable ==
    /\ IsFiniteSet(Busy) /\ Cardinality(Busy) \in Nat /\ Cardinality(Busy) <= Cardinality(Worker)
    /\ Cardinality(Worker) \in Nat
    /\ DOMAIN queue = 1 .. Len(queue) /\ Len(queue) \in Nat
    /\ IsFiniteSet(Untried) /\ Cardinality(Untried) \in Nat /\ Cardinality(Untried) <= Len(queue)

\* The sets that are counted are finite.
LEMMA BoundFinite == TypeInv => Countable
<1> SUFFICES ASSUME TypeInv PROVE Countable
  OBVIOUS
<1>1. queue \in Seq(QueueTask)
  BY DEF TypeInv, TypeOK, QueueTask
<1>2. DOMAIN queue = 1 .. Len(queue) /\ Len(queue) \in Nat
  BY <1>1, LenProperties
<1>3. IsFiniteSet(Worker) /\ Cardinality(Worker) \in Nat
  BY ReplicationAssumption, FS_CardinalityType
<1>4. IsFiniteSet(Busy) /\ Cardinality(Busy) <= Cardinality(Worker)
  BY <1>3, FS_Subset DEF Busy
<1>5. IsFiniteSet(1 .. Len(queue)) /\ Cardinality(1 .. Len(queue)) = Len(queue)
  <2>1. 1 \in Int /\ Len(queue) \in Int
    BY <1>2
  <2>2. /\ IsFiniteSet(1 .. Len(queue))
        /\ Cardinality(1 .. Len(queue)) = IF 1 > Len(queue) THEN 0 ELSE Len(queue) - 1 + 1
    BY <2>1, FS_Interval, Zenon
  <2> QED BY <1>2, <2>2
<1>6. IsFiniteSet(Untried) /\ Cardinality(Untried) <= Len(queue)
  BY <1>2, <1>5, FS_Subset DEF Untried
<1> QED BY <1>2, <1>3, <1>4, <1>6, FS_CardinalityType DEF Countable

\* The same after a step.
LEMMA BoundFiniteNext == TypeInv' => Countable'
  BY BoundFinite, PTL

\* Taking the first task off the queue moves the others up by one place, so
\* there are no more untried tasks than before.
LEMMA UntriedTail ==
    ASSUME TypeInv, queue # <<>>, queue' = Tail(queue)
    PROVE  Cardinality(Untried') <= Cardinality(Untried)
<1>1. queue \in Seq(QueueTask)
  BY DEF TypeInv, TypeOK, QueueTask
<1>2. /\ Tail(queue) \in Seq(QueueTask)
      /\ Len(Tail(queue)) = Len(queue) - 1
      /\ \A i \in 1 .. Len(Tail(queue)) : Tail(queue)[i] = queue[i + 1]
  BY <1>1, HeadTailProperties
<1>3. DOMAIN queue' = 1 .. Len(Tail(queue)) /\ Len(Tail(queue)) \in Nat
  BY <1>2, LenProperties
<1> DEFINE f == [i \in Untried' |-> i + 1]
<1>4. ASSUME NEW i \in Untried' PROVE f[i] \in Untried
  BY <1>2, <1>3, BoundFinite DEF Untried, Countable
<1>5. \A i, j \in Untried' : f[i] = f[j] => i = j
  BY <1>3 DEF Untried
<1>6. f \in [Untried' -> Untried]
  BY <1>4
<1>7. f \in Injection(Untried', Untried)
  BY <1>5, <1>6 DEF Injection, IsInjective
<1> HIDE DEF f
<1> QED BY <1>7, BoundFinite, FS_Injection DEF Countable

\* The queue is empty at the start.
LEMMA BoundInit == Init => BoundInv
<1> SUFFICES ASSUME Init PROVE QueueBound
  BY TypeInit DEF BoundInv
<1>1. TypeInv
  BY TypeInit
<1>2. Len(queue) = 0
  BY EmptySeq DEF Init
<1> QED BY <1>1, <1>2, BoundFinite, ReplicationAssumption DEF QueueBound, Countable

\* A step that leaves the queue alone and makes no worker busy.
LEMMA BoundQuiet ==
    ASSUME BoundInv, TypeInv', queue' = queue, Busy' \subseteq Busy
    PROVE  QueueBound'
<1>1. Untried' = Untried
  BY DEF Untried
<1>2. Cardinality(Busy') <= Cardinality(Busy) /\ Cardinality(Busy') \in Nat
  BY BoundFinite, FS_Subset, FS_CardinalityType DEF BoundInv, Countable
<1> QED BY <1>1, <1>2, BoundFinite, ReplicationAssumption DEF BoundInv, QueueBound, Countable

\* Every step keeps the bound.
LEMMA BoundNext == BoundInv /\ [Next]_vars => BoundInv'
<1> SUFFICES ASSUME BoundInv, [Next]_vars, TypeInv' PROVE QueueBound'
  BY TypeNext DEF BoundInv
<1> USE ReplicationAssumption
<1>t. TypeInv /\ QueueBound
  BY DEF BoundInv
<1>f. /\ Len(queue) \in Nat /\ Cardinality(Busy) \in Nat /\ Cardinality(Worker) \in Nat
      /\ Cardinality(Busy) <= Cardinality(Worker) /\ Cardinality(Untried) \in Nat
      /\ IsFiniteSet(Busy)
  BY <1>t, BoundFinite DEF Countable
<1>g. /\ Len(queue') \in Nat /\ Cardinality(Untried') \in Nat /\ Cardinality(Untried') <= Len(queue')
      /\ Cardinality(Busy') <= Cardinality(Worker) /\ Cardinality(Busy') \in Nat
  BY BoundFiniteNext DEF Countable
<1>1. ASSUME NEW w \in Write, enqueue(w) PROVE QueueBound'
  <2>1. CASE Len(queue) < QueueSize
    <3>1. queue' = Append(queue, TaskOf(w, 0)) /\ Busy' = Busy
      BY <1>1, <2>1 DEF enqueue, Busy
    <3>2. Len(queue') = Len(queue) + 1
      BY <1>t, <3>1 DEF TypeInv, TypeOK
    <3> QED BY <1>f, <1>g, <2>1, <3>1, <3>2 DEF QueueBound
  <2>2. CASE ~(Len(queue) < QueueSize)
    BY <1>1, <2>2, BoundQuiet DEF enqueue, Busy
  <2> QED BY <2>1, <2>2
<1>2. ASSUME NEW k \in Worker, pop(k) PROVE QueueBound'
  <2>1. queue # <<>> /\ queue' = Tail(queue) /\ Len(queue') = Len(queue) - 1
    BY <1>2, <1>t, Parts DEF pop, TypeInv, TypeOK
  <2>2. k \notin Busy /\ Busy' = Busy \cup {k}
    BY <1>2, <1>t DEF pop, Busy, TypeInv, WorkersTyped
  <2>3. Cardinality(Busy') = Cardinality(Busy) + 1
    BY <1>f, <2>2, FS_AddElement
  <2>4. Cardinality(Untried') <= Cardinality(Untried)
    BY <1>t, <2>1, UntriedTail
  <2> QED BY <1>t, <1>f, <1>g, <2>1, <2>3, <2>4 DEF QueueBound
<1>3. ASSUME NEW k \in Worker, send(k) \/ count(k) PROVE QueueBound'
  <2>1. queue' = queue /\ worker[k].pc = "send" /\ \A j \in Worker : j # k => worker'[j] = worker[j]
    BY <1>3, <1>t DEF send, count, Skip, Answered, Refused, Failed, TypeInv, WorkersTyped
  <2>2. Busy' \subseteq Busy
    BY <2>1 DEF Busy
  <2> QED BY <2>1, <2>2, BoundQuiet
<1>4. ASSUME NEW k \in Worker, succeed(k) PROVE QueueBound'
  <2>1. queue' = queue /\ worker[k].pc = "finish" /\ \A j \in Worker : j # k => worker'[j] = worker[j]
    BY <1>4, <1>t DEF succeed, TypeInv, WorkersTyped
  <2>2. Busy' \subseteq Busy
    BY <2>1 DEF Busy
  <2> QED BY <2>1, <2>2, BoundQuiet
<1>5. ASSUME NEW k \in Worker, fail(k) PROVE QueueBound'
  <2>1. k \in Busy /\ Busy' = Busy \ {k}
    BY <1>5, <1>t DEF fail, Busy, Resting, TypeInv, WorkersTyped
  <2>2. Cardinality(Busy') = Cardinality(Busy) - 1
    BY <1>f, <2>1, FS_RemoveElement
  <2>3. CASE worker[k].task.retry_count < MaxRetries
    <3> DEFINE task == TaskOf(worker[k].task.write, worker[k].task.retry_count + 1)
    <3>1. queue' = Append(queue, task)
      BY <1>5, <2>3 DEF fail
    <3>2. queue \in Seq(QueueTask) /\ task \in QueueTask /\ task.retry_count # 0
      BY <1>t, <1>5, <2>3 DEF fail, TypeInv, TypeOK, WorkersTyped, WorkerState, QueueTask, TaskOf
    <3> HIDE DEF task
    <3>3. Len(queue') = Len(queue) + 1 /\ DOMAIN queue' = 1 .. Len(queue) + 1 /\ DOMAIN queue = 1 .. Len(queue)
      BY <3>1, <3>2, LenProperties
    <3>4. queue'[Len(queue) + 1] = task /\ \A i \in 1 .. Len(queue) : queue'[i] = queue[i]
      BY <3>1, <3>2
    <3>5. Untried' = Untried
      BY <1>f, <3>2, <3>3, <3>4 DEF Untried
    <3> QED BY <1>t, <1>f, <1>g, <2>2, <3>3, <3>5 DEF QueueBound
  <2>4. CASE ~(worker[k].task.retry_count < MaxRetries)
    BY <1>5, <2>1, <2>4, BoundQuiet DEF fail
  <2> QED BY <2>3, <2>4
<1>6. CASE UNCHANGED <<queue, worker>>
  BY <1>6, BoundQuiet DEF Busy
<1> QED
  BY <1>1, <1>2, <1>3, <1>4, <1>5, <1>6 DEF Next, CallerStep, WorkerStep, Finished, replicate,
     log_replication, handle_node_failure, unregister_node, vars

\* The tasks that were never tried stay within replication_queue_size, and
\* queued and running tasks together exceed it by one per worker at most, for
\* any number of workers, retries and calls.
THEOREM QueueBoundHolds == Spec => []QueueBound
<1>1. Spec => []BoundInv
  BY BoundInit, BoundNext, PTL DEF Spec
<1> QED BY <1>1, PTL DEF BoundInv

-----------------------------------------------------------------------------

(* Successes are backed by copies.  A worker counts answers; CountedStored *)
(* says that it counts different nodes, that each has stored the write and *)
(* that none of them is still on its list.                                 *)

OkInv == TypeInv /\ CountedStored /\ OkIsReplicated

\* The rest of a list without repetitions.
LEMMA DistinctTail ==
    ASSUME NEW q \in Seq(Follower), q # <<>>, Distinct(q)
    PROVE  /\ Distinct(Tail(q))
           /\ \A i \in DOMAIN Tail(q) : Tail(q)[i] # Head(q)
           /\ \A i \in DOMAIN Tail(q) : \E j \in DOMAIN q : Tail(q)[i] = q[j]
           /\ \E j \in DOMAIN q : Head(q) = q[j]
<1>1. /\ Tail(q) \in Seq(Follower) /\ Len(Tail(q)) = Len(q) - 1 /\ Len(q) \in Nat \ {0}
      /\ \A i \in 1 .. Len(Tail(q)) : Tail(q)[i] = q[i + 1]
  BY HeadTailProperties, EmptySeq
<1>2. DOMAIN Tail(q) = 1 .. Len(Tail(q)) /\ DOMAIN q = 1 .. Len(q)
  BY <1>1, LenProperties
<1>3. Head(q) = q[1] /\ 1 \in DOMAIN q
  BY <1>1, <1>2
<1>4. \A i \in DOMAIN Tail(q) : i + 1 \in DOMAIN q /\ i + 1 # 1 /\ Tail(q)[i] = q[i + 1]
  BY <1>1, <1>2
<1>5. Distinct(Tail(q))
  BY <1>1, <1>2, <1>4 DEF Distinct
<1> QED BY <1>3, <1>4, <1>5 DEF Distinct

\* The nodes that have stored a write can be counted.
LEMMA StoredFinite ==
    ASSUME NEW w, NEW l
    PROVE  /\ IsFiniteSet(StoredOn(w)) /\ Cardinality(StoredOn(w)) \in Nat
           /\ IsFiniteSet(Passed(w, l)) /\ Cardinality(Passed(w, l)) \in Nat
           /\ Cardinality(Passed(w, l)) <= Cardinality(StoredOn(w))
<1>1. StoredOn(w) \in SUBSET Follower /\ Passed(w, l) \in SUBSET StoredOn(w)
  BY DEF StoredOn, Passed
<1>2. IsFiniteSet(StoredOn(w)) /\ Cardinality(StoredOn(w)) \in Nat
  BY <1>1, ReplicationAssumption, FS_Subset, FS_CardinalityType
<1> QED BY <1>1, <1>2, FS_Subset, FS_CardinalityType

\* What StoredOn and Passed are in a state where stored has the value s.
Holding(s, w) == {f \in Follower : w \in s[f]}
HoldingPast(s, w, l) == {f \in Holding(s, w) : \A i \in DOMAIN l : l[i] # f}

\* Followers keep what they have stored, so no count goes down.
LEMMA StoredGrows ==
    ASSUME NEW s, NEW t, \A f \in Follower : s[f] \subseteq t[f], NEW w, NEW l
    PROVE  /\ Cardinality(Holding(s, w)) \in Nat /\ Cardinality(Holding(t, w)) \in Nat
           /\ Cardinality(HoldingPast(s, w, l)) \in Nat /\ Cardinality(HoldingPast(t, w, l)) \in Nat
           /\ Cardinality(Holding(s, w)) <= Cardinality(Holding(t, w))
           /\ Cardinality(HoldingPast(s, w, l)) <= Cardinality(HoldingPast(t, w, l))
<1>1. /\ Holding(t, w) \in SUBSET Follower /\ Holding(s, w) \in SUBSET Holding(t, w)
      /\ HoldingPast(t, w, l) \in SUBSET Holding(t, w)
      /\ HoldingPast(s, w, l) \in SUBSET HoldingPast(t, w, l)
  BY DEF Holding, HoldingPast
<1>2. IsFiniteSet(Holding(t, w))
  BY <1>1, ReplicationAssumption, FS_Subset
<1>3. /\ IsFiniteSet(Holding(s, w)) /\ Cardinality(Holding(s, w)) <= Cardinality(Holding(t, w))
      /\ IsFiniteSet(HoldingPast(t, w, l))
  BY <1>1, <1>2, FS_Subset
<1>4. IsFiniteSet(HoldingPast(s, w, l)) /\ Cardinality(HoldingPast(s, w, l)) <= Cardinality(HoldingPast(t, w, l))
  BY <1>1, <1>3, FS_Subset
<1> QED BY <1>2, <1>3, <1>4, FS_CardinalityType

\* At the start nothing has ended and no worker is busy.
LEMMA OkInit == Init => OkInv
<1> SUFFICES ASSUME Init PROVE CountedStored /\ OkIsReplicated
  BY TypeInit DEF OkInv
<1> QED BY DEF Init, CountedStored, OkIsReplicated, Resting, NoArgs, Distinct

\* What CountedStored says of one worker.
Good(k) ==
    /\ worker[k].pc = "send" =>
          /\ Distinct(worker[k].left)
          /\ worker[k].success <= Cardinality(Passed(worker[k].task.write, worker[k].left))
    /\ worker[k].pc = "finish" /\ worker[k].ok => Cardinality(StoredOn(worker[k].task.write)) >= MinReplicas

\* A worker that does not move stays good while followers store more.
LEMMA GoodStays ==
    ASSUME TypeInv, NEW k \in Worker, Good(k), worker'[k] = worker[k],
           \A f \in Follower : stored[f] \subseteq stored'[f]
    PROVE  Good(k)'
<1> SUFFICES ASSUME NEW w, NEW l, w = worker[k].task.write, l = worker[k].left
             PROVE  Good(k)'
  OBVIOUS
<1>1. worker[k].success \in Nat /\ MinReplicas \in Nat
  BY ReplicationAssumption DEF TypeInv, WorkersTyped, WorkerState
<1>2. /\ Cardinality(Holding(stored, w)) \in Nat /\ Cardinality(Holding(stored', w)) \in Nat
      /\ Cardinality(HoldingPast(stored, w, l)) \in Nat /\ Cardinality(HoldingPast(stored', w, l)) \in Nat
      /\ Cardinality(Holding(stored, w)) <= Cardinality(Holding(stored', w))
      /\ Cardinality(HoldingPast(stored, w, l)) <= Cardinality(HoldingPast(stored', w, l))
  BY StoredGrows
<1>3. /\ StoredOn(worker[k].task.write) = Holding(stored, w)
      /\ StoredOn(worker[k].task.write)' = Holding(stored', w)
      /\ Passed(worker[k].task.write, worker[k].left) = HoldingPast(stored, w, l)
      /\ Passed(worker[k].task.write, worker[k].left)' = HoldingPast(stored', w, l)
  BY DEF StoredOn, Passed, Holding, HoldingPast
<1> QED BY <1>1, <1>2, <1>3 DEF Good

\* One answer of a follower: the worker passes it, and counts it only if it
\* has stored the write.
LEMMA GoodSend ==
    ASSUME OkInv, NEW k \in Worker, send(k)
    PROVE  Good(k)' /\ (\A f \in Follower : stored[f] \subseteq stored'[f])
<1> SUFFICES ASSUME NEW w, NEW l, NEW f, w = worker[k].task.write, l = worker[k].left, f = Head(l)
             PROVE  Good(k)' /\ (\A g \in Follower : stored[g] \subseteq stored'[g])
  OBVIOUS
<1>1. /\ worker \in [Worker -> WorkerState] /\ worker[k] \in WorkerState /\ stored \in [Follower -> SUBSET Write]
      /\ worker[k].pc = "send" /\ l # <<>> /\ l \in Seq(Follower) /\ f \in Follower /\ Tail(l) \in Seq(Follower)
      /\ worker[k].success \in Nat /\ w \in Write
  <2>1. worker \in [Worker -> WorkerState] /\ worker[k] \in WorkerState /\ stored \in [Follower -> SUBSET Write]
    BY DEF OkInv, TypeInv, TypeOK, WorkersTyped
  <2>2. worker[k].pc = "send" /\ l # <<>> /\ l \in Seq(Follower) /\ worker[k].success \in Nat /\ w \in Write
    BY <2>1 DEF send, OkInv, TypeInv, WorkersTyped, WorkerState
  <2> QED BY <2>1, <2>2, Parts
<1>2. Distinct(l) /\ worker[k].success <= Cardinality(HoldingPast(stored, w, l))
  BY <1>1 DEF OkInv, CountedStored, Passed, StoredOn, Holding, HoldingPast
<1>3. /\ Distinct(Tail(l)) /\ \A i \in DOMAIN Tail(l) : Tail(l)[i] # f
      /\ \A i \in DOMAIN Tail(l) : \E j \in DOMAIN l : Tail(l)[i] = l[j]
      /\ \E j \in DOMAIN l : f = l[j]
  BY <1>1, <1>2, DistinctTail
<1>4. \A g \in Follower : stored[g] \subseteq stored'[g]
  BY <1>1 DEF send, Skip, Answered, Refused, Failed
<1>5. /\ HoldingPast(stored', w, Tail(l)) \in SUBSET Follower
      /\ IsFiniteSet(HoldingPast(stored', w, Tail(l)))
      /\ Cardinality(HoldingPast(stored', w, Tail(l))) \in Nat
      /\ IsFiniteSet(HoldingPast(stored, w, l)) /\ Cardinality(HoldingPast(stored, w, l)) \in Nat
  <2>1. HoldingPast(stored', w, Tail(l)) \in SUBSET Follower /\ HoldingPast(stored, w, l) \in SUBSET Follower
    BY DEF Holding, HoldingPast
  <2> QED BY <2>1, ReplicationAssumption, FS_Subset, FS_CardinalityType
<1>6. HoldingPast(stored, w, l) \in SUBSET HoldingPast(stored', w, Tail(l))
  BY <1>3, <1>4 DEF Holding, HoldingPast
<1>7. Cardinality(HoldingPast(stored, w, l)) <= Cardinality(HoldingPast(stored', w, Tail(l)))
  BY <1>5, <1>6, FS_Subset
<1>8. ASSUME worker'[k].pc = "send", worker'[k].left = Tail(l), worker'[k].task = worker[k].task,
             worker'[k].success <= Cardinality(HoldingPast(stored', w, Tail(l)))
      PROVE  Good(k)'
  <2>1. Passed(worker[k].task.write, worker[k].left)' = HoldingPast(stored', w, Tail(l))
    BY <1>8 DEF Passed, StoredOn, Holding, HoldingPast
  <2> QED BY <1>3, <1>8, <2>1 DEF Good
<1>9. CASE Skip(k) \/ Refused(k)
  <2>1. /\ worker'[k].pc = "send" /\ worker'[k].left = Tail(l) /\ worker'[k].task = worker[k].task
        /\ worker'[k].success = worker[k].success
    BY <1>1, <1>9 DEF Skip, Refused, WorkerState
  <2> QED BY <1>1, <1>2, <1>4, <1>5, <1>7, <1>8, <2>1
<1>10. CASE Answered(k)
  <2>1. /\ worker'[k].pc = "send" /\ worker'[k].left = Tail(l) /\ worker'[k].task = worker[k].task
        /\ worker'[k].success = worker[k].success + 1
    BY <1>1, <1>10 DEF Answered, WorkerState
  <2>2. f \in HoldingPast(stored', w, Tail(l)) /\ f \notin HoldingPast(stored, w, l)
    BY <1>1, <1>3, <1>10 DEF Answered, Holding, HoldingPast
  <2>3. HoldingPast(stored, w, l) \cup {f} \in SUBSET HoldingPast(stored', w, Tail(l))
    BY <1>6, <2>2
  <2>4. Cardinality(HoldingPast(stored, w, l) \cup {f}) = Cardinality(HoldingPast(stored, w, l)) + 1
    BY <1>5, <2>2, FS_AddElement
  <2>5. Cardinality(HoldingPast(stored, w, l) \cup {f}) <= Cardinality(HoldingPast(stored', w, Tail(l)))
    BY <1>5, <2>3, FS_Subset
  <2> QED BY <1>1, <1>2, <1>4, <1>5, <1>8, <2>1, <2>4, <2>5
<1>11. CASE Failed(k)
  <2>1. worker'[k].pc = "finish" /\ ~worker'[k].ok
    BY <1>1, <1>11 DEF Failed, WorkerState
  <2> QED BY <1>4, <2>1 DEF Good
<1> QED BY <1>9, <1>10, <1>11 DEF send

\* Every step keeps the counts backed by copies.
LEMMA OkNext == OkInv /\ [Next]_vars => OkInv'
<1> SUFFICES ASSUME OkInv, [Next]_vars, TypeInv' PROVE CountedStored' /\ OkIsReplicated'
  BY TypeNext DEF OkInv
<1>t. /\ TypeInv /\ CountedStored /\ OkIsReplicated /\ \A k \in Worker : Good(k)
      /\ worker \in [Worker -> WorkerState] /\ args \in [Write -> [shard : Shard \cup {"none"}, targets : Seq(Follower)]]
  BY DEF OkInv, CountedStored, Good, TypeInv, WorkersTyped
<1>c. ASSUME \A w \in Write : Distinct(args'[w].targets), \A k \in Worker : Good(k)' PROVE CountedStored'
  BY <1>c DEF CountedStored, Good
<1>o. ASSUME ended' = ended, \A f \in Follower : stored[f] \subseteq stored'[f] PROVE OkIsReplicated'
  <2> SUFFICES ASSUME NEW w \in Write, ended'[w] = "ok" PROVE Cardinality(StoredOn(w)') >= MinReplicas
    BY DEF OkIsReplicated
  <2>1. Cardinality(Holding(stored, w)) >= MinReplicas
    BY <1>t, <1>o DEF OkIsReplicated, StoredOn, Holding
  <2>2. /\ Cardinality(Holding(stored, w)) \in Nat /\ Cardinality(Holding(stored', w)) \in Nat
        /\ Cardinality(Holding(stored, w)) <= Cardinality(Holding(stored', w))
    BY <1>o, StoredGrows
  <2>3. StoredOn(w)' = Holding(stored', w)
    BY DEF StoredOn, Holding
  <2> QED BY <2>1, <2>2, <2>3, ReplicationAssumption
<1>1. ASSUME NEW c \in Calls, replicate(c) PROVE CountedStored' /\ OkIsReplicated'
  <2>1. Distinct(c.targets) /\ c.write \in Write
    BY ReplicationAssumption DEF Distinct
  <2>2. \A w \in Write : Distinct(args'[w].targets)
    BY <1>1, <1>t, <2>1 DEF replicate, CountedStored
  <2>3. \A k \in Worker : Good(k)'
    BY <1>1, <1>t, GoodStays DEF replicate
  <2> QED BY <1>1, <1>c, <1>o, <2>2, <2>3 DEF replicate
<1>2. ASSUME NEW k \in Worker, pop(k) PROVE CountedStored' /\ OkIsReplicated'
  <2>1. Head(queue).write \in Write
    <3>1. queue \in Seq(QueueTask) /\ queue # <<>>
      BY <1>2, <1>t DEF pop, TypeInv, TypeOK, QueueTask
    <3>2. Head(queue) \in QueueTask
      BY <3>1, Parts
    <3> QED BY <3>2 DEF QueueTask
  <2>2. /\ worker'[k].pc = "send" /\ worker'[k].left = args[Head(queue).write].targets /\ worker'[k].success = 0
    BY <1>2, <1>t DEF pop
  <2>3. Good(k)'
    <3>1. Distinct(worker'[k].left)
      BY <1>t, <2>1, <2>2 DEF CountedStored
    <3>2. ASSUME NEW w, NEW l, w = worker'[k].task.write, l = worker'[k].left
          PROVE  0 <= Cardinality(Passed(worker[k].task.write, worker[k].left)')
      <4>1. Passed(worker[k].task.write, worker[k].left)' = HoldingPast(stored', w, l)
        BY <3>2 DEF Passed, StoredOn, Holding, HoldingPast
      <4>2. Cardinality(HoldingPast(stored', w, l)) \in Nat
        BY StoredGrows
      <4> QED BY <4>1, <4>2
    <3> QED BY <2>2, <3>1, <3>2 DEF Good
  <2>4. \A j \in Worker \ {k} : Good(j)'
    BY <1>2, <1>t, GoodStays DEF pop
  <2> QED BY <1>2, <1>c, <1>o, <1>t, <2>3, <2>4 DEF pop, CountedStored
<1>3. ASSUME NEW k \in Worker, send(k) PROVE CountedStored' /\ OkIsReplicated'
  <2>1. Good(k)' /\ \A f \in Follower : stored[f] \subseteq stored'[f]
    BY <1>3, GoodSend
  <2>2. \A j \in Worker \ {k} : worker'[j] = worker[j]
    BY <1>3, <1>t DEF send, Skip, Answered, Refused, Failed
  <2>3. \A j \in Worker \ {k} : Good(j)'
    BY <1>t, <2>1, <2>2, GoodStays
  <2> QED BY <1>3, <1>c, <1>o, <1>t, <2>1, <2>3 DEF send, CountedStored
<1>4. ASSUME NEW k \in Worker, count(k) PROVE CountedStored' /\ OkIsReplicated'
  <2>1. /\ worker'[k].pc = "finish" /\ worker'[k].task = worker[k].task
        /\ worker'[k].ok => worker[k].success >= MinReplicas
    BY <1>4, <1>t DEF count, WorkerState
  <2>2. worker[k].success \in Nat /\ worker[k].success <= Cardinality(StoredOn(worker[k].task.write))
    <3>1. /\ Cardinality(Passed(worker[k].task.write, worker[k].left)) \in Nat
          /\ Cardinality(StoredOn(worker[k].task.write)) \in Nat
          /\ Cardinality(Passed(worker[k].task.write, worker[k].left)) <= Cardinality(StoredOn(worker[k].task.write))
      BY StoredFinite
    <3>2. worker[k].success \in Nat
      BY <1>t DEF WorkerState
    <3> QED BY <1>4, <1>t, <3>1, <3>2 DEF count, Good
  <2>3. StoredOn(worker[k].task.write)' = StoredOn(worker[k].task.write)
    BY <1>4, <2>1 DEF count, StoredOn
  <2>4. Cardinality(StoredOn(worker[k].task.write)) \in Nat
    BY StoredFinite
  <2>5. Good(k)'
    <3>1. worker'[k].ok => Cardinality(StoredOn(worker[k].task.write)) >= MinReplicas
      BY <2>1, <2>2, <2>4, ReplicationAssumption
    <3> QED BY <2>1, <2>3, <3>1 DEF Good
  <2>6. \A j \in Worker \ {k} : Good(j)'
    BY <1>4, <1>t, GoodStays DEF count
  <2> QED BY <1>4, <1>c, <1>o, <1>t, <2>5, <2>6 DEF count, CountedStored
<1>5. ASSUME NEW k \in Worker, succeed(k) PROVE CountedStored' /\ OkIsReplicated'
  <2>1. Good(k)'
    BY <1>5, <1>t DEF succeed, Good, Resting
  <2>2. \A j \in Worker \ {k} : Good(j)'
    BY <1>5, <1>t, GoodStays DEF succeed
  <2>3. Cardinality(StoredOn(worker[k].task.write)) >= MinReplicas
    BY <1>5, <1>t DEF succeed, Good
  <2>4. OkIsReplicated'
    <3> SUFFICES ASSUME NEW v, v = worker[k].task.write PROVE OkIsReplicated'
      OBVIOUS
    <3>1. /\ \A w \in Write : w # v => ended'[w] = ended[w]
          /\ \A w : StoredOn(w)' = StoredOn(w)
      BY <1>5, <1>t DEF succeed, StoredOn, TypeInv, TypeOK
    <3>2. \A w \in Write : ended'[w] = "ok" => Cardinality(StoredOn(w)) >= MinReplicas
      BY <1>t, <2>3, <3>1 DEF OkIsReplicated
    <3> QED BY <1>5, <3>2 DEF succeed, OkIsReplicated, StoredOn
  <2> QED BY <1>5, <1>c, <1>t, <2>1, <2>2, <2>4 DEF succeed, CountedStored
<1>6. ASSUME NEW k \in Worker, fail(k) PROVE CountedStored' /\ OkIsReplicated'
  <2>1. Good(k)'
    BY <1>6, <1>t DEF fail, Good, Resting
  <2>2. \A j \in Worker \ {k} : Good(j)'
    BY <1>6, <1>t, GoodStays DEF fail
  <2>3. OkIsReplicated'
    BY <1>6, <1>t DEF fail, OkIsReplicated, StoredOn, TypeInv, TypeOK
  <2> QED BY <1>6, <1>c, <1>t, <2>1, <2>2, <2>3 DEF fail, CountedStored
<1>7. ASSUME UNCHANGED <<args, worker, stored, ended>> PROVE CountedStored' /\ OkIsReplicated'
  BY <1>7, <1>t DEF CountedStored, OkIsReplicated, StoredOn, Passed
<1> QED
  BY <1>1, <1>2, <1>3, <1>4, <1>5, <1>6, <1>7 DEF Next, CallerStep, WorkerStep, Finished, enqueue,
     log_replication, handle_node_failure, unregister_node, vars

\* A replication that a worker ends as a success is on at least
\* min_write_replicas different nodes, whatever other workers, retries,
\* refusals, timeouts and node failures came between its answers.
THEOREM OkIsReplicatedHolds == Spec => []OkIsReplicated
<1>1. Spec => []OkInv
  BY OkInit, OkNext, PTL DEF Spec
<1> QED BY <1>1, PTL DEF OkInv

-----------------------------------------------------------------------------

(* A task is in one place.  An accepted write that has not ended is at one  *)
(* place of the queue or with one worker; no two places hold one write.     *)

Live(w) == Accepted(w) /\ ended[w] = "none"
Queued(w) == \E i \in DOMAIN queue : queue[i].write = w
Held(w) == \E k \in Worker : worker[k].pc # "rest" /\ worker[k].task.write = w

PlacesApart ==
    /\ \A i, j \in DOMAIN queue : queue[i].write = queue[j].write => i = j
    /\ \A k, l \in Worker :
          worker[k].pc # "rest" /\ worker[l].pc # "rest" /\ worker[k].task.write = worker[l].task.write
          => k = l
    /\ \A i \in DOMAIN queue, k \in Worker :
          worker[k].pc # "rest" => queue[i].write # worker[k].task.write

InFlight == \A w \in Write : Live(w) <=> Queued(w) \/ Held(w)

LoggedCalls ==
    /\ \A w \in Write : ended[w] # "none" => caller[w] = "ok"
    /\ \A i \in DOMAIN log : caller[log[i].write] = "ok"

PendingLive ==
    \A i \in DOMAIN log : log[i].status = "Pending" =>
        \E w \in Write : args[w].shard = args[log[i].write].shard /\ Live(w)

TaskInv == TypeInv /\ PlacesApart /\ InFlight /\ LoggedCalls /\ PendingLive

\* The places of a queue with one more task.
LEMMA QueueAppended ==
    ASSUME NEW q \in Seq(QueueTask), NEW t \in QueueTask, NEW r, r = Append(q, t)
    PROVE  /\ Len(q) \in Nat /\ DOMAIN q = 1 .. Len(q) /\ DOMAIN r = 1 .. Len(q) + 1
           /\ r[Len(q) + 1] = t
           /\ \A i \in DOMAIN q : r[i] = q[i] /\ i \in DOMAIN r /\ i # Len(q) + 1
           /\ \A i \in DOMAIN r : i \in DOMAIN q \/ i = Len(q) + 1
<1>1. Len(q) \in Nat /\ DOMAIN q = 1 .. Len(q)
  BY LenProperties
<1>2. r \in Seq(QueueTask) /\ Len(r) = Len(q) + 1 /\ r[Len(q) + 1] = t /\ \A i \in 1 .. Len(q) : r[i] = q[i]
  BY AppendProperties
<1>3. DOMAIN r = 1 .. Len(q) + 1
  BY <1>2, LenProperties
<1> QED BY <1>1, <1>2, <1>3

\* The places of a queue without its first task.
LEMMA QueuePopped ==
    ASSUME NEW q \in Seq(QueueTask), q # <<>>, NEW r, r = Tail(q)
    PROVE  /\ Head(q) = q[1] /\ 1 \in DOMAIN q
           /\ DOMAIN q \subseteq Nat /\ DOMAIN r \subseteq Nat
           /\ \A i \in DOMAIN r : i + 1 \in DOMAIN q /\ r[i] = q[i + 1] /\ i + 1 # 1
           /\ \A i \in DOMAIN q : i = 1 \/ (i - 1 \in DOMAIN r /\ r[i - 1] = q[i])
<1>1. /\ Tail(q) \in Seq(QueueTask) /\ Len(Tail(q)) = Len(q) - 1 /\ Len(q) \in Nat \ {0}
      /\ \A i \in 1 .. Len(Tail(q)) : Tail(q)[i] = q[i + 1]
  BY HeadTailProperties, EmptySeq
<1>2. DOMAIN r = 1 .. Len(q) - 1 /\ DOMAIN q = 1 .. Len(q)
  BY <1>1, LenProperties
<1>3. \A i \in DOMAIN r : i + 1 \in DOMAIN q /\ r[i] = q[i + 1] /\ i + 1 # 1
  BY <1>1, <1>2
<1>4. ASSUME NEW i \in DOMAIN q, i # 1 PROVE i - 1 \in DOMAIN r /\ r[i - 1] = q[i]
  <2>1. i - 1 \in DOMAIN r /\ (i - 1) + 1 = i
    BY <1>1, <1>2, <1>4
  <2> QED BY <1>3, <2>1
<1> QED BY <1>1, <1>2, <1>3, <1>4

\* A write of the queue or of a busy worker is a write.
LEMMA PlacedWrites ==
    ASSUME TypeInv
    PROVE  /\ \A i \in DOMAIN queue : queue[i].write \in Write
           /\ \A k \in Worker : worker[k].pc # "rest" => worker[k].task.write \in Write
           /\ \A i \in DOMAIN log : log[i].write \in Write
           /\ queue \in Seq(QueueTask) /\ log \in Seq(LogEntry)
           /\ worker \in [Worker -> WorkerState]
           /\ caller \in [Write -> {"none", "locked", "logging", "ok", "full"}]
           /\ ended \in [Write -> {"none", "ok", "given_up"}]
           /\ args \in [Write -> [shard : Shard \cup {"none"}, targets : Seq(Follower)]]
<1>1. queue \in Seq(QueueTask) /\ log \in Seq(LogEntry)
  BY DEF TypeInv, TypeOK, QueueTask, LogEntry
<1>2. (\A i \in DOMAIN queue : queue[i] \in QueueTask) /\ (\A i \in DOMAIN log : log[i] \in LogEntry)
  BY <1>1, LenProperties, ElementOfSeq
<1> QED BY <1>1, <1>2 DEF QueueTask, LogEntry, TypeInv, TypeOK, WorkersTyped

\* Nothing is accepted at the start.
LEMMA TaskInit == Init => TaskInv
<1> SUFFICES ASSUME Init PROVE PlacesApart /\ InFlight /\ LoggedCalls /\ PendingLive
  BY TypeInit DEF TaskInv
<1>1. DOMAIN queue = {} /\ DOMAIN log = {}
  BY DEF Init
<1>2. \A k \in Worker : worker[k].pc = "rest"
  BY DEF Init, Resting
<1> QED BY <1>1, <1>2 DEF Init, PlacesApart, InFlight, LoggedCalls, PendingLive, Live, Queued, Held, Accepted

\* A step that leaves tasks where they are and makes no write live or dead.
LEMMA TaskQuiet ==
    ASSUME TaskInv, queue' = queue,
           \A k \in Worker : worker'[k].pc # "rest" <=> worker[k].pc # "rest",
           \A k \in Worker : worker[k].pc # "rest" => worker'[k].task = worker[k].task,
           \A w \in Write : Live(w)' <=> Live(w)
    PROVE  PlacesApart' /\ InFlight'
  BY DEF TaskInv, PlacesApart, InFlight, Queued, Held

\* A call that begins has no task yet.
LEMMA TaskReplicate ==
    ASSUME TaskInv, NEW c \in Calls, replicate(c)
    PROVE  PlacesApart' /\ InFlight' /\ LoggedCalls' /\ PendingLive'
<1>t. TypeInv /\ PlacesApart /\ InFlight /\ LoggedCalls /\ PendingLive
  BY DEF TaskInv
<1>p. /\ \A i \in DOMAIN log : log[i].write \in Write
      /\ caller \in [Write -> {"none", "locked", "logging", "ok", "full"}]
      /\ args \in [Write -> [shard : Shard \cup {"none"}, targets : Seq(Follower)]]
  BY <1>t, PlacedWrites
<1>1. c.write \in Write /\ caller[c.write] = "none"
  BY ReplicationAssumption DEF replicate
<1>2. /\ UNCHANGED <<queue, log, worker, ended>> /\ caller'[c.write] = "locked"
      /\ \A w \in Write : w # c.write => caller'[w] = caller[w] /\ args'[w] = args[w]
  BY <1>1, <1>p DEF replicate
<1>3. \A w \in Write : Live(w)' <=> Live(w)
  BY <1>1, <1>2 DEF Live, Accepted
<1>4. PlacesApart' /\ InFlight'
  BY <1>2, <1>3, TaskQuiet
<1>5. LoggedCalls'
  BY <1>1, <1>2, <1>p, <1>t DEF LoggedCalls
<1>6. \A w \in Write : Live(w) => w # c.write
  BY <1>1 DEF Live, Accepted
<1>7. \A i \in DOMAIN log : log[i].write # c.write
  BY <1>1, <1>t DEF LoggedCalls
<1>8. PendingLive'
  BY <1>2, <1>3, <1>6, <1>7, <1>p, <1>t DEF PendingLive
<1> QED BY <1>4, <1>5, <1>8

\* A write becomes live when its task enters the queue.
LEMMA TaskEnqueue ==
    ASSUME TaskInv, NEW w \in Write, enqueue(w)
    PROVE  PlacesApart' /\ InFlight' /\ LoggedCalls' /\ PendingLive'
<1>t. TypeInv /\ PlacesApart /\ InFlight /\ LoggedCalls /\ PendingLive
  BY DEF TaskInv
<1>p. /\ \A i \in DOMAIN queue : queue[i].write \in Write
      /\ \A i \in DOMAIN log : log[i].write \in Write
      /\ queue \in Seq(QueueTask)
      /\ caller \in [Write -> {"none", "locked", "logging", "ok", "full"}]
  BY <1>t, PlacedWrites
<1>1. /\ caller[w] = "locked" /\ UNCHANGED <<log, args, worker, ended>>
      /\ caller'[w] \in {"logging", "full"} /\ \A v \in Write : v # w => caller'[v] = caller[v]
  BY <1>p DEF enqueue
<1>2. ~Live(w) /\ ended[w] = "none" /\ ~Queued(w) /\ ~Held(w)
  BY <1>1, <1>t DEF Live, Accepted, InFlight, LoggedCalls, TypeInv, TypeOK
<1>3. \A v \in Write : v # w => (Live(v)' <=> Live(v))
  BY <1>1 DEF Live, Accepted
<1>4. LoggedCalls'
  BY <1>1, <1>2, <1>p, <1>t DEF LoggedCalls
<1>5. PendingLive'
  BY <1>1, <1>2, <1>3, <1>t DEF PendingLive
<1>6. CASE Len(queue) < QueueSize
  <2>1. TaskOf(w, 0) \in QueueTask /\ TaskOf(w, 0).write = w
    BY ReplicationAssumption DEF TaskOf, QueueTask
  <2>2. queue' = Append(queue, TaskOf(w, 0)) /\ caller'[w] = "logging"
    BY <1>6, <1>p DEF enqueue
  <2>3. /\ Len(queue) + 1 \in DOMAIN queue'
        /\ queue'[Len(queue) + 1].write = w
        /\ \A i \in DOMAIN queue : queue'[i] = queue[i] /\ i \in DOMAIN queue' /\ i # Len(queue) + 1
        /\ \A i \in DOMAIN queue' : i \in DOMAIN queue \/ i = Len(queue) + 1
    BY <1>p, <2>1, <2>2, QueueAppended
  <2>4. Live(w)' /\ Queued(w)'
    BY <1>1, <1>2, <2>2, <2>3 DEF Live, Accepted, Queued
  <2>5. \A v \in Write : v # w => (Queued(v)' <=> Queued(v)) /\ (Held(v)' <=> Held(v))
    BY <1>1, <2>3 DEF Queued, Held
  <2>6. InFlight'
    BY <1>3, <1>t, <2>4, <2>5 DEF InFlight
  <2>7. PlacesApart'
    BY <1>1, <1>2, <1>t, <2>3 DEF PlacesApart, Queued, Held
  <2> QED BY <1>4, <1>5, <2>6, <2>7
<1>7. CASE ~(Len(queue) < QueueSize)
  <2>1. queue' = queue /\ caller'[w] = "full"
    BY <1>7, <1>p DEF enqueue
  <2>2. \A v \in Write : Live(v)' <=> Live(v)
    BY <1>2, <1>3, <2>1 DEF Live, Accepted
  <2> QED BY <1>1, <1>4, <1>5, <2>1, <2>2, TaskQuiet
<1> QED BY <1>6, <1>7

\* The entry of a call enters the log while its task is live.
LEMMA TaskLog ==
    ASSUME TaskInv, NEW w \in Write, log_replication(w)
    PROVE  PlacesApart' /\ InFlight' /\ LoggedCalls' /\ PendingLive'
<1>t. TypeInv /\ PlacesApart /\ InFlight /\ LoggedCalls /\ PendingLive
  BY DEF TaskInv
<1>p. /\ \A i \in DOMAIN log : log[i].write \in Write
      /\ log \in Seq(LogEntry)
      /\ caller \in [Write -> {"none", "locked", "logging", "ok", "full"}]
  BY <1>t, PlacedWrites
<1>1. /\ caller[w] = "logging" /\ UNCHANGED <<queue, args, worker, ended>>
      /\ caller'[w] = "ok" /\ \A v \in Write : v # w => caller'[v] = caller[v]
  BY <1>p DEF log_replication
<1>2. \A v \in Write : Live(v)' <=> Live(v)
  BY <1>1 DEF Live, Accepted
<1>3. Live(w)
  BY <1>1, <1>t DEF Live, Accepted, LoggedCalls
<1>4. /\ Len(log) \in Nat /\ DOMAIN log = 1 .. Len(log) /\ DOMAIN log' = 1 .. Len(log) + 1
      /\ log'[Len(log) + 1].write = w
      /\ \A i \in DOMAIN log : log'[i] = log[i]
  <2> DEFINE e == [write |-> w, status |-> "Pending"]
  <2>1. e \in LogEntry /\ e.write = w
    BY DEF LogEntry, Statuses
  <2>2. log' = Append(log, e)
    BY DEF log_replication
  <2> HIDE DEF e
  <2>3. Len(log) \in Nat /\ DOMAIN log = 1 .. Len(log)
    BY <1>p, LenProperties
  <2>4. log' \in Seq(LogEntry) /\ Len(log') = Len(log) + 1 /\ log'[Len(log) + 1] = e
        /\ \A i \in 1 .. Len(log) : log'[i] = log[i]
    BY <1>p, <2>1, <2>2, AppendProperties
  <2>5. DOMAIN log' = 1 .. Len(log) + 1
    BY <2>4, LenProperties
  <2> QED BY <2>1, <2>3, <2>4, <2>5
<1>5. \A i \in DOMAIN log' : i \in DOMAIN log \/ i = Len(log) + 1
  BY <1>4
<1>6. LoggedCalls'
  BY <1>1, <1>4, <1>5, <1>p, <1>t DEF LoggedCalls
<1>7. PendingLive'
  BY <1>1, <1>2, <1>3, <1>4, <1>5, <1>t DEF PendingLive
<1>8. PlacesApart' /\ InFlight'
  BY <1>1, <1>2, TaskQuiet
<1> QED BY <1>6, <1>7, <1>8
\* A task moves from the front of the queue to a worker.
LEMMA TaskPop ==
    ASSUME TaskInv, NEW k \in Worker, pop(k)
    PROVE  PlacesApart' /\ InFlight' /\ LoggedCalls' /\ PendingLive'
<1>t. TypeInv /\ PlacesApart /\ InFlight /\ LoggedCalls /\ PendingLive
  BY DEF TaskInv
<1>p. queue \in Seq(QueueTask) /\ worker \in [Worker -> WorkerState]
  BY <1>t, PlacedWrites
<1>1. /\ queue # <<>> /\ queue' = Tail(queue) /\ worker[k].pc = "rest"
      /\ UNCHANGED <<log, caller, args, ended>>
  BY DEF pop
<1>2. /\ worker'[k].pc # "rest" /\ worker'[k].task = Head(queue)
      /\ \A j \in Worker : j # k => worker'[j] = worker[j]
  BY <1>p DEF pop
<1>3. /\ Head(queue) = queue[1] /\ 1 \in DOMAIN queue
      /\ DOMAIN queue \subseteq Nat /\ DOMAIN queue' \subseteq Nat
      /\ \A i \in DOMAIN queue' : i + 1 \in DOMAIN queue /\ queue'[i] = queue[i + 1] /\ i + 1 # 1
      /\ \A i \in DOMAIN queue : i = 1 \/ (i - 1 \in DOMAIN queue' /\ queue'[i - 1] = queue[i])
  BY <1>p, <1>1, QueuePopped
<1>4. \A w \in Write : Live(w)' <=> Live(w)
  BY <1>1 DEF Live, Accepted
<1>5. ASSUME NEW w \in Write PROVE (Queued(w) \/ Held(w)) <=> (Queued(w) \/ Held(w))'
  <2>1. ASSUME Queued(w) PROVE (Queued(w) \/ Held(w))'
    <3>1. PICK i \in DOMAIN queue : queue[i].write = w
      BY <2>1 DEF Queued
    <3>2. CASE i = 1
      BY <1>2, <1>3, <3>1, <3>2 DEF Held
    <3>3. CASE i # 1
      BY <1>3, <3>1, <3>3 DEF Queued
    <3> QED BY <3>2, <3>3
  <2>2. ASSUME Held(w) PROVE Held(w)'
    BY <1>1, <1>2, <2>2 DEF Held
  <2>3. ASSUME Queued(w)' PROVE Queued(w)
    BY <1>3, <2>3 DEF Queued
  <2>4. ASSUME Held(w)' PROVE Queued(w) \/ Held(w)
    BY <1>2, <1>3, <2>4 DEF Queued, Held
  <2> QED BY <2>1, <2>2, <2>3, <2>4
<1>6. InFlight'
  BY <1>4, <1>5, <1>t DEF InFlight
<1>7. PlacesApart'
  <2>1. \A i, j \in DOMAIN queue' : queue'[i].write = queue'[j].write => i = j
    <3> SUFFICES ASSUME NEW i \in DOMAIN queue', NEW j \in DOMAIN queue', queue'[i].write = queue'[j].write
                 PROVE  i = j
      OBVIOUS
    <3>1. i + 1 = j + 1
      BY <1>3, <1>t DEF PlacesApart
    <3> QED BY <1>3, <3>1
  <2>2. \A i \in DOMAIN queue' : queue'[i].write # queue[1].write
    BY <1>3, <1>t DEF PlacesApart
  <2>3. \A j \in Worker : worker[j].pc # "rest" => worker[j].task.write # queue[1].write
    BY <1>3, <1>t DEF PlacesApart
  <2>4. \A i \in DOMAIN queue', j \in Worker : worker[j].pc # "rest" => queue'[i].write # worker[j].task.write
    BY <1>3, <1>t DEF PlacesApart
  <2>5. \A i \in DOMAIN queue', j \in Worker : worker'[j].pc # "rest" => queue'[i].write # worker'[j].task.write
    BY <1>2, <1>3, <2>2, <2>4
  <2>6. \A j, l \in Worker :
          worker'[j].pc # "rest" /\ worker'[l].pc # "rest" /\ worker'[j].task.write = worker'[l].task.write
          => j = l
    BY <1>2, <1>3, <1>t, <2>3 DEF PlacesApart
  <2> QED BY <2>1, <2>5, <2>6 DEF PlacesApart
<1>8. LoggedCalls' /\ PendingLive'
  BY <1>1, <1>4, <1>t DEF LoggedCalls, PendingLive
<1> QED BY <1>6, <1>7, <1>8

\* A worker that sends or counts keeps its task.
LEMMA TaskSend ==
    ASSUME TaskInv, NEW k \in Worker, send(k) \/ count(k)
    PROVE  PlacesApart' /\ InFlight' /\ LoggedCalls' /\ PendingLive'
<1>t. TypeInv /\ PlacesApart /\ InFlight /\ LoggedCalls /\ PendingLive
  BY DEF TaskInv
<1>p. worker \in [Worker -> WorkerState]
  BY <1>t, PlacedWrites
<1>1. UNCHANGED <<queue, log, caller, args, ended>> /\ worker[k].pc = "send"
  BY DEF send, count
<1>2. \A j \in Worker : j # k => worker'[j] = worker[j]
  BY <1>p DEF send, count, Skip, Answered, Refused, Failed
<1>3. worker'[k].pc # "rest" /\ worker'[k].task = worker[k].task
  <2>1. CASE count(k)
    BY <1>p, <2>1 DEF count, WorkerState
  <2>2. CASE send(k)
    <3>1. CASE Skip(k) \/ Refused(k)
      BY <1>1, <1>p, <3>1 DEF Skip, Refused, WorkerState
    <3>2. CASE Answered(k)
      BY <1>1, <1>p, <3>2 DEF Answered, WorkerState
    <3>3. CASE Failed(k)
      BY <1>1, <1>p, <3>3 DEF Failed, WorkerState
    <3> QED BY <2>2, <3>1, <3>2, <3>3 DEF send
  <2> QED BY <2>1, <2>2
<1>4. \A w \in Write : Live(w)' <=> Live(w)
  BY <1>1 DEF Live, Accepted
<1>5. PlacesApart' /\ InFlight'
  <2>1. /\ \A j \in Worker : worker'[j].pc # "rest" <=> worker[j].pc # "rest"
        /\ \A j \in Worker : worker[j].pc # "rest" => worker'[j].task = worker[j].task
    BY <1>1, <1>2, <1>3
  <2> QED BY <1>1, <1>4, <2>1, TaskQuiet
<1>6. LoggedCalls' /\ PendingLive'
  BY <1>1, <1>4, <1>t DEF LoggedCalls, PendingLive
<1> QED BY <1>5, <1>6

\* A marked log has the same writes, and nothing Pending of the marked shard.
LEMMA Marked ==
    ASSUME TypeInv, NEW s, NEW status \in {"Completed", "Failed"}, log' = Mark(s, status)
    PROVE  /\ DOMAIN log' = DOMAIN log
           /\ \A i \in DOMAIN log : log'[i].write = log[i].write
           /\ \A i \in DOMAIN log : log'[i].status = "Pending" =>
                 log[i].status = "Pending" /\ args[log[i].write].shard # s
<1>1. \A i \in DOMAIN log : log[i] \in LogEntry
  BY PlacedWrites, LenProperties, ElementOfSeq
<1> QED BY <1>1 DEF Mark, LogEntry

\* A task that ends, or goes back to the queue, leaves its worker; the log
\* keeps no Pending entry of its shard.
LEMMA TaskFinish ==
    ASSUME TaskInv, NEW k \in Worker, succeed(k) \/ fail(k)
    PROVE  PlacesApart' /\ InFlight' /\ LoggedCalls' /\ PendingLive'
<1>t. TypeInv /\ PlacesApart /\ InFlight /\ LoggedCalls /\ PendingLive
  BY DEF TaskInv
<1>p. /\ \A i \in DOMAIN queue : queue[i].write \in Write
      /\ \A i \in DOMAIN log : log[i].write \in Write
      /\ queue \in Seq(QueueTask)
      /\ worker \in [Worker -> WorkerState]
      /\ caller \in [Write -> {"none", "locked", "logging", "ok", "full"}]
      /\ ended \in [Write -> {"none", "ok", "given_up"}]
  BY <1>t, PlacedWrites
<1>1. /\ UNCHANGED <<caller, args>> /\ worker[k].pc = "finish" /\ MetricsFree
      /\ worker' = [worker EXCEPT ![k] = Resting]
  BY DEF succeed, fail
<1>2. worker'[k].pc = "rest" /\ \A j \in Worker : j # k => worker'[j] = worker[j]
  BY <1>1, <1>p DEF Resting
<1>3. PICK t : t = worker[k].task
  OBVIOUS
<1>4. t.write \in Write /\ t.retry_count \in 0 .. MaxRetries /\ Held(t.write)
  BY <1>1, <1>3, <1>t, <1>p DEF TypeInv, WorkersTyped, WorkerState, Held
<1>5. Live(t.write) /\ caller[t.write] = "ok" /\ ~Queued(t.write)
  BY <1>1, <1>3, <1>4, <1>t DEF InFlight, Live, Accepted, MetricsFree, PlacesApart, Queued
<1>6. /\ DOMAIN log' = DOMAIN log
      /\ \A i \in DOMAIN log : log'[i].write = log[i].write
      /\ \A i \in DOMAIN log : log'[i].status = "Pending" =>
            log[i].status = "Pending" /\ args[log[i].write].shard # args[t.write].shard
  BY <1>3, <1>t, Marked DEF succeed, fail
<1>7. ~Held(t.write)'
  BY <1>1, <1>2, <1>3, <1>t DEF Held, PlacesApart
<1>8. \A w \in Write : w # t.write => (Held(w)' <=> Held(w))
  BY <1>1, <1>2, <1>3 DEF Held
<1>9. \A w \in Write : w # t.write => ended'[w] = ended[w]
  BY <1>3, <1>p DEF succeed, fail
<1>10. \A w \in Write : w # t.write => (Live(w)' <=> Live(w))
  BY <1>1, <1>9 DEF Live, Accepted
<1>11. LoggedCalls'
  BY <1>1, <1>5, <1>6, <1>9, <1>t DEF LoggedCalls
<1>12. PendingLive'
  <2> SUFFICES ASSUME NEW i \in DOMAIN log, log'[i].status = "Pending"
               PROVE  \E w \in Write : args[w].shard = args[log[i].write].shard /\ Live(w)'
    BY <1>1, <1>6 DEF PendingLive
  <2>1. log[i].status = "Pending" /\ args[log[i].write].shard # args[t.write].shard
    BY <1>6
  <2>2. PICK w \in Write : args[w].shard = args[log[i].write].shard /\ Live(w)
    BY <1>t, <2>1 DEF PendingLive
  <2> QED BY <1>10, <2>1, <2>2
<1>13. CASE fail(k) /\ t.retry_count < MaxRetries
  <2>1. PICK n \in QueueTask : n = TaskOf(t.write, t.retry_count + 1)
    <3>1. t.retry_count + 1 \in 0 .. MaxRetries
      BY <1>4, <1>13, ReplicationAssumption
    <3>2. TaskOf(t.write, t.retry_count + 1) \in QueueTask
      BY <1>4, <3>1 DEF TaskOf, QueueTask
    <3> QED BY <3>2
  <2>2. queue' = Append(queue, n) /\ ended' = ended /\ n.write = t.write
    BY <1>3, <1>13, <2>1 DEF fail, TaskOf
  <2>3. /\ Len(queue) + 1 \in DOMAIN queue'
        /\ queue'[Len(queue) + 1] = n
        /\ \A i \in DOMAIN queue : queue'[i] = queue[i] /\ i \in DOMAIN queue' /\ i # Len(queue) + 1
        /\ \A i \in DOMAIN queue' : i \in DOMAIN queue \/ i = Len(queue) + 1
    BY <1>p, <2>2, QueueAppended
  <2>4. Live(t.write)' /\ Queued(t.write)'
    BY <1>1, <1>5, <2>2, <2>3 DEF Live, Accepted, Queued
  <2>5. \A v \in Write : v # t.write => (Queued(v)' <=> Queued(v))
    BY <2>2, <2>3 DEF Queued
  <2>6. InFlight'
    BY <1>8, <1>10, <1>t, <2>4, <2>5 DEF InFlight
  <2>7. PlacesApart'
    <3>1. \A i, j \in DOMAIN queue' : queue'[i].write = queue'[j].write => i = j
      BY <1>5, <1>t, <2>2, <2>3 DEF PlacesApart, Queued
    <3>2. \A j, l \in Worker :
            worker'[j].pc # "rest" /\ worker'[l].pc # "rest" /\ worker'[j].task.write = worker'[l].task.write
            => j = l
      BY <1>2, <1>t DEF PlacesApart
    <3>3. \A i \in DOMAIN queue', j \in Worker : worker'[j].pc # "rest" => queue'[i].write # worker'[j].task.write
      BY <1>2, <1>7, <1>t, <2>2, <2>3 DEF PlacesApart, Held
    <3> QED BY <3>1, <3>2, <3>3 DEF PlacesApart
  <2> QED BY <1>11, <1>12, <2>6, <2>7
<1>14. CASE ~(fail(k) /\ t.retry_count < MaxRetries)
  <2>1. queue' = queue /\ ended'[t.write] # "none"
    BY <1>3, <1>4, <1>14, <1>p DEF succeed, fail
  <2>2. ~Live(t.write)' /\ ~Queued(t.write)' /\ \A v \in Write : Queued(v)' <=> Queued(v)
    BY <1>5, <2>1 DEF Live, Queued
  <2>3. InFlight'
    BY <1>7, <1>8, <1>10, <1>t, <2>2 DEF InFlight
  <2>4. PlacesApart'
    BY <1>2, <1>t, <2>1 DEF PlacesApart
  <2> QED BY <1>11, <1>12, <2>3, <2>4
<1> QED BY <1>13, <1>14

\* A node failure only takes entries out of Pending.
LEMMA TaskFailure ==
    ASSUME TaskInv, NEW f \in Follower, handle_node_failure(f)
    PROVE  PlacesApart' /\ InFlight' /\ LoggedCalls' /\ PendingLive'
<1>t. TypeInv /\ PlacesApart /\ InFlight /\ LoggedCalls /\ PendingLive
  BY DEF TaskInv
<1>1. UNCHANGED <<queue, caller, args, worker, ended>>
  BY DEF handle_node_failure
<1>2. \A w \in Write : Live(w)' <=> Live(w)
  BY <1>1 DEF Live, Accepted
<1>3. \A i \in DOMAIN log : log[i] \in LogEntry
  BY <1>t, PlacedWrites, LenProperties, ElementOfSeq
<1>4. /\ DOMAIN log' = DOMAIN log
      /\ \A i \in DOMAIN log : log'[i].write = log[i].write /\ log'[i].status # "Pending"
  BY <1>3 DEF handle_node_failure, LogEntry
<1>5. LoggedCalls' /\ PendingLive'
  BY <1>1, <1>4, <1>t DEF LoggedCalls, PendingLive
<1> QED BY <1>1, <1>2, <1>5, TaskQuiet

\* Every step keeps every task in one place.
LEMMA TaskNext == TaskInv /\ [Next]_vars => TaskInv'
<1> SUFFICES ASSUME TaskInv, [Next]_vars PROVE PlacesApart' /\ InFlight' /\ LoggedCalls' /\ PendingLive'
  BY TypeNext DEF TaskInv
<1>1. CASE UNCHANGED <<queue, log, caller, args, worker, ended>>
  <2>1. \A w \in Write : Live(w)' <=> Live(w)
    BY <1>1 DEF Live, Accepted
  <2>2. LoggedCalls' /\ PendingLive'
    BY <1>1, <2>1 DEF TaskInv, LoggedCalls, PendingLive
  <2> QED BY <1>1, <2>1, <2>2, TaskQuiet
<1> QED
  BY <1>1, TaskReplicate, TaskEnqueue, TaskLog, TaskPop, TaskSend, TaskFinish, TaskFailure
     DEF Next, CallerStep, WorkerStep, Finished, unregister_node, vars

\* Places that are apart are counted: one for a live write, none for another.
LEMMA TaskCount == TaskInv => TasksSound
<1> SUFFICES ASSUME TaskInv PROVE OneTask /\ PendingHasTask
  BY DEF TaskInv, TypeInv, TasksSound
<1>t. PlacesApart /\ InFlight /\ PendingLive
  BY DEF TaskInv
<1> DEFINE AtQueue(w) == {i \in DOMAIN queue : queue[i].write = w}
<1> DEFINE AtWorker(w) == {k \in Worker : worker[k].pc # "rest" /\ worker[k].task.write = w}
<1>1. ASSUME NEW w \in Write, Live(w) PROVE Places(w) = 1
  <2>1. CASE Queued(w)
    <3>1. PICK i \in DOMAIN queue : queue[i].write = w
      BY <2>1 DEF Queued
    <3>2. AtQueue(w) = {i} /\ AtWorker(w) = {}
      BY <1>t, <3>1 DEF PlacesApart
    <3>3. Cardinality(AtQueue(w)) = 1 /\ Cardinality(AtWorker(w)) = 0
      BY <3>2, FS_Singleton, FS_EmptySet
    <3> QED BY <3>3 DEF Places
  <2>2. CASE Held(w)
    <3>1. PICK k \in Worker : worker[k].pc # "rest" /\ worker[k].task.write = w
      BY <2>2 DEF Held
    <3>2. AtQueue(w) = {} /\ AtWorker(w) = {k}
      BY <1>t, <3>1 DEF PlacesApart
    <3>3. Cardinality(AtQueue(w)) = 0 /\ Cardinality(AtWorker(w)) = 1
      BY <3>2, FS_Singleton, FS_EmptySet
    <3> QED BY <3>3 DEF Places
  <2> QED BY <1>1, <1>t, <2>1, <2>2 DEF InFlight
<1>2. ASSUME NEW w \in Write, ~Live(w) PROVE Places(w) = 0
  <2>1. AtQueue(w) = {} /\ AtWorker(w) = {}
    BY <1>2, <1>t DEF InFlight, Queued, Held
  <2>2. Cardinality(AtQueue(w)) = 0 /\ Cardinality(AtWorker(w)) = 0
    BY <2>1, FS_EmptySet
  <2> QED BY <2>2 DEF Places
<1>3. OneTask
  BY <1>1, <1>2 DEF OneTask, Live
<1>4. PendingHasTask
  <2>1. \A w \in Write : Live(w) => Places(w) > 0
    BY <1>1
  <2> QED BY <1>t, <2>1 DEF PendingHasTask, PendingLive
<1> QED BY <1>3, <1>4

\* An accepted write is queued once, or held by one worker, or ended, and a
\* Pending entry belongs to a shard some task is in flight for, for any number
\* of callers, workers, retries and node failures.
THEOREM TasksSoundHolds == Spec => []TasksSound
<1>1. Spec => []TaskInv
  BY TaskInit, TaskNext, PTL DEF Spec
<1> QED BY <1>1, TaskCount, PTL
=============================================================================
