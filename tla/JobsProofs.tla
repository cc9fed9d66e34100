----------------------------- MODULE JobsProofs -----------------------------
(***************************************************************************)
(* Proofs about background work: the calls of an RPC client, the tasks of   *)
(* the pre-aggregation coordinator, and compaction, for any number of       *)
(* callers, nodes, rules and blocks and any limits.                         *)
(***************************************************************************)
EXTENDS Rpc, Coordinators, Compaction, TLAPS, FiniteSetTheorems, SequenceTheorems

-----------------------------------------------------------------------------
(* RPC.  What a call has stored is bounded by the connections it made, and  *)
(* every one of them but the last was cut off by a fault.                   *)

CallState == [pc : {"idle", "get", "stale", "connect", "wait", "ok", "err"},
              attempt : Nat, fresh : Nat, calls : Nat]
AnyRequest == [caller : Callers, call : Nat, attempt : Nat]

RpcType ==
  /\ rpc \in [Callers -> CallState]
  /\ serving \subseteq AnyRequest
  /\ IsFiniteSet(serving)
  /\ rpcStored \in [Callers -> Nat]
  /\ rpcFaults \in Nat

\* The requests of a caller's present call that the server has not handled.
Unhandled(c) == {q \in serving : q.caller = c /\ q.call = rpc[c].calls}

FreshCounted(c) ==
  /\ rpcStored[c] + Cardinality(Unhandled(c)) <= rpc[c].fresh
  /\ rpc[c].fresh <= rpcFaults + IF rpc[c].pc \in {"wait", "ok"} THEN 1 ELSE 0

Served(c) ==
  /\ rpc[c].pc = "wait" => Request(c) \in serving \/ rpcStored[c] >= 1
  /\ rpc[c].pc = "ok" => rpcStored[c] >= 1

RpcInv ==
  /\ RpcType
  /\ \A q \in serving : q.call <= rpc[q.caller].calls
  /\ \A c \in Callers : FreshCounted(c) /\ Served(c)

\* A request is read from a connection the call has made.
LEMMA RequestTyped ==
  ASSUME RpcType, NEW c \in Callers
  PROVE  Request(c) \in AnyRequest /\ Request(c).caller = c /\ Request(c).call = rpc[c].calls
BY DEF RpcType, Request, AnyRequest, CallState

\* The unhandled requests of a call are finitely many.
LEMMA UnhandledFinite ==
  ASSUME RpcType, NEW c \in Callers
  PROVE  IsFiniteSet(Unhandled(c)) /\ Cardinality(Unhandled(c)) \in Nat
<1>1. Unhandled(c) \in SUBSET serving
  BY DEF Unhandled
<1> QED BY <1>1, FS_Subset, FS_CardinalityType DEF RpcType

\* A client that has made no call satisfies the invariant.
LEMMA RpcInvInit == RpcInit => RpcInv
<1> SUFFICES ASSUME RpcInit PROVE RpcInv
  OBVIOUS
<1>1. RpcType
  BY FS_EmptySet DEF RpcInit, RpcType, CallState, Idle
<1>2. ASSUME NEW c \in Callers PROVE FreshCounted(c) /\ Served(c)
  <2>1. Unhandled(c) = {}
    BY DEF RpcInit, Unhandled
  <2> QED BY <2>1, FS_EmptySet DEF RpcInit, FreshCounted, Served, Idle
<1> QED BY <1>1, <1>2 DEF RpcInv, RpcInit

\* A step of a caller that leaves the server alone: it keeps the call number,
\* the connections made and what was stored.
QuietAs(c, r) ==
  /\ rpc' = [rpc EXCEPT ![c] = r]
  /\ r.calls = rpc[c].calls
  /\ r.fresh = rpc[c].fresh
  /\ r.pc \in {"wait", "ok"} \/ rpc[c].pc \notin {"wait", "ok"} \/ rpcFaults' = rpcFaults + 1
  /\ r.pc # "wait"
  /\ r.pc = "ok" => rpc[c].pc = "wait" /\ Request(c) \notin serving
  /\ rpcFaults' \in {rpcFaults, rpcFaults + 1}
  /\ UNCHANGED <<serving, rpcStored>>

\* A step that only changes what one caller waits for keeps the invariant.
LEMMA QuietStep ==
  ASSUME RpcInv, NEW c \in Callers, \E r \in CallState : QuietAs(c, r)
  PROVE  RpcInv'
<1> PICK r \in CallState : QuietAs(c, r)
  OBVIOUS
<1> USE DEF QuietAs
<1>1. RpcType'
  BY DEF RpcInv, RpcType
<1>2. \A q \in serving' : q.call <= rpc'[q.caller].calls
  BY DEF RpcInv, RpcType, AnyRequest, CallState
<1>3. ASSUME NEW d \in Callers PROVE FreshCounted(d)' /\ Served(d)'
  <2>1. Unhandled(d)' = Unhandled(d)
    BY DEF Unhandled, RpcInv, RpcType, CallState
  <2>2. Cardinality(Unhandled(d)) \in Nat
    BY UnhandledFinite DEF RpcInv
  <2>3. FreshCounted(d)'
    BY <2>1, <2>2 DEF FreshCounted, RpcInv, RpcType, CallState
  <2>4. Served(d)'
    BY DEF Served, Request, RpcInv, RpcType, CallState
  <2> QED BY <2>3, <2>4
<1> QED BY <1>1, <1>2, <1>3 DEF RpcInv

\* A failed attempt leaves the call at its next attempt or in error.
LEMMA NextAttemptIs ==
  ASSUME NEW r \in CallState
  PROVE  /\ NextAttempt(r) \in CallState
         /\ NextAttempt(r).pc \in {"get", "err"}
         /\ NextAttempt(r).calls = r.calls /\ NextAttempt(r).fresh = r.fresh
<1>1. CASE r.attempt < RpcRetries
  <2> DEFINE s == [r EXCEPT !.pc = "get"]
  <2>1. NextAttempt(r) = [s EXCEPT !.attempt = r.attempt + 1]
    BY <1>1 DEF NextAttempt
  <2>2. s \in CallState /\ s.pc = "get" /\ s.calls = r.calls /\ s.fresh = r.fresh
    BY DEF CallState
  <2>3. r.attempt + 1 \in Nat
    BY DEF CallState
  <2> HIDE DEF s
  <2> QED BY <2>1, <2>2, <2>3 DEF CallState
<1>2. CASE ~(r.attempt < RpcRetries)
  <2>1. NextAttempt(r) = [r EXCEPT !.pc = "err"]
    BY <1>2 DEF NextAttempt
  <2> QED BY <2>1 DEF CallState
<1> QED BY <1>1, <1>2

\* Every step of a caller, of the server or of the network keeps the invariant.
LEMMA RpcInvNext == RpcInv /\ [RpcNext]_rpcVars => RpcInv'
<1> SUFFICES ASSUME RpcInv, [RpcNext]_rpcVars PROVE RpcInv'
  OBVIOUS
<1> USE RpcAssumption
<1>1. ASSUME NEW c \in Callers, call(c) PROVE RpcInv'
  <2>1. RpcType'
    BY <1>1 DEF call, RpcInv, RpcType, CallState
  <2>2. \A q \in serving' : q.call <= rpc'[q.caller].calls
    BY <1>1 DEF call, RpcInv, RpcType, AnyRequest, CallState
  <2>3. ASSUME NEW d \in Callers PROVE FreshCounted(d)' /\ Served(d)'
    <3>1. CASE d = c
      <4>1. Unhandled(c)' = {}
        BY <1>1 DEF call, Unhandled, RpcInv, RpcType, AnyRequest, CallState
      <4> QED BY <1>1, <3>1, <4>1, FS_EmptySet DEF call, FreshCounted, Served, RpcInv, RpcType, CallState
    <3>2. CASE d # c
      <4>1. Unhandled(d)' = Unhandled(d) /\ rpc'[d] = rpc[d] /\ rpcStored'[d] = rpcStored[d]
        BY <1>1, <3>2 DEF call, Unhandled, RpcInv, RpcType
      <4> QED BY <1>1, <4>1 DEF call, FreshCounted, Served, Request, RpcInv
    <3> QED BY <3>1, <3>2
  <2> QED BY <2>1, <2>2, <2>3 DEF RpcInv
<1>c. \A c \in Callers : rpc[c] \in CallState
  BY DEF RpcInv, RpcType
<1>2. ASSUME NEW c \in Callers, get_connection(c) PROVE RpcInv'
  <2> DEFINE r == [rpc[c] EXCEPT !.pc = IF pooled > 0 THEN "stale" ELSE "connect"]
  <2>1. r \in CallState /\ QuietAs(c, r)
    BY <1>2, <1>c DEF get_connection, QuietAs, CallState
  <2> QED BY <2>1, QuietStep
<1>3. ASSUME NEW c \in Callers, StaleRead(c) PROVE RpcInv'
  <2>1. NextAttempt(rpc[c]) \in CallState /\ QuietAs(c, NextAttempt(rpc[c]))
    BY <1>3, <1>c, NextAttemptIs DEF StaleRead, Failed, QuietAs
  <2> QED BY <2>1, QuietStep
<1>4. ASSUME NEW c \in Callers, Fault(c) PROVE RpcInv'
  <2>1. NextAttempt(rpc[c]) \in CallState /\ QuietAs(c, NextAttempt(rpc[c]))
    BY <1>4, <1>c, NextAttemptIs DEF Fault, Failed, QuietAs
  <2> QED BY <2>1, QuietStep
<1>5. ASSUME NEW c \in Callers, return_connection(c) PROVE RpcInv'
  <2> DEFINE r == [rpc[c] EXCEPT !.pc = "ok"]
  <2>1. r \in CallState /\ QuietAs(c, r)
    BY <1>5, <1>c DEF return_connection, QuietAs, CallState
  <2> QED BY <2>1, QuietStep
<1>6. ASSUME NEW c \in Callers, connect(c) PROVE RpcInv'
  <2>1. Request(c) \in AnyRequest /\ Request(c).caller = c /\ Request(c).call = rpc[c].calls
    BY RequestTyped DEF RpcInv
  <2>2. RpcType'
    BY <1>6, <2>1, FS_AddElement DEF connect, RpcInv, RpcType, CallState
  <2>3. \A q \in serving' : q.call <= rpc'[q.caller].calls
    BY <1>6, <2>1 DEF connect, RpcInv, RpcType, AnyRequest, CallState
  <2>4. ASSUME NEW d \in Callers PROVE FreshCounted(d)' /\ Served(d)'
    <3>0. IsFiniteSet(Unhandled(d)) /\ Cardinality(Unhandled(d)) \in Nat
      BY UnhandledFinite DEF RpcInv
    <3>1. CASE d = c
      <4>1. Unhandled(c)' = Unhandled(c) \cup {Request(c)}
        BY <1>6, <2>1 DEF connect, Unhandled, RpcInv, RpcType, CallState
      <4>2. Cardinality(Unhandled(c)') <= Cardinality(Unhandled(c)) + 1 /\ Cardinality(Unhandled(c)') \in Nat
        <5> DEFINE u == Unhandled(c)
                   q == Request(c)
        <5>1. IsFiniteSet(u) /\ Cardinality(u) \in Nat
          BY <3>0, <3>1
        <5>2. Cardinality(u \cup {q}) = IF q \in u THEN Cardinality(u) ELSE Cardinality(u) + 1
          BY <5>1, FS_AddElement
        <5> HIDE DEF u, q
        <5>3. Cardinality(u \cup {q}) <= Cardinality(u) + 1 /\ Cardinality(u \cup {q}) \in Nat
          BY <5>1, <5>2
        <5> QED BY <4>1, <5>3 DEF u, q
      <4>3. FreshCounted(c)'
        BY <1>6, <3>0, <3>1, <4>2 DEF connect, FreshCounted, RpcInv, RpcType, CallState
      <4>4. Served(c)'
        BY <1>6 DEF connect, Served, Request, RpcInv, RpcType, CallState
      <4> QED BY <3>1, <4>3, <4>4
    <3>2. CASE d # c
      <4>1. Unhandled(d)' = Unhandled(d) /\ rpc'[d] = rpc[d]
        BY <1>6, <2>1, <3>2 DEF connect, Unhandled, RpcInv, RpcType
      <4>2. FreshCounted(d)'
        BY <1>6, <4>1 DEF connect, FreshCounted, RpcInv
      <4>3. Request(d)' = Request(d)
        BY <4>1 DEF Request
      <4> QED BY <1>6, <4>1, <4>2, <4>3 DEF connect, Served, RpcInv
    <3> QED BY <3>1, <3>2
  <2> QED BY <2>2, <2>3, <2>4 DEF RpcInv
<1>7. ASSUME NEW q \in serving, handle_connection(q) PROVE RpcInv'
  <2>1. RpcType'
    <3>1. serving' \in SUBSET serving
      BY <1>7 DEF handle_connection
    <3>2. IsFiniteSet(serving')
      BY <3>1, FS_Subset DEF RpcInv, RpcType
    <3>3. rpcStored' \in [Callers -> Nat]
      <4>1. CASE q.call = rpc[q.caller].calls
        BY <1>7, <4>1 DEF handle_connection, RpcInv, RpcType, AnyRequest
      <4>2. CASE q.call # rpc[q.caller].calls
        BY <1>7, <4>2 DEF handle_connection, RpcInv, RpcType
      <4> QED BY <4>1, <4>2
    <3> QED BY <1>7, <3>1, <3>2, <3>3 DEF handle_connection, RpcInv, RpcType
  <2>2. \A p \in serving' : p.call <= rpc'[p.caller].calls
    BY <1>7 DEF handle_connection, RpcInv
  <2>3. ASSUME NEW d \in Callers PROVE FreshCounted(d)' /\ Served(d)'
    <3>0. IsFiniteSet(Unhandled(d)) /\ Cardinality(Unhandled(d)) \in Nat
      BY UnhandledFinite DEF RpcInv
    <3>1. CASE q \in Unhandled(d)
      <4>1. Unhandled(d)' = Unhandled(d) \ {q}
        BY <1>7 DEF handle_connection, Unhandled
      <4>2. Cardinality(Unhandled(d)') = Cardinality(Unhandled(d)) - 1
        BY <3>0, <3>1, <4>1, FS_RemoveElement
      <4>3. rpcStored'[d] = rpcStored[d] + 1
        BY <1>7, <3>1 DEF handle_connection, Unhandled, RpcInv, RpcType
      <4> QED BY <1>7, <3>0, <4>2, <4>3 DEF handle_connection, FreshCounted, Served, RpcInv, RpcType, CallState
    <3>2. CASE q \notin Unhandled(d)
      <4>1. Unhandled(d)' = Unhandled(d)
        BY <1>7, <3>2 DEF handle_connection, Unhandled
      <4>2. rpcStored'[d] = rpcStored[d]
        BY <1>7, <3>2 DEF handle_connection, Unhandled, RpcInv, RpcType
      <4>3. Request(d) # q \/ rpc[d].pc # "wait"
        BY <3>2, RequestTyped DEF Unhandled, RpcInv
      <4> QED BY <1>7, <4>1, <4>2, <4>3 DEF handle_connection, FreshCounted, Served, Request, RpcInv
    <3> QED BY <3>1, <3>2
  <2> QED BY <2>1, <2>2, <2>3 DEF RpcInv
<1>8. CASE UNCHANGED rpcVars
  BY <1>8 DEF rpcVars, RpcInv, RpcType, FreshCounted, Served, Unhandled, Request
<1> QED BY <1>1, <1>2, <1>3, <1>4, <1>5, <1>6, <1>7, <1>8 DEF RpcNext, CallStep

\* A call that is answered was handled at least once, a request is stored again
\* only after a fault, and without faults only used connections make a call fail
\* (RpcClient::call and ConnectionPool).
THEOREM CallsSoundHolds == RpcSpec => []CallsSound
<1>1. RpcInv => CallsSound
  <2> SUFFICES ASSUME RpcInv, NEW c \in Callers
               PROVE  /\ rpc[c].pc = "ok" => rpcStored[c] >= 1
                      /\ rpcStored[c] <= 1 + rpcFaults
                      /\ rpc[c].pc = "err" /\ rpcFaults = 0 => rpc[c].fresh = 0
    BY DEF CallsSound, DuplicatesNeedFaults, ErrorsAreStale
  <2>1. Cardinality(Unhandled(c)) \in Nat
    BY UnhandledFinite DEF RpcInv
  <2> QED BY <2>1 DEF RpcInv, RpcType, FreshCounted, Served, CallState
<1> QED BY <1>1, RpcInvInit, RpcInvNext, PTL DEF RpcSpec

-----------------------------------------------------------------------------
(* The pre-aggregation coordinator.                                         *)

TaskInv ==
  /\ assignments = [r \in DOMAIN assignments |-> assignments[r]]
  /\ \A r \in DOMAIN assignments :
       assignments[r] \in [node : {assignments[r].node}, status : Statuses,
                          since : Nat, retries : 0 .. TaskRetries]
  /\ node_tasks = [n \in DOMAIN node_tasks |-> node_tasks[n]]
  /\ ListedByOwner

\* The round of the coordination task keeps the owner of a task and its bound.
LEMMA CoordinatedKeeps ==
  ASSUME NEW n, NEW a \in [node : {n}, status : Statuses, since : Nat, retries : 0 .. TaskRetries]
  PROVE  Coordinated(a) \in [node : {n}, status : Statuses, since : Nat, retries : 0 .. TaskRetries]
<1> USE CoordAssumption DEF Statuses
<1>1. CASE ~(a.status = "Running" /\ a.since > TaskTimeout)
  BY <1>1 DEF Coordinated
<1>2. CASE a.status = "Running" /\ a.since > TaskTimeout /\ ~AutoFailover
  BY <1>2 DEF Coordinated
<1>3. CASE a.status = "Running" /\ a.since > TaskTimeout /\ AutoFailover /\ a.retries < TaskRetries
  <2> DEFINE b == [a EXCEPT !.status = "Pending"]
  <2>1. Coordinated(a) = [b EXCEPT !.retries = a.retries + 1]
    BY <1>3 DEF Coordinated
  <2>2. b \in [node : {n}, status : Statuses, since : Nat, retries : 0 .. TaskRetries]
    OBVIOUS
  <2>3. a.retries + 1 \in 0 .. TaskRetries
    BY <1>3
  <2> HIDE DEF b
  <2> QED BY <2>1, <2>2, <2>3
<1>4. CASE a.status = "Running" /\ a.since > TaskTimeout /\ AutoFailover /\ ~(a.retries < TaskRetries)
  BY <1>4 DEF Coordinated
<1> QED BY <1>1, <1>2, <1>3, <1>4

\* Every operation on the tasks keeps the invariant.
LEMMA TaskInvNext == TaskInv /\ [TaskNext]_coordVars => TaskInv'
<1> SUFFICES ASSUME TaskInv, [TaskNext]_coordVars PROVE TaskInv'
  OBVIOUS
<1> USE CoordAssumption
<1>1. CASE coordinate
  <2>1. /\ DOMAIN assignments' = DOMAIN assignments
        /\ assignments' = [r \in DOMAIN assignments' |-> assignments'[r]]
        /\ \A r \in DOMAIN assignments : assignments'[r] = Coordinated(assignments[r])
    BY <1>1 DEF coordinate
  <2>2. \A r \in DOMAIN assignments :
          assignments'[r] \in [node : {assignments[r].node}, status : Statuses,
                              since : Nat, retries : 0 .. TaskRetries]
    BY <2>1, CoordinatedKeeps DEF TaskInv
  <2>3. \A r \in DOMAIN assignments : assignments'[r].node = assignments[r].node
    BY <2>2
  <2> QED BY <1>1, <2>1, <2>2, <2>3 DEF coordinate, TaskInv, ListedByOwner
<1>2. CASE TasksAge
  BY <1>2 DEF TasksAge, TaskInv, ListedByOwner, Older
<1>3. ASSUME NEW r \in Rules, heartbeat(r) PROVE TaskInv'
  BY <1>3 DEF heartbeat, TaskInv, ListedByOwner
<1>4. ASSUME NEW r \in Rules, remove_task(r) PROVE TaskInv'
  BY <1>4 DEF remove_task, TaskInv, ListedByOwner, Without
<1>5. ASSUME NEW r \in Rules, NEW s \in Statuses, update_task_status(r, s) PROVE TaskInv'
  <2> DEFINE f == [assignments EXCEPT ![r].status = s]
  <2>1. assignments' = [f EXCEPT ![r].since = 0] /\ UNCHANGED <<node_tasks, orphaned>>
    BY <1>5 DEF update_task_status
  <2>2. /\ f = [x \in DOMAIN f |-> f[x]] /\ DOMAIN f = DOMAIN assignments
        /\ \A x \in DOMAIN f : f[x] \in [node : {assignments[x].node}, status : Statuses,
                                        since : Nat, retries : 0 .. TaskRetries]
    BY DEF TaskInv
  <2> HIDE DEF f
  <2>3. /\ assignments' = [x \in DOMAIN assignments' |-> assignments'[x]]
        /\ DOMAIN assignments' = DOMAIN assignments
        /\ \A x \in DOMAIN assignments :
             assignments'[x] \in [node : {assignments[x].node}, status : Statuses,
                                 since : Nat, retries : 0 .. TaskRetries]
    BY <2>1, <2>2
  <2>4. \A x \in DOMAIN assignments : assignments'[x].node = assignments[x].node
    BY <2>3
  <2> QED BY <2>1, <2>3, <2>4 DEF TaskInv, ListedByOwner
<1>6. ASSUME NEW r \in Rules, NEW available, assign_task(r, available) PROVE TaskInv'
  <2> DEFINE n == select_node_for_task(available)
             a == [node |-> n, status |-> "Pending", since |-> 0, retries |-> 0]
             l == {r} \cup IF n \in DOMAIN node_tasks THEN node_tasks[n] ELSE {}
  <2>1. /\ assignments' = Put(assignments, r, a)
        /\ node_tasks' = Put(node_tasks, n, l)
        /\ orphaned' = orphaned \ {r}
    BY <1>6 DEF assign_task
  <2>2. a.node = n /\ a \in [node : {a.node}, status : Statuses, since : Nat, retries : 0 .. TaskRetries]
    BY DEF Statuses
  <2>3. r \in l /\ (n \in DOMAIN node_tasks => node_tasks[n] \subseteq l)
    OBVIOUS
  <2> HIDE DEF n, a, l
  <2> QED BY <2>1, <2>2, <2>3 DEF TaskInv, ListedByOwner, Put
<1>7. ASSUME NEW n \in CNodes, handle_node_failure(n) PROVE TaskInv'
  BY <1>7 DEF handle_node_failure, TaskInv, ListedByOwner, Without, Statuses
<1>8. CASE UNCHANGED coordVars
  BY <1>8 DEF coordVars, TaskInv, ListedByOwner
<1> QED BY <1>1, <1>2, <1>3, <1>4, <1>5, <1>6, <1>7, <1>8 DEF TaskNext

\* A rule stays in the list of the node that owns it until that node is reported
\* failed, and no task is retried more often than configured (assign_task,
\* remove_task, handle_node_failure and the coordination task).
THEOREM AssignmentsSoundHolds == TaskSpec => []AssignmentsSound
<1>1. CoordInit => TaskInv
  <2>1. DOMAIN <<>> = {} /\ <<>> = [x \in {} |-> <<>>[x]]
    OBVIOUS
  <2> QED BY <2>1 DEF CoordInit, TaskInv, ListedByOwner
<1>2. TaskInv => AssignmentsSound
  BY CoordAssumption DEF TaskInv, AssignmentsSound, RetriesBounded
<1> QED BY <1>1, <1>2, TaskInvNext, PTL DEF TaskSpec

-----------------------------------------------------------------------------
(* Compaction.  A block that does not open or panics is never removed,      *)
(* because all blocks are opened before the first directory goes; the rest  *)
(* of what a merge removes is in `unread'.  This rests on the list naming   *)
(* only directories that exist, for which the new id has to be new.         *)

Unopenable(b) == b \in DamagedBlocks \/ Panics(b)
AllWrong(S) == \A x \in S : x[2] = WrongTime
BlockId == DOMAIN OldBlocks \cup Nat
WorkerPc == {"idle", "load", "write", "meta", "replace", "next", "stopped"}

\* What is written of a worker, of a directory and of the list.
WorkerAs(w) == w \in [pc : WorkerPc, level : {w.level}, ids : Seq(BlockId), all : {w.all},
                      new : BlockId, whole : {w.whole}]
CompType ==
  /\ WorkerAs(worker)
  /\ dirs = [b \in DOMAIN dirs |-> dirs[b]]
  /\ \A b \in DOMAIN dirs : dirs[b] \in [samples : {dirs[b].samples}, complete : BOOLEAN]
  /\ DOMAIN dirs \subseteq BlockId /\ IsFiniteSet(DOMAIN dirs)
  /\ listed = [b \in DOMAIN listed |-> listed[b]]
  /\ DOMAIN listed \subseteq BlockId /\ IsFiniteSet(DOMAIN listed)
  /\ millis \in Nat

\* The blocks of a merge are directories until it removes them, each of them opens,
\* and none of them is the new one.
MergeSound ==
  LET ids == worker.ids
  IN  /\ worker.pc \in {"load", "write", "meta"} => \A i \in DOMAIN ids : ids[i] \in DOMAIN dirs
      /\ worker.pc \in {"write", "meta", "replace"} => \A i \in DOMAIN ids : ~Unopenable(ids[i])
      /\ worker.pc \in {"meta", "replace"} =>
           worker.new \in DOMAIN dirs /\ \A i \in DOMAIN ids : ids[i] # worker.new
      /\ worker.pc = "write" => AllWrong(worker.all)

\* A directory holds a flushed block as it was flushed, or a merged one.
Kinds ==
  \A b \in DOMAIN dirs :
    \/ b \in DOMAIN OldBlocks /\ dirs[b].samples = OldBlocks[b]
    \/ dirs[b].samples = LateBlock /\ LateBlock \subseteq born
    \/ AllWrong(dirs[b].samples)

CompInv ==
  /\ CompType
  /\ clashed = {} => DOMAIN listed \subseteq DOMAIN dirs /\ MergeSound /\ Kinds
  /\ CompactionKeeps
  /\ TwiceIsFlushedTwice

\* A worker at rest, and one whose task is gone.
LEMMA RestTyped ==
  WorkerAs(Rest) /\ WorkerAs([Rest EXCEPT !.pc = "stopped"]) /\ Rest.pc = "idle"
<1>1. <<>> \in Seq(BlockId) /\ 0 \in BlockId
  BY EmptySeq DEF BlockId
<1> QED BY <1>1 DEF Rest, WorkerAs, WorkerPc

\* Going on to a level leaves the worker at rest or with listed blocks to load.
LEMMA NextLevelIs ==
  ASSUME CompType, NEW level, NextLevel(level)
  PROVE  /\ WorkerAs(worker') /\ worker'.pc \in {"idle", "load"}
         /\ \A i \in DOMAIN worker'.ids : worker'.ids[i] \in DOMAIN listed
<1>1. CASE worker' = Rest
  <2>1. Rest.ids = <<>> /\ DOMAIN <<>> = {}
    BY DEF Rest
  <2> QED BY <1>1, <2>1, RestTyped
<1>2. ASSUME NEW k, NEW ids \in SetToSeqs(get_blocks_for_level(k)),
             worker' = [Rest EXCEPT !.pc = "load", !.level = k, !.ids = ids, !.whole = TRUE]
      PROVE  /\ WorkerAs(worker') /\ worker'.pc \in {"idle", "load"}
             /\ \A i \in DOMAIN worker'.ids : worker'.ids[i] \in DOMAIN listed
  <2> DEFINE S == get_blocks_for_level(k)
  <2>1. S \subseteq DOMAIN listed
    BY DEF get_blocks_for_level
  <2>2. IsFiniteSet(S) /\ Cardinality(S) \in Nat
    BY <2>1, FS_Subset, FS_CardinalityType DEF CompType
  <2>3. ids \in [1 .. Cardinality(S) -> S]
    BY DEF SetToSeqs
  <2>4. ids \in Seq(BlockId)
    <3>1. ids \in [1 .. Cardinality(S) -> BlockId]
      BY <2>1, <2>3 DEF CompType
    <3> QED BY <2>2, <3>1, SeqDef
  <2>5. worker' = [pc |-> "load", level |-> k, ids |-> ids, all |-> {}, new |-> 0, whole |-> TRUE]
    BY <1>2 DEF Rest
  <2> QED BY <2>1, <2>3, <2>4, <2>5 DEF WorkerAs, WorkerPc, BlockId
<1> QED BY <1>1, <1>2 DEF NextLevel

\* The worker after a level: at rest, or loading blocks that are listed.
LEMMA AfterIs ==
  ASSUME CompType, NEW level, After(level)
  PROVE  /\ WorkerAs(worker') /\ worker'.pc \in {"idle", "load"}
         /\ \A i \in DOMAIN worker'.ids : worker'.ids[i] \in DOMAIN listed
<1>1. CASE worker' = Rest
  <2>1. Rest.ids = <<>> /\ DOMAIN <<>> = {}
    BY DEF Rest
  <2> QED BY <1>1, <2>1, RestTyped
<1> QED BY <1>1, NextLevelIs DEF After

\* Loading what exists lists directories.
LEMMA LoadedIs ==
  ASSUME CompType
  PROVE  LET l == load_existing_blocks(dirs)
         IN  /\ l = [b \in DOMAIN l |-> l[b]] /\ DOMAIN l \subseteq DOMAIN dirs
             /\ IsFiniteSet(DOMAIN l) /\ DOMAIN l \subseteq BlockId
<1> DEFINE l == load_existing_blocks(dirs)
<1>1. l = [b \in DOMAIN l |-> l[b]] /\ DOMAIN l \in SUBSET DOMAIN dirs
  BY DEF load_existing_blocks
<1>2. IsFiniteSet(DOMAIN l)
  BY <1>1, FS_Subset DEF CompType
<1> QED BY <1>1, <1>2 DEF CompType

\* A step that leaves the directories alone, and the worker at rest, stopped or
\* about to load listed blocks.
LEMMA DirsAlone ==
  ASSUME CompInv, UNCHANGED <<dirs, millis, clashed, unread, born>>, WorkerAs(worker'),
         worker'.pc \in {"idle", "load", "stopped"},
         worker'.pc = "load" => \A i \in DOMAIN worker'.ids : worker'.ids[i] \in DOMAIN listed,
         listed' = listed \/ (listed' = load_existing_blocks(dirs) /\ worker'.pc # "load")
  PROVE  CompInv'
<1>1. CompType'
  BY LoadedIs DEF CompInv, CompType
<1>2. clashed' = {} => DOMAIN listed' \subseteq DOMAIN dirs' /\ MergeSound' /\ Kinds'
  BY LoadedIs DEF CompInv, MergeSound, Kinds
<1>3. CompactionKeeps' /\ TwiceIsFlushedTwice'
  BY DEF CompInv, CompactionKeeps, OnDisk, TwiceIsFlushedTwice
<1> QED BY <1>1, <1>2, <1>3 DEF CompInv

\* The blocks on disk at the start satisfy the invariant.
LEMMA CompInvInit == CompInit => CompInv
<1> SUFFICES ASSUME CompInit PROVE CompInv
  OBVIOUS
<1>1. /\ DOMAIN dirs = DOMAIN OldBlocks
      /\ dirs = [b \in DOMAIN dirs |-> dirs[b]]
      /\ \A b \in DOMAIN dirs : /\ dirs[b] \in [samples : {dirs[b].samples}, complete : BOOLEAN]
                               /\ dirs[b].samples = OldBlocks[b] /\ dirs[b].complete = TRUE
  BY DEF CompInit
<1>2. IsFiniteSet(DOMAIN dirs) /\ DOMAIN dirs \subseteq BlockId /\ Cardinality(DOMAIN OldBlocks) \in Nat
  BY <1>1, CompactionAssumption, FS_CardinalityType DEF BlockId
<1>3. /\ listed = [b \in DOMAIN listed |-> listed[b]]
      /\ DOMAIN listed \in SUBSET DOMAIN dirs
  BY DEF CompInit, load_existing_blocks
<1>4. CompType
  <2>1. IsFiniteSet(DOMAIN listed)
    BY <1>2, <1>3, FS_Subset
  <2> QED BY <1>1, <1>2, <1>3, <2>1, RestTyped DEF CompInit, CompType
<1>5. MergeSound /\ Kinds
  BY <1>1, RestTyped DEF CompInit, MergeSound, Kinds
<1>6. CompactionKeeps
  <2>1. born \subseteq OnDisk
    BY <1>1 DEF CompInit, OnDisk
  <2> QED BY <2>1 DEF CompactionKeeps, Keys
<1>7. TwiceIsFlushedTwice
  BY <1>1 DEF TwiceIsFlushedTwice, FlushedTwice
<1> QED BY <1>3, <1>4, <1>5, <1>6, <1>7 DEF CompInv

\* What LoadAll hands to the writer has only timestamps that nobody wrote.
LEMMA MergedWrong ==
  ASSUME NEW ids, NEW read, \A i \in DOMAIN ids : read[ids[i]] \in load_block_data(ids[i])
  PROVE  AllWrong(Merged(ids, read))
<1>1. ASSUME NEW i \in DOMAIN ids PROVE AllWrong(read[ids[i]])
  <2> DEFINE b == ids[i]
  <2>1. read[b] \in {{}} \/ \E x \in dirs[b].samples : read[b] = {<<x[1], WrongTime, x[3]>>}
    BY <1>1 DEF load_block_data
  <2> QED BY <2>1 DEF AllWrong
<1> QED BY <1>1 DEF Merged, AllWrong

\* A check that finds nothing to merge, a command, a load that ends the check and a
\* restart leave the directories alone.
LEMMA ControlSteps ==
  ASSUME CompInv, check_and_compact \/ run_command \/ NextOfCheck \/ CrashC \/ LoadPanics
  PROVE  CompInv'
<1> USE RestTyped
<1>1. CASE check_and_compact
  <2>1. /\ WorkerAs(worker') /\ worker'.pc \in {"idle", "load"}
        /\ \A i \in DOMAIN worker'.ids : worker'.ids[i] \in DOMAIN listed
    BY <1>1, NextLevelIs DEF check_and_compact, CompInv
  <2> QED BY <1>1, <2>1, DirsAlone DEF check_and_compact
<1>2. CASE run_command
  <2>0. UNCHANGED <<dirs, listed, millis, clashed, unread, born>>
    BY <1>2 DEF run_command
  <2> DEFINE c == Head(commands)
  <2>1. CASE c.op = "compact"
    <3>1. NextLevel(0)
      BY <1>2, <2>1 DEF run_command
    <3>2. /\ WorkerAs(worker') /\ worker'.pc \in {"idle", "load"}
          /\ \A i \in DOMAIN worker'.ids : worker'.ids[i] \in DOMAIN listed
      BY <3>1, NextLevelIs DEF CompInv
    <3> QED BY <2>0, <3>2, DirsAlone
  <2>2. CASE c.op = "shutdown"
    <3>1. worker' = [Rest EXCEPT !.pc = "stopped"]
      BY <1>2, <2>2 DEF run_command
    <3>2. worker'.pc = "stopped"
      BY <3>1 DEF Rest
    <3> QED BY <2>0, <3>1, <3>2, DirsAlone
  <2>3. CASE c.op \notin {"compact", "shutdown"} /\ c.id \notin DOMAIN listed
    <3>1. worker' = Rest
      BY <1>2, <2>3 DEF run_command
    <3> QED BY <2>0, <3>1, DirsAlone
  <2>4. CASE c.op \notin {"compact", "shutdown"} /\ c.id \in DOMAIN listed
    <3>1. worker' = [pc |-> "load", level |-> listed[c.id], ids |-> <<c.id>>, all |-> {}, new |-> 0, whole |-> FALSE]
      BY <1>2, <2>4 DEF run_command, Rest
    <3>2. c.id \in BlockId /\ <<c.id>> \in Seq(BlockId) /\ 0 \in BlockId
      BY <2>4 DEF CompInv, CompType, BlockId
    <3>3. WorkerAs(worker') /\ worker'.pc = "load" /\ worker'.ids = <<c.id>>
      BY <3>1, <3>2 DEF WorkerAs, WorkerPc
    <3>4. \A i \in DOMAIN worker'.ids : worker'.ids[i] \in DOMAIN listed
      BY <2>4, <3>3
    <3> HIDE DEF c
    <3> QED BY <2>0, <3>3, <3>4, DirsAlone
  <2> QED BY <2>1, <2>2, <2>3, <2>4
<1>3. CASE NextOfCheck
  <2>1. /\ WorkerAs(worker') /\ worker'.pc \in {"idle", "load"}
        /\ \A i \in DOMAIN worker'.ids : worker'.ids[i] \in DOMAIN listed
    BY <1>3, AfterIs DEF NextOfCheck, CompInv
  <2> QED BY <1>3, <2>1, DirsAlone DEF NextOfCheck
<1>4. CASE CrashC
  BY <1>4, DirsAlone DEF CrashC
<1>5. CASE LoadPanics
  <2>1. [Rest EXCEPT !.pc = "stopped"].pc = "stopped"
    BY DEF Rest
  <2> QED BY <1>5, <2>1, DirsAlone DEF LoadPanics
<1> QED BY <1>1, <1>2, <1>3, <1>4, <1>5

\* Loading: every block that is loaded opens.
LEMMA LoadStep ==
  ASSUME CompInv, LoadAll
  PROVE  CompInv'
<1>0. UNCHANGED <<dirs, listed, millis, clashed, unread, born>>
  BY DEF LoadAll
<1>1. CASE worker' = Rest
  BY <1>0, <1>1, RestTyped, DirsAlone
<1>2. CASE After(worker.level)
  <2>1. /\ WorkerAs(worker') /\ worker'.pc \in {"idle", "load"}
        /\ \A i \in DOMAIN worker'.ids : worker'.ids[i] \in DOMAIN listed
    BY <1>2, AfterIs DEF CompInv
  <2> QED BY <1>0, <2>1, DirsAlone
<1>3. ASSUME Stoppers = {}, worker.pc = "load",
             NEW read, \A b \in ToSet(worker.ids) : read[b] \in load_block_data(b),
             worker' = [worker EXCEPT !.pc = "write", !.all = Merged(worker.ids, read), !.new = millis]
      PROVE  CompInv'
  <2> DEFINE all == Merged(worker.ids, read)
  <2>1. AllWrong(all)
    BY <1>3, MergedWrong DEF ToSet
  <2>2. worker' = [pc |-> "write", level |-> worker.level, ids |-> worker.ids, all |-> all,
                   new |-> millis, whole |-> worker.whole]
    BY <1>3 DEF CompInv, CompType, WorkerAs
  <2> HIDE DEF all
  <2>3. WorkerAs(worker') /\ worker'.pc = "write" /\ worker'.ids = worker.ids /\ worker'.all = all
    BY <2>2 DEF CompInv, CompType, WorkerAs, WorkerPc, BlockId
  <2>4. CompType'
    BY <1>0, <2>3 DEF CompInv, CompType
  <2>5. clashed = {} => \A i \in DOMAIN worker.ids : worker.ids[i] \in DOMAIN dirs /\ ~Unopenable(worker.ids[i])
    BY <1>3 DEF CompInv, MergeSound, Stoppers, Stops, Unopenable
  <2>6. clashed' = {} => MergeSound'
    BY <1>0, <2>1, <2>3, <2>5 DEF MergeSound, Unopenable
  <2> QED BY <1>0, <2>4, <2>6 DEF CompInv, Kinds, CompactionKeeps, OnDisk, TwiceIsFlushedTwice
<1> QED BY <1>1, <1>2, <1>3 DEF LoadAll

\* Keys of samples with wrong timestamps, and of sets of samples.
LEMMA KeysOf ==
  /\ \A S : AllWrong(S) => \A k \in Keys(S) : k[2] = WrongTime
  /\ \A S, T : S \subseteq T => Keys(S) \subseteq Keys(T)
  /\ \A S, T : Keys(S \cup T) = Keys(S) \cup Keys(T)
  BY DEF AllWrong, Keys, Key

\* A step that keeps what was on disk, or adds it to what a merge removed unread,
\* keeps CompactionKeeps.
LEMMA KeepsStep ==
  ASSUME CompactionKeeps, clashed' = {} => clashed = {}, 
         clashed' = {} => born' \ born \subseteq OnDisk' /\ OnDisk \cup unread \subseteq OnDisk' \cup unread'
  PROVE  CompactionKeeps'
<1> SUFFICES ASSUME clashed' = {} PROVE Keys(born') \subseteq Keys(OnDisk' \cup unread')
  BY DEF CompactionKeeps
<1>1. Keys(born) \subseteq Keys(OnDisk \cup unread)
  BY DEF CompactionKeeps
<1>2. Keys(OnDisk \cup unread) \subseteq Keys(OnDisk' \cup unread')
  BY KeysOf
<1>3. Keys(born' \ born) \subseteq Keys(OnDisk' \cup unread')
  BY KeysOf
<1>4. born' \subseteq born \cup (born' \ born)
  OBVIOUS
<1>5. Keys(born') \subseteq Keys(born) \cup Keys(born' \ born)
  BY <1>4 DEF Keys
<1> QED BY <1>1, <1>2, <1>3, <1>5

\* The columns go into a directory of their own, without meta.json.
LEMMA ColumnsStep ==
  ASSUME CompInv, WriteColumns
  PROVE  CompInv'
<1> DEFINE n == worker.new
<1>1. /\ UNCHANGED <<listed, millis, unread, born>>
      /\ clashed' = clashed \cup (DOMAIN dirs \cap {n})
      /\ dirs' = [b \in DOMAIN dirs \cup {n} |->
                    IF b # n THEN dirs[b]
                    ELSE [samples |-> worker.all, complete |-> b \in DOMAIN dirs /\ dirs[b].complete]]
      /\ worker.pc = "write"
  BY DEF WriteColumns
<1>2. /\ WorkerAs(worker') /\ worker'.pc = "meta" /\ worker'.ids = worker.ids /\ worker'.new = n
  BY DEF WriteColumns, CompInv, CompType, WorkerAs, WorkerPc
<1>3. n \in BlockId
  BY DEF CompInv, CompType, WorkerAs
<1> HIDE DEF n
<1>4. /\ DOMAIN dirs' = DOMAIN dirs \cup {n}
      /\ dirs'[n] = [samples |-> worker.all, complete |-> n \in DOMAIN dirs /\ dirs[n].complete]
      /\ \A b \in DOMAIN dirs : b # n => dirs'[b] = dirs[b]
      /\ dirs' = [b \in DOMAIN dirs' |-> dirs'[b]]
  BY <1>1
<1>5. dirs'[n].samples = worker.all /\ (n \notin DOMAIN dirs => ~dirs'[n].complete)
  <2> DEFINE whole == n \in DOMAIN dirs /\ dirs[n].complete
  <2>1. n \notin DOMAIN dirs => ~whole
    OBVIOUS
  <2>2. dirs'[n] = [samples |-> worker.all, complete |-> whole]
    BY <1>4
  <2> HIDE DEF whole
  <2> QED BY <2>1, <2>2
<1>6. CompType'
  <2>1. \A b \in DOMAIN dirs' : dirs'[b] \in [samples : {dirs'[b].samples}, complete : BOOLEAN]
    <3> DEFINE whole == n \in DOMAIN dirs /\ dirs[n].complete
    <3>1. whole \in BOOLEAN
      OBVIOUS
    <3>2. dirs'[n] = [samples |-> worker.all, complete |-> whole]
      BY <1>4
    <3> HIDE DEF whole
    <3>3. dirs'[n] \in [samples : {dirs'[n].samples}, complete : BOOLEAN]
      BY <3>1, <3>2
    <3>4. \A b \in DOMAIN dirs : b # n => dirs'[b] \in [samples : {dirs'[b].samples}, complete : BOOLEAN]
      BY <1>4 DEF CompInv, CompType
    <3> QED BY <1>4, <3>3, <3>4
  <2>2. IsFiniteSet(DOMAIN dirs')
    BY <1>4, FS_AddElement DEF CompInv, CompType
  <2> QED BY <1>1, <1>2, <1>3, <1>4, <2>1, <2>2 DEF CompInv, CompType
<1>7. clashed' = {} => clashed = {} /\ n \notin DOMAIN dirs
  BY <1>1
<1>8. clashed' = {} => AllWrong(worker.all)
  BY <1>1, <1>7 DEF CompInv, MergeSound
<1>9. ASSUME clashed' = {} PROVE DOMAIN listed' \subseteq DOMAIN dirs' /\ MergeSound' /\ Kinds'
  <2>1. MergeSound'
    BY <1>1, <1>2, <1>4, <1>7, <1>9 DEF CompInv, MergeSound, Unopenable
  <2>2. Kinds'
    BY <1>1, <1>4, <1>5, <1>7, <1>8, <1>9 DEF CompInv, Kinds
  <2> QED BY <1>1, <1>4, <1>7, <1>9, <2>1, <2>2 DEF CompInv
<1>10. CompactionKeeps'
  <2>1. clashed' = {} => OnDisk \subseteq OnDisk'
    BY <1>4, <1>7 DEF OnDisk
  <2> QED BY <1>1, <1>7, <2>1, KeepsStep DEF CompInv
<1>11. TwiceIsFlushedTwice'
  BY <1>4, <1>5, <1>7, <1>8, KeysOf DEF CompInv, TwiceIsFlushedTwice, FlushedTwice
<1> QED BY <1>6, <1>9, <1>10, <1>11 DEF CompInv

\* meta.json makes the directory one that loading finds.
LEMMA MetaStep ==
  ASSUME CompInv, WriteMeta
  PROVE  CompInv'
<1> DEFINE n == worker.new
<1>1. /\ UNCHANGED <<listed, millis, clashed, unread, born>> /\ worker.pc = "meta"
      /\ dirs' = [dirs EXCEPT ![n].complete = TRUE]
  BY DEF WriteMeta
<1>2. /\ WorkerAs(worker') /\ worker'.pc = "replace" /\ worker'.ids = worker.ids /\ worker'.new = n
  BY DEF WriteMeta, CompInv, CompType, WorkerAs, WorkerPc
<1> HIDE DEF n
<1>3. /\ DOMAIN dirs' = DOMAIN dirs
      /\ n \in DOMAIN dirs => dirs'[n] = [dirs[n] EXCEPT !.complete = TRUE]
      /\ \A b \in DOMAIN dirs : b # n => dirs'[b] = dirs[b]
      /\ dirs' = [b \in DOMAIN dirs' |-> dirs'[b]]
  BY <1>1 DEF CompInv, CompType
<1>4. \A b \in DOMAIN dirs : /\ dirs'[b].samples = dirs[b].samples
                             /\ dirs[b].complete => dirs'[b].complete
                             /\ dirs'[b] \in [samples : {dirs'[b].samples}, complete : BOOLEAN]
  BY <1>3 DEF CompInv, CompType
<1>5. CompType'
  <2>1. \A b \in DOMAIN dirs' : dirs'[b] \in [samples : {dirs'[b].samples}, complete : BOOLEAN]
    BY <1>3, <1>4
  <2>2. DOMAIN dirs' \subseteq BlockId /\ IsFiniteSet(DOMAIN dirs')
    BY <1>3 DEF CompInv, CompType
  <2>3. dirs' = [b \in DOMAIN dirs' |-> dirs'[b]]
    BY <1>3
  <2>4. /\ listed' = [b \in DOMAIN listed' |-> listed'[b]] /\ millis' \in Nat
        /\ DOMAIN listed' \subseteq BlockId /\ IsFiniteSet(DOMAIN listed')
    BY <1>1 DEF CompInv, CompType
  <2> QED BY <1>2, <2>1, <2>2, <2>3, <2>4 DEF CompType
<1>6. clashed' = {} => DOMAIN listed' \subseteq DOMAIN dirs' /\ MergeSound' /\ Kinds'
  BY <1>1, <1>2, <1>3, <1>4 DEF CompInv, MergeSound, Kinds, Unopenable, n
<1>7. CompactionKeeps'
  <2>1. OnDisk \subseteq OnDisk'
    BY <1>3, <1>4 DEF OnDisk
  <2> QED BY <1>1, <2>1, KeepsStep DEF CompInv
<1>8. TwiceIsFlushedTwice'
  BY <1>1, <1>3, <1>4 DEF CompInv, TwiceIsFlushedTwice, FlushedTwice
<1> QED BY <1>5, <1>6, <1>7, <1>8 DEF CompInv

\* A block that is removed was opened: its samples are among those read wrong.
LEMMA RemoveStep ==
  ASSUME CompInv, NEW deleted \in BOOLEAN, remove_block(deleted)
  PROVE  CompInv'
<1> DEFINE h == Head(worker.ids)
<1>1. /\ UNCHANGED <<millis, clashed, born>> /\ worker.pc = "replace"
      /\ worker.ids # <<>>
      /\ listed' = WithoutBlock(listed, h)
      /\ dirs' = IF deleted THEN WithoutBlock(dirs, h) ELSE dirs
      /\ unread' = unread \cup (IF h \notin DOMAIN dirs \/ Stops(h) THEN {} ELSE dirs[h].samples)
  BY DEF remove_block
<1>2. worker.ids \in Seq(BlockId)
  BY DEF CompInv, CompType, WorkerAs
<1>3. /\ Tail(worker.ids) \in Seq(BlockId)
      /\ h \in BlockId /\ 1 \in DOMAIN worker.ids /\ h = worker.ids[1]
      /\ \A i \in DOMAIN Tail(worker.ids) : i + 1 \in DOMAIN worker.ids /\ Tail(worker.ids)[i] = worker.ids[i + 1]
  BY <1>1, <1>2, HeadTailProperties
<1>4. /\ WorkerAs(worker') /\ worker'.pc = "replace" /\ worker'.ids = Tail(worker.ids) /\ worker'.new = worker.new
  BY <1>3 DEF remove_block, CompInv, CompType, WorkerAs, WorkerPc
<1> HIDE DEF h
<1>5. /\ DOMAIN dirs' \in SUBSET DOMAIN dirs /\ DOMAIN listed' = DOMAIN listed \ {h}
      /\ DOMAIN dirs \ {h} \subseteq DOMAIN dirs'
      /\ \A b \in DOMAIN dirs' : dirs'[b] = dirs[b]
      /\ dirs' = [b \in DOMAIN dirs' |-> dirs'[b]]
      /\ listed' = [b \in DOMAIN listed' |-> listed'[b]]
  BY <1>1 DEF WithoutBlock, CompInv, CompType
<1>6. CompType'
  <2>1. IsFiniteSet(DOMAIN dirs') /\ IsFiniteSet(DOMAIN listed')
    <3>1. DOMAIN listed' \in SUBSET DOMAIN listed
      BY <1>5
    <3> QED BY <1>5, <3>1, FS_Subset DEF CompInv, CompType
  <2> QED BY <1>1, <1>4, <1>5, <2>1 DEF CompInv, CompType
<1>7. ASSUME clashed = {} 
      PROVE  /\ h # worker.new /\ worker.new \in DOMAIN dirs /\ ~Stops(h)
             /\ \A i \in DOMAIN worker.ids : worker.ids[i] # worker.new /\ ~Unopenable(worker.ids[i])
  BY <1>1, <1>3, <1>7 DEF CompInv, MergeSound, Stops, Unopenable
<1>8. ASSUME clashed' = {} PROVE DOMAIN listed' \subseteq DOMAIN dirs' /\ MergeSound' /\ Kinds'
  <2>1. MergeSound'
    <3>1. \A i \in DOMAIN worker'.ids : worker'.ids[i] # worker.new /\ ~Unopenable(worker'.ids[i])
      BY <1>1, <1>3, <1>4, <1>7, <1>8
    <3> QED BY <1>1, <1>4, <1>5, <1>7, <1>8, <3>1 DEF MergeSound, Unopenable
  <2>2. Kinds'
    BY <1>1, <1>5, <1>8 DEF CompInv, Kinds
  <2> QED BY <1>1, <1>5, <1>8, <2>1, <2>2 DEF CompInv
<1>9. CompactionKeeps'
  <2>1. clashed' = {} => OnDisk \cup unread \subseteq OnDisk' \cup unread'
    <3>1. ASSUME clashed' = {}, NEW x \in OnDisk PROVE x \in OnDisk' \cup unread'
      <4>1. PICK b \in DOMAIN dirs : dirs[b].complete /\ x \in dirs[b].samples
        BY <3>1 DEF OnDisk
      <4>2. CASE b = h
        BY <1>1, <1>7, <3>1, <4>1, <4>2
      <4>3. CASE b # h
        BY <1>5, <4>1, <4>3 DEF OnDisk
      <4> QED BY <4>2, <4>3
    <3> QED BY <1>1, <3>1
  <2> QED BY <1>1, <2>1, KeepsStep DEF CompInv
<1>10. TwiceIsFlushedTwice'
  BY <1>1, <1>5 DEF CompInv, TwiceIsFlushedTwice, FlushedTwice
<1> QED BY <1>6, <1>8, <1>9, <1>10 DEF CompInv

\* The merged block is listed.
LEMMA AddStep ==
  ASSUME CompInv, add_block
  PROVE  CompInv'
<1> DEFINE n == worker.new
<1>1. /\ UNCHANGED <<dirs, millis, clashed, unread, born>> /\ worker.pc = "replace"
      /\ DOMAIN listed' = DOMAIN listed \cup {n}
      /\ listed' = [b \in DOMAIN listed' |-> listed'[b]]
  BY DEF add_block
<1>2. /\ WorkerAs(worker') /\ worker'.pc = "next" /\ n \in BlockId
  BY DEF add_block, CompInv, CompType, WorkerAs, WorkerPc
<1>3. CompType'
  <2>1. IsFiniteSet(DOMAIN listed')
    BY <1>1, FS_AddElement DEF CompInv, CompType
  <2> QED BY <1>1, <1>2, <2>1 DEF CompInv, CompType
<1>4. clashed' = {} => DOMAIN listed' \subseteq DOMAIN dirs' /\ MergeSound' /\ Kinds'
  BY <1>1, <1>2 DEF CompInv, MergeSound, Kinds
<1> QED BY <1>1, <1>3, <1>4 DEF CompInv, CompactionKeeps, OnDisk, TwiceIsFlushedTwice

\* A block flushed beside the merges goes into a directory of its own.
LEMMA FlushStep ==
  ASSUME CompInv, FlushBlock
  PROVE  CompInv'
<1>1. /\ UNCHANGED <<listed, millis, worker, unread>>
      /\ LateBlock \cap born = {} /\ born' = born \cup LateBlock
      /\ clashed' = clashed \cup (DOMAIN dirs \cap {millis})
      /\ DOMAIN dirs' = DOMAIN dirs \cup {millis}
      /\ dirs'[millis] = [samples |-> LateBlock, complete |-> TRUE]
      /\ \A b \in DOMAIN dirs : b # millis => dirs'[b] = dirs[b]
      /\ dirs' = [b \in DOMAIN dirs' |-> dirs'[b]]
  BY DEF FlushBlock
<1>2. dirs'[millis].samples = LateBlock /\ dirs'[millis].complete = TRUE
  BY <1>1
<1>3. CompType'
  <2>1. \A b \in DOMAIN dirs' : dirs'[b] \in [samples : {dirs'[b].samples}, complete : BOOLEAN]
    <3>1. dirs'[millis] \in [samples : {dirs'[millis].samples}, complete : BOOLEAN]
      BY <1>1
    <3>2. \A b \in DOMAIN dirs : b # millis => dirs'[b] \in [samples : {dirs'[b].samples}, complete : BOOLEAN]
      BY <1>1 DEF CompInv, CompType
    <3> QED BY <1>1, <3>1, <3>2
  <2>2. IsFiniteSet(DOMAIN dirs') /\ millis \in BlockId
    BY <1>1, FS_AddElement DEF CompInv, CompType, BlockId
  <2> QED BY <1>1, <2>1, <2>2 DEF CompInv, CompType
<1>4. clashed' = {} => clashed = {} /\ millis \notin DOMAIN dirs
  BY <1>1
<1>5. ASSUME clashed' = {} PROVE DOMAIN listed' \subseteq DOMAIN dirs' /\ MergeSound' /\ Kinds'
  <2>1. MergeSound'
    BY <1>1, <1>4, <1>5 DEF CompInv, MergeSound, Unopenable
  <2>2. Kinds'
    BY <1>1, <1>2, <1>4, <1>5 DEF CompInv, Kinds
  <2> QED BY <1>1, <1>4, <1>5, <2>1, <2>2 DEF CompInv
<1>6. CompactionKeeps'
  <2>1. clashed' = {} => OnDisk \cup LateBlock \subseteq OnDisk'
    BY <1>1, <1>2, <1>4 DEF OnDisk
  <2> QED BY <1>1, <1>4, <2>1, KeepsStep DEF CompInv
<1>7. TwiceIsFlushedTwice'
  <2>1. ASSUME clashed' = {}, NEW c \in DOMAIN dirs, c # millis,
               NEW k \in Keys(dirs[c].samples) \cap Keys(LateBlock)
        PROVE  k[2] = WrongTime \/ FlushedTwice(k)
    <3>1. CASE c \in DOMAIN OldBlocks /\ dirs[c].samples = OldBlocks[c]
      BY <2>1, <3>1 DEF FlushedTwice
    <3>2. CASE LateBlock \subseteq born
      <4>1. LateBlock = {}
        BY <1>1, <3>2
      <4> QED BY <2>1, <4>1 DEF Keys
    <3>3. CASE AllWrong(dirs[c].samples)
      BY <2>1, <3>3, KeysOf
    <3> QED BY <1>4, <2>1, <3>1, <3>2, <3>3 DEF CompInv, Kinds
  <2> QED BY <1>1, <1>2, <1>4, <2>1 DEF CompInv, TwiceIsFlushedTwice, FlushedTwice
<1> QED BY <1>3, <1>5, <1>6, <1>7 DEF CompInv

\* Every step keeps the invariant.
LEMMA CompInvNext == CompInv /\ [CompNext]_compVars => CompInv'
<1> SUFFICES ASSUME CompInv, [CompNext]_compVars PROVE CompInv'
  OBVIOUS
<1>1. CASE check_and_compact \/ run_command \/ NextOfCheck \/ CrashC \/ LoadPanics
  BY <1>1, ControlSteps
<1>2. CASE LoadAll
  BY <1>2, LoadStep
<1>3. CASE WriteColumns
  BY <1>3, ColumnsStep
<1>4. CASE WriteMeta
  BY <1>4, MetaStep
<1>5. CASE \E deleted \in BOOLEAN : remove_block(deleted)
  BY <1>5, RemoveStep
<1>6. CASE add_block
  BY <1>6, AddStep
<1>7. CASE FlushBlock
  BY <1>7, FlushStep
<1>8. ASSUME UNCHANGED <<dirs, listed, worker, clashed, unread, born>>, millis' \in Nat
      PROVE  CompInv'
  BY <1>8 DEF CompInv, CompType, MergeSound, Kinds, CompactionKeeps, OnDisk, TwiceIsFlushedTwice
<1>9. ASSUME NEW c, Trigger(c) PROVE CompInv'
  BY <1>8, <1>9 DEF Trigger, CompInv, CompType
<1>10. CASE ClockC
  BY <1>8, <1>10 DEF ClockC, CompInv, CompType
<1>11. CASE UNCHANGED compVars
  BY <1>8, <1>11 DEF compVars, CompInv, CompType
<1> QED BY <1>1, <1>2, <1>3, <1>4, <1>5, <1>6, <1>7, <1>9, <1>10, <1>11 DEF CompNext, Working

\* Merging loses nothing and doubles nothing but for the named causes, for any
\* blocks, levels and thresholds (CompactionManager, BlockManager, BlockWriter).
THEOREM CompactionSoundHolds == CompSpec => []CompactionSound
<1>1. CompInv => CompactionSound
  BY DEF CompInv, CompactionSound
<1> QED BY <1>1, CompInvInit, CompInvNext, PTL DEF CompSpec
=============================================================================
