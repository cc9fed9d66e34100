--------------------------- MODULE StorageProofs ----------------------------
(***************************************************************************)
(* Proofs about downsampling, backups and tiers, for any number of tasks,   *)
(* levels, files, versions, days, tiers and blocks.                         *)
(***************************************************************************)
EXTENDS Downsample, Backup, Tiered, TLAPS, FiniteSetTheorems, SequenceTheorems

-----------------------------------------------------------------------------
(* Downsampling.  A task is in at most one place between the scheduling loop *)
(* and the end of its result, and the pool has received it once when it is   *)
(* in one of the pool's.                                                     *)

TaskStatus == {"none", "Pending", "Running", "Completed", "Failed", "Cancelled", "removed"}
TaskState == [status : TaskStatus, retries : Nat, late : BOOLEAN]
LoopPoints == {"tick", "pop", "list", "submit", "ended"}
ResultPoints == {"lock", "recv", "handle", "ended"}
WorkState == [t : Tasks, step : {"columns", "meta"}]

DsType ==
  /\ front \in {"scheduler", "manager"}
  /\ task \in [Tasks -> TaskState]
  /\ heap \subseteq Tasks
  /\ submitted \in Seq(Tasks)
  /\ listedDs \subseteq Tasks
  /\ sched \in [pc : LoopPoints, left : Int, t : Nat]
  /\ res \in [pc : ResultPoints, r : Nat \X BOOLEAN]
  /\ timed \subseteq Tasks
  /\ tasksQ \in Seq(Tasks)
  /\ working \subseteq WorkState
  /\ resultsQ \in Seq(Tasks \X BOOLEAN)
  /\ handed \in [Tasks -> Nat]
  /\ out \in [columns : Nat, meta : Nat]
  /\ overlap \in BOOLEAN

\* Front end and pool as they depend on the configuration and on stop().
FrontInv ==
  /\ isUp => pool /\ stopper = "no"
  /\ front = "manager" => heap = {} /\ timed = {} /\ sched.pc # "list"
  /\ sched.pc \in {"list", "submit"} => sched.t \in Tasks
  /\ res.pc = "handle" => res.r[1] \in Tasks

\* The tasks that wait for the pool have not been there.
HandedInv ==
  /\ \A t \in Tasks : handed[t] <= 1
  /\ \A t \in Tasks : t > Len(submitted) => handed[t] = 0 /\ task[t].status = "none"
  /\ \A t \in heap : t <= Len(submitted) /\ handed[t] = 0
  /\ \A t \in timed : t <= Len(submitted)
  /\ sched.pc \in {"list", "submit"} =>
       sched.t <= Len(submitted) /\ handed[sched.t] = 0 /\ sched.t \notin heap

\* A task is in one place of the pool, and is Pending there under the manager,
\* which never marks a task as running.
Sent(t) == handed[t] = 1 /\ (front = "manager" => task[t].status = "Pending")

SentInv ==
  /\ \A t \in InPool : Sent(t)
  /\ res.pc = "handle" => Sent(res.r[1])
  /\ front = "manager" /\ sched.pc = "submit" => task[sched.t].status = "Pending"

ApartInv ==
  /\ \A i, j \in DOMAIN tasksQ : tasksQ[i] = tasksQ[j] => i = j
  /\ \A w, v \in working : w.t = v.t => w = v
  /\ \A i, j \in DOMAIN resultsQ : resultsQ[i][1] = resultsQ[j][1] => i = j
  /\ \A i \in DOMAIN tasksQ, w \in working : tasksQ[i] # w.t
  /\ \A i \in DOMAIN tasksQ, j \in DOMAIN resultsQ : tasksQ[i] # resultsQ[j][1]
  /\ \A w \in working, j \in DOMAIN resultsQ : w.t # resultsQ[j][1]
  /\ res.pc = "handle" => /\ \A i \in DOMAIN tasksQ : tasksQ[i] # res.r[1]
                          /\ \A w \in working : w.t # res.r[1]
                          /\ \A j \in DOMAIN resultsQ : resultsQ[j][1] # res.r[1]

\* What the workers leave in the block directory, while they run one by one.
SomeFailed == \E t \in Tasks : task[t].status = "Failed"
Fails(r) == ~r[2] /\ r[1] # 0
Explained ==
  \/ out.columns = out.meta
  \/ SomeFailed
  \/ \E j \in DOMAIN resultsQ : Fails(resultsQ[j])
  \/ Fails(res.r)

OutInv ==
  /\ front = "scheduler" => out.columns = out.meta
  /\ front = "manager" /\ res.pc # "handle" /\ Fails(res.r) => SomeFailed
  /\ ~overlap =>
       /\ \A w, v \in working : w = v
       /\ \A w \in working : front = "manager" /\ w.step = "meta" => out.columns = LevelOfTask(w.t)
       /\ (\A w \in working : w.step = "columns") => Explained

DsInv == DsType /\ FrontInv /\ HandedInv /\ NoLeakedSlot /\ SentInv /\ ApartInv /\ OutInv

\* Every step keeps the types.
LEMMA DsTypeStep ==
  ASSUME DsType, FrontInv, [DsNext]_dsVars
  PROVE  DsType'
<1> USE DownsampleAssumption
<1>1. CASE UNCHANGED dsVars
  BY <1>1 DEF DsType, dsVars
<1>2. CASE submit_task
  <2>1. task' \in [Tasks -> TaskState]
    BY <1>2 DEF DsType, submit_task, TaskState, TaskStatus, WithStatus
  <2>2. submitted' \in Seq(Tasks)
    BY <1>2 DEF DsType, submit_task
  <2>3. heap' \subseteq Tasks
    BY <1>2 DEF DsType, submit_task
  <2> QED BY <1>2, <2>1, <2>2, <2>3 DEF DsType, submit_task, frontVars, poolVars
<1>3. CASE create_task
  <2>1. task' \in [Tasks -> TaskState]
    BY <1>3 DEF DsType, create_task, TaskState, TaskStatus, WithStatus
  <2>2. submitted' \in Seq(Tasks)
    BY <1>3 DEF DsType, create_task
  <2> QED BY <1>3, <2>1, <2>2 DEF DsType, create_task, frontVars, poolVars
<1>4. CASE cleanup_completed_tasks
  <2>1. task' \in [Tasks -> TaskState]
    BY <1>4 DEF DsType, cleanup_completed_tasks, TaskState, TaskStatus, WithStatus
  <2> QED BY <1>4, <2>1 DEF DsType, cleanup_completed_tasks, frontVars, poolVars
<1>5. CASE StopCalled
  BY <1>5 DEF DsType, StopCalled, frontVars, poolVars
<1>6. ASSUME NEW t \in Tasks, cancel_task(t) PROVE DsType'
  <2>1. task' \in [Tasks -> TaskState]
    BY <1>6 DEF DsType, cancel_task, TaskState, TaskStatus, WithStatus
  <2> QED BY <1>6, <2>1 DEF DsType, cancel_task, frontVars, poolVars
<1>7. ASSUME NEW t \in Tasks, Expire(t) PROVE DsType'
  <2>1. task' \in [Tasks -> TaskState]
    BY <1>7 DEF DsType, Expire, TaskState, TaskStatus
  <2> QED BY <1>7, <2>1 DEF DsType, Expire, frontVars, poolVars
<1>8. CASE StopTakesPool
  BY <1>8 DEF DsType, StopTakesPool, frontVars, poolVars
<1>9. CASE StopJoins
  BY <1>9 DEF DsType, StopJoins, frontVars, poolVars
<1>10. CASE SchedulerTick
  <2>1. listedDs \in SUBSET Tasks
    BY DEF DsType
  <2>2. IsFiniteSet(Tasks)
    BY FS_Interval DEF Tasks
  <2>4. Cardinality(listedDs) \in Nat
    BY <2>1, <2>2, FS_Subset, FS_CardinalityType
  <2>3. sched' \in [pc : LoopPoints, left : Int, t : Nat]
    BY <1>10, <2>4 DEF DsType, SchedulerTick, LoopPoints
  <2> QED BY <1>10, <2>3 DEF DsType, SchedulerTick, frontVars, poolVars
<1>11. CASE Pop
  <2>1. CASE heap = {} \/ sched.left = 0
    BY <1>11, <2>1 DEF DsType, Pop, LoopPoints, poolVars
  <2>2. CASE ~(heap = {} \/ sched.left = 0)
    <3>1. PICK t \in Top :
            /\ heap' = heap \ {t}
            /\ task' = task \/ task' = [task EXCEPT ![t] = mark_running(@)]
            /\ \E p \in {"pop", "list"} : sched' = [pc |-> p, left |-> sched.left - 1, t |-> t]
      BY <1>11, <2>2 DEF Pop
    <3>2. t \in Tasks
      BY DEF DsType, Top
    <3>5. mark_running(task[t]) \in TaskState
      BY <3>2 DEF DsType, TaskState, TaskStatus, mark_running
    <3>3. task' \in [Tasks -> TaskState]
      BY <3>1, <3>2, <3>5 DEF DsType
    <3>4. sched' \in [pc : LoopPoints, left : Int, t : Nat]
      BY <3>1, <3>2 DEF DsType, LoopPoints, Tasks
    <3> QED BY <1>11, <3>1, <3>3, <3>4 DEF DsType, Pop, poolVars
  <2> QED BY <2>1, <2>2
<1>12. CASE List
  <2>1. sched' \in [pc : LoopPoints, left : Int, t : Nat]
    BY <1>12 DEF DsType, List, LoopPoints
  <2> QED BY <1>12, <2>1 DEF DsType, FrontInv, List, frontVars, poolVars
<1>13. CASE ManagerTick
  <2>1. task' \in [Tasks -> TaskState]
    BY <1>13 DEF DsType, ManagerTick, TaskState, TaskStatus, WithStatus
  <2>2. submitted' \in Seq(Tasks)
    BY <1>13 DEF DsType, ManagerTick
  <2>3. sched' \in [pc : LoopPoints, left : Int, t : Nat]
    BY <1>13 DEF DsType, ManagerTick, LoopPoints, Tasks
  <2> QED BY <1>13, <2>1, <2>2, <2>3 DEF DsType, ManagerTick, frontVars, poolVars
<1>14. CASE Submit
  <2>1. sched' \in [pc : LoopPoints, left : Int, t : Nat]
    BY <1>14 DEF DsType, Submit, LoopPoints
  <2>2. CASE pool
    <3>1. sched.t \in Tasks
      BY <1>14 DEF FrontInv, Submit
    <3>0. tasksQ' = Append(tasksQ, sched.t) /\ handed' = [handed EXCEPT ![sched.t] = @ + 1]
      BY <1>14, <2>2, Zenon DEF Submit
    <3>2. tasksQ' \in Seq(Tasks)
      BY <3>0, <3>1 DEF DsType
    <3>3. handed' \in [Tasks -> Nat]
      BY <3>0, <3>1 DEF DsType
    <3> QED BY <1>14, <2>1, <3>2, <3>3 DEF DsType, Submit, frontVars
  <2>3. CASE ~pool
    BY <1>14, <2>1, <2>3 DEF DsType, Submit, frontVars
  <2> QED BY <2>2, <2>3
<1>15. CASE SchedulerEnds
  <2>1. sched' \in [pc : LoopPoints, left : Int, t : Nat]
    BY <1>15 DEF DsType, SchedulerEnds, LoopPoints
  <2> QED BY <1>15, <2>1 DEF DsType, SchedulerEnds, frontVars, poolVars
<1>16. CASE CollectTimeouts
  BY <1>16 DEF DsType, CollectTimeouts, frontVars, poolVars
<1>17. ASSUME NEW t \in Tasks, HandleTimeout(t) PROVE DsType'
  <2>1. task' \in [Tasks -> TaskState]
    BY <1>17 DEF DsType, HandleTimeout, TaskState, TaskStatus, can_retry, reset_for_retry, mark_failed, WithStatus
  <2> QED BY <1>17, <2>1 DEF DsType, HandleTimeout, frontVars, poolVars
<1>18. CASE Dispatch
  <2>1. tasksQ' \in Seq(Tasks)
    BY <1>18 DEF DsType, Dispatch
  <2>2. working' \subseteq WorkState
    BY <1>18 DEF DsType, Dispatch, WorkState
  <2> QED BY <1>18, <2>1, <2>2 DEF DsType, Dispatch, frontVars, poolVars
<1>19. ASSUME NEW w \in working, ProcessColumns(w) PROVE DsType'
  <2>1. working' \subseteq WorkState
    BY <1>19 DEF DsType, ProcessColumns, WorkState
  <2>2. out' \in [columns : Nat, meta : Nat]
    BY <1>19 DEF DsType, ProcessColumns, WorkState, LevelOfTask, Tasks
  <2> QED BY <1>19, <2>1, <2>2 DEF DsType, ProcessColumns, frontVars, poolVars
<1>20. ASSUME NEW w \in working, NEW ok \in BOOLEAN, Process(w, ok) PROVE DsType'
  <2>1. resultsQ' \in Seq(Tasks \X BOOLEAN)
    BY <1>20 DEF DsType, Process, WorkState
  <2>2. out' \in [columns : Nat, meta : Nat]
    BY <1>20 DEF DsType, Process, WorkState, LevelOfTask, Tasks
  <2> QED BY <1>20, <2>1, <2>2 DEF DsType, Process, frontVars, poolVars
<1>21. CASE ResultLock
  <2>1. res' \in [pc : ResultPoints, r : Nat \X BOOLEAN]
    BY <1>21 DEF DsType, ResultLock, ResultPoints
  <2> QED BY <1>21, <2>1 DEF DsType, ResultLock, frontVars, poolVars
<1>22. CASE recv_result
  <2>1. CASE pool
    <3>1. Head(resultsQ) \in Tasks \X BOOLEAN /\ Tail(resultsQ) \in Seq(Tasks \X BOOLEAN)
      BY <1>22, <2>1 DEF DsType, recv_result
    <3>0. res' = [pc |-> "handle", r |-> Head(resultsQ)]
      BY <1>22, <2>1, Zenon DEF recv_result
    <3>3. Head(resultsQ) \in Nat \X BOOLEAN
      BY <3>1 DEF Tasks
    <3>2. res' \in [pc : ResultPoints, r : Nat \X BOOLEAN]
      BY <3>0, <3>3 DEF ResultPoints
    <3> QED BY <1>22, <2>1, <3>1, <3>2 DEF DsType, recv_result, frontVars
  <2>2. CASE ~pool
    <3>1. res' \in [pc : ResultPoints, r : Nat \X BOOLEAN]
      BY <1>22, <2>2 DEF DsType, recv_result, ResultPoints
    <3> QED BY <1>22, <2>2, <3>1 DEF DsType, recv_result, frontVars
  <2> QED BY <2>1, <2>2
<1>23. CASE handle_task_result
  <2>1. res.r[1] \in Tasks
    BY <1>23 DEF FrontInv, handle_task_result
  <2>2. task' \in [Tasks -> TaskState]
    BY <1>23, <2>1 DEF DsType, handle_task_result, TaskState, TaskStatus, can_retry, reset_for_retry,
                      mark_failed, mark_completed, WithStatus
  <2>3. res' \in [pc : ResultPoints, r : Nat \X BOOLEAN]
    BY <1>23 DEF DsType, handle_task_result, ResultPoints
  <2> QED BY <1>23, <2>2, <2>3 DEF DsType, handle_task_result, poolVars
<1> QED BY <1>1, <1>2, <1>3, <1>4, <1>5, <1>6, <1>7, <1>8, <1>9, <1>10, <1>11, <1>12, <1>13, <1>14, <1>15, <1>16, <1>17, <1>18, <1>19, <1>20, <1>21, <1>22, <1>23
  DEF DsNext, StopSteps, SchedulerLoop, TimeoutLoop, PoolSteps, ResultLoop

\* Every step keeps what depends on the configuration and on stop().
LEMMA FrontStep ==
  ASSUME DsType, FrontInv, [DsNext]_dsVars
  PROVE  FrontInv'
<1> USE DownsampleAssumption
<1>1. CASE UNCHANGED dsVars \/ cleanup_completed_tasks \/ (\E t \in Tasks : cancel_task(t)) \/
            (\E t \in Tasks : Expire(t)) \/ Dispatch \/ (\E w \in working : ProcessColumns(w))
            \/ (\E w \in working, ok \in BOOLEAN : Process(w, ok))
  BY <1>1 DEF FrontInv, DsType, dsVars, frontVars, poolVars, cleanup_completed_tasks,
              cancel_task, Expire, Dispatch, ProcessColumns, Process
<1>2. CASE submit_task
  BY <1>2 DEF FrontInv, DsType, submit_task, frontVars, poolVars
<1>3. CASE create_task
  BY <1>3 DEF FrontInv, DsType, create_task, frontVars, poolVars
<1>4. CASE StopCalled
  BY <1>4 DEF FrontInv, DsType, StopCalled, frontVars, poolVars
<1>5. CASE StopTakesPool
  BY <1>5 DEF FrontInv, DsType, StopTakesPool, frontVars, poolVars
<1>6. CASE StopJoins
  BY <1>6 DEF FrontInv, DsType, StopJoins, frontVars, poolVars
<1>7. CASE SchedulerTick
  BY <1>7 DEF FrontInv, DsType, SchedulerTick, frontVars, poolVars, LoopPoints
<1>8. CASE Pop
  <2>1. CASE heap = {} \/ sched.left = 0
    BY <1>8, <2>1 DEF FrontInv, DsType, Pop, LoopPoints, poolVars
  <2>2. CASE ~(heap = {} \/ sched.left = 0)
    <3>1. PICK t \in Top : /\ heap' = heap \ {t}
                          /\ \E p \in {"pop", "list"} : sched' = [pc |-> p, left |-> sched.left - 1, t |-> t]
      BY <1>8, <2>2 DEF Pop
    <3>2. t \in Tasks /\ sched'.t = t
      BY <3>1 DEF DsType, Top
    <3> QED BY <1>8, <2>2, <3>1, <3>2 DEF FrontInv, Pop, poolVars
  <2> QED BY <2>1, <2>2
<1>9. CASE List
  BY <1>9 DEF FrontInv, DsType, List, frontVars, poolVars, LoopPoints
<1>10. CASE ManagerTick
  BY <1>10 DEF FrontInv, DsType, ManagerTick, frontVars, poolVars
<1>11. CASE Submit
  BY <1>11 DEF FrontInv, DsType, Submit, frontVars, poolVars, LoopPoints
<1>12. CASE SchedulerEnds
  BY <1>12 DEF FrontInv, DsType, SchedulerEnds, frontVars, poolVars, LoopPoints
<1>13. CASE CollectTimeouts
  BY <1>13 DEF FrontInv, DsType, CollectTimeouts, frontVars, poolVars
<1>14. ASSUME NEW t \in Tasks, HandleTimeout(t) PROVE FrontInv'
  BY <1>14 DEF FrontInv, DsType, HandleTimeout, frontVars, poolVars
<1>15. CASE ResultLock
  BY <1>15 DEF FrontInv, DsType, ResultLock, frontVars, poolVars, ResultPoints
<1>16. CASE recv_result
  <2>1. CASE pool
    <3>1. res' = [pc |-> "handle", r |-> Head(resultsQ)]
      BY <1>16, <2>1, Zenon DEF recv_result
    <3>2. Head(resultsQ) \in Tasks \X BOOLEAN
      BY <1>16, <2>1 DEF DsType, recv_result
    <3> QED BY <1>16, <3>1, <3>2 DEF FrontInv, recv_result, frontVars
  <2>2. CASE ~pool
    BY <1>16, <2>2 DEF FrontInv, DsType, recv_result, frontVars, ResultPoints
  <2> QED BY <2>1, <2>2
<1>17. CASE handle_task_result
  <2>1. res'.pc # "handle"
    BY <1>17 DEF handle_task_result, DsType, ResultPoints
  <2> QED BY <1>17, <2>1 DEF FrontInv, handle_task_result, poolVars
<1> QED BY <1>1, <1>2, <1>3, <1>4, <1>5, <1>6, <1>7, <1>8, <1>9, <1>10, <1>11, <1>12, <1>13, <1>14, <1>15, <1>16, <1>17
  DEF DsNext, StopSteps, SchedulerLoop, TimeoutLoop, PoolSteps, ResultLoop

\* Every step keeps the tasks that wait apart from those the pool has received.
LEMMA HandedStep ==
  ASSUME DsType, FrontInv, HandedInv, SentInv, [DsNext]_dsVars
  PROVE  HandedInv'
<1> USE DownsampleAssumption
<1>1. CASE UNCHANGED dsVars \/ StopCalled \/ StopTakesPool \/ StopJoins \/ Dispatch \/ (\E w
            \in working : ProcessColumns(w)) \/ (\E w \in working, ok \in BOOLEAN : Process(w,
            ok)) \/ ResultLock \/ recv_result
  BY <1>1 DEF HandedInv, DsType, dsVars, frontVars, poolVars, StopCalled, StopTakesPool,
              StopJoins, Dispatch, ProcessColumns, Process, ResultLock, recv_result
<1>2. CASE submit_task
  <2> DEFINE n == Len(submitted) + 1
  <2>1. n \in Tasks /\ Len(submitted) \in Nat /\ Len(submitted') = n
    BY <1>2 DEF DsType, submit_task
  <2>2. \A t \in Tasks : t # n => task'[t] = task[t]
    BY <1>2 DEF DsType, submit_task, WithStatus
  <2>3. \A t \in Tasks : t > n => t # n /\ t > Len(submitted)
    BY <2>1 DEF Tasks
  <2>4. \A t \in Tasks : t <= Len(submitted) => t <= n /\ t # n
    BY <2>1 DEF Tasks
  <2>5. handed[n] = 0 /\ n <= n
    BY <2>1 DEF HandedInv, Tasks
  <2> HIDE DEF n
  <2>6. heap' = heap \cup {n} /\ UNCHANGED <<timed, sched, handed>>
    BY <1>2 DEF submit_task, poolVars, n
  <2>7. sched.pc \in {"list", "submit"} => sched.t \in Tasks /\ sched.t # n
    BY <2>4 DEF HandedInv, FrontInv
  <2> QED BY <2>1, <2>2, <2>3, <2>4, <2>5, <2>6, <2>7 DEF HandedInv, FrontInv, DsType
<1>3. CASE create_task
  <2> DEFINE n == Len(submitted) + 1
  <2>1. n \in Tasks /\ Len(submitted) \in Nat /\ Len(submitted') = n
    BY <1>3 DEF DsType, create_task
  <2>2. \A t \in Tasks : t # n => task'[t] = task[t]
    BY <1>3 DEF DsType, create_task, WithStatus
  <2>3. \A t \in Tasks : t > n => t # n /\ t > Len(submitted)
    BY <2>1 DEF Tasks
  <2>4. \A t \in Tasks : t <= Len(submitted) => t <= n /\ t # n
    BY <2>1 DEF Tasks
  <2>5. handed[n] = 0 /\ n <= n
    BY <2>1 DEF HandedInv, Tasks
  <2> HIDE DEF n
  <2>6. UNCHANGED <<heap, timed, sched, handed>>
    BY <1>3 DEF create_task, poolVars
  <2> QED BY <2>1, <2>2, <2>3, <2>4, <2>6 DEF HandedInv, FrontInv, DsType
<1>4. CASE cleanup_completed_tasks
  <2>1. \A t \in Tasks : task[t].status = "none" => task'[t] = task[t]
    BY <1>4 DEF cleanup_completed_tasks
  <2> QED BY <1>4, <2>1 DEF HandedInv, cleanup_completed_tasks, poolVars
<1>5. ASSUME NEW t \in Tasks, cancel_task(t) PROVE HandedInv'
  <2>1. \A u \in Tasks : task[u].status = "none" => task'[u] = task[u]
    BY <1>5 DEF cancel_task, DsType
  <2> QED BY <1>5, <2>1 DEF HandedInv, cancel_task, poolVars
<1>6. ASSUME NEW t \in Tasks, Expire(t) PROVE HandedInv'
  <2>1. \A u \in Tasks : task[u].status = "none" => task'[u] = task[u]
    BY <1>6 DEF Expire, DsType
  <2> QED BY <1>6, <2>1 DEF HandedInv, Expire, poolVars
<1>7. CASE SchedulerTick
  BY <1>7 DEF HandedInv, DsType, SchedulerTick, frontVars, poolVars, LoopPoints
<1>8. CASE Pop
  <2>1. CASE heap = {} \/ sched.left = 0
    BY <1>8, <2>1 DEF HandedInv, DsType, Pop, LoopPoints, poolVars
  <2>2. CASE ~(heap = {} \/ sched.left = 0)
    <3>1. PICK t \in Top :
            /\ heap' = heap \ {t}
            /\ task' = task \/ task' = [task EXCEPT ![t] = mark_running(@)]
            /\ \E p \in {"pop", "list"} : sched' = [pc |-> p, left |-> sched.left - 1, t |-> t]
      BY <1>8, <2>2 DEF Pop
    <3>2. t \in heap /\ t \in Tasks /\ sched'.t = t
      BY <3>1 DEF DsType, Top
    <3>3. t <= Len(submitted) /\ handed[t] = 0 /\ Len(submitted) \in Nat
      BY <3>2 DEF HandedInv, DsType
    <3>4. \A u \in Tasks : u > Len(submitted) => u # t
      BY <3>3 DEF Tasks
    <3>5. \A u \in Tasks : u > Len(submitted) => task'[u] = task[u]
      BY <3>1, <3>4 DEF DsType
    <3>6. UNCHANGED <<submitted, handed, timed>>
      BY <1>8 DEF Pop, poolVars
    <3> QED BY <3>1, <3>2, <3>3, <3>5, <3>6 DEF HandedInv
  <2> QED BY <2>1, <2>2
<1>9. CASE List
  BY <1>9 DEF HandedInv, DsType, List, frontVars, poolVars, LoopPoints
<1>10. CASE ManagerTick
  <2> DEFINE n == Len(submitted) + 1
  <2>1. n \in Tasks /\ Len(submitted) \in Nat /\ Len(submitted') = n
    BY <1>10 DEF DsType, ManagerTick
  <2>2. \A t \in Tasks : t # n => task'[t] = task[t]
    BY <1>10 DEF DsType, ManagerTick, WithStatus
  <2>3. \A t \in Tasks : t > n => t # n /\ t > Len(submitted)
    BY <2>1 DEF Tasks
  <2>4. \A t \in Tasks : t <= Len(submitted) => t <= n /\ t # n
    BY <2>1 DEF Tasks
  <2>5. handed[n] = 0 /\ n <= n
    BY <2>1 DEF HandedInv, Tasks
  <2> HIDE DEF n
  <2>6. UNCHANGED <<heap, timed, handed>> /\ sched'.t = n
    BY <1>10 DEF ManagerTick, poolVars, n
  <2> QED BY <2>1, <2>2, <2>3, <2>4, <2>5, <2>6 DEF HandedInv, FrontInv, DsType
<1>11. CASE Submit
  <2>1. sched.t \in Tasks /\ handed[sched.t] = 0 /\ sched.t \notin heap /\ sched.t <= Len(submitted)
    BY <1>11 DEF Submit, HandedInv, FrontInv
  <2>2. Len(submitted) \in Nat
    BY DEF DsType
  <2>3. \A u \in Tasks : u > Len(submitted) => u # sched.t
    BY <2>1, <2>2 DEF Tasks
  <2>4. sched'.pc = "pop"
    BY <1>11 DEF Submit, DsType, LoopPoints
  <2>5. handed' = handed \/ handed' = [handed EXCEPT ![sched.t] = 1]
    BY <1>11, <2>1 DEF Submit, DsType
  <2>6. \A u \in Tasks : handed'[u] = handed[u] \/ (u = sched.t /\ handed'[u] = 1)
    BY <2>5 DEF DsType
  <2>7. UNCHANGED <<task, heap, submitted, timed>>
    BY <1>11 DEF Submit, frontVars
  <2>8. \A u \in Tasks : handed'[u] <= 1
    BY <2>6 DEF HandedInv
  <2>9. \A u \in Tasks : u # sched.t => handed'[u] = handed[u]
    BY <2>6
  <2>10. heap \subseteq Tasks /\ \A u \in heap : u # sched.t
    BY <2>1 DEF DsType
  <2> QED BY <2>3, <2>4, <2>7, <2>8, <2>9, <2>10 DEF HandedInv
<1>12. CASE SchedulerEnds
  BY <1>12 DEF HandedInv, DsType, SchedulerEnds, frontVars, poolVars, LoopPoints
<1>13. CASE CollectTimeouts
  <2>1. \A t \in timed' : t \in Tasks /\ task[t].status # "none"
    BY <1>13 DEF CollectTimeouts
  <2>2. \A t \in Tasks : ~(t > Len(submitted)) => t <= Len(submitted)
    BY DEF DsType, Tasks
  <2> QED BY <1>13, <2>1, <2>2 DEF HandedInv, CollectTimeouts, poolVars
<1>14. ASSUME NEW t \in Tasks, HandleTimeout(t) PROVE HandedInv'
  <2>1. \A u \in Tasks : u # t => task'[u] = task[u]
    BY <1>14 DEF HandleTimeout, DsType
  <2>2. t <= Len(submitted) /\ Len(submitted) \in Nat
    BY <1>14 DEF HandleTimeout, HandedInv, DsType
  <2>3. \A u \in Tasks : u > Len(submitted) => u # t
    BY <2>2 DEF Tasks
  <2> QED BY <1>14, <2>1, <2>3 DEF HandedInv, HandleTimeout, poolVars
<1>15. CASE handle_task_result
  <2>1. res.r[1] \in Tasks /\ handed[res.r[1]] = 1
    BY <1>15 DEF handle_task_result, FrontInv, SentInv, Sent
  <2>2. \A u \in Tasks : u # res.r[1] => task'[u] = task[u]
    BY <1>15 DEF handle_task_result, DsType
  <2>3. \A u \in Tasks : u > Len(submitted) => u # res.r[1]
    BY <2>1 DEF HandedInv
  <2> QED BY <1>15, <2>2, <2>3 DEF HandedInv, handle_task_result, poolVars
<1> QED BY <1>1, <1>2, <1>3, <1>4, <1>5, <1>6, <1>7, <1>8, <1>9, <1>10, <1>11, <1>12, <1>13, <1>14, <1>15
  DEF DsNext, StopSteps, SchedulerLoop, TimeoutLoop, PoolSteps, ResultLoop

\* What is left of a queue when its head is taken, and what an append adds.
LEMMA QueueTail ==
  ASSUME NEW S, NEW s \in Seq(S), s # <<>>
  PROVE  /\ Head(s) = s[1] /\ 1 \in DOMAIN s
         /\ \A i \in DOMAIN Tail(s) : i + 1 \in DOMAIN s /\ i + 1 # 1 /\ Tail(s)[i] = s[i + 1]
         /\ \A i \in DOMAIN s : i # 1 => i - 1 \in DOMAIN Tail(s) /\ Tail(s)[i - 1] = s[i]
         /\ \A i, j \in DOMAIN Tail(s) : i + 1 = j + 1 => i = j
OBVIOUS

\* A queue with one more task.
LEMMA QueueAppend ==
  ASSUME NEW S, NEW s \in Seq(S), NEW x
  PROVE  /\ Len(s) + 1 \in DOMAIN Append(s, x) /\ Append(s, x)[Len(s) + 1] = x
         /\ \A i \in DOMAIN s : i \in DOMAIN Append(s, x) /\ Append(s, x)[i] = s[i]
         /\ \A i \in DOMAIN Append(s, x) : i \in DOMAIN s \/ i = Len(s) + 1
         /\ Len(s) + 1 \notin DOMAIN s
OBVIOUS

\* The elements of a queue when its head is taken and after an append.
LEMMA QueueElements ==
  ASSUME NEW S, NEW s \in Seq(S)
  PROVE  /\ s # <<>> => ToSet(s) = ToSet(Tail(s)) \cup {Head(s)}
         /\ \A x : ToSet(Append(s, x)) = ToSet(s) \cup {x}
<1>1. ASSUME s # <<>> PROVE ToSet(s) = ToSet(Tail(s)) \cup {Head(s)}
  <2>1. ASSUME NEW i \in DOMAIN s PROVE s[i] \in ToSet(Tail(s)) \cup {Head(s)}
    <3>1. CASE i = 1
      BY <1>1, <3>1, QueueTail
    <3>2. CASE i # 1
      <4>1. i - 1 \in DOMAIN Tail(s) /\ Tail(s)[i - 1] = s[i]
        BY <1>1, <3>2, QueueTail
      <4> QED BY <4>1 DEF ToSet
    <3> QED BY <3>1, <3>2
  <2>2. ASSUME NEW i \in DOMAIN Tail(s) PROVE Tail(s)[i] \in ToSet(s)
    BY <1>1, QueueTail DEF ToSet
  <2>3. Head(s) \in ToSet(s)
    BY <1>1, QueueTail DEF ToSet
  <2> QED BY <2>1, <2>2, <2>3 DEF ToSet
<1>2. ASSUME NEW x PROVE ToSet(Append(s, x)) = ToSet(s) \cup {x}
  BY QueueAppend DEF ToSet
<1> QED BY <1>1, <1>2

\* The tasks of a set of workers, and of a set of results, with one more.
LEMMA OneMore ==
  ASSUME NEW W, NEW x
  PROVE  /\ {w.t : w \in W \cup {x}} = {w.t : w \in W} \cup {x.t}
         /\ {w[1] : w \in W \cup {x}} = {w[1] : w \in W} \cup {x[1]}
OBVIOUS

\* Dispatch and the workers only move a task within the pool.
LEMMA PoolMoves ==
  ASSUME DsType,
         Dispatch \/ \E w \in working : ProcessColumns(w) \/ \E ok \in BOOLEAN : Process(w, ok)
  PROVE  InPool' = InPool
<1>1. CASE Dispatch
  <2>1. ToSet(tasksQ) = ToSet(tasksQ') \cup {Head(tasksQ)}
    BY <1>1, QueueElements DEF Dispatch, DsType
  <2>2. {w.t : w \in working'} = {w.t : w \in working} \cup {Head(tasksQ)}
    <3>1. working' = working \cup {[t |-> Head(tasksQ), step |-> "columns"]}
      BY <1>1 DEF Dispatch
    <3> QED BY <3>1, OneMore
  <2>3. resultsQ' = resultsQ
    BY <1>1 DEF Dispatch
  <2> QED BY <2>1, <2>2, <2>3 DEF InPool
<1>2. ASSUME NEW w \in working, ProcessColumns(w) PROVE InPool' = InPool
  <2>1. {v.t : v \in working'} = {v.t : v \in working}
    <3> DEFINE x == [t |-> w.t, step |-> "meta"]
    <3>1. working' = (working \ {w}) \cup {x} /\ x.t = w.t
      BY <1>2 DEF ProcessColumns
    <3> HIDE DEF x
    <3>2. {v.t : v \in working'} = {v.t : v \in working \ {w}} \cup {w.t}
      BY <3>1, OneMore
    <3>3. {v.t : v \in working \ {w}} \cup {w.t} = {v.t : v \in working}
      OBVIOUS
    <3> QED BY <3>2, <3>3
  <2>2. UNCHANGED <<tasksQ, resultsQ>>
    BY <1>2 DEF ProcessColumns
  <2> QED BY <2>1, <2>2 DEF InPool
<1>3. ASSUME NEW w \in working, NEW ok \in BOOLEAN, Process(w, ok) PROVE InPool' = InPool
  <2>1. ToSet(resultsQ') = ToSet(resultsQ) \cup {<<w.t, ok>>}
    BY <1>3, QueueElements DEF Process, DsType
  <2>2. {r[1] : r \in ToSet(resultsQ')} = {r[1] : r \in ToSet(resultsQ)} \cup {w.t}
    <3> DEFINE x == <<w.t, ok>>
    <3>1. ToSet(resultsQ') = ToSet(resultsQ) \cup {x} /\ x[1] = w.t
      BY <2>1
    <3> HIDE DEF x
    <3> QED BY <3>1, OneMore
  <2>3. {v.t : v \in working'} \cup {w.t} = {v.t : v \in working}
    BY <1>3 DEF Process
  <2>4. tasksQ' = tasksQ
    BY <1>3 DEF Process
  <2> QED BY <2>2, <2>3, <2>4 DEF InPool
<1> QED BY <1>1, <1>2, <1>3

\* A submitted task is in the pool; a result that is received leaves it.
LEMMA PoolEnds ==
  ASSUME DsType
  PROVE  /\ Submit /\ pool => InPool' = InPool \cup {sched.t}
         /\ recv_result /\ pool => InPool = InPool' \cup {res'.r[1]}
<1>1. ASSUME Submit, pool PROVE InPool' = InPool \cup {sched.t}
  <2>1. tasksQ' = Append(tasksQ, sched.t)
    BY <1>1, Zenon DEF Submit
  <2>2. ToSet(tasksQ') = ToSet(tasksQ) \cup {sched.t}
    BY <2>1, QueueElements DEF DsType
  <2>3. UNCHANGED <<working, resultsQ>>
    BY <1>1 DEF Submit
  <2> QED BY <2>2, <2>3 DEF InPool
<1>2. ASSUME recv_result, pool PROVE InPool = InPool' \cup {res'.r[1]}
  <2>1. resultsQ # <<>> /\ resultsQ' = Tail(resultsQ) /\ res' = [pc |-> "handle", r |-> Head(resultsQ)]
    BY <1>2, Zenon DEF recv_result
  <2>2. ToSet(resultsQ) = ToSet(resultsQ') \cup {res'.r}
    BY <2>1, QueueElements DEF DsType
  <2>3. {r[1] : r \in ToSet(resultsQ)} = {r[1] : r \in ToSet(resultsQ')} \cup {res'.r[1]}
    BY <2>2
  <2>4. UNCHANGED <<tasksQ, working>>
    BY <1>2 DEF recv_result
  <2> QED BY <2>3, <2>4 DEF InPool
<1> QED BY <1>1, <1>2

\* No step leaks a slot of running_tasks.
LEMMA SlotStep ==
  ASSUME DsType, FrontInv, NoLeakedSlot, [DsNext]_dsVars
  PROVE  NoLeakedSlot'
<1> USE DownsampleAssumption
<1>1. CASE UNCHANGED dsVars \/ submit_task \/ create_task \/ cleanup_completed_tasks \/ (\E t
            \in Tasks : Expire(t)) \/ StopJoins \/ CollectTimeouts
  BY <1>1 DEF NoLeakedSlot, InPool, dsVars, frontVars, poolVars, submit_task, create_task,
              cleanup_completed_tasks, Expire, StopJoins, CollectTimeouts
<1>2. CASE StopCalled
  BY <1>2 DEF NoLeakedSlot, StopCalled
<1>3. ASSUME NEW t \in Tasks, cancel_task(t) PROVE NoLeakedSlot'
  <2>1. InPool' = InPool
    BY <1>3 DEF InPool, cancel_task, poolVars
  <2> QED BY <1>3, <2>1 DEF NoLeakedSlot, DsType, cancel_task, frontVars, poolVars
<1>4. CASE StopTakesPool
  BY <1>4 DEF NoLeakedSlot, FrontInv, StopTakesPool
<1>5. CASE SchedulerTick
  <2>1. InPool' = InPool
    BY <1>5 DEF InPool, SchedulerTick, poolVars
  <2> QED BY <1>5, <2>1 DEF NoLeakedSlot, DsType, LoopPoints, ResultPoints, SchedulerTick, frontVars, poolVars
<1>6. CASE Pop
  <2>1. InPool' = InPool
    BY <1>6 DEF InPool, Pop, poolVars
  <2>2. UNCHANGED <<isUp, listedDs, res>> /\ sched.pc # "submit"
    BY <1>6 DEF Pop, DsType, LoopPoints
  <2> QED BY <2>1, <2>2 DEF NoLeakedSlot
<1>7. CASE List
  <2>1. InPool' = InPool
    BY <1>7 DEF InPool, List, poolVars
  <2> QED BY <1>7, <2>1 DEF NoLeakedSlot, DsType, LoopPoints, ResultPoints, List, frontVars, poolVars
<1>8. CASE ManagerTick
  <2>1. InPool' = InPool
    BY <1>8 DEF InPool, ManagerTick, poolVars
  <2> QED BY <1>8, <2>1 DEF NoLeakedSlot, DsType, ManagerTick, frontVars, poolVars
<1>9. CASE Submit
  <2>1. ASSUME pool PROVE NoLeakedSlot'
    <3>1. InPool' = InPool \cup {sched.t}
      BY <1>9, <2>1, PoolEnds
    <3> QED BY <1>9, <3>1 DEF NoLeakedSlot, Submit, frontVars
  <2> QED BY <1>9, <2>1 DEF NoLeakedSlot, FrontInv, Submit
<1>10. CASE SchedulerEnds
  <2>1. InPool' = InPool
    BY <1>10 DEF InPool, SchedulerEnds, poolVars
  <2> QED BY <1>10, <2>1 DEF NoLeakedSlot, DsType, LoopPoints, ResultPoints, SchedulerEnds, frontVars, poolVars
<1>11. ASSUME NEW t \in Tasks, HandleTimeout(t) PROVE NoLeakedSlot'
  <2>1. InPool' = InPool
    BY <1>11 DEF InPool, HandleTimeout, poolVars
  <2> QED BY <1>11, <2>1 DEF NoLeakedSlot, DsType, HandleTimeout, frontVars, poolVars
<1>12. CASE Dispatch
  <2>1. InPool' = InPool
    BY <1>12, PoolMoves
  <2> QED BY <1>12, <2>1 DEF NoLeakedSlot, Dispatch, frontVars
<1>13. ASSUME NEW w \in working, ProcessColumns(w) PROVE NoLeakedSlot'
  <2>1. InPool' = InPool
    BY <1>13, PoolMoves
  <2> QED BY <1>13, <2>1 DEF NoLeakedSlot, ProcessColumns, frontVars
<1>14. ASSUME NEW w \in working, NEW ok \in BOOLEAN, Process(w, ok) PROVE NoLeakedSlot'
  <2>1. InPool' = InPool
    BY <1>14, PoolMoves
  <2> QED BY <1>14, <2>1 DEF NoLeakedSlot, Process, frontVars
<1>15. CASE ResultLock
  <2>1. InPool' = InPool
    BY <1>15 DEF InPool, ResultLock, poolVars
  <2> QED BY <1>15, <2>1 DEF NoLeakedSlot, DsType, LoopPoints, ResultPoints, ResultLock, frontVars, poolVars
<1>16. CASE recv_result
  <2>1. ASSUME pool PROVE NoLeakedSlot'
    <3>1. InPool = InPool' \cup {res'.r[1]} /\ res'.pc = "handle"
      BY <1>16, <2>1, PoolEnds DEF recv_result
    <3> QED BY <1>16, <3>1 DEF NoLeakedSlot, recv_result, frontVars
  <2> QED BY <1>16, <2>1 DEF NoLeakedSlot, FrontInv, recv_result
<1>17. CASE handle_task_result
  <2>1. InPool' = InPool
    BY <1>17 DEF InPool, handle_task_result, poolVars
  <2> QED BY <1>17, <2>1 DEF NoLeakedSlot, DsType, handle_task_result, frontVars, poolVars
<1> QED BY <1>1, <1>2, <1>3, <1>4, <1>5, <1>6, <1>7, <1>8, <1>9, <1>10, <1>11, <1>12, <1>13, <1>14, <1>15, <1>16, <1>17
  DEF DsNext, StopSteps, SchedulerLoop, TimeoutLoop, PoolSteps, ResultLoop

\* The pool holds tasks.
LEMMA PoolTyped == DsType => InPool \subseteq Tasks
<1> SUFFICES ASSUME DsType PROVE InPool \subseteq Tasks
  OBVIOUS
<1>1. ToSet(tasksQ) \subseteq Tasks
  BY DEF DsType, ToSet
<1>2. {w.t : w \in working} \subseteq Tasks
  BY DEF DsType, WorkState
<1>3. {r[1] : r \in ToSet(resultsQ)} \subseteq Tasks
  BY DEF DsType, ToSet
<1> QED BY <1>1, <1>2, <1>3 DEF InPool

\* A task in the pool stays Pending until its result is handled.
LEMMA SentStays ==
  ASSUME DsType, FrontInv, HandedInv, ~handle_task_result, [DsNext]_dsVars
  PROVE  \A u \in Tasks : Sent(u) => Sent(u)'
<1> USE DownsampleAssumption
<1>1. CASE UNCHANGED dsVars \/ StopCalled \/ StopTakesPool \/ StopJoins \/ SchedulerTick \/
            List \/ SchedulerEnds \/ CollectTimeouts \/ Dispatch \/ (\E w \in working :
            ProcessColumns(w)) \/ (\E w \in working, ok \in BOOLEAN : Process(w, ok)) \/
            ResultLock \/ recv_result
  BY <1>1 DEF Sent, dsVars, frontVars, poolVars, StopCalled, StopTakesPool, StopJoins,
              SchedulerTick, List, SchedulerEnds, CollectTimeouts, Dispatch, ProcessColumns,
              Process, ResultLock, recv_result
<1>2. CASE submit_task
  BY <1>2 DEF Sent, submit_task, frontVars, poolVars
<1>3. CASE create_task
  <2> DEFINE n == Len(submitted) + 1
  <2>1. n \in Tasks /\ n > Len(submitted)
    BY <1>3 DEF DsType, create_task
  <2>2. handed[n] = 0
    BY <2>1 DEF HandedInv
  <2>3. \A u \in Tasks : u # n => task'[u] = task[u]
    BY <1>3 DEF DsType, create_task
  <2> HIDE DEF n
  <2> QED BY <1>3, <2>2, <2>3 DEF Sent, create_task, poolVars
<1>4. CASE cleanup_completed_tasks
  <2>1. \A u \in Tasks : task[u].status = "Pending" => task'[u] = task[u]
    BY <1>4 DEF cleanup_completed_tasks
  <2> QED BY <1>4, <2>1 DEF Sent, cleanup_completed_tasks, poolVars
<1>5. ASSUME NEW t \in Tasks, cancel_task(t) PROVE \A u \in Tasks : Sent(u) => Sent(u)'
  BY <1>5 DEF Sent, cancel_task, frontVars, poolVars
<1>6. ASSUME NEW t \in Tasks, Expire(t) PROVE \A u \in Tasks : Sent(u) => Sent(u)'
  BY <1>6 DEF Sent, Expire, frontVars, poolVars
<1>7. CASE Pop
  <2>1. front = "manager" => task' = task
    BY <1>7 DEF Pop, FrontInv
  <2> QED BY <1>7, <2>1 DEF Sent, Pop, poolVars
<1>8. CASE ManagerTick
  <2> DEFINE n == Len(submitted) + 1
  <2>1. n \in Tasks /\ n > Len(submitted)
    BY <1>8 DEF DsType, ManagerTick
  <2>2. handed[n] = 0
    BY <2>1 DEF HandedInv
  <2>3. \A u \in Tasks : u # n => task'[u] = task[u]
    BY <1>8 DEF DsType, ManagerTick
  <2> HIDE DEF n
  <2> QED BY <1>8, <2>2, <2>3 DEF Sent, ManagerTick, poolVars
<1>9. CASE Submit
  <2>1. sched.t \in Tasks /\ handed[sched.t] = 0
    BY <1>9 DEF Submit, FrontInv, HandedInv
  <2>2. \A u \in Tasks : u # sched.t => handed'[u] = handed[u]
    BY <1>9, <2>1 DEF Submit, DsType
  <2> QED BY <1>9, <2>1, <2>2 DEF Sent, Submit, frontVars
<1>10. ASSUME NEW t \in Tasks, HandleTimeout(t) PROVE \A u \in Tasks : Sent(u) => Sent(u)'
  BY <1>10 DEF Sent, HandleTimeout, frontVars, poolVars, FrontInv
<1>11. CASE handle_task_result
  BY <1>11
<1> QED BY <1>1, <1>2, <1>3, <1>4, <1>5, <1>6, <1>7, <1>8, <1>9, <1>10, <1>11
  DEF DsNext, StopSteps, SchedulerLoop, TimeoutLoop, PoolSteps, ResultLoop

\* What the manager submits is Pending.
LEMMA SubmitPending ==
  ASSUME DsType, FrontInv, HandedInv, SentInv, ~handle_task_result, [DsNext]_dsVars
  PROVE  (front = "manager" /\ sched.pc = "submit" => task[sched.t].status = "Pending")'
<1> USE DownsampleAssumption
<1>1. CASE UNCHANGED dsVars \/ StopCalled \/ StopTakesPool \/ StopJoins \/ CollectTimeouts \/
            Dispatch \/ (\E w \in working : ProcessColumns(w)) \/ (\E w \in working, ok \in
            BOOLEAN : Process(w, ok)) \/ ResultLock \/ recv_result
  BY <1>1 DEF SentInv, FrontInv, dsVars, frontVars, poolVars, StopCalled, StopTakesPool,
              StopJoins, CollectTimeouts, Dispatch, ProcessColumns, Process, ResultLock,
              recv_result
<1>2. CASE submit_task
  BY <1>2 DEF SentInv, FrontInv, submit_task, frontVars, poolVars
<1>3. CASE create_task
  BY <1>3 DEF SentInv, FrontInv, create_task, frontVars, poolVars
<1>4. CASE cleanup_completed_tasks
  <2>1. sched.pc = "submit" => sched.t \in Tasks
    BY DEF FrontInv
  <2>2. \A u \in Tasks : task[u].status = "Pending" => task'[u] = task[u]
    BY <1>4 DEF cleanup_completed_tasks
  <2> QED BY <1>4, <2>1, <2>2 DEF SentInv, cleanup_completed_tasks
<1>5. ASSUME NEW t \in Tasks, cancel_task(t) PROVE (front = "manager" /\ sched.pc = "submit" => task[sched.t].status = "Pending")'
  BY <1>5 DEF SentInv, FrontInv, cancel_task, frontVars, poolVars
<1>6. ASSUME NEW t \in Tasks, Expire(t) PROVE (front = "manager" /\ sched.pc = "submit" => task[sched.t].status = "Pending")'
  BY <1>6 DEF SentInv, FrontInv, Expire, frontVars, poolVars
<1>7. CASE SchedulerTick
  BY <1>7 DEF SentInv, FrontInv, SchedulerTick, frontVars, poolVars, DsType,
              LoopPoints
<1>8. CASE Pop
  <2>1. front = "manager" => sched'.pc = "tick" /\ front' = front
    BY <1>8 DEF Pop, FrontInv, DsType, LoopPoints
  <2>2. front' = front
    BY <1>8 DEF Pop
  <2> QED BY <2>1, <2>2
<1>9. CASE List
  BY <1>9 DEF SentInv, FrontInv, List, frontVars, poolVars, DsType, LoopPoints
<1>10. CASE ManagerTick
  <2> DEFINE n == Len(submitted) + 1
  <2>1. n \in Tasks /\ sched'.t = n
    BY <1>10 DEF ManagerTick
  <2>2. task'[n].status = "Pending"
    BY <1>10, <2>1 DEF ManagerTick, DsType, WithStatus
  <2> HIDE DEF n
  <2> QED BY <2>1, <2>2
<1>11. CASE Submit
  <2>1. sched'.pc = "pop"
    BY <1>11 DEF Submit, DsType, LoopPoints
  <2> QED BY <2>1
<1>12. CASE SchedulerEnds
  BY <1>12 DEF SentInv, FrontInv, SchedulerEnds, frontVars, poolVars, DsType,
              LoopPoints
<1>13. ASSUME NEW t \in Tasks, HandleTimeout(t) PROVE (front = "manager" /\ sched.pc = "submit" => task[sched.t].status = "Pending")'
  BY <1>13 DEF SentInv, FrontInv, HandleTimeout, frontVars, poolVars
<1>14. CASE handle_task_result
  BY <1>14
<1> QED BY <1>1, <1>2, <1>3, <1>4, <1>5, <1>6, <1>7, <1>8, <1>9, <1>10, <1>11, <1>12, <1>13, <1>14
  DEF DsNext, StopSteps, SchedulerLoop, TimeoutLoop, PoolSteps, ResultLoop

\* The tasks in the pool were sent to it once.
LEMMA SentStep ==
  ASSUME DsType, FrontInv, HandedInv, SentInv, ApartInv, [DsNext]_dsVars
  PROVE  SentInv'
<1> USE DownsampleAssumption
<1>0. InPool \subseteq Tasks
  BY PoolTyped
<1>1. CASE handle_task_result
  <2>1. InPool' = InPool /\ res'.pc # "handle"
    BY <1>1 DEF handle_task_result, InPool, poolVars, DsType, ResultPoints
  <2>2. res.r[1] \in Tasks /\ res.r[1] \notin InPool
    BY <1>1 DEF handle_task_result, FrontInv, ApartInv, InPool, ToSet
  <2>3. \A u \in Tasks : u # res.r[1] => task'[u] = task[u]
    BY <1>1 DEF handle_task_result, DsType
  <2>4. \A u \in InPool : Sent(u)'
    BY <1>0, <1>1, <2>2, <2>3 DEF SentInv, Sent, handle_task_result, poolVars
  <2>5. sched.pc = "submit" => sched.t \in Tasks /\ handed[sched.t] = 0 /\ sched.t # res.r[1]
    BY <1>1 DEF handle_task_result, FrontInv, HandedInv, SentInv, Sent
  <2>6. front' = "manager" /\ sched'.pc = "submit" => task'[sched'.t].status = "Pending"
    BY <1>1, <2>3, <2>5 DEF SentInv, handle_task_result
  <2> QED BY <2>1, <2>4, <2>6 DEF SentInv
<1>2. CASE ~handle_task_result
  <2>1. \A u \in Tasks : Sent(u) => Sent(u)'
    BY <1>2, SentStays
  <2>2. front' = front
    BY DEF DsNext, StopSteps, SchedulerLoop, TimeoutLoop, PoolSteps, ResultLoop, dsVars, submit_task,
           create_task, cleanup_completed_tasks, StopCalled, cancel_task, Expire, StopTakesPool, StopJoins,
           SchedulerTick, Pop, List, ManagerTick, Submit, SchedulerEnds, CollectTimeouts, HandleTimeout,
           Dispatch, ProcessColumns, Process, ResultLock, recv_result, handle_task_result
  <2>3. (front = "manager" /\ sched.pc = "submit" => task[sched.t].status = "Pending")'
    BY <1>2, SubmitPending
  <2>4. CASE PoolSteps
    <3>1. InPool' = InPool
      BY <2>4, PoolMoves DEF PoolSteps
    <3>2. res' = res
      BY <2>4 DEF PoolSteps, Dispatch, ProcessColumns, Process
    <3>3. res.pc = "handle" => res.r[1] \in Tasks
      BY DEF FrontInv
    <3>4. (res.pc = "handle" => Sent(res.r[1]))'
      BY <2>1, <3>2, <3>3 DEF SentInv, Sent
    <3> QED BY <1>0, <2>1, <2>3, <3>1, <3>4 DEF SentInv
  <2>5. CASE Submit
    <3>1. sched.t \in Tasks /\ handed[sched.t] = 0
      BY <2>5 DEF Submit, FrontInv, HandedInv
    <3>2. res' = res
      BY <2>5 DEF Submit
    <3>3. res.pc = "handle" => res.r[1] \in Tasks
      BY DEF FrontInv
    <3>4. (res.pc = "handle" => Sent(res.r[1]))'
      BY <2>1, <3>2, <3>3 DEF SentInv, Sent
    <3>5. CASE pool
      <4>1. InPool' = InPool \cup {sched.t}
        BY <2>5, <3>5, PoolEnds
      <4>2. handed' = [handed EXCEPT ![sched.t] = @ + 1]
        BY <2>5, <3>5, Zenon DEF Submit
      <4>3. handed'[sched.t] = 1
        BY <3>1, <4>2 DEF DsType
      <4>4. front = "manager" => task[sched.t].status = "Pending"
        BY <2>5 DEF SentInv, Submit
      <4>5. task' = task
        BY <2>5 DEF Submit, frontVars
      <4>6. ASSUME NEW u, u = sched.t PROVE Sent(u)'
        BY <2>2, <4>3, <4>4, <4>5, <4>6 DEF Sent
      <4> QED BY <1>0, <2>1, <2>3, <3>4, <4>1, <4>6 DEF SentInv
    <3>6. CASE ~pool
      <4>1. InPool' = InPool
        BY <2>5, <3>6 DEF InPool, Submit
      <4> QED BY <1>0, <2>1, <2>3, <3>4, <4>1 DEF SentInv
    <3> QED BY <3>5, <3>6
  <2>6. CASE recv_result
    <3>1. CASE pool
      <4>1. InPool = InPool' \cup {res'.r[1]}
        BY <2>6, <3>1, PoolEnds
      <4>2. \A u \in InPool : Sent(u)'
        BY <1>0, <2>1 DEF SentInv
      <4>3. PICK u : u = res'.r[1]
        OBVIOUS
      <4>4. Sent(u)'
        BY <4>1, <4>2, <4>3
      <4>5. (res.pc = "handle" => Sent(res.r[1]))'
        BY <4>3, <4>4 DEF Sent
      <4> QED BY <2>3, <4>1, <4>2, <4>5 DEF SentInv
    <3>2. CASE ~pool
      <4>1. InPool' = InPool /\ res'.pc # "handle"
        BY <2>6, <3>2 DEF InPool, recv_result, DsType, ResultPoints
      <4> QED BY <1>0, <2>1, <2>3, <4>1 DEF SentInv
    <3> QED BY <3>1, <3>2
  <2>7. CASE ~PoolSteps /\ ~Submit /\ ~recv_result
    <3>1. InPool' = InPool
      BY <1>2, <2>7 DEF InPool, dsVars, poolVars, DsNext, StopSteps, SchedulerLoop, TimeoutLoop, ResultLoop,
        submit_task, create_task, cleanup_completed_tasks, StopCalled, cancel_task, Expire, StopTakesPool,
        StopJoins, SchedulerTick, Pop, List, ManagerTick, SchedulerEnds, CollectTimeouts, HandleTimeout, ResultLock
    <3>2. res' = res \/ res'.pc = "recv"
      BY <1>2, <2>7 DEF DsType, ResultPoints, dsVars, DsNext, StopSteps, SchedulerLoop, TimeoutLoop, ResultLoop,
        submit_task, create_task, cleanup_completed_tasks, StopCalled, cancel_task, Expire, StopTakesPool,
        StopJoins, SchedulerTick, Pop, List, ManagerTick, SchedulerEnds, CollectTimeouts, HandleTimeout, ResultLock
    <3>3. res.pc = "handle" => res.r[1] \in Tasks
      BY DEF FrontInv
    <3>4. (res.pc = "handle" => Sent(res.r[1]))'
      BY <2>1, <3>2, <3>3 DEF SentInv, Sent
    <3> QED BY <1>0, <2>1, <2>3, <3>1, <3>4 DEF SentInv
  <2> QED BY <2>4, <2>5, <2>6, <2>7
<1> QED BY <1>1, <1>2

\* A task moves from one place of the pool to the next.
LEMMA ApartStep ==
  ASSUME DsType, FrontInv, HandedInv, SentInv, ApartInv, [DsNext]_dsVars
  PROVE  ApartInv'
<1> USE DownsampleAssumption
<1>1. CASE UNCHANGED dsVars \/ submit_task \/ create_task \/ cleanup_completed_tasks \/
            StopCalled \/ (\E t \in Tasks : cancel_task(t)) \/ (\E t \in Tasks : Expire(t)) \/
            StopTakesPool \/ StopJoins \/ SchedulerTick \/ Pop \/ List \/ ManagerTick \/
            SchedulerEnds \/ CollectTimeouts \/ (\E t \in Tasks : HandleTimeout(t))
  BY <1>1 DEF ApartInv, dsVars, frontVars, poolVars, submit_task, create_task,
              cleanup_completed_tasks, StopCalled, cancel_task, Expire, StopTakesPool,
              StopJoins, SchedulerTick, Pop, List, ManagerTick, SchedulerEnds, CollectTimeouts,
              HandleTimeout
<1>2. CASE Submit
  <2>1. CASE pool
    <3>1. sched.t \in Tasks /\ handed[sched.t] = 0
      BY <1>2 DEF Submit, FrontInv, HandedInv
    <3>2. sched.t \notin InPool /\ (res.pc = "handle" => res.r[1] # sched.t)
      BY <3>1 DEF SentInv, Sent
    <3>3. /\ \A i \in DOMAIN tasksQ : tasksQ[i] # sched.t
          /\ \A w \in working : w.t # sched.t
          /\ \A j \in DOMAIN resultsQ : resultsQ[j][1] # sched.t
      BY <3>2 DEF InPool, ToSet
    <3>4. tasksQ' = Append(tasksQ, sched.t) /\ UNCHANGED <<working, resultsQ, res>>
      BY <1>2, <2>1, Zenon DEF Submit
    <3>5. \A i \in DOMAIN tasksQ' : \/ i \in DOMAIN tasksQ /\ tasksQ'[i] = tasksQ[i]
                                    \/ i = Len(tasksQ) + 1 /\ tasksQ'[i] = sched.t
      BY <3>4, QueueAppend DEF DsType
    <3>6. \A i, j \in DOMAIN tasksQ' : tasksQ'[i] = tasksQ'[j] => i = j
      BY <3>3, <3>5 DEF ApartInv
    <3> QED BY <3>2, <3>3, <3>4, <3>5, <3>6 DEF ApartInv
  <2>2. CASE ~pool
    BY <1>2, <2>2 DEF ApartInv, Submit
  <2> QED BY <2>1, <2>2
<1>3. CASE Dispatch
  <2> DEFINE h == Head(tasksQ)
  <2>1. \A i \in DOMAIN tasksQ' : i + 1 \in DOMAIN tasksQ /\ i + 1 # 1 /\ tasksQ'[i] = tasksQ[i + 1]
    BY <1>3, QueueTail DEF Dispatch, DsType
  <2>2. 1 \in DOMAIN tasksQ /\ h = tasksQ[1]
    BY <1>3, QueueTail DEF Dispatch, DsType
  <2>3. \A i, j \in DOMAIN tasksQ' : i + 1 = j + 1 => i = j
    BY <1>3, QueueTail DEF Dispatch, DsType
  <2>4. \A w \in working' : w \in working \/ (w = [t |-> h, step |-> "columns"] /\ w.t = h)
    BY <1>3 DEF Dispatch
  <2>5. UNCHANGED <<resultsQ, res>>
    BY <1>3 DEF Dispatch
  <2> HIDE DEF h
  <2>6. \A i \in DOMAIN tasksQ' : tasksQ'[i] # h
    BY <2>1, <2>2 DEF ApartInv
  <2>7. \A i, j \in DOMAIN tasksQ' : tasksQ'[i] = tasksQ'[j] => i = j
    BY <2>1, <2>3 DEF ApartInv
  <2>8. \A w, v \in working' : w.t = v.t => w = v
    BY <2>2, <2>4 DEF ApartInv
  <2>9. \A i \in DOMAIN tasksQ', w \in working' : tasksQ'[i] # w.t
    BY <2>1, <2>4, <2>6 DEF ApartInv
  <2>10. \A i \in DOMAIN tasksQ', j \in DOMAIN resultsQ : tasksQ'[i] # resultsQ[j][1]
    BY <2>1 DEF ApartInv
  <2>11. \A w \in working', j \in DOMAIN resultsQ : w.t # resultsQ[j][1]
    BY <2>2, <2>4 DEF ApartInv
  <2>12. res.pc = "handle" => /\ \A i \in DOMAIN tasksQ' : tasksQ'[i] # res.r[1]
                              /\ \A w \in working' : w.t # res.r[1]
    BY <2>1, <2>2, <2>4 DEF ApartInv
  <2> QED BY <2>5, <2>7, <2>8, <2>9, <2>10, <2>11, <2>12 DEF ApartInv
<1>4. ASSUME NEW w \in working, ProcessColumns(w) PROVE ApartInv'
  <2> DEFINE x == [t |-> w.t, step |-> "meta"]
  <2>0. working' = (working \ {w}) \cup {x} /\ x.t = w.t
    BY <1>4 DEF ProcessColumns
  <2> HIDE DEF x
  <2>1. \A v \in working' : (v \in working /\ v # w) \/ (v = x /\ v.t = w.t)
    BY <2>0
  <2>2. UNCHANGED <<tasksQ, resultsQ, res>>
    BY <1>4 DEF ProcessColumns
  <2>3. \A v, u \in working' : v.t = u.t => v = u
    BY <2>1 DEF ApartInv
  <2> QED BY <2>1, <2>2, <2>3 DEF ApartInv
<1>5. ASSUME NEW w \in working, NEW ok \in BOOLEAN, Process(w, ok) PROVE ApartInv'
  <2> DEFINE r == <<w.t, ok>>
  <2>1. r[1] = w.t /\ resultsQ' = Append(resultsQ, r)
    BY <1>5 DEF Process
  <2> HIDE DEF r
  <2>2. \A j \in DOMAIN resultsQ' : \/ j \in DOMAIN resultsQ /\ resultsQ'[j] = resultsQ[j]
                                    \/ j = Len(resultsQ) + 1 /\ resultsQ'[j] = r
    BY <2>1, QueueAppend DEF DsType
  <2>3. \A v \in working' : v \in working /\ v # w
    BY <1>5 DEF Process
  <2>4. UNCHANGED <<tasksQ, res>>
    BY <1>5 DEF Process
  <2>5. \A i, j \in DOMAIN resultsQ' : resultsQ'[i][1] = resultsQ'[j][1] => i = j
    BY <2>1, <2>2 DEF ApartInv
  <2>6. \A i \in DOMAIN tasksQ, j \in DOMAIN resultsQ' : tasksQ[i] # resultsQ'[j][1]
    BY <2>1, <2>2 DEF ApartInv
  <2>7. \A v \in working', j \in DOMAIN resultsQ' : v.t # resultsQ'[j][1]
    BY <2>1, <2>2, <2>3 DEF ApartInv
  <2>8. res.pc = "handle" => \A j \in DOMAIN resultsQ' : resultsQ'[j][1] # res.r[1]
    BY <2>1, <2>2 DEF ApartInv
  <2> QED BY <2>3, <2>4, <2>5, <2>6, <2>7, <2>8 DEF ApartInv
<1>6. CASE ResultLock
  <2>1. res'.pc # "handle"
    BY <1>6 DEF ResultLock, DsType, ResultPoints
  <2> QED BY <1>6, <2>1 DEF ApartInv, ResultLock, poolVars
<1>7. CASE recv_result
  <2>1. CASE pool
    <3>1. resultsQ # <<>> /\ resultsQ' = Tail(resultsQ) /\ res'.r = Head(resultsQ)
      BY <1>7, <2>1 DEF recv_result
    <3>2. \A j \in DOMAIN resultsQ' : j + 1 \in DOMAIN resultsQ /\ j + 1 # 1 /\ resultsQ'[j] = resultsQ[j + 1]
      BY <3>1, QueueTail DEF DsType
    <3>3. 1 \in DOMAIN resultsQ /\ res'.r = resultsQ[1]
      BY <3>1, QueueTail DEF DsType
    <3>4. \A i, j \in DOMAIN resultsQ' : i + 1 = j + 1 => i = j
      BY <3>1, QueueTail DEF DsType
    <3>5. UNCHANGED <<tasksQ, working>>
      BY <1>7 DEF recv_result
    <3>6. \A i, j \in DOMAIN resultsQ' : resultsQ'[i][1] = resultsQ'[j][1] => i = j
      BY <3>2, <3>4 DEF ApartInv
    <3>7. /\ \A i \in DOMAIN tasksQ, j \in DOMAIN resultsQ' : tasksQ[i] # resultsQ'[j][1]
          /\ \A w \in working, j \in DOMAIN resultsQ' : w.t # resultsQ'[j][1]
      BY <3>2 DEF ApartInv
    <3>8. /\ \A i \in DOMAIN tasksQ : tasksQ[i] # res'.r[1]
          /\ \A w \in working : w.t # res'.r[1]
      BY <3>3 DEF ApartInv
    <3>9. \A j \in DOMAIN resultsQ' : resultsQ'[j][1] # res'.r[1]
      BY <3>2, <3>3 DEF ApartInv
    <3> QED BY <3>5, <3>6, <3>7, <3>8, <3>9 DEF ApartInv
  <2>2. CASE ~pool
    <3>1. res'.pc # "handle" /\ UNCHANGED <<resultsQ, tasksQ, working>>
      BY <1>7, <2>2 DEF recv_result, DsType, ResultPoints
    <3> QED BY <3>1 DEF ApartInv
  <2> QED BY <2>1, <2>2
<1>8. CASE handle_task_result
  <2>1. res'.pc # "handle"
    BY <1>8 DEF handle_task_result, DsType, ResultPoints
  <2> QED BY <1>8, <2>1 DEF ApartInv, handle_task_result, poolVars
<1> QED BY <1>1, <1>2, <1>3, <1>4, <1>5, <1>6, <1>7, <1>8
  DEF DsNext, StopSteps, SchedulerLoop, TimeoutLoop, PoolSteps, ResultLoop

\* A failed task of the manager stays failed.
LEMMA FailedStays ==
  ASSUME DsType, FrontInv, HandedInv, SentInv, front = "manager", SomeFailed, [DsNext]_dsVars
  PROVE  SomeFailed'
<1> USE DownsampleAssumption
<1>1. PICK u \in Tasks : task[u].status = "Failed"
  BY DEF SomeFailed
<1>2. SUFFICES task'[u].status = "Failed"
  BY DEF SomeFailed
<1>3. CASE create_task \/ ManagerTick
  <2>1. u # Len(submitted) + 1
    BY <1>1 DEF HandedInv, DsType, Tasks
  <2> QED BY <1>1, <1>3, <2>1 DEF DsType, create_task, ManagerTick
<1>4. CASE cleanup_completed_tasks
  BY <1>1, <1>4 DEF cleanup_completed_tasks
<1>5. CASE handle_task_result
  <2>1. u # res.r[1]
    BY <1>1, <1>5 DEF handle_task_result, SentInv, Sent
  <2> QED BY <1>1, <1>5, <2>1 DEF handle_task_result, DsType
<1>6. CASE Pop
  BY <1>1, <1>6 DEF Pop, FrontInv
<1>7. CASE ~(create_task \/ ManagerTick \/ cleanup_completed_tasks \/ handle_task_result \/ Pop)
  <2>1. task' = task
    BY <1>7 DEF FrontInv, dsVars, frontVars, DsNext, StopSteps, SchedulerLoop, TimeoutLoop, PoolSteps,
      ResultLoop, submit_task, StopCalled, cancel_task, Expire, StopTakesPool, StopJoins, SchedulerTick, List,
      Submit, SchedulerEnds, CollectTimeouts, HandleTimeout, Dispatch, ProcessColumns, Process, ResultLock,
      recv_result
  <2> QED BY <1>1, <2>1
<1> QED BY <1>3, <1>4, <1>5, <1>6, <1>7

\* An explanation outlasts a step that leaves the output and the queues alone.
LEMMA ExplainedStays ==
  ASSUME DsType, FrontInv, HandedInv, SentInv, OutInv, [DsNext]_dsVars,
         UNCHANGED <<front, out, working, overlap, resultsQ>>, res'.r = res.r,
         res'.pc = "handle" => res.pc = "handle",
         front = "manager" /\ res.pc = "handle" /\ res'.pc # "handle" /\ Fails(res.r) => SomeFailed'
  PROVE  OutInv'
<1>1. front = "manager" /\ SomeFailed => SomeFailed'
  BY FailedStays
<1>2. front = "manager" /\ res'.pc # "handle" /\ Fails(res'.r) => SomeFailed'
  BY <1>1 DEF OutInv
<1>3. Fails(res.r) = Fails(res.r)'
  BY DEF Fails
<1>4. \A j \in DOMAIN resultsQ : Fails(resultsQ[j]) => Fails(resultsQ[j])'
  BY DEF Fails
<1>5. front = "manager" /\ Explained => Explained'
  BY <1>1, <1>3, <1>4 DEF Explained
<1>6. front = "scheduler" => Explained'
  BY DEF OutInv, Explained
<1>7. front \in {"scheduler", "manager"}
  BY DEF DsType
<1> QED BY <1>2, <1>5, <1>6, <1>7 DEF OutInv, Fails

\* The workers leave the block of one level, or a failed task says why not.
LEMMA OutStep ==
  ASSUME DsType, FrontInv, HandedInv, SentInv, OutInv, [DsNext]_dsVars
  PROVE  OutInv'
<1> USE DownsampleAssumption
<1>1. CASE UNCHANGED <<front, out, working, overlap, resultsQ, res>>
  BY <1>1, ExplainedStays
<1>2. CASE ResultLock
  <2>1. res'.r = res.r /\ res'.pc = "recv"
    BY <1>2 DEF ResultLock, DsType, ResultPoints
  <2>2. UNCHANGED <<front, out, working, overlap, resultsQ>> /\ res.pc = "lock"
    BY <1>2 DEF ResultLock, poolVars
  <2> QED BY <2>1, <2>2, ExplainedStays
<1>3. CASE handle_task_result
  <2>1. res'.r = res.r /\ res'.pc # "handle" /\ res.r[1] \in Tasks
    BY <1>3 DEF handle_task_result, DsType, ResultPoints, FrontInv
  <2>2. UNCHANGED <<front, out, working, overlap, resultsQ>>
    BY <1>3 DEF handle_task_result, poolVars
  <2>3. ASSUME front = "manager", Fails(res.r) PROVE SomeFailed'
    <3>1. task[res.r[1]].status = "Pending"
      BY <1>3, <2>3 DEF handle_task_result, SentInv, Sent
    <3>2. task' = [task EXCEPT ![res.r[1]] = mark_failed(task[res.r[1]])]
      BY <1>3, <2>3, <3>1 DEF handle_task_result, Fails
    <3>3. task'[res.r[1]].status = "Failed"
      BY <2>1, <3>2 DEF DsType, mark_failed
    <3> QED BY <2>1, <3>3 DEF SomeFailed
  <2> QED BY <2>1, <2>2, <2>3, ExplainedStays
<1>4. CASE recv_result
  <2>1. CASE ~pool
    <3>1. res'.r = res.r /\ res'.pc = "ended"
      BY <1>4, <2>1 DEF recv_result, DsType, ResultPoints
    <3>2. UNCHANGED <<front, out, working, overlap, resultsQ>> /\ res.pc = "recv"
      BY <1>4, <2>1 DEF recv_result
    <3> QED BY <3>1, <3>2, ExplainedStays
  <2>2. CASE pool
    <3>1. resultsQ # <<>> /\ resultsQ' = Tail(resultsQ) /\ res' = [pc |-> "handle", r |-> Head(resultsQ)]
      BY <1>4, <2>2, Zenon DEF recv_result
    <3>2. UNCHANGED <<front, out, working, overlap, task>> /\ res.pc = "recv"
      BY <1>4 DEF recv_result, frontVars
    <3>3. /\ \A j \in DOMAIN resultsQ : j # 1 => j - 1 \in DOMAIN resultsQ' /\ resultsQ'[j - 1] = resultsQ[j]
          /\ res'.r = resultsQ[1]
      BY <3>1, QueueTail DEF DsType
    <3>4. ASSUME NEW j \in DOMAIN resultsQ, Fails(resultsQ[j])
          PROVE  Fails(res.r)' \/ \E k \in DOMAIN resultsQ' : Fails(resultsQ'[k])
      <4>1. CASE j = 1
        BY <3>3, <3>4, <4>1 DEF Fails
      <4>2. CASE j # 1
        BY <3>3, <3>4, <4>2
      <4> QED BY <4>1, <4>2
    <3>5. SomeFailed => SomeFailed'
      BY <3>2 DEF SomeFailed
    <3>6. front = "manager" /\ Fails(res.r) => SomeFailed
      BY <3>2 DEF OutInv
    <3>7. (\E k \in DOMAIN resultsQ' : Fails(resultsQ'[k])) => (\E k \in DOMAIN resultsQ : Fails(resultsQ[k]))'
      BY DEF Fails
    <3>8. front = "manager" /\ Explained => Explained'
      BY <3>2, <3>4, <3>5, <3>6, <3>7 DEF Explained
    <3>9. front = "scheduler" => Explained'
      BY <3>2 DEF OutInv, Explained
    <3>10. front \in {"scheduler", "manager"} /\ res'.pc = "handle"
      BY <3>1 DEF DsType
    <3> QED BY <3>2, <3>8, <3>9, <3>10 DEF OutInv
  <2> QED BY <2>1, <2>2
<1>5. CASE Dispatch
  <2>1. UNCHANGED <<front, out, resultsQ, res, task>>
    BY <1>5 DEF Dispatch, frontVars
  <2>2. Explained => Explained'
    BY <2>1 DEF Explained, SomeFailed, Fails
  <2>3. overlap' = (overlap \/ working # {})
    BY <1>5 DEF Dispatch
  <2> DEFINE x == [t |-> Head(tasksQ), step |-> "columns"]
  <2>4. working' = working \cup {x} /\ x.step = "columns"
    BY <1>5 DEF Dispatch
  <2> HIDE DEF x
  <2>5. front = "manager" /\ res'.pc # "handle" /\ Fails(res'.r) => SomeFailed'
    BY <2>1 DEF OutInv, SomeFailed
  <2>6. ASSUME ~overlap' PROVE working = {} /\ ~overlap /\ working' = {x} /\ Explained'
    BY <2>2, <2>3, <2>4, <2>6 DEF OutInv
  <2>7. (front = "scheduler" => out.columns = out.meta)'
    BY <2>1 DEF OutInv
  <2> QED BY <2>1, <2>4, <2>5, <2>6, <2>7 DEF OutInv, Fails
<1>6. ASSUME NEW w \in working, ProcessColumns(w) PROVE OutInv'
  <2>1. UNCHANGED <<front, resultsQ, res, task, overlap>> /\ front = "manager"
    BY <1>6 DEF ProcessColumns, frontVars
  <2> DEFINE x == [t |-> w.t, step |-> "meta"]
  <2>2. working' = (working \ {w}) \cup {x} /\ x.step = "meta" /\ x.t = w.t
    BY <1>6 DEF ProcessColumns
  <2> HIDE DEF x
  <2>3. out'.columns = LevelOfTask(w.t)
    BY <1>6 DEF ProcessColumns
  <2>4. res'.pc # "handle" /\ Fails(res'.r) => SomeFailed'
    BY <2>1 DEF OutInv, SomeFailed
  <2>5. ASSUME ~overlap' PROVE working' = {x}
    BY <2>1, <2>2, <2>5 DEF OutInv
  <2> QED BY <2>1, <2>2, <2>3, <2>4, <2>5 DEF OutInv, Fails, LevelOfTask
<1>7. ASSUME NEW w \in working, NEW ok \in BOOLEAN, Process(w, ok) PROVE OutInv'
  <2>1. UNCHANGED <<front, res, task, overlap>> /\ working' = working \ {w}
    BY <1>7 DEF Process, frontVars
  <2>2. resultsQ' = Append(resultsQ, <<w.t, ok>>)
    BY <1>7 DEF Process
  <2>3. front = "manager" /\ res'.pc # "handle" /\ Fails(res'.r) => SomeFailed'
    BY <2>1 DEF OutInv, SomeFailed
  <2>4. (front = "scheduler" => out.columns = out.meta)'
    BY <1>7, <2>1 DEF OutInv, Process
  <2>5. ASSUME ~overlap' PROVE working' = {}
    BY <2>1, <2>5 DEF OutInv
  <2>6. ASSUME ~overlap', front = "manager" PROVE Explained'
    <3>1. CASE ok
      <4>1. out' = [columns |-> out.columns, meta |-> LevelOfTask(w.t)] /\ w.step = "meta"
        BY <1>7, <2>6, <3>1 DEF Process
      <4>2. out.columns = LevelOfTask(w.t)
        BY <2>1, <2>6, <4>1 DEF OutInv
      <4> QED BY <4>1, <4>2 DEF Explained
    <3>2. CASE ~ok
      <4> DEFINE r == <<w.t, ok>>
      <4>1. ~r[2] /\ r[1] # 0
        BY <3>2 DEF DsType, WorkState, Tasks
      <4>2. resultsQ' = Append(resultsQ, r)
        BY <2>2
      <4> HIDE DEF r
      <4>4. resultsQ \in Seq(Tasks \X BOOLEAN)
        BY DEF DsType
      <4>5. Len(resultsQ) + 1 \in DOMAIN Append(resultsQ, r) /\ Append(resultsQ, r)[Len(resultsQ) + 1] = r
        BY <4>4, QueueAppend
      <4>3. \E j \in DOMAIN resultsQ' : resultsQ'[j] = r
        BY <4>2, <4>5
      <4> QED BY <4>1, <4>3 DEF Explained, Fails
    <3> QED BY <3>1, <3>2
  <2>7. front = "scheduler" => Explained'
    BY <2>1, <2>4 DEF Explained
  <2>8. front \in {"scheduler", "manager"}
    BY DEF DsType
  <2> QED BY <2>1, <2>3, <2>4, <2>5, <2>6, <2>7, <2>8 DEF OutInv
<1>8. CASE ~PoolSteps /\ ~ResultLoop
  <2>1. UNCHANGED <<front, out, working, overlap, resultsQ, res>>
    BY <1>8 DEF dsVars, poolVars, DsNext, StopSteps, SchedulerLoop, TimeoutLoop, submit_task, create_task,
      cleanup_completed_tasks, StopCalled, cancel_task, Expire, StopTakesPool, StopJoins, SchedulerTick, Pop,
      List, ManagerTick, Submit, SchedulerEnds, CollectTimeouts, HandleTimeout
  <2> QED BY <1>1, <2>1
<1> QED BY <1>2, <1>3, <1>4, <1>5, <1>6, <1>7, <1>8 DEF PoolSteps, ResultLoop

\* Downsampling starts in the invariant.
LEMMA DsInvInit == DsInit => DsInv
<1> SUFFICES ASSUME DsInit PROVE DsInv
  OBVIOUS
<1> USE DownsampleAssumption
<1>1. DsType
  <2>1. task \in [Tasks -> TaskState]
    BY DEF DsInit, TaskState, TaskStatus
  <2>2. res \in [pc : ResultPoints, r : Nat \X BOOLEAN]
    BY DEF DsInit, ResultPoints
  <2>3. sched \in [pc : LoopPoints, left : Int, t : Nat]
    BY DEF DsInit, LoopPoints
  <2>4. handed \in [Tasks -> Nat] /\ out \in [columns : Nat, meta : Nat]
    BY DEF DsInit
  <2>5. tasksQ \in Seq(Tasks) /\ resultsQ \in Seq(Tasks \X BOOLEAN) /\ submitted \in Seq(Tasks)
    BY DEF DsInit
  <2> QED BY <2>1, <2>2, <2>3, <2>4, <2>5 DEF DsInit, DsType
<1>2. FrontInv
  BY DEF DsInit, FrontInv
<1>3. HandedInv
  BY DEF DsInit, HandedInv
<1>4. InPool = {}
  BY DEF DsInit, InPool, ToSet
<1>5. NoLeakedSlot /\ SentInv
  BY <1>4 DEF DsInit, NoLeakedSlot, SentInv
<1>6. ApartInv
  BY DEF DsInit, ApartInv
<1>7. OutInv
  BY DEF DsInit, OutInv, Explained, Fails
<1> QED BY <1>1, <1>2, <1>3, <1>5, <1>6, <1>7 DEF DsInv

\* Every step keeps the invariant.
LEMMA DsInvStep == DsInv /\ [DsNext]_dsVars => DsInv'
BY DsTypeStep, FrontStep, HandedStep, SlotStep, SentStep, ApartStep, OutStep DEF DsInv

\* The invariant says what the properties say.
LEMMA DsInvImplies == DsInv => DownsampleSound
<1> SUFFICES ASSUME DsInv PROVE DownsampleSound
  OBVIOUS
<1>1. HandedOnce
  BY DEF DsInv, HandedInv, HandedOnce
<1>2. OutputWhole
  <2> SUFFICES ASSUME working = {}, ~overlap PROVE OutputWhole
    BY DEF OutputWhole
  <2>1. Explained
    BY DEF DsInv, OutInv
  <2>2. \A j \in DOMAIN resultsQ : resultsQ[j] \in ToSet(resultsQ)
    BY DEF ToSet
  <2> QED BY <2>1, <2>2 DEF Explained, SomeFailed, Fails, OutputWhole
<1> QED BY <1>1, <1>2 DEF DownsampleSound, DsInv

\* Whatever times out, is cancelled, fails or is stopped, and however the loops of
\* the front ends interleave with the workers: schedule_tasks and
\* run_scheduled_tasks hand a task to WorkerPool::submit at most once,
\* running_tasks holds no slot for a task that is nowhere, and the block of a
\* series is of one level unless a task failed or two ran at once.
THEOREM DownsampleSoundHolds == DsSpec => []DownsampleSound
<1>1. DsSpec => []DsInv
  BY DsInvInit, DsInvStep, PTL DEF DsSpec
<1> QED BY <1>1, DsInvImplies, PTL

-----------------------------------------------------------------------------
(* Backups.  Beside the properties: what the running backup has done so far, *)
(* and that a file no backup ran beside is as old as its modification time   *)
(* says, which is what an increment relies on.                               *)

FileState == [version : Nat, modified : Nat, spoilt : BOOLEAN]
CopyState == [version : Nat, spoilt : BOOLEAN, enc : BOOLEAN]
Contents == UNION {[S -> FileState] : S \in SUBSET DataFiles}
Copies == UNION {[S -> CopyState] : S \in SUBSET DataFiles}
BackupState == [files : Copies, meta : Nat, verified : BOOLEAN, gone : BOOLEAN, since : Int,
                from : Contents, to : Contents]
TakerPoints == {"idle", "copy", "verify", "cleanup"}

BackupType ==
  /\ bconf \in [incremental : BOOLEAN, encrypt : BOOLEAN]
  /\ day \in Nat \ {0}
  /\ data \in Contents
  /\ backups \in Seq(BackupState)
  /\ taker \in [pc : TakerPoints, todo : SUBSET DataFiles, since : Int]
  /\ last \in Nat /\ last <= Len(backups)
  /\ restoredB \in BOOLEAN
  /\ touched \subseteq DataFiles
  /\ taker.pc # "idle" => ~restoredB /\ Len(backups) > 0

\* Nothing is spoilt before a restore, and a copy is encrypted by a full backup.
CopyInv ==
  /\ ~restoredB => \A f \in DOMAIN data : ~data[f].spoilt
  /\ \A i \in DOMAIN backups : \A f \in DOMAIN backups[i].files :
       ~backups[i].files[f].spoilt /\ backups[i].files[f].enc = (bconf.encrypt /\ ~bconf.incremental)

\* What an increment may leave out of backup i.
Covered(i, f) ==
  \/ f \in touched
  \/ \E j \in 1..i : backups[j].gone
  \/ \E j \in 1..i : f \in DOMAIN backups[j].files
                     /\ backups[j].files[f].version >= backups[i].from[f].version

\* The backup that is copying: what holds of it, and of each file still there.
CopyingFile(n, f) ==
  LET b == backups[n]
  IN  /\ f \in DOMAIN b.from
      /\ b.from[f].version <= data[f].version
      /\ f \notin touched => b.from[f].version = data[f].version
      /\ f \in DOMAIN b.files => /\ b.from[f].version <= b.files[f].version
                                 /\ b.files[f].version <= data[f].version
      /\ f \notin taker.todo => IF bconf.incremental THEN Covered(n, f) ELSE f \in DOMAIN b.files

Copying(n) ==
  /\ backups[n].meta = 0 /\ taker.since = backups[n].since
  /\ ~bconf.incremental => taker.since = -1
  /\ taker.since # -1 => \E k \in DOMAIN backups : backups[k].meta = taker.since /\ taker.since > 0
  /\ \A f \in DOMAIN data : CopyingFile(n, f)

CopyingInv == taker.pc = "copy" => \A n \in DOMAIN backups : n = Len(backups) => Copying(n)

\* A file that no backup ran beside is in every listed backup's directory listing,
\* and has not changed since if its modification time is not later.
OldInv ==
  ~restoredB => \A k \in DOMAIN backups : backups[k].meta > 0 =>
    /\ backups[k].meta <= day
    /\ \A f \in DOMAIN data \ touched :
         /\ f \in DOMAIN backups[k].from \cap DOMAIN backups[k].to
         /\ data[f].modified <= backups[k].meta => data[f].version <= backups[k].from[f].version

BackupInv ==
  /\ BackupType
  /\ CopyInv
  /\ CopyingInv
  /\ OldInv
  /\ BackupsSound

\* Contents and copies are functions over some of the files.
LEMMA ContentsTyped ==
  /\ \A c \in Contents : /\ c \in [DOMAIN c -> FileState] /\ DOMAIN c \subseteq DataFiles
                         /\ \A f \in DOMAIN c : c[f] \in FileState
  /\ \A c \in Copies : /\ c \in [DOMAIN c -> CopyState] /\ DOMAIN c \subseteq DataFiles
                       /\ \A f \in DOMAIN c : c[f] \in CopyState
  /\ \A S \in SUBSET DataFiles : [S -> FileState] \subseteq Contents /\ [S -> CopyState] \subseteq Copies
BY DEF Contents, Copies

\* A directory without files, and one more file in a directory.
LEMMA NoFilesTyped == NoFiles \in Contents /\ NoFiles \in Copies /\ DOMAIN NoFiles = {}
<1>1. NoFiles \in [{} -> FileState] /\ NoFiles \in [{} -> CopyState] /\ DOMAIN NoFiles = {}
  BY DEF NoFiles
<1>2. {} \in SUBSET DataFiles
  OBVIOUS
<1> QED BY <1>1, <1>2, ContentsTyped

\* A directory with one more file.
LEMMA OneMoreFile ==
  ASSUME NEW c \in Copies, NEW f \in DataFiles, NEW x \in CopyState
  PROVE  /\ With(c, f, x) \in Copies
         /\ DOMAIN With(c, f, x) = DOMAIN c \cup {f}
         /\ With(c, f, x)[f] = x
         /\ \A g \in DOMAIN c : g # f => With(c, f, x)[g] = c[g]
<1>1. DOMAIN c \subseteq DataFiles /\ \A g \in DOMAIN c : c[g] \in CopyState
  BY ContentsTyped
<1>2. DOMAIN c \cup {f} \in SUBSET DataFiles
  BY <1>1
<1>3. With(c, f, x) \in [DOMAIN c \cup {f} -> CopyState]
  BY <1>1 DEF With
<1>4. With(c, f, x) \in Copies
  BY <1>2, <1>3, ContentsTyped
<1> QED BY <1>4 DEF With

\* What the types say of the data directory and of a backup.
LEMMA DataTyped ==
  ASSUME BackupType
  PROVE  /\ DOMAIN data \subseteq DataFiles /\ data \in [DOMAIN data -> FileState]
         /\ \A f \in DOMAIN data : data[f] \in FileState /\ CopyOf(f) \in CopyState
<1>1. DOMAIN data \subseteq DataFiles /\ data \in [DOMAIN data -> FileState] /\ \A f \in DOMAIN data : data[f] \in FileState
  BY ContentsTyped DEF BackupType
<1>2. ASSUME NEW f \in DOMAIN data PROVE CopyOf(f) \in CopyState
  BY <1>1 DEF CopyOf, CopyState, FileState, BackupType
<1> QED BY <1>1, <1>2

\* What the types say of the entry of a backup.
LEMMA BackupTyped ==
  ASSUME BackupType, NEW i \in DOMAIN backups
  PROVE  /\ backups[i] \in BackupState
         /\ i \in 1..Len(backups)
         /\ backups[i].meta \in Nat /\ backups[i].since \in Int
         /\ backups[i].files \in Copies /\ backups[i].from \in Contents /\ backups[i].to \in Contents
         /\ \A f \in DOMAIN backups[i].files : backups[i].files[f] \in CopyState
         /\ \A f \in DOMAIN backups[i].from : backups[i].from[f] \in FileState
         /\ \A f \in DOMAIN backups[i].to : backups[i].to[f] \in FileState
<1>1. backups[i] \in BackupState /\ i \in 1..Len(backups)
  BY DEF BackupType
<1>2. /\ backups[i].meta \in Nat /\ backups[i].since \in Int
      /\ backups[i].files \in Copies /\ backups[i].from \in Contents /\ backups[i].to \in Contents
  BY <1>1 DEF BackupState
<1> QED BY <1>1, <1>2, ContentsTyped

\* The running backup is the last.
LEMMA CurrentTyped ==
  ASSUME BackupType, taker.pc # "idle"
  PROVE  Current \in DOMAIN backups /\ Current = Len(backups) /\ Current \in Nat \ {0} /\ ~restoredB
BY DEF BackupType, Current

\* A backup whose entry is replaced.
LEMMA Replaced ==
  ASSUME BackupType, NEW n \in DOMAIN backups, NEW b \in BackupState,
         backups' = [backups EXCEPT ![n] = b]
  PROVE  /\ backups' \in Seq(BackupState) /\ Len(backups') = Len(backups)
         /\ DOMAIN backups' = DOMAIN backups
         /\ backups'[n] = b
         /\ \A i \in DOMAIN backups : i # n => backups'[i] = backups[i]
BY DEF BackupType

\* What copying a file, verifying and cleaning up make of the entry.
LEMMA EntryEffects ==
  ASSUME NEW b \in BackupState, NEW c \in Copies
  PROVE  /\ LET x == [b EXCEPT !.files = c]
            IN  x \in BackupState /\ x.files = c /\ x.meta = b.meta /\ x.gone = b.gone /\ x.since = b.since
                /\ x.from = b.from /\ x.to = b.to
         /\ LET x == [b EXCEPT !.verified = TRUE]
            IN  x \in BackupState /\ x.files = b.files /\ x.meta = b.meta /\ x.gone = b.gone
                /\ x.since = b.since /\ x.from = b.from /\ x.to = b.to
         /\ LET x == [b EXCEPT !.files = NoFiles, !.meta = 0, !.gone = TRUE]
            IN  x \in BackupState /\ x.files = NoFiles /\ x.meta = 0 /\ x.gone
                /\ x.since = b.since /\ x.from = b.from /\ x.to = b.to
BY NoFilesTyped DEF BackupState

\* What a step does to the entry of a backup: all but its files, its metadata and
\* its end stay.
SameEntry(b, c) == c.since = b.since /\ c.from = b.from

\* Copying a file changes the files of the running backup.
LEMMA CopyEffect ==
  ASSUME BackupType, NEW f \in DataFiles, CopyFile(f), f \in DOMAIN data
  PROVE  LET n == Len(backups)
         IN  /\ taker' \in [pc : TakerPoints, todo : SUBSET DataFiles, since : Int]
             /\ taker'.pc = "copy" /\ taker'.todo = taker.todo \ {f} /\ taker'.since = taker.since
             /\ backups' \in Seq(BackupState) /\ Len(backups') = n /\ DOMAIN backups' = DOMAIN backups
             /\ \A i \in DOMAIN backups : i # n => backups'[i] = backups[i]
             /\ n \in DOMAIN backups /\ SameEntry(backups[n], backups'[n])
             /\ backups'[n].meta = backups[n].meta /\ backups'[n].gone = backups[n].gone
             /\ backups'[n].to = backups[n].to
             /\ \/ /\ data[f].modified > taker.since
                   /\ backups'[n].files = With(backups[n].files, f, CopyOf(f))
                \/ /\ ~(data[f].modified > taker.since)
                   /\ backups'[n].files = backups[n].files
<1> DEFINE n == Len(backups)
<1>1. n \in DOMAIN backups /\ n = Current
  BY CurrentTyped DEF CopyFile
<1>2. /\ taker' \in [pc : TakerPoints, todo : SUBSET DataFiles, since : Int]
      /\ taker'.pc = "copy" /\ taker'.todo = taker.todo \ {f} /\ taker'.since = taker.since
  BY DEF CopyFile, BackupType, TakerPoints
<1> DEFINE c == With(backups[n].files, f, CopyOf(f))
           b == [backups[n] EXCEPT !.files = c]
<1>3. CopyOf(f) \in CopyState
  BY DataTyped
<1>4. backups[n] \in BackupState /\ backups[n].files \in Copies /\ backups[n].to \in Contents
  BY <1>1, BackupTyped
<1>5. c \in Copies
  BY <1>3, <1>4, OneMoreFile
<1>6. /\ b \in BackupState /\ b.files = c /\ b.meta = backups[n].meta /\ b.gone = backups[n].gone
      /\ b.since = backups[n].since /\ b.from = backups[n].from /\ b.to = backups[n].to
  BY <1>4, <1>5, EntryEffects
<1>7. CASE data[f].modified > taker.since
  <2>1. backups' = [backups EXCEPT ![n] = b]
    BY <1>1, <1>7 DEF CopyFile
  <2> HIDE DEF b, c, n
  <2> QED BY <1>1, <1>2, <1>6, <1>7, <2>1, Replaced DEF SameEntry, n, c
<1>8. CASE ~(data[f].modified > taker.since)
  <2>1. backups' = backups
    BY <1>8 DEF CopyFile
  <2> QED BY <1>1, <1>2, <1>8, <2>1 DEF SameEntry, BackupType
<1> QED BY <1>7, <1>8

\* Storing the metadata dates the running backup.
LEMMA SaveEffect ==
  ASSUME BackupType, SaveMetadata
  PROVE  LET n == Len(backups)
         IN  /\ taker' \in [pc : TakerPoints, todo : SUBSET DataFiles, since : Int] /\ taker'.pc = "verify"
             /\ backups' \in Seq(BackupState) /\ Len(backups') = n /\ DOMAIN backups' = DOMAIN backups
             /\ \A i \in DOMAIN backups : i # n => backups'[i] = backups[i]
             /\ n \in DOMAIN backups /\ SameEntry(backups[n], backups'[n])
             /\ backups'[n].meta = day /\ backups'[n].gone = backups[n].gone
             /\ backups'[n].files = backups[n].files /\ backups'[n].to = data
<1> DEFINE n == Len(backups)
           b == [backups[n] EXCEPT !.meta = day, !.to = data]
<1>1. n \in DOMAIN backups /\ n = Current
  BY CurrentTyped DEF SaveMetadata
<1>2. taker' \in [pc : TakerPoints, todo : SUBSET DataFiles, since : Int] /\ taker'.pc = "verify"
  BY DEF SaveMetadata, BackupType, TakerPoints
<1>3. backups[n] \in BackupState /\ backups[n].files \in Copies /\ data \in Contents /\ day \in Nat
  BY <1>1, BackupTyped DEF BackupType
<1>4. /\ b \in BackupState /\ b.files = backups[n].files /\ b.meta = day /\ b.gone = backups[n].gone
      /\ b.since = backups[n].since /\ b.from = backups[n].from /\ b.to = data
  <2> HIDE DEF n
  <2>1. PICK e \in BackupState : e = backups[n]
    BY <1>3
  <2>2. PICK d \in Contents, m \in Nat : d = data /\ m = day
    BY <1>3
  <2>3. [e EXCEPT !.meta = m, !.to = d] = b
    BY <2>1, <2>2, Zenon
  <2>4. PICK x : x = [e EXCEPT !.meta = m, !.to = d]
    OBVIOUS
  <2>5. x \in BackupState /\ x.files = e.files /\ x.meta = m /\ x.gone = e.gone /\ x.since = e.since
        /\ x.from = e.from /\ x.to = d
    BY <2>4 DEF BackupState
  <2>6. x = b
    BY <2>3, <2>4
  <2> HIDE DEF b
  <2> QED BY <2>1, <2>2, <2>5, <2>6
<1>5. backups' = [backups EXCEPT ![n] = b]
  BY <1>1 DEF SaveMetadata
<1> HIDE DEF b, n
<1> QED BY <1>1, <1>2, <1>4, <1>5, Replaced DEF SameEntry, n

\* Verifying changes no file and no date.
LEMMA VerifyEffect ==
  ASSUME BackupType, VerifyBackup
  PROVE  /\ taker' \in [pc : TakerPoints, todo : SUBSET DataFiles, since : Int] /\ taker'.pc = "cleanup"
         /\ backups' \in Seq(BackupState) /\ Len(backups') = Len(backups) /\ DOMAIN backups' = DOMAIN backups
         /\ \A i \in DOMAIN backups :
              /\ SameEntry(backups[i], backups'[i])
              /\ backups'[i].meta = backups[i].meta /\ backups'[i].gone = backups[i].gone
              /\ backups'[i].files = backups[i].files /\ backups'[i].to = backups[i].to
<1> DEFINE n == Len(backups)
           b == [backups[n] EXCEPT !.verified = TRUE]
<1>1. n \in DOMAIN backups /\ n = Current
  BY CurrentTyped DEF VerifyBackup
<1>2. taker' \in [pc : TakerPoints, todo : SUBSET DataFiles, since : Int] /\ taker'.pc = "cleanup"
  BY DEF VerifyBackup, BackupType, TakerPoints
<1>3. backups[n] \in BackupState /\ backups[n].files \in Copies /\ data \in Contents
  BY <1>1, BackupTyped DEF BackupType
<1>4. /\ b \in BackupState /\ b.files = backups[n].files /\ b.meta = backups[n].meta /\ b.gone = backups[n].gone
      /\ b.since = backups[n].since /\ b.from = backups[n].from /\ b.to = backups[n].to
  BY <1>3, EntryEffects
<1>5. backups' = [backups EXCEPT ![n] = b]
  BY <1>1 DEF VerifyBackup
<1> HIDE DEF b, n
<1>6. /\ backups' \in Seq(BackupState) /\ Len(backups') = Len(backups) /\ DOMAIN backups' = DOMAIN backups
      /\ backups'[n] = b /\ \A i \in DOMAIN backups : i # n => backups'[i] = backups[i]
  BY <1>1, <1>4, <1>5, Replaced
<1> QED BY <1>2, <1>4, <1>6 DEF SameEntry

\* A cleanup takes the files and the date of the backups it removes.
LEMMA CleanupEffect ==
  ASSUME BackupType, CleanupOldBackups
  PROVE  /\ backups' \in Seq(BackupState) /\ Len(backups') = Len(backups) /\ DOMAIN backups' = DOMAIN backups
         /\ \A i \in DOMAIN backups :
              \/ backups'[i] = backups[i]
              \/ /\ SameEntry(backups[i], backups'[i])
                 /\ backups'[i].meta = 0 /\ backups'[i].gone /\ backups'[i].files = NoFiles
<1> DEFINE old(i) == [backups[i] EXCEPT !.files = NoFiles, !.meta = 0, !.gone = TRUE]
<1>1. ASSUME NEW i \in DOMAIN backups
      PROVE  /\ backups[i] \in BackupState /\ old(i) \in BackupState
             /\ old(i).since = backups[i].since /\ old(i).from = backups[i].from
             /\ old(i).meta = 0 /\ old(i).gone /\ old(i).files = NoFiles
  <2>1. backups[i] \in BackupState /\ backups[i].files \in Copies /\ backups[i].from \in Contents
    BY BackupTyped
  <2> QED BY <2>1, EntryEffects
<1>2. /\ DOMAIN backups' = DOMAIN backups
      /\ \A i \in DOMAIN backups : backups'[i] = backups[i] \/ backups'[i] = old(i)
      /\ backups' = [i \in DOMAIN backups |-> backups'[i]]
  BY DEF CleanupOldBackups
<1> HIDE DEF old
<1>3. Len(backups) \in Nat /\ DOMAIN backups = 1..Len(backups)
  BY DEF BackupType
<1>4. \A i \in DOMAIN backups : backups'[i] \in BackupState
  BY <1>1, <1>2
<1>5. backups' \in [1..Len(backups) -> BackupState]
  BY <1>2, <1>3, <1>4
<1>6. backups' \in Seq(BackupState) /\ Len(backups') = Len(backups)
  BY <1>3, <1>5
<1> QED BY <1>1, <1>2, <1>6 DEF SameEntry

\* The entry of a backup that begins.
LEMMA StartEffect ==
  ASSUME BackupType, StartBackup
  PROVE  LET n == Len(backups) + 1
             t == IF bconf.incremental THEN LastBackupTime ELSE -1
         IN  /\ t \in Int
             /\ taker' = [pc |-> "copy", todo |-> DOMAIN data, since |-> t]
             /\ taker' \in [pc : TakerPoints, todo : SUBSET DataFiles, since : Int]
             /\ backups' \in Seq(BackupState) /\ Len(backups') = n /\ DOMAIN backups' = DOMAIN backups \cup {n}
             /\ n \notin DOMAIN backups /\ \A i \in DOMAIN backups : backups'[i] = backups[i]
             /\ backups'[n].meta = 0 /\ ~backups'[n].gone /\ backups'[n].files = NoFiles
             /\ backups'[n].since = t /\ backups'[n].from = data
<1> DEFINE n == Len(backups) + 1
           t == IF bconf.incremental THEN LastBackupTime ELSE -1
           b == [files |-> NoFiles, meta |-> 0, verified |-> FALSE, gone |-> FALSE, since |-> t,
                 from |-> data, to |-> NoFiles]
<1>1. t \in Int
  <2>1. CASE last # 0
    <3>1. last \in DOMAIN backups
      BY <2>1 DEF BackupType
    <3>2. backups[last].meta \in Nat
      BY <3>1, BackupTyped
    <3> QED BY <3>2 DEF LastBackupTime
  <2>2. CASE last = 0
    BY <2>2 DEF LastBackupTime
  <2> QED BY <2>1, <2>2
<1>2. taker' = [pc |-> "copy", todo |-> DOMAIN data, since |-> t] /\ backups' = Append(backups, b)
  BY DEF StartBackup
<1> HIDE DEF t
<1>3. b \in BackupState /\ b.meta = 0 /\ ~b.gone /\ b.files = NoFiles /\ b.since = t /\ b.from = data
  BY <1>1, NoFilesTyped DEF BackupType, BackupState
<1>4. taker' \in [pc : TakerPoints, todo : SUBSET DataFiles, since : Int]
  BY <1>1, <1>2, DataTyped DEF TakerPoints
<1> HIDE DEF b
<1>5. backups \in Seq(BackupState)
  BY DEF BackupType
<1>6. /\ backups' \in Seq(BackupState) /\ Len(backups') = n /\ DOMAIN backups' = DOMAIN backups \cup {n}
      /\ n \notin DOMAIN backups /\ (\A i \in DOMAIN backups : backups'[i] = backups[i]) /\ backups'[n] = b
  BY <1>2, <1>3, <1>5
<1> QED BY <1>1, <1>2, <1>3, <1>4, <1>6 DEF t

\* What the database, and a restore, make of the data directory.
LEMMA DataEffect ==
  ASSUME BackupType, NEW f \in DataFiles
  PROVE  /\ WriteFile(f) =>
              /\ data' \in Contents /\ DOMAIN data' = DOMAIN data /\ f \in DOMAIN data
              /\ data'[f].version = data[f].version + 1 /\ data'[f].modified = day
              /\ data'[f].spoilt = data[f].spoilt
              /\ \A g \in DOMAIN data : g # f => data'[g] = data[g]
         /\ RemoveFile(f) =>
              /\ data' \in Contents /\ DOMAIN data' = DOMAIN data \ {f}
              /\ \A g \in DOMAIN data' : data'[g] = data[g]
<1>1. /\ DOMAIN data \in SUBSET DataFiles /\ data \in [DOMAIN data -> FileState]
      /\ \A g \in DOMAIN data : data[g] \in FileState
  BY DataTyped
<1>2. ASSUME WriteFile(f)
      PROVE  /\ data' \in Contents /\ DOMAIN data' = DOMAIN data /\ f \in DOMAIN data
             /\ data'[f].version = data[f].version + 1 /\ data'[f].modified = day
             /\ data'[f].spoilt = data[f].spoilt
             /\ \A g \in DOMAIN data : g # f => data'[g] = data[g]
  <2> DEFINE x == [version |-> data[f].version + 1, modified |-> day, spoilt |-> data[f].spoilt]
  <2>1. f \in DOMAIN data /\ data' = [data EXCEPT ![f] = x]
    BY <1>2 DEF WriteFile
  <2>2. x \in FileState /\ x.version = data[f].version + 1 /\ x.modified = day /\ x.spoilt = data[f].spoilt
    BY <1>1, <2>1 DEF FileState, BackupType
  <2> HIDE DEF x
  <2>3. data' \in [DOMAIN data -> FileState]
    BY <1>1, <2>1, <2>2
  <2>4. data' \in Contents
    BY <1>1, <2>3, ContentsTyped
  <2> QED BY <1>1, <2>1, <2>2, <2>3, <2>4
<1>3. ASSUME RemoveFile(f)
      PROVE  /\ data' \in Contents /\ DOMAIN data' = DOMAIN data \ {f}
             /\ \A g \in DOMAIN data' : data'[g] = data[g]
  <2>1. data' = [g \in DOMAIN data \ {f} |-> data[g]]
    BY <1>3 DEF RemoveFile
  <2>2. data' \in [DOMAIN data \ {f} -> FileState]
    BY <1>1, <2>1
  <2>3. DOMAIN data \ {f} \in SUBSET DataFiles
    BY <1>1
  <2>4. data' \in Contents
    BY <2>2, <2>3, ContentsTyped
  <2> QED BY <2>1, <2>4
<1> QED BY <1>2, <1>3

\* A restore makes of the data directory what it decrypts.
LEMMA RestoreEffect ==
  ASSUME BackupType, NEW i \in DOMAIN backups, NEW restored \in SUBSET DataFiles, restore_backup(i, restored)
  PROVE  /\ data' \in Contents /\ DOMAIN data' = restored /\ restored \subseteq DOMAIN backups[i].files
         /\ \A f \in restored : data'[f] = decrypt_data(f, backups[i].files[f])
<1>1. restored \subseteq DOMAIN backups[i].files /\ data' = [f \in restored |-> decrypt_data(f, backups[i].files[f])]
  BY DEF restore_backup
<1>2. ASSUME NEW f \in restored PROVE decrypt_data(f, backups[i].files[f]) \in FileState
  <2>1. backups[i].files[f] \in CopyState
    BY <1>1, <1>2, BackupTyped
  <2> QED BY <2>1 DEF decrypt_data, CopyState, FileState, BackupType
<1>3. data' \in [restored -> FileState]
  BY <1>1, <1>2
<1> QED BY <1>1, <1>3, ContentsTyped

\* Every step keeps the types.
LEMMA BackupTypeStep ==
  ASSUME BackupType, [BackupNext]_backupVars
  PROVE  BackupType'
<1>1. ASSUME NEW f \in DataFiles, WriteFile(f) PROVE BackupType'
  BY <1>1, DataEffect DEF BackupType, WriteFile
<1>2. ASSUME NEW f \in DataFiles, RemoveFile(f) PROVE BackupType'
  BY <1>2, DataEffect DEF BackupType, RemoveFile
<1>3. ASSUME NEW f \in DataFiles, CopyFile(f) PROVE BackupType'
  <2>1. CASE f \in DOMAIN data
    <3>1. UNCHANGED <<bconf, day, data, last, restoredB, touched>>
      BY <1>3 DEF CopyFile
    <3>2. ~restoredB /\ Len(backups) > 0
      BY <1>3 DEF CopyFile, BackupType
    <3> QED BY <1>3, <2>1, <3>1, <3>2, CopyEffect DEF BackupType
  <2>2. CASE f \notin DOMAIN data
    BY <1>3, <2>2 DEF BackupType, CopyFile, GiveUp, Resting, TakerPoints
  <2> QED BY <2>1, <2>2
<1>4. CASE DayPasses
  BY <1>4 DEF BackupType, DayPasses
<1>5. CASE StartBackup
  <2>1. UNCHANGED <<bconf, day, data, last, restoredB, touched>> /\ ~restoredB
    BY <1>5 DEF StartBackup
  <2>2. Len(backups) \in Nat
    BY DEF BackupType
  <2>3. Len(backups') = Len(backups) + 1 /\ backups' \in Seq(BackupState)
        /\ taker' \in [pc : TakerPoints, todo : SUBSET DataFiles, since : Int]
    BY <1>5, StartEffect
  <2>4. last <= Len(backups') /\ Len(backups') > 0
    BY <2>2, <2>3 DEF BackupType
  <2> QED BY <2>1, <2>3, <2>4 DEF BackupType
<1>6. CASE SaveMetadata
  <2>1. UNCHANGED <<bconf, day, data, last, restoredB, touched>> /\ ~restoredB /\ Len(backups) > 0
    BY <1>6 DEF SaveMetadata, BackupType
  <2> QED BY <1>6, <2>1, SaveEffect DEF BackupType
<1>7. CASE VerifyBackup
  <2>1. UNCHANGED <<bconf, day, data, last, restoredB, touched>> /\ ~restoredB /\ Len(backups) > 0
    BY <1>7 DEF VerifyBackup, BackupType
  <2> QED BY <1>7, <2>1, VerifyEffect DEF BackupType
<1>8. CASE CleanupOldBackups
  <2>1. UNCHANGED <<bconf, day, data, restoredB, touched>> /\ taker' = Resting /\ last' = Len(backups)
    BY <1>8 DEF CleanupOldBackups, Current
  <2>2. Resting \in [pc : TakerPoints, todo : SUBSET DataFiles, since : Int] /\ Resting.pc = "idle"
    BY DEF Resting, TakerPoints
  <2>3. Len(backups) \in Nat
    BY DEF BackupType
  <2> QED BY <1>8, <2>1, <2>2, <2>3, CleanupEffect DEF BackupType
<1>9. ASSUME NEW restart \in BOOLEAN, BackupFault(restart) PROVE BackupType'
  BY <1>9 DEF BackupType, BackupFault, GiveUp, Resting, TakerPoints
<1>10. ASSUME NEW i \in DOMAIN backups, NEW restored \in SUBSET DataFiles, restore_backup(i, restored)
       PROVE  BackupType'
  <2>1. UNCHANGED <<bconf, day, backups, taker, last, touched>> /\ restoredB' = TRUE /\ taker.pc = "idle"
    BY <1>10 DEF restore_backup
  <2> QED BY <1>10, <2>1, RestoreEffect DEF BackupType
<1>11. CASE UNCHANGED backupVars
  BY <1>11 DEF BackupType, backupVars
<1> QED BY <1>1, <1>2, <1>3, <1>4, <1>5, <1>6, <1>7, <1>8, <1>9, <1>10, <1>11 DEF BackupNext

\* Nothing is spoilt before a restore.
LEMMA CopyInvStep ==
  ASSUME BackupType, CopyInv, [BackupNext]_backupVars
  PROVE  CopyInv'
<1>1. ASSUME NEW f \in DataFiles, WriteFile(f) PROVE CopyInv'
  BY <1>1, DataEffect DEF CopyInv, WriteFile
<1>2. ASSUME NEW f \in DataFiles, RemoveFile(f) PROVE CopyInv'
  BY <1>2, DataEffect DEF CopyInv, RemoveFile
<1>3. ASSUME NEW f \in DataFiles, CopyFile(f) PROVE CopyInv'
  <2>1. UNCHANGED <<bconf, data, restoredB>> /\ taker.pc = "copy"
    BY <1>3 DEF CopyFile
  <2>2. CASE f \in DOMAIN data
    <3> DEFINE n == Len(backups)
    <3>1. /\ DOMAIN backups' = DOMAIN backups /\ n \in DOMAIN backups
          /\ \A i \in DOMAIN backups : i # n => backups'[i] = backups[i]
          /\ \/ backups'[n].files = With(backups[n].files, f, CopyOf(f))
             \/ backups'[n].files = backups[n].files
      BY <1>3, <2>2, CopyEffect
    <3>2. ~data[f].spoilt
      BY <2>1, <2>2 DEF CopyInv, BackupType
    <3>3. CopyOf(f) \in CopyState /\ ~CopyOf(f).spoilt /\ CopyOf(f).enc = (bconf.encrypt /\ ~bconf.incremental)
      BY <2>2, <3>2, DataTyped DEF CopyOf
    <3>4. backups[n].files \in Copies
      BY <3>1, BackupTyped
    <3> HIDE DEF n
    <3>5. \A g \in DOMAIN backups'[n].files :
            \/ g \in DOMAIN backups[n].files /\ backups'[n].files[g] = backups[n].files[g]
            \/ backups'[n].files[g] = CopyOf(f)
      <4> DEFINE c == backups[n].files
                 x == CopyOf(f)
      <4>1. c \in Copies /\ x \in CopyState
        BY <3>3, <3>4
      <4> HIDE DEF c, x
      <4>2. DOMAIN With(c, f, x) = DOMAIN c \cup {f} /\ With(c, f, x)[f] = x
            /\ \A g \in DOMAIN c : g # f => With(c, f, x)[g] = c[g]
        BY <4>1, OneMoreFile
      <4>3. \A g \in DOMAIN With(c, f, x) : (g \in DOMAIN c /\ With(c, f, x)[g] = c[g]) \/ With(c, f, x)[g] = x
        BY <4>2
      <4> QED BY <3>1, <4>3 DEF c, x
    <3>6. \A g \in DOMAIN backups'[n].files :
            ~backups'[n].files[g].spoilt /\ backups'[n].files[g].enc = (bconf.encrypt /\ ~bconf.incremental)
      BY <3>1, <3>3, <3>5 DEF CopyInv
    <3> QED BY <2>1, <3>1, <3>6 DEF CopyInv
  <2>3. CASE f \notin DOMAIN data
    BY <1>3, <2>1, <2>3 DEF CopyInv, CopyFile
  <2> QED BY <2>2, <2>3
<1>4. CASE DayPasses
  BY <1>4 DEF CopyInv, DayPasses
<1>5. CASE StartBackup
  <2>1. UNCHANGED <<bconf, data, restoredB>>
    BY <1>5 DEF StartBackup
  <2> DEFINE n == Len(backups) + 1
  <2>2. /\ DOMAIN backups' = DOMAIN backups \cup {n} /\ backups'[n].files = NoFiles
        /\ \A i \in DOMAIN backups : backups'[i] = backups[i]
    BY <1>5, StartEffect
  <2>3. DOMAIN NoFiles = {}
    BY NoFilesTyped
  <2> HIDE DEF n
  <2> QED BY <2>1, <2>2, <2>3 DEF CopyInv
<1>6. CASE SaveMetadata
  <2>1. UNCHANGED <<bconf, data, restoredB>>
    BY <1>6 DEF SaveMetadata
  <2> QED BY <1>6, <2>1, SaveEffect DEF CopyInv
<1>7. CASE VerifyBackup
  <2>1. UNCHANGED <<bconf, data, restoredB>>
    BY <1>7 DEF VerifyBackup
  <2> QED BY <1>7, <2>1, VerifyEffect DEF CopyInv
<1>8. CASE CleanupOldBackups
  <2>1. UNCHANGED <<bconf, data, restoredB>>
    BY <1>8 DEF CleanupOldBackups
  <2> QED BY <1>8, <2>1, CleanupEffect, NoFilesTyped DEF CopyInv
<1>9. ASSUME NEW restart \in BOOLEAN, BackupFault(restart) PROVE CopyInv'
  BY <1>9 DEF CopyInv, BackupFault
<1>10. ASSUME NEW i \in DOMAIN backups, NEW restored \in SUBSET DataFiles, restore_backup(i, restored) PROVE CopyInv'
  BY <1>10 DEF CopyInv, restore_backup
<1>11. CASE UNCHANGED backupVars
  BY <1>11 DEF CopyInv, backupVars
<1> QED BY <1>1, <1>2, <1>3, <1>4, <1>5, <1>6, <1>7, <1>8, <1>9, <1>10, <1>11 DEF BackupNext

\* What a restore spoils looks encrypted and was not.
LEMMA SpoiltStep ==
  ASSUME BackupType, CopyInv, SpoiltNeedsMark, CopyInv', [BackupNext]_backupVars
  PROVE  SpoiltNeedsMark'
<1>1. ASSUME NEW i \in DOMAIN backups, NEW restored \in SUBSET DataFiles, restore_backup(i, restored)
      PROVE  SpoiltNeedsMark'
  <2>1. bconf' = bconf
    BY <1>1 DEF restore_backup
  <2>2. ASSUME NEW f \in restored, data'[f].spoilt PROVE bconf.encrypt /\ bconf.incremental /\ f \in MarkedFiles
    <3>1. f \in DOMAIN backups[i].files /\ data'[f] = decrypt_data(f, backups[i].files[f])
      BY <1>1, <2>2, RestoreEffect
    <3>2. ~backups[i].files[f].spoilt /\ backups[i].files[f].enc = (bconf.encrypt /\ ~bconf.incremental)
      BY <3>1 DEF CopyInv
    <3>3. decrypt_data(f, backups[i].files[f]).spoilt =
            (backups[i].files[f].spoilt \/ (bconf.encrypt /\ ~backups[i].files[f].enc /\ f \in MarkedFiles))
      BY DEF decrypt_data
    <3>4. backups[i].files[f].spoilt \/ (bconf.encrypt /\ ~backups[i].files[f].enc /\ f \in MarkedFiles)
      BY <2>2, <3>1, <3>3, Zenon
    <3> QED BY <3>2, <3>4, Zenon
  <2>3. DOMAIN data' = restored
    BY <1>1, RestoreEffect
  <2> QED BY <2>1, <2>2, <2>3 DEF SpoiltNeedsMark
<1>2. CASE ~restoredB'
  BY <1>2 DEF CopyInv, SpoiltNeedsMark
<1>3. CASE UNCHANGED <<bconf, data>>
  BY <1>3 DEF SpoiltNeedsMark
<1>4. \/ \E i \in DOMAIN backups, restored \in SUBSET DataFiles : restore_backup(i, restored)
      \/ ~restoredB'
      \/ UNCHANGED <<bconf, data>>
  BY DEF BackupNext, backupVars, WriteFile, RemoveFile, CopyFile, DayPasses, StartBackup, SaveMetadata,
         VerifyBackup, CleanupOldBackups, BackupFault
<1> QED BY <1>1, <1>2, <1>3, <1>4

\* What no step changes, and what only grows.
LEMMA Steady ==
  ASSUME [BackupNext]_backupVars
  PROVE  bconf' = bconf /\ touched \subseteq touched' /\ (restoredB => restoredB')
<1>1. ASSUME NEW f \in DataFiles, WriteFile(f)
      PROVE  bconf' = bconf /\ touched \subseteq touched' /\ (restoredB => restoredB')
  <2>1. touched' = touched \/ touched' = touched \cup {f}
    BY <1>1, Zenon DEF WriteFile
  <2> QED BY <1>1, <2>1 DEF WriteFile
<1>2. ASSUME ~\E f \in DataFiles : WriteFile(f)
      PROVE  bconf' = bconf /\ touched' = touched /\ (restoredB => restoredB')
  <2>1. UNCHANGED <<bconf, touched>> /\ (restoredB' = restoredB \/ restoredB' = TRUE)
    BY <1>2 DEF BackupNext, backupVars, RemoveFile, CopyFile, DayPasses, StartBackup, SaveMetadata,
                VerifyBackup, CleanupOldBackups, BackupFault, restore_backup
  <2>2. bconf' = bconf /\ touched' = touched
    BY <2>1
  <2>3. restoredB => restoredB'
    BY <2>1
  <2> QED BY <2>2, <2>3
<1> QED BY <1>1, <1>2

\* What a step may do to the entry of a backup.
LEMMA EntryStep ==
  ASSUME BackupType, [BackupNext]_backupVars, NEW i \in DOMAIN backups
  PROVE  /\ i \in DOMAIN backups' /\ SameEntry(backups[i], backups'[i])
         /\ backups[i].gone => backups'[i].gone
         /\ \/ /\ backups'[i].files = backups[i].files /\ backups'[i].meta = backups[i].meta
               /\ backups'[i].to = backups[i].to
            \/ backups'[i].gone /\ backups'[i].meta = 0
            \/ i = Len(backups) /\ SaveMetadata
            \/ i = Len(backups) /\ \E f \in DOMAIN data : CopyFile(f)
<1>1. CASE backups' = backups
  BY <1>1 DEF SameEntry
<1>2. ASSUME NEW f \in DataFiles, CopyFile(f), f \in DOMAIN data
      PROVE  /\ i \in DOMAIN backups' /\ SameEntry(backups[i], backups'[i])
             /\ backups[i].gone => backups'[i].gone
             /\ backups'[i] = backups[i] \/ i = Len(backups)
  BY <1>2, CopyEffect DEF SameEntry
<1>3. CASE SaveMetadata
  BY <1>3, SaveEffect DEF SameEntry
<1>4. CASE VerifyBackup
  BY <1>4, VerifyEffect
<1>5. CASE CleanupOldBackups
  BY <1>5, CleanupEffect DEF SameEntry
<1>6. CASE StartBackup
  BY <1>6, StartEffect DEF SameEntry
<1>7. \/ backups' = backups
      \/ \E f \in DataFiles : CopyFile(f) /\ f \in DOMAIN data
      \/ SaveMetadata \/ VerifyBackup \/ CleanupOldBackups \/ StartBackup
  BY DEF BackupNext, backupVars, WriteFile, RemoveFile, CopyFile, DayPasses, BackupFault, restore_backup
<1> QED BY <1>1, <1>2, <1>3, <1>4, <1>5, <1>6, <1>7

\* An entry that appears is that of a backup that begins.
LEMMA EntryAppears ==
  ASSUME BackupType, [BackupNext]_backupVars, NEW i \in DOMAIN backups', i \notin DOMAIN backups
  PROVE  StartBackup /\ i = Len(backups) + 1 /\ backups'[i].meta = 0
<1>1. ASSUME NEW f \in DataFiles, CopyFile(f) PROVE DOMAIN backups' = DOMAIN backups
  <2>1. CASE f \in DOMAIN data
    BY <1>1, <2>1, CopyEffect
  <2>2. CASE f \notin DOMAIN data
    BY <1>1, <2>2 DEF CopyFile
  <2> QED BY <2>1, <2>2
<1>2. SaveMetadata \/ VerifyBackup \/ CleanupOldBackups => DOMAIN backups' = DOMAIN backups
  BY SaveEffect, VerifyEffect, CleanupEffect
<1>3. StartBackup
  BY <1>1, <1>2 DEF BackupNext, backupVars, WriteFile, RemoveFile, DayPasses, BackupFault, restore_backup
<1> QED BY <1>3, StartEffect

\* What was covered stays covered, except for the file that is being copied.
LEMMA CoveredStays ==
  ASSUME BackupType, [BackupNext]_backupVars, NEW m \in DOMAIN backups, NEW g, Covered(m, g),
         m = Len(backups) => ~CopyFile(g)
  PROVE  Covered(m, g)'
<1>0. m \in Nat /\ Len(backups) \in Nat /\ DOMAIN backups = 1..Len(backups) /\ m <= Len(backups)
  BY DEF BackupType
<1>1. \A j \in 1..m : j \in DOMAIN backups
  BY <1>0
<1>2. backups'[m].from = backups[m].from /\ touched \subseteq touched'
  BY EntryStep, Steady DEF SameEntry
<1>3. CASE g \in touched
  BY <1>2, <1>3 DEF Covered
<1>4. CASE \E j \in 1..m : backups[j].gone
  <2>1. PICK j \in 1..m : backups[j].gone
    BY <1>4
  <2>2. backups'[j].gone
    BY <1>1, <2>1, EntryStep
  <2> QED BY <2>2 DEF Covered
<1>5. ASSUME NEW j \in 1..m, g \in DOMAIN backups[j].files, backups[j].files[g].version >= backups[m].from[g].version
      PROVE  Covered(m, g)'
  <2>1. j \in DOMAIN backups
    BY <1>1
  <2>2. CASE backups'[j].gone
    BY <2>2 DEF Covered
  <2>3. CASE g \in DOMAIN backups'[j].files /\ backups'[j].files[g] = backups[j].files[g]
    BY <1>2, <1>5, <2>3 DEF Covered
  <2>4. CASE j = Len(backups) /\ SaveMetadata
    BY <2>3, <2>4, <1>5, SaveEffect
  <2>5. CASE j = Len(backups) /\ \E f \in DOMAIN data : CopyFile(f)
    <3>1. PICK f \in DOMAIN data : CopyFile(f)
      BY <2>5
    <3>2. m = Len(backups) /\ f # g
      BY <1>0, <2>5, <3>1
    <3>3. f \in DataFiles /\ CopyOf(f) \in CopyState /\ backups[j].files \in Copies
      BY <2>1, <3>1, DataTyped, BackupTyped
    <3>4. backups'[j].files = backups[j].files \/ backups'[j].files = With(backups[j].files, f, CopyOf(f))
      BY <2>5, <3>1, <3>3, CopyEffect
    <3>5. g \in DOMAIN With(backups[j].files, f, CopyOf(f)) /\ With(backups[j].files, f, CopyOf(f))[g] = backups[j].files[g]
      <4> DEFINE c == backups[j].files
                 x == CopyOf(f)
      <4>1. c \in Copies /\ x \in CopyState /\ g \in DOMAIN c
        BY <1>5, <3>3
      <4> HIDE DEF c, x
      <4>2. f \in DataFiles
        BY <3>3
      <4>3. DOMAIN With(c, f, x) = DOMAIN c \cup {f} /\ \A h \in DOMAIN c : h # f => With(c, f, x)[h] = c[h]
        BY <4>1, <4>2, OneMoreFile
      <4> QED BY <3>2, <4>1, <4>3 DEF c, x
    <3> QED BY <1>5, <2>3, <3>4, <3>5
  <2> QED BY <1>5, <2>1, <2>2, <2>3, <2>4, <2>5, EntryStep
<1> QED BY <1>3, <1>4, <1>5 DEF Covered

\* What a backup holds when its metadata is stored.
LEMMA FuzzyStep ==
  ASSUME BackupType, CopyingInv, FuzzySnapshot, [BackupNext]_backupVars
  PROVE  FuzzySnapshot'
<1> DEFINE Fuzzy(b) ==
             /\ \A f \in DOMAIN b.files \cap DOMAIN b.from \cap DOMAIN b.to :
                  b.files[f].version \in b.from[f].version..b.to[f].version
             /\ ~bconf.incremental => DOMAIN b.from \cap DOMAIN b.to \subseteq DOMAIN b.files
<1>1. ASSUME NEW i \in DOMAIN backups', backups'[i].meta > 0
      PROVE  Fuzzy(backups'[i])
  <2>1. i \in DOMAIN backups
    BY <1>1, EntryAppears
  <2>2. SameEntry(backups[i], backups'[i])
    BY <2>1, EntryStep
  <2>3. CASE backups'[i].files = backups[i].files /\ backups'[i].meta = backups[i].meta /\ backups'[i].to = backups[i].to
    BY <1>1, <2>1, <2>2, <2>3 DEF FuzzySnapshot, SameEntry
  <2>4. CASE i = Len(backups) /\ SaveMetadata
    <3>1. Copying(i) /\ taker.todo = {}
      BY <2>1, <2>4 DEF SaveMetadata, CopyingInv
    <3>2. /\ backups'[i].files = backups[i].files /\ backups'[i].from = backups[i].from
          /\ backups'[i].to = data
      BY <2>4, SaveEffect DEF SameEntry
    <3>3. ASSUME NEW f \in DOMAIN data, f \in DOMAIN backups[i].files
          PROVE  backups[i].files[f].version \in backups[i].from[f].version..data[f].version
      <4>1. CopyingFile(i, f)
        BY <3>1 DEF Copying
      <4>2. backups[i].files[f].version \in Nat /\ data[f].version \in Nat /\ backups[i].from[f].version \in Nat
        <5>1. backups[i].files[f] \in CopyState /\ data[f] \in FileState /\ backups[i].from[f] \in FileState
          BY <2>1, <3>3, <4>1, BackupTyped, DataTyped DEF CopyingFile
        <5> QED BY <5>1 DEF CopyState, FileState
      <4> QED BY <3>3, <4>1, <4>2 DEF CopyingFile
    <3>4. ASSUME NEW f \in DOMAIN data, ~bconf.incremental PROVE f \in DOMAIN backups[i].files
      BY <3>1, <3>4 DEF Copying, CopyingFile
    <3> QED BY <3>2, <3>3, <3>4
  <2>5. CASE i = Len(backups) /\ \E f \in DOMAIN data : CopyFile(f)
    <3>1. backups[i].meta = 0 /\ backups'[i].meta = backups[i].meta
      <4>1. PICK f \in DOMAIN data : CopyFile(f)
        BY <2>5
      <4>2. f \in DataFiles
        BY DataTyped
      <4> QED BY <2>1, <2>5, <4>1, <4>2, CopyEffect DEF CopyFile, CopyingInv, Copying
    <3> QED BY <1>1, <3>1
  <2> QED BY <1>1, <2>1, <2>3, <2>4, <2>5, EntryStep
<1>2. bconf' = bconf
  BY Steady
<1> QED BY <1>1, <1>2 DEF FuzzySnapshot

\* What an increment leaves out when its metadata is stored.
LEMMA IncrementStep ==
  ASSUME BackupType, CopyingInv, IncrementLeavesOut, [BackupNext]_backupVars
  PROVE  IncrementLeavesOut'
<1>1. ASSUME NEW i \in DOMAIN backups', bconf'.incremental, backups'[i].meta > 0, ~restoredB',
             NEW f \in DOMAIN backups'[i].from \cap DOMAIN backups'[i].to
      PROVE  Covered(i, f)'
  <2>1. i \in DOMAIN backups
    BY <1>1, EntryAppears
  <2>2. backups'[i].from = backups[i].from /\ ~restoredB /\ bconf.incremental
    BY <1>1, <2>1, EntryStep, Steady DEF SameEntry
  <2>3. ~(i = Len(backups) /\ \E g \in DOMAIN data : CopyFile(g))
    <3>1. ASSUME i = Len(backups), NEW g \in DOMAIN data, CopyFile(g) PROVE FALSE
      <4>1. g \in DataFiles
        BY DataTyped
      <4>2. backups[i].meta = 0 /\ backups'[i].meta = backups[i].meta
        BY <2>1, <3>1, <4>1, CopyEffect DEF CopyFile, CopyingInv, Copying
      <4> QED BY <1>1, <4>2
    <3> QED BY <3>1
  <2>4. CASE backups'[i].files = backups[i].files /\ backups'[i].meta = backups[i].meta /\ backups'[i].to = backups[i].to
    <3>1. Covered(i, f)
      BY <1>1, <2>1, <2>2, <2>4 DEF IncrementLeavesOut, Covered
    <3>2. CASE i = Len(backups) /\ CopyFile(f)
      <4>1. f \notin DOMAIN data
        BY <2>3, <3>2
      <4>2. backups' = backups /\ touched' = touched
        BY <3>2, <4>1 DEF CopyFile
      <4> QED BY <3>1, <4>2 DEF Covered
    <3>3. CASE ~(i = Len(backups) /\ CopyFile(f))
      BY <2>1, <3>1, <3>3, CoveredStays
    <3> QED BY <3>2, <3>3
  <2>5. CASE i = Len(backups) /\ SaveMetadata
    <3>1. Copying(i) /\ taker.todo = {} /\ ~CopyFile(f)
      BY <2>1, <2>5 DEF SaveMetadata, CopyingInv, CopyFile
    <3>2. f \in DOMAIN data
      BY <1>1, <2>5, SaveEffect
    <3>3. Covered(i, f)
      BY <2>2, <3>1, <3>2 DEF Copying, CopyingFile
    <3> QED BY <2>1, <3>1, <3>3, CoveredStays
  <2> QED BY <1>1, <2>1, <2>3, <2>4, <2>5, EntryStep
<1> QED BY <1>1 DEF IncrementLeavesOut, Covered

\* A file that has not changed since a listed backup is covered by what covered it
\* then.
LEMMA OldCovered ==
  ASSUME BackupType, OldInv, IncrementLeavesOut, ~restoredB, bconf.incremental,
         NEW n \in DOMAIN backups, NEW k \in DOMAIN backups, k <= n, backups[k].meta > 0,
         NEW f \in DOMAIN data, data[f].modified <= backups[k].meta,
         f \in DOMAIN backups[n].from, backups[n].from[f].version <= data[f].version
  PROVE  Covered(n, f)
<1>1. CASE f \in touched
  BY <1>1 DEF Covered
<1>2. CASE f \notin touched
  <2>1. f \in DOMAIN backups[k].from \cap DOMAIN backups[k].to /\ data[f].version <= backups[k].from[f].version
    BY <1>2 DEF OldInv
  <2>2. k \in Nat /\ n \in Nat /\ \A j \in 1..k : j \in 1..n /\ j \in DOMAIN backups
    BY DEF BackupType
  <2>3. CASE \E j \in 1..k : backups[j].gone
    BY <2>2, <2>3 DEF Covered
  <2>4. CASE \E j \in 1..k : f \in DOMAIN backups[j].files /\ backups[j].files[f].version >= backups[k].from[f].version
    <3>1. PICK j \in 1..k : f \in DOMAIN backups[j].files /\ backups[j].files[f].version >= backups[k].from[f].version
      BY <2>4
    <3>2. /\ backups[j].files[f] \in CopyState /\ backups[k].from[f] \in FileState
          /\ backups[n].from[f] \in FileState /\ data[f] \in FileState
      BY <2>1, <2>2, <3>1, BackupTyped, DataTyped
    <3>3. /\ backups[j].files[f].version \in Nat /\ backups[k].from[f].version \in Nat
          /\ backups[n].from[f].version \in Nat /\ data[f].version \in Nat
      BY <3>2 DEF CopyState, FileState
    <3>4. backups[j].files[f].version >= backups[n].from[f].version
      BY <2>1, <3>1, <3>3
    <3> QED BY <2>2, <3>1, <3>4 DEF Covered
  <2> QED BY <1>2, <2>1, <2>3, <2>4 DEF IncrementLeavesOut
<1> QED BY <1>1, <1>2

\* A file that a step leaves alone.
LEMMA FileKept ==
  ASSUME NEW n, NEW f, CopyingFile(n, f), bconf' = bconf, backups' = backups, taker' = taker,
         touched \subseteq touched', data'[f] = data[f]
  PROVE  CopyingFile(n, f)'
<1>1. Covered(n, f) => Covered(n, f)'
  BY DEF Covered
<1> QED BY <1>1 DEF CopyingFile

\* The file that is copied, or left out.
LEMMA FileCopied ==
  ASSUME BackupType, CopyingInv, OldInv, IncrementLeavesOut, NEW f \in DOMAIN data, CopyFile(f),
         NEW n \in DOMAIN backups, n = Len(backups)
  PROVE  CopyingFile(n, f)'
<1>1. /\ Copying(n) /\ CopyingFile(n, f) /\ ~restoredB /\ f \in DataFiles
      /\ UNCHANGED <<bconf, data, touched>>
  BY DataTyped DEF CopyFile, CopyingInv, Copying, BackupType
<1>2. /\ taker'.todo = taker.todo \ {f} /\ DOMAIN backups' = DOMAIN backups
      /\ backups'[n].from = backups[n].from
      /\ \/ data[f].modified > taker.since /\ backups'[n].files = With(backups[n].files, f, CopyOf(f))
         \/ ~(data[f].modified > taker.since) /\ backups'[n].files = backups[n].files
  BY <1>1, CopyEffect DEF SameEntry
<1>3. /\ data[f].modified \in Nat /\ data[f].version \in Nat /\ taker.since \in Int
      /\ backups[n].from[f].version \in Nat
  <2>1. data[f] \in FileState /\ backups[n].from[f] \in FileState
    BY <1>1, DataTyped, BackupTyped DEF CopyingFile
  <2> QED BY <2>1 DEF FileState, BackupType
<1>4. CASE data[f].modified > taker.since
  <2> DEFINE c == backups[n].files
             x == CopyOf(f)
  <2>1. c \in Copies /\ x \in CopyState /\ f \in DataFiles /\ x.version = data[f].version
    BY <1>1, BackupTyped, DataTyped DEF CopyOf
  <2>2. backups'[n].files = With(c, f, x)
    BY <1>2, <1>4
  <2> HIDE DEF c, x
  <2>3. DOMAIN With(c, f, x) = DOMAIN c \cup {f} /\ With(c, f, x)[f] = x
    BY <2>1, OneMoreFile
  <2>4. f \in DOMAIN backups'[n].files /\ backups'[n].files[f].version = data[f].version
    BY <2>1, <2>2, <2>3
  <2>5. backups[n].from[f].version <= data[f].version /\ f \in DOMAIN backups[n].from
        /\ (f \notin touched => backups[n].from[f].version = data[f].version)
    BY <1>1 DEF CopyingFile
  <2>6. data[f].version >= backups[n].from[f].version /\ data[f].version <= data[f].version
    BY <1>3, <2>5
  <2>7. n \in 1..n
    BY DEF BackupType
  <2>8. Covered(n, f)'
    BY <1>2, <2>4, <2>6, <2>7 DEF Covered
  <2> QED BY <1>1, <1>2, <2>4, <2>5, <2>6, <2>8 DEF CopyingFile
<1>5. CASE ~(data[f].modified > taker.since)
  <2>1. taker.since # -1 /\ bconf.incremental
    BY <1>1, <1>3, <1>5 DEF Copying
  <2>2. PICK k \in DOMAIN backups : backups[k].meta = taker.since /\ taker.since > 0
    BY <1>1, <2>1 DEF Copying
  <2>3. k <= n /\ data[f].modified <= backups[k].meta /\ backups[k].meta > 0
    BY <1>3, <1>5, <2>2 DEF BackupType
  <2>4. f \in DOMAIN backups[n].from /\ backups[n].from[f].version <= data[f].version
    BY <1>1 DEF CopyingFile
  <2>5. Covered(n, f)
    BY <1>1, <2>1, <2>3, <2>4, OldCovered
  <2>6. backups' = backups
    BY <1>5 DEF CopyFile
  <2>7. Covered(n, f)'
    BY <1>1, <2>5, <2>6 DEF Covered
  <2> QED BY <1>1, <2>1, <2>6, <2>7 DEF CopyingFile
<1> QED BY <1>4, <1>5

\* Every step keeps what is known of the backup that is copying.
LEMMA CopyingStep ==
  ASSUME BackupType, CopyingInv, OldInv, IncrementLeavesOut, [BackupNext]_backupVars
  PROVE  CopyingInv'
<1> SUFFICES ASSUME taker'.pc = "copy", NEW n \in DOMAIN backups', n = Len(backups') PROVE Copying(n)'
  BY DEF CopyingInv
<1>1. ASSUME backups' = backups, taker' = taker, NEW g,
             \A f \in DOMAIN data' : f \in DOMAIN data /\ (f = g \/ data'[f] = data[f]),
             g \in DOMAIN data' => CopyingFile(n, g)'
      PROVE  Copying(n)'
  <2>1. Copying(n)
    BY <1>1 DEF CopyingInv
  <2>2. bconf' = bconf /\ touched \subseteq touched'
    BY Steady
  <2>3. ASSUME NEW f \in DOMAIN data' PROVE CopyingFile(n, f)'
    <3>1. CASE f = g
      BY <1>1, <2>3, <3>1
    <3>2. CASE f # g
      BY <1>1, <2>1, <2>2, <2>3, <3>2, FileKept DEF Copying
    <3> QED BY <3>1, <3>2
  <2> QED BY <1>1, <2>1, <2>2, <2>3 DEF Copying
<1>2. ASSUME NEW g \in DataFiles, WriteFile(g) PROVE Copying(n)'
  <2>1. backups' = backups /\ taker' = taker /\ bconf' = bconf
    BY <1>2 DEF WriteFile
  <2>2. /\ DOMAIN data' = DOMAIN data /\ g \in DOMAIN data /\ data'[g].version = data[g].version + 1
        /\ \A f \in DOMAIN data : f # g => data'[f] = data[f]
    BY <1>2, DataEffect
  <2>3. CopyingFile(n, g)
    BY <2>1, <2>2 DEF CopyingInv, Copying
  <2>4. g \in touched'
    BY <1>2, <2>1, Zenon DEF WriteFile
  <2>5. Covered(n, g)'
    BY <2>4 DEF Covered
  <2>6. data[g] \in FileState /\ backups[n].from[g] \in FileState
        /\ (g \in DOMAIN backups[n].files => backups[n].files[g] \in CopyState)
    BY <2>1, <2>2, <2>3, DataTyped, BackupTyped DEF CopyingFile
  <2>7. data[g].version \in Nat /\ backups[n].from[g].version \in Nat
        /\ (g \in DOMAIN backups[n].files => backups[n].files[g].version \in Nat)
    BY <2>6 DEF FileState, CopyState
  <2>8. PICK v : v = data'[g].version
    OBVIOUS
  <2>9. /\ backups[n].from[g].version <= v
        /\ g \in DOMAIN backups[n].files => backups[n].files[g].version <= v
    BY <2>2, <2>3, <2>7, <2>8 DEF CopyingFile
  <2>10. CopyingFile(n, g)'
    BY <2>1, <2>3, <2>4, <2>5, <2>8, <2>9 DEF CopyingFile
  <2> QED BY <1>1, <2>1, <2>2, <2>10
<1>3. ASSUME NEW g \in DataFiles, RemoveFile(g) PROVE Copying(n)'
  <2>1. backups' = backups /\ taker' = taker
    BY <1>3 DEF RemoveFile
  <2>2. g \notin DOMAIN data' /\ \A f \in DOMAIN data' : f \in DOMAIN data /\ data'[f] = data[f]
    BY <1>3, DataEffect
  <2> QED BY <1>1, <2>1, <2>2
<1>4. ASSUME NEW g \in DataFiles, CopyFile(g) PROVE Copying(n)'
  <2>1. g \in DOMAIN data
    BY <1>4 DEF CopyFile, GiveUp, Resting
  <2>2. /\ n = Len(backups) /\ n \in DOMAIN backups /\ DOMAIN backups' = DOMAIN backups
        /\ taker'.todo = taker.todo \ {g} /\ taker'.since = taker.since
        /\ \A i \in DOMAIN backups : i # n => backups'[i] = backups[i]
        /\ SameEntry(backups[n], backups'[n]) /\ backups'[n].meta = backups[n].meta
        /\ \/ backups'[n].files = With(backups[n].files, g, CopyOf(g))
           \/ backups'[n].files = backups[n].files
    BY <1>4, <2>1, CopyEffect
  <2>3. Copying(n) /\ UNCHANGED <<bconf, data, touched>>
    BY <1>4, <2>2 DEF CopyFile, CopyingInv
  <2>4. taker'.since # -1 => \E k \in DOMAIN backups' : backups'[k].meta = taker'.since /\ taker'.since > 0
    <3> SUFFICES ASSUME taker.since # -1 PROVE \E k \in DOMAIN backups' : backups'[k].meta = taker'.since /\ taker'.since > 0
      BY <2>2
    <3>1. PICK k \in DOMAIN backups : backups[k].meta = taker.since /\ taker.since > 0
      BY <2>3 DEF Copying
    <3>2. backups'[k].meta = backups[k].meta
      BY <2>2
    <3> QED BY <2>2, <3>1, <3>2
  <2>5. ASSUME NEW f \in DOMAIN data PROVE CopyingFile(n, f)'
    <3>1. CASE f = g
      BY <1>4, <2>2, <3>1, FileCopied
    <3>2. CASE f # g
      <4>1. CopyingFile(n, f)
        BY <2>3 DEF Copying
      <4>2. ~CopyFile(f)
        BY <1>4, <2>1, <3>2 DEF CopyFile, BackupType
      <4>3. Covered(n, f) => Covered(n, f)'
        BY <2>2, <4>2, CoveredStays
      <4> DEFINE c == backups[n].files
                 x == CopyOf(g)
      <4>4. c \in Copies /\ x \in CopyState
        BY <2>1, <2>2, BackupTyped, DataTyped
      <4> HIDE DEF c, x
      <4>5. DOMAIN With(c, g, x) = DOMAIN c \cup {g} /\ \A h \in DOMAIN c : h # g => With(c, g, x)[h] = c[h]
        BY <4>4, OneMoreFile
      <4>6. (f \in DOMAIN backups'[n].files) = (f \in DOMAIN backups[n].files)
        BY <2>2, <3>2, <4>5 DEF c, x
      <4>7. f \in DOMAIN backups[n].files => backups'[n].files[f] = backups[n].files[f]
        BY <2>2, <3>2, <4>5 DEF c, x
      <4> QED BY <2>2, <2>3, <3>2, <4>1, <4>3, <4>6, <4>7 DEF CopyingFile, SameEntry
    <3> QED BY <3>1, <3>2
  <2> QED BY <2>2, <2>3, <2>4, <2>5 DEF Copying, SameEntry
<1>5. CASE DayPasses
  <2>1. backups' = backups /\ taker' = taker /\ data' = data /\ touched' = touched /\ bconf' = bconf
    BY <1>5 DEF DayPasses
  <2> QED BY <2>1 DEF CopyingInv, Copying, CopyingFile, Covered
<1>6. CASE StartBackup
  <2> DEFINE t == IF bconf.incremental THEN LastBackupTime ELSE -1
  <2>1. /\ taker' = [pc |-> "copy", todo |-> DOMAIN data, since |-> t]
        /\ n = Len(backups) + 1 /\ DOMAIN backups' = DOMAIN backups \cup {n}
        /\ \A i \in DOMAIN backups : backups'[i] = backups[i]
        /\ backups'[n].meta = 0 /\ backups'[n].files = NoFiles
        /\ backups'[n].since = t /\ backups'[n].from = data
    BY <1>6, StartEffect
  <2>2. UNCHANGED <<bconf, data, touched>>
    BY <1>6 DEF StartBackup
  <2>3. t # -1 => \E k \in DOMAIN backups : backups[k].meta = t /\ t > 0
    BY DEF LastBackupTime, BackupType
  <2>4. ~bconf.incremental => t = -1
    OBVIOUS
  <2> HIDE DEF t
  <2>5. taker'.since = t /\ taker'.todo = DOMAIN data
    BY <2>1
  <2>6. taker'.since # -1 => \E k \in DOMAIN backups' : backups'[k].meta = taker'.since /\ taker'.since > 0
    BY <2>1, <2>3, <2>5
  <2>7. ASSUME NEW f \in DOMAIN data PROVE CopyingFile(n, f)'
    <3>1. data[f].version \in Nat /\ DOMAIN NoFiles = {}
      BY DataTyped, NoFilesTyped DEF FileState
    <3>2. data[f].version <= data[f].version
      BY <3>1
    <3> QED BY <2>1, <2>2, <2>5, <3>1, <3>2 DEF CopyingFile
  <2> QED BY <2>1, <2>2, <2>4, <2>5, <2>6, <2>7 DEF Copying
<1>7. ~SaveMetadata /\ ~VerifyBackup /\ ~CleanupOldBackups
  <2>1. ASSUME SaveMetadata PROVE FALSE
    BY <2>1, SaveEffect
  <2>2. ASSUME VerifyBackup PROVE FALSE
    BY <2>2, VerifyEffect
  <2>3. ASSUME CleanupOldBackups PROVE FALSE
    BY <2>3 DEF CleanupOldBackups, Resting
  <2> QED BY <2>1, <2>2, <2>3
<1>8. ASSUME NEW restart \in BOOLEAN PROVE ~BackupFault(restart)
  BY DEF BackupFault, GiveUp, Resting
<1>9. ASSUME NEW i \in DOMAIN backups, NEW restored \in SUBSET DataFiles PROVE ~restore_backup(i, restored)
  BY DEF restore_backup
<1>10. CASE UNCHANGED backupVars
  <2>1. backups' = backups /\ taker' = taker /\ data' = data /\ touched' = touched /\ bconf' = bconf
    BY <1>10 DEF backupVars
  <2> QED BY <2>1 DEF CopyingInv, Copying, CopyingFile, Covered
<1> QED BY <1>2, <1>3, <1>4, <1>5, <1>6, <1>7, <1>8, <1>9, <1>10 DEF BackupNext

\* The clock never goes back, and a file that is there was there: it is as it was,
\* or has just been written.
LEMMA FileStep ==
  ASSUME BackupType, [BackupNext]_backupVars, ~restoredB'
  PROVE  /\ day' \in Nat /\ day <= day'
         /\ \A f \in DOMAIN data' : f \in DOMAIN data /\ (data'[f] = data[f] \/ WriteFile(f))
<1>1. ASSUME NEW f \in DataFiles, WriteFile(f)
      PROVE  day' = day /\ \A g \in DOMAIN data' : g \in DOMAIN data /\ (data'[g] = data[g] \/ WriteFile(g))
  <2>1. DOMAIN data' = DOMAIN data /\ \A g \in DOMAIN data : g # f => data'[g] = data[g]
    BY <1>1, DataEffect
  <2>2. day' = day
    BY <1>1 DEF WriteFile
  <2> QED BY <1>1, <2>1, <2>2
<1>2. ASSUME NEW f \in DataFiles, RemoveFile(f)
      PROVE  day' = day /\ \A g \in DOMAIN data' : g \in DOMAIN data /\ data'[g] = data[g]
  <2>1. day' = day
    BY <1>2 DEF RemoveFile
  <2> QED BY <1>2, <2>1, DataEffect
<1>3. CASE DayPasses
  BY <1>3 DEF DayPasses, BackupType
<1>4. ASSUME NEW i \in DOMAIN backups, NEW restored \in SUBSET DataFiles, restore_backup(i, restored) PROVE FALSE
  BY <1>4 DEF restore_backup
<1>5. day \in Nat /\ day <= day
  BY DEF BackupType
<1>6. CASE /\ ~\E f \in DataFiles : WriteFile(f) \/ RemoveFile(f)
           /\ ~DayPasses
  <2>1. day' = day /\ data' = data
    BY <1>4, <1>6 DEF BackupNext, backupVars, CopyFile, StartBackup, SaveMetadata, VerifyBackup,
                      CleanupOldBackups, BackupFault
  <2> QED BY <1>5, <2>1
<1> QED BY <1>1, <1>2, <1>3, <1>5, <1>6

\* A file is taken for old only when it has not changed.  Its modification time is
\* that of the step that wrote it; a write in the instant of a backup's timestamp,
\* or while one runs, is among the touched.
LEMMA OldStep ==
  ASSUME BackupType, CopyingInv, OldInv, [BackupNext]_backupVars
  PROVE  OldInv'
<1> SUFFICES ASSUME ~restoredB', NEW k \in DOMAIN backups', backups'[k].meta > 0
             PROVE  /\ backups'[k].meta <= day'
                    /\ \A f \in DOMAIN data' \ touched' :
                         /\ f \in DOMAIN backups'[k].from \cap DOMAIN backups'[k].to
                         /\ data'[f].modified <= backups'[k].meta => data'[f].version <= backups'[k].from[f].version
  BY DEF OldInv
<1>1. k \in DOMAIN backups
  BY EntryAppears
<1>2. backups'[k].from = backups[k].from /\ ~restoredB /\ touched \subseteq touched'
  BY <1>1, EntryStep, Steady DEF SameEntry
<1>3. /\ day' \in Nat /\ day <= day' /\ day \in Nat
      /\ \A f \in DOMAIN data' : f \in DOMAIN data /\ (data'[f] = data[f] \/ WriteFile(f))
  BY FileStep DEF BackupType
<1>4. backups[k].meta \in Nat
  BY <1>1, BackupTyped
<1>5. CASE backups'[k].meta = backups[k].meta /\ backups'[k].to = backups[k].to
  <2>1. /\ backups[k].meta <= day /\ backups[k].meta > 0
        /\ \A f \in DOMAIN data \ touched :
             /\ f \in DOMAIN backups[k].from \cap DOMAIN backups[k].to
             /\ data[f].modified <= backups[k].meta => data[f].version <= backups[k].from[f].version
    BY <1>1, <1>2, <1>5 DEF OldInv
  <2>2. backups'[k].meta <= day'
    <3>1. PICK d \in Nat : d = day'
      BY <1>3
    <3>2. backups[k].meta <= d
      BY <1>3, <1>4, <2>1, <3>1
    <3> QED BY <1>5, <3>1, <3>2
  <2>3. ASSUME NEW f \in DOMAIN data' \ touched'
        PROVE  /\ f \in DOMAIN backups'[k].from \cap DOMAIN backups'[k].to
               /\ data'[f].modified <= backups'[k].meta => data'[f].version <= backups'[k].from[f].version
    <3>1. f \in DOMAIN data \ touched
      BY <1>2, <1>3
    <3>2. CASE data'[f] = data[f]
      BY <1>2, <1>5, <2>1, <3>1, <3>2
    <3>3. CASE WriteFile(f)
      <4>1. f \in DataFiles
        BY <3>1, DataTyped
      <4>2. data'[f].modified = day
        BY <3>1, <3>3, <4>1, DataEffect
      <4>3. backups[k].meta # day
        BY <1>1, <3>3, Zenon DEF WriteFile
      <4>4. ~(day <= backups[k].meta)
        BY <1>3, <1>4, <2>1, <4>3
      <4> QED BY <1>2, <1>5, <2>1, <3>1, <4>2, <4>4
    <3> QED BY <1>3, <3>2, <3>3
  <2> QED BY <2>2, <2>3
<1>6. CASE k = Len(backups) /\ SaveMetadata
  <2>1. UNCHANGED <<data, day, touched>> /\ taker.pc = "copy"
    BY <1>6 DEF SaveMetadata
  <2>2. backups'[k].meta = day /\ backups'[k].to = data
    BY <1>6, SaveEffect
  <2>3. \A f \in DOMAIN data : CopyingFile(k, f)
    BY <1>1, <1>6, <2>1 DEF CopyingInv, Copying
  <2>4. ASSUME NEW f \in DOMAIN data \ touched
        PROVE  f \in DOMAIN backups[k].from /\ data[f].version <= backups[k].from[f].version
    <3>1. f \in DOMAIN backups[k].from /\ backups[k].from[f].version = data[f].version
      BY <2>3, <2>4 DEF CopyingFile
    <3>2. data[f].version \in Nat
      BY <2>4, DataTyped DEF FileState
    <3> QED BY <3>1, <3>2
  <2>5. backups'[k].meta <= day'
    BY <1>3, <2>1, <2>2
  <2> QED BY <1>2, <2>1, <2>2, <2>4, <2>5
<1>7. ASSUME k = Len(backups), NEW g \in DOMAIN data, CopyFile(g)
      PROVE  backups'[k].meta = backups[k].meta /\ backups'[k].to = backups[k].to
  <2>1. g \in DataFiles
    BY DataTyped
  <2> QED BY <1>7, <2>1, CopyEffect
<1>8. ~(backups'[k].gone /\ backups'[k].meta = 0)
  <2>1. PICK m : m = backups'[k].meta
    OBVIOUS
  <2> QED BY <2>1
<1> QED BY <1>1, <1>5, <1>6, <1>7, <1>8, EntryStep

\* Before the first backup there is nothing to say.
LEMMA BackupInvInit == BackupInit => BackupInv
<1> SUFFICES ASSUME BackupInit PROVE BackupInv
  OBVIOUS
<1>1. /\ DOMAIN data = DataFiles
      /\ data \in [DataFiles -> FileState]
      /\ \A f \in DataFiles : ~data[f].spoilt
  BY DEF BackupInit, FileState
<1>2. data \in Contents
  BY <1>1, ContentsTyped
<1>3. backups \in Seq(BackupState) /\ Len(backups) = 0 /\ DOMAIN backups = {}
  BY DEF BackupInit
<1>4. taker \in [pc : TakerPoints, todo : SUBSET DataFiles, since : Int] /\ taker.pc = "idle"
  BY DEF BackupInit, Resting, TakerPoints
<1>5. BackupType
  <2>1. /\ bconf \in [incremental : BOOLEAN, encrypt : BOOLEAN]
        /\ restoredB \in BOOLEAN /\ touched \subseteq DataFiles
    BY DEF BackupInit
  <2>2. day \in Nat \ {0} /\ last \in Nat /\ last <= Len(backups)
    BY <1>3 DEF BackupInit
  <2> QED BY <1>2, <1>3, <1>4, <2>1, <2>2 DEF BackupType
<1>6. CopyInv /\ SpoiltNeedsMark
  BY <1>1, <1>3 DEF CopyInv, SpoiltNeedsMark
<1>7. CopyingInv /\ OldInv
  BY <1>3, <1>4 DEF CopyingInv, OldInv
<1>8. FuzzySnapshot /\ IncrementLeavesOut
  BY <1>3 DEF FuzzySnapshot, IncrementLeavesOut
<1> QED BY <1>5, <1>6, <1>7, <1>8 DEF BackupInv, BackupsSound

\* Every step keeps the invariant.
LEMMA BackupInvStep == BackupInv /\ [BackupNext]_backupVars => BackupInv'
<1> SUFFICES ASSUME BackupInv, [BackupNext]_backupVars PROVE BackupInv'
  OBVIOUS
<1>1. /\ BackupType /\ CopyInv /\ CopyingInv /\ OldInv
      /\ FuzzySnapshot /\ IncrementLeavesOut /\ SpoiltNeedsMark
  BY DEF BackupInv, BackupsSound
<1>2. BackupType' /\ CopyInv'
  BY <1>1, BackupTypeStep, CopyInvStep
<1>3. CopyingInv' /\ OldInv'
  BY <1>1, CopyingStep, OldStep
<1>4. FuzzySnapshot' /\ IncrementLeavesOut'
  BY <1>1, FuzzyStep, IncrementStep
<1>5. SpoiltNeedsMark'
  BY <1>1, <1>2, SpoiltStep
<1> QED BY <1>2, <1>3, <1>4, <1>5 DEF BackupInv, BackupsSound

\* A listed backup holds versions its files had while it ran, an increment leaves
\* out only what an earlier backup holds, and a restore damages a file only when
\* it takes an unencrypted copy for an encrypted one (perform_backup,
\* perform_incremental_backup and decrypt_data).
THEOREM BackupsSoundHolds == BackupSpec => []BackupsSound
<1>1. BackupSpec => []BackupInv
  BY BackupInvInit, BackupInvStep, PTL DEF BackupSpec
<1>2. BackupInv => BackupsSound
  BY DEF BackupInv
<1> QED BY <1>1, <1>2, PTL

-----------------------------------------------------------------------------
(* Tiers.  Nothing that was written to a tier can be opened, so that only the *)
(* first tier answers; and of the tiers in the order of their retention, the  *)
(* first that is long enough for an age follows the last that is too short.   *)

TierInv ==
  /\ hour \in Nat
  /\ DOMAIN blocksOf = AllTierNames
  /\ \A t \in AllTierNames : t # Hot => \A b \in blocksOf[t] : ~b.readable
  /\ MigrationAgrees

\* A nonempty set of numbers has a least one.
LEMMA LeastNumber ==
  ASSUME NEW S \in SUBSET Nat, S # {}
  PROVE  \E m \in S : \A k \in S : m <= k
<1> DEFINE Down == {0 .. x : x \in S}
<1>1. Down \subseteq FiniteSubsetsOf(Nat) /\ Down # {}
  <2>1. \A x \in S : x \in Int /\ 0 .. x \subseteq Nat
    OBVIOUS
  <2>2. \A x \in S : IsFiniteSet(0 .. x)
    BY <2>1, FS_Interval
  <2> QED BY <2>1, <2>2 DEF FiniteSubsetsOf
<1>2. PICK D \in Down : \A E \in Down : ~(<<E, D>> \in StrictSubsetOrdering(Nat))
  BY <1>1, FS_StrictSubsetOrderingWellFounded, WFMin
<1>3. PICK m \in S : D = 0 .. m
  BY <1>2
<1>4. \A k \in S : m <= k
  <2> SUFFICES ASSUME NEW k \in S, k < m PROVE FALSE
    OBVIOUS
  <2>1. m \in 0 .. m /\ m \notin 0 .. k
    OBVIOUS
  <2>2. 0 .. k \subseteq 0 .. m /\ 0 .. k # 0 .. m /\ 0 .. k \in SUBSET Nat /\ 0 .. m \in SUBSET Nat
    BY <2>1
  <2>3. <<0 .. k, 0 .. m>> \in StrictSubsetOrdering(Nat)
    BY <2>2 DEF StrictSubsetOrdering
  <2> QED BY <2>3, <1>2, <1>3
<1> QED BY <1>4

\* The extremes of a nonempty bounded set of numbers.
LEMMA Extremes ==
  ASSUME NEW S \in SUBSET Nat, S # {}, NEW bound \in Nat, \A k \in S : k <= bound
  PROVE  /\ Min(S) \in S /\ \A k \in S : Min(S) <= k
         /\ Max(S) \in S /\ \A k \in S : k <= Max(S)
<1>1. \E m \in S : \A k \in S : m <= k
  BY LeastNumber
<1>2. Min(S) \in S /\ \A k \in S : Min(S) <= k
  BY <1>1 DEF Min
<1> DEFINE T == {bound - k : k \in S}
<1>3. T \in SUBSET Nat /\ T # {}
  <2>1. \A k \in S : bound - k \in Nat
    OBVIOUS
  <2> QED BY <2>1
<1>4. PICK t \in T : \A x \in T : t <= x
  BY <1>3, LeastNumber
<1>5. PICK m \in S : t = bound - m
  BY <1>4
<1>6. \A k \in S : k <= m
  <2> SUFFICES ASSUME NEW k \in S PROVE k <= m
    OBVIOUS
  <2>1. bound - k \in T
    OBVIOUS
  <2> QED BY <2>1, <1>4, <1>5
<1>7. \E x \in S : \A k \in S : x >= k
  BY <1>6
<1>8. Max(S) \in S /\ \A k \in S : Max(S) >= k
  BY <1>7 DEF Max
<1> QED BY <1>2, <1>8

\* The ladder of ages and the search over the tiers.
LEMMA LadderIsSearch ==
  ASSUME NEW age \in Int, NEW now \in Int, now = hour, AgeTarget(age) # "none"
  PROVE  AgeTarget(age) = get_tier_for_timestamp(now - age)
<1> DEFINE above == {i \in DOMAIN TierNames : age > Retention[TierNames[i]]}
           fit == {i \in DOMAIN TierNames : hour - (now - age) <= Retention[TierNames[i]]}
           n == Len(TierNames)
<1>1. n \in Nat \ {0} /\ DOMAIN TierNames = 1..n /\ \A i \in 1..n : Retention[TierNames[i]] \in Nat
  BY TierAssumption
<1>2. fit = {i \in DOMAIN TierNames : age <= Retention[TierNames[i]]}
  BY <1>1
<1>3. above # {} /\ n \notin above /\ AgeTarget(age) = TierNames[Max(above) + 1]
  BY DEF AgeTarget
<1>4. fit # {} => get_tier_for_timestamp(now - age) = TierNames[Min(fit)]
  BY DEF get_tier_for_timestamp
<1>5. n \in fit
  BY <1>1, <1>2, <1>3
<1>6. above \in SUBSET Nat /\ fit \in SUBSET Nat /\ \A k \in above \cup fit : k <= n
  BY <1>1, <1>2
<1>7. Max(above) \in above /\ \A k \in above : k <= Max(above)
  BY <1>1, <1>3, <1>6, Extremes
<1>8. Min(fit) \in fit /\ \A k \in fit : Min(fit) <= k
  BY <1>1, <1>5, <1>6, Extremes
<1>9. \A i \in DOMAIN TierNames : i \in above \/ i \in fit
  BY <1>1, <1>2
<1> DEFINE a == Max(above)
           f == Min(fit)
<1>10. a \in 1..n /\ f \in 1..n /\ a # n
  BY <1>1, <1>2, <1>3, <1>7, <1>8
<1>11. a < f
  <2> SUFFICES ASSUME f <= a PROVE FALSE
    BY <1>10
  <2>1. Retention[TierNames[f]] <= Retention[TierNames[a]]
    BY <1>1, <1>10, TierAssumption
  <2>2. age > Retention[TierNames[a]] /\ age <= Retention[TierNames[f]]
    BY <1>2, <1>7, <1>8
  <2> QED BY <1>1, <1>10, <2>1, <2>2
<1>12. a + 1 \in fit
  <2>1. a + 1 \in DOMAIN TierNames /\ ~(a + 1 <= a)
    BY <1>1, <1>10
  <2>2. a + 1 \notin above
    BY <1>7, <2>1
  <2> QED BY <1>9, <2>1, <2>2
<1>13. f <= a + 1
  BY <1>8, <1>12
<1>14. f = a + 1
  BY <1>10, <1>11, <1>13
<1> QED BY <1>3, <1>4, <1>5, <1>14

\* What a check decides by age is what the search would.
LEMMA DecisionsAgree ==
  ASSUME hour \in Nat, NEW evicted, NEW d \in Decisions(evicted), ~d.full
  PROVE  d.target = get_tier_for_timestamp(hour - d.age) /\ should_migrate(hour - d.age, Hot)
<1>1. PICK b \in LoadedBlocks :
        /\ d.age = block_age_hours(b) /\ d.target = AgeTarget(d.age)
        /\ AgeTarget(d.age) \notin {"none", Hot}
  BY DEF Decisions
<1> DEFINE S == {x[2] : x \in b}
<1>2. S \in SUBSET Nat /\ S # {} /\ \A k \in S : k <= MaxHour
  BY TierAssumption
<1>3. Max(S) \in Nat
  BY <1>2, TierAssumption, Extremes
<1> HIDE DEF S
<1>4. d.age \in Int
  BY <1>1, <1>3 DEF S, block_age_hours
<1>5. AgeTarget(d.age) = get_tier_for_timestamp(hour - d.age)
  BY <1>1, <1>4, LadderIsSearch
<1> QED BY <1>1, <1>5 DEF should_migrate

\* A write leaves nothing readable in the other tiers.
LEMMA TierWriteStep ==
  ASSUME TierInv, NEW t, NEW samples, TierWrite(t, samples)
  PROVE  /\ DOMAIN blocksOf' = AllTierNames
         /\ \A u \in AllTierNames : u # Hot => \A b \in blocksOf'[u] : ~b.readable
<1> DEFINE x == [samples |-> samples, readable |-> FALSE]
<1>1. blocksOf' = [blocksOf EXCEPT ![t] = @ \cup {x}] /\ ~x.readable
  BY DEF TierWrite
<1> HIDE DEF x
<1>2. ASSUME NEW u \in AllTierNames, u # Hot, NEW b \in blocksOf'[u] PROVE ~b.readable
  BY <1>1, <1>2 DEF TierInv
<1> QED BY <1>1, <1>2 DEF TierInv

\* Every step of a manager keeps the invariant.
LEMMA TierInvStep == TierInv /\ [TierNext \/ MigrationNext]_tierVars => TierInv'
<1> SUFFICES ASSUME TierInv, [TierNext \/ MigrationNext]_tierVars PROVE TierInv'
  OBVIOUS
<1> DEFINE Rest == /\ DOMAIN blocksOf' = AllTierNames
                   /\ \A t \in AllTierNames : t # Hot => \A b \in blocksOf'[t] : ~b.readable
<1>1. ASSUME hour' = hour, decided' = decided, Rest PROVE TierInv'
  BY <1>1 DEF TierInv, MigrationAgrees, get_tier_for_timestamp, should_migrate
<1>2. blocksOf' = blocksOf => Rest
  BY DEF TierInv
<1>3. ASSUME NEW s \in TierSeries, manager_write(s) PROVE TierInv'
  <2>1. Rest
    BY <1>3, TierWriteStep DEF manager_write
  <2>2. hour' = hour /\ decided' = decided
    BY <1>3 DEF manager_write
  <2> QED BY <1>1, <2>1, <2>2
<1>4. ASSUME NEW m, MigrateWrite(m) PROVE TierInv'
  <2>1. Rest
    BY <1>4, TierWriteStep DEF MigrateWrite
  <2>2. hour' = hour /\ decided' = decided
    BY <1>4 DEF MigrateWrite
  <2> QED BY <1>1, <2>1, <2>2
<1>5. ASSUME NEW t \in AllTierNames, tier_cleanup(t) PROVE TierInv'
  <2>1. hour' = hour /\ decided' = decided
    BY <1>5 DEF tier_cleanup
  <2>2. DOMAIN blocksOf' = DOMAIN blocksOf /\ \A u \in DOMAIN blocksOf : blocksOf'[u] \subseteq blocksOf[u]
    BY <1>5 DEF tier_cleanup
  <2>3. Rest
    BY <2>2 DEF TierInv
  <2> QED BY <1>1, <2>1, <2>3
<1>6. CASE HourPasses
  <2>1. hour' \in Nat /\ decided' = {} /\ blocksOf' = blocksOf
    BY <1>6 DEF HourPasses, TierInv
  <2> QED BY <1>2, <2>1 DEF TierInv, MigrationAgrees
<1>7. CASE check_and_migrate
  <2>1. PICK evicted \in find_blocks_to_evict : decided' = Decisions(evicted)
    BY <1>7 DEF check_and_migrate
  <2>2. hour' = hour /\ blocksOf' = blocksOf
    BY <1>7 DEF check_and_migrate
  <2>3. \A d \in Decisions(evicted) :
          ~d.full => d.target = get_tier_for_timestamp(hour - d.age) /\ should_migrate(hour - d.age, Hot)
    BY DecisionsAgree DEF TierInv
  <2>4. MigrationAgrees'
    BY <2>1, <2>2, <2>3 DEF MigrationAgrees, get_tier_for_timestamp, should_migrate
  <2> QED BY <1>2, <2>2, <2>4 DEF TierInv
<1>8. ASSUME NEW s, NEW asked, manager_query(s, asked) PROVE TierInv'
  BY <1>1, <1>2, <1>8 DEF manager_query
<1>9. ASSUME NEW m, MigrateRead(m) PROVE TierInv'
  BY <1>1, <1>2, <1>9 DEF MigrateRead
<1>10. ASSUME NEW b, record_access(b) PROVE TierInv'
  BY <1>1, <1>2, <1>10 DEF record_access
<1>11. CASE auto_migrate \/ submit_migration \/ run_migrations \/ UNCHANGED tierVars
  BY <1>1, <1>2, <1>11 DEF auto_migrate, submit_migration, run_migrations, tierVars
<1> QED BY <1>3, <1>4, <1>5, <1>6, <1>7, <1>8, <1>9, <1>10, <1>11 DEF TierNext, MigrationNext

\* Whatever is written, migrated, read and removed: a query of all tiers gives a
\* sample once, and a migration by age goes where TierCollection looks for that
\* age (DataTier::write, evaluate_migration_needs, get_tier_for_timestamp).
THEOREM TiersSoundHolds == TierSpec => []TiersSound
<1>1. TierInit => TierInv
  BY DEF TierInit, TierInv, MigrationAgrees
<1>2. TierInv => TiersSound
  <2> SUFFICES ASSUME TierInv PROVE AnsweredOnce
    BY DEF TierInv, TiersSound
  <2>1. ASSUME NEW t \in AllTierNames, t # Hot PROVE Answer(t) = {}
    <3>1. \A s \in TierSeries : tier_query(t, s) = {}
      BY <2>1 DEF TierInv, tier_query
    <3> QED BY <3>1 DEF Answer
  <2> QED BY <2>1 DEF AnsweredOnce
<1>3. TierSpec => []TierInv
  BY <1>1, TierInvStep, PTL DEF TierSpec
<1> QED BY <1>2, <1>3, PTL

=============================================================================
