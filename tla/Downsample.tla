----------------------------- MODULE Downsample -----------------------------
(***************************************************************************)
(* DownsampleScheduler (storage/src/downsample/scheduler.rs) and             *)
(* DownsampleManager (manager.rs): two front ends over the same WorkerPool   *)
(* (worker.rs) and the same DownsampleTask (task.rs).  In both, the loop that *)
(* takes results keeps the write lock of worker_pool while it waits for one, *)
(* and submitting a task needs its read lock.  Tokio's RwLock serves waiters *)
(* in the order they came.  All tasks cover the same series.                 *)
(***************************************************************************)
EXTENDS Integers, Sequences, SequencesExt, FiniteSets, FiniteSetsExt

CONSTANTS
  DsTasks,      \* bound: task numbers 1..DsTasks
  DsLevels,     \* enabled levels; task t of the manager is for level t % DsLevels
  Concurrency,  \* concurrency
  DsRetries,    \* TaskConfig.max_retries
  PriorityOf    \* task -> TaskPriority

ASSUME DownsampleAssumption == {DsTasks, Concurrency} \subseteq Nat /\ DsLevels \in Nat \ {0}

Tasks == 1..DsTasks

VARIABLES
  front,     \* "scheduler" or "manager"
  task,      \* all_tasks: status, retry_count and whether the timeout has passed
  heap,      \* task_queue: the tasks that wait in it
  submitted, \* tasks given to submit_task in order, or created by the manager
  listedDs,  \* running_tasks
  lock,      \* worker_pool's RwLock: its holder and its waiters
  sched,     \* the scheduling loop: [pc, left, t]
  res,       \* the loop that handles results: [pc, r]
  timed,     \* the tasks check_timeouts has collected
  stopper,   \* stop(): "no", "wait", "join", "done"
  isUp,      \* is_running
  pool,      \* worker_pool holds a pool
  tasksQ, working, resultsQ, \* channel, spawned process_task calls, result channel
  handed,    \* task -> how often the pool received it
  out,       \* the block directory of the series: whose columns, whose meta
  overlap    \* two process_task calls ran at once
dsVars == <<front, task, heap, submitted, listedDs, lock, sched, res, timed, stopper, isUp,
            pool, tasksQ, working, resultsQ, handed, out, overlap>>
frontVars == <<task, heap, submitted, listedDs, timed>>
poolVars == <<pool, tasksQ, working, resultsQ, handed, out, overlap>>

DsInit ==
  /\ front \in {"scheduler", "manager"}
  /\ task = [t \in Tasks |-> [status |-> "none", retries |-> 0, late |-> FALSE]]
  /\ heap = {} /\ submitted = <<>> /\ listedDs = {}
  /\ lock = [holder |-> "none", waiters |-> <<>>]
  /\ sched = [pc |-> "tick", left |-> 0, t |-> 0]
  /\ res = [pc |-> "lock", r |-> <<0, FALSE>>]
  /\ timed = {} /\ stopper = "no" /\ isUp = TRUE /\ pool = TRUE
  /\ tasksQ = <<>> /\ working = {} /\ resultsQ = <<>>
  /\ handed = [t \in Tasks |-> 0]
  /\ out = [columns |-> 0, meta |-> 0] /\ overlap = FALSE

is_terminal(s) == s \in {"Completed", "Failed", "Cancelled"}
LevelOfTask(t) == ((t - 1) % DsLevels) + 1

WithStatus(k, status) == [status |-> status, retries |-> k.retries, late |-> k.late]
mark_running(k) == [status |-> "Running", retries |-> k.retries, late |-> FALSE]
mark_completed(k) == WithStatus(k, "Completed")
mark_failed(k) == [status |-> "Failed", retries |-> k.retries + 1, late |-> k.late]
can_retry(k) == k.status = "Failed" /\ k.retries < DsRetries
reset_for_retry(k) == IF can_retry(k) THEN WithStatus(k, "Pending") ELSE k

-----------------------------------------------------------------------------
\* The RwLock of worker_pool.
Acquire(a) ==
  lock' = IF lock.holder = "none" THEN [lock EXCEPT !.holder = a]
          ELSE [lock EXCEPT !.waiters = Append(@, a)]
Release ==
  lock' = IF lock.waiters = <<>> THEN [lock EXCEPT !.holder = "none"]
          ELSE [holder |-> Head(lock.waiters), waiters |-> Tail(lock.waiters)]

-----------------------------------------------------------------------------
\* The callers.
submit_task ==
  LET t == Len(submitted) + 1
  IN  /\ front = "scheduler" /\ t \in Tasks
      /\ submitted' = Append(submitted, t)
      /\ task' = [task EXCEPT ![t] = WithStatus(@, "Pending")]
      /\ heap' = heap \cup {t}
      /\ UNCHANGED <<front, listedDs, timed, lock, sched, res, stopper, isUp, poolVars>>

\* create_task and trigger_downsample of the manager: only the entry is made.
create_task ==
  LET t == Len(submitted) + 1
  IN  /\ front = "manager" /\ t \in Tasks /\ sched.pc = "tick"
      /\ submitted' = Append(submitted, t)
      /\ task' = [task EXCEPT ![t] = WithStatus(@, "Pending")]
      /\ UNCHANGED <<front, heap, listedDs, timed, lock, sched, res, stopper, isUp, poolVars>>

cancel_task(t) ==
  /\ front = "scheduler"
  /\ task[t].status \in {"Pending", "Running"}
  /\ task' = [task EXCEPT ![t] = WithStatus(@, "Cancelled")]
  /\ listedDs' = listedDs \ {t}
  /\ UNCHANGED <<front, heap, submitted, timed, lock, sched, res, stopper, isUp, poolVars>>

\* cleanup_completed_tasks: a failed task has no completed_at and stays for good.
cleanup_completed_tasks ==
  /\ front = "manager"
  /\ \E t \in Tasks : task[t].status = "Completed"
  /\ task' = [t \in Tasks |-> IF task[t].status = "Completed"
                              THEN WithStatus(task[t], "removed") ELSE task[t]]
  /\ UNCHANGED <<front, heap, submitted, listedDs, timed, lock, sched, res, stopper, isUp, poolVars>>

\* stop(): the shutdown message, then the write lock, then the pool is joined.
StopCalled ==
  /\ stopper = "no"
  /\ isUp' = FALSE
  /\ stopper' = "wait"
  /\ Acquire("stop")
  /\ UNCHANGED <<front, frontVars, sched, res, poolVars>>
StopTakesPool ==
  /\ stopper = "wait" /\ lock.holder = "stop"
  /\ pool' = FALSE
  /\ stopper' = "join"
  /\ Release
  /\ UNCHANGED <<front, frontVars, sched, res, isUp, tasksQ, working, resultsQ, handed, out, overlap>>
StopJoins ==
  /\ stopper = "join" /\ tasksQ = <<>>
  /\ stopper' = "done"
  /\ UNCHANGED <<front, frontVars, lock, sched, res, isUp, poolVars>>

-----------------------------------------------------------------------------
\* The scheduling loop.
Top == {t \in heap : \A u \in heap : \/ PriorityOf[t] > PriorityOf[u]
                                     \/ PriorityOf[t] = PriorityOf[u] /\ t <= u}

SchedulerTick ==
  /\ sched.pc = "tick" /\ front = "scheduler"
  /\ Cardinality(listedDs) < Concurrency
  /\ sched' = [pc |-> "pop", left |-> Concurrency - Cardinality(listedDs), t |-> sched.t]
  /\ UNCHANGED <<front, frontVars, lock, res, stopper, isUp, poolVars>>

\* One turn of schedule_tasks up to mark_running; a task that is already over
\* or running uses up the turn.
Pop ==
  /\ sched.pc = "pop"
  /\ IF heap = {} \/ sched.left = 0
     THEN /\ sched' = [sched EXCEPT !.pc = "tick"]
          /\ UNCHANGED <<heap, task>>
     ELSE \E t \in Top :
            LET skip == is_terminal(task[t].status) \/ task[t].status = "Running"
            IN  /\ heap' = heap \ {t}
                /\ sched' = [pc |-> IF skip THEN "pop" ELSE "list", left |-> sched.left - 1, t |-> t]
                /\ task' = IF skip THEN task ELSE [task EXCEPT ![t] = mark_running(@)]
  /\ UNCHANGED <<front, submitted, listedDs, timed, lock, res, stopper, isUp, poolVars>>

List ==
  /\ sched.pc = "list"
  /\ listedDs' = listedDs \cup {sched.t}
  /\ sched' = [sched EXCEPT !.pc = "submit"]
  /\ Acquire("sched")
  /\ UNCHANGED <<front, task, heap, submitted, timed, res, stopper, isUp, poolVars>>

\* run_scheduled_tasks: a task for each level, entered as Pending.
ManagerTick ==
  LET t == Len(submitted) + 1
  IN  /\ front = "manager" /\ t \in Tasks
      /\ \/ sched.pc = "tick" /\ t + DsLevels - 1 \in Tasks
            /\ sched' = [pc |-> "submit", left |-> DsLevels - 1, t |-> t]
         \/ sched.pc = "pop" /\ sched.left > 0
            /\ sched' = [pc |-> "submit", left |-> sched.left - 1, t |-> t]
      /\ submitted' = Append(submitted, t)
      /\ task' = [task EXCEPT ![t] = WithStatus(@, "Pending")]
      /\ Acquire("sched")
      /\ UNCHANGED <<front, heap, listedDs, timed, res, stopper, isUp, poolVars>>

\* WorkerPool::submit under the read lock; without a pool the task is forgotten.
Submit ==
  /\ sched.pc = "submit" /\ lock.holder = "sched"
  /\ IF pool
     THEN /\ tasksQ' = Append(tasksQ, sched.t)
          /\ handed' = [handed EXCEPT ![sched.t] = @ + 1]
     ELSE UNCHANGED <<tasksQ, handed>>
  /\ Release
  /\ sched' = [sched EXCEPT !.pc = "pop"]
  /\ UNCHANGED <<front, frontVars, res, stopper, isUp, pool, working, resultsQ, out, overlap>>

\* The shutdown message is looked at between two rounds.
SchedulerEnds ==
  /\ sched.pc = "tick" /\ ~isUp
  /\ sched' = [sched EXCEPT !.pc = "ended"]
  /\ UNCHANGED <<front, frontVars, lock, res, stopper, isUp, poolVars>>

-----------------------------------------------------------------------------
\* check_timeouts: the list is made under one lock and worked through under another.
Expire(t) ==
  /\ task[t].status = "Running" /\ ~task[t].late /\ front = "scheduler"
  /\ task' = [task EXCEPT ![t] = [status |-> "Running", retries |-> @.retries, late |-> TRUE]]
  /\ UNCHANGED <<front, heap, submitted, listedDs, timed, lock, sched, res, stopper, isUp, poolVars>>
CollectTimeouts ==
  /\ front = "scheduler" /\ timed = {}
  /\ timed' = {t \in Tasks : task[t].status = "Running" /\ task[t].late}
  /\ timed' # {}
  /\ UNCHANGED <<front, task, heap, submitted, listedDs, lock, sched, res, stopper, isUp, poolVars>>
\* can_retry asks for Failed and a running task is not: the first timeout is final.
HandleTimeout(t) ==
  /\ t \in timed
  /\ timed' = timed \ {t}
  /\ task' = [task EXCEPT ![t] = IF can_retry(@) THEN reset_for_retry(@) ELSE mark_failed(@)]
  /\ listedDs' = listedDs \ {t}
  /\ UNCHANGED <<front, heap, submitted, lock, sched, res, stopper, isUp, poolVars>>

-----------------------------------------------------------------------------
\* The pool: the dispatcher and the spawned process_task calls.
Dispatch ==
  /\ tasksQ # <<>>
  /\ tasksQ' = Tail(tasksQ)
  /\ overlap' = (overlap \/ working # {})
  /\ working' = working \cup {[t |-> Head(tasksQ), step |-> "columns"]}
  /\ UNCHANGED <<front, frontVars, lock, sched, res, stopper, isUp, pool, resultsQ, handed, out>>

\* process_series: every level writes its points into the block named by the
\* series; columns first, meta.json last, and an error leaves what is written.
\* The output is followed under the manager, whose ticks submit several levels.
ProcessColumns(w) ==
  /\ w.step = "columns" /\ front = "manager"
  /\ out' = [columns |-> LevelOfTask(w.t), meta |-> out.meta]
  /\ working' = (working \ {w}) \cup {[t |-> w.t, step |-> "meta"]}
  /\ UNCHANGED <<front, frontVars, lock, sched, res, stopper, isUp, pool, tasksQ, resultsQ, handed, overlap>>
Process(w, ok) ==
  /\ ok /\ front = "manager" => w.step = "meta"
  /\ out' = IF ok /\ front = "manager" THEN [columns |-> out.columns, meta |-> LevelOfTask(w.t)] ELSE out
  /\ working' = working \ {w}
  /\ resultsQ' = Append(resultsQ, <<w.t, ok>>)
  /\ UNCHANGED <<front, frontVars, lock, sched, res, stopper, isUp, pool, tasksQ, handed, overlap>>

-----------------------------------------------------------------------------
\* The loop that handles results.
ResultLock ==
  /\ res.pc = "lock"
  /\ res' = [res EXCEPT !.pc = "recv"]
  /\ Acquire("res")
  /\ UNCHANGED <<front, frontVars, sched, stopper, isUp, poolVars>>
recv_result ==
  /\ res.pc = "recv" /\ lock.holder = "res"
  /\ IF pool
     THEN /\ resultsQ # <<>>
          /\ res' = [pc |-> "handle", r |-> Head(resultsQ)]
          /\ resultsQ' = Tail(resultsQ)
     ELSE /\ res' = [res EXCEPT !.pc = "ended"]
          /\ resultsQ' = resultsQ
  /\ Release
  /\ UNCHANGED <<front, frontVars, sched, stopper, isUp, pool, tasksQ, working, handed, out, overlap>>
\* Mutant: a failed task keeps its slot.
MutHandleTaskResult ==
  LET t == res.r[1]
  IN  /\ res.pc = "handle"
      /\ task' = [task EXCEPT ![t] = IF res.r[2] THEN mark_completed(@) ELSE mark_failed(@)]
      /\ listedDs' = IF res.r[2] THEN listedDs \ {t} ELSE listedDs
      /\ res' = [res EXCEPT !.pc = "lock"]
      /\ UNCHANGED <<front, heap, submitted, timed, lock, sched, stopper, isUp, poolVars>>

handle_task_result ==
  LET t == res.r[1]
      k == task[t]
  IN  /\ res.pc = "handle"
      /\ task' = IF k.status = "removed" THEN task
                 ELSE [task EXCEPT ![t] =
                         IF res.r[2] THEN mark_completed(k)
                         ELSE IF front = "scheduler" /\ can_retry(k)
                              THEN reset_for_retry(mark_failed(k)) ELSE mark_failed(k)]
      /\ listedDs' = listedDs \ {t}
      /\ res' = [res EXCEPT !.pc = IF isUp \/ front = "manager" THEN "lock" ELSE "ended"]
      /\ UNCHANGED <<front, heap, submitted, timed, lock, sched, stopper, isUp, poolVars>>

ResultLoop == ResultLock \/ recv_result \/ handle_task_result
PoolSteps == Dispatch \/ \E w \in working : ProcessColumns(w) \/ \E ok \in BOOLEAN : Process(w, ok)
SchedulerLoop == SchedulerTick \/ Pop \/ List \/ ManagerTick \/ Submit \/ SchedulerEnds
StopSteps == StopTakesPool \/ StopJoins
TimeoutLoop == CollectTimeouts \/ \E t \in Tasks : HandleTimeout(t)

DsNext ==
  \/ submit_task \/ create_task \/ cleanup_completed_tasks \/ StopCalled
  \/ \E t \in Tasks : cancel_task(t) \/ Expire(t)
  \/ StopSteps \/ SchedulerLoop \/ TimeoutLoop \/ PoolSteps \/ ResultLoop

-----------------------------------------------------------------------------
DsSpec == DsInit /\ [][DsNext]_dsVars

InPool == ToSet(tasksQ) \cup {w.t : w \in working} \cup {r[1] : r \in ToSet(resultsQ)}

\* A task reaches the workers at most once, whatever times out, fails or is
\* cancelled: reset_for_retry makes it Pending again but nothing puts it back
\* into the queue.
HandedOnce == \A t \in Tasks : handed[t] <= 1

\* While the scheduler runs a slot is only held by a task on its way to the pool,
\* in the pool, or whose result is being handled: no cancellation or timeout
\* that races with the scheduling loop leaks one.
NoLeakedSlot ==
  isUp => \A t \in listedDs :
            \/ sched.t = t /\ sched.pc = "submit"
            \/ t \in InPool
            \/ res.pc = "handle" /\ res.r[1] = t

\* The block of a series is a block of one level, unless a task failed or two ran
\* at once: nothing but the order of submissions keeps two levels from writing
\* the same directory.
OutputWhole ==
  (working = {} /\ ~overlap) =>
    \/ out.columns = out.meta
    \/ \E t \in Tasks : task[t].status = "Failed"
    \/ \E r \in ToSet(resultsQ) \cup {res.r} : ~r[2] /\ r[1] # 0

\* Tasks, slots and output of downsampling under time-outs, cancellation and
\* stop.
DownsampleSound == HandedOnce /\ NoLeakedSlot /\ OutputWhole
=============================================================================
