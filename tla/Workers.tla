------------------------------- MODULE Workers -------------------------------
(***************************************************************************)
(* ParallelQueryExecutor and ParallelContext (storage/src/query/parallel.rs), *)
(* as the query executor uses them (executor.rs:203): a query clones the      *)
(* current executor, starts one task per series, collects what they send and  *)
(* then records its statistics and replaces the executor by one of another    *)
(* width, while other queries still run on the old one.                       *)
(***************************************************************************)
EXTENDS Integers, Sequences, FiniteSets, FiniteSetsExt, SequencesExt

CONSTANTS
  Clients,     \* queries that run at one time
  TaskIds,     \* the series of a query
  Widest,      \* ParallelConfig.max_concurrency
  StatsNeeded, \* executions before the width is adjusted (3)
  StatsKept,   \* executions that are kept (10)
  MaxQueries   \* bound on the queries

VARIABLES
  pools,   \* the executors created so far; the last one is the context's: their permits
  stats_history,   \* ParallelContext: [pace, used]
  queries, \* client -> [at, pool, tasks, channel, got, failed, used]
  asked    \* queries so far

workerVars == <<pools, stats_history, queries, asked>>

NoQuery == [at |-> "idle", pool |-> 1, tasks |-> [t \in TaskIds |-> "new"], channel |-> <<>>, got |-> <<>>,
         failed |-> FALSE, used |-> 0]

\* ParallelQueryExecutor::new.
new_executor(n) == IF n < 1 THEN 1 ELSE n

WorkersInit ==
  /\ pools = <<new_executor(Widest)>>
  /\ stats_history = <<>>
  /\ queries = [c \in Clients |-> NoQuery]
  /\ asked = 0

Tasks(p, states) ==
  {<<c, t>> \in Clients \X TaskIds :
     queries[c].at = "running" /\ queries[c].pool = p /\ queries[c].tasks[t] \in states}

\* A task keeps its permit until it has sent its result.
Held(p) == Cardinality(Tasks(p, {"working", "some", "error"}))
\* active_tasks is lowered before the result is sent.
Active(p) == Cardinality(Tasks(p, {"working"}))

\* The clone shares the semaphore and the counter of the executor.
StartQuery(c) ==
  /\ queries[c].at = "idle" /\ asked < MaxQueries
  /\ asked' = asked + 1
  /\ queries' = [queries EXCEPT ![c] = [NoQuery EXCEPT !.at = "running", !.pool = Len(pools)]]
  /\ UNCHANGED <<pools, stats_history>>

Acquire(c, t) ==
  LET p == queries[c].pool
  IN  /\ queries[c].at = "running" /\ queries[c].tasks[t] = "new"
      /\ Held(p) < pools[p]
      /\ queries' = [queries EXCEPT ![c].tasks[t] = "working",
                                    ![c].used = Max({@, Active(p) + 1})]
      /\ UNCHANGED <<pools, stats_history, asked>>

\* process_fn answers a series, nothing, or an error; nothing is not sent.
Process(c, t, outcome) ==
  /\ queries[c].at = "running" /\ queries[c].tasks[t] = "working"
  /\ queries' = [queries EXCEPT ![c].tasks[t] = IF outcome = "none" THEN "ended" ELSE outcome]
  /\ UNCHANGED <<pools, stats_history, asked>>

\* The channel has room for twice the width of the executor.
SendResult(c, t) ==
  /\ queries[c].at = "running" /\ queries[c].tasks[t] \in {"some", "error"}
  /\ Len(queries[c].channel) < 2 * pools[queries[c].pool]
  /\ queries' = [queries EXCEPT ![c].tasks[t] = IF @ = "some" THEN "sent" ELSE "failed",
                                ![c].channel = Append(@, <<t, queries[c].tasks[t]>>)]
  /\ UNCHANGED <<pools, stats_history, asked>>

ReceiveResult(c) ==
  LET q == queries[c]
  IN  /\ q.at = "running" /\ q.channel # <<>>
      /\ queries' = [queries EXCEPT ![c].channel = Tail(@),
           ![c].got = IF Head(q.channel)[2] = "some" THEN Append(@, Head(q.channel)[1]) ELSE @,
           ![c].failed = @ \/ Head(q.channel)[2] = "error"]
      /\ UNCHANGED <<pools, stats_history, asked>>

Over == {"ended", "sent", "failed"}

record_stats(s) == LET all == Append(stats_history, s) IN IF Len(all) > StatsKept THEN Tail(all) ELSE all

\* A query is fast below 100 ms, slow above 1000; the average of the history is
\* somewhere between the least and the greatest of it.
AveragePaces(history) == LET ps == {s.pace : s \in Range(history)} IN Min(ps)..Max(ps)
Fast == 0
Slow == 2

\* The width that replaces the context's executor, none when it stays.
adjust_concurrency(history, pace) ==
  LET avg == FoldLeft(LAMBDA n, s : n + s.used, 0, history) \div Len(history)
  IN  IF Len(history) < StatsNeeded THEN {}
      ELSE IF pace = Slow /\ avg < Widest THEN {new_executor(Min({avg + 1, Widest}))}
      ELSE IF pace = Fast /\ avg > 1 THEN {new_executor(Max({avg - 1, 1}))}
      ELSE {}

\* The channel ends when every task has dropped its end of it.  After an error
\* nothing is recorded.
FinishQuery(c, pace) ==
  LET q == queries[c]
      history == record_stats([pace |-> pace, used |-> q.used])
  IN  /\ q.at = "running" /\ q.channel = <<>>
      /\ \A t \in TaskIds : q.tasks[t] \in Over
      /\ queries' = [queries EXCEPT ![c].at = IF q.failed THEN "error" ELSE "answered"]
      /\ IF q.failed THEN UNCHANGED <<pools, stats_history>>
         ELSE /\ stats_history' = history
              /\ \E average \in AveragePaces(history) :
                   pools' = pools \o SetToSeq(adjust_concurrency(history, average))
      /\ UNCHANGED asked

\* The answer is returned.
ReturnAnswer(c) ==
  /\ queries[c].at \in {"answered", "error"}
  /\ queries' = [queries EXCEPT ![c] = NoQuery]
  /\ UNCHANGED <<pools, stats_history, asked>>

WorkersNext ==
  \E c \in Clients :
    \/ StartQuery(c) \/ ReceiveResult(c) \/ ReturnAnswer(c)
    \/ \E t \in TaskIds : Acquire(c, t) \/ SendResult(c, t)
    \/ \E t \in TaskIds, o \in {"some", "none", "error"} : Process(c, t, o)
    \/ \E pace \in {Fast, Slow} : FinishQuery(c, pace)

-----------------------------------------------------------------------------
(* Shards of the time range.                                                *)

\* execute_time_range_parallel: the bounds of the shards, both ends included by
\* the reader of a shard.
time_shards(start, end, n) ==
  LET size == (end - start) \div n
  IN  IF start >= end \/ n = 0 THEN <<>>
      ELSE IF size = 0 THEN <<<<start, end>>>>
      ELSE [i \in 1..n |-> <<start + (i - 1) * size, IF i = n THEN end ELSE start + i * size>>]

get_recommended_shards(range, least) == Max({1, Min({range \div least, 2 * Widest})})

get_recommended_batch_size(total) == Max({1, (total + Widest - 1) \div Widest})

-----------------------------------------------------------------------------
(* Properties.                                                              *)

\* Every executor that was ever created is at least one and at most
\* max_concurrency wide, no executor runs more tasks than it is wide, also when
\* it has been replaced, and no query reports more.
WidthKept ==
  /\ \A p \in DOMAIN pools : pools[p] \in 1..Widest /\ Held(p) <= pools[p]
  /\ \A c \in Clients : queries[c].used <= pools[queries[c].pool]
  /\ Len(stats_history) <= StatsKept

\* A query that is answered has collected each series that was found, once, and
\* it answers an error exactly when one of its tasks failed.
CollectedOnce ==
  \A c \in Clients :
    /\ \A i, j \in DOMAIN queries[c].got : queries[c].got[i] = queries[c].got[j] => i = j
    /\ queries[c].at \in {"answered", "error"} =>
         /\ Range(queries[c].got) = {t \in TaskIds : queries[c].tasks[t] = "sent"}
         /\ (queries[c].at = "error") <=> (\E t \in TaskIds : queries[c].tasks[t] = "failed")

\* A query whose tasks have all ended can be finished or has something to
\* receive, and one whose tasks have not has one that can go on: a full channel
\* is emptied by the query itself and a permit is given back without waiting
\* for another, whatever executor the query started on.
NothingStuck ==
  \A c \in Clients : queries[c].at = "running" =>
    \/ queries[c].channel # <<>>
    \/ \A t \in TaskIds : queries[c].tasks[t] \in Over
    \/ \E t \in TaskIds : queries[c].tasks[t] \in {"working", "some", "error"}
    \/ Held(queries[c].pool) < pools[queries[c].pool]
    \/ \E d \in Clients : d # c /\ queries[d].pool = queries[c].pool /\ queries[d].at = "running"
                          /\ \E t \in TaskIds : queries[d].tasks[t] \in {"working", "some", "error"}

\* The shards of a range cover it without a gap; neighbours share one instant,
\* and the last one takes what the division leaves over (parallel.rs:192).
ShardsCover ==
  \A start \in 0..1, end \in 0..7, n \in 0..3 :
    LET s == time_shards(start, end, n)
    IN  s # <<>> => /\ s[1][1] = start /\ Last(s)[2] = end
                    /\ \A i \in 1..(Len(s) - 1) : s[i][2] = s[i + 1][1] /\ s[i][1] < s[i][2]
                    /\ get_recommended_batch_size(end) * Widest >= end
                    /\ get_recommended_shards(end, 2) \in 1..(2 * Widest)

\* Tasks that share a pool of permits, which may be replaced under them, stay
\* within it, answer once each and never wait for nothing (parallel.rs:60).
WorkersSound == WidthKept /\ CollectedOnce /\ NothingStuck /\ (asked = 0 => ShardsCover)
=============================================================================
