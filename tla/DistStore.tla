----------------------------- MODULE DistStore ------------------------------
(***************************************************************************)
(* DistributedStorage::write and query over the nodes' own shard tables,     *)
(* storage/src/distributed/mod.rs.  A write runs as a handler task on the    *)
(* node it reached and, when that node forwards it, as one more on the node  *)
(* it was sent to; the call between them is repeated when it breaks, as      *)
(* RpcClient::call does.  Each node has a table of its own; tables differ    *)
(* when one node has handled a failure and another has not.                  *)
(***************************************************************************)
EXTENDS Integers, Sequences, FiniteSets, SequencesExt

CONSTANTS
  DNodes, DShards, DWrites,
  ShardOfWrite,   \* get_shard_for_series of the write's series
  FirstPrimary,   \* shard -> its primary in every table at the start
  DAttempts,      \* attempts of one RPC call: max_retries + 1
  DHops,          \* bound on the nodes a write passes through
  DFaults,        \* bound on broken calls and full queues
  DMoves          \* bound on changes of a row in one node's table

VARIABLES
  primary,  \* node -> shard -> the primary in its table, or Nowhere
  dclients, \* node -> the nodes its ClusterRpcManager has a client for
  held,     \* node -> write -> how often its MemStore has it
  tasks,    \* write -> path of hops -> the handler at the end of the path
  dfaults, moves
distVars == <<primary, dclients, held, tasks, dfaults, moves>>

Nowhere == "none"
Hop(n, k) == [node |-> n, attempt |-> k]
NewTask == [pc |-> "start", to |-> Nowhere, attempt |-> 1]
NodeOf(p) == Last(p).node
Set(w, p, t) == [q \in DOMAIN tasks[w] \cup {p} |-> IF q = p THEN t ELSE tasks[w][q]]

DistInit ==
  /\ primary = [n \in DNodes |-> FirstPrimary]
  /\ dclients = [n \in DNodes |-> DNodes]
  /\ held = [n \in DNodes |-> [w \in DWrites |-> 0]]
  /\ tasks = [w \in DWrites |-> <<>>]
  /\ dfaults = 0
  /\ moves = 0

Submit(w, n) ==
  /\ tasks[w] = <<>>
  /\ tasks' = [tasks EXCEPT ![w] = Set(w, <<Hop(n, 1)>>, NewTask)]
  /\ UNCHANGED <<primary, dclients, held, dfaults, moves>>

End(w, p, how) == tasks' = [tasks EXCEPT ![w][p].pc = how]

\* write on the primary: the local store first, the followers behind it.
WriteToLocal(w, p) ==
  LET n == NodeOf(p)
  IN  /\ tasks[w][p].pc = "start"
      /\ primary[n][ShardOfWrite[w]] = n
      /\ held' = [held EXCEPT ![n][w] = @ + 1]
      /\ End(w, p, "replicate")
      /\ UNCHANGED <<primary, dclients, dfaults, moves>>

\* replicate_to_followers: the queue takes the series, or is full and the write
\* that is already stored becomes an error.
ReplicateToFollowers(w, p) ==
  /\ tasks[w][p].pc = "replicate"
  /\ \/ End(w, p, "ok") /\ UNCHANGED dfaults
     \/ dfaults < DFaults /\ End(w, p, "err") /\ dfaults' = dfaults + 1
  /\ UNCHANGED <<primary, dclients, held, moves>>

\* write elsewhere: to the node the own table names, or an error when the row is
\* empty or the node has no client.
ForwardWrite(w, p) ==
  LET n == NodeOf(p)
      to == primary[n][ShardOfWrite[w]]
  IN  /\ tasks[w][p].pc = "start"
      /\ to # n
      /\ IF to \notin dclients[n] THEN End(w, p, "err")
         ELSE /\ Len(p) < DHops
              /\ tasks' = [tasks EXCEPT ![w] =
                   [Set(w, Append(p, Hop(to, 1)), NewTask) EXCEPT ![p].pc = "wait", ![p].to = to]]
      /\ UNCHANGED <<primary, dclients, held, dfaults, moves>>

Child(w, p) == Append(p, Hop(tasks[w][p].to, tasks[w][p].attempt))

\* Mutant: any WriteResponse counts as a success.
MutResponse(w, p) ==
  /\ tasks[w][p].pc = "wait"
  /\ tasks[w][Child(w, p)].pc \in {"ok", "err"}
  /\ End(w, p, "ok")
  /\ UNCHANGED <<primary, dclients, held, dfaults, moves>>

\* A WriteResponse, successful or not, ends the call; only a broken call is
\* repeated, while the handler of the first request may still be at work.
Response(w, p) ==
  /\ tasks[w][p].pc = "wait"
  /\ tasks[w][Child(w, p)].pc \in {"ok", "err"}
  /\ End(w, p, tasks[w][Child(w, p)].pc)
  /\ UNCHANGED <<primary, dclients, held, dfaults, moves>>

BrokenCall(w, p) ==
  LET t == tasks[w][p]
  IN  /\ t.pc = "wait"
      /\ dfaults < DFaults
      /\ dfaults' = dfaults + 1
      /\ IF t.attempt = DAttempts THEN End(w, p, "err")
         ELSE tasks' = [tasks EXCEPT ![w] =
                [Set(w, Append(p, Hop(t.to, t.attempt + 1)), NewTask) EXCEPT ![p].attempt = @ + 1]]
      /\ UNCHANGED <<primary, dclients, held, moves>>

\* One node's failover or rebalancing changes a row of its own table; handling a
\* failure also drops the failed node's client.
MoveShard(n, s, to) ==
  /\ moves < DMoves
  /\ to # primary[n][s]
  /\ primary' = [primary EXCEPT ![n][s] = to]
  /\ dclients' \in {dclients, [dclients EXCEPT ![n] = @ \ {primary[n][s]}]}
  /\ moves' = moves + 1
  /\ UNCHANGED <<held, tasks, dfaults>>

WriteStep(w, p) ==
  WriteToLocal(w, p) \/ ReplicateToFollowers(w, p) \/ ForwardWrite(w, p)
    \/ Response(w, p) \/ BrokenCall(w, p)

DistNext ==
  \/ \E w \in DWrites : \/ \E n \in DNodes : Submit(w, n)
                        \/ \E p \in DOMAIN tasks[w] : WriteStep(w, p)
  \/ \E n \in DNodes, s \in DShards, to \in DNodes : MoveShard(n, s, to)

-----------------------------------------------------------------------------
query_local(n, ids) == {w \in ids : held[n][w] > 0}

\* route_queries: the shards that are asked, each with its series.
RouteOf(ids) == [s \in {ShardOfWrite[w] : w \in ids} |-> {w \in ids : ShardOfWrite[w] = s}]

RECURSIVE query(_, _, _)
\* query_shard, query_remote: the primary of node n's own table answers, the node
\* itself or one it has a client for; a peer answers from its own table in turn.
QueryShard(n, s, ids, depth) ==
  LET to == primary[n][s]
  IN  IF to = n THEN query_local(n, ids)
      ELSE IF to \in dclients[n] /\ depth > 0 THEN query(to, ids, depth - 1)
      ELSE {}

\* query on node n: a shard that cannot be read is left out of an answer that is
\* still a success.
query(n, ids, depth) ==
  LET route == RouteOf(ids)
  IN  UNION {QueryShard(n, s, route[s], depth) : s \in DOMAIN route}

Root(w) == {p \in DOMAIN tasks[w] : Len(p) = 1}
Acked(w) == \E p \in Root(w) : tasks[w][p].pc = "ok"
Copies(w) == MapThenSumSet(LAMBDA n : held[n][w], DNodes)

\* A write that was acknowledged is stored by some node, and more than once only
\* by calls that broke or queues that were full: forwarding never stores it at a
\* node on the way, whatever the tables say meanwhile.
AckedOnce ==
  \A w \in DWrites :
    /\ Acked(w) => Copies(w) >= 1
    /\ Copies(w) <= 1 + dfaults

\* As long as no table has changed, an acknowledged write is found by a query on
\* any node, and no write takes more than one hop.
ReadYourWrites ==
  moves = 0 =>
    \A w \in DWrites :
      /\ Acked(w) => \A n \in DNodes : w \in query(n, DWrites, DHops)
      /\ \A p \in DOMAIN tasks[w] : Len(p) <= 2

\* An error reported for a write that no call broke and no queue refused means
\* that nobody has stored it.
CleanErrorsStoreNothing ==
  \A w \in DWrites :
    dfaults = 0 /\ (\E p \in Root(w) : tasks[w][p].pc = "err") => Copies(w) = 0

\* A distributed write is stored when it is acknowledged, more than once only
\* by faults, found again, and not stored when it cleanly failed.
WritesAccounted == AckedOnce /\ ReadYourWrites /\ CleanErrorsStoreNothing
=============================================================================
