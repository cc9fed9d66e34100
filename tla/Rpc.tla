-------------------------------- MODULE Rpc ---------------------------------
(***************************************************************************)
(* RpcClient, its ConnectionPool and RpcServer, storage/src/rpc/mod.rs: the  *)
(* callers of one client make a call that stores a series.  The server       *)
(* answers one request of a connection and closes it; the client puts the    *)
(* connection back and peer_addr still succeeds, so whatever is pooled fails *)
(* at its next read.  A fault is a connect error, a broken connection or a   *)
(* timeout; the request may be served all the same.                          *)
(***************************************************************************)
EXTENDS Integers, FiniteSets

CONSTANTS
  Callers,        \* tasks calling through one RpcClient
  MaxConnections, \* RpcClientConfig.max_connections
  RpcRetries,     \* RpcClientConfig.max_retries
  RpcFaults,      \* bound on the faults of a behaviour
  RpcCalls        \* bound on the calls of one caller

ASSUME RpcAssumption == {MaxConnections, RpcRetries, RpcFaults, RpcCalls} \subseteq Nat

VARIABLES
  rpc,        \* caller -> its call
  pooled,     \* connections.len()
  connecting, \* the caller that holds the lock on connections while it connects
  serving,    \* requests a server task has read and not yet handled
  rpcStored,  \* caller -> how often the request of its call was handled
  rpcFaults
rpcVars == <<rpc, pooled, connecting, serving, rpcStored, rpcFaults>>

Idle == [pc |-> "idle", attempt |-> 0, fresh |-> 0, calls |-> 0]
NoCaller == "none"
Request(c) == [caller |-> c, call |-> rpc[c].calls, attempt |-> rpc[c].attempt]

RpcInit ==
  /\ rpc = [c \in Callers |-> Idle]
  /\ pooled = 0
  /\ connecting = NoCaller
  /\ serving = {}
  /\ rpcStored = [c \in Callers |-> 0]
  /\ rpcFaults = 0

call(c) ==
  /\ rpc[c].pc \in {"idle", "ok", "err"}
  /\ rpc[c].calls < RpcCalls
  /\ rpc' = [rpc EXCEPT ![c] = [pc |-> "get", attempt |-> 0, fresh |-> 0, calls |-> @.calls + 1]]
  /\ rpcStored' = [rpcStored EXCEPT ![c] = 0]
  /\ UNCHANGED <<pooled, connecting, serving, rpcFaults>>

\* get_connection: a pooled connection is taken as it is, else the lock is kept
\* while the new one is made.  The permit is released on return.
get_connection(c) ==
  /\ rpc[c].pc = "get"
  /\ connecting = NoCaller
  /\ IF pooled > 0
     THEN /\ pooled' = pooled - 1
          /\ rpc' = [rpc EXCEPT ![c].pc = "stale"]
          /\ UNCHANGED connecting
     ELSE /\ connecting' = c
          /\ rpc' = [rpc EXCEPT ![c].pc = "connect"]
          /\ UNCHANGED pooled
  /\ UNCHANGED <<serving, rpcStored, rpcFaults>>

\* Mutant: the lock on connections is not given back.
MutConnect(c) ==
  /\ rpc[c].pc = "connect"
  /\ rpc' = [rpc EXCEPT ![c].pc = "wait", ![c].fresh = @ + 1]
  /\ serving' = serving \cup {Request(c)}
  /\ UNCHANGED <<pooled, connecting, rpcStored, rpcFaults>>

connect(c) ==
  /\ rpc[c].pc = "connect"
  /\ connecting' = NoCaller
  /\ rpc' = [rpc EXCEPT ![c].pc = "wait", ![c].fresh = @ + 1]
  /\ serving' = serving \cup {Request(c)}
  /\ UNCHANGED <<pooled, rpcStored, rpcFaults>>

\* The end of a failed attempt: the next one, or the last error.
NextAttempt(r) ==
  IF r.attempt < RpcRetries THEN [r EXCEPT !.pc = "get", !.attempt = @ + 1]
  ELSE [r EXCEPT !.pc = "err"]
Failed(c) == rpc' = [rpc EXCEPT ![c] = NextAttempt(rpc[c])]

StaleRead(c) ==
  /\ rpc[c].pc = "stale"
  /\ Failed(c)
  /\ UNCHANGED <<pooled, connecting, serving, rpcStored, rpcFaults>>

Fault(c) ==
  /\ rpcFaults < RpcFaults
  /\ \/ rpc[c].pc = "connect" /\ connecting' = NoCaller
     \/ rpc[c].pc = "wait" /\ UNCHANGED connecting
  /\ rpcFaults' = rpcFaults + 1
  /\ Failed(c)
  /\ UNCHANGED <<pooled, serving, rpcStored>>

\* handle_connection: the handler runs whether or not the caller still waits.
handle_connection(q) ==
  /\ q \in serving
  /\ serving' = serving \ {q}
  /\ rpcStored' = IF q.call = rpc[q.caller].calls
                  THEN [rpcStored EXCEPT ![q.caller] = @ + 1] ELSE rpcStored
  /\ UNCHANGED <<rpc, pooled, connecting, rpcFaults>>

\* Mutant: the call returns before the server has handled the request.
MutReturnEarly(c) ==
  /\ rpc[c].pc = "wait"
  /\ rpc' = [rpc EXCEPT ![c].pc = "ok"]
  /\ UNCHANGED <<pooled, connecting, serving, rpcStored, rpcFaults>>

\* The answer: return_connection tries the lock and drops the connection when
\* another caller is connecting or the pool is full.
return_connection(c) ==
  /\ rpc[c].pc = "wait"
  /\ Request(c) \notin serving
  /\ rpc' = [rpc EXCEPT ![c].pc = "ok"]
  /\ pooled' = IF connecting = NoCaller /\ pooled < MaxConnections THEN pooled + 1 ELSE pooled
  /\ UNCHANGED <<connecting, serving, rpcStored, rpcFaults>>

CallStep(c) == get_connection(c) \/ connect(c) \/ StaleRead(c) \/ return_connection(c)
RpcNext ==
  \/ \E c \in Callers : call(c) \/ CallStep(c) \/ Fault(c)
  \/ \E q \in serving : handle_connection(q)
RpcSpec == RpcInit /\ [][RpcNext]_rpcVars

-----------------------------------------------------------------------------
\* A call that returns an answer was handled at least once, and a write is stored
\* again only by an attempt that a fault cut off: call repeats the request and
\* nothing on the server recognises it.
DuplicatesNeedFaults ==
  /\ \A c \in Callers : rpc[c].pc = "ok" => rpcStored[c] >= 1
  /\ \A c \in Callers : rpcStored[c] <= 1 + rpcFaults

\* While nothing goes wrong on the network a call fails only because every one of
\* its attempts took a used connection from the pool: with a connection of its
\* own it is always answered.
ErrorsAreStale ==
  \A c \in Callers : rpc[c].pc = "err" /\ rpcFaults = 0 => rpc[c].fresh = 0

\* Every call comes to an end, although callers wait for the lock of one that
\* connects (the lock on connections is kept across the connect).
CallsEnd == \A c \in Callers : rpc[c].pc = "get" ~> rpc[c].pc \in {"ok", "err"}

\* Calls are repeated only after faults and fail only for stale connections.
CallsSound == DuplicatesNeedFaults /\ ErrorsAreStale
=============================================================================
