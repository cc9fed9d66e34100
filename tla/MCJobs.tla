------------------------------- MODULE MCJobs -------------------------------
(* Background work: RPC calls, the coordinators' periodic checks, and         *)
(* compaction.  A behaviour moves one of them.                                 *)
EXTENDS Rpc, Coordinators, Compaction, TLC

VARIABLE job
jobVars == <<rpcVars, coordVars, compVars, job>>

MCOldBlocks == 1 :> {<<"s", 1, "x">>, <<"u", 1, "x">>} @@ 2 :> {<<"s", 1, "y">>, <<"s", 2, "x">>}
MCLateBlock == {<<"s", 4, "x">>}
MCColumnsOf == <<"words", "broken", "bytes", "words", "words">>

Init == /\ RpcInit /\ CoordInit /\ CompInit
        /\ job \in {"rpc", "health", "tasks", "compaction"}
Next ==
  /\ UNCHANGED job
  /\ \/ job = "rpc"        /\ RpcNext    /\ UNCHANGED <<coordVars, compVars>>
     \/ job = "health"     /\ HealthNext /\ UNCHANGED <<rpcVars, compVars>>
     \/ job = "tasks"      /\ TaskNext   /\ UNCHANGED <<rpcVars, compVars>>
     \/ job = "compaction" /\ CompNext   /\ UNCHANGED <<rpcVars, coordVars>>

\* A call's task is polled again when its connection is ready, the server serves
\* every connection, and the coordinators' intervals keep ticking.
RpcFairness ==
  /\ \A c \in Callers : WF_rpcVars(job = "rpc" /\ CallStep(c))
  /\ WF_rpcVars(job = "rpc" /\ \E q \in serving : handle_connection(q))
CoordFairness ==
  /\ WF_coordVars(job = "tasks" /\ coordinate)
  /\ WF_coordVars(job = "tasks" /\ TasksAge)

\* The runtime polls the compaction task, its interval keeps ticking, and select!
\* picks among the branches that are ready at random.
CompFairness ==
  /\ WF_compVars(job = "compaction" /\ Working)
  /\ SF_compVars(job = "compaction" /\ check_and_compact)
  /\ WF_compVars(job = "compaction" /\ ClockC)

Spec == /\ Init /\ [][Next]_jobVars
        /\ RpcFairness /\ CoordFairness /\ CompFairness

\* Background work comes to an end: a call that began to look for a connection is
\* answered or fails, a running task whose node is silent is ended, and compaction
\* brings every level under its threshold unless a damaged block or a shutdown
\* stops it.
JobsEnd == CallsEnd /\ SilentTasksEnd /\ CompactionSettles
=============================================================================
