------------------------------ MODULE MCQuery ------------------------------
(* The executor, the HTTP handlers, the optimizer and the router over every    *)
(* small store, the parser over every small expression, the workers of         *)
(* parallel queries, the pre-aggregation rules and their scheduler, and the    *)
(* two caches of results: a behaviour moves one of them.                       *)
EXTENDS Handlers, Planner, Workers, PreAgg, Caches

VARIABLE part
vars == <<storeVars, expr, paVars, qcacheVars, engineVars, workerVars, part>>

MCLabels == 1 :> {<<"a", "x">>, <<"b", "x">>} @@ 2 :> {<<"a", "x">>, <<"b", "y">>}
              @@ 3 :> {<<"a", "y">>}
MCAskedPairs == {<<"a", "x">>, <<"b", "y">>}
MCWritten == {<<1, Whole(1)>>, <<1, Whole(4)>>, <<7, Whole(4)>>, <<8, Whole(1)>>, <<8, Whole(4)>>}
MCRealFn(f, v) == Zero
MCDurations == "5m" :> 30 @@ "1m" :> 6
MCNumbers == "9" :> 9
Asked(metric, labels, range) == [metric |-> metric, labels |-> labels, range |-> range]
MCPQueries == {Asked("x", <<1, 2>>, "5m"), Asked("x", <<2, 1>>, "1h"), Asked("y", <<>>, "none")}

Init == /\ StoreInit /\ PromqlInit /\ PaInit /\ CachesInit /\ WorkersInit
        /\ part \in {"execute", "parse", "manage", "run", "cache", "engine", "workers"}
        /\ part # "execute" => ~flip
        /\ part # "parse" => expr = Plain("m")
        /\ part # "engine" => enabled
Next ==
  /\ UNCHANGED part
  /\ \/ part = "execute" /\ HandlersNext /\ UNCHANGED <<expr, paVars, qcacheVars, engineVars, workerVars>>
     \/ part = "parse" /\ PromqlNext /\ UNCHANGED <<storeVars, paVars, qcacheVars, engineVars, workerVars>>
     \/ part = "manage" /\ ManageNext /\ UNCHANGED <<storeVars, expr, qcacheVars, engineVars, workerVars>>
     \/ part = "run" /\ RunNext /\ UNCHANGED <<storeVars, expr, qcacheVars, engineVars, workerVars>>
     \/ part = "cache" /\ QcacheNext /\ UNCHANGED <<storeVars, expr, paVars, workerVars>>
     \/ part = "engine" /\ EngineNext /\ UNCHANGED <<storeVars, expr, paVars, workerVars>>
     \/ part = "workers" /\ WorkersNext /\ UNCHANGED <<storeVars, expr, paVars, qcacheVars, engineVars>>
Spec == Init /\ [][Next]_vars

\* The HTTP handlers, the optimizer and the router answer what the executor
\* answers, and parallel tasks lose nothing and stay within their permits.
PlansSound == HandlersSound /\ PlannerSound /\ WorkersSound
=============================================================================
