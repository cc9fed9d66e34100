------------------------------ MODULE MCServer -------------------------------
(* The server's parts that do not share state: rules and alerts, federation,  *)
(* target discovery, remote write and read, batch export.  A behaviour moves  *)
(* one of them.                                                               *)
EXTENDS Rules, Federation, Remote

VARIABLE part
vars == <<ruleVars, fedVars, sdVars, writerVars, serverVars, exportVars, part>>

Rule(name, kind, reads, op) ==
  [name |-> name, kind |-> kind, reads |-> reads, cond |-> [op |-> op, x |-> 0]]
MCFiles == [f \in {"f"} |-> <<Rule("sum", "record", {"x", "y"}, "ne"), Rule("high", "alert", {"x"}, "gt")>>]
MCPosted == {[name |-> "posted", reads |-> {"x"}]}

Node(region, cloud) == [region |-> region, cloud |-> cloud]
MCNodes == [n \in {"a", "b"} |-> IF n = "a" THEN Node("eu", "aws") ELSE Node("us", "gcp")]
MCFirstNodes == <<"a", "b">>
MCFedQueries == [q \in {"q", "r"} |->
  IF q = "q" THEN [by |-> "all", of |-> {}] ELSE [by |-> "cloud", of |-> {"gcp"}]]
MCDiscoverers == << <<"t1", "t2">>, <<"t2">> >>

Lbl(n, v) == [name |-> n, value |-> v]
Line(n, v, s, ls) == [name |-> n, value |-> v, stamp |-> s, labels |-> ls]
Body(h, u, l, p, ls) == [header |-> h, utf8 |-> u, looksText |-> l, proto |-> p, lines |-> ls]
Good == Line("m", "number", "none", {Lbl("a", "x")})
Other == Line("m", "number", "none", {Lbl("a", "y")})
Comma == Line("m", "number", "now", {Lbl("a", "comma")})
NoValue == Line("m", "none", "none", {Lbl("b", "x")})
MCBodies == { Body("protobuf", FALSE, FALSE, TRUE, {Good, Comma}),
              Body("text", TRUE, TRUE, FALSE, {Good, Other, Comma, NoValue}),
              Body("text", FALSE, TRUE, FALSE, {Other}),
              Body("text", FALSE, FALSE, TRUE, {Other}),
              Body("protobuf", TRUE, TRUE, FALSE, {Good}) }
Matcher(n, v, t) == [name |-> n, value |-> v, type |-> t]
MCReads == { {Matcher("a", "x", "eq")}, {Matcher("a", "x", "neq")},
             {Matcher("a", "y", "eq"), Matcher("b", "x", "neq")} }
MCTargets == <<"t", "u">>
MCFails == {{Lbl("a", "y")}}

Init ==
  /\ RulesInit /\ FedInit /\ SdInit /\ WriterInit /\ ServerInit /\ ExportInit
  /\ part \in {"rules", "federation", "discovery", "writer", "requests", "export"}
Next ==
  /\ UNCHANGED part
  /\ \/ /\ part = "rules" /\ RulesNext
        /\ UNCHANGED <<fedVars, sdVars, writerVars, serverVars, exportVars>>
     \/ /\ UNCHANGED <<ruleVars, writerVars, serverVars, exportVars>>
        /\ \/ part = "federation" /\ FedNext
           \/ part = "discovery" /\ SdNext
     \/ /\ UNCHANGED <<ruleVars, fedVars, sdVars>>
        /\ \/ part = "writer" /\ WriterNext
           \/ part = "requests" /\ ServerNext
           \/ part = "export" /\ ExportNext

\* Spawned tasks are run; requests and ticks bring the rest.
ServerFairness ==
  /\ WF_vars(/\ part = "federation" /\ FedTask
             /\ UNCHANGED <<part, ruleVars, writerVars, serverVars, exportVars>>)
  /\ \A t \in {"t", "u"} :
       WF_vars(/\ part = "writer" /\ WriterTask(t)
               /\ UNCHANGED <<part, ruleVars, fedVars, sdVars>>)
  /\ WF_vars(/\ part = "export" /\ ExportTask
             /\ UNCHANGED <<part, ruleVars, fedVars, sdVars>>)
Spec == Init /\ [][Next]_vars /\ ServerFairness

\* Whatever queues for the same lock or channel, the server's tasks end: a federated
\* query is answered, a write to a target that is not gone leaves its batch, and
\* an export that was created is finished or cancelled.
ServerTasksEnd == QueriesEnd /\ RemoteDrains /\ ExportsEnd
=============================================================================
