----------------------------- MODULE Federation ------------------------------
(***************************************************************************)
(* FederationManager (server/src/federation): queries read the list of nodes *)
(* and keep the lock until every node has answered; the heartbeat keeps it   *)
(* for writing while it asks every node.  And the two lists of scrape        *)
(* targets: ServiceDiscoveryManager (server/src/service_discovery), whose    *)
(* rounds replace the whole list, and TargetManager (server/src/targets).    *)
(***************************************************************************)
EXTENDS Integers, Sequences, FiniteSets, SequencesExt, Filters

CONSTANTS
  FedNodes,     \* node -> [region, cloud]
  FirstNodes,   \* the nodes of the configuration, in order
  FedQueries,   \* query -> the selection: [by |-> "all"|"region"|"cloud", of |-> a set]
  Rounds,       \* bound on heartbeat rounds
  Changes,      \* bound on nodes that go up or down, and on added or removed nodes
  Discoverers,  \* the discoverers, in order: the targets each of them finds
  SdLoops,      \* loops of ServiceDiscoveryManager::start
  SdRounds,     \* bound on the rounds of one loop
  SdTargets     \* targets handed to TargetManager
ASSUME FederationAssumption ==
  /\ {Rounds, Changes, SdRounds} \subseteq Nat
  /\ FirstNodes \in Seq(DOMAIN FedNodes)
  /\ {"beat", "admin"} \cap DOMAIN FedQueries = {}
  /\ Discoverers \in Seq(Seq(UNION {ToSet(Discoverers[d]) : d \in DOMAIN Discoverers}))

VARIABLES
  fnodes,    \* the list: [name, active]
  up,        \* nodes that answer
  queue,     \* requests for the lock, in order
  holders,   \* who holds the lock
  fquery,    \* query -> its state
  beat,      \* heartbeat: [pc, next, round]
  admin,     \* add_node or remove_node that waits
  changes
fedVars == <<fnodes, up, queue, holders, fquery, beat, admin, changes>>
VARIABLES
  found,     \* ServiceDiscoveryManager.targets
  loop,      \* loop -> [at, new, round]; at is the discoverer to ask, or 0
  broken,    \* discoverers that fail at the moment
  ttable,    \* TargetManager.targets: id -> health
  ttasks     \* TargetManager.intervals
sdVars == <<found, loop, broken, ttable, ttasks>>

NotAsked == [pc |-> "new", asked |-> <<>>, got |-> {}, failed |-> {}]
FedInit ==
  /\ fnodes = [i \in DOMAIN FirstNodes |-> [name |-> FirstNodes[i], active |-> TRUE]]
  /\ up = DOMAIN FedNodes
  /\ queue = <<>>
  /\ holders = {}
  /\ fquery = [q \in DOMAIN FedQueries |-> NotAsked]
  /\ beat = [pc |-> "rest", next |-> 0, round |-> 0]
  /\ admin = <<>>
  /\ changes = 0

\* tokio's RwLock serves its queue in order: readers share, a writer is alone and
\* keeps the readers behind it waiting.
IsReader(who) == who \in DOMAIN FedQueries
Waits(who) == queue' = Append(queue, who)
CanEnter(who) ==
  /\ queue # <<>> /\ Head(queue) = who
  /\ IF IsReader(who) THEN \A h \in holders : IsReader(h) ELSE holders = {}
Enters(who) == queue' = Tail(queue) /\ holders' = holders \cup {who}
Passes == queue' = Tail(queue) /\ UNCHANGED holders

UpOrDown(n) ==
  /\ changes < Changes
  /\ changes' = changes + 1
  /\ up' = IF n \in up THEN up \ {n} ELSE up \cup {n}
  /\ UNCHANGED <<fnodes, queue, holders, fquery, beat, admin, sdVars>>

-----------------------------------------------------------------------------
Federate(q) ==
  /\ fquery[q].pc = "new"
  /\ fquery' = [fquery EXCEPT ![q].pc = "lock"]
  /\ Waits(q)
  /\ UNCHANGED <<fnodes, up, holders, beat, admin, changes, sdVars>>

Selected(q, name) ==
  LET s == FedQueries[q]
  IN  s.by = "all" \/ FedNodes[name][s.by] \in s.of

SelectNodes(q) == Keep(fnodes, {n \in ToSet(fnodes) : n.active /\ Selected(q, n.name)})

\* Mutant: the lock is given back once the tasks are spawned.
MutSelects(q) ==
  LET nodes == SelectNodes(q)
  IN  /\ fquery[q].pc = "lock"
      /\ CanEnter(q)
      /\ fquery' = [fquery EXCEPT ![q].pc = "wait",
                                  ![q].asked = [i \in DOMAIN nodes |-> nodes[i].name]]
      /\ Passes
      /\ UNCHANGED <<fnodes, up, beat, admin, changes, sdVars>>

\* federate, federate_by_*: no active node is an error at once; otherwise one
\* task per node is spawned, and the lock is kept while they run.
Selects(q) ==
  LET nodes == SelectNodes(q)
  IN  /\ fquery[q].pc = "lock"
      /\ CanEnter(q)
      /\ IF nodes = <<>>
         THEN fquery' = [fquery EXCEPT ![q].pc = "err"] /\ Passes
         ELSE /\ fquery' = [fquery EXCEPT ![q].pc = "wait",
                                          ![q].asked = [i \in DOMAIN nodes |-> nodes[i].name]]
              /\ Enters(q)
      /\ UNCHANGED <<fnodes, up, beat, admin, changes, sdVars>>

\* One task: an answer, or an error after at most the time-out.
NodeAnswers(q, i) ==
  /\ fquery[q].pc = "wait"
  /\ i \in DOMAIN fquery[q].asked \ (fquery[q].got \cup fquery[q].failed)
  /\ IF fquery[q].asked[i] \in up
     THEN fquery' = [fquery EXCEPT ![q].got = @ \cup {i}]
     ELSE fquery' = [fquery EXCEPT ![q].failed = @ \cup {i}]
  /\ UNCHANGED <<fnodes, up, queue, holders, beat, admin, changes, sdVars>>

\* What failed is left out of the result, which is an error only when empty.
Collects(q) ==
  /\ fquery[q].pc = "wait"
  /\ fquery[q].got \cup fquery[q].failed = DOMAIN fquery[q].asked
  /\ fquery' = [fquery EXCEPT ![q].pc = IF fquery[q].got = {} THEN "err" ELSE "ok"]
  /\ holders' = holders \ {q}
  /\ UNCHANGED <<fnodes, up, queue, beat, admin, changes, sdVars>>

\* start and check_heartbeats.
BeatDue ==
  /\ beat.pc = "rest"
  /\ beat.round < Rounds
  /\ beat' = [pc |-> "lock", next |-> 1, round |-> beat.round + 1]
  /\ Waits("beat")
  /\ UNCHANGED <<fnodes, up, holders, fquery, admin, changes, sdVars>>

BeatStarts ==
  /\ beat.pc = "lock"
  /\ CanEnter("beat")
  /\ beat' = [beat EXCEPT !.pc = "ask"]
  /\ Enters("beat")
  /\ UNCHANGED <<fnodes, up, fquery, admin, changes, sdVars>>

BeatNode ==
  /\ beat.pc = "ask"
  /\ beat.next <= Len(fnodes)
  /\ fnodes' = [fnodes EXCEPT ![beat.next].active = fnodes[beat.next].name \in up]
  /\ beat' = [beat EXCEPT !.next = @ + 1]
  /\ UNCHANGED <<up, queue, holders, fquery, admin, changes, sdVars>>

\* Mutant: the lock is kept until the next round.
MutBeatEnds ==
  /\ beat.pc = "ask"
  /\ beat.next > Len(fnodes)
  /\ beat' = [beat EXCEPT !.pc = "rest"]
  /\ UNCHANGED <<fnodes, up, queue, holders, fquery, admin, changes, sdVars>>

BeatEnds ==
  /\ beat.pc = "ask"
  /\ beat.next > Len(fnodes)
  /\ beat' = [beat EXCEPT !.pc = "rest"]
  /\ holders' = holders \ {"beat"}
  /\ UNCHANGED <<fnodes, up, queue, fquery, admin, changes, sdVars>>

\* add_node appends, a name that is there already included; remove_node takes
\* every entry of the name.
AdminCalls(op) ==
  /\ admin = <<>>
  /\ changes < Changes
  /\ changes' = changes + 1
  /\ admin' = <<op>>
  /\ Waits("admin")
  /\ UNCHANGED <<fnodes, up, holders, fquery, beat, sdVars>>

AdminRuns ==
  /\ admin # <<>>
  /\ CanEnter("admin")
  /\ Passes
  /\ admin' = <<>>
  /\ fnodes' = IF admin[1].op = "add" THEN Append(fnodes, [name |-> admin[1].name, active |-> TRUE])
               ELSE Keep(fnodes, {n \in ToSet(fnodes) : n.name # admin[1].name})
  /\ UNCHANGED <<up, fquery, beat, changes, sdVars>>

FedTask ==
  \/ \E q \in DOMAIN FedQueries : \/ Selects(q) \/ Collects(q)
                                  \/ \E i \in DOMAIN fquery[q].asked : NodeAnswers(q, i)
  \/ BeatStarts \/ BeatNode \/ BeatEnds \/ AdminRuns
FedNext ==
  \/ FedTask
  \/ BeatDue
  \/ \E q \in DOMAIN FedQueries : Federate(q)
  \/ \E n \in DOMAIN FedNodes : \/ UpOrDown(n)
                                \/ \E op \in {"add", "remove"} : AdminCalls([op |-> op, name |-> n])

-----------------------------------------------------------------------------
SdInit ==
  /\ found = <<>>
  /\ loop = [l \in SdLoops |-> [at |-> 0, new |-> <<>>, round |-> 0]]
  /\ broken = {}
  /\ ttable = <<>>
  /\ ttasks = {}

\* run_discovery asks the discoverers in order, then replaces the list.
RoundBegins(l) ==
  /\ loop[l].at = 0 /\ loop[l].round < SdRounds
  /\ loop' = [loop EXCEPT ![l] = [at |-> 1, new |-> <<>>, round |-> @.round + 1]]
  /\ UNCHANGED <<fedVars, found, broken, ttable, ttasks>>

discover(d) == IF d \in broken THEN <<>> ELSE Discoverers[d]
AskDiscoverer(l) ==
  /\ loop[l].at \in DOMAIN Discoverers
  /\ loop' = [loop EXCEPT ![l].at = @ + 1, ![l].new = @ \o discover(loop[l].at)]
  /\ UNCHANGED <<fedVars, found, broken, ttable, ttasks>>

ReplaceTargets(l) ==
  /\ loop[l].at > Len(Discoverers)
  /\ found' = loop[l].new
  /\ loop' = [loop EXCEPT ![l].at = 0]
  /\ UNCHANGED <<fedVars, broken, ttable, ttasks>>

BreakOrMend(d) ==
  /\ broken' = IF d \in broken THEN broken \ {d} ELSE broken \cup {d}
  /\ UNCHANGED <<fedVars, found, loop, ttable, ttasks>>

add_target(t) ==
  /\ ttable' = [x \in DOMAIN ttable \cup {t} |-> IF x = t THEN "Unknown" ELSE ttable[x]]
  /\ ttasks' \in {ttasks, ttasks \cup {t}}     \* without a server state no task
  /\ UNCHANGED <<fedVars, found, loop, broken>>

remove_target(t) ==
  /\ ttasks' = ttasks \ {t}
  /\ ttable' = [x \in DOMAIN ttable \ {t} |-> ttable[x]]
  /\ UNCHANGED <<fedVars, found, loop, broken>>

update_target_health(t, h) ==
  /\ t \in DOMAIN ttable
  /\ ttable' = [ttable EXCEPT ![t] = h]
  /\ UNCHANGED <<fedVars, found, loop, broken, ttasks>>

stop_all_tasks ==
  /\ ttasks' = {}
  /\ UNCHANGED <<fedVars, found, loop, broken, ttable>>

SdNext ==
  \/ \E l \in SdLoops : RoundBegins(l) \/ AskDiscoverer(l) \/ ReplaceTargets(l)
  \/ \E d \in DOMAIN Discoverers : BreakOrMend(d)
  \/ \E t \in SdTargets : \/ add_target(t) \/ remove_target(t)
                          \/ \E h \in {"Up", "Down"} : update_target_health(t, h)
  \/ stop_all_tasks

FedSpec == FedInit /\ SdInit /\ [][FedNext \/ SdNext]_<<fedVars, sdVars>>

-----------------------------------------------------------------------------
\* Readers share the lock and a writer is alone: the list a query was spread over
\* does not change until the query has collected every answer, however long a
\* node takes; a query in a wait has asked only nodes that are still listed.
QueriesSeeOneList ==
  /\ "beat" \in holders => holders = {"beat"}
  /\ \A q \in DOMAIN FedQueries :
       fquery[q].pc = "wait" =>
         fquery[q].asked = [i \in DOMAIN SelectNodes(q) |-> SelectNodes(q)[i].name]

\* A federated answer leaves out exactly the nodes that failed it; it is a
\* success only with an answer of its own selection.
FederatedAnswer ==
  \A q \in DOMAIN FedQueries :
    /\ fquery[q].pc = "ok" =>
         fquery[q].got # {} /\ fquery[q].got \cup fquery[q].failed = DOMAIN fquery[q].asked
    /\ fquery[q].pc = "err" => fquery[q].got = {}
    /\ \A i \in DOMAIN fquery[q].asked : Selected(q, fquery[q].asked[i])

\* Every query that was asked ends, though heartbeats and changes of the list
\* queue for the same lock.
QueriesEnd == \A q \in DOMAIN FedQueries : (fquery[q].pc = "lock") ~> (fquery[q].pc \in {"ok", "err"})

\* What the discoverers of ok have answered, up to the i-th.
AnsweredUpTo(ok) ==
  LET F[i \in 0..Len(Discoverers)] ==
        IF i = 0 THEN <<>> ELSE IF i \in ok THEN F[i-1] \o Discoverers[i] ELSE F[i-1]
  IN  F

\* The discovered list is one round's: what some discoverers answered, each once
\* and in their order, whatever other loop runs meanwhile (ReplaceTargets).
OneRound == \E ok \in SUBSET DOMAIN Discoverers : found = AnsweredUpTo(ok)[Len(Discoverers)]

\* A scrape task exists only for a target that is listed (add_target, remove_target).
TasksHaveTargets == ttasks \subseteq DOMAIN ttable

\* Federated queries against heartbeats and changes of the list, and the lists
\* of scrape targets.
FederationSound == QueriesSeeOneList /\ FederatedAnswer /\ OneRound /\ TasksHaveTargets
=============================================================================
