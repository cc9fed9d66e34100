------------------------------- MODULE MCDist -------------------------------
(* The cluster's parts that do not share state: Raft, the query coordinator   *)
(* with its ring, the routing of writes, and the placement of shards.  A      *)
(* behaviour moves one of them.                                               *)
EXTENDS Raft, QueryCoordinator, DistStore, Shards

VARIABLE part

MCShardOfWrite == 1 :> "s" @@ 2 :> "t"
MCFirstPrimary == "s" :> "a" @@ "t" :> "none"
MCQueries == "all" :> {} @@ "one" :> {1}
MCHashOfNode == "a" :> {2, 5} @@ "b" :> {3, 8} @@ "c" :> {4, 9}
MCHashOfKey == "k1" :> 1 @@ "k2" :> 4 @@ "k3" :> 6 @@ "k4" :> 10
AllOps == {"assign", "rebalance", "failure"}
Sym == Permutations(RNodes)

MCInit == /\ RaftInit /\ QcInit /\ DistInit /\ Init
          /\ part \in {"raft", "ring", "query", "route", "shards"}
MCNext ==
  /\ UNCHANGED part
  /\ \/ part = "raft"   /\ RaftNext  /\ UNCHANGED <<qcVars, distVars, vars>>
     \/ part = "ring"   /\ RingNext  /\ UNCHANGED <<raftVars, distVars, vars>>
     \/ part = "query"  /\ QueryNext /\ UNCHANGED <<raftVars, distVars, vars>>
     \/ part = "route"  /\ DistNext  /\ UNCHANGED <<raftVars, qcVars, vars>>
     \/ part = "shards" /\ Next      /\ UNCHANGED <<raftVars, qcVars, distVars>>
MCSpec == MCInit /\ [][MCNext]_<<raftVars, qcVars, distVars, vars, part>>
=============================================================================
