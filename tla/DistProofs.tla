----------------------------- MODULE DistProofs -----------------------------
(***************************************************************************)
(* Proofs about the cluster's parts: where shards are placed and what Raft  *)
(* nodes hold.  Each part is closed and its specification is its own.       *)
(***************************************************************************)
EXTENDS Raft, Shards, TLAPS, FiniteSetTheorems, SequenceTheorems, WellFoundedInduction

-----------------------------------------------------------------------------
(* Shard placement.  The number of entries of a list is the cardinality of  *)
(* a set of numbered entries, which settles how long a list gets.           *)

TaskPc == {"idle", "index", "loop", "place", "rebuild"}
TaskRec == [pc : TaskPc, node : Node \cup {NoNode}, healthy : SUBSET Node,
            left : [Shard -> Nat], shard : Shard]
Row == [primary : Node \cup {NoNode}, followers : [Node -> Nat]]

ShardsType ==
  /\ shards \in [Shard -> Row]
  /\ node_shards \in [Node -> [Shard -> Nat]]
  /\ task \in [Task -> TaskRec]
  /\ ops \in 0 .. MaxOps
  /\ unindexed \in BOOLEAN

\* A row that replication can work with.
GoodRow(r) == r.primary \notin Members(r.followers) /\ Length(r.followers) <= RF - 1

Holds(s, n) == n = shards[s].primary \/ n \in Members(shards[s].followers)

\* A task that will still bring shard s into the index of node n: one that is about
\* to rebuild all of it, or has placed the shard and not indexed it yet.
WillIndex(t, s, n) ==
  \/ task[t].pc \in {"loop", "place", "rebuild"}
  \/ task[t].pc = "index" /\ task[t].shard = s /\ n \in task[t].healthy \cup {task[t].node}

Indexed ==
  ~unindexed =>
    \A s \in Shard, n \in Node :
      Holds(s, n) => s \in Members(node_shards[n]) \/ \E t \in Task : WillIndex(t, s, n)

ShardsInv == ShardsType /\ (\A s \in Shard : GoodRow(shards[s])) /\ Indexed

\* The image of a finite set is finite, and no larger.
LEMMA ImageFinite ==
  ASSUME NEW S, IsFiniteSet(S), NEW f
  PROVE  IsFiniteSet({f[x] : x \in S}) /\ Cardinality({f[x] : x \in S}) <= Cardinality(S)
<1> DEFINE T == {f[x] : x \in S}
           g == [x \in S |-> f[x]]
<1>1. g \in Surjection(S, T)
  BY DEF Surjection
<1> HIDE DEF g
<1> QED BY <1>1, FS_Surjection

\* Entries of a list are finitely many.
LEMMA EntriesFinite ==
  ASSUME NEW list \in [Node -> Nat]
  PROVE  IsFiniteSet(Entries(list)) /\ Length(list) \in Nat
<1> DEFINE parts == {{x} \X (1 .. list[x]) : x \in Node}
<1>1. IsFiniteSet(parts)
  <2> DEFINE f == [x \in Node |-> {x} \X (1 .. list[x])]
  <2>1. parts = {f[x] : x \in Node}
    OBVIOUS
  <2> HIDE DEF f
  <2>2. IsFiniteSet({f[x] : x \in Node})
    BY ImageFinite, ShardsAssumption
  <2> HIDE DEF parts
  <2> QED BY <2>1, <2>2
<1>2. \A P \in parts : IsFiniteSet(P)
  <2>1. \A x \in Node : IsFiniteSet({x}) /\ IsFiniteSet(1 .. list[x])
    BY FS_Interval, FS_Singleton
  <2>2. \A x \in Node : IsFiniteSet({x} \X (1 .. list[x]))
    BY <2>1, FS_Product
  <2> QED BY <2>2
<1>3. IsFiniteSet(UNION parts)
  BY <1>1, <1>2, FS_UNION
<1>4. Entries(list) = UNION parts
  BY DEF Entries
<1> QED BY <1>3, <1>4, FS_CardinalityType DEF Length

\* A list of distinct nodes, a list without a node, and a list with nodes added.
LEMMA ListLengths ==
  ASSUME NEW F \in SUBSET Node
  PROVE  /\ ListOf(F) \in [Node -> Nat] /\ Members(ListOf(F)) = F
         /\ Length(ListOf(F)) <= Cardinality(F)
<1>1. ListOf(F) \in [Node -> Nat] /\ Members(ListOf(F)) = F
  BY DEF ListOf, Members
<1>2. IsFiniteSet(F) /\ Cardinality(F) \in Nat
  BY ShardsAssumption, FS_Subset, FS_CardinalityType
<1> DEFINE f == [x \in F |-> <<x, 1>>]
<1>3. Entries(ListOf(F)) \in SUBSET {f[x] : x \in F}
  <2>1. ASSUME NEW e \in Entries(ListOf(F)) PROVE e \in {f[x] : x \in F}
    <3>1. PICK x \in Node : e \in {x} \X (1 .. ListOf(F)[x])
      BY <1>1 DEF Entries
    <3>2. x \in F /\ e = <<x, 1>>
      BY <3>1 DEF ListOf
    <3> QED BY <3>2
  <2> QED BY <2>1
<1> HIDE DEF f
<1>4. /\ IsFiniteSet({f[x] : x \in F})
      /\ Cardinality({f[x] : x \in F}) <= Cardinality(F)
  BY <1>2, ImageFinite
<1>5. Cardinality(Entries(ListOf(F))) <= Cardinality({f[x] : x \in F})
  BY <1>3, <1>4, FS_Subset
<1>6. Cardinality(Entries(ListOf(F))) \in Nat /\ Cardinality({f[x] : x \in F}) \in Nat
  BY <1>1, <1>4, EntriesFinite, FS_CardinalityType DEF Length
<1> QED BY <1>1, <1>2, <1>4, <1>5, <1>6 DEF Length

\* A node leaves a replica list: it is a member no more, and the list is no
\* longer than it was.
LEMMA WithoutLength ==
  ASSUME NEW list \in [Node -> Nat], NEW n
  PROVE  /\ Without(list, n) \in [Node -> Nat]
         /\ Members(Without(list, n)) = Members(list) \ {n}
         /\ Length(Without(list, n)) <= Length(list)
<1>1. Without(list, n) \in [Node -> Nat] /\ Members(Without(list, n)) = Members(list) \ {n}
  <2>1. Without(list, n) = [x \in Node |-> IF x = n THEN 0 ELSE list[x]]
    BY DEF Without
  <2>2. 0 \in Nat /\ ~(0 > 0)
    OBVIOUS
  <2>3. Members(Without(list, n)) \subseteq Members(list) \ {n}
    BY <2>1, <2>2 DEF Members
  <2>4. Members(list) \ {n} \subseteq Members(Without(list, n))
    BY <2>1 DEF Members
  <2> QED BY <2>1, <2>2, <2>3, <2>4
<1>2. Entries(Without(list, n)) \in SUBSET Entries(list)
  <2>1. \A x \in Node : 1 .. Without(list, n)[x] \subseteq 1 .. list[x]
    BY DEF Without
  <2>2. DOMAIN list = Node /\ DOMAIN Without(list, n) = Node
    BY <1>1
  <2> QED BY <2>1, <2>2 DEF Entries
<1> QED BY <1>1, <1>2, EntriesFinite, FS_Subset DEF Length

\* Nodes join a replica list: it holds both, and is longer by at most their
\* number.
LEMMA AddedLength ==
  ASSUME NEW list \in [Node -> Nat], NEW F \in SUBSET Node
  PROVE  LET more == [n \in Node |-> list[n] + ListOf(F)[n]]
         IN  /\ more \in [Node -> Nat]
             /\ Members(more) = Members(list) \cup F
             /\ Length(more) <= Length(list) + Cardinality(F)
<1> DEFINE more == [n \in Node |-> list[n] + ListOf(F)[n]]
           f == [x \in F |-> <<x, list[x] + 1>>]
           last == {f[x] : x \in F}
<1>1. more \in [Node -> Nat] /\ Members(more) = Members(list) \cup F
  BY DEF ListOf, Members
<1>2. IsFiniteSet(F) /\ Cardinality(F) \in Nat
  BY ShardsAssumption, FS_Subset, FS_CardinalityType
<1>3. Entries(more) \in SUBSET (Entries(list) \cup last)
  <2>1. ASSUME NEW e \in Entries(more) PROVE e \in Entries(list) \cup last
    <3>1. PICK x \in Node : e \in {x} \X (1 .. more[x])
      BY <1>1 DEF Entries
    <3>2. PICK i \in 1 .. more[x] : e = <<x, i>>
      BY <3>1
    <3>3. CASE i <= list[x]
      <4>1. e \in {x} \X (1 .. list[x])
        BY <1>1, <3>2, <3>3
      <4> QED BY <4>1 DEF Entries
    <3>4. CASE ~(i <= list[x])
      <4>1. x \in F /\ i = list[x] + 1
        BY <1>1, <3>2, <3>4 DEF ListOf
      <4> QED BY <3>2, <4>1
    <3> QED BY <3>3, <3>4
  <2> QED BY <2>1
<1> HIDE DEF f, more
<1>4. IsFiniteSet(last) /\ Cardinality(last) <= Cardinality(F) /\ Cardinality(last) \in Nat
  BY <1>2, ImageFinite, FS_CardinalityType
<1> HIDE DEF last
<1>5. IsFiniteSet(Entries(list)) /\ Cardinality(Entries(list)) \in Nat
  BY EntriesFinite DEF Length
<1>6. /\ IsFiniteSet(Entries(list) \cup last)
      /\ Cardinality(Entries(list) \cup last) <= Cardinality(Entries(list)) + Cardinality(last)
  <2>1. /\ IsFiniteSet(Entries(list) \cup last)
        /\ Cardinality(Entries(list) \cup last)
             = Cardinality(Entries(list)) + Cardinality(last) - Cardinality(Entries(list) \cap last)
    BY <1>4, <1>5, FS_Union
  <2>2. Cardinality(Entries(list) \cap last) \in Nat
    BY <1>5, FS_Intersection, FS_CardinalityType
  <2> QED BY <1>4, <1>5, <2>1, <2>2
<1>7. /\ Cardinality(Entries(more)) <= Cardinality(Entries(list) \cup last)
      /\ Cardinality(Entries(more)) \in Nat /\ Cardinality(Entries(list) \cup last) \in Nat
  BY <1>1, <1>3, <1>6, FS_Subset, FS_CardinalityType
<1>8. Length(more) <= Length(list) + Cardinality(F)
  BY <1>2, <1>4, <1>5, <1>6, <1>7 DEF Length
<1> QED BY <1>1, <1>8 DEF more

\* A row that gets a primary and followers that are other nodes, at most RF - 1.
LEMMA PlacedRow ==
  ASSUME NEW p \in Node, NEW F \in SUBSET Node, p \notin F, Cardinality(F) < RF
  PROVE  LET r == [primary |-> p, followers |-> ListOf(F)] IN r \in Row /\ GoodRow(r)
<1>1. Length(ListOf(F)) \in Nat /\ Cardinality(F) \in Nat
  BY ListLengths, EntriesFinite, ShardsAssumption, FS_Subset, FS_CardinalityType
<1>2. Length(ListOf(F)) <= RF - 1
  BY <1>1, ListLengths, ShardsAssumption
<1> QED BY <1>2, ListLengths DEF Row, GoodRow

\* Steps around a ring of n places, fewer than n of them, end elsewhere.
LEMMA AroundRing ==
  ASSUME NEW n \in Nat \ {0}, NEW s \in Nat, NEW i \in 1 .. n - 1
  PROVE  /\ (s % n) + 1 \in 1 .. n /\ (((s % n) + i) % n) + 1 \in 1 .. n
         /\ ((s % n) + i) % n # s % n
<1> DEFINE a == s % n
<1>1. a \in 0 .. n - 1
  OBVIOUS
<1> HIDE DEF a
<1>2. CASE a + i < n
  <2>1. (a + i) % n = a + i
    BY <1>1, <1>2
  <2> QED BY <1>1, <1>2, <2>1 DEF a
<1>3. CASE ~(a + i < n)
  <2>1. (a + i) % n = a + i - n
    BY <1>1, <1>3
  <2> QED BY <1>1, <1>3, <2>1 DEF a
<1> QED BY <1>2, <1>3

\* Round robin over the nodes in any order: RF or all of them, each once.
LEMMA PlaceRow ==
  ASSUME NEW S \in SUBSET Node, S # {}, NEW q \in Orders(S), NEW s \in Shard
  PROVE  Place(q, s) \in Row /\ GoodRow(Place(q, s))
<1> DEFINE n == Cardinality(S)
           copies == IF RF < n THEN RF ELSE n
           f == [i \in 1 .. copies - 1 |-> q[(((s % n) + i) % n) + 1]]
           F == {f[i] : i \in 1 .. copies - 1}
<1>1. IsFiniteSet(S) /\ n \in Nat \ {0} /\ s \in Nat
  BY ShardsAssumption, FS_Subset, FS_CardinalityType, FS_EmptySet DEF Shard
<1>2. q \in [1 .. n -> S] /\ \A i, j \in 1 .. n : i # j => q[i] # q[j]
  BY DEF Orders
<1>3. DOMAIN q = 1 .. n /\ Cardinality(DOMAIN q) = n
  BY <1>1, <1>2, FS_Interval
<1>4. copies \in Nat \ {0} /\ copies <= n /\ copies <= RF
  BY <1>1, ShardsAssumption
<1>5. Place(q, s) = [primary |-> q[(s % n) + 1], followers |-> ListOf(F)]
  BY <1>3 DEF Place
<1>6. \A i \in 1 .. copies - 1 : /\ (((s % n) + i) % n) + 1 \in 1 .. n
                                /\ (((s % n) + i) % n) + 1 # (s % n) + 1
  <2>1. \A i \in 1 .. copies - 1 : i \in 1 .. n - 1
    BY <1>1, <1>4
  <2>2. \A i \in 1 .. n - 1 : /\ (((s % n) + i) % n) + 1 \in 1 .. n
                              /\ ((s % n) + i) % n # s % n
    BY <1>1, AroundRing
  <2>3. \A i \in 1 .. n - 1 : ((s % n) + i) % n \in Int /\ s % n \in Int
    BY <1>1
  <2> HIDE DEF n, copies
  <2> QED BY <2>1, <2>2, <2>3
<1>7. (s % n) + 1 \in 1 .. n
  BY <1>1
<1>8. F \in SUBSET Node /\ q[(s % n) + 1] \in Node /\ q[(s % n) + 1] \notin F
  BY <1>2, <1>6, <1>7
<1>9. Cardinality(F) < RF
  <2>1. IsFiniteSet(1 .. copies - 1) /\ Cardinality(1 .. copies - 1) = copies - 1
    <3> HIDE DEF copies
    <3>1. 1 \in Int /\ copies - 1 \in Int /\ (1 > copies - 1 <=> copies - 1 = 0)
      BY <1>4
    <3>2. Cardinality(1 .. copies - 1) = IF 1 > copies - 1 THEN 0 ELSE (copies - 1) - 1 + 1
      BY <3>1, FS_Interval
    <3> QED BY <1>4, <3>1, <3>2, FS_Interval
  <2> HIDE DEF f
  <2>2. IsFiniteSet(F) /\ Cardinality(F) <= Cardinality(1 .. copies - 1)
    BY <2>1, ImageFinite
  <2>3. Cardinality(F) \in Nat
    BY <2>2, FS_CardinalityType
  <2> HIDE DEF F, copies
  <2> QED BY <1>4, <2>1, <2>2, <2>3, ShardsAssumption
<1> HIDE DEF F, n
<1> QED BY <1>5, <1>8, <1>9, PlacedRow

\* The empty index and a task at rest are well typed.
LEMMA NoShardsType == NoShards \in [Shard -> Nat] /\ Idle \in TaskRec /\ Idle.pc = "idle"
<1>1. NoShards \in [Shard -> Nat] /\ 0 \in Shard
  BY ShardsAssumption DEF NoShards, Shard
<1> QED BY <1>1 DEF Idle, CallAt, TaskRec, TaskPc

\* Every step keeps the types and the rows that replication can work with.
LEMMA AssignStep ==
  ASSUME ShardsInv, NEW t \in Task, NEW s \in Shard, NEW p \in Node, NEW F \in SUBSET Node,
         assign_shard(t, s, p, F)
  PROVE  ShardsInv'
<1> DEFINE row == [primary |-> p, followers |-> ListOf(F)]
           r == CallAt("index", p, F, NoShards, s)
<1>1. row \in Row /\ GoodRow(row) /\ row.primary = p /\ Members(row.followers) = F
  BY PlacedRow, ListLengths DEF assign_shard
<1>2. /\ shards' = [shards EXCEPT ![s] = row] /\ task' = [task EXCEPT ![t] = r]
      /\ UNCHANGED <<node_shards, unindexed>> /\ ops' \in 0 .. MaxOps
      /\ ShardsFree /\ task[t].pc = "idle"
  <2>2. ops' \in 0 .. MaxOps
    BY ShardsAssumption DEF assign_shard, Call, ShardsInv, ShardsType
  <2> QED BY <2>2 DEF assign_shard, Call, At
<1>3. r \in TaskRec
  BY NoShardsType DEF TaskRec, TaskPc, CallAt
<1>4. r.pc = "index" /\ r.shard = s /\ r.healthy = F /\ r.node = p
  BY DEF CallAt
<1> HIDE DEF row, r
<1>5. ShardsType'
  BY <1>1, <1>2, <1>3 DEF ShardsInv, ShardsType
<1>6. \A x \in Shard : GoodRow(shards'[x])
  BY <1>1, <1>2 DEF ShardsInv, ShardsType
<1>7. Indexed'
  <2> SUFFICES ASSUME ~unindexed', NEW x \in Shard, NEW n \in Node, Holds(x, n)'
               PROVE  x \in Members(node_shards'[n]) \/ \E u \in Task : WillIndex(u, x, n)'
    BY DEF Indexed
  <2>1. CASE x = s
    <3>1. n \in F \cup {p}
      BY <1>1, <1>2, <2>1 DEF Holds, ShardsInv, ShardsType
    <3>2. task'[t] = r
      BY <1>2 DEF ShardsInv, ShardsType
    <3> QED BY <1>4, <2>1, <3>1, <3>2 DEF WillIndex
  <2>2. CASE x # s
    <3>1. Holds(x, n)
      BY <1>2, <2>2 DEF Holds, ShardsInv, ShardsType
    <3>2. CASE \E u \in Task : WillIndex(u, x, n)
      <4>1. PICK u \in Task : WillIndex(u, x, n)
        BY <3>2
      <4>2. u # t
        BY <1>2, <4>1 DEF WillIndex
      <4>3. task'[u] = task[u]
        BY <1>2, <4>2 DEF ShardsInv, ShardsType
      <4> QED BY <4>1, <4>3 DEF WillIndex
    <3> QED BY <1>2, <3>1, <3>2 DEF ShardsInv, Indexed
  <2> QED BY <2>1, <2>2
<1> QED BY <1>5, <1>6, <1>7 DEF ShardsInv

\* A step after which a task is still to rebuild the index keeps Indexed.
LEMMA BusyIndexed ==
  ASSUME NEW t \in Task, task'[t].pc \in {"loop", "place", "rebuild"}
  PROVE  Indexed'
BY DEF Indexed, WillIndex

\* The candidates for a follower list.
LEMMA FollowersChosen ==
  ASSUME NEW p, NEW H \in SUBSET Node, NEW c \in Nat, NEW F \in select_new_followers(p, H, c)
  PROVE  F \in SUBSET Node /\ F \subseteq H /\ p \notin F /\ Cardinality(F) <= c /\ Cardinality(F) \in Nat
<1> DEFINE others == H \ {p}
<1>1. IsFiniteSet(others) /\ Cardinality(others) \in Nat
  BY ShardsAssumption, FS_Subset, FS_CardinalityType
<1>2. F \in SUBSET others /\ Cardinality(F) = IF c < Cardinality(others) THEN c ELSE Cardinality(others)
  BY DEF select_new_followers
<1> HIDE DEF others
<1>3. Cardinality(F) <= c /\ Cardinality(F) \in Nat
  BY <1>1, <1>2
<1> QED BY <1>2, <1>3 DEF others

\* Writing a shard's replica list keeps the invariant.
LEMMA PlaceStep ==
  ASSUME ShardsInv, NEW t \in Task, place_shard(t)
  PROVE  ShardsInv'
<1> DEFINE s == task[t].shard
           H == task[t].healthy
           f == task[t].node
<1>1. /\ s \in Shard /\ H \in SUBSET Node /\ shards[s] \in Row /\ GoodRow(shards[s])
      /\ RF - 1 \in Nat /\ task[t] \in TaskRec
  BY ShardsAssumption DEF ShardsInv, ShardsType, TaskRec
<1>2. /\ UNCHANGED <<node_shards, unindexed, ops>>
      /\ task' \in [Task -> TaskRec] /\ task'[t].pc = "loop"
  <2>1. task' = [task EXCEPT ![t].pc = "loop"]
    BY DEF place_shard, Goto
  <2>2. [task[t] EXCEPT !.pc = "loop"] \in TaskRec /\ [task[t] EXCEPT !.pc = "loop"].pc = "loop"
    BY <1>1 DEF TaskRec, TaskPc
  <2>3. task' = [task EXCEPT ![t] = [task[t] EXCEPT !.pc = "loop"]]
    BY <2>1
  <2> QED BY <2>2, <2>3 DEF place_shard, ShardsInv, ShardsType
<1> HIDE DEF s, H, f
<1>3. \E row \in Row : GoodRow(row) /\ shards' = [shards EXCEPT ![s] = row]
  <2>1. CASE replace_primary(t)
    <3>0. PICK p \in select_new_primary(H) : \E F \in select_new_followers(p, H, RF - 1) :
             shards' = [shards EXCEPT ![s] = [primary |-> p, followers |-> ListOf(F)]]
      BY <2>1 DEF replace_primary, s, H
    <3>1. PICK F \in select_new_followers(p, H, RF - 1) :
             shards' = [shards EXCEPT ![s] = [primary |-> p, followers |-> ListOf(F)]]
      BY <3>0
    <3>2. p \in Node
      BY <1>1, <3>0 DEF select_new_primary
    <3>3. F \in SUBSET Node /\ p \notin F /\ Cardinality(F) <= RF - 1 /\ Cardinality(F) \in Nat
      BY <1>1, <3>1, FollowersChosen
    <3>4. Cardinality(F) < RF
      BY <3>3, ShardsAssumption
    <3> QED BY <3>1, <3>2, <3>3, <3>4, PlacedRow
  <2>2. CASE replace_follower(t)
    <3> DEFINE kept == Without(shards[s].followers, f)
               Some == IF Needed(kept) > 0 THEN select_new_followers(shards[s].primary, H, Needed(kept)) ELSE {{}}
    <3>1. /\ shards[s].followers \in [Node -> Nat] /\ shards[s].primary \in Node \cup {NoNode}
          /\ shards[s].primary \notin Members(shards[s].followers)
          /\ Length(shards[s].followers) <= RF - 1 /\ Length(shards[s].followers) \in Nat
      BY <1>1, EntriesFinite DEF Row, GoodRow
    <3>2. /\ kept \in [Node -> Nat] /\ Members(kept) = Members(shards[s].followers) \ {f}
          /\ Length(kept) <= Length(shards[s].followers) /\ Length(kept) \in Nat
      BY <3>1, WithoutLength, EntriesFinite
    <3>3. PICK F \in Some : shards' = [shards EXCEPT ![s].followers = [n \in Node |-> kept[n] + ListOf(F)[n]]]
      BY <2>2 DEF replace_follower, s, H, f
    <3> HIDE DEF kept
    <3>4. Needed(kept) \in Int /\ Needed(kept) = RF - 1 - Length(kept) /\ Length(kept) <= RF - 1
      BY <1>1, <3>1, <3>2 DEF Needed
    <3>5. /\ F \in SUBSET Node /\ shards[s].primary \notin F
          /\ Cardinality(F) <= Needed(kept) /\ Cardinality(F) \in Nat
      <4>1. CASE Needed(kept) > 0
        BY <1>1, <3>3, <3>4, <4>1, FollowersChosen
      <4>2. CASE ~(Needed(kept) > 0)
        <5>1. F = {} /\ Needed(kept) = 0
          <6>1. Needed(kept) = 0
            BY <1>1, <3>2, <3>4, <4>2
          <6>2. Some = {{}}
            BY <4>2
          <6> HIDE DEF Some
          <6> QED BY <3>3, <6>1, <6>2
        <5> QED BY <5>1, FS_EmptySet
      <4> QED BY <4>1, <4>2
    <3> DEFINE more == [n \in Node |-> kept[n] + ListOf(F)[n]]
               row == [shards[s] EXCEPT !.followers = more]
    <3>6. /\ more \in [Node -> Nat] /\ Members(more) = Members(kept) \cup F
          /\ Length(more) <= Length(kept) + Cardinality(F)
      BY <3>2, <3>5, AddedLength
    <3>7. shards' = [shards EXCEPT ![s] = row]
      BY <3>3
    <3> HIDE DEF more
    <3>8. row = [primary |-> shards[s].primary, followers |-> more]
      BY <1>1 DEF Row
    <3>9. Length(more) <= RF - 1
      BY <1>1, <3>2, <3>4, <3>5, <3>6, EntriesFinite
    <3>10. row \in Row /\ GoodRow(row)
      BY <3>1, <3>2, <3>5, <3>6, <3>8, <3>9 DEF Row, GoodRow
    <3> QED BY <3>7, <3>10
  <2> QED BY <2>1, <2>2 DEF place_shard
<1>4. shards' \in [Shard -> Row] /\ \A x \in Shard : GoodRow(shards'[x])
  BY <1>1, <1>3 DEF ShardsInv, ShardsType
<1>5. Indexed'
  BY <1>2, BusyIndexed
<1> QED BY <1>2, <1>4, <1>5 DEF ShardsInv, ShardsType

\* A step that leaves the shards and the index alone and changes what one idle or
\* looping task is at.
LEMMA TaskMoves ==
  ASSUME ShardsInv, NEW t \in Task, NEW r \in TaskRec, task' = [task EXCEPT ![t] = r],
         UNCHANGED <<shards, node_shards, unindexed>>, ops' \in 0 .. MaxOps,
         r.pc \in {"loop", "place"}
  PROVE  ShardsInv'
<1>1. task' \in [Task -> TaskRec] /\ task'[t].pc \in {"loop", "place", "rebuild"}
  BY DEF ShardsInv, ShardsType
<1>2. Indexed'
  BY <1>1, BusyIndexed
<1> QED BY <1>1, <1>2 DEF ShardsInv, ShardsType

\* A failover, when it begins and for each shard it takes up, keeps the
\* invariant.
LEMMA FailureSteps ==
  ASSUME ShardsInv, NEW t \in Task,
         \/ \E n \in Node, H \in SUBSET Node : handle_node_failure(t, n, H)
         \/ \E s \in Shard : take_shard(t, s)
  PROVE  ShardsInv'
<1>1. ASSUME NEW n \in Node, NEW H \in SUBSET Node, handle_node_failure(t, n, H) PROVE ShardsInv'
  <2> DEFINE r == CallAt("loop", n, H, node_shards[n], 0)
  <2>1. task' = [task EXCEPT ![t] = r]
    BY <1>1 DEF handle_node_failure
  <2>2. r \in TaskRec /\ r.pc = "loop"
    BY ShardsAssumption DEF CallAt, TaskRec, TaskPc, ShardsInv, ShardsType, Shard
  <2>3. ops' \in 0 .. MaxOps /\ UNCHANGED <<shards, node_shards, unindexed>>
    BY <1>1, ShardsAssumption DEF handle_node_failure, Call, ShardsInv, ShardsType
  <2> HIDE DEF r
  <2> QED BY <2>1, <2>2, <2>3, TaskMoves
<1>2. ASSUME NEW s \in Shard, take_shard(t, s) PROVE ShardsInv'
  <2> DEFINE left == [task[t].left EXCEPT ![s] = @ - 1]
             r == CallAt("place", task[t].node, task[t].healthy, left, s)
  <2>1. task' = [task EXCEPT ![t] = r]
    BY <1>2 DEF take_shard
  <2>2. task[t] \in TaskRec /\ task[t].left \in [Shard -> Nat] /\ task[t].left[s] > 0
    BY <1>2 DEF take_shard, Members, ShardsInv, ShardsType, TaskRec
  <2>3. left \in [Shard -> Nat]
    BY <2>2
  <2> HIDE DEF left
  <2>4. r \in TaskRec /\ r.pc = "place"
    BY <2>2, <2>3 DEF TaskRec, TaskPc, CallAt
  <2>5. ops' \in 0 .. MaxOps /\ UNCHANGED <<shards, node_shards, unindexed>>
    BY <1>2 DEF take_shard, ShardsInv, ShardsType
  <2> HIDE DEF r
  <2> QED BY <2>1, <2>4, <2>5, TaskMoves
<1> QED BY <1>1, <1>2

\* Entering a shard in the node's index keeps the invariant.
LEMMA IndexStep ==
  ASSUME ShardsInv, NEW t \in Task, assign_index(t)
  PROVE  ShardsInv'
<1> DEFINE s == task[t].shard
           N == task[t].healthy \cup {task[t].node}
<1>1. /\ node_shards' = [n \in Node |-> [node_shards[n] EXCEPT ![s] = IF n \in N THEN @ + 1 ELSE @]]
      /\ task' = [task EXCEPT ![t] = Idle] /\ task[t].pc = "index"
      /\ UNCHANGED <<shards, ops, unindexed>>
  BY DEF assign_index, Finish, At
<1>2. s \in Shard
  BY DEF ShardsInv, ShardsType, TaskRec
<1> HIDE DEF s, N
<1>3. /\ node_shards' \in [Node -> [Shard -> Nat]]
      /\ \A n \in Node, x \in Shard : node_shards'[n][x] =
           IF x = s /\ n \in N THEN node_shards[n][x] + 1 ELSE node_shards[n][x]
  <2>1. \A n \in Node : node_shards[n] \in [Shard -> Nat]
    BY DEF ShardsInv, ShardsType
  <2>2. ASSUME NEW n \in Node
        PROVE  /\ node_shards'[n] \in [Shard -> Nat]
               /\ \A x \in Shard : node_shards'[n][x] =
                    IF x = s /\ n \in N THEN node_shards[n][x] + 1 ELSE node_shards[n][x]
    <3>1. CASE n \in N
      BY <1>1, <1>2, <2>1, <3>1
    <3>2. CASE n \notin N
      BY <1>1, <1>2, <2>1, <3>2
    <3> QED BY <3>1, <3>2
  <2>3. node_shards' = [n \in Node |-> node_shards'[n]]
    BY <1>1
  <2> QED BY <2>2, <2>3
<1>4. \A n \in Node, x \in Shard : /\ x \in Members(node_shards[n]) => x \in Members(node_shards'[n])
                                   /\ x = s /\ n \in N => x \in Members(node_shards'[n])
  <2>1. \A n \in Node, x \in Shard :
          node_shards[n][x] \in Nat /\ DOMAIN node_shards[n] = Shard /\ DOMAIN node_shards'[n] = Shard
    BY <1>3 DEF ShardsInv, ShardsType
  <2> QED BY <1>3, <2>1 DEF Members
<1>5. Indexed'
  <2> SUFFICES ASSUME ~unindexed, NEW x \in Shard, NEW n \in Node, Holds(x, n)
               PROVE  x \in Members(node_shards'[n]) \/ \E u \in Task : WillIndex(u, x, n)'
    BY <1>1 DEF Indexed, Holds
  <2>1. CASE \E u \in Task : WillIndex(u, x, n)
    <3>1. PICK u \in Task : WillIndex(u, x, n)
      BY <2>1
    <3>2. CASE u = t
      <4>1. x = s /\ n \in N
        BY <1>1, <3>1, <3>2 DEF WillIndex, s, N
      <4> QED BY <1>4, <4>1
    <3>3. CASE u # t
      <4>1. task'[u] = task[u]
        BY <1>1, <3>3 DEF ShardsInv, ShardsType
      <4> QED BY <3>1, <4>1 DEF WillIndex
    <3> QED BY <3>2, <3>3
  <2>2. CASE x \in Members(node_shards[n])
    BY <1>4, <2>2
  <2> QED BY <2>1, <2>2 DEF ShardsInv, Indexed
<1>6. ShardsType'
  BY <1>1, <1>3, NoShardsType DEF ShardsInv, ShardsType
<1> QED BY <1>1, <1>5, <1>6 DEF ShardsInv

\* Clearing the index and filling it again keep the invariant.
LEMMA RebuildSteps ==
  ASSUME ShardsInv, NEW t \in Task, clear_index(t) \/ rebuild_index(t)
  PROVE  ShardsInv'
<1>1. CASE clear_index(t)
  <2>1. /\ node_shards' = [n \in Node |-> NoShards] /\ UNCHANGED <<shards, ops, unindexed>>
        /\ task' = [task EXCEPT ![t].pc = "rebuild"]
    BY <1>1 DEF clear_index, Goto
  <2>2. /\ [task[t] EXCEPT !.pc = "rebuild"] \in TaskRec
        /\ [task[t] EXCEPT !.pc = "rebuild"].pc = "rebuild"
    BY DEF ShardsInv, ShardsType, TaskRec, TaskPc
  <2>3. task' = [task EXCEPT ![t] = [task[t] EXCEPT !.pc = "rebuild"]]
    BY <2>1
  <2>4. task' \in [Task -> TaskRec] /\ task'[t].pc = "rebuild"
    BY <2>2, <2>3 DEF ShardsInv, ShardsType
  <2>5. Indexed'
    BY <2>4, BusyIndexed
  <2> QED BY <2>1, <2>4, <2>5, NoShardsType DEF ShardsInv, ShardsType
<1>2. CASE rebuild_index(t)
  <2>1. /\ node_shards' = [n \in Node |-> [s \in Shard |-> shards[s].followers[n] + ListOf({shards[s].primary})[n]]]
        /\ UNCHANGED <<shards, ops>> /\ unindexed' = FALSE /\ task' = [task EXCEPT ![t] = Idle]
    BY <1>2 DEF rebuild_index, Finish
  <2>2. \A s \in Shard : shards[s].followers \in [Node -> Nat]
    BY DEF ShardsInv, ShardsType, Row
  <2>3. \A n \in Node, s \in Shard : /\ ListOf({shards[s].primary})[n] \in {0, 1}
                                     /\ n = shards[s].primary => ListOf({shards[s].primary})[n] = 1
    BY DEF ListOf
  <2>4. \A n \in Node, s \in Shard : /\ node_shards'[n][s] \in Nat
                                     /\ Holds(s, n) => node_shards'[n][s] > 0
    BY <2>1, <2>2, <2>3 DEF Holds, Members
  <2>5. node_shards' \in [Node -> [Shard -> Nat]]
    BY <2>1, <2>4
  <2>6. Indexed'
    <3>1. \A s \in Shard, n \in Node : Holds(s, n)' => s \in Members(node_shards'[n])
      BY <2>1, <2>4, <2>5 DEF Holds, Members
    <3> QED BY <3>1 DEF Indexed
  <2> QED BY <2>1, <2>5, <2>6, NoShardsType DEF ShardsInv, ShardsType
<1> QED BY <1>1, <1>2

\* A rebalancing keeps the invariant: it deals out lists of the right length.
LEMMA RebalanceStep ==
  ASSUME ShardsInv, NEW t \in Task, NEW S \in SUBSET Node, rebalance_shards(t, S)
  PROVE  ShardsInv'
<1>1. PICK q \in Orders(S) : shards' = [s \in Shard |-> Place(q, s)]
  BY DEF rebalance_shards
<1>2. \A s \in Shard : Place(q, s) \in Row /\ GoodRow(Place(q, s))
  BY <1>1, PlaceRow DEF rebalance_shards
<1>3. UNCHANGED <<node_shards, task>> /\ unindexed' = TRUE /\ ops' \in 0 .. MaxOps
  BY ShardsAssumption DEF rebalance_shards, Call, ShardsInv, ShardsType
<1>4. shards' \in [Shard -> Row] /\ \A s \in Shard : GoodRow(shards'[s])
  BY <1>1, <1>2
<1> QED BY <1>3, <1>4 DEF ShardsInv, ShardsType, Indexed

\* Every step keeps the invariant.
LEMMA ShardsInvNext == ShardsInv /\ [Next]_vars => ShardsInv'
<1> SUFFICES ASSUME ShardsInv, [Next]_vars PROVE ShardsInv'
  OBVIOUS
<1>1. ASSUME UNCHANGED <<shards, node_shards, task, unindexed>>, ops' \in 0 .. MaxOps PROVE ShardsInv'
  BY <1>1 DEF ShardsInv, ShardsType, Indexed, Holds, WillIndex
<1>2. CASE UNCHANGED vars
  BY <1>1, <1>2 DEF vars, ShardsInv, ShardsType
<1>3. ASSUME NEW t \in Task, NEW n \in Node, NEW H \in SUBSET Node, handle_node_failure_nothing(t, n, H)
      PROVE  ShardsInv'
  <2>1. ops' \in 0 .. MaxOps
    BY <1>3, ShardsAssumption DEF handle_node_failure_nothing, Call, ShardsInv, ShardsType
  <2> QED BY <1>1, <1>3, <2>1 DEF handle_node_failure_nothing
<1> QED BY <1>2, <1>3, AssignStep, RebalanceStep, FailureSteps, IndexStep, PlaceStep, RebuildSteps
     DEF Next, Proceed

\* The invariant holds before anything is placed.
LEMMA ShardsInvInit == Init => ShardsInv
<1> SUFFICES ASSUME Init PROVE ShardsInv
  OBVIOUS
<1>1. NoList = ListOf({})
  BY DEF NoList, ListOf
<1>2. NoList \in [Node -> Nat] /\ Members(NoList) = {} /\ Length(NoList) <= RF - 1
  <2>1. Length(ListOf({})) <= 0 /\ Length(ListOf({})) \in Nat
    BY ListLengths, EntriesFinite, FS_EmptySet
  <2> QED BY <1>1, <2>1, ListLengths, ShardsAssumption
<1>3. \A s \in Shard : /\ shards[s] \in Row /\ GoodRow(shards[s])
                       /\ shards[s].primary = NoNode /\ Members(shards[s].followers) = {}
  BY <1>2 DEF Init, Row, GoodRow
<1>4. ShardsType
  <2>1. shards = [s \in Shard |-> shards[s]]
    BY DEF Init
  <2>2. node_shards \in [Node -> [Shard -> Nat]] /\ task \in [Task -> TaskRec]
    BY NoShardsType DEF Init
  <2>3. ops \in 0 .. MaxOps
    BY ShardsAssumption DEF Init
  <2>4. unindexed \in BOOLEAN
    BY DEF Init
  <2> QED BY <1>3, <2>1, <2>2, <2>3, <2>4 DEF ShardsType
<1>5. Indexed
  <2>1. \A s \in Shard, n \in Node : ~Holds(s, n)
    BY <1>3, ShardsAssumption DEF Holds
  <2> QED BY <2>1 DEF Indexed
<1> QED BY <1>3, <1>4, <1>5 DEF ShardsInv

\* Whichever assignments, rebalances and failovers overlap, no shard has its primary
\* among its followers or more followers than RF - 1 (assign_shard, rebalance_shards,
\* handle_node_failure).
THEOREM PlacementSoundHolds == Spec => []PlacementSound
<1>1. ShardsInv => PlacementSound
  BY DEF ShardsInv, ShardsType, Row, GoodRow, TaskRec, TaskPc,
         PlacementSound, TypeOK, PrimaryNotFollower, FollowerBound
<1> QED BY <1>1, ShardsInvInit, ShardsInvNext, PTL DEF Spec

\* When no call is in progress, the index has every copy, unless a rebalance has run
\* since it was built (assign_shard, handle_node_failure and its rebuilding of the
\* index, rebalance_shards).
THEOREM IndexCompleteHolds == Spec => []IndexComplete
<1>1. ShardsInv => IndexComplete
  BY DEF ShardsInv, Indexed, Holds, WillIndex, IndexComplete, AllIdle
<1> QED BY <1>1, ShardsInvInit, ShardsInvNext, PTL DEF Spec

-----------------------------------------------------------------------------
(* Raft.  What a node holds depends on what is under way: a batch of        *)
(* entries continues the log it was cut from, and a granted vote is the one *)
(* the voter has recorded, unless its term has passed.                      *)

Entry == [index : Nat, term : Nat, by : RNodes]

\* A log of terms up to the given one.
LogOf(log, term) ==
  /\ log \in Seq(Entry)
  /\ \A i \in 1 .. Len(log) :
       /\ log[i].index = i /\ log[i].term <= term
       /\ i > 1 => log[i - 1].term <= log[i].term

\* Entries behind index prev, whose own term was prev_term.
Batch(entries, prev, prev_term, term) ==
  /\ entries \in Seq(Entry)
  /\ \A i \in 1 .. Len(entries) :
       /\ entries[i].index = prev + i /\ entries[i].term <= term
       /\ i > 1 => entries[i - 1].term <= entries[i].term
       /\ i = 1 /\ prev > 0 => prev_term <= entries[1].term

VoteRequest == [type : {"RequestVote"}, to : RNodes, from : RNodes, term : Nat,
                last_index : Nat, last_term : Nat]
VoteAnswer == [type : {"RequestVoteResponse"}, to : RNodes, from : RNodes, term : Nat, granted : BOOLEAN]
AppendRequest == [type : {"AppendEntries"}, to : RNodes, from : RNodes, term : Nat, prev : Nat,
                  prev_term : Nat, entries : Seq(Entry), commit : {0}]
AppendAnswer == [type : {"AppendEntriesResponse"}, to : RNodes, from : RNodes, term : Nat,
                 success : BOOLEAN, match : Nat]

RaftType ==
  /\ rstate \in [RNodes -> {"Follower", "Candidate", "Leader"}]
  /\ rterm \in [RNodes -> Nat]
  /\ voted_for \in [RNodes -> RNodes \cup {NoVote}]
  /\ rcommit = [n \in RNodes |-> 0]
  /\ match_index = [n \in RNodes |-> [p \in Peers(n) |-> 0]]

Logs == rlog = [n \in RNodes |-> rlog[n]] /\ \A n \in RNodes : LogOf(rlog[n], rterm[n])
NextIndexes ==
  /\ next_index = [n \in RNodes |-> next_index[n]]
  /\ \A n \in RNodes : next_index[n] \in [Peers(n) -> Nat \ {0}]

Message(m) ==
  /\ m \in VoteRequest \cup VoteAnswer \cup AppendRequest \cup AppendAnswer
  /\ m.to # m.from
  /\ m \in AppendRequest => Batch(m.entries, m.prev, m.prev_term, m.term)

\* A granted vote is recorded by the voter until its term has passed.
VoteKept(m) ==
  m.type = "RequestVoteResponse" /\ m.granted =>
    rterm[m.from] > m.term \/ (rterm[m.from] = m.term /\ voted_for[m.from] = m.to)

RaftInv ==
  /\ RaftType /\ Logs /\ NextIndexes
  /\ \A m \in rnet : Message(m) /\ VoteKept(m)

\* What every handler does to terms and votes.
Moves ==
  /\ rstate' \in [RNodes -> {"Follower", "Candidate", "Leader"}]
  /\ rterm' \in [RNodes -> Nat]
  /\ voted_for' \in [RNodes -> RNodes \cup {NoVote}]
  /\ \A n \in RNodes :
       /\ rterm'[n] >= rterm[n]
       /\ rterm'[n] = rterm[n] => voted_for'[n] = voted_for[n] \/ voted_for[n] = NoVote

\* What every kind of message carries.
LEMMA MessageFields ==
  ASSUME NEW m, Message(m)
  PROVE  m.to \in RNodes /\ m.from \in RNodes /\ m.term \in Nat /\ m.to # m.from
BY DEF Message, VoteRequest, VoteAnswer, AppendRequest, AppendAnswer

\* Recorded votes stay recorded.
LEMMA VotesKept ==
  ASSUME RaftInv, Moves, NEW m \in rnet
  PROVE  VoteKept(m)'
<1>1. m.from \in RNodes /\ m.to \in RNodes /\ m.term \in Nat /\ VoteKept(m)
  BY MessageFields DEF RaftInv
<1>2. m.to # NoVote
  BY <1>1, RaftAssumption
<1>3. rterm[m.from] \in Nat /\ rterm'[m.from] \in Nat /\ rterm'[m.from] >= rterm[m.from]
  BY <1>1 DEF RaftInv, RaftType, Moves
<1> SUFFICES ASSUME m.type = "RequestVoteResponse", m.granted
             PROVE  rterm'[m.from] > m.term \/ (rterm'[m.from] = m.term /\ voted_for'[m.from] = m.to)
  BY DEF VoteKept
<1>4. CASE rterm[m.from] > m.term
  BY <1>1, <1>3, <1>4
<1>5. CASE rterm[m.from] = m.term /\ voted_for[m.from] = m.to
  <2>1. CASE rterm'[m.from] = rterm[m.from]
    BY <1>1, <1>2, <1>5, <2>1 DEF Moves
  <2>2. CASE rterm'[m.from] # rterm[m.from]
    BY <1>1, <1>3, <1>5, <2>2
  <2> QED BY <2>1, <2>2
<1> QED BY <1>1, <1>4, <1>5 DEF VoteKept

\* Logs that stay as they are stay well formed while terms grow.
LEMMA LogGrows ==
  ASSUME NEW log, NEW a \in Nat, NEW b \in Nat, LogOf(log, a), a <= b
  PROVE  LogOf(log, b)
<1>1. \A i \in 1 .. Len(log) : log[i] \in Entry
  BY DEF LogOf
<1>2. \A i \in 1 .. Len(log) : log[i].term \in Nat
  BY <1>1 DEF Entry
<1> QED BY <1>2 DEF LogOf

\* A handler that touches no log and sends only new messages of the right form.
LEMMA QuietStep ==
  ASSUME RaftInv, Moves, UNCHANGED <<rlog, rcommit, match_index>>, NextIndexes',
         \A m \in rnet' \ rnet : Message(m) /\ VoteKept(m)'
  PROVE  RaftInv'
<1>1. Logs'
  <2>1. \A n \in RNodes : rterm[n] \in Nat /\ rterm'[n] \in Nat /\ rterm[n] <= rterm'[n]
    BY DEF Moves, RaftInv, RaftType
  <2> QED BY <2>1, LogGrows DEF RaftInv, Logs
<1>2. RaftType'
  BY DEF RaftInv, RaftType, Moves
<1>3. \A m \in rnet' : Message(m) /\ VoteKept(m)'
  BY VotesKept DEF RaftInv
<1> QED BY <1>1, <1>2, <1>3 DEF RaftInv, Message

\* A node that hears of a later term takes it over; terms only grow.
LEMMA StepDownMoves ==
  ASSUME RaftInv, NEW n \in RNodes, NEW term \in Nat, StepDown(n, term)
  PROVE  /\ Moves /\ rterm'[n] >= term
         /\ rterm'[n] = IF term > rterm[n] THEN term ELSE rterm[n]
<1>1. CASE term > rterm[n]
  <2>1. /\ rterm' = [rterm EXCEPT ![n] = term]
        /\ rstate' = [rstate EXCEPT ![n] = "Follower"]
        /\ voted_for' = [voted_for EXCEPT ![n] = NoVote]
    BY <1>1 DEF StepDown
  <2> QED BY <1>1, <2>1 DEF Moves, RaftInv, RaftType
<1>2. CASE ~(term > rterm[n])
  BY <1>2 DEF StepDown, Moves, RaftInv, RaftType
<1> QED BY <1>1, <1>2

\* A step that changes neither terms nor votes moves no node.
LEMMA SameTerms ==
  ASSUME RaftInv, UNCHANGED <<rterm, voted_for>>, rstate' \in [RNodes -> {"Follower", "Candidate", "Leader"}]
  PROVE  Moves
BY DEF RaftInv, RaftType, Moves

\* The term of the last entry is a number, 0 for an empty log.
LEMMA LastTermNat ==
  ASSUME NEW log \in Seq(Entry)
  PROVE  LastTerm(log) \in Nat
<1>1. CASE log = <<>>
  BY <1>1 DEF LastTerm
<1>2. CASE log # <<>>
  <2>1. log[Len(log)] \in Entry
    BY <1>2
  <2> QED BY <1>2, <2>1 DEF LastTerm, Last, Entry
<1> QED BY <1>1, <1>2

\* An election timeout keeps the invariant.
LEMMA TimeoutStep ==
  ASSUME RaftInv, NEW n \in RNodes, handle_election_timeout(n)
  PROVE  RaftInv'
<1>1. /\ rterm' = [rterm EXCEPT ![n] = @ + 1]
      /\ voted_for' = [voted_for EXCEPT ![n] = n]
      /\ rstate' = [rstate EXCEPT ![n] = "Candidate"]
      /\ rnet' = rnet \cup request_votes(n, rterm[n] + 1)
      /\ UNCHANGED <<rlog, rcommit, next_index, match_index>>
  BY DEF handle_election_timeout, Send
<1>2. Moves
  BY <1>1 DEF Moves, RaftInv, RaftType
<1>3. NextIndexes'
  BY <1>1 DEF RaftInv, NextIndexes
<1>4. Len(rlog[n]) \in Nat /\ LastTerm(rlog[n]) \in Nat /\ rterm[n] + 1 \in Nat
  BY LastTermNat DEF RaftInv, RaftType, Logs, LogOf
<1>5. \A m \in request_votes(n, rterm[n] + 1) : m \in VoteRequest /\ m.to # m.from
  BY <1>4 DEF request_votes, VoteRequest, Peers
<1>6. \A m \in request_votes(n, rterm[n] + 1) : Message(m) /\ VoteKept(m)'
  BY <1>5 DEF Message, VoteKept, VoteRequest, AppendRequest
<1> QED BY <1>1, <1>2, <1>3, <1>6, QuietStep

\* Handling RequestVote keeps the invariant: a vote is given once per term.
LEMMA VoteStep ==
  ASSUME RaftInv, NEW m \in rnet, m.type = "RequestVote", handle_request_vote(m)
  PROVE  RaftInv'
<1> DEFINE n == m.to
           grant == (m.term > rterm[n] \/ voted_for[n] \in {NoVote, m.from}) /\ UpToDate(m, rlog[n])
<1>1. n \in RNodes /\ m.from \in RNodes /\ m.term \in Nat /\ n # m.from
  BY MessageFields DEF RaftInv
<1>2. UNCHANGED <<rlog, rcommit, next_index, match_index>>
  BY DEF handle_request_vote
<1>3. NextIndexes'
  BY <1>2 DEF RaftInv, NextIndexes
<1>4. rterm[n] \in Nat
  BY <1>1 DEF RaftInv, RaftType
<1>5. ASSUME NEW term \in Nat, NEW g \in BOOLEAN
      PROVE  /\ Message(VoteReply(m, term, g)) /\ VoteReply(m, term, g).granted = g
             /\ VoteReply(m, term, g).from = n /\ VoteReply(m, term, g).to = m.from
             /\ VoteReply(m, term, g).term = term
  <2>1. VoteReply(m, term, g) \in VoteAnswer
    BY <1>1 DEF VoteReply, VoteAnswer
  <2> QED BY <1>1, <2>1 DEF VoteReply, VoteAnswer, AppendRequest, Message
<1>6. CASE m.term < rterm[n]
  <2>1. UNCHANGED <<rterm, rstate, voted_for>> /\ rnet' = rnet \cup {VoteReply(m, rterm[n], FALSE)}
    BY <1>6 DEF handle_request_vote, Send
  <2>2. Moves
    BY <2>1, SameTerms DEF RaftInv, RaftType
  <2>3. ~VoteReply(m, rterm[n], FALSE).granted /\ Message(VoteReply(m, rterm[n], FALSE))
    BY <1>4, <1>5
  <2>4. VoteKept(VoteReply(m, rterm[n], FALSE))'
    BY <1>5, <2>3 DEF VoteKept, VoteReply
  <2> QED BY <1>2, <1>3, <2>1, <2>2, <2>3, <2>4, QuietStep
<1>7. CASE ~(m.term < rterm[n]) /\ grant
  <2>1. /\ rterm' = [rterm EXCEPT ![n] = m.term]
        /\ rstate' = [rstate EXCEPT ![n] = IF m.term > rterm[n] THEN "Follower" ELSE @]
        /\ voted_for' = [voted_for EXCEPT ![n] = m.from]
        /\ rnet' = rnet \cup {VoteReply(m, m.term, TRUE)}
    BY <1>7 DEF handle_request_vote, Send
  <2>2. Moves
    <3>1. /\ rterm' \in [RNodes -> Nat] /\ voted_for' \in [RNodes -> RNodes \cup {NoVote}]
          /\ rterm'[n] = m.term /\ voted_for'[n] = m.from
          /\ \A x \in RNodes : x # n => rterm'[x] = rterm[x] /\ voted_for'[x] = voted_for[x]
      BY <1>1, <2>1 DEF RaftInv, RaftType
    <3>2. rstate' \in [RNodes -> {"Follower", "Candidate", "Leader"}]
      BY <1>1, <2>1 DEF RaftInv, RaftType
    <3>3. rterm'[n] >= rterm[n] /\ (rterm'[n] = rterm[n] => voted_for'[n] = voted_for[n] \/ voted_for[n] = NoVote)
      BY <1>1, <1>4, <1>7, <3>1
    <3>4. \A x \in RNodes : rterm[x] \in Nat
      BY DEF RaftInv, RaftType
    <3> HIDE DEF n, grant
    <3> QED BY <3>1, <3>2, <3>3, <3>4 DEF Moves
  <2>3. rterm'[n] = m.term /\ voted_for'[n] = m.from
    BY <1>1, <2>1 DEF RaftInv, RaftType
  <2>4. Message(VoteReply(m, m.term, TRUE)) /\ VoteKept(VoteReply(m, m.term, TRUE))'
    BY <1>1, <1>5, <2>3 DEF VoteKept
  <2> QED BY <1>2, <1>3, <2>1, <2>2, <2>4, QuietStep
<1>8. CASE ~(m.term < rterm[n]) /\ ~grant
  <2>1. StepDown(n, m.term) /\ rnet' = rnet
    BY <1>8 DEF handle_request_vote
  <2> QED BY <1>1, <1>2, <1>3, <2>1, StepDownMoves, QuietStep
<1> QED BY <1>6, <1>7, <1>8

\* Handling a vote keeps the invariant: a new leader's next indexes are in order.
LEMMA ElectedStep ==
  ASSUME RaftInv, NEW m \in rnet, m.type = "RequestVoteResponse", handle_request_vote_response(m)
  PROVE  RaftInv'
<1> DEFINE n == m.to
           elected == m.term <= rterm[n] /\ m.granted /\ rstate[n] = "Candidate"
<1>1. n \in RNodes /\ m.term \in Nat
  BY MessageFields DEF RaftInv
<1>2. UNCHANGED <<rlog, rcommit, rnet>>
  BY DEF handle_request_vote_response
<1>3. CASE elected
  <2>1. /\ rstate' = [rstate EXCEPT ![n] = "Leader"]
        /\ next_index' = [next_index EXCEPT ![n] = [p \in Peers(n) |-> Len(rlog[n]) + 1]]
        /\ match_index' = [match_index EXCEPT ![n] = [p \in Peers(n) |-> 0]]
        /\ UNCHANGED <<rterm, voted_for>>
    BY <1>3 DEF handle_request_vote_response
  <2>2. Moves
    BY <1>1, <2>1, SameTerms DEF RaftInv, RaftType
  <2>3. match_index' = match_index
    BY <1>1, <2>1 DEF RaftInv, RaftType
  <2>4. Len(rlog[n]) + 1 \in Nat \ {0}
    BY <1>1 DEF RaftInv, Logs, LogOf
  <2>5. NextIndexes'
    <3> HIDE DEF n
    <3>1. [p \in Peers(n) |-> Len(rlog[n]) + 1] \in [Peers(n) -> Nat \ {0}]
      BY <2>4
    <3>2. /\ next_index'[n] = [p \in Peers(n) |-> Len(rlog[n]) + 1]
          /\ \A x \in RNodes : x # n => next_index'[x] = next_index[x]
          /\ next_index' = [x \in RNodes |-> next_index'[x]]
      BY <1>1, <2>1 DEF RaftInv, NextIndexes
    <3> QED BY <3>1, <3>2 DEF RaftInv, NextIndexes
  <2> QED BY <1>2, <2>2, <2>3, <2>5, QuietStep
<1>4. CASE ~elected
  <2>1. StepDown(n, m.term) /\ UNCHANGED <<next_index, match_index>>
    BY <1>4 DEF handle_request_vote_response
  <2>2. NextIndexes'
    BY <2>1 DEF RaftInv, NextIndexes
  <2> QED BY <1>1, <1>2, <2>1, <2>2, StepDownMoves, QuietStep
<1> QED BY <1>3, <1>4

\* With a peer, only index 0 is on a majority: no match_index is ever raised.
LEMMA NothingOnMajority ==
  ASSUME RaftInv, NEW n \in RNodes, NEW p \in RNodes, p # n
  PROVE  MajorityIndex(n) = 0
<1> DEFINE Reached(v) == {x \in RNodes : IndexAt(n, x) >= v}
           S == {v \in {IndexAt(n, x) : x \in RNodes} : Cardinality(Reached(v)) >= majority}
<1>1. /\ \A x \in RNodes : x # n => IndexAt(n, x) = 0
      /\ IndexAt(n, n) = Len(rlog[n]) /\ Len(rlog[n]) \in Nat
  BY DEF IndexAt, RaftInv, RaftType, Peers, Logs, LogOf
<1>2. Cardinality(RNodes) \in Nat /\ Cardinality(RNodes) >= 2
  <2>1. {n, p} \in SUBSET RNodes /\ IsFiniteSet({n}) /\ Cardinality({n}) = 1 /\ {n, p} = {n} \cup {p}
    BY FS_Singleton
  <2>2. Cardinality({n, p}) = 2
    <3>1. p \notin {n}
      OBVIOUS
    <3>2. Cardinality({n} \cup {p}) = Cardinality({n}) + 1
      BY <2>1, <3>1, FS_AddElement
    <3> QED BY <2>1, <3>2
  <2> QED BY <2>1, <2>2, RaftAssumption, FS_Subset, FS_CardinalityType
<1>3. majority \in Nat /\ majority >= 2 /\ majority <= Cardinality(RNodes)
  BY <1>2 DEF majority
<1>4. 0 \in S
  <2>1. Reached(0) = RNodes
    BY <1>1
  <2>2. IndexAt(n, p) = 0
    BY <1>1
  <2> QED BY <1>3, <2>1, <2>2
<1>5. ASSUME NEW v \in S PROVE v = 0
  <2>1. v \in Nat
    BY <1>1
  <2>2. ASSUME v > 0 PROVE FALSE
    <3>1. Reached(v) \in SUBSET {n}
      BY <1>1, <2>1, <2>2
    <3>2. Cardinality(Reached(v)) <= 1 /\ Cardinality(Reached(v)) \in Nat
      <4>1. IsFiniteSet({n}) /\ Cardinality({n}) = 1
        BY FS_Singleton
      <4> HIDE DEF Reached, S
      <4> QED BY <3>1, <4>1, FS_Subset, FS_CardinalityType
    <3>3. Cardinality(Reached(v)) >= majority
      BY <1>5
    <3> HIDE DEF Reached, S
    <3> QED BY <1>3, <3>2, <3>3
  <2> QED BY <2>1, <2>2
<1>6. S = {0}
  BY <1>4, <1>5
<1>7. MajorityIndex(n) = Max(S)
  BY DEF MajorityIndex
<1> HIDE DEF S
<1>8. Max({0}) = 0
  BY DEF Max
<1> QED BY <1>6, <1>7, <1>8

\* Handling the answer to AppendEntries keeps the invariant.
LEMMA AnswerStep ==
  ASSUME RaftInv, NEW m \in rnet, handle_append_entries_response(m)
  PROVE  RaftInv'
<1>1. m.to \in RNodes /\ m.from \in RNodes /\ m.from # m.to /\ m.term \in Nat
  BY MessageFields DEF RaftInv
<1>2. MajorityIndex(m.to) = 0 /\ rcommit[m.to] = 0
  BY <1>1, NothingOnMajority DEF RaftInv, RaftType
<1>3. rcommit' = rcommit
  BY <1>1, <1>2 DEF handle_append_entries_response, RaftInv, RaftType
<1>4. StepDown(m.to, m.term) /\ UNCHANGED <<rlog, next_index, match_index, rnet>>
  BY DEF handle_append_entries_response
<1>5. NextIndexes'
  BY <1>4 DEF RaftInv, NextIndexes
<1> QED BY <1>1, <1>3, <1>4, <1>5, StepDownMoves, QuietStep

\* What a leader sends continues its own log.
LEMMA HeartbeatsSound ==
  ASSUME RaftInv, NEW n \in RNodes, NEW log, LogOf(log, rterm[n]), NEW m \in Heartbeats(n, log)
  PROVE  Message(m) /\ m.type = "AppendEntries"
<1>1. PICK p \in Peers(n) :
        m = LET prev == next_index[n][p] - 1
            IN  [type |-> "AppendEntries", to |-> p, from |-> n, term |-> rterm[n],
                 prev |-> prev,
                 prev_term |-> IF prev > 0 /\ prev <= Len(log) THEN log[prev].term ELSE 0,
                 entries |-> SubSeq(log, prev + 1, Len(log)),
                 commit |-> rcommit[n]]
  BY DEF Heartbeats
<1> DEFINE prev == next_index[n][p] - 1
           pterm == IF prev > 0 /\ prev <= Len(log) THEN log[prev].term ELSE 0
           entries == SubSeq(log, prev + 1, Len(log))
<1>2. m = [type |-> "AppendEntries", to |-> p, from |-> n, term |-> rterm[n], prev |-> prev,
           prev_term |-> pterm, entries |-> entries, commit |-> 0]
  BY <1>1 DEF RaftInv, RaftType
<1>3. /\ p \in RNodes /\ p # n /\ prev \in Nat /\ rterm[n] \in Nat
      /\ log \in Seq(Entry) /\ Len(log) \in Nat /\ \A i \in 1 .. Len(log) : log[i].term \in Nat
  <2>1. next_index[n][p] \in Nat \ {0}
    BY DEF RaftInv, NextIndexes
  <2>2. p \in RNodes /\ p # n
    BY DEF Peers
  <2>3. log \in Seq(Entry) /\ Len(log) \in Nat /\ \A i \in 1 .. Len(log) : log[i] \in Entry
    BY DEF LogOf
  <2> QED BY <2>1, <2>2, <2>3 DEF RaftInv, RaftType, Entry
<1> HIDE DEF prev
<1>4. pterm \in Nat
  BY <1>3
<1>5. /\ entries \in Seq(Entry)
      /\ Len(entries) = IF prev + 1 <= Len(log) THEN Len(log) - prev ELSE 0
      /\ \A i \in 1 .. Len(entries) : entries[i] = log[prev + i] /\ prev + i \in 1 .. Len(log)
  <2>1. CASE prev + 1 <= Len(log)
    <3>1. \A i \in prev + 1 .. Len(log) : log[i] \in Entry
      BY <1>3
    <3>2. /\ entries \in Seq(Entry) /\ Len(entries) = Len(log) - (prev + 1) + 1
          /\ \A i \in 1 .. Len(log) - (prev + 1) + 1 : entries[i] = log[prev + 1 + i - 1]
      BY <1>3, <2>1, <3>1, SubSeqProperties
    <3> HIDE DEF entries
    <3> QED BY <1>3, <2>1, <3>2
  <2>2. CASE ~(prev + 1 <= Len(log))
    <3>1. entries = <<>>
      BY <1>3, <2>2, SubSeqProperties
    <3> HIDE DEF entries
    <3>2. entries \in Seq(Entry) /\ Len(entries) = 0
      BY <3>1, EmptySeq
    <3> QED BY <2>2, <3>2
  <2> QED BY <2>1, <2>2
<1> HIDE DEF entries
<1>6. Batch(entries, prev, pterm, rterm[n])
  <2>1. ASSUME NEW i \in 1 .. Len(entries)
        PROVE  /\ entries[i].index = prev + i /\ entries[i].term <= rterm[n]
               /\ i > 1 => entries[i - 1].term <= entries[i].term
               /\ i = 1 /\ prev > 0 => pterm <= entries[1].term
    <3>1. /\ entries[i] = log[prev + i] /\ prev + i \in 1 .. Len(log) /\ i \in Nat /\ i >= 1
          /\ i > 1 => entries[i - 1] = log[prev + i - 1]
      <4>1. entries[i] = log[prev + i] /\ prev + i \in 1 .. Len(log) /\ i \in Nat /\ i >= 1
        BY <1>5
      <4>2. ASSUME i > 1 PROVE entries[i - 1] = log[prev + i - 1]
        <5>1. i - 1 \in 1 .. Len(entries) /\ prev + (i - 1) = prev + i - 1
          BY <1>3, <4>2
        <5>2. entries[i - 1] = log[prev + (i - 1)]
          BY <1>5, <5>1
        <5> QED BY <5>1, <5>2
      <4> QED BY <4>1, <4>2
    <3>2. entries[i].index = prev + i /\ entries[i].term <= rterm[n]
      BY <3>1 DEF LogOf
    <3>3. ASSUME i > 1 PROVE entries[i - 1].term <= entries[i].term
      <4>1. prev + i > 1
        BY <1>3, <3>1, <3>3
      <4>2. log[prev + i - 1].term <= log[prev + i].term
        <5> DEFINE j == prev + i
        <5>1. j \in 1 .. Len(log) /\ j > 1
          BY <3>1, <4>1
        <5> HIDE DEF j
        <5>2. log[j - 1].term <= log[j].term
          BY <5>1 DEF LogOf
        <5> QED BY <1>3, <3>1, <5>2 DEF j
      <4> QED BY <3>1, <3>3, <4>2
    <3>4. ASSUME i = 1, prev > 0 PROVE pterm <= entries[1].term
      <4>1. prev + 1 \in 1 .. Len(log) /\ prev + 1 > 1 /\ prev <= Len(log) /\ (prev + 1) - 1 = prev
        BY <1>3, <3>1, <3>4
      <4>2. log[prev].term <= log[prev + 1].term
        BY <4>1 DEF LogOf
      <4> QED BY <3>1, <3>4, <4>1, <4>2
    <3> QED BY <3>2, <3>3, <3>4
  <2> QED BY <1>5, <2>1 DEF Batch
<1> HIDE DEF pterm
<1>7. m \in AppendRequest /\ m.to # m.from /\ m.type = "AppendEntries"
  BY <1>2, <1>3, <1>4, <1>5 DEF AppendRequest
<1>8. m.entries = entries /\ m.prev = prev /\ m.prev_term = pterm /\ m.term = rterm[n]
  BY <1>2
<1> QED BY <1>6, <1>7, <1>8 DEF Message

\* A leader's heartbeats keep the invariant.
LEMMA SendStep ==
  ASSUME RaftInv, NEW n \in RNodes, send_heartbeats(n)
  PROVE  RaftInv'
<1>1. /\ rnet' = rnet \cup Heartbeats(n, rlog[n])
      /\ UNCHANGED <<rstate, rterm, voted_for, rlog, rcommit, next_index, match_index>>
  BY DEF send_heartbeats, Send
<1>2. NextIndexes' /\ Moves
  BY <1>1, SameTerms DEF RaftInv, RaftType, NextIndexes
<1>3. \A m \in Heartbeats(n, rlog[n]) : Message(m) /\ VoteKept(m)'
  BY HeartbeatsSound DEF RaftInv, Logs, VoteKept
<1> QED BY <1>1, <1>2, <1>3, QuietStep

\* A client's request keeps the invariant.
LEMMA ClientStep ==
  ASSUME RaftInv, NEW n \in RNodes, handle_client_request(n)
  PROVE  RaftInv'
<1> DEFINE e == [index |-> Len(rlog[n]) + 1, term |-> rterm[n], by |-> n]
           log == Append(rlog[n], e)
<1>1. /\ rlog' = [rlog EXCEPT ![n] = log] /\ rnet' = rnet \cup Heartbeats(n, log)
      /\ UNCHANGED <<rstate, rterm, voted_for, rcommit, next_index, match_index>>
  BY DEF handle_client_request, Send
<1>2. /\ rlog[n] \in Seq(Entry) /\ Len(rlog[n]) \in Nat /\ rterm[n] \in Nat /\ LogOf(rlog[n], rterm[n])
      /\ \A i \in 1 .. Len(rlog[n]) : rlog[n][i].term \in Nat
  <2>1. rlog[n] \in Seq(Entry) /\ LogOf(rlog[n], rterm[n])
    BY DEF RaftInv, Logs, LogOf
  <2>2. \A i \in 1 .. Len(rlog[n]) : rlog[n][i] \in Entry
    BY <2>1
  <2> QED BY <2>1, <2>2 DEF RaftInv, RaftType, Entry
<1>3. e \in Entry /\ e.index = Len(rlog[n]) + 1 /\ e.term = rterm[n]
  BY <1>2 DEF Entry
<1> HIDE DEF e
<1>4. LogOf(log, rterm[n])
  <2>1. /\ log \in Seq(Entry) /\ Len(log) = Len(rlog[n]) + 1
        /\ \A i \in 1 .. Len(rlog[n]) : log[i] = rlog[n][i]
        /\ log[Len(rlog[n]) + 1] = e
    BY <1>2, <1>3, AppendProperties
  <2> HIDE DEF log
  <2>2. ASSUME NEW i \in 1 .. Len(log)
        PROVE  /\ log[i].index = i /\ log[i].term <= rterm[n]
               /\ i > 1 => log[i - 1].term <= log[i].term
    <3>1. CASE i \in 1 .. Len(rlog[n])
      <4>1. i > 1 => i - 1 \in 1 .. Len(rlog[n])
        BY <1>2, <3>1
      <4> QED BY <1>2, <2>1, <3>1, <4>1 DEF LogOf
    <3>2. CASE i = Len(rlog[n]) + 1
      <4>1. i > 1 => i - 1 \in 1 .. Len(rlog[n])
        BY <1>2, <3>2
      <4> QED BY <1>2, <1>3, <2>1, <3>2, <4>1 DEF LogOf
    <3> QED BY <1>2, <2>1, <3>1, <3>2
  <2> QED BY <2>1, <2>2 DEF LogOf
<1>5. Moves /\ NextIndexes'
  BY <1>1, SameTerms DEF RaftInv, RaftType, NextIndexes
<1> HIDE DEF log
<1>6. Logs'
  BY <1>1, <1>4 DEF RaftInv, Logs
<1>7. RaftType'
  BY <1>1 DEF RaftInv, RaftType
<1>8. \A m \in Heartbeats(n, log) : Message(m) /\ VoteKept(m)'
  BY <1>4, HeartbeatsSound DEF VoteKept
<1>9. \A m \in rnet' : Message(m) /\ VoteKept(m)'
  BY <1>1, <1>5, <1>8, VotesKept DEF RaftInv
<1> QED BY <1>5, <1>6, <1>7, <1>9 DEF RaftInv, Message

\* A set of numbers that is not empty has a least one.
LEMMA MinOfNats ==
  ASSUME NEW S \in SUBSET Nat, S # {}
  PROVE  Min(S) \in S /\ \A x \in S : Min(S) <= x
<1> DEFINE Down == {0 .. x : x \in S}
           R == StrictSubsetOrdering(Nat)
<1>1. Down \subseteq FiniteSubsetsOf(Nat) /\ Down # {}
  <2>1. \A x \in S : x \in Int /\ 0 .. x \subseteq Nat
    OBVIOUS
  <2>2. \A x \in S : IsFiniteSet(0 .. x)
    BY <2>1, FS_Interval
  <2> QED BY <2>1, <2>2 DEF FiniteSubsetsOf
<1>2. PICK D \in Down : \A E \in Down : ~(<<E, D>> \in R)
  BY <1>1, FS_StrictSubsetOrderingWellFounded, WFMin
<1>3. PICK m \in S : D = 0 .. m
  BY <1>2
<1>4. \A x \in S : m <= x
  <2> SUFFICES ASSUME NEW x \in S, x < m PROVE FALSE
    OBVIOUS
  <2>1. 0 .. x \subseteq 0 .. m /\ 0 .. x # 0 .. m /\ 0 .. x \in SUBSET Nat /\ 0 .. m \in SUBSET Nat
    <3>1. m \in 0 .. m /\ m \notin 0 .. x
      OBVIOUS
    <3> QED BY <3>1
  <2>2. <<0 .. x, 0 .. m>> \in R
    BY <2>1 DEF StrictSubsetOrdering
  <2> QED BY <1>2, <1>3, <2>2
<1> QED BY <1>4 DEF Min

\* Appending a batch to a log that has the entry the batch continues: as far as the
\* log has its entries it stays, the rest comes from the batch.
LEMMA AppendedLog ==
  ASSUME NEW log, NEW a \in Nat, NEW b \in Nat, LogOf(log, a), a <= b,
         NEW entries, NEW prev \in 0 .. Len(log), NEW prev_term, Batch(entries, prev, prev_term, b),
         prev > 0 => log[prev].term = prev_term
  PROVE  LogOf(AppendAll(log, entries), b)
<1> DEFINE M == Missing(log, entries)
<1>1. /\ log \in Seq(Entry) /\ Len(log) \in Nat /\ entries \in Seq(Entry) /\ Len(entries) \in Nat
      /\ DOMAIN entries = 1 .. Len(entries) /\ prev \in Nat
      /\ \A i \in 1 .. Len(log) : log[i] \in Entry
      /\ \A i \in 1 .. Len(entries) : entries[i] \in Entry
  BY DEF LogOf, Batch
<1>2. /\ \A i \in 1 .. Len(log) : log[i].term \in Nat
      /\ \A i \in 1 .. Len(entries) : entries[i].term \in Nat
  BY <1>1 DEF Entry
<1>3. CASE M = {}
  BY <1>3, LogGrows DEF AppendAll
<1>4. CASE M # {}
  <2> DEFINE k == Min(M)
             keep == entries[k].index - 1
             base == IF keep < Len(log) THEN SubSeq(log, 1, keep) ELSE log
             rest == SubSeq(entries, k, Len(entries))
             new == base \o rest
  <2>1. k \in M /\ (\A j \in M : k <= j) /\ k \in 1 .. Len(entries)
    <3>1. M \in SUBSET Nat
      BY <1>1 DEF Missing
    <3>2. k \in M /\ \A j \in M : k <= j
      BY <1>4, <3>1, MinOfNats
    <3> QED BY <1>1, <3>2 DEF Missing
  <2>2. AppendAll(log, entries) = new
    BY <1>4 DEF AppendAll, AppendFrom
  <2> HIDE DEF M, k
  <2>3. keep = prev + k - 1 /\ keep \in Nat
    BY <1>1, <2>1 DEF Batch
  <2>4. k > 1 => prev + k - 1 <= Len(log) /\ log[prev + k - 1].term = entries[k - 1].term
    <3> SUFFICES ASSUME k > 1 PROVE prev + k - 1 <= Len(log) /\ log[prev + k - 1].term = entries[k - 1].term
      OBVIOUS
    <3>1. k - 1 \in 1 .. Len(entries) /\ ~(k <= k - 1)
      BY <2>1
    <3>2. k - 1 \notin M
      BY <2>1, <3>1
    <3>3. entries[k - 1].index = prev + (k - 1)
      BY <3>1 DEF Batch
    <3>4. ~(entries[k - 1].index > Len(log)) /\ log[entries[k - 1].index].term = entries[k - 1].term
      BY <1>1, <3>1, <3>2 DEF M, Missing
    <3> QED BY <1>1, <2>1, <3>3, <3>4
  <2>5. keep <= Len(log)
    BY <1>1, <2>1, <2>3, <2>4
  <2> HIDE DEF keep
  <2>6. base \in Seq(Entry) /\ Len(base) = keep /\ \A i \in 1 .. keep : base[i] = log[i]
    <3>1. CASE keep < Len(log)
      <4>1. \A i \in 1 .. keep : log[i] \in Entry
        BY <1>1, <2>3, <2>5
      <4>2. /\ SubSeq(log, 1, keep) \in Seq(Entry)
            /\ Len(SubSeq(log, 1, keep)) = IF 1 <= keep THEN keep - 1 + 1 ELSE 0
            /\ \A i \in 1 .. keep - 1 + 1 : SubSeq(log, 1, keep)[i] = log[1 + i - 1]
        BY <2>3, <4>1, SubSeqProperties
      <4>3. base = SubSeq(log, 1, keep)
        BY <3>1
      <4> HIDE DEF base
      <4> QED BY <2>3, <4>2, <4>3
    <3>2. CASE ~(keep < Len(log))
      BY <1>1, <2>3, <2>5, <3>2
    <3> QED BY <3>1, <3>2
  <2> HIDE DEF base
  <2>7. /\ rest \in Seq(Entry) /\ Len(rest) = Len(entries) - k + 1
        /\ \A i \in 1 .. Len(rest) : rest[i] = entries[k + i - 1]
    <3>1. \A i \in k .. Len(entries) : entries[i] \in Entry
      BY <1>1, <2>1
    <3>2. /\ rest \in Seq(Entry) /\ Len(rest) = IF k <= Len(entries) THEN Len(entries) - k + 1 ELSE 0
          /\ \A i \in 1 .. Len(entries) - k + 1 : rest[i] = entries[k + i - 1]
      BY <1>1, <2>1, <3>1, SubSeqProperties
    <3> HIDE DEF rest
    <3> QED BY <1>1, <2>1, <3>2
  <2> HIDE DEF rest
  <2>8. /\ new \in Seq(Entry) /\ Len(new) = prev + Len(entries)
        /\ \A i \in 1 .. Len(new) : i <= keep => new[i] = log[i]
        /\ \A i \in 1 .. Len(new) : i > keep => new[i] = entries[i - prev] /\ i - prev \in k .. Len(entries)
    <3>1. /\ new \in Seq(Entry) /\ Len(new) = Len(base) + Len(rest)
          /\ \A i \in 1 .. Len(base) + Len(rest) :
               new[i] = IF i <= Len(base) THEN base[i] ELSE rest[i - Len(base)]
      BY <2>6, <2>7, ConcatProperties
    <3> HIDE DEF new
    <3>2. Len(new) = prev + Len(entries)
      BY <1>1, <2>1, <2>3, <2>6, <2>7, <3>1
    <3>3. ASSUME NEW i \in 1 .. Len(new), i <= keep PROVE new[i] = log[i]
      BY <2>3, <2>6, <2>7, <3>1, <3>3
    <3>4. ASSUME NEW i \in 1 .. Len(new), i > keep
          PROVE  new[i] = entries[i - prev] /\ i - prev \in k .. Len(entries)
      <4>1. i - keep \in 1 .. Len(rest) /\ k + (i - keep) - 1 = i - prev /\ i - prev \in k .. Len(entries)
        BY <1>1, <2>1, <2>3, <2>7, <3>2, <3>4
      <4>2. new[i] = rest[i - keep]
        BY <1>1, <2>3, <2>6, <2>7, <3>1, <3>4
      <4> QED BY <2>7, <4>1, <4>2
    <3> QED BY <3>1, <3>2, <3>3, <3>4
  <2> HIDE DEF new
  <2>9. ASSUME NEW i \in 1 .. Len(new)
        PROVE  /\ new[i].index = i /\ new[i].term <= b
               /\ i > 1 => new[i - 1].term <= new[i].term
    <3>1. CASE i <= keep
      <4>1. i \in 1 .. Len(log) /\ (i > 1 => i - 1 \in 1 .. Len(new) /\ i - 1 <= keep)
        BY <1>1, <2>3, <2>5, <2>8, <3>1
      <4>2. log[i].index = i /\ log[i].term <= a /\ (i > 1 => log[i - 1].term <= log[i].term)
        BY <4>1 DEF LogOf
      <4>3. new[i] = log[i] /\ (i > 1 => new[i - 1] = log[i - 1]) /\ log[i].term \in Nat
        BY <1>2, <2>8, <3>1, <4>1
      <4> QED BY <4>2, <4>3
    <3>2. CASE i > keep
      <4> DEFINE j == i - prev
      <4>1. j \in k .. Len(entries) /\ new[i] = entries[j] /\ j \in 1 .. Len(entries) /\ prev + j = i
        BY <1>1, <2>1, <2>8, <3>2
      <4>2. entries[j].index = prev + j /\ entries[j].term <= b
        BY <4>1 DEF Batch
      <4>3. ASSUME i > 1 PROVE new[i - 1].term <= new[i].term
        <5>0. i - 1 \in 1 .. Len(new)
          BY <1>1, <2>8, <4>3
        <5>1. CASE i - 1 > keep
          <6>1. new[i - 1] = entries[(i - 1) - prev] /\ (i - 1) - prev \in k .. Len(entries)
            BY <2>8, <5>0, <5>1
          <6>2. (i - 1) - prev = j - 1 /\ j > 1
            BY <1>1, <2>1, <4>1, <6>1
          <6>3. entries[j - 1].term <= entries[j].term
            BY <4>1, <6>2 DEF Batch
          <6> QED BY <4>1, <6>1, <6>2, <6>3
        <5>2. CASE ~(i - 1 > keep)
          <6>1. i - 1 = keep /\ j = k /\ new[i - 1] = log[keep] /\ keep = prev + k - 1
            BY <1>1, <2>1, <2>3, <2>8, <3>2, <5>0, <5>2
          <6>2. CASE k = 1
            <7>1. keep = prev /\ prev > 0 /\ j = 1
              BY <1>1, <2>1, <4>3, <6>1, <6>2
            <7>2. prev_term <= entries[1].term
              BY <4>1, <7>1 DEF Batch
            <7> QED BY <4>1, <6>1, <7>1, <7>2
          <6>3. CASE k > 1
            <7>1. log[keep].term = entries[k - 1].term
              BY <2>4, <6>1, <6>3
            <7>2. entries[k - 1].term <= entries[k].term
              BY <2>1, <6>3 DEF Batch
            <7> QED BY <4>1, <6>1, <7>1, <7>2
          <6> QED BY <2>1, <6>2, <6>3
        <5> QED BY <5>1, <5>2
      <4> QED BY <4>1, <4>2, <4>3
    <3> QED BY <2>3, <3>1, <3>2
  <2> QED BY <2>2, <2>8, <2>9 DEF LogOf
<1> QED BY <1>3, <1>4

\* Handling AppendEntries keeps the invariant.
LEMMA AppendStep ==
  ASSUME RaftInv, NEW m \in rnet, m.type = "AppendEntries", handle_append_entries(m)
  PROVE  RaftInv'
<1> DEFINE n == m.to
           log == rlog[n]
           stale == m.term < rterm[n]
           short == m.prev > Len(log)
           differs == m.prev > 0 /\ ~short /\ log[m.prev].term # m.prev_term
           new == IF stale \/ short THEN log
                  ELSE IF differs THEN SubSeq(log, 1, m.prev - 1)
                  ELSE AppendAll(log, m.entries)
           ok == ~stale /\ ~short /\ ~differs
           answer == IF stale THEN [AppendReply(m, FALSE, 0) EXCEPT !.term = rterm[n]]
                     ELSE AppendReply(m, ok, IF ok THEN m.prev + Len(m.entries) ELSE 0)
<1>1. /\ m \in AppendRequest /\ Batch(m.entries, m.prev, m.prev_term, m.term)
      /\ n \in RNodes /\ m.from \in RNodes /\ n # m.from /\ m.term \in Nat /\ m.prev \in Nat
      /\ m.commit = 0 /\ Len(m.entries) \in Nat
  <2>1. Message(m)
    BY DEF RaftInv
  <2>2. m \in AppendRequest /\ Batch(m.entries, m.prev, m.prev_term, m.term)
    BY <2>1 DEF Message, VoteRequest, VoteAnswer, AppendAnswer
  <2> QED BY <2>1, <2>2, MessageFields DEF AppendRequest
<1>2. /\ log \in Seq(Entry) /\ Len(log) \in Nat /\ rterm[n] \in Nat /\ LogOf(log, rterm[n])
      /\ rcommit[n] = 0
  <2>1. LogOf(log, rterm[n]) /\ rterm[n] \in Nat /\ rcommit[n] = 0
    BY <1>1 DEF RaftInv, RaftType, Logs
  <2> QED BY <2>1 DEF LogOf
<1>3. /\ StepDown(n, m.term) /\ rlog' = [rlog EXCEPT ![n] = new]
      /\ rnet' = rnet \cup {answer} /\ UNCHANGED <<next_index, match_index>>
  BY DEF handle_append_entries, Send
<1>4. rcommit' = rcommit
  <2>1. rcommit' = [rcommit EXCEPT ![n] = IF ok /\ m.commit > @
                       THEN IF m.commit < Len(new) THEN m.commit ELSE Len(new) ELSE @]
    BY DEF handle_append_entries
  <2> HIDE DEF new, ok
  <2>2. ~(m.commit > rcommit[n])
    BY <1>1, <1>2
  <2> QED BY <1>1, <2>1, <2>2 DEF RaftInv, RaftType
<1>5. Message(answer) /\ answer.type = "AppendEntriesResponse"
  <2>1. CASE stale
    <3> DEFINE r == AppendReply(m, FALSE, 0)
    <3>1. r = [type |-> "AppendEntriesResponse", to |-> m.from, from |-> n, term |-> m.term,
               success |-> FALSE, match |-> 0]
      BY DEF AppendReply
    <3>2. answer = [r EXCEPT !.term = rterm[n]]
      BY <2>1
    <3> HIDE DEF r, answer
    <3>3. answer = [type |-> "AppendEntriesResponse", to |-> m.from, from |-> n, term |-> rterm[n],
                    success |-> FALSE, match |-> 0]
      BY <3>1, <3>2
    <3>4. answer \in AppendAnswer /\ answer.to # answer.from
      BY <1>1, <1>2, <3>3 DEF AppendAnswer
    <3> QED BY <3>4 DEF Message, AppendRequest, AppendAnswer
  <2>2. CASE ~stale
    <3> DEFINE at == IF ok THEN m.prev + Len(m.entries) ELSE 0
    <3>1. at \in Nat /\ ok \in BOOLEAN
      BY <1>1
    <3>2. answer = AppendReply(m, ok, at)
      BY <2>2
    <3> HIDE DEF ok, at, answer
    <3>3. answer \in AppendAnswer /\ answer.to # answer.from
      BY <1>1, <3>1, <3>2 DEF AppendAnswer, AppendReply
    <3> QED BY <3>3 DEF Message, AppendRequest, AppendAnswer
  <2> QED BY <2>1, <2>2
<1> HIDE DEF answer
<1>6. Moves /\ rterm'[n] = IF m.term > rterm[n] THEN m.term ELSE rterm[n]
  BY <1>1, <1>3, StepDownMoves
<1>7. LogOf(new, rterm'[n])
  <2>0. rterm'[n] \in Nat /\ rterm[n] <= rterm'[n]
    BY <1>1, <1>2, <1>6
  <2>1. CASE stale \/ short
    <3>1. new = log
      BY <2>1
    <3> QED BY <1>2, <2>0, <3>1, LogGrows
  <2>2. CASE ~(stale \/ short) /\ differs
    <3> DEFINE cut == SubSeq(log, 1, m.prev - 1)
    <3>1. new = cut
      BY <2>2
    <3>2. m.prev \in 1 .. Len(log)
      BY <1>1, <1>2, <2>2
    <3>3. /\ cut \in Seq(Entry) /\ Len(cut) = m.prev - 1
          /\ \A i \in 1 .. m.prev - 1 : cut[i] = log[i]
      <4>1. \A i \in 1 .. m.prev - 1 : log[i] \in Entry
        BY <1>2, <3>2
      <4>2. /\ cut \in Seq(Entry) /\ Len(cut) = IF 1 <= m.prev - 1 THEN m.prev - 1 - 1 + 1 ELSE 0
            /\ \A i \in 1 .. m.prev - 1 - 1 + 1 : cut[i] = log[1 + i - 1]
        BY <1>1, <4>1, SubSeqProperties
      <4> HIDE DEF cut
      <4> QED BY <3>2, <4>2
    <3> HIDE DEF cut, log
    <3>4. LogOf(cut, rterm[n])
      <4>1. ASSUME NEW i \in 1 .. Len(cut)
            PROVE  i \in 1 .. Len(log) /\ cut[i] = log[i] /\ (i > 1 => cut[i - 1] = log[i - 1])
        <5>1. i \in 1 .. m.prev - 1 /\ (i > 1 => i - 1 \in 1 .. m.prev - 1) /\ i \in 1 .. Len(log)
          BY <1>1, <1>2, <3>2, <3>3
        <5> QED BY <3>3, <5>1
      <4> QED BY <1>2, <3>3, <4>1 DEF LogOf
    <3> QED BY <1>2, <2>0, <3>1, <3>4, LogGrows
  <2>3. CASE ~(stale \/ short) /\ ~differs
    <3>1. new = AppendAll(log, m.entries)
      BY <2>3
    <3>2. m.prev \in 0 .. Len(log) /\ rterm[n] <= m.term /\ rterm'[n] = m.term
      BY <1>1, <1>2, <1>6, <2>3
    <3>3. m.prev > 0 => log[m.prev].term = m.prev_term
      BY <2>3
    <3> HIDE DEF log
    <3> QED BY <1>1, <1>2, <3>1, <3>2, <3>3, AppendedLog
  <2> QED BY <2>1, <2>2, <2>3
<1> HIDE DEF new
<1>8. Logs'
  <2>1. ASSUME NEW x \in RNodes PROVE LogOf(rlog'[x], rterm'[x])
    <3>1. CASE x = n
      BY <1>1, <1>3, <1>7, <3>1 DEF RaftInv, Logs
    <3>2. CASE x # n
      <4>1. rlog'[x] = rlog[x] /\ LogOf(rlog[x], rterm[x])
        BY <1>3, <3>2 DEF RaftInv, Logs
      <4>2. rterm[x] \in Nat /\ rterm'[x] \in Nat /\ rterm[x] <= rterm'[x]
        BY <1>6 DEF Moves, RaftInv, RaftType
      <4> QED BY <4>1, <4>2, LogGrows
    <3> QED BY <3>1, <3>2
  <2>2. rlog' = [x \in RNodes |-> rlog'[x]]
    BY <1>3 DEF RaftInv, Logs
  <2> QED BY <2>1, <2>2 DEF Logs
<1>9. RaftType' /\ NextIndexes'
  BY <1>3, <1>4, <1>6 DEF RaftInv, RaftType, Moves, NextIndexes
<1>10. \A x \in rnet' : Message(x) /\ VoteKept(x)'
  <2>1. PICK a : a = answer
    OBVIOUS
  <2>2. rnet' = rnet \cup {a} /\ Message(a) /\ VoteKept(a)'
    BY <1>3, <1>5, <2>1 DEF VoteKept
  <2> QED BY <1>6, <2>2, VotesKept DEF RaftInv
<1> QED BY <1>8, <1>9, <1>10 DEF RaftInv, Message

\* The invariant holds before the first election.
LEMMA RaftInvInit == RaftInit => RaftInv
<1> SUFFICES ASSUME RaftInit PROVE RaftInv
  OBVIOUS
<1>1. RaftType
  BY DEF RaftInit, RaftType
<1>2. NextIndexes
  BY DEF RaftInit, NextIndexes
<1>3. Logs
  <2>1. <<>> \in Seq(Entry) /\ Len(<<>>) = 0 /\ 1 .. 0 = {}
    BY EmptySeq
  <2>2. LogOf(<<>>, 0)
    BY <2>1 DEF LogOf
  <2> QED BY <2>2 DEF RaftInit, Logs
<1> QED BY <1>1, <1>2, <1>3 DEF RaftInit, RaftInv

\* Every step of a node or of the network keeps the invariant.
LEMMA RaftInvNext == RaftInv /\ [RaftNext]_raftVars => RaftInv'
<1> SUFFICES ASSUME RaftInv, [RaftNext]_raftVars PROVE RaftInv'
  OBVIOUS
<1>1. CASE UNCHANGED raftVars
  BY <1>1 DEF raftVars, RaftInv, RaftType, Logs, NextIndexes, VoteKept
<1>2. ASSUME NEW m \in rnet, handle_message(m) PROVE RaftInv'
  <2>1. m.type \in {"RequestVote", "RequestVoteResponse", "AppendEntries", "AppendEntriesResponse"}
    BY DEF RaftInv, Message, VoteRequest, VoteAnswer, AppendRequest, AppendAnswer
  <2>2. CASE m.type = "RequestVote"
    BY <1>2, <2>2, VoteStep DEF handle_message
  <2>3. CASE m.type = "RequestVoteResponse"
    BY <1>2, <2>3, ElectedStep DEF handle_message
  <2>4. CASE m.type = "AppendEntries"
    BY <1>2, <2>4, AppendStep DEF handle_message
  <2>5. CASE m.type = "AppendEntriesResponse"
    BY <1>2, <2>5, AnswerStep DEF handle_message
  <2> QED BY <2>1, <2>2, <2>3, <2>4, <2>5
<1> QED BY <1>1, <1>2, TimeoutStep, SendStep, ClientStep DEF RaftNext

\* Messages that grant no vote leave the votes granted as they are.
LEMMA NoNewVotes ==
  ASSUME OneVotePerTerm, \A m \in rnet' \ rnet : ~(m.type = "RequestVoteResponse" /\ m.granted)
  PROVE  OneVotePerTerm'
BY DEF OneVotePerTerm

\* A vote that is granted again goes to the same candidate.
LEMMA OneVoteNext ==
  ASSUME RaftInv, OneVotePerTerm, [RaftNext]_raftVars
  PROVE  OneVotePerTerm'
<1>1. CASE rnet' = rnet
  BY <1>1, NoNewVotes
<1>2. ASSUME NEW n \in RNodes, handle_election_timeout(n) PROVE OneVotePerTerm'
  <2>1. \A m \in request_votes(n, rterm[n] + 1) : m.type = "RequestVote"
    BY DEF request_votes
  <2> QED BY <1>2, <2>1, NoNewVotes DEF handle_election_timeout, Send
<1>3. ASSUME NEW n \in RNodes, NEW log, rnet' = rnet \cup Heartbeats(n, log) PROVE OneVotePerTerm'
  <2>1. \A m \in Heartbeats(n, log) : m.type = "AppendEntries"
    BY DEF Heartbeats
  <2> QED BY <1>3, <2>1, NoNewVotes
<1>4. ASSUME NEW m \in rnet, handle_append_entries(m) PROVE OneVotePerTerm'
  <2>1. PICK a : rnet' = rnet \cup {a} /\ a.type = "AppendEntriesResponse"
    <3>1. \A x, y : AppendReply(m, x, y).type = "AppendEntriesResponse"
      BY DEF AppendReply
    <3>2. CASE m.term < rterm[m.to]
      <4> DEFINE r == [AppendReply(m, FALSE, 0) EXCEPT !.term = rterm[m.to]]
      <4>1. rnet' = rnet \cup {r}
        BY <1>4, <3>2 DEF handle_append_entries, Send
      <4>2. r.type = "AppendEntriesResponse"
        BY DEF AppendReply
      <4> HIDE DEF r
      <4> QED BY <4>1, <4>2
    <3>3. CASE ~(m.term < rterm[m.to])
      <4> DEFINE short == m.prev > Len(rlog[m.to])
                 ok == ~short /\ ~(m.prev > 0 /\ ~short /\ rlog[m.to][m.prev].term # m.prev_term)
                 at == IF ok THEN m.prev + Len(m.entries) ELSE 0
      <4>1. rnet' = rnet \cup {AppendReply(m, ok, at)}
        BY <1>4, <3>3 DEF handle_append_entries, Send
      <4> HIDE DEF ok, at
      <4> QED BY <3>1, <4>1
    <3> QED BY <3>2, <3>3
  <2> QED BY <2>1, NoNewVotes
<1>5. ASSUME NEW m \in rnet, handle_request_vote(m) PROVE OneVotePerTerm'
  <2> DEFINE n == m.to
             r == VoteReply(m, m.term, TRUE)
  <2>1. n \in RNodes /\ m.from \in RNodes /\ m.term \in Nat /\ rterm[n] \in Nat
    BY MessageFields DEF RaftInv, RaftType
  <2>2. CASE m.term < rterm[n]
    <3>1. rnet' = rnet \cup {VoteReply(m, rterm[n], FALSE)}
      BY <1>5, <2>2 DEF handle_request_vote, Send
    <3>2. ~VoteReply(m, rterm[n], FALSE).granted
      BY DEF VoteReply
    <3> QED BY <3>1, <3>2, NoNewVotes
  <2>3. CASE ~(m.term < rterm[n]) /\ rnet' # rnet
    <3>1. rnet' = rnet \cup {r} /\ (m.term > rterm[n] \/ voted_for[n] \in {NoVote, m.from})
      BY <1>5, <2>3 DEF handle_request_vote, Send
    <3>2. r.from = n /\ r.to = m.from /\ r.term = m.term
      BY DEF VoteReply
    <3> HIDE DEF r
    <3>3. ASSUME NEW b \in rnet, b.type = "RequestVoteResponse", b.granted, b.from = r.from, b.term = r.term
          PROVE  b.to = r.to
      <4>1. VoteKept(b) /\ b.to \in RNodes /\ b.to # NoVote
        BY MessageFields, RaftAssumption DEF RaftInv
      <4>2. rterm[n] = m.term /\ voted_for[n] = b.to
        BY <2>1, <2>3, <3>2, <3>3, <4>1 DEF VoteKept
      <4> QED BY <2>1, <3>1, <3>2, <4>1, <4>2
    <3> QED BY <3>1, <3>3 DEF OneVotePerTerm
  <2> QED BY <1>1, <2>2, <2>3
<1>6. ASSUME NEW m \in rnet, handle_message(m) PROVE OneVotePerTerm'
  <2>1. m.type \in {"RequestVote", "RequestVoteResponse", "AppendEntries", "AppendEntriesResponse"}
    BY DEF RaftInv, Message, VoteRequest, VoteAnswer, AppendRequest, AppendAnswer
  <2> QED BY <1>1, <1>4, <1>5, <1>6, <2>1
       DEF handle_message, handle_request_vote_response, handle_append_entries_response
<1> QED BY <1>1, <1>2, <1>3, <1>6 DEF RaftNext, raftVars, send_heartbeats, handle_client_request, Send

\* Whatever messages are lost, late, repeated or reordered, logs stay well formed, no
\* node votes twice in a term and no commit goes unbacked (the handlers of RaftNode).
THEOREM RaftSoundHolds == RaftSpec => []RaftSound
<1>1. RaftInv /\ OneVotePerTerm => RaftSound
  <2> SUFFICES ASSUME RaftInv, OneVotePerTerm PROVE RaftSound
    OBVIOUS
  <2>1. LogsWellFormed
    BY DEF RaftInv, Logs, LogOf, LogsWellFormed
  <2>2. CommitBacked
    BY DEF RaftInv, RaftType, Logs, LogOf, CommitBacked
  <2> QED BY <2>1, <2>2 DEF RaftSound
<1>2. RaftInit => OneVotePerTerm
  BY DEF RaftInit, OneVotePerTerm
<1>3. RaftInv /\ OneVotePerTerm /\ [RaftNext]_raftVars => OneVotePerTerm'
  BY OneVoteNext
<1> QED BY <1>1, <1>2, <1>3, RaftInvInit, RaftInvNext, PTL DEF RaftSpec
=============================================================================
