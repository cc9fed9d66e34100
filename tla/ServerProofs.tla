---------------------------- MODULE ServerProofs -----------------------------
(***************************************************************************)
(* Proofs about the parts of the server and of its query engine that keep    *)
(* state in memory, and the facts about filtered sequences they rest on.     *)
(***************************************************************************)
EXTENDS Caches, Federation, PreAgg, Remote, Rules, TLAPS, FiniteSetTheorems, SequenceTheorems, WellFoundedInduction

(* Induction over the natural numbers, for a set of numbers.                *)

\* A set that has 0 and with every number the next has every natural number.
LEMMA AllNaturals ==
  ASSUME NEW G \in SUBSET Nat, 0 \in G, \A n \in G : n + 1 \in G
  PROVE  G = Nat
<1> DEFINE Bad == Nat \ G
           Down == {0 .. x : x \in Bad}
           R == StrictSubsetOrdering(Nat)
<1> SUFFICES ASSUME Bad # {} PROVE FALSE
  OBVIOUS
<1>1. Down \subseteq FiniteSubsetsOf(Nat) /\ Down # {}
  <2>1. \A x \in Bad : x \in Int /\ 0 .. x \subseteq Nat
    OBVIOUS
  <2>2. \A x \in Bad : IsFiniteSet(0 .. x)
    BY <2>1, FS_Interval
  <2> QED
    BY <2>1, <2>2 DEF FiniteSubsetsOf
<1>2. PICK D \in Down : \A E \in Down : ~(<<E, D>> \in R)
  BY <1>1, FS_StrictSubsetOrderingWellFounded, WFMin
<1>3. PICK m \in Bad : D = 0 .. m
  BY <1>2
<1>4. m # 0 /\ m - 1 \in Nat /\ m - 1 \in Bad
  OBVIOUS
<1>5. 0 .. (m - 1) \subseteq 0 .. m /\ 0 .. (m - 1) # 0 .. m /\ 0 .. (m - 1) \in SUBSET Nat /\ 0 .. m \in SUBSET Nat
  <2>1. m \in 0 .. m /\ m \notin 0 .. (m - 1)
    BY <1>4
  <2> QED
    BY <2>1, <1>4
<1>6. <<0 .. (m - 1), 0 .. m>> \in R
  BY <1>5 DEF StrictSubsetOrdering
<1> QED
  BY <1>2, <1>3, <1>4, <1>6

\* The same for the numbers up to m.
LEMMA AllUpTo ==
  ASSUME NEW m \in Nat, NEW G, 0 \in G, \A n \in 0..(m - 1) : n \in G => n + 1 \in G
  PROVE  \A n \in 0..m : n \in G
<1> DEFINE H == {n \in Nat : n <= m => n \in G}
<1>1. 0 \in H
  OBVIOUS
<1>2. \A n \in H : n + 1 \in H
  OBVIOUS
<1>3. H = Nat
  <2>1. H \in SUBSET Nat
    OBVIOUS
  <2> HIDE DEF H
  <2> QED
    BY <1>1, <1>2, <2>1, AllNaturals
<1> QED
  BY <1>3

\* F begins with b and takes every value from the one before it.
Steps(F, V, m, b, next) == F \in [0..m -> V] /\ F[0] = b /\ \A i \in 1..m : F[i] = next[i][F[i-1]]

\* A function that is defined step by step from b exists.
LEMMA StepByStep ==
  ASSUME NEW V, NEW m \in Nat, NEW b \in V, NEW next \in [1..m -> [V -> V]]
  PROVE  \E F : Steps(F, V, m, b, next)
<1> USE DEF Steps
<1> DEFINE Good(F, n) == F \in [0..n -> V] /\ F[0] = b /\ \A i \in 1..n : F[i] = next[i][F[i-1]]
           G == {n \in 0..m : \E F : Good(F, n)}
<1>1. 0 \in G
  <2>1. Good([i \in 0..0 |-> b], 0)
    OBVIOUS
  <2> HIDE DEF Good
  <2> QED
    BY <2>1
<1>2. ASSUME NEW n \in 0..(m - 1), n \in G PROVE n + 1 \in G
  <2>1. PICK F : Good(F, n)
    <3> HIDE DEF Good
    <3> QED
      BY <1>2
  <2>2. n \in Nat /\ n + 1 \in 1..m /\ n + 1 \in 0..m
    OBVIOUS
  <2> DEFINE v == next[n + 1][F[n]]
             H == [i \in 0..(n + 1) |-> IF i = n + 1 THEN v ELSE F[i]]
  <2>3. v \in V
    <3>1. F[n] \in V /\ next[n + 1] \in [V -> V]
      BY <2>1, <2>2
    <3> QED
      BY <3>1
  <2>4. H[n + 1] = v /\ \A i \in 0..n : H[i] = F[i] /\ F[i] \in V
    <3> HIDE DEF v
    <3> QED
      BY <2>1, <2>2
  <2>5. \A i \in 0..(n + 1) : i \in 0..n \/ i = n + 1
    BY <2>2
  <2>6. H \in [0..(n + 1) -> V]
    <3> HIDE DEF v
    <3> QED
      BY <2>3, <2>4, <2>5
  <2> HIDE DEF H
  <2>7. H[0] = b
    BY <2>1, <2>2, <2>4
  <2>8. ASSUME NEW i \in 1..(n + 1) PROVE H[i] = next[i][H[i-1]]
    <3>1. i - 1 \in 0..n /\ H[i-1] = F[i-1]
      BY <2>2, <2>4
    <3>2. CASE i = n + 1
      <4>1. i - 1 = n
        BY <3>2, <2>2
      <4> QED
        BY <3>1, <3>2, <4>1, <2>4
    <3>3. CASE i \in 1..n
      <4>1. i \in 0..n
        BY <3>3, <2>2
      <4> QED
        BY <3>1, <3>3, <4>1, <2>1, <2>4
    <3> QED
      BY <3>2, <3>3, <2>2
  <2>9. Good(H, n + 1)
    BY <2>6, <2>7, <2>8
  <2> HIDE DEF Good
  <2> QED
    BY <2>2, <2>9
<1>3. m \in G
  <2> HIDE DEF G
  <2>1. m \in 0..m
    OBVIOUS
  <2> QED
    BY <1>1, <1>2, <2>1, AllUpTo
<1> QED
  BY <1>3

-----------------------------------------------------------------------------
(* What a filter keeps.                                                     *)

\* The recursive function of the filter exists, and has sequences of the
\* elements for values.
LEMMA KeptUpToRec ==
  ASSUME NEW T, NEW s \in Seq(T), NEW S
  PROVE  /\ KeptUpTo(s, S) \in [0..Len(s) -> Seq(T)]
         /\ KeptUpTo(s, S)[0] = <<>>
         /\ \A i \in 1..Len(s) : KeptUpTo(s, S)[i] =
              IF s[i] \in S THEN Append(KeptUpTo(s, S)[i-1], s[i]) ELSE KeptUpTo(s, S)[i-1]
<1> DEFINE Val(F, i) == IF i = 0 THEN <<>> ELSE IF s[i] \in S THEN Append(F[i-1], s[i]) ELSE F[i-1]
           Good(F, n) == F \in [0..n -> Seq(T)] /\ \A i \in 0..n : F[i] = Val(F, i)
           G == {n \in Nat : n <= Len(s) => \E F : Good(F, n)}
<1>1. 0 \in G
  <2>1. Good([i \in 0..0 |-> <<>>], 0)
    OBVIOUS
  <2> QED
    BY <2>1
<1>2. ASSUME NEW n \in G PROVE n + 1 \in G
  <2>0. n \in Nat /\ Len(s) \in Nat
    OBVIOUS
  <2>1. CASE n + 1 > Len(s)
    BY <2>1
  <2>2. CASE n + 1 <= Len(s)
    <3>1. PICK F : Good(F, n)
      <4> HIDE DEF Good
      <4> QED
        BY <2>2
    <3>2. n \in Nat /\ n + 1 \in 1..Len(s) /\ s[n + 1] \in T
      BY <2>2
    <3>3. F[n] \in Seq(T)
      BY <3>1, <3>2
    <3>4. Val(F, n + 1) = IF s[n + 1] \in S THEN Append(F[n], s[n + 1]) ELSE F[n]
      BY <3>2
    <3>5. Val(F, n + 1) \in Seq(T)
      <4>1. Append(F[n], s[n + 1]) \in Seq(T)
        BY <3>2, <3>3
      <4> QED
        BY <4>1, <3>3, <3>4
    <3> DEFINE H == [i \in 0..(n + 1) |-> IF i = n + 1 THEN Val(F, n + 1) ELSE F[i]]
    <3>6. H \in [0..(n + 1) -> Seq(T)]
      <4> HIDE DEF Val
      <4> QED
        BY <3>1, <3>2, <3>5
    <3>7. \A i \in 0..n : H[i] = F[i]
      BY <3>2
    <3>8. ASSUME NEW i \in 0..(n + 1) PROVE H[i] = Val(H, i)
      <4>1. CASE i = n + 1
        <5>1. H[i - 1] = F[i - 1] /\ i - 1 \in 0..n
          BY <4>1, <3>2
        <5>2. Val(H, i) = Val(F, i)
          BY <5>1
        <5>3. H[i] = Val(F, i)
          BY <4>1
        <5> QED
          BY <5>2, <5>3
      <4>2. CASE i = 0
        BY <4>2, <3>1, <3>2
      <4>3. CASE i \in 1..n
        <5>1. i - 1 \in 0..n /\ i \in 0..n /\ i # 0
          BY <4>3, <3>2
        <5>2. H[i - 1] = F[i - 1] /\ H[i] = F[i] /\ F[i] = Val(F, i)
          BY <5>1, <3>1, <3>7
        <5>3. Val(H, i) = Val(F, i)
          BY <5>2
        <5> QED
          BY <5>2, <5>3
      <4> QED
        BY <4>1, <4>2, <4>3, <3>2
    <3>9. Good(H, n + 1)
      <4> HIDE DEF H, Val
      <4> QED
        BY <3>6, <3>8
    <3> QED
      <4> HIDE DEF Good
      <4> QED
        BY <3>9, <3>2
  <2> HIDE DEF G
  <2> QED
    BY <2>0, <2>1, <2>2
<1>3. G = Nat
  <2> HIDE DEF G
  <2>1. G \in SUBSET Nat
    BY DEF G
  <2> QED
    BY <1>1, <1>2, <2>1, AllNaturals, SMTT(30)
<1>4. PICK F : Good(F, Len(s))
  <2>1. Len(s) \in G /\ Len(s) \in Nat
    <3> HIDE DEF G
    <3> QED
      BY <1>3
  <2> HIDE DEF Good
  <2> QED
    BY <2>1
<1>5. F = [i \in 0..Len(s) |-> Val(F, i)]
  <2> HIDE DEF Val
  <2> QED
    BY <1>4, SMTT(30)
<1>6. KeptUpTo(s, S) = [i \in 0..Len(s) |-> Val(KeptUpTo(s, S), i)]
  BY <1>5 DEF KeptUpTo
<1> DEFINE K == KeptUpTo(s, S)
<1>7. \A i \in 0..Len(s) : K[i] = Val(K, i)
  <2> HIDE DEF Val
  <2> QED
    BY <1>6
<1> HIDE DEF K
<1>8. K[0] = <<>>
  BY <1>7
<1>9. \A i \in 1..Len(s) : K[i] = IF s[i] \in S THEN Append(K[i-1], s[i]) ELSE K[i-1]
  BY <1>7
<1>10. \A i \in 0..Len(s) : K[i] \in Seq(T)
  <2> DEFINE L == {n \in Nat : n <= Len(s) => K[n] \in Seq(T)}
  <2>1. 0 \in L
    <3>1. K[0] \in Seq(T)
      BY <1>8
    <3> QED
      BY <3>1
  <2>2. ASSUME NEW n \in L PROVE n + 1 \in L
    <3>1. CASE n + 1 <= Len(s)
      <4>1. n + 1 \in 1..Len(s) /\ K[n] \in Seq(T) /\ (n + 1) - 1 = n /\ s[n + 1] \in T
        BY <3>1
      <4>2. K[n + 1] = IF s[n + 1] \in S THEN Append(K[n], s[n + 1]) ELSE K[n]
        BY <4>1, <1>9
      <4>3. Append(K[n], s[n + 1]) \in Seq(T)
        BY <4>1
      <4>4. K[n + 1] \in Seq(T)
        BY <4>1, <4>2, <4>3
      <4> QED
        BY <4>4
    <3> QED
      BY <3>1
  <2>3. L = Nat
    <3> HIDE DEF L
    <3>1. L \in SUBSET Nat
      BY DEF L
    <3> QED
      BY <2>1, <2>2, <3>1, AllNaturals
  <2> QED
    BY <2>3
<1>11. K \in [0..Len(s) -> Seq(T)]
  <2>1. K = [i \in 0..Len(s) |-> K[i]]
    BY <1>6 DEF K
  <2> QED
    BY <2>1, <1>10
<1> QED
  BY <1>8, <1>9, <1>11 DEF K

\* The elements of k are those of s that are in S, with their places in s.
KeptAt(s, S, k, at) ==
  /\ at \in [1..Len(k) -> 1..Len(s)]
  /\ \A i \in 1..Len(k) : k[i] = s[at[i]] /\ s[at[i]] \in S
  /\ \A i, j \in 1..Len(k) : i < j => at[i] < at[j]
  /\ \A p \in 1..Len(s) : s[p] \in S => \E i \in 1..Len(k) : at[i] = p

\* The filter keeps elements of the set, each at a later place than the one
\* before, and leaves none of them out.
LEMMA KeepPlaces ==
  ASSUME NEW T, NEW s \in Seq(T), NEW S
  PROVE  Keep(s, S) \in Seq(T) /\ \E at : KeptAt(s, S, Keep(s, S), at)
<1> DEFINE K == KeptUpTo(s, S)
           Map(n, at) ==
              /\ at \in [1..Len(K[n]) -> 1..n]
              /\ \A i \in 1..Len(K[n]) : K[n][i] = s[at[i]] /\ s[at[i]] \in S
              /\ \A i, j \in 1..Len(K[n]) : i < j => at[i] < at[j]
              /\ \A p \in 1..n : s[p] \in S => \E i \in 1..Len(K[n]) : at[i] = p
           G == {n \in 0..Len(s) : \E at : Map(n, at)}
<1>0. Len(s) \in Nat /\ \A i \in 1..Len(s) : s[i] \in T
  OBVIOUS
<1>1. /\ K \in [0..Len(s) -> Seq(T)]
      /\ K[0] = <<>>
      /\ \A i \in 1..Len(s) : K[i] = IF s[i] \in S THEN Append(K[i-1], s[i]) ELSE K[i-1]
  BY KeptUpToRec
<1> HIDE DEF K
<1>2. 0 \in G
  <2>1. Map(0, <<>>)
    BY <1>1
  <2> HIDE DEF Map
  <2> QED
    BY <2>1, <1>0
<1>3. ASSUME NEW n \in 0..(Len(s) - 1), n \in G PROVE n + 1 \in G
  <2>1. n \in Nat /\ n \in 0..Len(s) /\ n + 1 \in 1..Len(s) /\ (n + 1) - 1 = n /\ n + 1 \in 0..Len(s)
    BY <1>0
  <2>2. PICK at : Map(n, at)
    <3> HIDE DEF Map
    <3> QED
      BY <1>3
  <2>3. K[n + 1] = IF s[n + 1] \in S THEN Append(K[n], s[n + 1]) ELSE K[n]
    BY <1>1, <2>1
  <2>4. K[n] \in Seq(T) /\ Len(K[n]) \in Nat /\ s[n + 1] \in T
    BY <1>0, <1>1, <2>1
  <2>5. CASE s[n + 1] \notin S
    <3>1. K[n + 1] = K[n]
      BY <2>3, <2>5
    <3>2. Map(n + 1, at)
      <4>1. \A p \in 1..(n + 1) : p \in 1..n \/ p = n + 1
        BY <2>1
      <4> QED
        BY <2>1, <2>2, <2>4, <2>5, <3>1, <4>1
    <3> HIDE DEF Map
    <3> QED
      BY <3>2, <2>1
  <2>6. CASE s[n + 1] \in S
    <3> DEFINE l == Len(K[n])
               bt == [i \in 1..(l + 1) |-> IF i = l + 1 THEN n + 1 ELSE at[i]]
    <3>1. K[n + 1] = Append(K[n], s[n + 1]) /\ Len(K[n + 1]) = l + 1
      BY <2>3, <2>4, <2>6
    <3>2. K[n + 1][l + 1] = s[n + 1] /\ \A i \in 1..l : K[n + 1][i] = K[n][i]
      BY <3>1, <2>4
    <3>3. bt[l + 1] = n + 1 /\ \A i \in 1..l : bt[i] = at[i] /\ at[i] \in 1..n
      <4>1. l \in Nat /\ at \in [1..l -> 1..n]
        BY <2>2, <2>4
      <4> HIDE DEF l
      <4> QED
        BY <4>1
    <3>4. \A i \in 1..(l + 1) : i \in 1..l \/ i = l + 1
      BY <2>4
    <3>5. bt \in [1..(l + 1) -> 1..(n + 1)]
      <4>2. bt = [i \in 1..(l + 1) |-> bt[i]]
        <5> HIDE DEF l
        <5> QED
          OBVIOUS
      <4> HIDE DEF bt, l
      <4>1. \A i \in 1..(l + 1) : bt[i] \in 1..(n + 1)
        BY <3>3, <3>4, <2>1
      <4> QED
        BY <4>1, <4>2
    <3> HIDE DEF bt
    <3>6. \A i \in 1..(l + 1) : K[n + 1][i] = s[bt[i]] /\ s[bt[i]] \in S
      BY <3>2, <3>3, <3>4, <2>2, <2>6
    <3>7. \A i, j \in 1..(l + 1) : i < j => bt[i] < bt[j]
      <4> SUFFICES ASSUME NEW i \in 1..(l + 1), NEW j \in 1..(l + 1), i < j PROVE bt[i] < bt[j]
        OBVIOUS
      <4>1. i \in 1..l
        BY <2>4
      <4>2. CASE j = l + 1
        BY <4>1, <4>2, <3>3, <2>1
      <4>3. CASE j \in 1..l
        BY <4>1, <4>3, <3>3, <2>2
      <4> QED
        BY <4>2, <4>3, <3>4
    <3>8. \A p \in 1..(n + 1) : s[p] \in S => \E i \in 1..(l + 1) : bt[i] = p
      <4> SUFFICES ASSUME NEW p \in 1..(n + 1), s[p] \in S PROVE \E i \in 1..(l + 1) : bt[i] = p
        OBVIOUS
      <4>1. CASE p = n + 1
        BY <4>1, <3>3, <2>4
      <4>2. CASE p \in 1..n
        <5>1. PICK i \in 1..l : at[i] = p
          BY <4>2, <2>2
        <5> QED
          BY <5>1, <3>3, <2>4, SMTT(30)
      <4> QED
        BY <4>1, <4>2, <2>1
    <3>9. Map(n + 1, bt)
      BY <3>1, <3>5, <3>6, <3>7, <3>8
    <3> HIDE DEF Map
    <3> QED
      BY <3>9, <2>1
  <2> HIDE DEF G
  <2> QED
    BY <2>5, <2>6
<1>4. Len(s) \in G
  <2> HIDE DEF G
  <2>1. Len(s) \in 0..Len(s)
    BY <1>0
  <2> QED
    BY <1>0, <1>2, <1>3, <2>1, AllUpTo
<1>5. PICK at : Map(Len(s), at)
  <2> HIDE DEF Map
  <2> QED
    BY <1>4
<1>6. Keep(s, S) = K[Len(s)] /\ K[Len(s)] \in Seq(T)
  BY <1>0, <1>1 DEF Keep, K
<1>7. KeptAt(s, S, K[Len(s)], at)
  BY <1>5 DEF KeptAt
<1> QED
  BY <1>6, <1>7

\* Nothing else decides what is kept of a prefix.
LEMMA KeptOfPrefix ==
  ASSUME NEW T, NEW s \in Seq(T), NEW u \in Seq(T), NEW S,
         Len(s) <= Len(u), \A i \in 1..Len(s) : u[i] = s[i]
  PROVE  \A i \in 0..Len(s) : KeptUpTo(u, S)[i] = KeptUpTo(s, S)[i]
<1> DEFINE K == KeptUpTo(s, S)
           L == KeptUpTo(u, S)
           G == {n \in 0..Len(s) : L[n] = K[n]}
<1>0. Len(s) \in Nat /\ Len(u) \in Nat
  OBVIOUS
<1>1. K[0] = <<>> /\ \A i \in 1..Len(s) : K[i] = IF s[i] \in S THEN Append(K[i-1], s[i]) ELSE K[i-1]
  BY KeptUpToRec
<1>2. L[0] = <<>> /\ \A i \in 1..Len(u) : L[i] = IF u[i] \in S THEN Append(L[i-1], u[i]) ELSE L[i-1]
  BY KeptUpToRec
<1> HIDE DEF K, L
<1>3. 0 \in G
  BY <1>0, <1>1, <1>2
<1>4. ASSUME NEW n \in 0..(Len(s) - 1), n \in G PROVE n + 1 \in G
  <2>1. n + 1 \in 1..Len(s) /\ n + 1 \in 1..Len(u) /\ (n + 1) - 1 = n /\ n + 1 \in 0..Len(s)
    BY <1>0
  <2>2. L[n + 1] = IF u[n + 1] \in S THEN Append(L[n], u[n + 1]) ELSE L[n]
    BY <1>2, <2>1
  <2>3. K[n + 1] = IF s[n + 1] \in S THEN Append(K[n], s[n + 1]) ELSE K[n]
    BY <1>1, <2>1
  <2>4. L[n] = K[n] /\ u[n + 1] = s[n + 1]
    BY <1>4, <2>1
  <2>5. L[n + 1] = K[n + 1]
    BY <2>2, <2>3, <2>4
  <2> QED
    BY <2>1, <2>5
<1>5. \A n \in 0..Len(s) : n \in G
  <2> HIDE DEF G
  <2> QED
    BY <1>0, <1>3, <1>4, AllUpTo
<1> QED
  BY <1>5 DEF K, L

\* The filter of nothing, and of a sequence that has grown.
LEMMA KeepAppend ==
  ASSUME NEW T, NEW s \in Seq(T), NEW x \in T, NEW S
  PROVE  /\ Keep(<<>>, S) = <<>>
         /\ Keep(Append(s, x), S) = IF x \in S THEN Append(Keep(s, S), x) ELSE Keep(s, S)
<1> DEFINE u == Append(s, x)
<1>1. u \in Seq(T) /\ Len(u) = Len(s) + 1 /\ u[Len(s) + 1] = x /\ Len(s) \in Nat
      /\ \A i \in 1..Len(s) : u[i] = s[i]
  OBVIOUS
<1> HIDE DEF u
<1>2. KeptUpTo(u, S)[Len(s)] = KeptUpTo(s, S)[Len(s)]
  <2>1. Len(s) <= Len(u) /\ Len(s) \in 0..Len(s)
    BY <1>1
  <2> QED
    BY <1>1, <2>1, KeptOfPrefix
<1>3. KeptUpTo(u, S)[Len(s) + 1] =
        IF x \in S THEN Append(KeptUpTo(u, S)[Len(s)], x) ELSE KeptUpTo(u, S)[Len(s)]
  <2>1. \A i \in 1..Len(u) : KeptUpTo(u, S)[i] =
              IF u[i] \in S THEN Append(KeptUpTo(u, S)[i-1], u[i]) ELSE KeptUpTo(u, S)[i-1]
    BY <1>1, KeptUpToRec
  <2>2. Len(s) + 1 \in 1..Len(u) /\ (Len(s) + 1) - 1 = Len(s)
    BY <1>1
  <2> QED
    BY <2>1, <2>2, <1>1
<1>4. Keep(<<>>, S) = <<>>
  <2>1. <<>> \in Seq(T) /\ Len(<<>>) = 0
    OBVIOUS
  <2>2. KeptUpTo(<<>>, S)[0] = <<>>
    BY <2>1, KeptUpToRec
  <2> QED
    BY <2>1, <2>2 DEF Keep
<1> QED
  BY <1>1, <1>2, <1>3, <1>4 DEF Keep, u

\* What is kept is what the sequence has of the set.
LEMMA KeepElements ==
  ASSUME NEW T, NEW s \in Seq(T), NEW S
  PROVE  /\ Keep(s, S) \in Seq(T)
         /\ Len(Keep(s, S)) <= Len(s)
         /\ \A i \in 1..Len(Keep(s, S)) : Keep(s, S)[i] \in S /\ \E p \in 1..Len(s) : s[p] = Keep(s, S)[i]
         /\ \A p \in 1..Len(s) : s[p] \in S => \E i \in 1..Len(Keep(s, S)) : Keep(s, S)[i] = s[p]
<1> DEFINE k == Keep(s, S)
           G == {n \in 0..Len(s) : Len(KeptUpTo(s, S)[n]) <= n}
<1>0. PICK at : KeptAt(s, S, k, at)
  BY KeepPlaces
<1>1. /\ at \in [1..Len(k) -> 1..Len(s)]
      /\ \A i \in 1..Len(k) : k[i] = s[at[i]] /\ s[at[i]] \in S
      /\ \A i, j \in 1..Len(k) : i < j => at[i] < at[j]
      /\ \A p \in 1..Len(s) : s[p] \in S => \E i \in 1..Len(k) : at[i] = p
  BY <1>0 DEF KeptAt
<1>2. k \in Seq(T) /\ Len(s) \in Nat
  BY KeepPlaces
<1>3. Len(k) <= Len(s)
  <2>1. /\ KeptUpTo(s, S) \in [0..Len(s) -> Seq(T)]
        /\ KeptUpTo(s, S)[0] = <<>>
        /\ \A i \in 1..Len(s) : KeptUpTo(s, S)[i] =
              IF s[i] \in S THEN Append(KeptUpTo(s, S)[i-1], s[i]) ELSE KeptUpTo(s, S)[i-1]
    BY KeptUpToRec
  <2>2. 0 \in G
    BY <1>2, <2>1
  <2>3. ASSUME NEW n \in 0..(Len(s) - 1), n \in G PROVE n + 1 \in G
    <3>1. n + 1 \in 1..Len(s) /\ (n + 1) - 1 = n /\ n + 1 \in 0..Len(s) /\ n \in 0..Len(s) /\ n \in Nat
      BY <1>2
    <3>2. KeptUpTo(s, S)[n] \in Seq(T) /\ s[n + 1] \in T
      BY <2>1, <3>1
    <3>3. KeptUpTo(s, S)[n + 1] \in {KeptUpTo(s, S)[n], Append(KeptUpTo(s, S)[n], s[n + 1])}
      BY <2>1, <3>1
    <3>4. Len(Append(KeptUpTo(s, S)[n], s[n + 1])) = Len(KeptUpTo(s, S)[n]) + 1 /\ Len(KeptUpTo(s, S)[n]) \in Nat
      BY <3>2
    <3>5. Len(KeptUpTo(s, S)[n]) <= n
      BY <2>3
    <3>6. Len(KeptUpTo(s, S)[n + 1]) <= n + 1
      BY <3>1, <3>3, <3>4, <3>5
    <3> QED
      BY <3>1, <3>6
  <2>4. \A n \in 0..Len(s) : n \in G
    <3> HIDE DEF G
    <3> QED
      BY <1>2, <2>2, <2>3, AllUpTo
  <2>5. Len(s) \in 0..Len(s)
    BY <1>2
  <2> QED
    BY <2>4, <2>5 DEF Keep
<1>4. \A i \in 1..Len(k) : k[i] \in S /\ \E p \in 1..Len(s) : s[p] = k[i]
  BY <1>1
<1>5. \A p \in 1..Len(s) : s[p] \in S => \E i \in 1..Len(k) : k[i] = s[p]
  BY <1>1
<1> QED
  BY <1>2, <1>3, <1>4, <1>5

\* A filter leaves distinct elements distinct.
LEMMA KeepDistinct ==
  ASSUME NEW T, NEW s \in Seq(T), NEW S, NEW F,
         \A p, q \in 1..Len(s) : F[s[p]] = F[s[q]] => p = q
  PROVE  \A i, j \in 1..Len(Keep(s, S)) : F[Keep(s, S)[i]] = F[Keep(s, S)[j]] => i = j
<1> DEFINE k == Keep(s, S)
<1>0. PICK at : KeptAt(s, S, k, at)
  BY KeepPlaces
<1>1. /\ at \in [1..Len(k) -> 1..Len(s)]
      /\ \A i \in 1..Len(k) : k[i] = s[at[i]] /\ s[at[i]] \in S
      /\ \A i, j \in 1..Len(k) : i < j => at[i] < at[j]
      /\ \A p \in 1..Len(s) : s[p] \in S => \E i \in 1..Len(k) : at[i] = p
  BY <1>0 DEF KeptAt
<1>2. Len(k) \in Nat /\ Len(s) \in Nat
  BY KeepPlaces
<1> SUFFICES ASSUME NEW i \in 1..Len(k), NEW j \in 1..Len(k), F[k[i]] = F[k[j]] PROVE i = j
  OBVIOUS
<1>3. at[i] = at[j]
  BY <1>1
<1>4. at \in [1..Len(k) -> 1..Len(s)]
  BY <1>1
<1>5. at[i] \in 1..Len(s) /\ at[j] \in 1..Len(s)
  BY <1>4
<1>6. i \in Int /\ j \in Int /\ (i < j => at[i] < at[j]) /\ (j < i => at[j] < at[i])
  BY <1>1, <1>2
<1> QED
  BY <1>2, <1>3, <1>5, <1>6

\* One more element makes a finite set larger by one at the most.
LEMMA OneMore ==
  ASSUME NEW A, IsFiniteSet(A), NEW x
  PROVE  IsFiniteSet(A \cup {x}) /\ Cardinality(A \cup {x}) \in Nat /\ Cardinality(A \cup {x}) <= Cardinality(A) + 1
<1>1. Cardinality(A) \in Nat
  BY FS_CardinalityType
<1>2. CASE x \in A
  <2>1. A \cup {x} = A
    BY <1>2
  <2> QED
    BY <1>1, <2>1
<1>3. CASE x \notin A
  BY <1>1, <1>3, FS_AddElement
<1> QED
  BY <1>2, <1>3

\* What a filter drops: at least one place for every value that is not in the set.
LEMMA KeepLength ==
  ASSUME NEW T, NEW s \in Seq(T), NEW S, NEW D,
         D \cap S = {}, \A x \in D : \E p \in 1..Len(s) : s[p] = x
  PROVE  IsFiniteSet(D) /\ Len(Keep(s, S)) + Cardinality(D) <= Len(s)
<1> DEFINE K == KeptUpTo(s, S)
           V(n) == {x \in D : \E p \in 1..n : s[p] = x}
           G == {n \in 0..Len(s) : IsFiniteSet(V(n)) /\ Len(K[n]) + Cardinality(V(n)) <= n}
<1>0. Len(s) \in Nat
  OBVIOUS
<1>1. /\ K \in [0..Len(s) -> Seq(T)]
      /\ K[0] = <<>>
      /\ \A i \in 1..Len(s) : K[i] = IF s[i] \in S THEN Append(K[i-1], s[i]) ELSE K[i-1]
  BY KeptUpToRec
<1> HIDE DEF K
<1>2. 0 \in G
  <2>1. V(0) = {}
    OBVIOUS
  <2>2. IsFiniteSet({}) /\ Cardinality({}) = 0
    BY FS_EmptySet
  <2>3. Len(K[0]) = 0 /\ 0 \in 0..Len(s)
    BY <1>0, <1>1
  <2>4. IsFiniteSet(V(0)) /\ Cardinality(V(0)) = 0
    BY <2>1, <2>2, Zenon
  <2> HIDE DEF V
  <2> QED
    BY <2>3, <2>4
<1>3. ASSUME NEW n \in 0..(Len(s) - 1), n \in G PROVE n + 1 \in G
  <2>1. n + 1 \in 1..Len(s) /\ (n + 1) - 1 = n /\ n + 1 \in 0..Len(s) /\ n \in 0..Len(s) /\ n \in Nat
    BY <1>0
  <2>2. K[n] \in Seq(T) /\ s[n + 1] \in T /\ Len(K[n]) \in Nat
    BY <1>1, <2>1
  <2>3. K[n + 1] = IF s[n + 1] \in S THEN Append(K[n], s[n + 1]) ELSE K[n]
    BY <1>1, <2>1
  <2>4. IsFiniteSet(V(n)) /\ Len(K[n]) + Cardinality(V(n)) <= n /\ Cardinality(V(n)) \in Nat
    BY <1>3, FS_CardinalityType
  <2>5. CASE s[n + 1] \in S
    <3>1. V(n + 1) = V(n)
      <4>1. s[n + 1] \notin D
        BY <2>5
      <4>2. \A p \in 1..(n + 1) : p \in 1..n \/ p = n + 1
        BY <2>1
      <4>3. \A p \in 1..n : p \in 1..(n + 1)
        BY <2>1
      <4> QED
        BY <4>1, <4>2, <4>3
    <3>2. Len(K[n + 1]) = Len(K[n]) + 1
      BY <2>2, <2>3, <2>5
    <3> HIDE DEF V
    <3> QED
      BY <3>1, <3>2, <2>1, <2>2, <2>4
  <2>6. CASE s[n + 1] \notin S
    <3>1. V(n + 1) \subseteq V(n) \cup {s[n + 1]}
      BY <2>1
    <3>2. IsFiniteSet(V(n) \cup {s[n + 1]}) /\ Cardinality(V(n) \cup {s[n + 1]}) \in Nat
          /\ Cardinality(V(n) \cup {s[n + 1]}) <= Cardinality(V(n)) + 1
      <4> HIDE DEF V
      <4> QED
        BY <2>4, OneMore
    <3>3. IsFiniteSet(V(n + 1)) /\ Cardinality(V(n + 1)) <= Cardinality(V(n) \cup {s[n + 1]})
          /\ Cardinality(V(n + 1)) \in Nat
      <4> HIDE DEF V
      <4> QED
        BY <3>1, <3>2, FS_Subset, FS_CardinalityType
    <3>4. K[n + 1] = K[n]
      BY <2>3, <2>6
    <3> HIDE DEF V
    <3> QED
      BY <3>2, <3>3, <3>4, <2>1, <2>2, <2>4
  <2> HIDE DEF G
  <2> QED
    BY <2>5, <2>6
<1>4. Len(s) \in G
  <2> HIDE DEF G
  <2>1. Len(s) \in 0..Len(s)
    BY <1>0
  <2> QED
    BY <1>0, <1>2, <1>3, <2>1, AllUpTo
<1>5. V(Len(s)) = D
  OBVIOUS
<1> QED
  BY <1>4, <1>5 DEF K, Keep

\* As many places as values, at least.
LEMMA ValuesOfSeq ==
  ASSUME NEW T, NEW s \in Seq(T), NEW D, \A x \in D : \E p \in 1..Len(s) : s[p] = x
  PROVE  IsFiniteSet(D) /\ Cardinality(D) <= Len(s)
<1>1. IsFiniteSet(D) /\ Len(Keep(s, {})) + Cardinality(D) <= Len(s)
  BY KeepLength
<1>2. Keep(s, {}) \in Seq(T)
  BY KeepPlaces
<1>3. Len(Keep(s, {})) \in Nat /\ Cardinality(D) \in Nat /\ Len(s) \in Nat
  BY <1>1, <1>2, FS_CardinalityType
<1> QED
  BY <1>1, <1>3

\* The filter of two sequences one behind the other.
LEMMA KeepConcat ==
  ASSUME NEW T, NEW s \in Seq(T), NEW t \in Seq(T), NEW S
  PROVE  Keep(s \o t, S) = Keep(s, S) \o Keep(t, S)
<1> DEFINE u == s \o t
           K == KeptUpTo(u, S)
           L == KeptUpTo(t, S)
           G == {n \in 0..Len(t) : K[Len(s) + n] = Keep(s, S) \o L[n]}
<1>1. u \in Seq(T) /\ Len(u) = Len(s) + Len(t) /\ Len(s) \in Nat /\ Len(t) \in Nat
      /\ (\A i \in 1..Len(s) : u[i] = s[i]) /\ \A i \in 1..Len(t) : u[Len(s) + i] = t[i]
  OBVIOUS
<1> HIDE DEF u
<1>2. K \in [0..Len(u) -> Seq(T)] /\ K[0] = <<>>
      /\ \A i \in 1..Len(u) : K[i] = IF u[i] \in S THEN Append(K[i-1], u[i]) ELSE K[i-1]
  <2>1. u \in Seq(T)
    BY <1>1
  <2> QED
    BY <2>1, KeptUpToRec
<1>3. L \in [0..Len(t) -> Seq(T)] /\ L[0] = <<>>
      /\ \A i \in 1..Len(t) : L[i] = IF t[i] \in S THEN Append(L[i-1], t[i]) ELSE L[i-1]
  BY KeptUpToRec
<1>4. K[Len(s)] = Keep(s, S) /\ Keep(s, S) \in Seq(T)
  <2>1. Len(s) <= Len(u) /\ Len(s) \in 0..Len(s)
    BY <1>1
  <2>2. u \in Seq(T) /\ \A i \in 1..Len(s) : u[i] = s[i]
    BY <1>1
  <2>3. \A i \in 0..Len(s) : KeptUpTo(u, S)[i] = KeptUpTo(s, S)[i]
    BY <2>1, <2>2, KeptOfPrefix
  <2> QED
    BY <2>1, <2>3, KeepPlaces DEF Keep
<1> HIDE DEF K, L
<1>5. 0 \in G
  <2>1. Keep(s, S) \o <<>> = Keep(s, S)
    BY <1>4
  <2> QED
    BY <1>1, <1>3, <1>4, <2>1
<1>6. ASSUME NEW n \in 0..(Len(t) - 1), n \in G PROVE n + 1 \in G
  <2>1. /\ n + 1 \in 1..Len(t) /\ (n + 1) - 1 = n /\ n + 1 \in 0..Len(t) /\ n \in 0..Len(t) /\ n \in Nat
        /\ Len(s) + (n + 1) \in 1..Len(u) /\ (Len(s) + (n + 1)) - 1 = Len(s) + n
    BY <1>1
  <2>2. L[n + 1] = IF t[n + 1] \in S THEN Append(L[n], t[n + 1]) ELSE L[n]
    BY <1>3, <2>1
  <2>3. K[Len(s) + (n + 1)] =
          IF u[Len(s) + (n + 1)] \in S THEN Append(K[Len(s) + n], u[Len(s) + (n + 1)]) ELSE K[Len(s) + n]
    BY <1>2, <2>1
  <2>4. u[Len(s) + (n + 1)] = t[n + 1] /\ t[n + 1] \in T /\ L[n] \in Seq(T) /\ K[Len(s) + n] = Keep(s, S) \o L[n]
    <3>1. u[Len(s) + (n + 1)] = t[n + 1]
      BY <1>1, <2>1
    <3>2. t[n + 1] \in T
      BY <2>1
    <3>3. L[n] \in Seq(T)
      BY <1>3, <2>1
    <3>4. K[Len(s) + n] = Keep(s, S) \o L[n]
      BY <1>6
    <3> QED
      BY <3>1, <3>2, <3>3, <3>4
  <2>5. Append(Keep(s, S) \o L[n], t[n + 1]) = Keep(s, S) \o Append(L[n], t[n + 1])
    <3> DEFINE a == Keep(s, S)
               b == L[n]
               c == t[n + 1]
    <3>1. a \in Seq(T) /\ b \in Seq(T) /\ c \in T
      BY <1>4, <2>4
    <3> HIDE DEF a, b, c
    <3>2. Append(a \o b, c) = a \o Append(b, c)
      <4> DEFINE v == Append(a \o b, c)
                 w == a \o Append(b, c)
      <4>1. v \in Seq(T) /\ w \in Seq(T) /\ Len(v) = Len(w)
        BY <3>1
      <4>2. \A i \in 1..Len(v) : v[i] = w[i]
        BY <3>1
      <4> HIDE DEF v, w
      <4>3. v = w
        BY <4>1, <4>2, SeqEqual
      <4> QED
        BY <4>3 DEF v, w
    <3> QED
      BY <3>2 DEF a, b, c
  <2>6. K[Len(s) + (n + 1)] = Keep(s, S) \o L[n + 1]
    BY <2>2, <2>3, <2>4, <2>5
  <2> QED
    BY <2>1, <2>6
<1>7. Len(t) \in G
  <2> HIDE DEF G
  <2>1. Len(t) \in 0..Len(t)
    BY <1>1
  <2> QED
    BY <1>1, <1>5, <1>6, <2>1, AllUpTo
<1>8. K[Len(u)] = Keep(s, S) \o L[Len(t)]
  BY <1>1, <1>7
<1> QED
  BY <1>8 DEF K, L, Keep, u

-----------------------------------------------------------------------------
(* How often a value occurs.                                                *)

\* In nothing, in a sequence that has grown by an element, in two sequences one
\* behind the other; a value that occurs is somewhere.
LEMMA Counts ==
  ASSUME NEW T, NEW s \in Seq(T), NEW x
  PROVE  /\ Count(s, x) \in Nat
         /\ Count(<<>>, x) = 0
         /\ \A y \in T : Count(Append(s, y), x) = IF y = x THEN Count(s, x) + 1 ELSE Count(s, x)
         /\ \A t \in Seq(T) : Count(s \o t, x) = Count(s, x) + Count(t, x)
         /\ Count(s, x) > 0 <=> \E p \in 1..Len(s) : s[p] = x
<1>1. Keep(s, {x}) \in Seq(T)
  BY KeepPlaces
<1>2. Count(s, x) \in Nat
  BY <1>1 DEF Count
<1>3. Count(<<>>, x) = 0
  <2>1. <<>> \in Seq({x}) /\ x \in {x}
    OBVIOUS
  <2>2. Keep(<<>>, {x}) = <<>>
    BY <2>1, KeepAppend
  <2> QED
    BY <2>2 DEF Count
<1>4. ASSUME NEW y \in T
      PROVE  Count(Append(s, y), x) = IF y = x THEN Count(s, x) + 1 ELSE Count(s, x)
  <2>1. Keep(Append(s, y), {x}) = IF y \in {x} THEN Append(Keep(s, {x}), y) ELSE Keep(s, {x})
    BY KeepAppend
  <2>2. Len(Append(Keep(s, {x}), y)) = Len(Keep(s, {x})) + 1
    BY <1>1
  <2> QED
    BY <2>1, <2>2 DEF Count
<1>5. ASSUME NEW t \in Seq(T) PROVE Count(s \o t, x) = Count(s, x) + Count(t, x)
  <2>1. Keep(s \o t, {x}) = Keep(s, {x}) \o Keep(t, {x}) /\ Keep(t, {x}) \in Seq(T)
    <3>1. Keep(s \o t, {x}) = Keep(s, {x}) \o Keep(t, {x})
      BY KeepConcat
    <3>2. Keep(t, {x}) \in Seq(T)
      BY KeepPlaces
    <3> QED
      BY <3>1, <3>2
  <2> QED
    BY <1>1, <2>1 DEF Count
<1>6. Count(s, x) > 0 <=> \E p \in 1..Len(s) : s[p] = x
  <2>1. /\ \A i \in 1..Len(Keep(s, {x})) : Keep(s, {x})[i] \in {x} /\ \E p \in 1..Len(s) : s[p] = Keep(s, {x})[i]
        /\ \A p \in 1..Len(s) : s[p] \in {x} => \E i \in 1..Len(Keep(s, {x})) : Keep(s, {x})[i] = s[p]
    <3> DEFINE Z == {x}
               k == Keep(s, Z)
    <3> HIDE DEF Z
    <3>1. \A i \in 1..Len(k) : k[i] \in Z /\ \E p \in 1..Len(s) : s[p] = k[i]
      BY KeepElements
    <3>2. \A p \in 1..Len(s) : s[p] \in Z => \E i \in 1..Len(k) : k[i] = s[p]
      BY KeepElements
    <3> QED
      BY <3>1, <3>2 DEF Z
  <2>2. ASSUME Count(s, x) > 0 PROVE \E p \in 1..Len(s) : s[p] = x
    <3>1. 1 \in 1..Len(Keep(s, {x}))
      BY <1>2, <2>2 DEF Count
    <3> QED
      BY <3>1, <2>1
  <2>3. ASSUME NEW p \in 1..Len(s), s[p] = x PROVE Count(s, x) > 0
    <3>1. PICK i \in 1..Len(Keep(s, {x})) : TRUE
      BY <2>1, <2>3
    <3> QED
      BY <3>1, <1>2 DEF Count
  <2> QED
    BY <2>2, <2>3
<1> QED
  BY <1>2, <1>3, <1>4, <1>5, <1>6

\* A queue that has lost its head.
LEMMA CountTail ==
  ASSUME NEW T, NEW s \in Seq(T), s # <<>>, NEW x
  PROVE  /\ Tail(s) \in Seq(T) /\ Head(s) \in T
         /\ Count(s, x) = IF Head(s) = x THEN Count(Tail(s), x) + 1 ELSE Count(Tail(s), x)
<1>1. Tail(s) \in Seq(T) /\ Head(s) \in T /\ <<Head(s)>> \in Seq(T) /\ s = <<Head(s)>> \o Tail(s)
  OBVIOUS
<1>2. <<>> \in Seq(T) /\ <<Head(s)>> = Append(<<>>, Head(s))
  BY <1>1
<1> DEFINE h == <<Head(s)>>
           r == Tail(s)
           e == <<>>
<1>3. Count(h, x) = IF Head(s) = x THEN 1 ELSE 0
  <2>1. Count(e, x) = 0
    BY <1>1, Counts
  <2>2. \A y \in T : Count(Append(e, y), x) = IF y = x THEN Count(e, x) + 1 ELSE Count(e, x)
    <3>1. e \in Seq(T)
      BY <1>2
    <3> HIDE DEF e
    <3> QED
      BY <3>1, Counts
  <2>3. Count(Append(e, Head(s)), x) = IF Head(s) = x THEN Count(e, x) + 1 ELSE Count(e, x)
    BY <2>2, <1>1
  <2> QED
    BY <2>1, <2>3, <1>2
<1>4. \A t \in Seq(T) : Count(h \o t, x) = Count(h, x) + Count(t, x)
  <2> HIDE DEF h
  <2>1. h \in Seq(T)
    BY <1>1 DEF h
  <2> QED
    BY <2>1, Counts
<1>5. Count(h \o r, x) = Count(h, x) + Count(r, x)
  BY <1>1, <1>4
<1>6. Count(r, x) \in Nat
  BY <1>1, Counts
<1> HIDE DEF h, r
<1>7. Count(s, x) = IF Head(s) = x THEN Count(r, x) + 1 ELSE Count(r, x)
  <2>1. s = h \o r
    BY <1>1 DEF h, r
  <2> QED
    BY <2>1, <1>3, <1>5, <1>6
<1> QED
  BY <1>1, <1>7 DEF r

-----------------------------------------------------------------------------
(* QueryCache.  The places of access_order are the entries, and one place for *)
(* every time a key was left behind: a get that found its entry expired, or a *)
(* set of a key that was there.                                              *)

Listed(x) == \E p \in 1..Len(access_order) : access_order[p] = x

QcacheInv ==
  /\ access_order \in Seq(CKeys)
  /\ spoilt \in Nat
  /\ \A x \in DOMAIN cache : Listed(x)
  /\ Len(access_order) <= Cardinality(DOMAIN cache) + spoilt
  /\ Len(access_order) <= MaxSize + spoilt

\* The entries are finitely many, and no more than the places.
LEMMA QcacheFinite ==
  ASSUME QcacheInv
  PROVE  /\ IsFiniteSet(DOMAIN cache) /\ Cardinality(DOMAIN cache) \in Nat /\ Len(access_order) \in Nat
         /\ Cardinality(DOMAIN cache) <= Len(access_order) /\ DOMAIN cache \subseteq CKeys
<1>1. access_order \in Seq(CKeys) /\ \A x \in DOMAIN cache : \E p \in 1..Len(access_order) : access_order[p] = x
  BY DEF QcacheInv, Listed
<1>2. IsFiniteSet(DOMAIN cache) /\ Cardinality(DOMAIN cache) <= Len(access_order)
  BY <1>1, ValuesOfSeq
<1>3. DOMAIN cache \subseteq CKeys
  BY <1>1
<1> QED
  BY <1>1, <1>2, <1>3, FS_CardinalityType

\* The sizes are natural numbers.
LEMMA CacheSizes == MaxSize \in Nat /\ MaxSize > 0 /\ EngineSize \in Nat /\ EngineSize > 0
  BY CachesAssumption

\* What access_order is when the keys of D, which it has, are forgotten.
LEMMA ForgetKeys ==
  ASSUME QcacheInv, NEW D \in SUBSET DOMAIN cache
  PROVE  /\ Forget(D) \in Seq(CKeys) /\ Len(Forget(D)) \in Nat
         /\ IsFiniteSet(D) /\ Cardinality(D) \in Nat
         /\ Len(Forget(D)) + Cardinality(D) <= Len(access_order)
         /\ \A x \in DOMAIN cache \ D : \E p \in 1..Len(Forget(D)) : Forget(D)[p] = x
<1>1. access_order \in Seq(CKeys) /\ \A x \in DOMAIN cache : \E p \in 1..Len(access_order) : access_order[p] = x
  BY DEF QcacheInv, Listed
<1> DEFINE S == CKeys \ D
           f == Keep(access_order, S)
<1>2. D \cap S = {} /\ \A x \in D : \E p \in 1..Len(access_order) : access_order[p] = x
  BY <1>1
<1>3. DOMAIN cache \ D \subseteq S
  BY QcacheFinite
<1> HIDE DEF S
<1>4. IsFiniteSet(D) /\ Len(f) + Cardinality(D) <= Len(access_order)
  BY <1>1, <1>2, KeepLength
<1>5. f \in Seq(CKeys)
  BY <1>1, KeepElements
<1>6. \A p \in 1..Len(access_order) : access_order[p] \in S => \E i \in 1..Len(f) : f[i] = access_order[p]
  BY <1>1, KeepElements
<1>7. \A x \in DOMAIN cache \ D : \E p \in 1..Len(f) : f[p] = x
  BY <1>1, <1>3, <1>6
<1>8. f = Forget(D)
  BY DEF Forget, S
<1>9. Cardinality(D) \in Nat /\ Len(f) \in Nat
  BY <1>4, <1>5, FS_CardinalityType
<1> HIDE DEF f
<1> QED
  BY <1>4, <1>5, <1>7, <1>8, <1>9

\* A set of entries that loses a part.
LEMMA DropCount ==
  ASSUME NEW A, IsFiniteSet(A), NEW D \in SUBSET A
  PROVE  IsFiniteSet(A \ D) /\ Cardinality(A \ D) \in Nat /\ Cardinality(A \ D) = Cardinality(A) - Cardinality(D)
<1>1. IsFiniteSet(D) /\ IsFiniteSet(A \ D)
  BY FS_Subset
<1>2. A \cap D = D
  OBVIOUS
<1> QED
  BY <1>1, <1>2, FS_Difference, FS_CardinalityType

\* get: an entry that has expired leaves its place behind.
LEMMA GetInv ==
  ASSUME QcacheInv, NEW k \in CKeys, CacheGet(k)
  PROVE  QcacheInv'
<1>0. /\ access_order \in Seq(CKeys) /\ spoilt \in Nat /\ \A x \in DOMAIN cache : Listed(x)
      /\ Len(access_order) <= Cardinality(DOMAIN cache) + spoilt /\ Len(access_order) <= MaxSize + spoilt
  BY DEF QcacheInv
<1>1. /\ IsFiniteSet(DOMAIN cache) /\ Cardinality(DOMAIN cache) \in Nat /\ Len(access_order) \in Nat
      /\ MaxSize \in Nat
  BY QcacheFinite, CacheSizes
<1>2. CASE k \notin DOMAIN cache
  <2>1. UNCHANGED <<cache, access_order, spoilt>>
    BY <1>2, Zenon DEF CacheGet
  <2> QED
    BY <2>1, <1>0 DEF QcacheInv, Listed
<1>3. CASE k \in DOMAIN cache /\ is_expired(k)
  <2>1. cache' = Drop({k}) /\ spoilt' = spoilt + 1 /\ access_order' = access_order
    BY <1>3, Zenon DEF CacheGet
  <2>2. DOMAIN cache' = DOMAIN cache \ {k}
    BY <2>1 DEF Drop
  <2>3. Cardinality(DOMAIN cache \ {k}) = Cardinality(DOMAIN cache) - 1
    BY <1>1, <1>3, FS_RemoveElement
  <2>4. Len(access_order') <= Cardinality(DOMAIN cache') + spoilt'
    BY <1>0, <1>1, <2>1, <2>2, <2>3
  <2>5. spoilt' \in Nat /\ Len(access_order') <= MaxSize + spoilt'
    BY <1>0, <1>1, <2>1
  <2> QED
    BY <1>0, <2>1, <2>2, <2>4, <2>5 DEF QcacheInv, Listed
<1>4. CASE k \in DOMAIN cache /\ ~is_expired(k)
  <2>1. access_order' = Append(Forget({k}), k) /\ cache' = cache /\ spoilt' = spoilt
    BY <1>4, Zenon DEF CacheGet
  <2> DEFINE f == Forget({k})
  <2>2. /\ f \in Seq(CKeys) /\ Len(f) \in Nat /\ Cardinality({k}) \in Nat
        /\ Len(f) + Cardinality({k}) <= Len(access_order)
        /\ \A x \in DOMAIN cache \ {k} : \E p \in 1..Len(f) : f[p] = x
    <3>1. {k} \in SUBSET DOMAIN cache
      BY <1>4
    <3> QED
      BY <3>1, ForgetKeys
  <2>3. Cardinality({k}) = 1
    BY FS_Singleton
  <2> HIDE DEF f
  <2>4. /\ Append(f, k) \in Seq(CKeys) /\ Len(Append(f, k)) = Len(f) + 1 /\ Append(f, k)[Len(f) + 1] = k
        /\ \A p \in 1..Len(f) : Append(f, k)[p] = f[p]
    BY <2>2
  <2>5. \A x \in DOMAIN cache : \E p \in 1..(Len(f) + 1) : Append(f, k)[p] = x
    BY <2>2, <2>4
  <2>6. Len(Append(f, k)) <= Len(access_order)
    BY <1>1, <2>2, <2>3, <2>4
  <2>7. Append(f, k) = access_order'
    BY <2>1 DEF f
  <2>8. Len(access_order') <= Cardinality(DOMAIN cache) + spoilt /\ Len(access_order') <= MaxSize + spoilt
    BY <1>0, <1>1, <2>2, <2>4, <2>6, <2>7
  <2> QED
    BY <1>0, <2>1, <2>4, <2>5, <2>7, <2>8 DEF QcacheInv, Listed
<1> QED
  BY <1>2, <1>3, <1>4

\* set: a full cache gives up the first place; the new key has the last one.
LEMMA SetInv ==
  ASSUME QcacheInv, NEW k \in CKeys, CacheSet(k)
  PROVE  QcacheInv'
<1> DEFINE full == Cardinality(DOMAIN cache) >= MaxSize /\ access_order # <<>>
           order == IF full THEN Tail(access_order) ELSE access_order
           left == IF full THEN DOMAIN cache \ {Head(access_order)} ELSE DOMAIN cache
           more == IF k \in DOMAIN cache THEN 1 ELSE 0
<1>0. /\ access_order \in Seq(CKeys) /\ spoilt \in Nat
      /\ \A x \in DOMAIN cache : \E p \in 1..Len(access_order) : access_order[p] = x
      /\ Len(access_order) <= Cardinality(DOMAIN cache) + spoilt /\ Len(access_order) <= MaxSize + spoilt
  BY DEF QcacheInv, Listed
<1>1. /\ IsFiniteSet(DOMAIN cache) /\ Cardinality(DOMAIN cache) \in Nat /\ Len(access_order) \in Nat
      /\ Cardinality(DOMAIN cache) <= Len(access_order) /\ MaxSize \in Nat /\ MaxSize > 0
  BY QcacheFinite, CacheSizes
<1>2. access_order' = Append(order, k) /\ DOMAIN cache' = left \cup {k} /\ spoilt' = spoilt + more
  BY Zenon DEF CacheSet, Drop
<1>3. /\ order \in Seq(CKeys) /\ Len(order) \in Nat /\ left \subseteq DOMAIN cache
      /\ \A x \in left : \E p \in 1..Len(order) : order[p] = x
  <2>1. CASE ~full
    BY <2>1, <1>0, <1>1
  <2>2. CASE full
    <3>1. /\ Tail(access_order) \in Seq(CKeys) /\ Len(Tail(access_order)) = Len(access_order) - 1
          /\ \A p \in 2..Len(access_order) : Tail(access_order)[p - 1] = access_order[p]
          /\ Head(access_order) = access_order[1]
      BY <2>2, <1>0, <1>1
    <3>2. ASSUME NEW x \in DOMAIN cache \ {Head(access_order)}
          PROVE  \E p \in 1..Len(Tail(access_order)) : Tail(access_order)[p] = x
      <4>1. PICK p \in 1..Len(access_order) : access_order[p] = x
        BY <1>0
      <4>2. p \in 2..Len(access_order) /\ p - 1 \in 1..(Len(access_order) - 1)
        BY <4>1, <3>1, <1>1
      <4> QED
        BY <4>1, <4>2, <3>1
    <3>3. order = Tail(access_order) /\ left = DOMAIN cache \ {Head(access_order)}
      BY <2>2
    <3>4. Len(Tail(access_order)) \in Nat
      BY <3>1
    <3> HIDE DEF order, left
    <3> QED
      BY <3>1, <3>2, <3>3, <3>4
  <2> QED
    BY <2>1, <2>2
<1>4. /\ Append(order, k) \in Seq(CKeys) /\ Len(Append(order, k)) = Len(order) + 1
      /\ \A x \in left \cup {k} : \E p \in 1..(Len(order) + 1) : Append(order, k)[p] = x
  <2> HIDE DEF order, left
  <2>1. /\ Append(order, k) \in Seq(CKeys) /\ Len(Append(order, k)) = Len(order) + 1
        /\ Append(order, k)[Len(order) + 1] = k /\ \A p \in 1..Len(order) : Append(order, k)[p] = order[p]
    BY <1>3
  <2> QED
    BY <1>3, <2>1
<1>5. IsFiniteSet(left) /\ Cardinality(left) \in Nat
  BY <1>1, <1>3, FS_Subset, FS_CardinalityType
<1>6. Cardinality(left \cup {k}) = IF k \in left THEN Cardinality(left) ELSE Cardinality(left) + 1
  BY <1>5, FS_AddElement
<1>7. /\ full => Len(order) = Len(access_order) - 1
      /\ ~full => Len(order) = Len(access_order) /\ left = DOMAIN cache /\ Cardinality(DOMAIN cache) < MaxSize
  <2>1. CASE full
    BY <2>1, <1>0
  <2>2. CASE ~full
    <3>1. access_order # <<>> \/ Cardinality(DOMAIN cache) = 0
      BY <1>0, <1>1
    <3>2. Cardinality(DOMAIN cache) < MaxSize
      BY <2>2, <3>1, <1>1
    <3> QED
      BY <2>2, <3>2
  <2> QED
    BY <2>1, <2>2
<1>8. full => Cardinality(left) = IF Head(access_order) \in DOMAIN cache THEN Cardinality(DOMAIN cache) - 1 ELSE Cardinality(DOMAIN cache)
  BY <1>1, FS_RemoveElement
<1>9. full /\ k \in DOMAIN cache /\ k \notin left => Head(access_order) = k
  OBVIOUS
<1>10. k \notin DOMAIN cache => k \notin left
  BY <1>3
<1>11. more \in Nat /\ (k \in DOMAIN cache => more = 1) /\ (k \notin DOMAIN cache => more = 0)
  OBVIOUS
<1> HIDE DEF full, order, left, more
<1>12. Len(order) + 1 <= Cardinality(left \cup {k}) + (spoilt + more)
  <2>1. CASE full
    <3>1. CASE k \in DOMAIN cache
      <4>1. CASE k \in left
        BY <2>1, <3>1, <4>1, <1>0, <1>1, <1>5, <1>6, <1>7, <1>8, <1>11
      <4>2. CASE k \notin left
        BY <2>1, <3>1, <4>2, <1>0, <1>1, <1>5, <1>6, <1>7, <1>8, <1>9, <1>11
      <4> QED
        BY <4>1, <4>2
    <3>2. CASE k \notin DOMAIN cache
      BY <2>1, <3>2, <1>0, <1>1, <1>5, <1>6, <1>7, <1>8, <1>10, <1>11
    <3> QED
      BY <3>1, <3>2
  <2>2. CASE ~full
    BY <2>2, <1>0, <1>1, <1>5, <1>6, <1>7, <1>11
  <2> QED
    BY <2>1, <2>2
<1>13. Len(order) + 1 <= MaxSize + (spoilt + more)
  BY <1>0, <1>1, <1>3, <1>7, <1>11
<1>14. spoilt + more \in Nat
  BY <1>0, <1>11
<1> QED
  BY <1>2, <1>4, <1>12, <1>13, <1>14 DEF QcacheInv, Listed

\* remove and cleanup_expired: the entries and every place of their keys go.
LEMMA ForgetInv ==
  ASSUME QcacheInv, NEW D \in SUBSET DOMAIN cache,
         cache' = Drop(D), access_order' = Forget(D), spoilt' = spoilt
  PROVE  QcacheInv'
<1>0. /\ access_order \in Seq(CKeys) /\ spoilt \in Nat
      /\ Len(access_order) <= Cardinality(DOMAIN cache) + spoilt /\ Len(access_order) <= MaxSize + spoilt
  BY DEF QcacheInv
<1>1. /\ IsFiniteSet(DOMAIN cache) /\ Cardinality(DOMAIN cache) \in Nat /\ Len(access_order) \in Nat
      /\ MaxSize \in Nat
  BY QcacheFinite, CacheSizes
<1> DEFINE f == Forget(D)
<1>2. /\ f \in Seq(CKeys) /\ Len(f) \in Nat /\ Cardinality(D) \in Nat
      /\ Len(f) + Cardinality(D) <= Len(access_order)
      /\ \A x \in DOMAIN cache \ D : \E p \in 1..Len(f) : f[p] = x
  BY ForgetKeys
<1>3. DOMAIN cache' = DOMAIN cache \ D
  BY DEF Drop
<1>4. Cardinality(DOMAIN cache \ D) = Cardinality(DOMAIN cache) - Cardinality(D)
  BY <1>1, DropCount
<1>5. Len(f) <= Cardinality(DOMAIN cache \ D) + spoilt /\ Len(f) <= MaxSize + spoilt
  <2> HIDE DEF f
  <2> QED
    BY <1>0, <1>1, <1>2, <1>4
<1>6. access_order' = f
  OBVIOUS
<1> HIDE DEF f
<1> QED
  BY <1>0, <1>2, <1>3, <1>5, <1>6 DEF QcacheInv, Listed

\* clear: nothing is left.
LEMMA ClearInv ==
  ASSUME QcacheInv, cache' = <<>>, access_order' = <<>>, spoilt' = spoilt
  PROVE  QcacheInv'
<1>1. spoilt \in Nat /\ MaxSize \in Nat
  BY CacheSizes DEF QcacheInv
<1>2. DOMAIN cache' = {} /\ Cardinality({}) = 0
  BY FS_EmptySet
<1>3. access_order' \in Seq(CKeys) /\ Len(access_order') = 0
  OBVIOUS
<1> QED
  BY <1>1, <1>2, <1>3 DEF QcacheInv, Listed

\* Every call of QueryCache keeps its invariant.
LEMMA QcacheStep ==
  ASSUME QcacheInv, [CachesNext]_<<qcacheVars, engineVars>>
  PROVE  QcacheInv'
<1>1. ASSUME NEW k \in CKeys, CacheGet(k) PROVE QcacheInv'
  BY <1>1, GetInv
<1>2. ASSUME NEW k \in CKeys, CacheSet(k) PROVE QcacheInv'
  BY <1>2, SetInv
<1>3. ASSUME NEW k \in CKeys, CacheRemove(k) PROVE QcacheInv'
  <2>1. {k} \in SUBSET DOMAIN cache /\ cache' = Drop({k}) /\ access_order' = Forget({k}) /\ spoilt' = spoilt
    BY <1>3 DEF CacheRemove
  <2> QED
    BY <2>1, ForgetInv
<1>4. CASE CacheClear
  BY <1>4, ClearInv DEF CacheClear
<1>5. CASE CacheCleanup
  <2> DEFINE old == {k \in DOMAIN cache : is_expired(k)}
  <2>1. old \in SUBSET DOMAIN cache /\ cache' = Drop(old) /\ access_order' = Forget(old) /\ spoilt' = spoilt
    BY <1>5 DEF CacheCleanup
  <2> HIDE DEF old
  <2> QED
    BY <2>1, ForgetInv
<1>6. CASE UNCHANGED <<cache, access_order, spoilt>>
  BY <1>6 DEF QcacheInv, Listed
<1>7. CASE CacheTick \/ EngineNext \/ UNCHANGED <<qcacheVars, engineVars>>
  <2>1. UNCHANGED <<cache, access_order, spoilt>>
    BY <1>7 DEF CacheTick, EngineNext, StoreChanges, clear_cache, EngineHit, EngineMiss, EngineExecute,
                EnginePut, EngineAgain, qcacheVars
  <2> QED
    BY <2>1, <1>6
<1> QED
  BY <1>1, <1>2, <1>3, <1>4, <1>5, <1>7 DEF CachesNext, QcacheNext

-----------------------------------------------------------------------------
(* The engine's LRU cache.  An entry was found by the task that put it, not    *)
(* later than now; a task holds an old result only when it was at work during *)
(* the last clear_cache.                                                     *)

LruEntry == [key : CKeys, version : Nat, by : Askers]
AskRecord == [pc : {"idle", "run", "put", "done"}, key : CKeys \cup {""}, version : Nat,
              since : Nat, old : BOOLEAN]

EngineType ==
  /\ store \in Nat /\ clearedAt \in Nat /\ clearedAt <= store
  /\ lru \in Seq(LruEntry)
  /\ asker \in [Askers -> AskRecord]
  /\ \A a \in Askers : asker[a].pc \in {"run", "put"} => asker[a].key \in CKeys

LruSound ==
  /\ Len(lru) <= EngineSize
  /\ \A i, j \in 1..Len(lru) : lru[i].key = lru[j].key => i = j
  /\ \A i \in 1..Len(lru) :
       /\ enabled /\ lru[i].key \in Cacheable /\ lru[i].version <= store
       /\ lru[i].version < clearedAt => lru[i].by \in inFlight

PutSound ==
  \A a \in Askers : asker[a].pc = "put" =>
    asker[a].version <= store /\ (asker[a].version < clearedAt => a \in inFlight)

EngineInv == EngineType /\ LruSound /\ PutSound

\* The entries of the other keys: distinct, none new, and fewer when the key had
\* one.
LEMMA OtherEntries ==
  ASSUME EngineInv, NEW k
  PROVE  /\ Others(k) \in Seq(LruEntry)
         /\ Len(Others(k)) <= Len(lru) /\ Len(Others(k)) \in Nat
         /\ EntriesOf(k) # {} => Len(Others(k)) + 1 <= Len(lru)
         /\ \A i \in 1..Len(Others(k)) : Others(k)[i].key # k /\ \E p \in 1..Len(lru) : lru[p] = Others(k)[i]
         /\ \A i, j \in 1..Len(Others(k)) : Others(k)[i].key = Others(k)[j].key => i = j
<1> DEFINE S == {e \in ToSet(lru) : e.key # k}
           F == [e \in LruEntry |-> e.key]
           o == Keep(lru, S)
<1>0. lru \in Seq(LruEntry) /\ Len(lru) \in Nat /\ DOMAIN lru = 1..Len(lru) /\ \A i \in 1..Len(lru) : lru[i] \in LruEntry
  BY DEF EngineInv, EngineType
<1>1. \A e \in S : e.key # k
  OBVIOUS
<1>2. \A p, q \in 1..Len(lru) : F[lru[p]] = F[lru[q]] => p = q
  BY <1>0 DEF EngineInv, LruSound
<1>3. \A e \in LruEntry : F[e] = e.key
  OBVIOUS
<1> HIDE DEF S, F
<1>4. o \in Seq(LruEntry)
  BY <1>0, KeepElements
<1>5. Len(o) <= Len(lru)
  BY <1>0, KeepElements
<1>6. \A i \in 1..Len(o) : o[i] \in S /\ \E p \in 1..Len(lru) : lru[p] = o[i]
  BY <1>0, KeepElements
<1>7. \A i, j \in 1..Len(o) : F[o[i]] = F[o[j]] => i = j
  BY <1>0, <1>2, KeepDistinct
<1>8. \A i, j \in 1..Len(o) : o[i].key = o[j].key => i = j
  BY <1>3, <1>4, <1>7
<1>9. ASSUME EntriesOf(k) # {} PROVE Len(o) + 1 <= Len(lru)
  <2>1. PICK p \in 1..Len(lru) : lru[p].key = k
    BY <1>9, <1>0 DEF EntriesOf
  <2> DEFINE D == {lru[p]}
  <2>2. D \cap S = {} /\ \A x \in D : \E q \in 1..Len(lru) : lru[q] = x
    BY <2>1, <1>1
  <2>3. Cardinality(D) = 1
    BY FS_Singleton
  <2> HIDE DEF D
  <2>4. Len(o) + Cardinality(D) <= Len(lru)
    BY <1>0, <2>2, KeepLength
  <2> QED
    BY <2>3, <2>4
<1>10. o = Others(k) /\ Len(o) \in Nat
  BY <1>4 DEF Others, S
<1> HIDE DEF o
<1> QED
  BY <1>1, <1>4, <1>5, <1>6, <1>8, <1>9, <1>10

\* A hit moves the entry to the end.
LEMMA HitInv ==
  ASSUME EngineInv, NEW a \in Askers, NEW k \in CKeys, EngineHit(a, k)
  PROVE  EngineInv'
<1> DEFINE o == Others(k)
           ask(e) == [pc |-> "done", key |-> k, version |-> e.version, since |-> store, old |-> TRUE]
<1>0. /\ store \in Nat /\ clearedAt \in Nat /\ clearedAt <= store /\ lru \in Seq(LruEntry)
      /\ asker \in [Askers -> AskRecord] /\ Len(lru) \in Nat /\ DOMAIN lru = 1..Len(lru)
  BY DEF EngineInv, EngineType
<1>1. PICK i0 \in 1..Len(lru) : /\ lru[i0].key = k
                                /\ lru' = Append(Others(k), lru[i0])
                                /\ asker' = [asker EXCEPT ![a] = ask(lru[i0])]
  <2>1. PICK i0 \in EntriesOf(k) : /\ lru' = Append(Others(k), lru[i0])
                                   /\ asker' = [asker EXCEPT ![a] = ask(lru[i0])]
    BY Zenon DEF EngineHit
  <2> QED
    BY <2>1, <1>0 DEF EntriesOf
<1>2. EntriesOf(k) # {} /\ UNCHANGED <<store, enabled, clearedAt, inFlight>>
  BY DEF EngineHit
<1>3. /\ o \in Seq(LruEntry) /\ Len(o) + 1 <= Len(lru) /\ Len(o) \in Nat
      /\ \A i \in 1..Len(o) : o[i].key # k /\ \E p \in 1..Len(lru) : lru[p] = o[i]
      /\ \A i, j \in 1..Len(o) : o[i].key = o[j].key => i = j
  BY <1>2, OtherEntries
<1>4. lru[i0] \in LruEntry /\ ask(lru[i0]) \in AskRecord
  <2>1. lru[i0] \in LruEntry
    BY <1>0
  <2>2. lru[i0].version \in Nat
    BY <2>1 DEF LruEntry
  <2>3. \A v \in Nat, w \in Nat : [pc |-> "done", key |-> k, version |-> v, since |-> w, old |-> TRUE] \in AskRecord
    BY DEF AskRecord
  <2> QED
    BY <1>0, <2>1, <2>2, <2>3
<1> HIDE DEF o
<1>5. /\ lru' \in Seq(LruEntry) /\ Len(lru') = Len(o) + 1 /\ lru'[Len(o) + 1] = lru[i0]
      /\ \A i \in 1..Len(o) : lru'[i] = o[i]
  BY <1>1, <1>3, <1>4 DEF o
<1>6. \A i \in 1..Len(lru') : i \in 1..Len(o) \/ i = Len(o) + 1
  BY <1>3, <1>5
<1>7. asker' \in [Askers -> AskRecord] /\ asker'[a] = ask(lru[i0]) /\ \A b \in Askers \ {a} : asker'[b] = asker[b]
  BY <1>0, <1>1, <1>4
<1>8. asker'[a].pc = "done"
  BY <1>7
<1>9. EngineType'
  <2>1. \A b \in Askers : asker'[b].pc \in {"run", "put"} => asker'[b].key \in CKeys
    BY <1>7, <1>8 DEF EngineInv, EngineType
  <2> QED
    BY <1>0, <1>2, <1>5, <1>7, <2>1 DEF EngineType
<1>10. PutSound'
  BY <1>2, <1>7, <1>8 DEF EngineInv, PutSound
<1>11. LruSound'
  <2>1. Len(lru') <= EngineSize
    BY <1>0, <1>3, <1>5, CacheSizes DEF EngineInv, LruSound
  <2>2. \A i \in 1..Len(lru') : \E p \in 1..Len(lru) : lru'[i] = lru[p]
    BY <1>1, <1>3, <1>5, <1>6
  <2>3. \A i, j \in 1..Len(lru') : lru'[i].key = lru'[j].key => i = j
    BY <1>1, <1>3, <1>5, <1>6
  <2>4. \A i \in 1..Len(lru') :
          /\ enabled' /\ lru'[i].key \in Cacheable /\ lru'[i].version <= store'
          /\ lru'[i].version < clearedAt' => lru'[i].by \in inFlight'
    BY <1>2, <2>2 DEF EngineInv, LruSound
  <2> QED
    BY <2>1, <2>3, <2>4 DEF LruSound
<1> QED
  BY <1>9, <1>10, <1>11 DEF EngineInv

\* A step that only changes what one task asks, and keeps what it may put.
LEMMA AskInv ==
  ASSUME EngineInv, NEW a \in Askers, NEW r \in AskRecord,
         asker' = [asker EXCEPT ![a] = r], UNCHANGED <<store, lru, enabled, clearedAt, inFlight>>,
         r.pc \in {"run", "put"} => r.key \in CKeys,
         r.pc = "put" => r.version <= store /\ (r.version < clearedAt => a \in inFlight)
  PROVE  EngineInv'
<1>1. asker \in [Askers -> AskRecord]
  BY DEF EngineInv, EngineType
<1>2. asker' \in [Askers -> AskRecord] /\ asker'[a] = r /\ \A b \in Askers \ {a} : asker'[b] = asker[b]
  BY <1>1
<1>3. EngineType'
  BY <1>2 DEF EngineInv, EngineType
<1>4. LruSound'
  BY DEF EngineInv, LruSound
<1>5. PutSound'
  BY <1>2 DEF EngineInv, PutSound
<1> QED
  BY <1>3, <1>4, <1>5 DEF EngineInv

\* A miss, the execution and the next query.
LEMMA AskSteps ==
  ASSUME EngineInv, NEW a \in Askers,
         \/ \E k \in CKeys : EngineMiss(a, k)
         \/ EngineExecute(a)
         \/ EngineAgain(a)
  PROVE  EngineInv'
<1>0. store \in Nat /\ clearedAt \in Nat /\ clearedAt <= store /\ asker \in [Askers -> AskRecord]
  BY DEF EngineInv, EngineType
<1>1. ASSUME NEW k \in CKeys, EngineMiss(a, k) PROVE EngineInv'
  <2> DEFINE r == [pc |-> "run", key |-> k, version |-> 0, since |-> store, old |-> FALSE]
  <2>1. r \in AskRecord /\ r.pc = "run" /\ r.key = k
    BY <1>0 DEF AskRecord
  <2>2. asker' = [asker EXCEPT ![a] = r] /\ UNCHANGED <<store, lru, enabled, clearedAt, inFlight>>
    BY <1>1 DEF EngineMiss
  <2> HIDE DEF r
  <2> QED
    BY <2>1, <2>2, AskInv
<1>2. CASE EngineExecute(a)
  <2>1. asker[a] \in AskRecord /\ asker[a].pc = "run" /\ asker[a].key \in CKeys
    BY <1>0, <1>2 DEF EngineInv, EngineType, EngineExecute
  <2> DEFINE r == [asker[a] EXCEPT !.pc = "put", !.version = store]
  <2>2. r \in AskRecord /\ r.pc = "put" /\ r.key \in CKeys /\ r.version = store
    BY <1>0, <2>1 DEF AskRecord
  <2>3. asker' = [asker EXCEPT ![a] = r] /\ UNCHANGED <<store, lru, enabled, clearedAt, inFlight>>
    BY <1>2 DEF EngineExecute
  <2>4. r.version <= store /\ ~(r.version < clearedAt)
    BY <1>0, <2>2
  <2> HIDE DEF r
  <2> QED
    BY <2>2, <2>3, <2>4, AskInv
<1>3. CASE EngineAgain(a)
  <2>1. NoAsk \in AskRecord /\ NoAsk.pc = "idle"
    BY DEF NoAsk, AskRecord
  <2>2. asker' = [asker EXCEPT ![a] = NoAsk] /\ UNCHANGED <<store, lru, enabled, clearedAt, inFlight>>
    BY <1>3 DEF EngineAgain
  <2> QED
    BY <2>1, <2>2, AskInv
<1> QED
  BY <1>1, <1>2, <1>3

\* A result replaces the entry of its key, and the oldest when there is no room.
LEMMA PutInv ==
  ASSUME EngineInv, NEW a \in Askers, EnginePut(a)
  PROVE  EngineInv'
<1> DEFINE k == asker[a].key
           o == Others(k)
           room == IF Len(o) >= EngineSize THEN Tail(o) ELSE o
           e == [key |-> k, version |-> asker[a].version, by |-> a]
<1>0. /\ store \in Nat /\ clearedAt \in Nat /\ clearedAt <= store /\ lru \in Seq(LruEntry)
      /\ asker \in [Askers -> AskRecord] /\ Len(lru) \in Nat /\ EngineSize \in Nat /\ EngineSize > 0
      /\ Len(lru) <= EngineSize
  BY CacheSizes DEF EngineInv, EngineType, LruSound
<1>1. /\ asker[a].pc = "put" /\ asker' = [asker EXCEPT ![a].pc = "done"]
      /\ UNCHANGED <<store, enabled, clearedAt, inFlight>>
      /\ lru' = IF UsesCache(k) THEN Append(room, e) ELSE lru
  BY DEF EnginePut
<1>2. asker[a] \in AskRecord /\ k \in CKeys /\ asker[a].version \in Nat
      /\ asker[a].version <= store /\ (asker[a].version < clearedAt => a \in inFlight)
  BY <1>0, <1>1 DEF EngineInv, EngineType, PutSound, AskRecord
<1>3. e \in LruEntry /\ e.key = k /\ e.version = asker[a].version /\ e.by = a
  BY <1>2 DEF LruEntry
<1> HIDE DEF e
<1> DEFINE r == [asker[a] EXCEPT !.pc = "done"]
<1>4. r \in AskRecord /\ r.pc = "done" /\ asker' = [asker EXCEPT ![a] = r]
  BY <1>1, <1>2 DEF AskRecord
<1> HIDE DEF r
<1>5. asker' \in [Askers -> AskRecord] /\ asker'[a] = r /\ \A b \in Askers \ {a} : asker'[b] = asker[b]
  BY <1>0, <1>4
<1>6. CASE ~UsesCache(k)
  <2>1. UNCHANGED <<store, lru, enabled, clearedAt, inFlight>>
    BY <1>1, <1>6
  <2> QED
    BY <1>4, <2>1, AskInv
<1>7. CASE UsesCache(k)
  <2>1. /\ o \in Seq(LruEntry) /\ Len(o) <= Len(lru) /\ Len(o) \in Nat
        /\ \A i \in 1..Len(o) : o[i].key # k /\ \E p \in 1..Len(lru) : lru[p] = o[i]
        /\ \A i, j \in 1..Len(o) : o[i].key = o[j].key => i = j
    BY OtherEntries
  <2> HIDE DEF o
  <2>2. /\ room \in Seq(LruEntry) /\ Len(room) \in Nat /\ Len(room) + 1 <= EngineSize
        /\ \A i \in 1..Len(room) : room[i].key # k /\ \E p \in 1..Len(lru) : lru[p] = room[i]
        /\ \A i, j \in 1..Len(room) : room[i].key = room[j].key => i = j
    <3>1. CASE Len(o) >= EngineSize
      <4>1. o # <<>> /\ Len(o) = EngineSize
        BY <3>1, <2>1, <1>0
      <4>2. /\ Tail(o) \in Seq(LruEntry) /\ Len(Tail(o)) = Len(o) - 1
            /\ \A i \in 1..Len(Tail(o)) : i + 1 \in 1..Len(o) /\ Tail(o)[i] = o[i + 1]
        BY <4>1, <2>1
      <4>3. \A i \in 1..Len(Tail(o)) : Tail(o)[i].key # k /\ \E p \in 1..Len(lru) : lru[p] = Tail(o)[i]
        BY <4>2, <2>1
      <4>4. \A i, j \in 1..Len(Tail(o)) : Tail(o)[i].key = Tail(o)[j].key => i = j
        <5> SUFFICES ASSUME NEW i \in 1..Len(Tail(o)), NEW j \in 1..Len(Tail(o)), Tail(o)[i].key = Tail(o)[j].key
                     PROVE  i = j
          OBVIOUS
        <5>1. i + 1 = j + 1
          BY <4>2, <2>1
        <5> QED
          BY <5>1
      <4>5. room = Tail(o) /\ Len(Tail(o)) \in Nat /\ Len(Tail(o)) + 1 <= EngineSize
        BY <3>1, <4>1, <4>2, <2>1, <1>0
      <4> HIDE DEF room
      <4> QED
        BY <4>2, <4>3, <4>4, <4>5
    <3>2. CASE ~(Len(o) >= EngineSize)
      <4>1. room = o /\ Len(o) + 1 <= EngineSize
        BY <3>2, <2>1, <1>0
      <4> HIDE DEF room
      <4> QED
        BY <4>1, <2>1
    <3> QED
      BY <3>1, <3>2
  <2> HIDE DEF room
  <2>3. lru' = Append(room, e)
    BY <1>1, <1>7
  <2>4. /\ lru' \in Seq(LruEntry) /\ Len(lru') = Len(room) + 1 /\ lru'[Len(room) + 1] = e
        /\ \A i \in 1..Len(room) : lru'[i] = room[i]
    BY <2>2, <2>3, <1>3
  <2>5. \A i \in 1..Len(lru') : i \in 1..Len(room) \/ i = Len(room) + 1
    BY <2>2, <2>4
  <2>6. EngineType'
    <3>1. \A b \in Askers : asker'[b].pc \in {"run", "put"} => asker'[b].key \in CKeys
      BY <1>4, <1>5 DEF EngineInv, EngineType
    <3> QED
      BY <1>0, <1>1, <1>5, <2>4, <3>1 DEF EngineType
  <2>7. PutSound'
    BY <1>1, <1>4, <1>5 DEF EngineInv, PutSound
  <2>8. Len(lru') <= EngineSize
    BY <2>2, <2>4
  <2>9. \A i, j \in 1..Len(lru') : lru'[i].key = lru'[j].key => i = j
    BY <1>3, <2>2, <2>4, <2>5
  <2>10. \A i \in 1..Len(lru') :
          /\ enabled' /\ lru'[i].key \in Cacheable /\ lru'[i].version <= store'
          /\ lru'[i].version < clearedAt' => lru'[i].by \in inFlight'
    <3> SUFFICES ASSUME NEW i \in 1..Len(lru')
                 PROVE  /\ enabled' /\ lru'[i].key \in Cacheable /\ lru'[i].version <= store'
                        /\ lru'[i].version < clearedAt' => lru'[i].by \in inFlight'
      OBVIOUS
    <3>1. CASE i = Len(room) + 1
      <4>1. enabled /\ k \in Cacheable
        BY <1>7 DEF UsesCache
      <4> QED
        BY <3>1, <4>1, <1>1, <1>2, <1>3, <2>4
    <3>2. CASE i \in 1..Len(room)
      <4>1. PICK p \in 1..Len(lru) : lru[p] = lru'[i]
        BY <3>2, <2>2, <2>4
      <4> QED
        BY <4>1, <1>1 DEF EngineInv, LruSound
    <3> QED
      BY <3>1, <3>2, <2>5
  <2> QED
    BY <2>6, <2>7, <2>8, <2>9, <2>10 DEF EngineInv, LruSound
<1> QED
  BY <1>6, <1>7

\* Every step keeps the invariant of the engine's cache.
LEMMA EngineStep ==
  ASSUME EngineInv, [CachesNext]_<<qcacheVars, engineVars>>
  PROVE  EngineInv'
<1>1. CASE StoreChanges
  <2>1. /\ store \in Nat /\ store' = store + 1 /\ clearedAt \in Nat /\ clearedAt <= store
        /\ lru \in Seq(LruEntry) /\ asker \in [Askers -> AskRecord]
        /\ UNCHANGED <<lru, enabled, asker, clearedAt, inFlight>>
    BY <1>1 DEF StoreChanges, EngineInv, EngineType
  <2>2. store' \in Nat /\ clearedAt <= store' /\ \A v \in Nat : v <= store => v <= store'
    BY <2>1
  <2>3. (\A i \in 1..Len(lru) : lru[i].version \in Nat) /\ \A a \in Askers : asker[a].version \in Nat
    <3>1. (\A i \in 1..Len(lru) : lru[i] \in LruEntry) /\ \A a \in Askers : asker[a] \in AskRecord
      BY <2>1
    <3>2. (\A e \in LruEntry : e.version \in Nat) /\ \A r \in AskRecord : r.version \in Nat
      BY DEF LruEntry, AskRecord
    <3> QED
      BY <3>1, <3>2
  <2>4. EngineType'
    BY <2>1, <2>2 DEF EngineInv, EngineType
  <2>5. LruSound'
    BY <2>1, <2>2, <2>3 DEF EngineInv, LruSound
  <2>6. PutSound'
    BY <2>1, <2>2, <2>3 DEF EngineInv, PutSound
  <2> QED
    BY <2>4, <2>5, <2>6 DEF EngineInv
<1>2. CASE clear_cache
  BY <1>2, CacheSizes DEF clear_cache, EngineInv, EngineType, LruSound, PutSound
<1>3. ASSUME NEW a \in Askers, NEW k \in CKeys, EngineHit(a, k) PROVE EngineInv'
  BY <1>3, HitInv
<1>4. ASSUME NEW a \in Askers, (\E k \in CKeys : EngineMiss(a, k)) \/ EngineExecute(a) \/ EngineAgain(a)
      PROVE  EngineInv'
  BY <1>4, AskSteps
<1>5. ASSUME NEW a \in Askers, EnginePut(a) PROVE EngineInv'
  BY <1>5, PutInv
<1>6. CASE QcacheNext \/ UNCHANGED <<qcacheVars, engineVars>>
  <2>1. UNCHANGED engineVars
    BY <1>6 DEF QcacheNext, CacheGet, CacheSet, CacheRemove, CacheClear, CacheCleanup, CacheTick
  <2> QED
    BY <2>1 DEF engineVars, EngineInv, EngineType, LruSound, PutSound
<1> QED
  BY <1>1, <1>2, <1>3, <1>4, <1>5, <1>6 DEF CachesNext, EngineNext

\* Both caches start empty.
LEMMA CachesStart ==
  ASSUME CachesInit
  PROVE  QcacheInv /\ EngineInv
<1>1. QcacheInv
  <2>1. access_order \in Seq(CKeys) /\ Len(access_order) = 0 /\ DOMAIN cache = {} /\ spoilt = 0
    BY DEF CachesInit
  <2>2. Cardinality({}) = 0 /\ MaxSize \in Nat
    BY FS_EmptySet, CacheSizes
  <2> QED
    BY <2>1, <2>2 DEF QcacheInv, Listed
<1>2. EngineInv
  <2>1. NoAsk \in AskRecord /\ NoAsk.pc = "idle"
    BY DEF NoAsk, AskRecord
  <2>2. /\ store = 0 /\ clearedAt = 0 /\ lru \in Seq(LruEntry) /\ Len(lru) = 0
        /\ asker = [a \in Askers |-> NoAsk]
    BY DEF CachesInit
  <2>3. asker \in [Askers -> AskRecord] /\ \A a \in Askers : asker[a].pc = "idle"
    BY <2>1, <2>2
  <2> QED
    BY <2>2, <2>3, CacheSizes DEF EngineInv, EngineType, LruSound, PutSound
<1> QED
  BY <1>1, <1>2

\* QueryCache can evict what it holds and is too large only by what it was left
\* with; the LRU cache of QueryEngine has one entry per query, within its
\* capacity, found in the store, and after clear_cache an older one only of a task
\* that was at work during it: for every set of keys and tasks and every size.
THEOREM CachesSoundHolds == CachesSpec => []CachesSound
<1>1. CachesSpec => [](QcacheInv /\ EngineInv)
  BY CachesStart, QcacheStep, EngineStep, PTL DEF CachesSpec
<1>2. ASSUME QcacheInv, EngineInv PROVE CachesSound
  <2>1. CacheReclaimable
    <3>1. DOMAIN cache \subseteq ToSet(access_order)
      BY <1>2 DEF QcacheInv, Listed, ToSet
    <3>2. Cardinality(DOMAIN cache) <= Len(access_order) /\ Cardinality(DOMAIN cache) \in Nat /\ Len(access_order) \in Nat
      BY <1>2, QcacheFinite
    <3> QED
      BY <1>2, <3>1, <3>2, CacheSizes DEF QcacheInv, CacheReclaimable
  <2>2. lru \in Seq(LruEntry) /\ DOMAIN lru = 1..Len(lru)
    BY <1>2 DEF EngineInv, EngineType
  <2>3. EngineCacheSound
    BY <1>2, <2>2 DEF EngineInv, LruSound, EngineCacheSound
  <2>4. OldNeedsFlight
    BY <1>2, <2>2 DEF EngineInv, LruSound, OldNeedsFlight
  <2> QED
    BY <2>1, <2>3, <2>4 DEF CachesSound
<1> QED
  BY <1>1, <1>2, PTL

-----------------------------------------------------------------------------
(* FederationManager.  A query that waits for its nodes holds the lock, the    *)
(* heartbeat holds it alone while it asks, and both change the list only then. *)

FedNode == [name : DOMAIN FedNodes, active : BOOLEAN]
FedQuery == [pc : {"new", "lock", "wait", "ok", "err"}, asked : Seq(DOMAIN FedNodes),
             got : SUBSET Nat, failed : SUBSET Nat]
AdminOp == [op : {"add", "remove"}, name : DOMAIN FedNodes]

FedType ==
  /\ fnodes \in Seq(FedNode)
  /\ fquery \in [DOMAIN FedQueries -> FedQuery]
  /\ admin \in Seq(AdminOp)

LockInv ==
  /\ "beat" \in holders <=> beat.pc = "ask"
  /\ "beat" \in holders => holders = {"beat"}
  /\ \A q \in DOMAIN FedQueries : fquery[q].pc = "wait" => q \in holders

AskedOf(q) == [i \in DOMAIN SelectNodes(q) |-> SelectNodes(q)[i].name]
AskedInv ==
  \A q \in DOMAIN FedQueries :
    /\ fquery[q].pc = "wait" => fquery[q].asked = AskedOf(q)
    /\ fquery[q].pc \in {"new", "lock", "err"} => fquery[q].got = {}
    /\ fquery[q].pc = "ok" =>
         fquery[q].got # {} /\ fquery[q].got \cup fquery[q].failed = DOMAIN fquery[q].asked
    /\ \A i \in DOMAIN fquery[q].asked : Selected(q, fquery[q].asked[i])

FedInv == FedType /\ LockInv /\ AskedInv

\* Neither the heartbeat nor an administrator is a query.
LEMMA WritersAreNotQueries == "beat" \notin DOMAIN FedQueries /\ "admin" \notin DOMAIN FedQueries
  BY FederationAssumption

\* The nodes a query is spread over are listed, and of its selection.
LEMMA SelectedNodes ==
  ASSUME FedInv, NEW q \in DOMAIN FedQueries
  PROVE  /\ SelectNodes(q) \in Seq(FedNode)
         /\ AskedOf(q) \in Seq(DOMAIN FedNodes)
         /\ \A i \in DOMAIN AskedOf(q) : Selected(q, AskedOf(q)[i])
<1> DEFINE S == {n \in ToSet(fnodes) : n.active /\ Selected(q, n.name)}
           k == Keep(fnodes, S)
<1>0. fnodes \in Seq(FedNode)
  BY DEF FedInv, FedType
<1>1. \A n \in S : Selected(q, n.name)
  OBVIOUS
<1> HIDE DEF S
<1>2. k \in Seq(FedNode)
  BY <1>0, KeepElements
<1>3. \A i \in 1..Len(k) : k[i] \in S
  BY <1>0, KeepElements
<1>4. k = SelectNodes(q)
  BY DEF SelectNodes, S
<1> HIDE DEF k
<1>5. DOMAIN k = 1..Len(k) /\ Len(k) \in Nat /\ \A i \in 1..Len(k) : k[i].name \in DOMAIN FedNodes
  <2>1. DOMAIN k = 1..Len(k) /\ Len(k) \in Nat /\ \A i \in 1..Len(k) : k[i] \in FedNode
    BY <1>2
  <2>2. \A n \in FedNode : n.name \in DOMAIN FedNodes
    BY DEF FedNode
  <2> QED
    BY <2>1, <2>2
<1>6. AskedOf(q) = [i \in 1..Len(k) |-> k[i].name]
  BY <1>4, <1>5 DEF AskedOf
<1>7. AskedOf(q) \in Seq(DOMAIN FedNodes) /\ DOMAIN AskedOf(q) = 1..Len(k)
  <2>1. AskedOf(q) \in [1..Len(k) -> DOMAIN FedNodes]
    BY <1>5, <1>6
  <2> QED
    BY <2>1, <1>5, <1>6
<1> QED
  BY <1>1, <1>2, <1>3, <1>4, <1>6, <1>7

\* A step that leaves the list leaves every selection.
LEMMA SameSelection ==
  ASSUME UNCHANGED fnodes, NEW q
  PROVE  AskedOf(q)' = AskedOf(q)
  BY DEF AskedOf, SelectNodes, Selected

\* A step of one query: its record and the holders change, the list does not.
LEMMA QueryStep ==
  ASSUME FedInv, NEW q \in DOMAIN FedQueries, NEW r \in FedQuery,
         fquery' = [fquery EXCEPT ![q] = r], UNCHANGED <<fnodes, beat, admin>>,
         holders' \ {q} = holders \ {q},
         r.pc = "wait" => q \in holders' /\ "beat" \notin holders /\ r.asked = AskedOf(q),
         r.pc \in {"new", "lock", "err"} => r.got = {},
         r.pc = "ok" => r.got # {} /\ r.got \cup r.failed = DOMAIN r.asked,
         \A i \in DOMAIN r.asked : Selected(q, r.asked[i]),
         q \in holders' => r.pc = "wait" \/ holders' = holders
  PROVE  FedInv'
<1>0. fquery \in [DOMAIN FedQueries -> FedQuery] /\ q # "beat"
  BY WritersAreNotQueries DEF FedInv, FedType
<1>1. fquery' \in [DOMAIN FedQueries -> FedQuery] /\ fquery'[q] = r
      /\ \A p \in DOMAIN FedQueries \ {q} : fquery'[p] = fquery[p]
  BY <1>0
<1>2. FedType'
  BY <1>1 DEF FedInv, FedType
<1>3. LockInv'
  <2>1. "beat" \in holders' <=> "beat" \in holders
    BY <1>0
  <2>2. "beat" \in holders' => holders' = {"beat"}
    <3> SUFFICES ASSUME "beat" \in holders' PROVE holders' = {"beat"}
      OBVIOUS
    <3>1. holders = {"beat"}
      BY <2>1 DEF FedInv, LockInv
    <3>2. q \notin holders'
      BY <3>1, <1>0
    <3> QED
      BY <3>1, <3>2, <1>0
  <2>3. \A p \in DOMAIN FedQueries : fquery'[p].pc = "wait" => p \in holders'
    BY <1>1 DEF FedInv, LockInv
  <2> QED
    BY <2>1, <2>2, <2>3 DEF FedInv, LockInv
<1>4. AskedInv'
  <2>1. \A p \in DOMAIN FedQueries : AskedOf(p)' = AskedOf(p)
    BY SameSelection
  <2>2. ASSUME NEW p \in DOMAIN FedQueries, p # q
        PROVE  /\ fquery'[p].pc = "wait" => fquery'[p].asked = AskedOf(p)
               /\ fquery'[p].pc \in {"new", "lock", "err"} => fquery'[p].got = {}
               /\ fquery'[p].pc = "ok" =>
                    fquery'[p].got # {} /\ fquery'[p].got \cup fquery'[p].failed = DOMAIN fquery'[p].asked
               /\ \A i \in DOMAIN fquery'[p].asked : Selected(p, fquery'[p].asked[i])
    BY <2>2, <1>1 DEF FedInv, AskedInv
  <2> QED
    BY <1>1, <2>1, <2>2 DEF AskedInv
<1> QED
  BY <1>2, <1>3, <1>4 DEF FedInv

\* What a query's record and lock are while it waits.
LEMMA Waiting ==
  ASSUME FedInv, NEW q \in DOMAIN FedQueries, fquery[q].pc = "wait"
  PROVE  q \in holders /\ "beat" \notin holders /\ fquery[q].asked = AskedOf(q)
<1>1. q \in holders /\ q # "beat"
  BY WritersAreNotQueries DEF FedInv, LockInv
<1> QED
  BY <1>1 DEF FedInv, LockInv, AskedInv

\* A query asks for the lock, spreads itself over its nodes, and is answered.
LEMMA QuerySteps ==
  ASSUME FedInv, NEW q \in DOMAIN FedQueries,
         \/ Federate(q) \/ Selects(q) \/ Collects(q)
         \/ \E i \in DOMAIN fquery[q].asked : NodeAnswers(q, i)
  PROVE  FedInv'
<1>0. /\ fquery \in [DOMAIN FedQueries -> FedQuery] /\ fquery[q] \in FedQuery
      /\ \A i \in DOMAIN fquery[q].asked : Selected(q, fquery[q].asked[i])
      /\ fquery[q].asked \in Seq(DOMAIN FedNodes) /\ fquery[q].got \in SUBSET Nat /\ fquery[q].failed \in SUBSET Nat
  <2>1. fquery \in [DOMAIN FedQueries -> FedQuery] /\ fquery[q] \in FedQuery
    BY DEF FedInv, FedType
  <2>2. \A i \in DOMAIN fquery[q].asked : Selected(q, fquery[q].asked[i])
    BY DEF FedInv, AskedInv
  <2> QED
    BY <2>1, <2>2 DEF FedQuery
<1>1. CASE Federate(q)
  <2> DEFINE r == [fquery[q] EXCEPT !.pc = "lock"]
  <2>1. r \in FedQuery /\ r.pc = "lock" /\ r.asked = fquery[q].asked /\ r.got = fquery[q].got
    BY <1>0 DEF FedQuery
  <2>2. fquery' = [fquery EXCEPT ![q] = r] /\ UNCHANGED <<fnodes, beat, admin, holders>> /\ fquery[q].pc = "new"
    BY <1>1 DEF Federate
  <2>3. r.got = {}
    BY <2>1, <2>2 DEF FedInv, AskedInv
  <2> HIDE DEF r
  <2> QED
    BY <1>0, <2>1, <2>2, <2>3, QueryStep
<1>2. CASE Selects(q)
  <2>0. /\ fquery[q].pc = "lock" /\ CanEnter(q) /\ UNCHANGED <<fnodes, beat, admin>>
        /\ IF SelectNodes(q) = <<>>
           THEN fquery' = [fquery EXCEPT ![q].pc = "err"] /\ Passes
           ELSE fquery' = [fquery EXCEPT ![q].pc = "wait", ![q].asked = AskedOf(q)] /\ Enters(q)
    BY <1>2, Zenon DEF Selects, AskedOf
  <2>1. fquery[q].got = {}
    BY <2>0 DEF FedInv, AskedInv
  <2>2. "beat" \notin holders
    BY <2>0, WritersAreNotQueries DEF CanEnter, IsReader
  <2>3. CASE SelectNodes(q) = <<>>
    <3> DEFINE r == [fquery[q] EXCEPT !.pc = "err"]
    <3>1. r \in FedQuery /\ r.pc = "err" /\ r.asked = fquery[q].asked /\ r.got = {}
      BY <1>0, <2>1 DEF FedQuery
    <3>2. fquery' = [fquery EXCEPT ![q] = r] /\ UNCHANGED holders
      BY <2>0, <2>3 DEF Passes
    <3> HIDE DEF r
    <3> QED
      BY <1>0, <2>0, <3>1, <3>2, QueryStep
  <2>4. CASE SelectNodes(q) # <<>>
    <3> DEFINE r == [fquery[q] EXCEPT !.pc = "wait", !.asked = AskedOf(q)]
    <3>1. AskedOf(q) \in Seq(DOMAIN FedNodes) /\ \A i \in DOMAIN AskedOf(q) : Selected(q, AskedOf(q)[i])
      BY SelectedNodes
    <3>2. r \in FedQuery /\ r.pc = "wait" /\ r.asked = AskedOf(q) /\ r.got = {}
      BY <1>0, <2>1, <3>1 DEF FedQuery
    <3>3. fquery' = [fquery EXCEPT ![q] = r] /\ holders' = holders \cup {q}
      BY <2>0, <2>4 DEF Enters
    <3> HIDE DEF r
    <3>4. \A i \in DOMAIN r.asked : Selected(q, r.asked[i])
      BY <3>1, <3>2
    <3>5. holders' \ {q} = holders \ {q} /\ q \in holders'
      BY <3>3
    <3> QED
      BY <2>0, <2>2, <3>2, <3>3, <3>4, <3>5, QueryStep
  <2> QED
    BY <2>3, <2>4
<1>3. CASE Collects(q)
  <2> DEFINE pc == IF fquery[q].got = {} THEN "err" ELSE "ok"
             r == [fquery[q] EXCEPT !.pc = pc]
  <2>1. /\ r \in FedQuery /\ r.pc = pc /\ r.asked = fquery[q].asked /\ r.got = fquery[q].got
        /\ r.failed = fquery[q].failed
    BY <1>0 DEF FedQuery
  <2>2. /\ fquery' = [fquery EXCEPT ![q] = r] /\ UNCHANGED <<fnodes, beat, admin>>
        /\ holders' = holders \ {q} /\ fquery[q].got \cup fquery[q].failed = DOMAIN fquery[q].asked
    BY <1>3 DEF Collects
  <2>3. (r.pc = "err" => r.got = {}) /\ (r.pc = "ok" => r.got # {}) /\ r.pc \in {"ok", "err"}
    BY <2>1
  <2> HIDE DEF r
  <2>4. holders' \ {q} = holders \ {q} /\ q \notin holders'
    BY <2>2
  <2>5. r.got \cup r.failed = DOMAIN r.asked /\ \A i \in DOMAIN r.asked : Selected(q, r.asked[i])
    BY <1>0, <2>1, <2>2
  <2> QED
    BY <2>1, <2>2, <2>3, <2>4, <2>5, QueryStep
<1>4. ASSUME NEW i \in DOMAIN fquery[q].asked, NodeAnswers(q, i) PROVE FedInv'
  <2>0. /\ fquery[q].pc = "wait" /\ UNCHANGED <<fnodes, beat, admin, holders>>
        /\ IF fquery[q].asked[i] \in up
           THEN fquery' = [fquery EXCEPT ![q].got = fquery[q].got \cup {i}]
           ELSE fquery' = [fquery EXCEPT ![q].failed = fquery[q].failed \cup {i}]
    BY <1>4 DEF NodeAnswers
  <2>1. i \in Nat
    BY <1>0
  <2>2. q \in holders /\ "beat" \notin holders /\ fquery[q].asked = AskedOf(q)
    BY <2>0, Waiting
  <2>3. PICK r \in FedQuery : /\ fquery' = [fquery EXCEPT ![q] = r] /\ r.pc = "wait"
                              /\ r.asked = fquery[q].asked
    <3>1. CASE fquery[q].asked[i] \in up
      <4> DEFINE r == [fquery[q] EXCEPT !.got = fquery[q].got \cup {i}]
      <4>1. r \in FedQuery /\ r.pc = "wait" /\ r.asked = fquery[q].asked
        BY <1>0, <2>0, <2>1 DEF FedQuery
      <4>2. fquery' = [fquery EXCEPT ![q] = r]
        BY <2>0, <3>1
      <4> QED
        BY <4>1, <4>2
    <3>2. CASE fquery[q].asked[i] \notin up
      <4> DEFINE r == [fquery[q] EXCEPT !.failed = fquery[q].failed \cup {i}]
      <4>1. r \in FedQuery /\ r.pc = "wait" /\ r.asked = fquery[q].asked
        BY <1>0, <2>0, <2>1 DEF FedQuery
      <4>2. fquery' = [fquery EXCEPT ![q] = r]
        BY <2>0, <3>2
      <4> QED
        BY <4>1, <4>2
    <3> QED
      BY <3>1, <3>2
  <2>4. \A j \in DOMAIN r.asked : Selected(q, r.asked[j])
    BY <1>0, <2>3
  <2> QED
    BY <2>0, <2>2, <2>3, <2>4, QueryStep
<1> QED
  BY <1>1, <1>2, <1>3, <1>4

\* The heartbeat and an administrator change the list only while no query waits.
LEMMA WriterSteps ==
  ASSUME FedInv, BeatDue \/ BeatStarts \/ BeatNode \/ BeatEnds \/ AdminRuns
  PROVE  FedInv'
<1>0. /\ fnodes \in Seq(FedNode) /\ fquery \in [DOMAIN FedQueries -> FedQuery] /\ admin \in Seq(AdminOp)
      /\ "beat" \notin DOMAIN FedQueries /\ "admin" \notin DOMAIN FedQueries
  BY WritersAreNotQueries DEF FedInv, FedType
<1>1. ASSUME UNCHANGED <<fnodes, fquery>> PROVE AskedInv'
  <2>1. \A p \in DOMAIN FedQueries : AskedOf(p)' = AskedOf(p)
    BY <1>1, SameSelection
  <2> QED
    BY <1>1, <2>1 DEF FedInv, AskedInv
<1>2. ASSUME UNCHANGED fquery, \A p \in DOMAIN FedQueries : fquery[p].pc # "wait" PROVE AskedInv'
  BY <1>2 DEF FedInv, AskedInv
<1>3. CASE BeatDue
  BY <1>1, <1>3 DEF BeatDue, FedInv, FedType, LockInv
<1>4. CASE BeatStarts
  <2>1. holders = {} /\ holders' = {"beat"} /\ beat'.pc = "ask" /\ UNCHANGED <<fnodes, fquery, admin>>
    <3>1. holders = {}
      BY <1>0, <1>4 DEF BeatStarts, CanEnter, IsReader
    <3>2. beat' = [beat EXCEPT !.pc = "ask"] /\ beat.pc = "lock"
      BY <1>4 DEF BeatStarts
    <3>3. "pc" \in DOMAIN beat => beat'.pc = "ask"
      BY <3>2
    <3> QED
      BY <1>4, <3>1, <3>2, <3>3 DEF BeatStarts, Enters
  <2> QED
    BY <1>0, <1>1, <2>1 DEF FedInv, FedType, LockInv
<1>5. CASE BeatNode
  <2>1. beat.pc = "ask" /\ beat' = [beat EXCEPT !.next = @ + 1] /\ UNCHANGED <<fquery, admin, holders>>
    BY <1>5 DEF BeatNode
  <2>2. beat'.pc = "ask"
    BY <2>1
  <2>3. \A p \in DOMAIN FedQueries : fquery[p].pc # "wait"
    BY <1>0, <2>1, Waiting DEF FedInv, LockInv
  <2>4. fnodes' \in Seq(FedNode)
    <3> DEFINE n == beat.next
               x == [fnodes[n] EXCEPT !.active = fnodes[n].name \in up]
    <3>1. fnodes' = [fnodes EXCEPT ![n] = x]
      BY <1>5 DEF BeatNode
    <3>2. CASE n \in 1..Len(fnodes)
      <4>1. fnodes[n] \in FedNode
        BY <1>0, <3>2
      <4>2. x \in FedNode
        <5>1. \A e \in FedNode, b \in BOOLEAN : [e EXCEPT !.active = b] \in FedNode
          BY DEF FedNode
        <5>2. (fnodes[n].name \in up) \in BOOLEAN
          OBVIOUS
        <5> QED
          BY <4>1, <5>1, <5>2
      <4> HIDE DEF n, x
      <4> QED
        BY <1>0, <3>1, <3>2, <4>2
    <3>3. CASE n \notin 1..Len(fnodes)
      <4>1. DOMAIN fnodes = 1..Len(fnodes)
        BY <1>0
      <4> HIDE DEF n, x
      <4>2. [fnodes EXCEPT ![n] = x] = fnodes
        BY <1>0, <3>3, <4>1
      <4> QED
        BY <1>0, <3>1, <4>2
    <3> QED
      BY <3>2, <3>3
  <2> QED
    BY <1>0, <1>2, <2>1, <2>2, <2>3, <2>4 DEF FedInv, FedType, LockInv
<1>6. CASE BeatEnds
  <2>1. beat.pc = "ask" /\ beat' = [beat EXCEPT !.pc = "rest"] /\ holders' = holders \ {"beat"}
        /\ UNCHANGED <<fnodes, fquery, admin>>
    BY <1>6 DEF BeatEnds
  <2>2. holders' = {}
    BY <2>1 DEF FedInv, LockInv
  <2>3. \A p \in DOMAIN FedQueries : fquery[p].pc # "wait"
    BY <1>0, <2>1, Waiting DEF FedInv, LockInv
  <2> QED
    BY <1>0, <1>1, <2>1, <2>2, <2>3 DEF FedInv, FedType, LockInv
<1>7. CASE AdminRuns
  <2>1. holders = {} /\ admin # <<>> /\ admin' = <<>> /\ UNCHANGED <<holders, fquery, beat>>
    BY <1>0, <1>7 DEF AdminRuns, CanEnter, IsReader, Passes
  <2>2. \A p \in DOMAIN FedQueries : fquery[p].pc # "wait"
    BY <2>1 DEF FedInv, LockInv
  <2>3. fnodes' \in Seq(FedNode)
    <3> DEFINE S == {n \in ToSet(fnodes) : n.name # admin[1].name}
               x == [name |-> admin[1].name, active |-> TRUE]
    <3>1. fnodes' = IF admin[1].op = "add" THEN Append(fnodes, x) ELSE Keep(fnodes, S)
      BY <1>7 DEF AdminRuns
    <3>2. admin[1] \in AdminOp
      BY <1>0, <2>1
    <3>3. x \in FedNode
      BY <3>2 DEF AdminOp, FedNode
    <3> HIDE DEF S, x
    <3>4. Append(fnodes, x) \in Seq(FedNode)
      BY <1>0, <3>3
    <3>5. Keep(fnodes, S) \in Seq(FedNode)
      BY <1>0, KeepElements
    <3> QED
      BY <3>1, <3>4, <3>5
  <2> QED
    BY <1>0, <1>2, <2>1, <2>2, <2>3 DEF FedInv, FedType, LockInv
<1> QED
  BY <1>3, <1>4, <1>5, <1>6, <1>7

\* Every step of the federation, and of the parts beside it, keeps the invariant.
LEMMA FedStep ==
  ASSUME FedInv, [FedNext \/ SdNext]_<<fedVars, sdVars>>
  PROVE  FedInv'
<1>0. ASSUME UNCHANGED <<fnodes, holders, fquery, beat>>, admin' \in Seq(AdminOp) PROVE FedInv'
  <2>1. \A p \in DOMAIN FedQueries : AskedOf(p)' = AskedOf(p)
    BY <1>0, SameSelection
  <2> QED
    BY <1>0, <2>1 DEF FedInv, FedType, LockInv, AskedInv
<1>1. ASSUME NEW q \in DOMAIN FedQueries,
             \/ Federate(q) \/ Selects(q) \/ Collects(q)
             \/ \E i \in DOMAIN fquery[q].asked : NodeAnswers(q, i)
      PROVE  FedInv'
  BY <1>1, QuerySteps
<1>2. CASE BeatDue \/ BeatStarts \/ BeatNode \/ BeatEnds \/ AdminRuns
  BY <1>2, WriterSteps
<1>3. admin \in Seq(AdminOp)
  BY DEF FedInv, FedType
<1>4. ASSUME NEW n \in DOMAIN FedNodes, UpOrDown(n) PROVE FedInv'
  BY <1>0, <1>3, <1>4 DEF UpOrDown
<1>5. ASSUME NEW n \in DOMAIN FedNodes, NEW op \in {"add", "remove"}, AdminCalls([op |-> op, name |-> n]) PROVE FedInv'
  <2>1. [op |-> op, name |-> n] \in AdminOp
    BY DEF AdminOp
  <2>2. <<[op |-> op, name |-> n]>> \in Seq(AdminOp)
    BY <2>1
  <2> QED
    BY <1>0, <1>5, <2>2 DEF AdminCalls
<1>6. CASE SdNext \/ UNCHANGED <<fedVars, sdVars>>
  <2>1. UNCHANGED fedVars
    BY <1>6 DEF SdNext, RoundBegins, AskDiscoverer, ReplaceTargets, BreakOrMend, add_target, remove_target,
                update_target_health, stop_all_tasks
  <2> QED
    BY <1>0, <1>3, <2>1 DEF fedVars
<1> QED
  BY <1>1, <1>2, <1>4, <1>5, <1>6 DEF FedNext, FedTask

\* The federation starts with its configured nodes and nobody at the lock.
LEMMA FedStart ==
  ASSUME FedInit
  PROVE  FedInv
<1>1. fnodes \in Seq(FedNode)
  <2>1. FirstNodes \in Seq(DOMAIN FedNodes) /\ DOMAIN FirstNodes = 1..Len(FirstNodes) /\ Len(FirstNodes) \in Nat
    BY FederationAssumption
  <2>2. \A n \in DOMAIN FedNodes : [name |-> n, active |-> TRUE] \in FedNode
    BY DEF FedNode
  <2>3. fnodes = [i \in 1..Len(FirstNodes) |-> [name |-> FirstNodes[i], active |-> TRUE]]
    BY <2>1 DEF FedInit
  <2>4. \A i \in 1..Len(FirstNodes) : [name |-> FirstNodes[i], active |-> TRUE] \in FedNode
    BY <2>1, <2>2
  <2>5. fnodes \in [1..Len(FirstNodes) -> FedNode]
    BY <2>3, <2>4
  <2> QED
    BY <2>1, <2>5
<1>2. NotAsked \in FedQuery /\ NotAsked.pc = "new" /\ NotAsked.got = {} /\ NotAsked.asked = <<>>
  BY DEF NotAsked, FedQuery
<1>3. fquery = [q \in DOMAIN FedQueries |-> NotAsked] /\ holders = {} /\ admin = <<>> /\ beat.pc = "rest"
  BY DEF FedInit
<1>4. (\A q \in DOMAIN FedQueries : fquery[q] = NotAsked) /\ fquery \in [DOMAIN FedQueries -> FedQuery]
  BY <1>2, <1>3
<1>5. FedType
  BY <1>1, <1>3, <1>4 DEF FedType
<1>6. LockInv
  BY <1>2, <1>3, <1>4 DEF LockInv
<1>7. AskedInv
  BY <1>2, <1>4 DEF AskedInv
<1> QED
  BY <1>5, <1>6, <1>7 DEF FedInv

-----------------------------------------------------------------------------
(* ServiceDiscoveryManager and TargetManager.  What a loop has collected is     *)
(* what the discoverers it has asked answered in this round.                  *)

Findable == UNION {ToSet(Discoverers[d]) : d \in DOMAIN Discoverers}
SdLoop == [at : 0..(Len(Discoverers) + 1), new : Seq(Findable), round : Nat]

SdInv ==
  /\ OneRound
  /\ loop \in [SdLoops -> SdLoop]
  /\ \A l \in SdLoops : loop[l].at > 0 =>
       \E ok \in SUBSET DOMAIN Discoverers : loop[l].new = AnsweredUpTo(ok)[loop[l].at - 1]
  /\ ttasks \subseteq DOMAIN ttable

\* The discoverers are a list of lists.
LEMMA DiscoverersList ==
  /\ Discoverers \in Seq(Seq(Findable)) /\ Len(Discoverers) \in Nat /\ DOMAIN Discoverers = 1..Len(Discoverers)
  /\ \A d \in 1..Len(Discoverers) : Discoverers[d] \in Seq(Findable)
<1>1. Discoverers \in Seq(Seq(Findable))
  BY FederationAssumption DEF Findable
<1> QED
  BY <1>1

\* What the answers are, discoverer by discoverer.
LEMMA AnsweredRec ==
  ASSUME NEW ok
  PROVE  /\ AnsweredUpTo(ok)[0] = <<>>
         /\ \A i \in 1..Len(Discoverers) : AnsweredUpTo(ok)[i] =
              IF i \in ok THEN AnsweredUpTo(ok)[i-1] \o Discoverers[i] ELSE AnsweredUpTo(ok)[i-1]
<1> DEFINE m == Len(Discoverers)
           V == Seq(Findable)
           next == [i \in 1..m |-> [x \in V |-> IF i \in ok THEN x \o Discoverers[i] ELSE x]]
           Val(F, i) == IF i = 0 THEN <<>> ELSE IF i \in ok THEN F[i-1] \o Discoverers[i] ELSE F[i-1]
<1>1. m \in Nat /\ <<>> \in V
  BY DiscoverersList
<1>2. next \in [1..m -> [V -> V]]
  <2>1. \A i \in 1..m, x \in V : (IF i \in ok THEN x \o Discoverers[i] ELSE x) \in V
    <3>1. \A i \in 1..m, x \in V : x \o Discoverers[i] \in V
      BY DiscoverersList
    <3> HIDE DEF V
    <3> QED
      BY <3>1
  <2> HIDE DEF V, m
  <2> QED
    BY <2>1
<1>3. \A i \in 1..m, x \in V : next[i][x] = IF i \in ok THEN x \o Discoverers[i] ELSE x
  <2> HIDE DEF V, m
  <2> QED
    OBVIOUS
<1> HIDE DEF next, V
<1>4. PICK F \in [0..m -> V] : F[0] = <<>> /\ \A i \in 1..m : F[i] = next[i][F[i-1]]
  <2> DEFINE b == <<>>
  <2> HIDE DEF m, b
  <2>1. m \in Nat /\ b \in V
    BY <1>1 DEF b
  <2>2. \E F : Steps(F, V, m, b, next)
    BY <1>2, <2>1, StepByStep
  <2> QED
    BY <2>2 DEF Steps, b
<1>5. F = [i \in 0..m |-> Val(F, i)]
  <2>1. \A i \in 0..m : F[i] = Val(F, i)
    <3> SUFFICES ASSUME NEW i \in 0..m PROVE F[i] = Val(F, i)
      BY ZenonT(60)
    <3>1. CASE i = 0
      BY <3>1, <1>4
    <3>2. CASE i \in 1..m
      <4>1. i # 0 /\ i - 1 \in 0..m
        BY <1>1, <3>2, SMTT(30)
      <4>2. F[i] = next[i][F[i-1]] /\ F[i-1] \in V
        BY <1>4, <3>2, <4>1, SMTT(30)
      <4> QED
        BY <3>2, <4>1, <4>2, <1>3
    <3> HIDE DEF Val, m
    <3> QED
      BY <3>1, <3>2, <1>1
  <2> HIDE DEF Val, m
  <2> QED
    BY <2>1, <1>4
<1>6. AnsweredUpTo(ok) = [i \in 0..m |-> Val(AnsweredUpTo(ok), i)]
  BY <1>5 DEF AnsweredUpTo
<1>7. \A i \in 0..m : AnsweredUpTo(ok)[i] = Val(AnsweredUpTo(ok), i)
  <2> HIDE DEF Val, m
  <2> QED
    BY <1>6
<1> QED
  BY <1>1, <1>7

\* The answers up to a discoverer do not depend on those behind it.
LEMMA AnsweredAgree ==
  ASSUME NEW ok, NEW other, NEW k \in 0..Len(Discoverers), \A i \in 1..k : i \in ok <=> i \in other
  PROVE  AnsweredUpTo(ok)[k] = AnsweredUpTo(other)[k]
<1> DEFINE A == AnsweredUpTo(ok)
           B == AnsweredUpTo(other)
           G == {n \in 0..k : A[n] = B[n]}
<1>0. k \in Nat /\ k <= Len(Discoverers) /\ Len(Discoverers) \in Nat
  BY DiscoverersList
<1>1. /\ A[0] = <<>>
      /\ \A i \in 1..Len(Discoverers) : A[i] = IF i \in ok THEN A[i-1] \o Discoverers[i] ELSE A[i-1]
  BY AnsweredRec
<1>2. /\ B[0] = <<>>
      /\ \A i \in 1..Len(Discoverers) : B[i] = IF i \in other THEN B[i-1] \o Discoverers[i] ELSE B[i-1]
  BY AnsweredRec
<1> HIDE DEF A, B
<1>3. 0 \in G
  BY <1>0, <1>1, <1>2
<1>4. ASSUME NEW n \in 0..(k - 1), n \in G PROVE n + 1 \in G
  <2>1. n + 1 \in 1..Len(Discoverers) /\ (n + 1) - 1 = n /\ n + 1 \in 1..k /\ n + 1 \in 0..k
    BY <1>0
  <2>2. A[n + 1] = IF n + 1 \in ok THEN A[n] \o Discoverers[n + 1] ELSE A[n]
    BY <1>1, <2>1
  <2>3. B[n + 1] = IF n + 1 \in other THEN B[n] \o Discoverers[n + 1] ELSE B[n]
    BY <1>2, <2>1
  <2>4. A[n] = B[n] /\ (n + 1 \in ok <=> n + 1 \in other)
    BY <1>4, <2>1
  <2>5. A[n + 1] = B[n + 1]
    BY <2>2, <2>3, <2>4
  <2> QED
    BY <2>1, <2>5
<1>5. k \in G
  <2> HIDE DEF G
  <2>1. k \in 0..k
    BY <1>0
  <2> QED
    BY <1>0, <1>3, <1>4, <2>1, AllUpTo
<1> QED
  BY <1>5 DEF A, B

\* A round begins with nothing, asks one discoverer after another and replaces
\* the list; the targets of TargetManager stay listed as long as they have a task.
LEMMA SdStep ==
  ASSUME SdInv, [FedNext \/ SdNext]_<<fedVars, sdVars>>
  PROVE  SdInv'
<1> DEFINE m == Len(Discoverers)
<1>0. /\ loop \in [SdLoops -> SdLoop] /\ ttasks \subseteq DOMAIN ttable /\ OneRound
      /\ \A l \in SdLoops : loop[l].at > 0 =>
           \E ok \in SUBSET DOMAIN Discoverers : loop[l].new = AnsweredUpTo(ok)[loop[l].at - 1]
  BY DEF SdInv
<1>1. /\ m \in Nat /\ DOMAIN Discoverers = 1..m /\ \A d \in 1..m : Discoverers[d] \in Seq(Findable)
      /\ <<>> \in Seq(Findable)
  BY DiscoverersList
<1>2. ASSUME NEW l \in SdLoops, NEW r \in SdLoop, loop' = [loop EXCEPT ![l] = r],
             r.at > 0 => \E ok \in SUBSET DOMAIN Discoverers : r.new = AnsweredUpTo(ok)[r.at - 1],
             OneRound', ttasks' \subseteq DOMAIN ttable'
      PROVE  SdInv'
  <2>1. loop' \in [SdLoops -> SdLoop] /\ loop'[l] = r /\ \A k \in SdLoops \ {l} : loop'[k] = loop[k]
    BY <1>0, <1>2
  <2>2. ASSUME NEW k \in SdLoops
        PROVE  loop'[k].at > 0 =>
                 \E ok \in SUBSET DOMAIN Discoverers : loop'[k].new = AnsweredUpTo(ok)[loop'[k].at - 1]
    <3>1. CASE k = l
      BY <3>1, <2>1, <1>2
    <3>2. CASE k # l
      BY <3>2, <2>1, <1>0
    <3> QED
      BY <3>1, <3>2
  <2> QED
    BY <1>2, <2>1, <2>2 DEF SdInv, AnsweredUpTo
<1>3. ASSUME UNCHANGED found PROVE OneRound'
  BY <1>0, <1>3 DEF OneRound, AnsweredUpTo
<1>4. ASSUME NEW l \in SdLoops, RoundBegins(l) PROVE SdInv'
  <2> DEFINE r == [at |-> 1, new |-> <<>>, round |-> loop[l].round + 1]
  <2>1. loop[l] \in SdLoop /\ loop[l].round \in Nat
    BY <1>0 DEF SdLoop
  <2>2. r \in SdLoop /\ r.at = 1 /\ r.new = <<>>
    BY <1>1, <2>1 DEF SdLoop
  <2>3. loop' = [loop EXCEPT ![l] = r] /\ UNCHANGED <<found, ttasks, ttable>>
    BY <1>4 DEF RoundBegins
  <2> HIDE DEF r
  <2>4. {} \in SUBSET DOMAIN Discoverers /\ r.new = AnsweredUpTo({})[r.at - 1]
    BY <2>2, AnsweredRec
  <2> QED
    BY <1>0, <1>2, <1>3, <2>2, <2>3, <2>4
<1>5. ASSUME NEW l \in SdLoops, AskDiscoverer(l) PROVE SdInv'
  <2> DEFINE d == loop[l].at
             r == [loop[l] EXCEPT !.at = d + 1, !.new = loop[l].new \o discover(d)]
  <2>1. /\ loop[l] \in SdLoop /\ d \in 1..m /\ loop[l].new \in Seq(Findable) /\ d \in Nat /\ d > 0
        /\ d + 1 \in 0..(m + 1)
    <3>1. loop[l] \in SdLoop /\ d \in 1..m
      BY <1>0, <1>1, <1>5 DEF AskDiscoverer
    <3> QED
      BY <1>1, <3>1 DEF SdLoop
  <2>2. discover(d) \in Seq(Findable)
    BY <1>1, <2>1 DEF discover
  <2>3. loop[l].new \o discover(d) \in Seq(Findable)
    BY <2>1, <2>2
  <2>4. r \in SdLoop /\ r.at = d + 1 /\ r.new = loop[l].new \o discover(d)
    BY <2>1, <2>3 DEF SdLoop
  <2>5. loop' = [loop EXCEPT ![l] = r] /\ UNCHANGED <<found, ttasks, ttable>>
    BY <1>5 DEF AskDiscoverer
  <2>6. PICK ok \in SUBSET DOMAIN Discoverers : loop[l].new = AnsweredUpTo(ok)[d - 1]
    BY <1>0, <2>1
  <2> DEFINE now == IF d \in broken THEN ok \ {d} ELSE ok \cup {d}
  <2>7. now \in SUBSET DOMAIN Discoverers /\ (d \in now <=> d \notin broken)
    BY <1>1, <2>1
  <2>8. AnsweredUpTo(now)[d - 1] = AnsweredUpTo(ok)[d - 1]
    <3>1. \A i \in 1..(d - 1) : i \in now <=> i \in ok
      BY <2>1
    <3>2. d - 1 \in 0..Len(Discoverers)
      BY <1>1, <2>1
    <3> HIDE DEF now, d
    <3> QED
      BY <3>1, <3>2, AnsweredAgree
  <2>9. AnsweredUpTo(now)[d] = loop[l].new \o discover(d)
    <3>1. AnsweredUpTo(now)[d] = IF d \in now THEN AnsweredUpTo(now)[d-1] \o Discoverers[d] ELSE AnsweredUpTo(now)[d-1]
      <4> HIDE DEF now, d
      <4> QED
        BY <2>1, AnsweredRec
    <3>2. loop[l].new \o <<>> = loop[l].new
      BY <2>1
    <3>3. CASE d \in broken
      <4>1. discover(d) = <<>> /\ d \notin now
        BY <3>3, <2>7 DEF discover
      <4> HIDE DEF now, d
      <4> QED
        BY <3>1, <3>2, <4>1, <2>6, <2>8
    <3>4. CASE d \notin broken
      <4>1. discover(d) = Discoverers[d] /\ d \in now
        BY <3>4, <2>7 DEF discover
      <4> HIDE DEF now, d
      <4> QED
        BY <3>1, <4>1, <2>6, <2>8
    <3> QED
      BY <3>3, <3>4
  <2>10. r.new = AnsweredUpTo(now)[r.at - 1]
    <3>1. (d + 1) - 1 = d
      BY <2>1
    <3> HIDE DEF now, d, r
    <3> QED
      BY <2>4, <2>9, <3>1
  <2> HIDE DEF r, now
  <2> QED
    BY <1>0, <1>2, <1>3, <2>4, <2>5, <2>7, <2>10
<1>6. ASSUME NEW l \in SdLoops, ReplaceTargets(l) PROVE SdInv'
  <2> DEFINE r == [loop[l] EXCEPT !.at = 0]
  <2>1. loop[l] \in SdLoop /\ loop[l].at \in 0..(m + 1) /\ loop[l].at > m
    BY <1>0, <1>6 DEF ReplaceTargets, SdLoop
  <2>2. r \in SdLoop /\ r.at = 0
    BY <1>1, <2>1 DEF SdLoop
  <2>3. /\ loop' = [loop EXCEPT ![l] = r] /\ found' = loop[l].new /\ UNCHANGED <<ttasks, ttable>>
    BY <1>6 DEF ReplaceTargets
  <2>4. loop[l].at - 1 = m /\ loop[l].at > 0
    BY <1>1, <2>1
  <2>5. PICK ok \in SUBSET DOMAIN Discoverers : loop[l].new = AnsweredUpTo(ok)[m]
    BY <1>0, <2>4
  <2>6. OneRound'
    BY <2>3, <2>5 DEF OneRound, AnsweredUpTo
  <2>7. ~(r.at > 0)
    BY <2>2
  <2>8. ttasks' \subseteq DOMAIN ttable'
    BY <1>0, <2>3
  <2> HIDE DEF r
  <2> QED
    BY <1>2, <2>2, <2>3, <2>6, <2>7, <2>8
<1>7. ASSUME UNCHANGED <<found, loop>>, ttasks' \subseteq DOMAIN ttable' PROVE SdInv'
  BY <1>0, <1>3, <1>7 DEF SdInv, AnsweredUpTo
<1>8. ASSUME NEW t \in SdTargets,
             add_target(t) \/ remove_target(t) \/ \E h \in {"Up", "Down"} : update_target_health(t, h)
      PROVE  SdInv'
  <2>1. UNCHANGED <<found, loop>>
    BY <1>8 DEF add_target, remove_target, update_target_health
  <2>2. ttasks' \subseteq DOMAIN ttable'
    <3>1. CASE add_target(t)
      <4>1. DOMAIN ttable' = DOMAIN ttable \cup {t} /\ ttasks' \subseteq ttasks \cup {t}
        BY <3>1 DEF add_target
      <4> QED
        BY <4>1, <1>0
    <3>2. CASE remove_target(t)
      BY <3>2, <1>0 DEF remove_target
    <3>3. ASSUME NEW h \in {"Up", "Down"}, update_target_health(t, h) PROVE ttasks' \subseteq DOMAIN ttable'
      BY <3>3, <1>0 DEF update_target_health
    <3> QED
      BY <1>8, <3>1, <3>2, <3>3
  <2> QED
    BY <1>7, <2>1, <2>2
<1>9. CASE stop_all_tasks
  BY <1>7, <1>9 DEF stop_all_tasks
<1>10. ASSUME NEW d \in DOMAIN Discoverers, BreakOrMend(d) PROVE SdInv'
  BY <1>0, <1>7, <1>10 DEF BreakOrMend
<1>11. CASE FedNext \/ UNCHANGED <<fedVars, sdVars>>
  <2>1. UNCHANGED sdVars
    BY <1>11 DEF FedNext, FedTask, Federate, Selects, Collects, NodeAnswers, BeatDue, BeatStarts, BeatNode, BeatEnds,
                 AdminRuns, AdminCalls, UpOrDown
  <2> QED
    BY <1>0, <1>7, <2>1 DEF sdVars
<1> QED
  BY <1>4, <1>5, <1>6, <1>8, <1>9, <1>10, <1>11 DEF SdNext

\* Nothing has been discovered, no loop runs.
LEMMA SdStart ==
  ASSUME SdInit
  PROVE  SdInv
<1> DEFINE first == [at |-> 0, new |-> <<>>, round |-> 0]
<1>1. first \in SdLoop /\ first.at = 0
  BY DiscoverersList DEF SdLoop
<1>2. loop \in [SdLoops -> SdLoop] /\ \A l \in SdLoops : loop[l].at = 0
  BY <1>1 DEF SdInit
<1>3. OneRound
  <2> DEFINE A == AnsweredUpTo({})
             G == {n \in 0..Len(Discoverers) : A[n] = <<>>}
  <2>1. /\ A[0] = <<>>
        /\ \A i \in 1..Len(Discoverers) : A[i] = IF i \in {} THEN A[i-1] \o Discoverers[i] ELSE A[i-1]
    BY AnsweredRec
  <2>2. Len(Discoverers) \in Nat
    BY DiscoverersList
  <2> HIDE DEF A
  <2>3. 0 \in G
    BY <2>1, <2>2
  <2>4. ASSUME NEW n \in 0..(Len(Discoverers) - 1), n \in G PROVE n + 1 \in G
    <3>1. n + 1 \in 1..Len(Discoverers) /\ (n + 1) - 1 = n /\ n + 1 \in 0..Len(Discoverers)
      BY <2>2
    <3>2. A[n + 1] = A[n]
      BY <2>1, <3>1
    <3> QED
      BY <2>4, <3>1, <3>2
  <2>5. Len(Discoverers) \in G
    <3> HIDE DEF G
    <3>1. Len(Discoverers) \in 0..Len(Discoverers)
      BY <2>2
    <3> QED
      BY <2>2, <2>3, <2>4, <3>1, AllUpTo
  <2>6. found = AnsweredUpTo({})[Len(Discoverers)]
    BY <2>5 DEF A, SdInit
  <2> QED
    BY <2>6 DEF OneRound
<1>4. ttasks \subseteq DOMAIN ttable
  BY DEF SdInit
<1> QED
  BY <1>2, <1>3, <1>4 DEF SdInv

\* A federated query is spread over one state of the list, which neither the
\* heartbeat nor an administrator changes before its answers are collected, and
\* leaves out exactly what failed; a discovered list is one round's and a scrape
\* task has its target: for every set of nodes, queries, discoverers and loops.
THEOREM FederationSoundHolds == FedSpec => []FederationSound
<1>1. FedSpec => [](FedInv /\ SdInv)
  BY FedStart, SdStart, FedStep, SdStep, PTL DEF FedSpec
<1>2. ASSUME FedInv, SdInv PROVE FederationSound
  <2>1. QueriesSeeOneList
    BY <1>2 DEF FedInv, LockInv, AskedInv, AskedOf, QueriesSeeOneList
  <2>2. FederatedAnswer
    BY <1>2 DEF FedInv, AskedInv, FederatedAnswer
  <2>3. OneRound /\ TasksHaveTargets
    BY <1>2 DEF SdInv, TasksHaveTargets
  <2> QED
    BY <2>1, <2>2, <2>3 DEF FederationSound
<1> QED
  BY <1>1, <1>2, PTL

-----------------------------------------------------------------------------
(* BatchRemoteWriter.  A write is in a channel or in a batch at most once; a   *)
(* server has none of what is still in the channel, and of what is in the      *)
(* batch no more copies than there were failures.                             *)

Held(t) == ToSet(rqueue[t]) \cup ToSet(buffer[t]) \cup ToSet(remote[t]) \cup given[t]
CopiesInv(q, b, c, f, w) ==
  /\ Count(q, w) + Count(b, w) <= 1
  /\ Count(q, w) > 0 => Count(c, w) = 0
  /\ Count(b, w) > 0 => Count(c, w) <= f
  /\ Count(c, w) <= 1 + f
HandleInv(q, b, c, g, n, f) ==
  /\ q \in Seq(Nat) /\ b \in Seq(Nat) /\ c \in Seq(Nat) /\ g \in SUBSET Nat /\ n \in Nat
  /\ n > 0 => f >= n - 1
  /\ g # {} => f >= MaxSends
  /\ \A w \in Nat : CopiesInv(q, b, c, f, w)
HandlesInv ==
  /\ rqueue \in [TargetSet -> Seq(Nat)] /\ buffer \in [TargetSet -> Seq(Nat)]
  /\ remote \in [TargetSet -> Seq(Nat)] /\ given \in [TargetSet -> SUBSET Nat]
  /\ sends \in [TargetSet -> Nat] /\ rfaults \in Nat
  /\ \A t \in TargetSet : HandleInv(rqueue[t], buffer[t], remote[t], given[t], sends[t], rfaults)

\* The write in progress has the last targets of the list before it, and has
\* reached the others.
CallerInv ==
  /\ calls \in Nat /\ caller \in Seq(TargetSet) /\ Len(caller) <= Len(Targets)
  /\ \A i \in 1..Len(caller) : caller[i] = Targets[Len(Targets) - Len(caller) + i]
  /\ failedAt \subseteq 1..calls
  /\ caller # <<>> => calls \in 1..calls /\ calls \notin failedAt
  /\ \A t \in TargetSet : Held(t) \subseteq 1..calls
  /\ \A t \in ToSet(caller) : calls \notin Held(t)
  /\ \A t \in TargetSet : \A w \in 1..calls :
       (w \notin failedAt /\ ~(w = calls /\ t \in ToSet(caller))) => w \in Held(t)
  /\ \A i, j \in 1..Len(Targets) : i < j => Held(Targets[j]) \subseteq Held(Targets[i])
WriterInv == HandlesInv /\ CallerInv

\* A number is in a sequence when it is counted there.
LEMMA CountedIn ==
  ASSUME NEW T, NEW s \in Seq(T), NEW x
  PROVE  Count(s, x) \in Nat /\ (x \in ToSet(s) <=> Count(s, x) > 0)
<1>1. Count(s, x) \in Nat /\ (Count(s, x) > 0 <=> \E p \in 1..Len(s) : s[p] = x)
  BY Counts
<1>2. x \in ToSet(s) <=> \E p \in 1..Len(s) : s[p] = x
  BY DEF ToSet
<1> QED
  BY <1>1, <1>2

\* Nothing is in an empty sequence.
LEMMA EmptyCounts == (\A x : Count(<<>>, x) = 0) /\ ToSet(<<>>) = {} /\ <<>> \in Seq(Nat)
<1>1. <<>> \in Seq(Nat)
  OBVIOUS
<1>2. ASSUME NEW x PROVE Count(<<>>, x) = 0
  BY <1>1, Counts
<1> QED
  BY <1>1, <1>2 DEF ToSet

\* Receive: the first of the channel goes to the end of the batch.
LEMMA Received ==
  ASSUME NEW q, NEW b, NEW c, NEW g, NEW n, NEW f \in Nat, HandleInv(q, b, c, g, n, f), q # <<>>, NEW k \in {0, 1}
  PROVE  /\ HandleInv(Tail(q), Append(b, Head(q)), c, g, k, f)
         /\ ToSet(Tail(q)) \cup ToSet(Append(b, Head(q))) = ToSet(q) \cup ToSet(b)
<1> DEFINE h == Head(q)
           u == Tail(q)
           d == Append(b, h)
<1>1. /\ q \in Seq(Nat) /\ b \in Seq(Nat) /\ c \in Seq(Nat) /\ g \in SUBSET Nat
      /\ g # {} => f >= MaxSends
      /\ \A w \in Nat : CopiesInv(q, b, c, f, w)
  BY DEF HandleInv
<1>2. h \in Nat /\ u \in Seq(Nat) /\ d \in Seq(Nat)
  BY <1>1
<1>3. ASSUME NEW w
      PROVE  /\ Count(q, w) = (IF h = w THEN Count(u, w) + 1 ELSE Count(u, w))
             /\ Count(d, w) = (IF h = w THEN Count(b, w) + 1 ELSE Count(b, w))
             /\ Count(u, w) \in Nat /\ Count(b, w) \in Nat /\ Count(c, w) \in Nat /\ Count(d, w) \in Nat
             /\ Count(q, w) \in Nat
  <2>1. Count(q, w) = (IF h = w THEN Count(u, w) + 1 ELSE Count(u, w))
    BY <1>1, CountTail
  <2>2. Count(d, w) = (IF h = w THEN Count(b, w) + 1 ELSE Count(b, w))
    BY <1>1, <1>2, Counts
  <2> HIDE DEF u, d, h
  <2> QED
    BY <1>1, <1>2, <2>1, <2>2, CountedIn
<1> HIDE DEF h, u, d
<1>4. ASSUME NEW w \in Nat PROVE CopiesInv(u, d, c, f, w)
  <2>1. CopiesInv(q, b, c, f, w)
    BY <1>1
  <2>2. CASE h = w
    BY <2>1, <2>2, <1>3 DEF CopiesInv
  <2>3. CASE h # w
    BY <2>1, <2>3, <1>3 DEF CopiesInv
  <2> QED
    BY <2>2, <2>3
<1>5. HandleInv(u, d, c, g, k, f)
  <2>1. k \in Nat /\ (k > 0 => f >= k - 1)
    OBVIOUS
  <2> QED
    BY <1>1, <1>2, <1>4, <2>1 DEF HandleInv
<1>6. ASSUME NEW w PROVE w \in ToSet(u) \cup ToSet(d) <=> w \in ToSet(q) \cup ToSet(b)
  <2>1. /\ w \in ToSet(u) <=> Count(u, w) > 0
        /\ w \in ToSet(d) <=> Count(d, w) > 0
        /\ w \in ToSet(q) <=> Count(q, w) > 0
        /\ w \in ToSet(b) <=> Count(b, w) > 0
    BY <1>1, <1>2, CountedIn
  <2>2. (Count(u, w) > 0 \/ Count(d, w) > 0) <=> (Count(q, w) > 0 \/ Count(b, w) > 0)
    BY <1>3
  <2> QED
    BY <2>1, <2>2
<1> QED
  BY <1>5, <1>6 DEF h, u, d

\* A request that reached the server: the batch is there once more.
LEMMA Delivered ==
  ASSUME NEW q, NEW b, NEW c, NEW g, NEW n, NEW f \in Nat, HandleInv(q, b, c, g, n, f)
  PROVE  /\ c \o b \in Seq(Nat) /\ ToSet(c \o b) = ToSet(c) \cup ToSet(b)
         /\ \A w \in Nat : CopiesInv(q, <<>>, c \o b, f, w) /\ CopiesInv(q, b, c \o b, f + 1, w)
<1>1. /\ q \in Seq(Nat) /\ b \in Seq(Nat) /\ c \in Seq(Nat)
      /\ \A w \in Nat : CopiesInv(q, b, c, f, w)
  BY DEF HandleInv
<1> DEFINE d == c \o b
<1>2. d \in Seq(Nat)
  BY <1>1
<1>3. ASSUME NEW w
      PROVE  /\ Count(d, w) = Count(c, w) + Count(b, w) /\ Count(<<>>, w) = 0
             /\ Count(q, w) \in Nat /\ Count(b, w) \in Nat /\ Count(c, w) \in Nat /\ Count(d, w) \in Nat
  <2>1. Count(d, w) = Count(c, w) + Count(b, w)
    BY <1>1, Counts
  <2> HIDE DEF d
  <2> QED
    BY <1>1, <1>2, <2>1, CountedIn, EmptyCounts
<1> HIDE DEF d
<1>4. ASSUME NEW w \in Nat PROVE CopiesInv(q, <<>>, d, f, w) /\ CopiesInv(q, b, d, f + 1, w)
  <2>1. CopiesInv(q, b, c, f, w)
    BY <1>1
  <2> QED
    BY <2>1, <1>3 DEF CopiesInv
<1>5. ASSUME NEW w PROVE w \in ToSet(d) <=> w \in ToSet(c) \cup ToSet(b)
  <2>1. /\ w \in ToSet(d) <=> Count(d, w) > 0
        /\ w \in ToSet(c) <=> Count(c, w) > 0
        /\ w \in ToSet(b) <=> Count(b, w) > 0
    BY <1>1, <1>2, CountedIn
  <2>2. Count(d, w) > 0 <=> (Count(c, w) > 0 \/ Count(b, w) > 0)
    BY <1>3
  <2> QED
    BY <2>1, <2>2
<1> QED
  BY <1>2, <1>4, <1>5 DEF d

\* A batch that is given up, or that stays after a failure nobody saw.
LEMMA NotDelivered ==
  ASSUME NEW q, NEW b, NEW c, NEW g, NEW n, NEW f \in Nat, HandleInv(q, b, c, g, n, f)
  PROVE  /\ \A w \in Nat : CopiesInv(q, <<>>, c, f, w) /\ CopiesInv(q, b, c, f + 1, w)
         /\ ToSet(b) \subseteq Nat
<1>1. /\ q \in Seq(Nat) /\ b \in Seq(Nat) /\ c \in Seq(Nat)
      /\ \A w \in Nat : CopiesInv(q, b, c, f, w)
  BY DEF HandleInv
<1>2. ASSUME NEW w \in Nat PROVE CopiesInv(q, <<>>, c, f, w) /\ CopiesInv(q, b, c, f + 1, w)
  <2>1. CopiesInv(q, b, c, f, w) /\ Count(<<>>, w) = 0
    BY <1>1, EmptyCounts
  <2>2. Count(q, w) \in Nat /\ Count(b, w) \in Nat /\ Count(c, w) \in Nat
    BY <1>1, CountedIn
  <2> QED
    BY <2>1, <2>2 DEF CopiesInv
<1>3. ToSet(b) \subseteq Nat
  BY <1>1 DEF ToSet
<1> QED
  BY <1>2, <1>3

\* More failures disturb no handle.
LEMMA MoreFaults ==
  ASSUME NEW q, NEW b, NEW c, NEW g, NEW n, NEW f \in Nat, HandleInv(q, b, c, g, n, f)
  PROVE  HandleInv(q, b, c, g, n, f + 1)
<1>1. \A w \in Nat : CopiesInv(q, b, c, f + 1, w)
  BY NotDelivered
<1>2. /\ q \in Seq(Nat) /\ b \in Seq(Nat) /\ c \in Seq(Nat) /\ g \in SUBSET Nat /\ n \in Nat
      /\ n > 0 => f >= n - 1
      /\ g # {} => f >= MaxSends
  BY DEF HandleInv
<1>3. MaxSends \in Nat
  BY RemoteAssumption
<1>4. (n > 0 => f + 1 >= n - 1) /\ (g # {} => f + 1 >= MaxSends)
  BY <1>2, <1>3
<1> QED
  BY <1>1, <1>2, <1>4 DEF HandleInv

\* One handle moves: the invariant of the others stays, and what a target holds.
LEMMA HandleMoves ==
  ASSUME HandlesInv, NEW t \in TargetSet, NEW q, NEW b, NEW c, NEW g, NEW n,
         rqueue' = [rqueue EXCEPT ![t] = q], buffer' = [buffer EXCEPT ![t] = b],
         remote' = [remote EXCEPT ![t] = c], given' = [given EXCEPT ![t] = g],
         sends' = [sends EXCEPT ![t] = n], rfaults' \in {rfaults, rfaults + 1},
         HandleInv(q, b, c, g, n, rfaults'),
         ToSet(q) \cup ToSet(b) \cup ToSet(c) \cup g = Held(t)
  PROVE  HandlesInv' /\ \A u \in TargetSet : Held(u)' = Held(u)
<1>1. /\ rqueue \in [TargetSet -> Seq(Nat)] /\ buffer \in [TargetSet -> Seq(Nat)]
      /\ remote \in [TargetSet -> Seq(Nat)] /\ given \in [TargetSet -> SUBSET Nat]
      /\ sends \in [TargetSet -> Nat] /\ rfaults \in Nat
      /\ \A u \in TargetSet : HandleInv(rqueue[u], buffer[u], remote[u], given[u], sends[u], rfaults)
  BY DEF HandlesInv
<1>2. q \in Seq(Nat) /\ b \in Seq(Nat) /\ c \in Seq(Nat) /\ g \in SUBSET Nat /\ n \in Nat
  BY DEF HandleInv
<1>3. /\ rqueue' \in [TargetSet -> Seq(Nat)] /\ buffer' \in [TargetSet -> Seq(Nat)]
      /\ remote' \in [TargetSet -> Seq(Nat)] /\ given' \in [TargetSet -> SUBSET Nat]
      /\ sends' \in [TargetSet -> Nat]
  BY <1>1, <1>2
<1>4. /\ rqueue'[t] = q /\ buffer'[t] = b /\ remote'[t] = c /\ given'[t] = g /\ sends'[t] = n
      /\ \A u \in TargetSet \ {t} : /\ rqueue'[u] = rqueue[u] /\ buffer'[u] = buffer[u] /\ remote'[u] = remote[u]
                                    /\ given'[u] = given[u] /\ sends'[u] = sends[u]
  BY <1>1
<1>5. rfaults' \in Nat
  BY <1>1
<1>6. ASSUME NEW u \in TargetSet
      PROVE  HandleInv(rqueue'[u], buffer'[u], remote'[u], given'[u], sends'[u], rfaults') /\ Held(u)' = Held(u)
  <2>1. CASE u = t
    BY <2>1, <1>4 DEF Held
  <2>2. CASE u # t
    <3>1. HandleInv(rqueue[u], buffer[u], remote[u], given[u], sends[u], rfaults)
      BY <1>1
    <3>2. HandleInv(rqueue[u], buffer[u], remote[u], given[u], sends[u], rfaults + 1)
      BY <1>1, <3>1, MoreFaults
    <3>3. HandleInv(rqueue[u], buffer[u], remote[u], given[u], sends[u], rfaults')
      BY <3>1, <3>2
    <3> QED
      BY <2>2, <3>3, <1>4 DEF Held
  <2> QED
    BY <2>1, <2>2
<1> QED
  BY <1>3, <1>5, <1>6 DEF HandlesInv

\* What a task of a handle does to its target.
LEMMA HandleSteps ==
  ASSUME HandlesInv, NEW t \in TargetSet, WriterTask(t) \/ SendFails(t) \/ HandleGone(t)
  PROVE  HandlesInv' /\ (\A u \in TargetSet : Held(u)' = Held(u)) /\ UNCHANGED <<calls, caller, failedAt>>
<1> DEFINE q == rqueue[t]
           b == buffer[t]
           c == remote[t]
           g == given[t]
           n == sends[t]
           f == rfaults
<1>1. /\ rqueue \in [TargetSet -> Seq(Nat)] /\ buffer \in [TargetSet -> Seq(Nat)]
      /\ remote \in [TargetSet -> Seq(Nat)] /\ given \in [TargetSet -> SUBSET Nat]
      /\ sends \in [TargetSet -> Nat] /\ f \in Nat
      /\ HandleInv(q, b, c, g, n, f)
  BY DEF HandlesInv
<1>2. /\ q \in Seq(Nat) /\ b \in Seq(Nat) /\ c \in Seq(Nat) /\ g \in SUBSET Nat /\ n \in Nat
      /\ n > 0 => f >= n - 1
      /\ g # {} => f >= MaxSends
      /\ \A w \in Nat : CopiesInv(q, b, c, f, w)
  BY <1>1 DEF HandleInv
<1>3. MaxSends \in Nat /\ BatchSize \in Nat
  BY RemoteAssumption
<1>4. Held(t) = ToSet(q) \cup ToSet(b) \cup ToSet(c) \cup g
  BY DEF Held
<1>5. /\ rqueue = [rqueue EXCEPT ![t] = q] /\ buffer = [buffer EXCEPT ![t] = b] /\ remote = [remote EXCEPT ![t] = c]
      /\ given = [given EXCEPT ![t] = g] /\ sends = [sends EXCEPT ![t] = n]
  BY <1>1
<1> HIDE DEF q, b, c, g, n, f
<1>6. CASE Receive(t)
  <2> DEFINE k == IF Len(b) + 1 >= BatchSize THEN 1 ELSE 0
  <2>1. /\ q # <<>> /\ rqueue' = [rqueue EXCEPT ![t] = Tail(q)] /\ buffer' = [buffer EXCEPT ![t] = Append(b, Head(q))]
        /\ sends' = [sends EXCEPT ![t] = k] /\ UNCHANGED <<calls, caller, failedAt, remote, given, rfaults>>
    BY <1>6 DEF Receive, q, b, f
  <2>2. k \in {0, 1}
    OBVIOUS
  <2> HIDE DEF k
  <2>3. /\ HandleInv(Tail(q), Append(b, Head(q)), c, g, k, f)
        /\ ToSet(Tail(q)) \cup ToSet(Append(b, Head(q))) = ToSet(q) \cup ToSet(b)
    BY <1>1, <2>1, <2>2, Received
  <2>4. ToSet(Tail(q)) \cup ToSet(Append(b, Head(q))) \cup ToSet(c) \cup g = Held(t)
    BY <2>3, <1>4
  <2>5. remote' = [remote EXCEPT ![t] = c] /\ given' = [given EXCEPT ![t] = g] /\ rfaults' = f
    BY <2>1, <1>5 DEF f
  <2>6. HandlesInv' /\ \A u \in TargetSet : Held(u)' = Held(u)
    BY <2>1, <2>3, <2>4, <2>5, HandleMoves DEF f
  <2> QED
    BY <2>1, <2>6
<1>7. CASE FlushTick(t)
  <2>1. sends' = [sends EXCEPT ![t] = 1] /\ UNCHANGED <<calls, caller, failedAt, rqueue, buffer, remote, given, rfaults>>
    BY <1>7 DEF FlushTick
  <2>2. HandleInv(q, b, c, g, 1, f)
    BY <1>1, <1>2 DEF HandleInv
  <2>3. /\ rqueue' = [rqueue EXCEPT ![t] = q] /\ buffer' = [buffer EXCEPT ![t] = b] /\ remote' = [remote EXCEPT ![t] = c]
        /\ given' = [given EXCEPT ![t] = g] /\ rfaults' = f
    BY <2>1, <1>5 DEF f
  <2>4. HandlesInv' /\ \A u \in TargetSet : Held(u)' = Held(u)
    <3> DEFINE k == 1
    <3>1. sends' = [sends EXCEPT ![t] = k] /\ HandleInv(q, b, c, g, k, f)
      BY <2>1, <2>2
    <3> HIDE DEF k
    <3> QED
      BY <2>3, <3>1, <1>4, HandleMoves DEF f
  <2> QED
    BY <2>1, <2>4
<1>8. CASE SendOk(t)
  <2>1. /\ remote' = [remote EXCEPT ![t] = c \o b] /\ buffer' = [buffer EXCEPT ![t] = <<>>]
        /\ sends' = [sends EXCEPT ![t] = 0] /\ UNCHANGED <<calls, caller, failedAt, rqueue, given, rfaults>>
    BY <1>8 DEF SendOk, c, b
  <2>2. c \o b \in Seq(Nat) /\ ToSet(c \o b) = ToSet(c) \cup ToSet(b) /\ \A w \in Nat : CopiesInv(q, <<>>, c \o b, f, w)
    BY <1>1, Delivered
  <2>3. HandleInv(q, <<>>, c \o b, g, 0, f)
    BY <1>2, <2>2, EmptyCounts DEF HandleInv
  <2>4. ToSet(q) \cup ToSet(<<>>) \cup ToSet(c \o b) \cup g = Held(t)
    BY <2>2, <1>4, EmptyCounts
  <2>5. HandlesInv' /\ \A u \in TargetSet : Held(u)' = Held(u)
    BY <2>1, <2>3, <2>4, <1>5, HandleMoves DEF f
  <2> QED
    BY <2>1, <2>5
<1>9. CASE GiveUpBatch(t)
  <2>1. /\ n > MaxSends /\ given' = [given EXCEPT ![t] = g \cup ToSet(b)] /\ buffer' = [buffer EXCEPT ![t] = <<>>]
        /\ sends' = [sends EXCEPT ![t] = 0] /\ UNCHANGED <<calls, caller, failedAt, rqueue, remote, rfaults>>
    BY <1>9 DEF GiveUpBatch, g, b, n
  <2>2. (\A w \in Nat : CopiesInv(q, <<>>, c, f, w)) /\ ToSet(b) \subseteq Nat
    BY <1>1, NotDelivered
  <2>3. f >= MaxSends
    BY <1>1, <1>2, <1>3, <2>1
  <2>4. HandleInv(q, <<>>, c, g \cup ToSet(b), 0, f)
    <3>1. g \cup ToSet(b) \in SUBSET Nat
      BY <1>2, <2>2
    <3> QED
      BY <1>2, <2>2, <2>3, <3>1, EmptyCounts DEF HandleInv
  <2>5. ToSet(q) \cup ToSet(<<>>) \cup ToSet(c) \cup (g \cup ToSet(b)) = Held(t)
    BY <1>4, EmptyCounts
  <2>6. HandlesInv' /\ \A u \in TargetSet : Held(u)' = Held(u)
    BY <2>1, <2>4, <2>5, <1>5, HandleMoves DEF f
  <2> QED
    BY <2>1, <2>6
<1>10. CASE SendFails(t)
  <2>1. /\ rfaults' = f + 1 /\ sends' = [sends EXCEPT ![t] = n + 1] /\ n > 0
        /\ remote' = remote \/ remote' = [remote EXCEPT ![t] = c \o b]
        /\ UNCHANGED <<calls, caller, failedAt, rqueue, buffer, given>>
    BY <1>10 DEF SendFails, c, b, n, f
  <2>2. n + 1 \in Nat /\ f + 1 >= (n + 1) - 1 /\ (g # {} => f + 1 >= MaxSends)
    BY <1>1, <1>2, <1>3, <2>1
  <2>3. CASE remote' = remote
    <3>1. \A w \in Nat : CopiesInv(q, b, c, f + 1, w)
      BY <1>1, NotDelivered
    <3>2. HandleInv(q, b, c, g, n + 1, f + 1)
      BY <1>2, <2>2, <3>1 DEF HandleInv
    <3>3. /\ rqueue' = [rqueue EXCEPT ![t] = q] /\ buffer' = [buffer EXCEPT ![t] = b] /\ remote' = [remote EXCEPT ![t] = c]
          /\ given' = [given EXCEPT ![t] = g]
      BY <2>1, <2>3, <1>5
    <3>4. HandlesInv' /\ \A u \in TargetSet : Held(u)' = Held(u)
      <4> DEFINE k == n + 1
      <4>1. sends' = [sends EXCEPT ![t] = k] /\ HandleInv(q, b, c, g, k, f + 1) /\ rfaults' = f + 1
        BY <2>1, <3>2
      <4> HIDE DEF k
      <4>2. HandleInv(q, b, c, g, k, rfaults') /\ rfaults' \in {rfaults, rfaults + 1}
        BY <4>1 DEF f
      <4> QED
        BY <3>3, <4>1, <4>2, <1>4, HandleMoves
    <3> QED
      BY <2>1, <3>4
  <2>4. CASE remote' = [remote EXCEPT ![t] = c \o b]
    <3>1. c \o b \in Seq(Nat) /\ ToSet(c \o b) = ToSet(c) \cup ToSet(b) /\ \A w \in Nat : CopiesInv(q, b, c \o b, f + 1, w)
      BY <1>1, Delivered
    <3>2. HandleInv(q, b, c \o b, g, n + 1, f + 1)
      BY <1>2, <2>2, <3>1 DEF HandleInv
    <3>3. ToSet(q) \cup ToSet(b) \cup ToSet(c \o b) \cup g = Held(t)
      BY <3>1, <1>4
    <3>4. /\ rqueue' = [rqueue EXCEPT ![t] = q] /\ buffer' = [buffer EXCEPT ![t] = b]
          /\ given' = [given EXCEPT ![t] = g]
      BY <2>1, <1>5
    <3>5. HandlesInv' /\ \A u \in TargetSet : Held(u)' = Held(u)
      <4> DEFINE k == n + 1
                 d == c \o b
      <4>1. /\ sends' = [sends EXCEPT ![t] = k] /\ HandleInv(q, b, d, g, k, f + 1) /\ rfaults' = f + 1
            /\ remote' = [remote EXCEPT ![t] = d] /\ ToSet(q) \cup ToSet(b) \cup ToSet(d) \cup g = Held(t)
        BY <2>1, <2>4, <3>2, <3>3
      <4> HIDE DEF k, d
      <4>2. HandleInv(q, b, d, g, k, rfaults') /\ rfaults' \in {rfaults, rfaults + 1}
        BY <4>1 DEF f
      <4> QED
        BY <3>4, <4>1, <4>2, HandleMoves
    <3> QED
      BY <2>1, <3>5
  <2> QED
    BY <2>1, <2>3, <2>4
<1>11. CASE HandleGone(t)
  <2>1. rfaults' = f + 1 /\ UNCHANGED <<calls, caller, failedAt, rqueue, buffer, sends, remote, given>>
    BY <1>11 DEF HandleGone, f
  <2>2. HandleInv(q, b, c, g, n, f + 1)
    BY <1>1, MoreFaults
  <2>3. HandlesInv' /\ \A u \in TargetSet : Held(u)' = Held(u)
    BY <2>1, <2>2, <1>4, <1>5, HandleMoves DEF f
  <2> QED
    BY <2>1, <2>3
<1> QED
  BY <1>6, <1>7, <1>8, <1>9, <1>10, <1>11 DEF WriterTask

\* The targets, once each.
LEMMA TargetList ==
  /\ Targets \in Seq(TargetSet) /\ Len(Targets) \in Nat /\ DOMAIN Targets = 1..Len(Targets)
  /\ \A i \in 1..Len(Targets) : Targets[i] \in TargetSet
  /\ \A t \in TargetSet : \E i \in 1..Len(Targets) : Targets[i] = t
  /\ \A i, j \in 1..Len(Targets) : Targets[i] = Targets[j] => i = j
<1>1. Targets \in Seq(TargetSet) /\ \A i, j \in 1..Len(Targets) : Targets[i] = Targets[j] => i = j
  BY RemoteAssumption DEF TargetSet
<1>2. Len(Targets) \in Nat /\ DOMAIN Targets = 1..Len(Targets) /\ \A i \in 1..Len(Targets) : Targets[i] \in TargetSet
  BY <1>1
<1>3. \A t \in TargetSet : \E i \in 1..Len(Targets) : Targets[i] = t
  BY <1>2 DEF TargetSet, ToSet
<1> QED
  BY <1>1, <1>2, <1>3

\* A target is before the write in progress when its place is among the last.
LEMMA StillAhead ==
  ASSUME CallerInv, NEW i \in 1..Len(Targets)
  PROVE  Len(caller) \in Nat /\ (Targets[i] \in ToSet(caller) <=> i > Len(Targets) - Len(caller))
<1>1. /\ caller \in Seq(TargetSet) /\ Len(caller) <= Len(Targets)
      /\ \A k \in 1..Len(caller) : caller[k] = Targets[Len(Targets) - Len(caller) + k]
  BY DEF CallerInv
<1>2. Len(caller) \in Nat /\ DOMAIN caller = 1..Len(caller)
  BY <1>1
<1>3. Targets[i] \in ToSet(caller) <=> \E k \in 1..Len(caller) : caller[k] = Targets[i]
  BY <1>2 DEF ToSet
<1>4. ASSUME NEW k \in 1..Len(caller)
      PROVE  Len(Targets) - Len(caller) + k \in 1..Len(Targets) /\ Len(Targets) - Len(caller) + k > Len(Targets) - Len(caller)
  BY <1>1, <1>2, TargetList
<1>5. ASSUME NEW k \in 1..Len(caller), caller[k] = Targets[i] PROVE i > Len(Targets) - Len(caller)
  <2>1. Targets[Len(Targets) - Len(caller) + k] = Targets[i]
    BY <1>1, <1>5
  <2>2. Len(Targets) - Len(caller) + k = i
    BY <2>1, <1>4, TargetList
  <2> QED
    BY <2>2, <1>4
<1>6. ASSUME i > Len(Targets) - Len(caller) PROVE \E k \in 1..Len(caller) : caller[k] = Targets[i]
  <2> DEFINE k == i - (Len(Targets) - Len(caller))
  <2>1. k \in 1..Len(caller) /\ Len(Targets) - Len(caller) + k = i
    BY <1>1, <1>2, <1>6, TargetList
  <2> HIDE DEF k
  <2>2. caller[k] = Targets[i]
    BY <1>1, <2>1
  <2> QED
    BY <2>1, <2>2
<1> QED
  BY <1>2, <1>3, <1>5, <1>6

\* A write begins with the whole list before it.
LEMMA BeginInv ==
  ASSUME WriterInv, WriteBegin
  PROVE  WriterInv'
<1>1. /\ caller = <<>> /\ calls' = calls + 1 /\ caller' = Targets
      /\ UNCHANGED <<failedAt, rqueue, buffer, sends, remote, given, rfaults>>
  BY DEF WriteBegin
<1>2. HandlesInv'
  BY <1>1 DEF WriterInv, HandlesInv
<1>3. \A t : Held(t)' = Held(t)
  BY <1>1 DEF Held
<1>4. /\ calls \in Nat /\ failedAt \subseteq 1..calls /\ \A t \in TargetSet : Held(t) \subseteq 1..calls
      /\ \A t \in TargetSet : \A w \in 1..calls :
           (w \notin failedAt /\ ~(w = calls /\ t \in ToSet(caller))) => w \in Held(t)
      /\ \A i, j \in 1..Len(Targets) : i < j => Held(Targets[j]) \subseteq Held(Targets[i])
  BY DEF WriterInv, CallerInv
<1>5. ToSet(caller) = {}
  BY <1>1, EmptyCounts
<1>6. calls + 1 \in Nat /\ calls + 1 \in 1..(calls + 1) /\ calls + 1 \notin 1..calls /\ 1..(calls + 1) = 1..calls \cup {calls + 1}
  BY <1>4
<1>7. \A i \in 1..Len(Targets) : Targets[i] = Targets[Len(Targets) - Len(Targets) + i]
  <2>1. \A i \in 1..Len(Targets) : Len(Targets) - Len(Targets) + i = i
    BY TargetList
  <2> QED
    BY <2>1
<1>8. ASSUME NEW t \in TargetSet, NEW w \in 1..(calls + 1), w \notin failedAt, ~(w = calls + 1 /\ t \in ToSet(Targets))
      PROVE  w \in Held(t)
  <2>1. w # calls + 1
    BY <1>8 DEF TargetSet
  <2>2. w \in 1..calls
    BY <2>1, <1>6
  <2> QED
    BY <2>2, <1>4, <1>5, <1>8
<1>9. CallerInv'
  <2>1. calls' \in Nat /\ caller' \in Seq(TargetSet) /\ Len(caller') <= Len(Targets)
    BY <1>1, <1>6, TargetList
  <2>2. \A i \in 1..Len(caller') : caller'[i] = Targets[Len(Targets) - Len(caller') + i]
    BY <1>1, <1>7
  <2>3. failedAt' \subseteq 1..calls' /\ calls' \in 1..calls' /\ calls' \notin failedAt'
    BY <1>1, <1>4, <1>6
  <2>4. \A t \in TargetSet : Held(t)' \subseteq 1..calls' /\ calls' \notin Held(t)'
    BY <1>1, <1>3, <1>4, <1>6
  <2>5. \A t \in TargetSet : \A w \in 1..calls' :
          (w \notin failedAt' /\ ~(w = calls' /\ t \in ToSet(caller'))) => w \in Held(t)'
    BY <1>1, <1>3, <1>8
  <2>6. \A i, j \in 1..Len(Targets) : i < j => Held(Targets[j])' \subseteq Held(Targets[i])'
    BY <1>3, <1>4
  <2>7. \A t \in ToSet(caller') : t \in TargetSet
    BY <1>1 DEF TargetSet
  <2> QED
    BY <2>1, <2>2, <2>3, <2>4, <2>5, <2>6, <2>7 DEF CallerInv
<1> QED
  BY <1>2, <1>9 DEF WriterInv

\* A write that is new to a handle joins its channel.
LEMMA Joined ==
  ASSUME NEW q, NEW b, NEW c, NEW g, NEW n, NEW f \in Nat, HandleInv(q, b, c, g, n, f), NEW x \in Nat,
         x \notin ToSet(q) \cup ToSet(b) \cup ToSet(c)
  PROVE  HandleInv(Append(q, x), b, c, g, n, f) /\ ToSet(Append(q, x)) = ToSet(q) \cup {x}
<1>1. /\ q \in Seq(Nat) /\ b \in Seq(Nat) /\ c \in Seq(Nat) /\ g \in SUBSET Nat /\ n \in Nat
      /\ n > 0 => f >= n - 1
      /\ g # {} => f >= MaxSends
      /\ \A w \in Nat : CopiesInv(q, b, c, f, w)
  BY DEF HandleInv
<1> DEFINE d == Append(q, x)
<1>2. d \in Seq(Nat)
  BY <1>1
<1>3. ASSUME NEW w
      PROVE  /\ Count(d, w) = (IF x = w THEN Count(q, w) + 1 ELSE Count(q, w))
             /\ Count(q, w) \in Nat /\ Count(b, w) \in Nat /\ Count(c, w) \in Nat /\ Count(d, w) \in Nat
  <2>1. Count(d, w) = (IF x = w THEN Count(q, w) + 1 ELSE Count(q, w))
    BY <1>1, Counts
  <2> HIDE DEF d
  <2> QED
    BY <1>1, <1>2, <2>1, CountedIn
<1> HIDE DEF d
<1>4. Count(q, x) = 0 /\ Count(b, x) = 0 /\ Count(c, x) = 0
  <2>1. ~(Count(q, x) > 0) /\ ~(Count(b, x) > 0) /\ ~(Count(c, x) > 0)
    BY <1>1, CountedIn
  <2> QED
    BY <2>1, <1>3
<1>5. ASSUME NEW w \in Nat PROVE CopiesInv(d, b, c, f, w)
  <2>1. CopiesInv(q, b, c, f, w)
    BY <1>1
  <2>2. CASE x = w
    BY <2>2, <1>3, <1>4 DEF CopiesInv
  <2>3. CASE x # w
    BY <2>1, <2>3, <1>3 DEF CopiesInv
  <2> QED
    BY <2>2, <2>3
<1>6. ASSUME NEW w PROVE w \in ToSet(d) <=> w \in ToSet(q) \cup {x}
  <2>1. (w \in ToSet(d) <=> Count(d, w) > 0) /\ (w \in ToSet(q) <=> Count(q, w) > 0)
    BY <1>1, <1>2, CountedIn
  <2>2. Count(d, w) > 0 <=> (Count(q, w) > 0 \/ w = x)
    BY <1>3
  <2> QED
    BY <2>1, <2>2
<1> QED
  BY <1>1, <1>2, <1>5, <1>6 DEF HandleInv, d

\* A write reaches the next target, or ends at a closed one.
LEMMA WriteOneInv ==
  ASSUME WriterInv, WriteOne
  PROVE  WriterInv'
<1> DEFINE m == Len(Targets)
<1>0. PICK t : t = Head(caller)
  OBVIOUS
<1>1. /\ calls \in Nat /\ caller \in Seq(TargetSet) /\ Len(caller) <= m
      /\ \A i \in 1..Len(caller) : caller[i] = Targets[m - Len(caller) + i]
      /\ failedAt \subseteq 1..calls
      /\ caller # <<>> => calls \in 1..calls /\ calls \notin failedAt
      /\ \A u \in TargetSet : Held(u) \subseteq 1..calls
      /\ \A u \in ToSet(caller) : calls \notin Held(u)
      /\ \A u \in TargetSet : \A w \in 1..calls :
           (w \notin failedAt /\ ~(w = calls /\ u \in ToSet(caller))) => w \in Held(u)
      /\ \A i, j \in 1..m : i < j => Held(Targets[j]) \subseteq Held(Targets[i])
  BY DEF WriterInv, CallerInv
<1>2. caller # <<>> /\ UNCHANGED <<calls, buffer, sends, remote, given, closed, rfaults>>
  BY DEF WriteOne
<1>3. t \in TargetSet /\ t \in ToSet(caller) /\ Len(caller) \in Nat /\ Len(caller) > 0 /\ t = caller[1]
  BY <1>0, <1>1, <1>2 DEF ToSet
<1>4. calls \in 1..calls /\ calls \notin failedAt /\ calls \notin Held(t) /\ m \in Nat
  BY <1>1, <1>2, <1>3, TargetList
<1>5. CASE t \in closed
  <2>1. caller' = <<>> /\ failedAt' = failedAt \cup {calls} /\ UNCHANGED rqueue
    BY <1>0, <1>5 DEF WriteOne
  <2>2. HandlesInv'
    BY <1>2, <2>1 DEF WriterInv, HandlesInv
  <2>3. \A u : Held(u)' = Held(u)
    BY <1>2, <2>1 DEF Held
  <2>4. ToSet(caller') = {} /\ Len(caller') = 0 /\ caller' \in Seq(TargetSet)
    BY <2>1, EmptyCounts
  <2>5. \A u \in TargetSet : \A w \in 1..calls' :
          (w \notin failedAt' /\ ~(w = calls' /\ u \in ToSet(caller'))) => w \in Held(u)'
    BY <1>1, <1>2, <2>1, <2>3
  <2>6. failedAt' \subseteq 1..calls'
    BY <1>1, <1>2, <1>4, <2>1
  <2>7. \A i \in 1..Len(caller') : caller'[i] = Targets[Len(Targets) - Len(caller') + i]
    BY <2>4
  <2>8. Len(caller') <= Len(Targets)
    BY <1>4, <2>4
  <2>9. /\ \A u \in TargetSet : Held(u)' \subseteq 1..calls'
        /\ \A i, j \in 1..Len(Targets) : i < j => Held(Targets[j])' \subseteq Held(Targets[i])'
    BY <1>1, <1>2, <2>3
  <2>10. CallerInv'
    BY <1>1, <1>2, <2>1, <2>4, <2>5, <2>6, <2>7, <2>8, <2>9 DEF CallerInv
  <2> QED
    BY <2>2, <2>10 DEF WriterInv
<1>6. CASE t \notin closed
  <2> DEFINE q == Append(rqueue[t], calls)
             r == Tail(caller)
  <2>1. caller' = r /\ rqueue' = [rqueue EXCEPT ![t] = q] /\ UNCHANGED failedAt
    BY <1>0, <1>6 DEF WriteOne
  <2>2. HandleInv(q, buffer[t], remote[t], given[t], sends[t], rfaults) /\ ToSet(q) = ToSet(rqueue[t]) \cup {calls}
    <3>1. HandleInv(rqueue[t], buffer[t], remote[t], given[t], sends[t], rfaults) /\ rfaults \in Nat
      BY <1>3 DEF WriterInv, HandlesInv
    <3>2. calls \notin ToSet(rqueue[t]) \cup ToSet(buffer[t]) \cup ToSet(remote[t])
      BY <1>4 DEF Held
    <3> QED
      BY <1>1, <3>1, <3>2, Joined
  <2>3. q \in Seq(Nat) /\ rqueue \in [TargetSet -> Seq(Nat)]
    BY <2>2 DEF WriterInv, HandlesInv, HandleInv
  <2> HIDE DEF q
  <2>4. rqueue' \in [TargetSet -> Seq(Nat)] /\ rqueue'[t] = q /\ \A u \in TargetSet \ {t} : rqueue'[u] = rqueue[u]
    BY <2>1, <2>3, <1>3
  <2>5. HandlesInv'
    <3>1. /\ buffer \in [TargetSet -> Seq(Nat)]
          /\ remote \in [TargetSet -> Seq(Nat)] /\ given \in [TargetSet -> SUBSET Nat]
          /\ sends \in [TargetSet -> Nat] /\ rfaults \in Nat
          /\ \A u \in TargetSet : HandleInv(rqueue[u], buffer[u], remote[u], given[u], sends[u], rfaults)
      BY DEF WriterInv, HandlesInv
    <3>2. ASSUME NEW u \in TargetSet PROVE HandleInv(rqueue'[u], buffer[u], remote[u], given[u], sends[u], rfaults)
      <4>1. CASE u = t
        BY <4>1, <2>2, <2>4
      <4>2. CASE u # t
        BY <4>2, <3>1, <2>4
      <4> QED
        BY <4>1, <4>2
    <3> QED
      BY <3>1, <3>2, <2>4, <1>2 DEF HandlesInv
  <2>6. Held(t)' = Held(t) \cup {calls} /\ \A u \in TargetSet \ {t} : Held(u)' = Held(u)
    BY <1>2, <2>2, <2>4 DEF Held
  <2>7. /\ r \in Seq(TargetSet) /\ Len(r) = Len(caller) - 1 /\ \A i \in 1..Len(r) : r[i] = caller[i + 1]
    BY <1>1, <1>2
  <2>8. m - Len(caller) + 1 \in 1..m /\ t = Targets[m - Len(caller) + 1]
    BY <1>1, <1>3, <1>4
  <2>9. \A i \in 1..Len(r) : r[i] = Targets[m - Len(r) + i]
    <3> SUFFICES ASSUME NEW i \in 1..Len(r) PROVE r[i] = Targets[m - Len(r) + i]
      OBVIOUS
    <3>1. i + 1 \in 1..Len(caller) /\ m - Len(caller) + (i + 1) = m - Len(r) + i
      BY <1>3, <1>4, <2>7
    <3>2. caller[i + 1] = Targets[m - Len(caller) + (i + 1)]
      BY <1>1, <3>1
    <3> QED
      BY <2>7, <3>1, <3>2
  <2>10. ASSUME NEW i \in 1..m PROVE Targets[i] \in ToSet(r) <=> Targets[i] \in ToSet(caller) /\ Targets[i] # t
    <3>1. Targets[i] \in ToSet(caller) <=> i > m - Len(caller)
      BY StillAhead DEF WriterInv
    <3>2. Targets[i] = t <=> i = m - Len(caller) + 1
      BY <2>8, TargetList
    <3>3. Targets[i] \in ToSet(r) <=> \E k \in 1..Len(r) : r[k] = Targets[i]
      <4>1. DOMAIN r = 1..Len(r)
        BY <2>7
      <4> QED
        BY <4>1 DEF ToSet
    <3>4. ASSUME NEW k \in 1..Len(r), r[k] = Targets[i] PROVE i > m - Len(r)
      <4>1. m - Len(r) + k \in 1..m /\ m - Len(r) + k > m - Len(r)
        BY <1>1, <1>3, <1>4, <2>7
      <4>2. m - Len(r) + k = i
        BY <2>9, <3>4, <4>1, TargetList, ZenonT(60)
      <4> QED
        BY <4>1, <4>2
    <3>5. ASSUME i > m - Len(r) PROVE \E k \in 1..Len(r) : r[k] = Targets[i]
      <4> DEFINE k == i - (m - Len(r))
      <4>1. k \in 1..Len(r) /\ m - Len(r) + k = i
        BY <1>1, <1>3, <1>4, <2>7, <3>5
      <4> HIDE DEF k
      <4> QED
        BY <2>9, <4>1
    <3>6. i > m - Len(r) <=> (i > m - Len(caller) /\ i # m - Len(caller) + 1)
      BY <1>3, <1>4, <2>7
    <3> QED
      BY <3>1, <3>2, <3>3, <3>4, <3>5, <3>6
  <2>11. ASSUME NEW u \in TargetSet PROVE u \in ToSet(r) <=> u \in ToSet(caller) /\ u # t
    <3>1. PICK i \in 1..m : Targets[i] = u
      BY TargetList
    <3> QED
      BY <3>1, <2>10
  <2>12. ToSet(r) \subseteq TargetSet
    BY <2>7 DEF ToSet
  <2> HIDE DEF r
  <2>13. /\ \A u \in TargetSet : Held(u)' \subseteq 1..calls'
         /\ \A u \in ToSet(caller') : calls' \notin Held(u)'
    <3>1. \A u \in TargetSet : Held(u)' \subseteq 1..calls
      BY <1>1, <1>4, <2>6
    <3>2. \A u \in ToSet(r) : calls \notin Held(u)'
      BY <1>1, <2>6, <2>11, <2>12
    <3> QED
      BY <3>1, <3>2, <1>2, <2>1
  <2>14. ASSUME NEW u \in TargetSet, NEW w \in 1..calls, w \notin failedAt, ~(w = calls /\ u \in ToSet(r))
         PROVE  w \in Held(u)'
    <3>1. CASE u = t
      BY <3>1, <2>6, <1>1, <2>14
    <3>2. CASE u # t
      BY <3>2, <2>6, <2>11, <1>1, <2>14
    <3> QED
      BY <3>1, <3>2
  <2>15. ASSUME NEW i \in 1..m, NEW j \in 1..m, i < j PROVE Held(Targets[j])' \subseteq Held(Targets[i])'
    <3>1. Held(Targets[j]) \subseteq Held(Targets[i]) /\ Targets[i] \in TargetSet /\ Targets[j] \in TargetSet
      BY <1>1, <2>15, TargetList
    <3>2. CASE Targets[j] # t
      BY <3>1, <3>2, <2>6
    <3>3. CASE Targets[j] = t
      <4>1. j = m - Len(caller) + 1
        BY <3>3, <2>8, TargetList
      <4>2. ~(i > m - Len(caller))
        BY <4>1, <2>15, <1>3, <1>4
      <4>3. Targets[i] \notin ToSet(caller)
        BY <4>2, StillAhead DEF WriterInv
      <4>4. calls \in Held(Targets[i])
        BY <4>3, <3>1, <1>1, <1>4
      <4>5. Targets[i] # t
        BY <4>3, <1>3
      <4> QED
        BY <3>1, <3>3, <4>4, <4>5, <2>6
    <3> QED
      BY <3>2, <3>3
  <2>16. Len(r) <= m /\ Len(r) \in Nat
    BY <1>1, <1>3, <1>4, <2>7
  <2>17. CallerInv'
    <3>1. calls' = calls /\ caller' = r /\ failedAt' = failedAt
      BY <1>2, <2>1
    <3>2. \A u \in TargetSet : \A w \in 1..calls' :
            (w \notin failedAt' /\ ~(w = calls' /\ u \in ToSet(caller'))) => w \in Held(u)'
      BY <2>14, <3>1
    <3>3. \A i, j \in 1..Len(Targets) : i < j => Held(Targets[j])' \subseteq Held(Targets[i])'
      BY <2>15
    <3> QED
      BY <1>1, <1>4, <2>7, <2>9, <2>13, <2>16, <3>1, <3>2, <3>3 DEF CallerInv
  <2> QED
    BY <2>5, <2>17 DEF WriterInv
<1> QED
  BY <1>5, <1>6

\* Every step of the writers keeps the invariant.
LEMMA WriterStep ==
  ASSUME WriterInv, [WriterNext \/ ServerNext \/ ExportNext]_remoteVars
  PROVE  WriterInv'
<1>1. ASSUME HandlesInv', \A u \in TargetSet : Held(u)' = Held(u), UNCHANGED <<calls, caller, failedAt>>
      PROVE  WriterInv'
  <2>1. /\ calls \in Nat /\ caller \in Seq(TargetSet) /\ Len(caller) <= Len(Targets)
        /\ \A i \in 1..Len(caller) : caller[i] = Targets[Len(Targets) - Len(caller) + i]
        /\ failedAt \subseteq 1..calls
        /\ caller # <<>> => calls \in 1..calls /\ calls \notin failedAt
        /\ \A u \in TargetSet : Held(u) \subseteq 1..calls
        /\ \A u \in ToSet(caller) : calls \notin Held(u)
        /\ \A u \in TargetSet : \A w \in 1..calls :
             (w \notin failedAt /\ ~(w = calls /\ u \in ToSet(caller))) => w \in Held(u)
        /\ \A i, j \in 1..Len(Targets) : i < j => Held(Targets[j]) \subseteq Held(Targets[i])
    BY DEF WriterInv, CallerInv
  <2>2. ToSet(caller) \subseteq TargetSet
    BY <2>1 DEF ToSet
  <2>3. \A i \in 1..Len(Targets) : Held(Targets[i])' = Held(Targets[i])
    BY <1>1, TargetList
  <2>4. CallerInv'
    BY <1>1, <2>1, <2>2, <2>3 DEF CallerInv
  <2> QED
    BY <1>1, <2>4 DEF WriterInv
<1>2. ASSUME UNCHANGED writerVars PROVE WriterInv'
  <2>1. HandlesInv' /\ \A u \in TargetSet : Held(u)' = Held(u)
    BY <1>2 DEF WriterInv, HandlesInv, writerVars, Held
  <2> QED
    BY <1>1, <1>2, <2>1 DEF writerVars
<1>3. ASSUME NEW t \in TargetSet, WriterTask(t) \/ SendFails(t) \/ HandleGone(t) PROVE WriterInv'
  BY <1>1, <1>3, HandleSteps DEF WriterInv
<1>4. CASE ServerNext
  BY <1>2, <1>4 DEF ServerNext, handle_remote_write
<1>5. CASE ExportNext
  <2>1. UNCHANGED writerVars
    BY <1>5 DEF ExportNext, ExportTask, WorkerReceives, WorkerStarts, WorkerEnds, SendExport, create_export, cancel_export
  <2> QED
    BY <1>2, <2>1
<1>6. CASE UNCHANGED remoteVars
  BY <1>2, <1>6 DEF remoteVars
<1> QED
  BY <1>3, <1>4, <1>5, <1>6, BeginInv, WriteOneInv DEF WriterNext

\* Nothing is written at the start.
LEMMA WriterStart ==
  ASSUME WriterInit
  PROVE  WriterInv
<1>1. /\ calls = 0 /\ caller = <<>> /\ failedAt = {} /\ rfaults = 0
      /\ rqueue = [t \in TargetSet |-> <<>>] /\ buffer = [t \in TargetSet |-> <<>>] /\ remote = [t \in TargetSet |-> <<>>]
      /\ sends = [t \in TargetSet |-> 0] /\ given = [t \in TargetSet |-> {}]
  BY DEF WriterInit
<1>2. ASSUME NEW w PROVE CopiesInv(<<>>, <<>>, <<>>, 0, w)
  BY EmptyCounts DEF CopiesInv
<1>3. HandleInv(<<>>, <<>>, <<>>, {}, 0, 0)
  BY <1>2, EmptyCounts DEF HandleInv
<1>4. HandlesInv
  <2>1. /\ rqueue \in [TargetSet -> Seq(Nat)] /\ buffer \in [TargetSet -> Seq(Nat)]
        /\ remote \in [TargetSet -> Seq(Nat)] /\ given \in [TargetSet -> SUBSET Nat]
        /\ sends \in [TargetSet -> Nat]
    BY <1>1, EmptyCounts
  <2>2. \A t \in TargetSet : HandleInv(rqueue[t], buffer[t], remote[t], given[t], sends[t], rfaults)
    BY <1>1, <1>3
  <2> QED
    BY <1>1, <2>1, <2>2 DEF HandlesInv
<1>5. \A t \in TargetSet : Held(t) = {}
  BY <1>1, EmptyCounts DEF Held
<1>6. \A i \in 1..Len(Targets) : Held(Targets[i]) = {}
  BY <1>5, TargetList
<1>7. Len(caller) = 0 /\ caller \in Seq(TargetSet) /\ ToSet(caller) = {} /\ 1..calls = {} /\ calls \in Nat /\ Len(caller) <= Len(Targets)
  BY <1>1, EmptyCounts, TargetList
<1>8. CallerInv
  <2>1. \A i \in 1..Len(caller) : caller[i] = Targets[Len(Targets) - Len(caller) + i]
    BY <1>7
  <2> QED
    BY <1>1, <1>5, <1>6, <1>7, <2>1 DEF CallerInv
<1> QED
  BY <1>4, <1>8 DEF WriterInv

\* A write handed to a target is somewhere: in its channel, its batch or its
\* server, or given up after MaxSends failures; the server has more copies than
\* one only for failed requests, a target holds nothing the one before it in the
\* list does not, and a remote read leaves out nothing that matches (remote/write.rs
\* BatchRemoteWriter::write, RemoteWriterHandle::run and flush; remote_server.rs).
THEOREM RemoteSoundHolds == RemoteSpec => []RemoteSound
<1>1. WriterInit => WriterInv
  BY WriterStart
<1>2. WriterInv /\ [WriterNext \/ ServerNext \/ ExportNext]_remoteVars => WriterInv'
  BY WriterStep
<1>3. ASSUME WriterInv PROVE RemoteSound
  <2>1. RemoteAccounted
    <3> SUFFICES ASSUME NEW t \in TargetSet, NEW w \in 1..calls
                 PROVE  /\ (w \notin failedAt /\ ~(w = calls /\ t \in ToSet(caller))) => w \in Held(t)
                        /\ Copies(t, w) <= 1 + rfaults
                        /\ w \in given[t] => rfaults >= MaxSends
      BY DEF RemoteAccounted, Held
    <3>1. calls \in Nat /\ w \in Nat
      BY <1>3 DEF WriterInv, CallerInv
    <3>2. HandleInv(rqueue[t], buffer[t], remote[t], given[t], sends[t], rfaults)
      BY <1>3 DEF WriterInv, HandlesInv
    <3>3. Copies(t, w) <= 1 + rfaults /\ (w \in given[t] => rfaults >= MaxSends)
      BY <3>1, <3>2 DEF HandleInv, CopiesInv, Copies
    <3>4. (w \notin failedAt /\ ~(w = calls /\ t \in ToSet(caller))) => w \in Held(t)
      BY <1>3 DEF WriterInv, CallerInv
    <3> QED
      BY <3>3, <3>4
  <2>2. TargetsInOrder
    <3>1. \A i, j \in DOMAIN Targets : i < j => Held(Targets[j]) \subseteq Held(Targets[i])
      BY <1>3, TargetList DEF WriterInv, CallerInv
    <3> QED
      BY <3>1 DEF TargetsInOrder, Held
  <2>3. ReadsNothingLess
    <3> SUFFICES ASSUME NEW ms \in ReadQueries
                 PROVE  /\ {s \in stored : MatchesAll(s, ms)} \subseteq handle_remote_read(ms)
                        /\ (\A x \in ms : x.type = "eq") => handle_remote_read(ms) = {s \in stored : MatchesAll(s, ms)}
      BY DEF ReadsNothingLess
    <3>1. \A s : MatchesAll(s, ms) => MatchesAll(s, {x \in ms : x.type = "eq"})
      BY DEF MatchesAll
    <3>2. ASSUME \A x \in ms : x.type = "eq" PROVE {x \in ms : x.type = "eq"} = ms
      BY <3>2
    <3> QED
      BY <3>1, <3>2 DEF handle_remote_read
  <2> QED
    BY <2>1, <2>2, <2>3 DEF RemoteSound
<1> QED
  BY <1>1, <1>2, <1>3, PTL DEF RemoteSpec

-----------------------------------------------------------------------------
(* Rules.  The evaluation in progress has rules of the groups to come and      *)
(* samples of the source left; nothing of either is ever taken away.          *)

FileRules == UNION {ToSet(RuleFiles[f]) : f \in DOMAIN RuleFiles}
PostedAs(p) == [name |-> p.name, kind |-> "alert", reads |-> p.reads, cond |-> [op |-> "ne", x |-> 0]]
AnyRule == FileRules \cup {PostedAs(p) : p \in PostedRules}
RSample == [series : RSeries, t : 0..RuleTime, v : {0, 1}]
RAlert == [key : AlertKeys, state : {"Pending", "Firing"}, active_at : Nat, last_evaluation : Nat, value : {0, 1}]
Evaluation == [todo : Seq(AnyRule), rule : Seq(AnyRule), samples : Seq(RSample)]

\* What the evaluations change, apart from recorded samples and alerts.
EvalInv ==
  /\ groups \in Seq(AnyRule)
  /\ source \in SUBSET RSample /\ IsFiniteSet(source) /\ ruleNow \in 0..RuleTime
  /\ \A s \in source : s.t <= ruleNow
  /\ evals \in [RuleNames -> Nat]
  /\ eval \in Evaluation
  /\ \A i \in 1..Len(eval.todo) : eval.todo[i] \in ToSet(groups)
  /\ eval.rule # <<>> => eval.rule[1] \in ToSet(groups)
  /\ eval.samples # <<>> => eval.rule # <<>>
  /\ \A i \in 1..Len(eval.samples) : eval.samples[i] \in source /\ eval.samples[i].series \in eval.rule[1].reads

\* The rules of the files and of the requests are rules with names.
LEMMA RuleFacts ==
  /\ \A f \in DOMAIN RuleFiles : RuleFiles[f] \in Seq(AnyRule)
  /\ \A p \in PostedRules : PostedAs(p) \in AnyRule
  /\ \A r \in AnyRule : r.name \in RuleNames
  /\ RuleTime \in Nat /\ PendingFor \in Nat /\ PendingFor > 0
<1>1. RuleFiles \in [DOMAIN RuleFiles -> Seq(FileRules)]
  BY RulesAssumption DEF FileRules
<1>2. FileRules \subseteq AnyRule
  BY DEF AnyRule
<1>3. ASSUME NEW f \in DOMAIN RuleFiles PROVE RuleFiles[f] \in Seq(AnyRule)
  <2>1. RuleFiles[f] \in Seq(FileRules)
    BY <1>1
  <2> QED
    BY <1>2, <2>1
<1>4. ASSUME NEW r \in AnyRule PROVE r.name \in RuleNames
  <2>1. CASE r \in FileRules
    BY <2>1 DEF RuleNames, FileRules
  <2>2. CASE r \notin FileRules
    <3>1. PICK p \in PostedRules : r = PostedAs(p)
      BY <2>2 DEF AnyRule
    <3>2. r.name = p.name
      BY <3>1 DEF PostedAs
    <3> QED
      BY <3>2 DEF RuleNames
  <2> QED
    BY <2>1, <2>2
<1> QED
  BY <1>3, <1>4, RulesAssumption DEF AnyRule

\* A step that leaves the rules, the source and the evaluation alone, or adds to
\* the groups or to the source.
LEMMA MoreRules ==
  ASSUME EvalInv, groups' \in Seq(AnyRule), ToSet(groups) \subseteq ToSet(groups'),
         source' \in SUBSET RSample, source \subseteq source', IsFiniteSet(source'),
         ruleNow' \in 0..RuleTime, ruleNow <= ruleNow', \A s \in source' \ source : s.t <= ruleNow',
         UNCHANGED <<eval, evals>>
  PROVE  EvalInv'
<1>1. /\ source \in SUBSET RSample /\ ruleNow \in 0..RuleTime
      /\ \A s \in source : s.t <= ruleNow
      /\ evals \in [RuleNames -> Nat]
      /\ eval \in Evaluation
      /\ \A i \in 1..Len(eval.todo) : eval.todo[i] \in ToSet(groups)
      /\ eval.rule # <<>> => eval.rule[1] \in ToSet(groups)
      /\ eval.samples # <<>> => eval.rule # <<>>
      /\ \A i \in 1..Len(eval.samples) : eval.samples[i] \in source /\ eval.samples[i].series \in eval.rule[1].reads
  BY DEF EvalInv
<1>2. \A s \in RSample : s.t \in Int
  BY RuleFacts DEF RSample
<1>3. ASSUME NEW s \in source' PROVE s.t <= ruleNow'
  <2>1. s.t \in Int
    BY <1>2
  <2>2. CASE s \in source
    <3>1. s.t <= ruleNow
      BY <1>1, <2>2
    <3> QED
      BY <2>1, <3>1, <1>1, RuleFacts
  <2> QED
    BY <2>2
<1> QED
  BY <1>1, <1>3 DEF EvalInv

\* The evaluation moves, and only it.
LEMMA EvalMoves ==
  ASSUME EvalInv, NEW e \in Evaluation, eval' = e, UNCHANGED <<groups, source, ruleNow>>,
         evals' \in [RuleNames -> Nat],
         \A i \in 1..Len(e.todo) : e.todo[i] \in ToSet(groups),
         e.rule # <<>> => e.rule[1] \in ToSet(groups),
         e.samples # <<>> => e.rule # <<>>,
         \A i \in 1..Len(e.samples) : e.samples[i] \in source /\ e.samples[i].series \in e.rule[1].reads
  PROVE  EvalInv'
  BY DEF EvalInv

\* What Keep leaves of the groups is of the groups.
LEMMA RulesOf ==
  ASSUME EvalInv, NEW kind
  PROVE  /\ rules_of(kind) \in Seq(AnyRule)
         /\ \A i \in 1..Len(rules_of(kind)) : rules_of(kind)[i] \in ToSet(groups)
         /\ \A r \in ToSet(groups) : r.kind = kind => r \in ToSet(rules_of(kind))
<1> DEFINE S == {r \in ToSet(groups) : r.kind = kind}
           k == Keep(groups, S)
<1>1. groups \in Seq(AnyRule)
  BY DEF EvalInv
<1>2. /\ k \in Seq(AnyRule)
      /\ \A i \in 1..Len(k) : k[i] \in S
      /\ \A p \in 1..Len(groups) : groups[p] \in S => \E i \in 1..Len(k) : k[i] = groups[p]
  <2> HIDE DEF S
  <2> QED
    BY <1>1, KeepElements
<1>3. \A r \in ToSet(groups) : r.kind = kind => r \in ToSet(k)
  <2> SUFFICES ASSUME NEW r \in ToSet(groups), r.kind = kind PROVE r \in ToSet(k)
    OBVIOUS
  <2>1. PICK p \in 1..Len(groups) : groups[p] = r
    BY <1>1 DEF ToSet
  <2> HIDE DEF k
  <2>2. PICK i \in 1..Len(k) : k[i] = r
    BY <1>2, <2>1
  <2>3. DOMAIN k = 1..Len(k)
    BY <1>2
  <2> QED
    BY <2>2, <2>3 DEF ToSet
<1>4. k = rules_of(kind)
  BY DEF rules_of
<1> HIDE DEF k
<1> QED
  BY <1>2, <1>3, <1>4

\* What a query answers: samples of the source, none twice.
LEMMA AnswerOf ==
  ASSUME EvalInv, NEW r, NEW q \in Answers(InWindow(r))
  PROVE  /\ q \in Seq(RSample)
         /\ \A i \in 1..Len(q) : q[i] \in source /\ q[i].series \in r.reads
         /\ \A i, j \in 1..Len(q) : q[i] = q[j] => i = j
<1> DEFINE W == InWindow(r)
<1>1. W \subseteq source /\ W \subseteq RSample /\ \A s \in W : s.series \in r.reads
  BY DEF InWindow, EvalInv
<1>2. IsFiniteSet(W)
  BY <1>1, FS_Subset DEF EvalInv
<1> DEFINE n == Cardinality(W)
<1>3. n \in Nat
  BY <1>2, FS_CardinalityType
<1>4. q \in [1..n -> W] /\ \A i, j \in 1..n : i # j => q[i] # q[j]
  BY DEF Answers, SetToSeqs
<1> HIDE DEF n, W
<1>5. Len(q) = n /\ q \in Seq(W)
  BY <1>3, <1>4
<1> QED
  BY <1>1, <1>4, <1>5

\* Every step of the rules keeps what an evaluation has before it.
LEMMA EvalStep ==
  ASSUME EvalInv, [RulesNext]_ruleVars
  PROVE  EvalInv'
<1>1. /\ groups \in Seq(AnyRule) /\ eval \in Evaluation
      /\ source \in SUBSET RSample /\ IsFiniteSet(source) /\ ruleNow \in 0..RuleTime
      /\ evals \in [RuleNames -> Nat]
      /\ \A i \in 1..Len(eval.todo) : eval.todo[i] \in ToSet(groups)
      /\ eval.rule # <<>> => eval.rule[1] \in ToSet(groups)
      /\ \A i \in 1..Len(eval.samples) : eval.samples[i] \in source /\ eval.samples[i].series \in eval.rule[1].reads
  BY DEF EvalInv
<1>2. /\ eval.todo \in Seq(AnyRule) /\ eval.rule \in Seq(AnyRule) /\ eval.samples \in Seq(RSample)
      /\ eval = [todo |-> eval.todo, rule |-> eval.rule, samples |-> eval.samples]
  BY <1>1 DEF Evaluation
<1>3. ASSUME UNCHANGED <<groups, source, eval, evals, ruleNow>> PROVE EvalInv'
  BY <1>3 DEF EvalInv
<1>4. ASSUME NEW g \in Seq(AnyRule), groups' = groups \o g, UNCHANGED <<source, eval, evals, ruleNow>> PROVE EvalInv'
  <2>1. groups \o g \in Seq(AnyRule) /\ ToSet(groups) \subseteq ToSet(groups \o g)
    <3>1. groups \o g \in Seq(AnyRule) /\ \A i \in 1..Len(groups) : i \in 1..Len(groups \o g) /\ (groups \o g)[i] = groups[i]
      BY <1>1
    <3>2. DOMAIN (groups \o g) = 1..Len(groups \o g) /\ DOMAIN groups = 1..Len(groups)
      BY <1>1, <3>1
    <3> QED
      BY <3>1, <3>2 DEF ToSet
  <2>2. groups' \in Seq(AnyRule) /\ ToSet(groups) \subseteq ToSet(groups')
    BY <2>1, <1>4
  <2>3. ruleNow <= ruleNow'
    BY <1>1, <1>4, RuleFacts
  <2> QED
    BY <1>1, <1>4, <2>2, <2>3, MoreRules
<1>5. ASSUME NEW f \in DOMAIN RuleFiles, load_from_file(f) PROVE EvalInv'
  BY <1>4, <1>5, RuleFacts DEF load_from_file
<1>6. ASSUME NEW p \in PostedRules, handle_alerts_rules_post(p) PROVE EvalInv'
  <2>1. groups' = Append(groups, PostedAs(p)) /\ UNCHANGED <<source, eval, evals, ruleNow>>
    BY <1>6 DEF handle_alerts_rules_post, PostedAs
  <2> DEFINE g == <<PostedAs(p)>>
  <2>2. g \in Seq(AnyRule)
    BY RuleFacts
  <2>3. Append(groups, PostedAs(p)) = groups \o g
    BY <1>1, RuleFacts, AppendIsConcat
  <2> HIDE DEF g
  <2> QED
    BY <1>4, <2>1, <2>2, <2>3
<1>7. ASSUME NEW s \in RSeries, NEW v \in {0, 1}, StoreSample(s, v) PROVE EvalInv'
  <2> DEFINE x == [series |-> s, t |-> ruleNow, v |-> v]
  <2>1. x \in RSample /\ x.t = ruleNow
    BY <1>1 DEF RSample
  <2>2. source' = source \cup {x} /\ UNCHANGED <<groups, eval, evals, ruleNow>>
    BY <1>7 DEF StoreSample
  <2> HIDE DEF x
  <2>3. IsFiniteSet(source') /\ source' \in SUBSET RSample /\ source \subseteq source'
    BY <1>1, <2>1, <2>2, FS_AddElement
  <2>4. ruleNow <= ruleNow' /\ \A y \in source' \ source : y.t <= ruleNow'
    BY <1>1, <2>1, <2>2, RuleFacts
  <2> QED
    BY <1>1, <2>2, <2>3, <2>4, MoreRules
<1>8. CASE RuleTick
  <2>1. ruleNow' = ruleNow + 1 /\ ruleNow < RuleTime /\ UNCHANGED <<groups, source, eval, evals>>
    BY <1>8 DEF RuleTick
  <2>2. ruleNow' \in 0..RuleTime /\ ruleNow <= ruleNow'
    BY <1>1, <2>1, RuleFacts
  <2> QED
    BY <1>1, <2>1, <2>2, MoreRules
<1>9. CASE evaluate_all
  <2> DEFINE k == rules_of("record") \o rules_of("alert")
             e == [todo |-> k, rule |-> <<>>, samples |-> <<>>]
  <2>1. eval' = e /\ UNCHANGED <<groups, source, evals, ruleNow>>
    BY <1>9 DEF evaluate_all, Rest
  <2>2. k \in Seq(AnyRule) /\ \A i \in 1..Len(k) : k[i] \in ToSet(groups)
    BY RulesOf
  <2> HIDE DEF k
  <2>3. e \in Evaluation /\ e.todo = k /\ e.rule = <<>> /\ e.samples = <<>>
    BY <2>2 DEF Evaluation
  <2> HIDE DEF e
  <2>4. \A i \in 1..Len(e.samples) : FALSE
    BY <2>3
  <2> QED
    BY <1>1, <2>1, <2>2, <2>3, <2>4, EvalMoves
<1>10. CASE QueryRule
  <2> DEFINE r == Head(eval.todo)
  <2>1. PICK q \in Answers(InWindow(r)) : eval' = [eval EXCEPT !.todo = Tail(@), !.rule = <<r>>, !.samples = q]
    BY <1>10 DEF QueryRule
  <2>2. eval.todo # <<>> /\ evals' = [evals EXCEPT ![r.name] = @ + 1] /\ UNCHANGED <<groups, source, ruleNow>>
    BY <1>10 DEF QueryRule
  <2>3. r \in AnyRule /\ r \in ToSet(groups) /\ Tail(eval.todo) \in Seq(AnyRule)
    <3>1. r = eval.todo[1] /\ 1 \in 1..Len(eval.todo)
      BY <1>2, <2>2
    <3>2. eval.todo[1] \in AnyRule /\ Tail(eval.todo) \in Seq(AnyRule)
      BY <1>2, <2>2, <3>1
    <3>3. eval.todo[1] \in ToSet(groups)
      BY <1>1, <3>1
    <3> QED
      BY <3>1, <3>2, <3>3
  <2>4. \A i \in 1..Len(Tail(eval.todo)) : Tail(eval.todo)[i] \in ToSet(groups)
    <3>1. \A i \in 1..Len(Tail(eval.todo)) : i + 1 \in 1..Len(eval.todo) /\ Tail(eval.todo)[i] = eval.todo[i + 1]
      BY <1>2, <2>2
    <3> QED
      BY <1>1, <3>1
  <2>5. /\ q \in Seq(RSample)
        /\ \A i \in 1..Len(q) : q[i] \in source /\ q[i].series \in r.reads
    BY AnswerOf
  <2> DEFINE e == [todo |-> Tail(eval.todo), rule |-> <<r>>, samples |-> q]
  <2>6. eval' = e
    BY <1>2, <2>1
  <2>7. evals' \in [RuleNames -> Nat]
    <3>1. r.name \in RuleNames
      BY <2>3, RuleFacts
    <3> QED
      BY <1>1, <2>2, <3>1
  <2>8. e \in Evaluation /\ e.todo = Tail(eval.todo) /\ e.rule = <<r>> /\ e.samples = q /\ e.rule # <<>> /\ e.rule[1] = r
    BY <2>3, <2>5 DEF Evaluation
  <2> HIDE DEF e, r
  <2> QED
    BY <2>2, <2>3, <2>4, <2>5, <2>6, <2>7, <2>8, EvalMoves
<1>11. CASE RuleDone
  <2> DEFINE e == [todo |-> eval.todo, rule |-> <<>>, samples |-> <<>>]
  <2>1. eval.samples = <<>> /\ eval' = [eval EXCEPT !.rule = <<>>] /\ UNCHANGED <<groups, source, evals, ruleNow>>
    BY <1>11 DEF RuleDone
  <2>2. eval' = e
    BY <1>2, <2>1
  <2>3. e \in Evaluation /\ e.todo = eval.todo /\ e.rule = <<>> /\ e.samples = <<>>
    BY <1>2 DEF Evaluation
  <2> HIDE DEF e
  <2>4. \A i \in 1..Len(e.samples) : FALSE
    BY <2>3
  <2> QED
    BY <1>1, <2>1, <2>2, <2>3, <2>4, EvalMoves
<1>12. CASE evaluate_recording \/ evaluate_alerting
  <2> DEFINE u == Tail(eval.samples)
             e == [todo |-> eval.todo, rule |-> eval.rule, samples |-> u]
  <2>1. eval.samples # <<>> /\ eval' = [eval EXCEPT !.samples = Tail(@)] /\ UNCHANGED <<groups, source, evals, ruleNow>>
    BY <1>12 DEF evaluate_recording, evaluate_alerting
  <2>2. eval' = e
    BY <1>2, <2>1
  <2>3. u \in Seq(RSample) /\ \A i \in 1..Len(u) : i + 1 \in 1..Len(eval.samples) /\ u[i] = eval.samples[i + 1]
    BY <1>2, <2>1
  <2>4. e \in Evaluation /\ e.todo = eval.todo /\ e.rule = eval.rule /\ e.samples = u
    BY <1>2, <2>3 DEF Evaluation
  <2>5. eval.rule # <<>>
    BY <2>1 DEF EvalInv
  <2> HIDE DEF e, u
  <2>6. \A i \in 1..Len(e.samples) : e.samples[i] \in source /\ e.samples[i].series \in e.rule[1].reads
    BY <1>1, <2>3, <2>4
  <2> QED
    BY <1>1, <2>1, <2>2, <2>4, <2>5, <2>6, EvalMoves
<1>13. CASE clean_expired_alerts
  BY <1>3, <1>13 DEF clean_expired_alerts
<1>14. CASE UNCHANGED ruleVars
  BY <1>3, <1>14 DEF ruleVars
<1> QED
  BY <1>5, <1>6, <1>7, <1>8, <1>9, <1>10, <1>11, <1>12, <1>13, <1>14 DEF RulesNext

\* What is kept of a sequence, its first element apart.
LEMMA KeepTail ==
  ASSUME NEW T, NEW s \in Seq(T), s # <<>>, NEW S
  PROVE  /\ Tail(s) \in Seq(T) /\ Head(s) \in T /\ Len(Keep(Tail(s), S)) \in Nat
         /\ Len(Keep(s, S)) = IF Head(s) \in S THEN Len(Keep(Tail(s), S)) + 1 ELSE Len(Keep(Tail(s), S))
<1>1. Tail(s) \in Seq(T) /\ Head(s) \in T /\ <<Head(s)>> \in Seq(T) /\ s = <<Head(s)>> \o Tail(s)
  OBVIOUS
<1> DEFINE e == <<>>
           h == <<Head(s)>>
           r == Tail(s)
<1>2. e \in Seq(T) /\ h = Append(e, Head(s)) /\ Keep(e, S) = <<>>
  BY <1>1, KeepAppend
<1>3. Keep(h, S) = IF Head(s) \in S THEN <<Head(s)>> ELSE <<>>
  <2>1. \A y \in T : Keep(Append(e, y), S) = IF y \in S THEN Append(Keep(e, S), y) ELSE Keep(e, S)
    <3>1. e \in Seq(T)
      BY <1>2
    <3> HIDE DEF e
    <3> QED
      BY <3>1, KeepAppend
  <2>2. Append(<<>>, Head(s)) = <<Head(s)>>
    OBVIOUS
  <2> QED
    BY <1>1, <1>2, <2>1, <2>2
<1>4. Keep(h \o r, S) = Keep(h, S) \o Keep(r, S)
  <2>1. h \in Seq(T) /\ r \in Seq(T)
    BY <1>1
  <2> HIDE DEF h, r
  <2> QED
    BY <2>1, KeepConcat
<1>5. Keep(r, S) \in Seq(T) /\ Keep(h, S) \in Seq(T)
  <2>1. h \in Seq(T) /\ r \in Seq(T)
    BY <1>1
  <2> HIDE DEF h, r
  <2> QED
    BY <2>1, KeepElements
<1>6. Len(Keep(h, S) \o Keep(r, S)) = Len(Keep(h, S)) + Len(Keep(r, S)) /\ Len(Keep(r, S)) \in Nat
  <2> DEFINE a == Keep(h, S)
             b == Keep(r, S)
  <2> HIDE DEF a, b
  <2>1. a \in Seq(T) /\ b \in Seq(T)
    BY <1>5 DEF a, b
  <2>2. Len(a \o b) = Len(a) + Len(b) /\ Len(b) \in Nat
    BY <2>1
  <2> QED
    BY <2>2 DEF a, b
<1>7. Len(Keep(h, S)) = IF Head(s) \in S THEN 1 ELSE 0
  BY <1>3
<1>8. s = h \o r
  BY <1>1
<1> HIDE DEF h, r
<1>9. Len(Keep(s, S)) = IF Head(s) \in S THEN Len(Keep(r, S)) + 1 ELSE Len(Keep(r, S))
  BY <1>4, <1>6, <1>7, <1>8
<1> QED
  BY <1>1, <1>6, <1>9 DEF r

\* A sequence that has nothing twice is no longer than a set that has it all.
LEMMA OnceEach ==
  ASSUME NEW A, IsFiniteSet(A), NEW k \in Seq(A), \A i, j \in 1..Len(k) : k[i] = k[j] => i = j
  PROVE  Cardinality(A) \in Nat /\ Len(k) <= Cardinality(A)
<1>1. Len(k) \in Nat /\ k \in [1..Len(k) -> A]
  OBVIOUS
<1>2. k \in Injection(1..Len(k), A)
  <2>1. \A i, j \in 1..Len(k) : k[i] = k[j] => i = j
    OBVIOUS
  <2> DEFINE D == 1..Len(k)
  <2>2. k \in [D -> A] /\ \A i, j \in D : k[i] = k[j] => i = j
    BY <1>1, <2>1
  <2> HIDE DEF D
  <2>3. k \in Injection(D, A)
    BY <2>2 DEF Injection, IsInjective
  <2> QED
    BY <2>3 DEF D
<1>3. Cardinality(1..Len(k)) <= Cardinality(A)
  BY <1>2, FS_Injection
<1>4. Cardinality(1..Len(k)) = Len(k)
  <2>1. Cardinality(1..Len(k)) = IF 1 > Len(k) THEN 0 ELSE Len(k) - 1 + 1
    BY <1>1, FS_Interval
  <2> QED
    BY <1>1, <2>1
<1> QED
  BY <1>3, <1>4, FS_CardinalityType

\* So is what is kept of it.
LEMMA KeptOnce ==
  ASSUME NEW T, NEW s \in Seq(T), NEW S, NEW A, IsFiniteSet(A),
         \A i, j \in 1..Len(s) : s[i] = s[j] => i = j,
         \A i \in 1..Len(s) : s[i] \in S => s[i] \in A
  PROVE  Len(Keep(s, S)) \in Nat /\ Cardinality(A) \in Nat /\ Len(Keep(s, S)) <= Cardinality(A)
<1> DEFINE k == Keep(s, S)
           F == [x \in T |-> x]
<1>1. /\ k \in Seq(T)
      /\ \A i \in 1..Len(k) : k[i] \in S /\ \E p \in 1..Len(s) : s[p] = k[i]
  BY KeepElements
<1>2. \A p, q \in 1..Len(s) : F[s[p]] = F[s[q]] => p = q
  OBVIOUS
<1>3. \A i, j \in 1..Len(k) : F[k[i]] = F[k[j]] => i = j
  <2> HIDE DEF F
  <2> QED
    BY <1>2, KeepDistinct
<1> HIDE DEF k
<1>4. \A i, j \in 1..Len(k) : k[i] = k[j] => i = j
  <2> HIDE DEF F
  <2> QED
    BY <1>3
<1>5. k \in Seq(A)
  <2>1. \A i \in 1..Len(k) : k[i] \in A
    BY <1>1
  <2> QED
    BY <1>1, <2>1
<1>6. Len(k) <= Cardinality(A) /\ Cardinality(A) \in Nat
  BY <1>4, <1>5, OnceEach
<1> QED
  BY <1>1, <1>6 DEF k

\* Products of natural numbers.
LEMMA Products ==
  ASSUME NEW e \in Nat, NEW a \in Nat, NEW b \in Nat
  PROVE  e * a \in Nat /\ (a <= b => e * a <= e * b) /\ (e + 1) * a = e * a + a
<1>1. e * a \in Nat /\ (e + 1) * a = e * a + a
  OBVIOUS
<1>2. ASSUME a <= b PROVE e * a <= e * b
  <2>1. PICK d \in Nat : b = a + d
    <3>1. b - a \in Nat /\ b = a + (b - a)
      BY <1>2
    <3> QED
      BY <3>1
  <2>2. e * b = e * a + e * d /\ e * d \in Nat
    BY <2>1
  <2> QED
    BY <1>1, <2>2
<1> QED
  BY <1>1, <1>2

-----------------------------------------------------------------------------
(* Recorded samples.  What the evaluation in progress has yet to write counts   *)
(* as written.                                                                *)

AtTime(t) == {s \in RSample : s.t = t}
Owed(n, t) ==
  IF eval.rule # <<>> /\ eval.rule[1].kind = "record" /\ eval.rule[1].name = n
  THEN Len(Keep(eval.samples, AtTime(t))) ELSE 0
RecordInv ==
  /\ recorded \in [RuleNames -> [0..RuleTime -> Nat]]
  /\ \A n \in RuleNames, t \in 0..RuleTime : recorded[n][t] + Owed(n, t) <= evals[n] * Cardinality(SourceAt(n, t))

\* What may be recorded is a part of the source, before a step and after it.
LEMMA SourceGrows ==
  ASSUME EvalInv, EvalInv', NEW n, NEW t, ToSet(groups) \subseteq ToSet(groups'), source \subseteq source'
  PROVE  /\ IsFiniteSet(SourceAt(n, t)) /\ Cardinality(SourceAt(n, t)) \in Nat
         /\ Cardinality(SourceAt(n, t)') \in Nat /\ Cardinality(SourceAt(n, t)) <= Cardinality(SourceAt(n, t)')
<1>1. PICK A : A = SourceAt(n, t)
  OBVIOUS
<1>2. PICK B : B = SourceAt(n, t)'
  OBVIOUS
<1>3. PICK C : C = source'
  OBVIOUS
<1>4. A \subseteq B /\ B \subseteq C
  BY <1>1, <1>2, <1>3 DEF SourceAt, Recorders
<1>5. IsFiniteSet(C)
  BY <1>3 DEF EvalInv
<1>6. IsFiniteSet(B)
  BY <1>4, <1>5, FS_Subset
<1>7. IsFiniteSet(A) /\ Cardinality(A) <= Cardinality(B)
  BY <1>4, <1>6, FS_Subset
<1>8. Cardinality(A) \in Nat /\ Cardinality(B) \in Nat
  BY <1>6, <1>7, FS_CardinalityType
<1> QED
  BY <1>1, <1>2, <1>7, <1>8

\* What is owed is a number.
LEMMA OwedNumber ==
  ASSUME EvalInv
  PROVE  \A n, t : Owed(n, t) \in Nat
<1> SUFFICES ASSUME NEW n, NEW t PROVE Owed(n, t) \in Nat
  OBVIOUS
<1>1. eval.samples \in Seq(RSample)
  BY DEF EvalInv, Evaluation
<1>2. Keep(eval.samples, AtTime(t)) \in Seq(RSample)
  BY <1>1, KeepElements
<1>3. Len(Keep(eval.samples, AtTime(t))) \in Nat
  BY <1>2
<1> QED
  BY <1>3 DEF Owed

\* A step that records nothing, begins no rule and owes no more than before.
LEMMA RecordsNothing ==
  ASSUME EvalInv, EvalInv', RecordInv, UNCHANGED <<recorded, evals>>,
         ToSet(groups) \subseteq ToSet(groups'), source \subseteq source',
         \A n \in RuleNames, t \in 0..RuleTime : Owed(n, t)' \in {0, Owed(n, t)}
  PROVE  RecordInv'
<1>1. recorded \in [RuleNames -> [0..RuleTime -> Nat]] /\ evals \in [RuleNames -> Nat]
  BY DEF RecordInv, EvalInv
<1>2. ASSUME NEW n \in RuleNames, NEW t \in 0..RuleTime
      PROVE  recorded'[n][t] + Owed(n, t)' <= evals'[n] * Cardinality(SourceAt(n, t)')
  <2>1. PICK a, b : a = Cardinality(SourceAt(n, t)) /\ b = Cardinality(SourceAt(n, t)')
    OBVIOUS
  <2>2. a \in Nat /\ b \in Nat /\ a <= b
    BY <2>1, SourceGrows
  <2>3. PICK e \in Nat : e = evals[n] /\ e = evals'[n]
    BY <1>1
  <2>4. PICK c \in Nat : c = recorded[n][t] /\ c = recorded'[n][t]
    BY <1>1
  <2>5. PICK w \in Nat : w = Owed(n, t)
    BY OwedNumber
  <2>6. PICK x : x = Owed(n, t)' /\ x \in {0, w}
    BY <2>5
  <2>7. c + w <= e * a
    BY <2>1, <2>3, <2>4, <2>5 DEF RecordInv
  <2>8. e * a <= e * b /\ e * a \in Nat /\ e * b \in Nat
    BY <2>2, Products
  <2>9. c + x <= e * b
    BY <2>6, <2>7, <2>8
  <2> QED
    BY <2>1, <2>3, <2>4, <2>6, <2>9
<1>3. recorded' \in [RuleNames -> [0..RuleTime -> Nat]]
  BY <1>1
<1> QED
  BY <1>2, <1>3 DEF RecordInv

\* The query of a rule: it owes each sample once, which one more evaluation allows.
LEMMA QueryOwes ==
  ASSUME EvalInv, EvalInv', RecordInv, QueryRule
  PROVE  RecordInv'
<1>1. /\ recorded \in [RuleNames -> [0..RuleTime -> Nat]] /\ evals \in [RuleNames -> Nat]
      /\ eval.todo \in Seq(AnyRule) /\ eval.rule \in Seq(AnyRule) /\ eval.samples \in Seq(RSample)
      /\ eval = [todo |-> eval.todo, rule |-> eval.rule, samples |-> eval.samples]
  BY DEF RecordInv, EvalInv, Evaluation
<1>2. PICK r : r = Head(eval.todo)
  OBVIOUS
<1>3. PICK q \in Answers(InWindow(r)) : eval' = [eval EXCEPT !.todo = Tail(@), !.rule = <<r>>, !.samples = q]
  BY <1>2 DEF QueryRule
<1>4. /\ eval.todo # <<>> /\ eval.rule = <<>> /\ evals' = [evals EXCEPT ![r.name] = @ + 1]
      /\ UNCHANGED <<groups, source, recorded, ruleNow>>
  BY <1>2 DEF QueryRule
<1>5. eval'.rule = <<r>> /\ eval'.samples = q
  BY <1>1, <1>3
<1>6. r \in AnyRule /\ r \in ToSet(groups) /\ r.name \in RuleNames
  <2>1. r = eval.todo[1] /\ 1 \in 1..Len(eval.todo)
    BY <1>1, <1>2, <1>4
  <2>2. eval.todo[1] \in AnyRule
    BY <1>1, <2>1
  <2>3. eval.todo[1] \in ToSet(groups)
    BY <2>1 DEF EvalInv
  <2> QED
    BY <2>1, <2>2, <2>3, RuleFacts
<1>7. /\ q \in Seq(RSample)
      /\ \A i \in 1..Len(q) : q[i] \in source /\ q[i].series \in r.reads
      /\ \A i, j \in 1..Len(q) : q[i] = q[j] => i = j
  BY AnswerOf
<1>8. ASSUME NEW n \in RuleNames, NEW t \in 0..RuleTime
      PROVE  recorded'[n][t] + Owed(n, t)' <= evals'[n] * Cardinality(SourceAt(n, t)')
  <2>1. SourceAt(n, t)' = SourceAt(n, t)
    BY <1>4 DEF SourceAt, Recorders
  <2>2. PICK a \in Nat : a = Cardinality(SourceAt(n, t)) /\ a = Cardinality(SourceAt(n, t)')
    <3>1. Cardinality(SourceAt(n, t)) \in Nat
      BY <1>4, SourceGrows
    <3> QED
      BY <2>1, <3>1
  <2>3. PICK e \in Nat : e = evals[n]
    BY <1>1
  <2>4. PICK c \in Nat : c = recorded[n][t] /\ c = recorded'[n][t]
    BY <1>1, <1>4
  <2>5. c + 0 <= e * a
    <3>1. Owed(n, t) = 0
      BY <1>4 DEF Owed
    <3> QED
      BY <2>2, <2>3, <2>4, <3>1 DEF RecordInv
  <2>6. e * a \in Nat /\ (e + 1) * a = e * a + a
    BY Products
  <2>7. CASE n = r.name
    <3>1. evals'[n] = e + 1
      BY <2>7, <1>1, <1>4, <2>3
    <3>2. CASE r.kind = "record"
      <4>1. Owed(n, t)' = Len(Keep(q, AtTime(t)))
        BY <1>5, <2>7, <3>2 DEF Owed, AtTime
      <4>2. \A i \in 1..Len(q) : q[i] \in AtTime(t) => q[i] \in SourceAt(n, t)
        <5>1. r \in Recorders(n)
          BY <1>6, <2>7, <3>2 DEF Recorders
        <5> QED
          BY <1>7, <5>1 DEF SourceAt, AtTime
      <4>3. IsFiniteSet(SourceAt(n, t))
        BY <1>4, SourceGrows
      <4>4. PICK S, A : S = AtTime(t) /\ A = SourceAt(n, t)
        OBVIOUS
      <4>5. Len(Keep(q, S)) \in Nat /\ Len(Keep(q, S)) <= Cardinality(A)
        BY <1>7, <4>2, <4>3, <4>4, KeptOnce
      <4>6. PICK x \in Nat : x = Owed(n, t)' /\ x <= a
        BY <4>1, <4>4, <4>5, <2>2
      <4>7. c + x <= (e + 1) * a
        BY <4>6, <2>5, <2>6
      <4> QED
        BY <2>2, <2>4, <3>1, <4>6, <4>7
    <3>3. CASE r.kind # "record"
      <4>1. Owed(n, t)' = 0
        BY <1>5, <3>3 DEF Owed
      <4>2. c + 0 <= (e + 1) * a
        BY <2>5, <2>6
      <4> QED
        BY <2>2, <2>4, <3>1, <4>1, <4>2
    <3> QED
      BY <3>2, <3>3
  <2>8. CASE n # r.name
    <3>1. evals'[n] = e /\ Owed(n, t)' = 0
      <4>1. evals'[n] = e
        BY <2>8, <1>1, <1>4, <2>3
      <4>2. Owed(n, t)' = 0
        BY <2>8, <1>5 DEF Owed
      <4> QED
        BY <4>1, <4>2
    <3> QED
      BY <2>2, <2>4, <2>5, <3>1
  <2> QED
    BY <2>7, <2>8
<1>9. recorded' \in [RuleNames -> [0..RuleTime -> Nat]]
  BY <1>1, <1>4
<1> QED
  BY <1>8, <1>9 DEF RecordInv

\* A sample is written: one more recorded, one less owed.
LEMMA RecordsOne ==
  ASSUME EvalInv, EvalInv', RecordInv, evaluate_recording
  PROVE  RecordInv'
<1>1. /\ recorded \in [RuleNames -> [0..RuleTime -> Nat]] /\ evals \in [RuleNames -> Nat]
      /\ eval.todo \in Seq(AnyRule) /\ eval.rule \in Seq(AnyRule) /\ eval.samples \in Seq(RSample)
      /\ eval = [todo |-> eval.todo, rule |-> eval.rule, samples |-> eval.samples]
  BY DEF RecordInv, EvalInv, Evaluation
<1>2. PICK r, s, u : r = eval.rule[1] /\ s = Head(eval.samples) /\ u = eval.samples
  OBVIOUS
<1>3. /\ u # <<>> /\ r.kind = "record" /\ recorded' = [recorded EXCEPT ![r.name][s.t] = @ + 1]
      /\ eval' = [eval EXCEPT !.samples = Tail(@)]
      /\ UNCHANGED <<groups, source, evals, ruleNow>>
  BY <1>2 DEF evaluate_recording
<1>4. eval.rule # <<>> /\ r \in AnyRule /\ r.name \in RuleNames
  <2>1. eval.rule # <<>>
    BY <1>2, <1>3 DEF EvalInv
  <2>2. r \in AnyRule
    BY <1>1, <1>2, <2>1
  <2> QED
    BY <2>1, <2>2, RuleFacts
<1>5. s \in RSample /\ u \in Seq(RSample) /\ Tail(u) \in Seq(RSample)
  BY <1>1, <1>2, <1>3
<1>6. s.t \in 0..RuleTime
  BY <1>5 DEF RSample
<1>7. eval'.rule = eval.rule /\ eval'.samples = Tail(u)
  BY <1>1, <1>2, <1>3
<1>8. recorded' \in [RuleNames -> [0..RuleTime -> Nat]]
  <2>1. recorded[r.name] \in [0..RuleTime -> Nat]
    BY <1>1, <1>4
  <2> DEFINE f == [recorded[r.name] EXCEPT ![s.t] = @ + 1]
  <2>2. f \in [0..RuleTime -> Nat]
    <3>1. PICK g, d : g = recorded[r.name] /\ d = s.t
      OBVIOUS
    <3>2. g \in [0..RuleTime -> Nat] /\ d \in 0..RuleTime
      BY <2>1, <1>6, <3>1
    <3>3. [g EXCEPT ![d] = g[d] + 1] \in [0..RuleTime -> Nat]
      BY <3>2
    <3> QED
      BY <3>1, <3>3
  <2>3. recorded' = [recorded EXCEPT ![r.name] = f]
    BY <1>3
  <2> HIDE DEF f
  <2> QED
    BY <1>1, <2>2, <2>3
<1>9. ASSUME NEW n \in RuleNames, NEW t \in 0..RuleTime
      PROVE  recorded'[n][t] + Owed(n, t)' <= evals'[n] * Cardinality(SourceAt(n, t)')
  <2>1. SourceAt(n, t)' = SourceAt(n, t) /\ evals'[n] = evals[n]
    BY <1>3 DEF SourceAt, Recorders
  <2>2. PICK m : m = evals[n] * Cardinality(SourceAt(n, t)) /\ m = evals'[n] * Cardinality(SourceAt(n, t)')
    BY <2>1
  <2>3. recorded[n][t] + Owed(n, t) <= m
    BY <2>2 DEF RecordInv
  <2>4. m \in Nat
    <3>1. Cardinality(SourceAt(n, t)) \in Nat /\ evals[n] \in Nat
      BY <1>1, <1>3, SourceGrows
    <3> QED
      BY <2>2, <3>1, Products
  <2>5. PICK c \in Nat : c = recorded[n][t]
    BY <1>1
  <2>6. CASE n = r.name
    <3>1. PICK S : S = AtTime(t)
      OBVIOUS
    <3>2. /\ Len(Keep(Tail(u), S)) \in Nat
          /\ Len(Keep(u, S)) = IF s \in S THEN Len(Keep(Tail(u), S)) + 1 ELSE Len(Keep(Tail(u), S))
      BY <1>2, <1>3, <1>5, KeepTail
    <3>3. Owed(n, t) = Len(Keep(u, S))
      BY <1>2, <1>3, <1>4, <2>6, <3>1 DEF Owed
    <3>4. Owed(n, t)' = Len(Keep(Tail(u), S))
      BY <1>2, <1>3, <1>4, <1>7, <2>6, <3>1 DEF Owed, AtTime
    <3>5. s \in S <=> s.t = t
      BY <1>5, <3>1 DEF AtTime
    <3>6. recorded'[n][t] = IF s.t = t THEN c + 1 ELSE c
      <4>1. recorded[r.name] \in [0..RuleTime -> Nat]
        BY <1>1, <1>4
      <4> DEFINE f == [recorded[r.name] EXCEPT ![s.t] = @ + 1]
      <4>2. f[t] = IF s.t = t THEN c + 1 ELSE c
        BY <4>1, <1>6, <2>5, <2>6
      <4>3. recorded' = [recorded EXCEPT ![r.name] = f]
        BY <1>3
      <4> HIDE DEF f
      <4>4. recorded'[n] = f
        BY <1>1, <1>4, <2>6, <4>3
      <4> QED
        BY <4>2, <4>4
    <3>7. PICK k \in Nat : k = Len(Keep(Tail(u), S))
      BY <3>2
    <3>8. CASE s.t = t
      <4>1. c + (k + 1) <= m
        BY <2>3, <2>5, <3>2, <3>3, <3>5, <3>7, <3>8
      <4>2. (c + 1) + k <= m
        BY <2>4, <4>1
      <4> QED
        BY <2>2, <3>4, <3>6, <3>7, <3>8, <4>2
    <3>9. CASE s.t # t
      <4>1. c + k <= m
        BY <2>3, <2>5, <3>2, <3>3, <3>5, <3>7, <3>9
      <4> QED
        BY <2>2, <3>4, <3>6, <3>7, <3>9, <4>1
    <3> QED
      BY <3>8, <3>9
  <2>7. CASE n # r.name
    <3>1. Owed(n, t) = 0 /\ Owed(n, t)' = 0
      BY <1>2, <1>7, <2>7 DEF Owed
    <3>2. recorded'[n] = recorded[n]
      <4> DEFINE f == [recorded[r.name] EXCEPT ![s.t] = @ + 1]
      <4>1. recorded' = [recorded EXCEPT ![r.name] = f]
        BY <1>3
      <4> HIDE DEF f
      <4> QED
        BY <1>1, <2>7, <4>1
    <3> QED
      BY <2>2, <2>3, <3>1, <3>2
  <2> QED
    BY <2>6, <2>7
<1> QED
  BY <1>8, <1>9 DEF RecordInv

\* Every step keeps what is recorded within what may be.
LEMMA RecordStep ==
  ASSUME EvalInv, EvalInv', RecordInv, [RulesNext]_ruleVars
  PROVE  RecordInv'
<1>0. groups \in Seq(AnyRule) /\ eval \in Evaluation
  BY DEF EvalInv
<1>1. /\ eval.todo \in Seq(AnyRule) /\ eval.rule \in Seq(AnyRule) /\ eval.samples \in Seq(RSample)
      /\ eval = [todo |-> eval.todo, rule |-> eval.rule, samples |-> eval.samples]
  BY <1>0 DEF Evaluation
<1>2. ASSUME UNCHANGED <<recorded, evals, eval>>, ToSet(groups) \subseteq ToSet(groups'), source \subseteq source'
      PROVE  RecordInv'
  <2>1. \A n, t : Owed(n, t)' = Owed(n, t)
    BY <1>2 DEF Owed, AtTime
  <2> QED
    BY <1>2, <2>1, RecordsNothing
<1>3. ASSUME UNCHANGED <<recorded, evals, groups, source>>, eval'.rule = <<>>
      PROVE  RecordInv'
  <2>1. \A n, t : Owed(n, t)' = 0
    BY <1>3 DEF Owed
  <2> QED
    BY <1>3, <2>1, RecordsNothing
<1>4. ASSUME NEW g \in Seq(AnyRule), groups' = groups \o g, UNCHANGED <<recorded, evals, eval, source>> PROVE RecordInv'
  <2>1. groups \o g \in Seq(AnyRule) /\ \A i \in 1..Len(groups) : i \in 1..Len(groups \o g) /\ (groups \o g)[i] = groups[i]
    BY <1>0
  <2>2. DOMAIN (groups \o g) = 1..Len(groups \o g) /\ DOMAIN groups = 1..Len(groups)
    BY <1>0, <2>1
  <2>3. ToSet(groups) \subseteq ToSet(groups \o g)
    BY <2>1, <2>2 DEF ToSet
  <2> QED
    BY <1>2, <1>4, <2>3
<1>5. ASSUME NEW f \in DOMAIN RuleFiles, load_from_file(f) PROVE RecordInv'
  BY <1>4, <1>5, RuleFacts DEF load_from_file
<1>6. ASSUME NEW p \in PostedRules, handle_alerts_rules_post(p) PROVE RecordInv'
  <2>1. groups' = Append(groups, PostedAs(p)) /\ UNCHANGED <<recorded, source, eval, evals>>
    BY <1>6 DEF handle_alerts_rules_post, PostedAs
  <2> DEFINE g == <<PostedAs(p)>>
  <2>2. g \in Seq(AnyRule)
    BY RuleFacts
  <2>3. Append(groups, PostedAs(p)) = groups \o g
    BY <1>0, RuleFacts, AppendIsConcat
  <2> HIDE DEF g
  <2> QED
    BY <1>4, <2>1, <2>2, <2>3
<1>7. ASSUME NEW s \in RSeries, NEW v \in {0, 1}, StoreSample(s, v) PROVE RecordInv'
  BY <1>2, <1>7 DEF StoreSample
<1>8. CASE RuleTick \/ clean_expired_alerts \/ UNCHANGED ruleVars
  BY <1>2, <1>8 DEF RuleTick, clean_expired_alerts, ruleVars
<1>9. CASE evaluate_all
  <2>1. eval'.rule = <<>> /\ UNCHANGED <<recorded, evals, groups, source>>
    BY <1>9 DEF evaluate_all, Rest
  <2> QED
    BY <1>3, <2>1
<1>10. CASE RuleDone
  <2>1. eval'.rule = <<>> /\ UNCHANGED <<recorded, evals, groups, source>>
    BY <1>1, <1>10 DEF RuleDone
  <2> QED
    BY <1>3, <2>1
<1>11. CASE evaluate_alerting
  <2>1. /\ eval.rule[1].kind = "alert" /\ eval' = [eval EXCEPT !.samples = Tail(@)]
        /\ UNCHANGED <<recorded, evals, groups, source>>
    BY <1>11 DEF evaluate_alerting
  <2>2. eval'.rule = eval.rule
    BY <1>1, <2>1
  <2>3. \A n, t : Owed(n, t)' = 0
    BY <2>1, <2>2 DEF Owed
  <2> QED
    BY <2>1, <2>3, RecordsNothing
<1> QED
  BY <1>5, <1>6, <1>7, <1>8, <1>9, <1>10, <1>11, QueryOwes, RecordsOne DEF RulesNext

-----------------------------------------------------------------------------
(* Alerts.                                                                   *)

Confirmed(a) ==
  /\ a.state = "Firing" => a.last_evaluation - a.active_at >= PendingFor
  /\ a.last_evaluation <= ruleNow
  /\ \E r \in AlertRules, s \in source : r.name = a.key[1] /\ s.series = a.key[2] /\ Firing(r, s) /\ s.t <= a.last_evaluation
AlertsInv ==
  /\ alerts \in Seq(RAlert) /\ noted \in [AlertKeys -> {"none", "Pending", "Firing"}]
  /\ \A i, j \in 1..Len(alerts) : alerts[i].key = alerts[j].key => i = j
  /\ \A i \in 1..Len(alerts) : noted[alerts[i].key] = alerts[i].state /\ Confirmed(alerts[i])

\* The fields of an alert.
LEMMA AlertFields ==
  ASSUME NEW a \in RAlert
  PROVE  /\ a.key \in AlertKeys /\ a.state \in {"Pending", "Firing"} /\ a.active_at \in Nat /\ a.last_evaluation \in Nat
         /\ a.value \in {0, 1}
         /\ a = [key |-> a.key, state |-> a.state, active_at |-> a.active_at, last_evaluation |-> a.last_evaluation, value |-> a.value]
  BY DEF RAlert

\* What is confirmed stays so.
LEMMA StaysConfirmed ==
  ASSUME EvalInv, EvalInv', NEW a \in RAlert, Confirmed(a),
         ToSet(groups) \subseteq ToSet(groups'), source \subseteq source', ruleNow <= ruleNow'
  PROVE  Confirmed(a)'
<1>1. a.last_evaluation \in Nat /\ a.active_at \in Nat
  BY AlertFields
<1>2. ruleNow \in Nat /\ ruleNow' \in Nat
  BY RuleFacts DEF EvalInv
<1>3. a.last_evaluation <= ruleNow'
  BY <1>1, <1>2 DEF Confirmed
<1>4. PICK r \in AlertRules, s \in source : r.name = a.key[1] /\ s.series = a.key[2] /\ Firing(r, s) /\ s.t <= a.last_evaluation
  BY DEF Confirmed
<1>5. r \in AlertRules' /\ s \in source'
  BY DEF AlertRules
<1>6. a.state = "Firing" => a.last_evaluation - a.active_at >= PendingFor
  BY DEF Confirmed
<1>7. \E x \in AlertRules', y \in source' : x.name = a.key[1] /\ y.series = a.key[2] /\ Firing(x, y) /\ y.t <= a.last_evaluation
  BY <1>4, <1>5
<1> QED
  BY <1>3, <1>6, <1>7 DEF Confirmed, Firing, AlertHolds

\* A step that does not touch the alerts.
LEMMA AlertsStay ==
  ASSUME EvalInv, EvalInv', AlertsInv, UNCHANGED <<alerts, noted>>,
         ToSet(groups) \subseteq ToSet(groups'), source \subseteq source', ruleNow <= ruleNow'
  PROVE  AlertsInv'
<1>1. /\ alerts \in Seq(RAlert) /\ noted \in [AlertKeys -> {"none", "Pending", "Firing"}]
      /\ \A i, j \in 1..Len(alerts) : alerts[i].key = alerts[j].key => i = j
      /\ \A i \in 1..Len(alerts) : noted[alerts[i].key] = alerts[i].state /\ Confirmed(alerts[i])
  BY DEF AlertsInv
<1>2. ASSUME NEW a \in RAlert, Confirmed(a) PROVE Confirmed(a)'
  BY <1>2, StaysConfirmed
<1>3. ASSUME NEW i \in 1..Len(alerts) PROVE Confirmed(alerts[i])'
  <2>1. PICK a \in RAlert : a = alerts[i]
    BY <1>1
  <2>2. Confirmed(a)'
    BY <1>1, <1>2, <2>1
  <2> QED
    BY <2>1, <2>2
<1> QED
  BY <1>1, <1>3 DEF AlertsInv

\* create_alert, for an alert that is not known.
LEMMA NewAlert ==
  ASSUME EvalInv, AlertsInv, NEW a \in RAlert, Confirmed(a), a.state = "Pending", AlertAt(a.key) = {},
         alerts' = Append(alerts, a), noted' = [noted EXCEPT ![a.key] = "Pending"],
         UNCHANGED <<groups, source, ruleNow>>
  PROVE  AlertsInv'
<1>1. /\ alerts \in Seq(RAlert) /\ noted \in [AlertKeys -> {"none", "Pending", "Firing"}]
      /\ \A i, j \in 1..Len(alerts) : alerts[i].key = alerts[j].key => i = j
      /\ \A i \in 1..Len(alerts) : noted[alerts[i].key] = alerts[i].state /\ Confirmed(alerts[i])
  BY DEF AlertsInv
<1>2. PICK q : q = alerts'
  OBVIOUS
<1>3. /\ q \in Seq(RAlert) /\ Len(q) = Len(alerts) + 1 /\ q[Len(alerts) + 1] = a /\ Len(alerts) \in Nat
      /\ \A i \in 1..Len(alerts) : q[i] = alerts[i]
  BY <1>1, <1>2
<1>4. \A i \in 1..Len(q) : i \in 1..Len(alerts) \/ i = Len(alerts) + 1
  BY <1>3
<1>5. \A i \in 1..Len(alerts) : alerts[i].key # a.key /\ alerts[i] \in RAlert
  BY <1>1 DEF AlertAt
<1>6. \A i, j \in 1..Len(q) : q[i].key = q[j].key => i = j
  <2> SUFFICES ASSUME NEW i \in 1..Len(q), NEW j \in 1..Len(q), q[i].key = q[j].key PROVE i = j
    OBVIOUS
  <2>1. CASE i \in 1..Len(alerts) /\ j \in 1..Len(alerts)
    BY <2>1, <1>1, <1>3
  <2>2. CASE i \in 1..Len(alerts) /\ j = Len(alerts) + 1
    BY <2>2, <1>3, <1>5
  <2>3. CASE j \in 1..Len(alerts) /\ i = Len(alerts) + 1
    BY <2>3, <1>3, <1>5
  <2> QED
    BY <1>4, <2>1, <2>2, <2>3
<1>7. a.key \in AlertKeys /\ \A b \in RAlert : b.key \in AlertKeys
  BY AlertFields DEF RAlert
<1>8. /\ noted' \in [AlertKeys -> {"none", "Pending", "Firing"}] /\ noted'[a.key] = "Pending"
      /\ \A k \in AlertKeys : k # a.key => noted'[k] = noted[k]
  BY <1>1, <1>7
<1>9. \A b : Confirmed(b)' = Confirmed(b)
  BY DEF Confirmed, AlertRules, Firing, AlertHolds
<1>10. ASSUME NEW i \in 1..Len(q) PROVE noted'[q[i].key] = q[i].state /\ Confirmed(q[i])
  <2>1. CASE i \in 1..Len(alerts)
    <3>1. q[i] = alerts[i] /\ alerts[i].key \in AlertKeys /\ alerts[i].key # a.key
      BY <2>1, <1>3, <1>5, <1>7
    <3> QED
      BY <2>1, <3>1, <1>1, <1>8
  <2>2. CASE i = Len(alerts) + 1
    BY <2>2, <1>3, <1>8
  <2> QED
    BY <1>4, <2>1, <2>2
<1>11. \A i \in 1..Len(alerts') : noted'[alerts'[i].key] = alerts'[i].state /\ Confirmed(alerts[i])'
  <2> SUFFICES ASSUME NEW i \in 1..Len(q) PROVE noted'[q[i].key] = q[i].state /\ Confirmed(alerts[i])'
    BY <1>2
  <2>1. PICK b : b = q[i]
    OBVIOUS
  <2>2. Confirmed(b)'
    BY <2>1, <1>9, <1>10
  <2> QED
    BY <1>2, <1>10, <2>1, <2>2
<1> QED
  BY <1>2, <1>3, <1>6, <1>8, <1>11 DEF AlertsInv

\* create_alert, for an alert that is known.
LEMMA KnownAlert ==
  ASSUME EvalInv, AlertsInv, NEW i \in 1..Len(alerts), NEW b \in RAlert, b.key = alerts[i].key, Confirmed(b),
         alerts' = [alerts EXCEPT ![i] = b],
         \/ noted' = [noted EXCEPT ![b.key] = b.state]
         \/ UNCHANGED noted /\ b.state = alerts[i].state,
         UNCHANGED <<groups, source, ruleNow>>
  PROVE  AlertsInv'
<1>1. /\ alerts \in Seq(RAlert) /\ noted \in [AlertKeys -> {"none", "Pending", "Firing"}]
      /\ \A j, k \in 1..Len(alerts) : alerts[j].key = alerts[k].key => j = k
      /\ \A j \in 1..Len(alerts) : noted[alerts[j].key] = alerts[j].state /\ Confirmed(alerts[j])
  BY DEF AlertsInv
<1>2. PICK q : q = alerts'
  OBVIOUS
<1>3. /\ q \in Seq(RAlert) /\ Len(q) = Len(alerts) /\ q[i] = b
      /\ \A j \in 1..Len(alerts) : j # i => q[j] = alerts[j]
  BY <1>1, <1>2
<1>4. \A j \in 1..Len(alerts) : q[j].key = alerts[j].key
  <2> SUFFICES ASSUME NEW j \in 1..Len(alerts) PROVE q[j].key = alerts[j].key
    OBVIOUS
  <2>1. CASE j = i
    BY <2>1, <1>3
  <2>2. CASE j # i
    BY <2>2, <1>3
  <2> QED
    BY <2>1, <2>2
<1>5. \A j, k \in 1..Len(q) : q[j].key = q[k].key => j = k
  BY <1>1, <1>3, <1>4
<1>6. b.key \in AlertKeys /\ b.state \in {"Pending", "Firing"} /\ \A a \in RAlert : a.key \in AlertKeys
  BY AlertFields DEF RAlert
<1>7. /\ noted' \in [AlertKeys -> {"none", "Pending", "Firing"}] /\ noted'[b.key] = b.state
      /\ \A k \in AlertKeys : k # b.key => noted'[k] = noted[k]
  <2>1. CASE noted' = [noted EXCEPT ![b.key] = b.state]
    BY <2>1, <1>1, <1>6
  <2>2. CASE UNCHANGED noted /\ b.state = alerts[i].state
    BY <2>2, <1>1, <1>6
  <2> QED
    BY <2>1, <2>2
<1>8. \A a : Confirmed(a)' = Confirmed(a)
  BY DEF Confirmed, AlertRules, Firing, AlertHolds
<1>9. ASSUME NEW j \in 1..Len(q) PROVE noted'[q[j].key] = q[j].state /\ Confirmed(q[j])
  <2>1. CASE j = i
    BY <2>1, <1>3, <1>7
  <2>2. CASE j # i
    <3>1. q[j] = alerts[j] /\ alerts[j] \in RAlert /\ j \in 1..Len(alerts)
      BY <2>2, <1>1, <1>3
    <3>2. alerts[j].key # b.key /\ alerts[j].key \in AlertKeys
      BY <2>2, <3>1, <1>1, <1>6
    <3> QED
      BY <3>1, <3>2, <1>1, <1>7
  <2> QED
    BY <2>1, <2>2
<1>10. \A j \in 1..Len(alerts') : noted'[alerts'[j].key] = alerts'[j].state /\ Confirmed(alerts[j])'
  <2> SUFFICES ASSUME NEW j \in 1..Len(q) PROVE noted'[q[j].key] = q[j].state /\ Confirmed(alerts[j])'
    BY <1>2
  <2>1. PICK a : a = q[j]
    OBVIOUS
  <2>2. Confirmed(a)'
    BY <2>1, <1>8, <1>9
  <2> QED
    BY <1>2, <1>9, <2>1, <2>2
<1> QED
  BY <1>2, <1>3, <1>5, <1>7, <1>10 DEF AlertsInv

\* A sample that fires the rule of the evaluation creates its alert or renews it.
LEMMA AlertingInv ==
  ASSUME EvalInv, EvalInv', AlertsInv, evaluate_alerting
  PROVE  AlertsInv'
<1>1. PICK r, s : r = eval.rule[1] /\ s = Head(eval.samples)
  OBVIOUS
<1>2. /\ eval.samples # <<>> /\ r.kind = "alert" /\ UNCHANGED <<groups, source, ruleNow>>
      /\ IF AlertHolds(r.cond, s.v) THEN create_alert(<<r.name, s.series>>, s.v) ELSE UNCHANGED <<alerts, noted>>
  BY <1>1 DEF evaluate_alerting
<1>3. eval.rule \in Seq(AnyRule) /\ eval.samples \in Seq(RSample) /\ eval.rule # <<>>
  BY <1>2 DEF EvalInv, Evaluation
<1>4. r \in AnyRule /\ r \in ToSet(groups) /\ r.name \in RuleNames
  <2>1. r \in AnyRule
    BY <1>1, <1>3
  <2>2. r \in ToSet(groups)
    BY <1>1, <1>3 DEF EvalInv
  <2> QED
    BY <2>1, <2>2, RuleFacts
<1>5. s \in source /\ s.series \in r.reads /\ s \in RSample /\ s.t <= ruleNow
  <2>1. s = eval.samples[1] /\ 1 \in 1..Len(eval.samples) /\ s \in RSample
    BY <1>1, <1>2, <1>3
  <2>2. eval.samples[1] \in source /\ eval.samples[1].series \in eval.rule[1].reads
    BY <2>1 DEF EvalInv
  <2>3. s \in source /\ s.series \in r.reads
    BY <1>1, <2>1, <2>2
  <2> QED
    BY <2>1, <2>3 DEF EvalInv
<1>6. s.series \in RSeries /\ s.v \in {0, 1} /\ s.t \in 0..RuleTime
  BY <1>5 DEF RSample
<1>7. ruleNow \in Nat
  BY RuleFacts DEF EvalInv
<1>8. CASE ~AlertHolds(r.cond, s.v)
  <2>1. UNCHANGED <<alerts, noted>>
    BY <1>2, <1>8
  <2>2. ruleNow <= ruleNow'
    BY <1>2, <1>7
  <2> QED
    BY <1>2, <2>1, <2>2, AlertsStay
<1>9. CASE AlertHolds(r.cond, s.v)
  <2>1. PICK key : key = <<r.name, s.series>>
    OBVIOUS
  <2>2. key \in AlertKeys /\ key[1] = r.name /\ key[2] = s.series
    BY <2>1, <1>4, <1>6 DEF AlertKeys
  <2>3. create_alert(key, s.v)
    BY <1>2, <1>9, <2>1
  <2>4. r \in AlertRules /\ Firing(r, s)
    BY <1>2, <1>4, <1>5, <1>9 DEF AlertRules, Firing
  <2>5. \A a \in RAlert : a.key = key /\ a.last_evaluation = ruleNow /\ (a.state = "Firing" => a.last_evaluation - a.active_at >= PendingFor)
                           => Confirmed(a)
    <3> SUFFICES ASSUME NEW a \in RAlert, a.key = key, a.last_evaluation = ruleNow, a.state = "Firing" => a.last_evaluation - a.active_at >= PendingFor
                 PROVE  Confirmed(a)
      OBVIOUS
    <3>1. s.t <= a.last_evaluation /\ a.last_evaluation <= ruleNow
      BY <1>5, <1>7
    <3> QED
      BY <2>2, <2>4, <3>1, <1>5 DEF Confirmed
  <2>6. CASE AlertAt(key) = {}
    <3> DEFINE a == [key |-> key, state |-> "Pending", active_at |-> ruleNow, last_evaluation |-> ruleNow, value |-> s.v]
    <3>1. a \in RAlert /\ a.key = key /\ a.state = "Pending" /\ a.last_evaluation = ruleNow
      BY <2>2, <1>6, <1>7 DEF RAlert
    <3>2. alerts' = Append(alerts, a) /\ noted' = [noted EXCEPT ![key] = "Pending"]
      BY <2>3, <2>6 DEF create_alert, Notify
    <3>3. PICK b : b = a
      OBVIOUS
    <3>4. b \in RAlert /\ b.key = key /\ b.state = "Pending" /\ b.last_evaluation = ruleNow /\ alerts' = Append(alerts, b)
      BY <3>1, <3>2, <3>3
    <3>5. Confirmed(b)
      BY <2>5, <3>4
    <3> HIDE DEF a
    <3> QED
      BY <1>2, <2>6, <3>2, <3>4, <3>5, NewAlert
  <2>7. CASE AlertAt(key) # {}
    <3>1. PICK i : i = CHOOSE x \in AlertAt(key) : TRUE
      OBVIOUS
    <3>2. i \in DOMAIN alerts /\ alerts[i].key = key
      BY <2>7, <3>1 DEF AlertAt
    <3>3. PICK o, fires : o = alerts[i] /\ fires = (o.state = "Pending" /\ ruleNow - o.active_at >= PendingFor)
      OBVIOUS
    <3>6. PICK st : st = IF fires THEN "Firing" ELSE o.state
      OBVIOUS
    <3>4. /\ alerts' = [alerts EXCEPT ![i] = [@ EXCEPT !.value = s.v, !.last_evaluation = ruleNow, !.state = st]]
          /\ IF fires THEN Notify(key, "Firing") ELSE UNCHANGED noted
      BY <2>3, <2>7, <3>1, <3>3, <3>6 DEF create_alert
    <3>5. alerts \in Seq(RAlert) /\ i \in 1..Len(alerts) /\ o \in RAlert /\ Confirmed(o) /\ o.key = key
      <4>1. alerts \in Seq(RAlert)
        BY DEF AlertsInv
      <4>2. i \in 1..Len(alerts)
        BY <4>1, <3>2
      <4>3. o \in RAlert /\ o.key = key
        BY <4>1, <4>2, <3>2, <3>3
      <4>4. Confirmed(o)
        BY <4>2, <3>3 DEF AlertsInv
      <4> QED
        BY <4>1, <4>2, <4>3, <4>4
    <3> DEFINE b == [key |-> o.key, state |-> st, active_at |-> o.active_at, last_evaluation |-> ruleNow, value |-> s.v]
    <3>7. /\ o.key \in AlertKeys /\ o.state \in {"Pending", "Firing"} /\ o.active_at \in Nat /\ o.last_evaluation \in Nat
          /\ o = [key |-> o.key, state |-> o.state, active_at |-> o.active_at, last_evaluation |-> o.last_evaluation, value |-> o.value]
      BY <3>5, AlertFields
    <3>8. alerts' = [alerts EXCEPT ![i] = b]
      <4> DEFINE n == [o EXCEPT !.value = s.v, !.last_evaluation = ruleNow, !.state = st]
      <4>1. alerts' = [alerts EXCEPT ![i] = n]
        BY <3>3, <3>4
      <4>2. n = b
        <5>1. PICK k0, s0, a0, l0, v0 : o = [key |-> k0, state |-> s0, active_at |-> a0, last_evaluation |-> l0, value |-> v0]
          BY <3>7
        <5>2. o.key = k0 /\ o.active_at = a0
          BY <5>1
        <5>3. n = [[[o EXCEPT !.value = s.v] EXCEPT !.last_evaluation = ruleNow] EXCEPT !.state = st]
          OBVIOUS
        <5>4. [o EXCEPT !.value = s.v]
                = [key |-> k0, state |-> s0, active_at |-> a0, last_evaluation |-> l0, value |-> s.v]
          BY <5>1
        <5>5. [[key |-> k0, state |-> s0, active_at |-> a0, last_evaluation |-> l0, value |-> s.v]
                  EXCEPT !.last_evaluation = ruleNow]
                = [key |-> k0, state |-> s0, active_at |-> a0, last_evaluation |-> ruleNow, value |-> s.v]
          OBVIOUS
        <5>6. [[key |-> k0, state |-> s0, active_at |-> a0, last_evaluation |-> ruleNow, value |-> s.v]
                  EXCEPT !.state = st]
                = [key |-> k0, state |-> st, active_at |-> a0, last_evaluation |-> ruleNow, value |-> s.v]
          OBVIOUS
        <5> QED
          BY <5>2, <5>3, <5>4, <5>5, <5>6
      <4> HIDE DEF n, b
      <4> QED
        BY <4>1, <4>2
    <3>9. st \in {"Pending", "Firing"}
      BY <3>6, <3>7
    <3>10. b \in RAlert /\ b.key = key /\ b.last_evaluation = ruleNow /\ b.state = st /\ b.active_at = o.active_at
      BY <3>5, <3>7, <3>9, <1>6, <1>7 DEF RAlert
    <3> HIDE DEF b
    <3>11. b.state = "Firing" => b.last_evaluation - b.active_at >= PendingFor
      <4>1. CASE fires
        BY <4>1, <3>3, <3>10
      <4>2. CASE ~fires /\ o.state = "Firing"
        <5>1. o.last_evaluation - o.active_at >= PendingFor /\ o.last_evaluation <= ruleNow
          BY <3>5, <4>2 DEF Confirmed
        <5>2. ruleNow - o.active_at >= PendingFor
          BY <5>1, <3>7, <1>7, RuleFacts
        <5> QED
          BY <5>2, <3>10
      <4>3. CASE ~fires /\ o.state # "Firing"
        BY <4>3, <3>6, <3>10
      <4> QED
        BY <4>1, <4>2, <4>3
    <3>12. Confirmed(b)
      BY <2>5, <3>10, <3>11
    <3>13. \/ noted' = [noted EXCEPT ![b.key] = b.state]
           \/ UNCHANGED noted /\ b.state = alerts[i].state
      <4>1. CASE fires
        BY <4>1, <3>4, <3>6, <3>10 DEF Notify
      <4>2. CASE ~fires
        BY <4>2, <3>3, <3>4, <3>6, <3>10
      <4> QED
        BY <4>1, <4>2
    <3>14. b.key = alerts[i].key
      BY <3>2, <3>10
    <3>15. PICK c : c = b
      OBVIOUS
    <3>16. /\ c \in RAlert /\ c.key = alerts[i].key /\ Confirmed(c) /\ alerts' = [alerts EXCEPT ![i] = c]
           /\ \/ noted' = [noted EXCEPT ![c.key] = c.state]
              \/ UNCHANGED noted /\ c.state = alerts[i].state
      BY <3>8, <3>10, <3>12, <3>13, <3>14, <3>15
    <3> QED
      BY <1>2, <3>5, <3>16, KnownAlert
  <2> QED
    BY <2>6, <2>7
<1> QED
  BY <1>8, <1>9

\* Alerts that expired are taken out, with a notification each; the others stay.
LEMMA CleanInv ==
  ASSUME EvalInv, AlertsInv, clean_expired_alerts
  PROVE  AlertsInv'
<1>1. /\ alerts \in Seq(RAlert) /\ noted \in [AlertKeys -> {"none", "Pending", "Firing"}]
      /\ \A i, j \in 1..Len(alerts) : alerts[i].key = alerts[j].key => i = j
      /\ \A i \in 1..Len(alerts) : noted[alerts[i].key] = alerts[i].state /\ Confirmed(alerts[i])
      /\ DOMAIN alerts = 1..Len(alerts)
  BY DEF AlertsInv
<1>2. PICK S : S = {a \in ToSet(alerts) : ~Expired(a)}
  OBVIOUS
<1>3. PICK q : q = Keep(alerts, S)
  OBVIOUS
<1>4. /\ alerts' = q /\ UNCHANGED <<groups, source, ruleNow>>
      /\ noted' = [k \in AlertKeys |-> IF \E i \in AlertAt(k) : Expired(alerts[i])
                                       THEN alerts[CHOOSE i \in AlertAt(k) : TRUE].state ELSE noted[k]]
  BY <1>2, <1>3 DEF clean_expired_alerts
<1>5. /\ q \in Seq(RAlert)
      /\ \A i \in 1..Len(q) : q[i] \in S /\ \E p \in 1..Len(alerts) : alerts[p] = q[i]
  BY <1>1, <1>3, KeepElements
<1>6. \A i, j \in 1..Len(q) : q[i].key = q[j].key => i = j
  <2> DEFINE F == [a \in RAlert |-> a.key]
  <2>1. \A a \in RAlert : F[a] = a.key
    OBVIOUS
  <2>2. \A i, j \in 1..Len(alerts) : F[alerts[i]] = F[alerts[j]] => i = j
    <3>1. \A i \in 1..Len(alerts) : F[alerts[i]] = alerts[i].key
      BY <1>1, <2>1
    <3> HIDE DEF F
    <3> QED
      BY <1>1, <3>1
  <2>3. \A i, j \in 1..Len(q) : F[q[i]] = F[q[j]] => i = j
    <3> HIDE DEF F
    <3> QED
      BY <1>1, <1>3, <2>2, KeepDistinct
  <2>4. \A i \in 1..Len(q) : F[q[i]] = q[i].key
    BY <1>5, <2>1
  <2> HIDE DEF F
  <2> QED
    BY <2>3, <2>4
<1>7. \A a \in RAlert : a.key \in AlertKeys /\ a.state \in {"none", "Pending", "Firing"}
  BY DEF RAlert
<1>8. noted' \in [AlertKeys -> {"none", "Pending", "Firing"}]
  <2>1. ASSUME NEW k \in AlertKeys, \E i \in AlertAt(k) : Expired(alerts[i])
        PROVE  alerts[CHOOSE i \in AlertAt(k) : TRUE].state \in {"none", "Pending", "Firing"}
    <3>1. PICK i : i = CHOOSE x \in AlertAt(k) : TRUE
      OBVIOUS
    <3>2. i \in AlertAt(k)
      BY <2>1, <3>1
    <3>3. alerts[i] \in RAlert
      BY <1>1, <3>2 DEF AlertAt
    <3> QED
      BY <3>1, <3>3, <1>7
  <2>2. ASSUME NEW k \in AlertKeys
        PROVE  (IF \E i \in AlertAt(k) : Expired(alerts[i])
                THEN alerts[CHOOSE i \in AlertAt(k) : TRUE].state ELSE noted[k]) \in {"none", "Pending", "Firing"}
    <3>1. noted[k] \in {"none", "Pending", "Firing"}
      BY <1>1
    <3> QED
      BY <2>1, <3>1, Zenon
  <2> QED
    BY <1>4, <2>2
<1>9. \A b : Confirmed(b)' = Confirmed(b)
  BY <1>4 DEF Confirmed, AlertRules, Firing, AlertHolds
<1>10. ASSUME NEW i \in 1..Len(q) PROVE noted'[q[i].key] = q[i].state /\ Confirmed(q[i])
  <2>1. PICK p \in 1..Len(alerts) : alerts[p] = q[i]
    BY <1>5
  <2>2. q[i] \in RAlert /\ ~Expired(q[i]) /\ q[i].key \in AlertKeys
    BY <1>1, <1>2, <1>5, <1>7, <2>1
  <2>3. ~ \E j \in AlertAt(q[i].key) : Expired(alerts[j])
    <3> SUFFICES ASSUME NEW j \in AlertAt(q[i].key), Expired(alerts[j]) PROVE FALSE
      OBVIOUS
    <3>1. j = p
      BY <1>1, <2>1 DEF AlertAt
    <3> QED
      BY <2>1, <2>2, <3>1
  <2>4. noted'[q[i].key] = noted[q[i].key]
    BY <1>4, <2>2, <2>3, Zenon
  <2> QED
    BY <1>1, <2>1, <2>4
<1>11. \A i \in 1..Len(alerts') : noted'[alerts'[i].key] = alerts'[i].state /\ Confirmed(alerts[i])'
  <2> SUFFICES ASSUME NEW i \in 1..Len(q) PROVE noted'[q[i].key] = q[i].state /\ Confirmed(alerts[i])'
    BY <1>4
  <2>1. PICK b : b = q[i]
    OBVIOUS
  <2>2. Confirmed(b)'
    BY <2>1, <1>9, <1>10
  <2> QED
    BY <1>4, <1>10, <2>1, <2>2
<1> QED
  BY <1>4, <1>5, <1>6, <1>8, <1>11 DEF AlertsInv

\* The alerts through any step.
LEMMA AlertStep ==
  ASSUME EvalInv, EvalInv', AlertsInv, [RulesNext]_ruleVars
  PROVE  AlertsInv'
<1>0. groups \in Seq(AnyRule) /\ ruleNow \in Nat
  BY RuleFacts DEF EvalInv
<1>1. ruleNow <= ruleNow /\ ruleNow <= ruleNow + 1
  BY <1>0
<1>2. ASSUME NEW g \in Seq(AnyRule), groups' = groups \o g, UNCHANGED <<alerts, noted, source, ruleNow>> PROVE AlertsInv'
  <2>1. groups \o g \in Seq(AnyRule) /\ \A i \in 1..Len(groups) : i \in 1..Len(groups \o g) /\ (groups \o g)[i] = groups[i]
    BY <1>0
  <2>2. DOMAIN (groups \o g) = 1..Len(groups \o g) /\ DOMAIN groups = 1..Len(groups)
    BY <1>0, <2>1
  <2>3. ToSet(groups) \subseteq ToSet(groups \o g)
    BY <2>1, <2>2 DEF ToSet
  <2> QED
    BY <1>1, <1>2, <2>3, AlertsStay
<1>3. ASSUME UNCHANGED <<groups, alerts, noted>>, source \subseteq source', ruleNow <= ruleNow' PROVE AlertsInv'
  BY <1>3, AlertsStay
<1>4. ASSUME NEW f \in DOMAIN RuleFiles, load_from_file(f) PROVE AlertsInv'
  BY <1>2, <1>4, RuleFacts DEF load_from_file
<1>5. ASSUME NEW p \in PostedRules, handle_alerts_rules_post(p) PROVE AlertsInv'
  <2>1. groups' = Append(groups, PostedAs(p)) /\ UNCHANGED <<alerts, noted, source, ruleNow>>
    BY <1>5 DEF handle_alerts_rules_post, PostedAs
  <2> DEFINE g == <<PostedAs(p)>>
  <2>2. g \in Seq(AnyRule)
    BY RuleFacts
  <2>3. Append(groups, PostedAs(p)) = groups \o g
    BY <1>0, RuleFacts, AppendIsConcat
  <2> HIDE DEF g
  <2> QED
    BY <1>2, <2>1, <2>2, <2>3
<1>6. ASSUME NEW s \in RSeries, NEW v \in {0, 1}, StoreSample(s, v) PROVE AlertsInv'
  BY <1>1, <1>3, <1>6 DEF StoreSample
<1>7. CASE RuleTick
  BY <1>1, <1>3, <1>7 DEF RuleTick
<1>8. CASE evaluate_all \/ RuleDone
  BY <1>1, <1>3, <1>8 DEF evaluate_all, RuleDone
<1>9. CASE QueryRule
  BY <1>1, <1>3, <1>9 DEF QueryRule
<1>10. CASE evaluate_recording
  BY <1>1, <1>3, <1>10 DEF evaluate_recording
<1>11. CASE UNCHANGED ruleVars
  BY <1>1, <1>3, <1>11 DEF ruleVars
<1> QED
  BY <1>4, <1>5, <1>6, <1>7, <1>8, <1>9, <1>10, <1>11, AlertingInv, CleanInv DEF RulesNext

\* Nothing is loaded, stored or raised at the start.
LEMMA RulesStart ==
  ASSUME RulesInit
  PROVE  EvalInv /\ RecordInv /\ AlertsInv
<1>1. /\ groups = <<>> /\ source = {} /\ recorded = [n \in RuleNames |-> [t \in 0..RuleTime |-> 0]]
      /\ alerts = <<>> /\ noted = [k \in AlertKeys |-> "none"] /\ evals = [n \in RuleNames |-> 0] /\ ruleNow = 0
      /\ eval = [todo |-> <<>>, rule |-> <<>>, samples |-> <<>>]
  BY DEF RulesInit, Rest
<1>2. \A T : <<>> \in Seq(T) /\ Len(<<>>) = 0 /\ 1..0 = {}
  OBVIOUS
<1>3. eval \in Evaluation /\ eval.todo = <<>> /\ eval.rule = <<>> /\ eval.samples = <<>>
  BY <1>1, <1>2 DEF Evaluation
<1>4. IsFiniteSet(source) /\ ruleNow \in 0..RuleTime
  BY <1>1, FS_EmptySet, RuleFacts
<1>5. EvalInv
  BY <1>1, <1>2, <1>3, <1>4 DEF EvalInv
<1>6. ASSUME NEW n \in RuleNames, NEW t \in 0..RuleTime
      PROVE  recorded[n][t] + Owed(n, t) <= evals[n] * Cardinality(SourceAt(n, t))
  <2>1. Owed(n, t) = 0
    BY <1>3 DEF Owed
  <2>2. SourceAt(n, t) = {}
    BY <1>1 DEF SourceAt
  <2>3. Cardinality(SourceAt(n, t)) = 0
    BY <2>2, FS_EmptySet
  <2>4. recorded[n][t] = 0 /\ evals[n] = 0
    BY <1>1
  <2> QED
    BY <2>1, <2>3, <2>4
<1>7. recorded \in [RuleNames -> [0..RuleTime -> Nat]]
  BY <1>1
<1>8. RecordInv
  BY <1>6, <1>7 DEF RecordInv
<1>9. AlertsInv
  BY <1>1, <1>2 DEF AlertsInv
<1> QED
  BY <1>5, <1>8, <1>9

\* The API lists as many alerts as there are.
LEMMA ListedOnce ==
  ASSUME AlertsInv
  PROVE  Cardinality(handle_alerts) = Len(alerts)
<1>1. /\ alerts \in Seq(RAlert) /\ Len(alerts) \in Nat /\ DOMAIN alerts = 1..Len(alerts)
      /\ \A i, j \in 1..Len(alerts) : alerts[i].key = alerts[j].key => i = j
  BY DEF AlertsInv
<1> DEFINE L == 1..Len(alerts)
           f == [i \in L |-> <<alerts[i].key, alerts[i].state, alerts[i].value>>]
<1>2. f \in [L -> handle_alerts]
  BY <1>1 DEF handle_alerts, ToSet
<1>3. \A x \in handle_alerts : \E i \in L : f[i] = x
  BY <1>1 DEF handle_alerts, ToSet
<1>4. \A i, j \in L : f[i] = f[j] => i = j
  BY <1>1
<1>5. f \in Surjection(L, handle_alerts)
  <2> HIDE DEF f
  <2> QED
    BY <1>2, <1>3 DEF Surjection
<1>6. f \in Injection(L, handle_alerts)
  <2> HIDE DEF f
  <2> QED
    BY <1>2, <1>4 DEF Injection, IsInjective
<1>7. IsFiniteSet(L) /\ Cardinality(L) = Len(alerts)
  BY <1>1, FS_Interval
<1> HIDE DEF f, L
<1> QED
  BY <1>5, <1>6, <1>7, FS_Surjection

\* What the API lists as firing it lists among the alerts, under a listed rule.
LEMMA FiringListed ==
  ASSUME EvalInv, AlertsInv, NEW a, a \in ToSet(handle_alerts_firing)
  PROVE  /\ <<a.key, noted[a.key], a.value>> \in handle_alerts
         /\ a.key[1] \in handle_alerts_rules_get /\ <<a.key[1], "alert">> \in handle_rules
<1>1. alerts \in Seq(RAlert) /\ DOMAIN alerts = 1..Len(alerts)
  BY DEF AlertsInv
<1>2. PICK S : S = {x \in ToSet(alerts) : x.state = "Firing"}
  OBVIOUS
<1>3. PICK q : q = Keep(alerts, S)
  OBVIOUS
<1>4. q \in Seq(RAlert) /\ \A i \in 1..Len(q) : q[i] \in S /\ \E p \in 1..Len(alerts) : alerts[p] = q[i]
  <2>1. /\ Keep(alerts, S) \in Seq(RAlert)
        /\ \A i \in 1..Len(Keep(alerts, S)) :
             Keep(alerts, S)[i] \in S /\ \E p \in 1..Len(alerts) : alerts[p] = Keep(alerts, S)[i]
    BY <1>1, KeepElements
  <2> QED
    BY <1>3, <2>1
<1>5. a \in ToSet(q) /\ DOMAIN q = 1..Len(q)
  BY <1>2, <1>3, <1>4 DEF handle_alerts_firing
<1>6. PICK p \in 1..Len(alerts) : alerts[p] = a
  BY <1>4, <1>5 DEF ToSet
<1>7. noted[a.key] = a.state /\ Confirmed(a) /\ a \in ToSet(alerts)
  BY <1>1, <1>6 DEF AlertsInv, ToSet
<1>8. PICK r \in AlertRules : r.name = a.key[1]
  BY <1>7 DEF Confirmed
<1>9. r \in ToSet(groups) /\ r.kind = "alert"
  BY <1>8 DEF AlertRules
<1>10. r \in ToSet(rules_of("alert"))
  BY <1>9, RulesOf
<1>11. <<a.key, noted[a.key], a.value>> \in handle_alerts
  BY <1>7 DEF handle_alerts
<1>12. a.key[1] \in handle_alerts_rules_get
  BY <1>8, <1>10 DEF handle_alerts_rules_get
<1>13. <<a.key[1], "alert">> \in handle_rules
  BY <1>8, <1>9 DEF handle_rules
<1> QED
  BY <1>11, <1>12, <1>13

\* However evaluations, new samples, loaded rules and removals interleave, there
\* is one alert per rule and series, confirmed as its state says and listed once
\* (create_alert, clean_expired_alerts), and what is recorded under a rule's name
\* is what its source had, at most once per evaluation (evaluate_recording).
THEOREM RulesSoundHolds == RulesSpec => []RulesSound
<1>1. RulesInit => EvalInv /\ RecordInv /\ AlertsInv
  BY RulesStart
<1>2. EvalInv /\ RecordInv /\ AlertsInv /\ [RulesNext]_ruleVars => (EvalInv /\ RecordInv /\ AlertsInv)'
  <2> SUFFICES ASSUME EvalInv, RecordInv, AlertsInv, [RulesNext]_ruleVars PROVE EvalInv' /\ RecordInv' /\ AlertsInv'
    OBVIOUS
  <2>1. EvalInv'
    BY EvalStep
  <2> QED
    BY <2>1, RecordStep, AlertStep
<1>3. EvalInv /\ RecordInv /\ AlertsInv => RulesSound
  <2> SUFFICES ASSUME EvalInv, RecordInv, AlertsInv PROVE AlertsSound /\ RecordedFromSource
    BY DEF RulesSound
  <2>1. alerts \in Seq(RAlert) /\ DOMAIN alerts = 1..Len(alerts)
    BY DEF AlertsInv
  <2>2. \A i, j \in DOMAIN alerts : alerts[i].key = alerts[j].key => i = j
    BY <2>1 DEF AlertsInv
  <2>3. ASSUME NEW i \in DOMAIN alerts
        PROVE  LET a == alerts[i]
               IN  /\ noted[a.key] = a.state
                   /\ a.state = "Firing" => a.last_evaluation - a.active_at >= PendingFor
                   /\ \E r \in AlertRules, s \in source :
                        r.name = a.key[1] /\ s.series = a.key[2] /\ Firing(r, s) /\ s.t <= a.last_evaluation
    <3>1. noted[alerts[i].key] = alerts[i].state /\ Confirmed(alerts[i])
      BY <2>1 DEF AlertsInv
    <3> QED
      BY <3>1 DEF Confirmed
  <2>4. AlertsSound
    BY <2>2, <2>3, ListedOnce, FiringListed DEF AlertsSound
  <2>5. ASSUME NEW n \in RuleNames, NEW t \in 0..RuleTime
        PROVE  recorded[n][t] <= evals[n] * Cardinality(SourceAt(n, t))
    <3>1. PICK c, o, e, w : c = Cardinality(SourceAt(n, t)) /\ o = Owed(n, t) /\ e = evals[n] /\ w = recorded[n][t]
      OBVIOUS
    <3>2. source \in SUBSET RSample /\ IsFiniteSet(source) /\ SourceAt(n, t) \subseteq source
      BY DEF EvalInv, SourceAt
    <3>3. c \in Nat
      BY <3>1, <3>2, FS_Subset, FS_CardinalityType
    <3>4. o \in Nat /\ e \in Nat /\ w \in Nat
      BY <3>1, OwedNumber DEF EvalInv, RecordInv
    <3>5. w + o <= e * c
      BY <3>1 DEF RecordInv
    <3>6. e * c \in Nat
      BY <3>3, <3>4, Products
    <3> QED
      BY <3>1, <3>4, <3>5, <3>6
  <2> QED
    BY <2>4, <2>5 DEF RecordedFromSource
<1> QED
  BY <1>1, <1>2, <1>3, PTL DEF RulesSpec

-----------------------------------------------------------------------------
(* Pre-aggregation.  A filter of a filter, and the records of a query within   *)
(* a window.                                                                *)

\* A filter after a filter keeps what both keep.
LEMMA KeepKeep ==
  ASSUME NEW T, NEW s \in Seq(T), NEW A, NEW B
  PROVE  Keep(Keep(s, A), B) = Keep(s, A \cap B)
<1> DEFINE K == KeptUpTo(s, A)
           L == KeptUpTo(s, A \cap B)
           G == {n \in 0..Len(s) : Keep(K[n], B) = L[n]}
<1>0. Len(s) \in Nat /\ \A i \in 1..Len(s) : s[i] \in T
  OBVIOUS
<1>1. /\ K \in [0..Len(s) -> Seq(T)] /\ K[0] = <<>>
      /\ \A i \in 1..Len(s) : K[i] = IF s[i] \in A THEN Append(K[i-1], s[i]) ELSE K[i-1]
  BY KeptUpToRec
<1>2. /\ L[0] = <<>>
      /\ \A i \in 1..Len(s) : L[i] = IF s[i] \in A \cap B THEN Append(L[i-1], s[i]) ELSE L[i-1]
  BY KeptUpToRec
<1> HIDE DEF K, L
<1>3. \A S : Keep(<<>>, S) = <<>>
  <2>1. <<>> \in Seq({1}) /\ 1 \in {1}
    OBVIOUS
  <2> QED
    BY <2>1, KeepAppend
<1>4. 0 \in G
  BY <1>0, <1>1, <1>2, <1>3
<1>5. ASSUME NEW n \in 0..(Len(s) - 1), n \in G PROVE n + 1 \in G
  <2>1. n + 1 \in 1..Len(s) /\ (n + 1) - 1 = n /\ n + 1 \in 0..Len(s) /\ n \in 0..Len(s)
    BY <1>0
  <2>2. PICK x \in T : x = s[n + 1]
    BY <1>0, <2>1
  <2>3. PICK u \in Seq(T) : u = K[n]
    BY <1>1, <2>1
  <2>4. K[n + 1] = IF x \in A THEN Append(u, x) ELSE u
    BY <1>1, <2>1, <2>2, <2>3
  <2>5. L[n + 1] = IF x \in A \cap B THEN Append(L[n], x) ELSE L[n]
    BY <1>2, <2>1, <2>2
  <2>6. Keep(u, B) = L[n]
    BY <1>5, <2>3
  <2>7. Keep(Append(u, x), B) = IF x \in B THEN Append(Keep(u, B), x) ELSE Keep(u, B)
    BY KeepAppend
  <2>8. Keep(K[n + 1], B) = L[n + 1]
    <3>1. CASE x \in A /\ x \in B
      BY <3>1, <2>4, <2>5, <2>6, <2>7
    <3>2. CASE x \in A /\ x \notin B
      BY <3>2, <2>4, <2>5, <2>6, <2>7
    <3>3. CASE x \notin A
      BY <3>3, <2>4, <2>5, <2>6
    <3> QED
      BY <3>1, <3>2, <3>3
  <2> QED
    BY <2>1, <2>8
<1>6. \A n \in 0..Len(s) : n \in G
  <2> HIDE DEF G
  <2> QED
    BY <1>0, <1>4, <1>5, AllUpTo
<1>7. Keep(K[Len(s)], B) = L[Len(s)]
  BY <1>0, <1>6
<1> QED
  BY <1>7 DEF K, L, Keep

\* A later window is a part of an earlier one.
LEMMA Windows ==
  ASSUME NEW a \in Int, NEW b \in Int, a <= b
  PROVE  Within(b) \subseteq Within(a) /\ Within(a) \cap Within(b) = Within(b) /\ Within(b) \cap Within(a) = Within(b)
<1>1. FreqWindow \in Nat
  BY PreAggAssumption
<1>2. Within(b) \subseteq Within(a)
  BY <1>1 DEF Within
<1> QED
  BY <1>2

\* cleanup_old_records drops nothing of an earlier window's filter, ...
LEMMA CleanedEarlier ==
  ASSUME NEW f \in Seq(Nat), NEW now \in Int, NEW l \in Int, l <= now
  PROVE  Keep(Keep(f, Within(now)), Within(l)) = Keep(f, Within(now))
<1>1. Keep(Keep(f, Within(now)), Within(l)) = Keep(f, Within(now) \cap Within(l))
  BY KeepKeep
<1> QED
  BY <1>1, Windows

\* ... leaves what a later window has, ...
LEMMA CleanedLater ==
  ASSUME NEW f \in Seq(Nat), NEW now \in Int, NEW b \in Int, b >= now
  PROVE  Keep(Keep(f, Within(now)), Within(b)) = Keep(f, Within(b))
<1>1. Keep(Keep(f, Within(now)), Within(b)) = Keep(f, Within(now) \cap Within(b))
  BY KeepKeep
<1> QED
  BY <1>1, Windows

\* ... and adds nothing to any.
LEMMA CleanedFewer ==
  ASSUME NEW f \in Seq(Nat), NEW now \in Int, NEW b \in Int
  PROVE  /\ Len(Keep(Keep(f, Within(now)), Within(b))) \in Nat
         /\ Len(Keep(f, Within(b))) \in Nat
         /\ Len(Keep(Keep(f, Within(now)), Within(b))) <= Len(Keep(f, Within(b)))
<1>1. PICK u : u = Keep(f, Within(b))
  OBVIOUS
<1>2. u \in Seq(Nat)
  BY <1>1, KeepElements
<1>3. Keep(Keep(f, Within(now)), Within(b)) = Keep(f, Within(now) \cap Within(b))
  BY KeepKeep
<1>4. Keep(u, Within(now)) = Keep(f, Within(b) \cap Within(now))
  BY <1>1, KeepKeep
<1>5. Within(b) \cap Within(now) = Within(now) \cap Within(b)
  OBVIOUS
<1>6. Keep(u, Within(now)) \in Seq(Nat) /\ Len(Keep(u, Within(now))) <= Len(u)
  BY <1>2, KeepElements
<1>7. Len(Keep(u, Within(now))) \in Nat /\ Len(u) \in Nat
  BY <1>2, <1>6
<1> QED
  BY <1>1, <1>3, <1>4, <1>5, <1>6, <1>7

\* One more record, of the present.
LEMMA OneMoreRecord ==
  ASSUME NEW f \in Seq(Nat), NEW a \in Seq(Nat), NEW now \in Nat
  PROVE  /\ Append(f, now) \in Seq(Nat) /\ Append(a, now) \in Seq(Nat)
         /\ \A b \in Int : Len(Keep(f, Within(b))) <= Len(Keep(a, Within(b)))
                            => Len(Keep(Append(f, now), Within(b))) <= Len(Keep(Append(a, now), Within(b)))
         /\ \A b \in Int : Keep(f, Within(b)) = Keep(a, Within(b))
                            => Keep(Append(f, now), Within(b)) = Keep(Append(a, now), Within(b))
<1>1. \A s \in Seq(Nat) : \A B : Keep(s, B) \in Seq(Nat)
  BY KeepElements
<1>2. \A s \in Seq(Nat) : \A B : Keep(Append(s, now), B) = IF now \in B THEN Append(Keep(s, B), now) ELSE Keep(s, B)
  BY KeepAppend, ZenonT(60)
<1>3. ASSUME NEW b \in Int, Len(Keep(f, Within(b))) <= Len(Keep(a, Within(b)))
      PROVE  Len(Keep(Append(f, now), Within(b))) <= Len(Keep(Append(a, now), Within(b)))
  <2>1. PICK u \in Seq(Nat), v \in Seq(Nat) : u = Keep(f, Within(b)) /\ v = Keep(a, Within(b))
    BY <1>1
  <2>2. Len(u) <= Len(v) /\ Len(u) \in Nat /\ Len(v) \in Nat
    BY <1>3, <2>1
  <2>3. CASE now \in Within(b)
    <3>1. Keep(Append(f, now), Within(b)) = Append(u, now) /\ Keep(Append(a, now), Within(b)) = Append(v, now)
      BY <1>2, <2>1, <2>3
    <3>2. Len(Append(u, now)) = Len(u) + 1 /\ Len(Append(v, now)) = Len(v) + 1
      OBVIOUS
    <3> QED
      BY <2>2, <3>1, <3>2
  <2>4. CASE now \notin Within(b)
    <3>1. Keep(Append(f, now), Within(b)) = u /\ Keep(Append(a, now), Within(b)) = v
      BY <1>2, <2>1, <2>4
    <3> QED
      BY <2>2, <3>1
  <2> QED
    BY <2>3, <2>4
<1>4. ASSUME NEW b \in Int, Keep(f, Within(b)) = Keep(a, Within(b))
      PROVE  Keep(Append(f, now), Within(b)) = Keep(Append(a, now), Within(b))
  BY <1>2, <1>4, ZenonT(60)
<1> QED
  BY <1>3, <1>4

\* The records f of a query that was asked at the times a: they are in the window
\* of the last time, and in no window are they more than were asked.
Known(f, a, now) ==
  /\ a # <<>> /\ a[Len(a)] <= now
  /\ Keep(f, Within(a[Len(a)])) = f
  /\ \A b \in Int : Len(Keep(f, Within(b))) <= Len(Keep(a, Within(b)))

\* Nothing of the present window is missing, nor will be of a later one.
Complete(f, a, now) == \A b \in Int : b >= now => Keep(f, Within(b)) = Keep(a, Within(b))

\* Time passes.
LEMMA RecordsAge ==
  ASSUME NEW f, NEW a \in Seq(Nat), NEW now \in Int, NEW later \in Int, now <= later
  PROVE  (Known(f, a, now) => Known(f, a, later)) /\ (Complete(f, a, now) => Complete(f, a, later))
<1>1. ASSUME Known(f, a, now) PROVE Known(f, a, later)
  <2>1. a # <<>> /\ a[Len(a)] <= now
    BY <1>1 DEF Known
  <2>2. a[Len(a)] \in Nat
    BY <2>1
  <2>3. a[Len(a)] <= later
    BY <2>1, <2>2
  <2> QED
    BY <1>1, <2>3 DEF Known
<1>2. ASSUME Complete(f, a, now) PROVE Complete(f, a, later)
  <2>1. \A b \in Int : b >= later => b >= now
    OBVIOUS
  <2> QED
    BY <1>2, <2>1 DEF Complete
<1> QED
  BY <1>1, <1>2

\* record_query: a record of the present is added, and old ones are dropped.
LEMMA RecordsGrow ==
  ASSUME NEW f \in Seq(Nat), NEW a \in Seq(Nat), NEW now \in Nat, NEW g, g = Keep(Append(f, now), Within(now)),
         f = <<>> \/ Known(f, a, now)
  PROVE  /\ g \in Seq(Nat) /\ Append(a, now) \in Seq(Nat) /\ Known(g, Append(a, now), now)
         /\ Complete(f, a, now) => Complete(g, Append(a, now), now)
<1>0. PICK h, c : h = Append(f, now) /\ c = Append(a, now)
  OBVIOUS
<1>1. /\ h = Append(f, now) /\ c = Append(a, now) /\ h \in Seq(Nat) /\ c \in Seq(Nat)
      /\ g = Keep(h, Within(now)) /\ now \in Int /\ now <= now
  BY <1>0
<1>2. c # <<>> /\ c[Len(c)] = now
  BY <1>1
<1>3. g \in Seq(Nat)
  <2>1. Keep(h, Within(now)) \in Seq(Nat)
    BY <1>1, KeepElements
  <2> QED
    BY <1>1, <2>1
<1>4. Keep(g, Within(now)) = g
  <2>1. Keep(Keep(h, Within(now)), Within(now)) = Keep(h, Within(now))
    BY <1>1, CleanedEarlier
  <2> QED
    BY <1>1, <2>1
<1>5. ASSUME NEW b \in Int PROVE Len(Keep(g, Within(b))) <= Len(Keep(c, Within(b)))
  <2>0. Keep(a, Within(b)) \in Seq(Nat) /\ Keep(c, Within(b)) \in Seq(Nat)
    BY <1>1, KeepElements
  <2>1. Len(Keep(f, Within(b))) <= Len(Keep(a, Within(b)))
    <3>1. CASE Known(f, a, now)
      BY <3>1 DEF Known
    <3>2. CASE f = <<>>
      <4>1. Keep(f, Within(b)) = <<>>
        BY <3>2, KeepAppend
      <4>2. Len(<<>>) = 0 /\ Len(Keep(a, Within(b))) \in Nat
        BY <2>0
      <4> QED
        BY <4>1, <4>2
    <3> QED
      BY <3>1, <3>2
  <2>2. PICK x, y, z : x = Len(Keep(g, Within(b))) /\ y = Len(Keep(h, Within(b))) /\ z = Len(Keep(c, Within(b)))
    OBVIOUS
  <2>3. y <= z
    BY <1>1, <2>1, <2>2, OneMoreRecord
  <2>4. x \in Nat /\ y \in Nat /\ x <= y
    BY <1>1, <2>2, CleanedFewer
  <2>5. z \in Nat
    BY <2>0, <2>2
  <2>6. x <= z
    BY <2>3, <2>4, <2>5
  <2> QED
    BY <2>2, <2>6
<1>6. Known(g, c, now)
  BY <1>1, <1>2, <1>4, <1>5 DEF Known
<1>7. ASSUME Complete(f, a, now), NEW b \in Int, b >= now PROVE Keep(g, Within(b)) = Keep(c, Within(b))
  <2>1. Keep(f, Within(b)) = Keep(a, Within(b))
    BY <1>7 DEF Complete
  <2>2. Keep(h, Within(b)) = Keep(c, Within(b))
    BY <1>1, <2>1, OneMoreRecord
  <2>3. Keep(g, Within(b)) = Keep(h, Within(b))
    <3>1. Keep(Keep(h, Within(now)), Within(b)) = Keep(h, Within(b))
      BY <1>1, <1>7, CleanedLater
    <3> QED
      BY <1>1, <3>1
  <2> QED
    BY <2>2, <2>3
<1>8. Complete(f, a, now) => Complete(g, c, now)
  BY <1>7 DEF Complete
<1> QED
  BY <1>1, <1>3, <1>6, <1>8

\* cleanup_expired: old records are dropped.
LEMMA RecordsShrink ==
  ASSUME NEW f \in Seq(Nat), NEW a \in Seq(Nat), NEW now \in Nat, NEW g, g = Keep(f, Within(now))
  PROVE  /\ g \in Seq(Nat)
         /\ Known(f, a, now) => Known(g, a, now)
         /\ Complete(f, a, now) => Complete(g, a, now)
<1>0. now \in Int
  OBVIOUS
<1>1. g \in Seq(Nat)
  BY KeepElements
<1>2. ASSUME Known(f, a, now) PROVE Known(g, a, now)
  <2>1. a # <<>> /\ a[Len(a)] <= now /\ \A b \in Int : Len(Keep(f, Within(b))) <= Len(Keep(a, Within(b)))
    BY <1>2 DEF Known
  <2>2. PICK l : l = a[Len(a)]
    OBVIOUS
  <2>3. a # <<>> => a[Len(a)] \in Nat
    OBVIOUS
  <2>4. l \in Int /\ l <= now
    <3>1. l \in Nat
      BY <2>1, <2>2, <2>3
    <3>2. l <= now
      BY <2>1, <2>2
    <3> QED
      BY <3>1, <3>2
  <2>5. Keep(g, Within(l)) = g
    <3>1. Keep(Keep(f, Within(now)), Within(l)) = Keep(f, Within(now))
      BY <1>0, <2>4, CleanedEarlier
    <3> QED
      BY <3>1
  <2>6. ASSUME NEW b \in Int PROVE Len(Keep(g, Within(b))) <= Len(Keep(a, Within(b)))
    <3>1. PICK x, y, z : x = Len(Keep(g, Within(b))) /\ y = Len(Keep(f, Within(b))) /\ z = Len(Keep(a, Within(b)))
      OBVIOUS
    <3>2. x \in Nat /\ y \in Nat /\ x <= y
      BY <1>0, <3>1, CleanedFewer
    <3>3. Keep(a, Within(b)) \in Seq(Nat)
      BY KeepElements
    <3>4. z \in Nat
      BY <3>1, <3>3
    <3>5. y <= z
      BY <2>1, <3>1
    <3>6. x <= z
      BY <3>2, <3>4, <3>5
    <3> QED
      BY <3>1, <3>6
  <2> QED
    BY <2>1, <2>2, <2>5, <2>6 DEF Known
<1>3. ASSUME Complete(f, a, now) PROVE Complete(g, a, now)
  <2>1. ASSUME NEW b \in Int, b >= now PROVE Keep(g, Within(b)) = Keep(a, Within(b))
    <3>1. Keep(g, Within(b)) = Keep(f, Within(b))
      BY <1>0, <2>1, CleanedLater
    <3>2. Keep(f, Within(b)) = Keep(a, Within(b))
      BY <1>3, <2>1 DEF Complete
    <3> QED
      BY <3>1, <3>2
  <2> QED
    BY <2>1 DEF Complete
<1> QED
  BY <1>1, <1>2, <1>3

\* The table of frequencies: what it holds of a query, and what the history says.
Tracked(n) == IF n \in DOMAIN stats THEN stats[n] ELSE <<>>
FreqInv ==
  /\ DOMAIN stats \subseteq Normals /\ stats \in [DOMAIN stats -> Seq(Nat)]
  /\ askedAt \in [Normals -> Seq(Nat)] /\ paNow \in Nat \ {0}
  /\ \A n \in DOMAIN stats : Known(stats[n], askedAt[n], paNow)
  /\ \A n \in Normals \ dropped : Complete(Tracked(n), askedAt[n], paNow)

\* A step that leaves the table alone.
LEMMA TableStays ==
  ASSUME FreqInv, UNCHANGED trackVars, paNow' \in Nat, paNow <= paNow'
  PROVE  FreqInv'
<1>1. /\ DOMAIN stats \subseteq Normals /\ stats \in [DOMAIN stats -> Seq(Nat)]
      /\ askedAt \in [Normals -> Seq(Nat)] /\ paNow \in Nat \ {0}
      /\ \A n \in DOMAIN stats : Known(stats[n], askedAt[n], paNow)
      /\ \A n \in Normals \ dropped : Complete(Tracked(n), askedAt[n], paNow)
  BY DEF FreqInv
<1>2. PICK later : later = paNow'
  OBVIOUS
<1>3. later \in Nat \ {0} /\ later \in Int /\ paNow \in Int /\ paNow <= later
  BY <1>1, <1>2
<1>4. UNCHANGED <<stats, askedAt, dropped>>
  BY DEF trackVars
<1>5. ASSUME NEW n \in DOMAIN stats PROVE Known(stats[n], askedAt[n], later)
  <2>1. askedAt[n] \in Seq(Nat)
    BY <1>1
  <2> QED
    BY <1>1, <1>3, <2>1, RecordsAge
<1>6. ASSUME NEW n \in Normals \ dropped PROVE Complete(Tracked(n), askedAt[n], later)
  <2>1. askedAt[n] \in Seq(Nat)
    BY <1>1
  <2> QED
    BY <1>1, <1>3, <2>1, RecordsAge
<1>7. \A n \in DOMAIN stats' : Known(stats'[n], askedAt'[n], paNow')
  BY <1>2, <1>4, <1>5
<1>8. \A n \in Normals \ dropped' : Complete(Tracked(n)', askedAt'[n], paNow')
  BY <1>2, <1>4, <1>6 DEF Tracked
<1> QED
  BY <1>1, <1>2, <1>3, <1>4, <1>7, <1>8 DEF FreqInv

\* record_query, by the records the query has and the queries that are kept.
LEMMA TableGrows ==
  ASSUME FreqInv, NEW n \in Normals, NEW kept \in SUBSET DOMAIN stats, NEW g,
         n \in DOMAIN stats => n \in kept, g = Keep(Append(Tracked(n), paNow), Within(paNow)),
         stats' = With([m \in kept |-> stats[m]], n, g),
         askedAt' = [askedAt EXCEPT ![n] = Append(@, paNow)],
         dropped' = dropped \cup (DOMAIN stats \ kept), UNCHANGED paNow
  PROVE  FreqInv'
<1>1. /\ DOMAIN stats \subseteq Normals /\ stats \in [DOMAIN stats -> Seq(Nat)]
      /\ askedAt \in [Normals -> Seq(Nat)] /\ paNow \in Nat \ {0}
      /\ \A m \in DOMAIN stats : Known(stats[m], askedAt[m], paNow)
      /\ \A m \in Normals \ dropped : Complete(Tracked(m), askedAt[m], paNow)
  BY DEF FreqInv
<1>2. PICK f, a, now : f = Tracked(n) /\ a = askedAt[n] /\ now = paNow
  OBVIOUS
<1>3. f \in Seq(Nat) /\ a \in Seq(Nat) /\ now \in Nat /\ (f = <<>> \/ Known(f, a, now))
  <2>1. CASE n \in DOMAIN stats
    BY <1>1, <1>2, <2>1 DEF Tracked
  <2>2. CASE n \notin DOMAIN stats
    BY <1>1, <1>2, <2>2 DEF Tracked
  <2> QED
    BY <2>1, <2>2
<1>4. g = Keep(Append(f, now), Within(now))
  BY <1>2
<1>5. /\ g \in Seq(Nat) /\ Append(a, now) \in Seq(Nat) /\ Known(g, Append(a, now), now)
      /\ Complete(f, a, now) => Complete(g, Append(a, now), now)
  BY <1>3, <1>4, RecordsGrow
<1>6. /\ DOMAIN stats' = kept \cup {n} /\ stats'[n] = g /\ stats' \in [DOMAIN stats' -> Seq(Nat)]
      /\ \A m \in kept : m # n => stats'[m] = stats[m]
  <2>1. stats' = [m \in kept \cup {n} |-> IF m = n THEN g ELSE stats[m]]
    BY DEF With
  <2>2. \A m \in kept : stats[m] \in Seq(Nat)
    BY <1>1
  <2> QED
    BY <1>5, <2>1, <2>2
<1>7. /\ askedAt' \in [Normals -> Seq(Nat)] /\ askedAt'[n] = Append(a, now)
      /\ \A m \in Normals : m # n => askedAt'[m] = askedAt[m]
  BY <1>1, <1>2, <1>5
<1>8. ASSUME NEW m \in DOMAIN stats' PROVE Known(stats'[m], askedAt'[m], paNow')
  <2>1. CASE m = n
    BY <1>2, <1>5, <1>6, <1>7, <2>1
  <2>2. CASE m # n
    <3>1. m \in kept /\ m \in DOMAIN stats /\ m \in Normals
      BY <1>1, <1>6, <2>2
    <3>2. stats'[m] = stats[m] /\ askedAt'[m] = askedAt[m]
      BY <1>6, <1>7, <2>2, <3>1
    <3> QED
      BY <1>1, <3>1, <3>2
  <2> QED
    BY <2>1, <2>2
<1>9. ASSUME NEW m \in Normals \ dropped' PROVE Complete(Tracked(m)', askedAt'[m], paNow')
  <2>0. m \in Normals \ dropped
    OBVIOUS
  <2>1. CASE m = n
    <3>1. Complete(f, a, now)
      BY <1>1, <1>2, <2>0, <2>1
    <3>2. Tracked(m)' = g
      BY <1>6, <2>1 DEF Tracked
    <3> QED
      BY <1>2, <1>5, <1>7, <2>1, <3>1, <3>2
  <2>2. CASE m # n
    <3>1. Tracked(m)' = Tracked(m)
      <4>1. CASE m \in DOMAIN stats
        <5>1. m \in kept
          BY <4>1
        <5> QED
          BY <1>6, <2>2, <4>1, <5>1 DEF Tracked
      <4>2. CASE m \notin DOMAIN stats
        BY <1>6, <2>2, <4>2 DEF Tracked
      <4> QED
        BY <4>1, <4>2
    <3>2. askedAt'[m] = askedAt[m]
      BY <1>7, <2>2
    <3> QED
      BY <1>1, <2>0, <3>1, <3>2
  <2> QED
    BY <2>1, <2>2
<1>10. DOMAIN stats' \subseteq Normals
  BY <1>1, <1>6
<1> QED
  BY <1>1, <1>6, <1>7, <1>8, <1>9, <1>10 DEF FreqInv

\* cleanup_expired.
LEMMA TableShrinks ==
  ASSUME FreqInv, cleanup_expired
  PROVE  FreqInv'
<1>1. /\ DOMAIN stats \subseteq Normals /\ stats \in [DOMAIN stats -> Seq(Nat)]
      /\ askedAt \in [Normals -> Seq(Nat)] /\ paNow \in Nat \ {0}
      /\ \A m \in DOMAIN stats : Known(stats[m], askedAt[m], paNow)
      /\ \A m \in Normals \ dropped : Complete(Tracked(m), askedAt[m], paNow)
  BY DEF FreqInv
<1>2. PICK now, live : now = paNow /\ live = {n \in DOMAIN stats : cleanup_old_records(stats[n]) # <<>>}
  OBVIOUS
<1>3. /\ stats' = [n \in live |-> Keep(stats[n], Within(now))] /\ UNCHANGED <<askedAt, dropped, paNow>>
      /\ live = {n \in DOMAIN stats : Keep(stats[n], Within(now)) # <<>>}
  BY <1>2 DEF cleanup_expired, cleanup_old_records
<1>4. now \in Nat /\ live \subseteq DOMAIN stats
  BY <1>1, <1>2
<1>5. ASSUME NEW m \in DOMAIN stats
      PROVE  /\ Keep(stats[m], Within(now)) \in Seq(Nat)
             /\ Known(stats[m], askedAt[m], now) => Known(Keep(stats[m], Within(now)), askedAt[m], now)
             /\ Complete(stats[m], askedAt[m], now) => Complete(Keep(stats[m], Within(now)), askedAt[m], now)
  <2>1. stats[m] \in Seq(Nat) /\ askedAt[m] \in Seq(Nat)
    BY <1>1
  <2> QED
    BY <1>4, <2>1, RecordsShrink
<1>6. /\ DOMAIN stats' = live /\ stats' \in [DOMAIN stats' -> Seq(Nat)]
      /\ \A m \in live : stats'[m] = Keep(stats[m], Within(now))
  BY <1>3, <1>4, <1>5
<1>7. \A m \in DOMAIN stats' : Known(stats'[m], askedAt'[m], paNow')
  BY <1>1, <1>2, <1>3, <1>4, <1>5, <1>6
<1>8. ASSUME NEW m \in Normals \ dropped' PROVE Complete(Tracked(m)', askedAt'[m], paNow')
  <2>0. Complete(Tracked(m), askedAt[m], now)
    BY <1>1, <1>2, <1>3
  <2>1. CASE m \in live
    BY <1>2, <1>3, <1>4, <1>5, <1>6, <2>0, <2>1 DEF Tracked
  <2>2. CASE m \in DOMAIN stats /\ m \notin live
    <3>1. Keep(stats[m], Within(now)) = <<>> /\ Tracked(m) = stats[m]
      BY <1>3, <2>2 DEF Tracked
    <3>2. Complete(Keep(stats[m], Within(now)), askedAt[m], now)
      BY <1>5, <2>0, <2>2, <3>1
    <3>3. Tracked(m)' = <<>>
      BY <1>6, <2>2 DEF Tracked
    <3> QED
      BY <1>2, <1>3, <3>1, <3>2, <3>3
  <2>3. CASE m \notin DOMAIN stats
    <3>1. Tracked(m)' = Tracked(m)
      BY <1>4, <1>6, <2>3 DEF Tracked
    <3> QED
      BY <1>2, <1>3, <2>0, <3>1
  <2> QED
    BY <2>1, <2>2, <2>3
<1> QED
  BY <1>1, <1>3, <1>4, <1>6, <1>7, <1>8 DEF FreqInv

\* The table through any step.
LEMMA FreqStep ==
  ASSUME FreqInv, [ManageNext \/ RunNext]_paVars
  PROVE  FreqInv'
<1>0. paNow \in Nat /\ paNow <= paNow /\ paNow + 1 \in Nat /\ paNow <= paNow + 1
  BY DEF FreqInv
<1>1. ASSUME UNCHANGED <<trackVars, paNow>> PROVE FreqInv'
  BY <1>0, <1>1, TableStays
<1>2. CASE PaTick
  BY <1>0, <1>2, TableStays DEF PaTick
<1>3. ASSUME NEW q \in PQueries, record_query(q) PROVE FreqInv'
  <2>1. PICK n : n = normalize_query(q)
    OBVIOUS
  <2>2. PICK full : full = (n \notin DOMAIN stats /\ Cardinality(DOMAIN stats) >= MaxTracked)
    OBVIOUS
  <2>3. PICK kept : kept = IF full THEN {m \in DOMAIN stats : Len(stats[m]) > FreqThreshold \div 2} ELSE DOMAIN stats
    OBVIOUS
  <2>4. PICK before : before = IF n \in kept THEN stats[n] ELSE <<>>
    OBVIOUS
  <2>5. /\ stats' = With([m \in kept |-> stats[m]], n, cleanup_old_records(Append(before, paNow)))
        /\ askedAt' = [askedAt EXCEPT ![n] = Append(@, paNow)]
        /\ dropped' = dropped \cup (DOMAIN stats \ kept) /\ UNCHANGED paNow
    BY <1>3, <2>1, <2>2, <2>3, <2>4 DEF record_query
  <2>6. kept \in SUBSET DOMAIN stats /\ (n \in DOMAIN stats => n \in kept)
    BY <2>2, <2>3
  <2>7. before = Tracked(n)
    BY <2>4, <2>6 DEF Tracked
  <2>8. n \in Normals
    BY <2>1 DEF Normals
  <2>9. PICK g : g = Keep(Append(Tracked(n), paNow), Within(paNow))
    OBVIOUS
  <2>10. stats' = With([m \in kept |-> stats[m]], n, g)
    BY <2>5, <2>7, <2>9 DEF cleanup_old_records
  <2> QED
    BY <2>5, <2>6, <2>8, <2>9, <2>10, TableGrows
<1>4. ASSUME NEW q \in PQueries, create_rule(q) PROVE FreqInv'
  BY <1>1, <1>4 DEF create_rule
<1>5. ASSUME NEW c \in Creators, AutoCreateBegin(c) \/ AutoCreateOne(c) PROVE FreqInv'
  BY <1>1, <1>5 DEF AutoCreateBegin, AutoCreateOne
<1>6. ASSUME NEW r \in RuleIds, delete_rule(r) \/ update_rule_frequency(r) \/ SetStatus(r, "Inactive") PROVE FreqInv'
  BY <1>1, <1>6 DEF delete_rule, update_rule_frequency, SetStatus
<1>7. ASSUME NEW r \in RuleIds, add_rule(r) \/ remove_rule(r) \/ ExecuteBegin(r) PROVE FreqInv'
  BY <1>1, <1>7 DEF add_rule, remove_rule, ExecuteBegin
<1>8. CASE CleanupBegin \/ CleanupOne \/ ExecuteEnd
  BY <1>1, <1>8 DEF CleanupBegin, CleanupOne, ExecuteEnd
<1>9. CASE UNCHANGED paVars
  BY <1>1, <1>9 DEF paVars, trackVars
<1> QED
  BY <1>2, <1>3, <1>4, <1>5, <1>6, <1>7, <1>8, <1>9, TableShrinks DEF ManageNext, RunNext, MakeRules

-----------------------------------------------------------------------------
(* The rules made from the frequencies, and the aggregated data.              *)

PaRule == [expr : PQueries \cup Normals, auto : BOOLEAN, status : {"Active", "Inactive"}, freq : Nat, used : Nat]
PaCreator == [pc : {"idle", "create"}, count : Nat, todo : Seq(Normals), made : Nat]

\* Rules that were counted have been used.
MadeInv ==
  /\ DOMAIN prules \subseteq RuleIds /\ prules \in [DOMAIN prules -> PaRule]
  /\ \A r \in DOMAIN prules : prules[r].freq # 0 => prules[r].used > 0

\* The callers of auto_create_rules, and the queries they read.
CallsInv ==
  /\ IsFiniteSet(DOMAIN stats) /\ nextRule \in Nat \ {0}
  /\ creator \in [Creators -> PaCreator]
  /\ \A c \in Creators : creator[c].pc = "create" => creator[c].todo # <<>>

\* A lone caller has counted every automatic rule and knows of room for one more.
LimitInv ==
  ~overlap =>
    /\ Cardinality(Autos) <= MaxAuto
    /\ \A c, d \in Creators : creator[c].pc = "create" /\ creator[d].pc = "create" => c = d
    /\ \A c \in Creators : creator[c].pc = "create" =>
         /\ Cardinality(Autos) <= creator[c].count + creator[c].made
         /\ creator[c].count + creator[c].made < MaxAuto

\* The automatic rules are a finite set.
LEMMA AutosFinite ==
  ASSUME MadeInv
  PROVE  IsFiniteSet(Autos) /\ Cardinality(Autos) \in Nat
<1>1. PaRules \in Int
  BY PreAggAssumption
<1>2. IsFiniteSet(RuleIds)
  BY <1>1, FS_Interval DEF RuleIds
<1>3. Autos \subseteq RuleIds
  BY DEF MadeInv, Autos
<1>4. IsFiniteSet(Autos)
  BY <1>2, <1>3, FS_Subset
<1> QED
  BY <1>4, FS_CardinalityType

\* A rule that is added.
LEMMA RuleAdded ==
  ASSUME MadeInv, NEW id \in RuleIds, NEW expr \in PQueries \cup Normals, NEW auto \in BOOLEAN,
         prules' = With(prules, id, NewRule(expr, auto))
  PROVE  MadeInv' /\ Autos' \subseteq Autos \cup {id} /\ (~auto => Autos' \subseteq Autos)
<1>1. /\ DOMAIN prules \subseteq RuleIds /\ prules \in [DOMAIN prules -> PaRule]
      /\ \A r \in DOMAIN prules : prules[r].freq # 0 => prules[r].used > 0
  BY DEF MadeInv
<1>2. PICK new : new = NewRule(expr, auto)
  OBVIOUS
<1>3. new \in PaRule /\ new.freq = 0 /\ new.auto = auto
  BY <1>2 DEF NewRule, PaRule
<1>4. prules' = [x \in DOMAIN prules \cup {id} |-> IF x = id THEN new ELSE prules[x]]
  BY <1>2 DEF With
<1>5. /\ DOMAIN prules' = DOMAIN prules \cup {id} /\ prules'[id] = new
      /\ \A x \in DOMAIN prules : x # id => prules'[x] = prules[x]
  BY <1>4
<1>6. prules' \in [DOMAIN prules' -> PaRule]
  BY <1>1, <1>3, <1>4
<1>7. \A r \in DOMAIN prules' : prules'[r].freq # 0 => prules'[r].used > 0
  BY <1>1, <1>3, <1>5
<1>8. MadeInv'
  BY <1>1, <1>5, <1>6, <1>7 DEF MadeInv
<1>9. ASSUME NEW r \in Autos' PROVE r \in Autos \/ (r = id /\ auto)
  BY <1>3, <1>5, <1>9 DEF Autos
<1> QED
  BY <1>8, <1>9

\* A rule that is taken out, or stays.
LEMMA RuleRemoved ==
  ASSUME MadeInv, NEW id, prules' = Without(prules, id) \/ prules' = prules
  PROVE  MadeInv' /\ Autos' \subseteq Autos
<1>1. CASE prules' = prules
  BY <1>1 DEF MadeInv, Autos
<1>2. CASE prules' = Without(prules, id)
  <2>1. /\ DOMAIN prules' = DOMAIN prules \ {id} /\ prules' = [x \in DOMAIN prules \ {id} |-> prules[x]]
        /\ \A x \in DOMAIN prules \ {id} : prules'[x] = prules[x]
    BY <1>2 DEF Without
  <2>2. Autos' \subseteq Autos
    BY <2>1 DEF Autos
  <2>3. MadeInv'
    BY <2>1 DEF MadeInv
  <2> QED
    BY <2>2, <2>3
<1> QED
  BY <1>1, <1>2

\* A rule that is changed, but stays automatic or not.
LEMMA RuleChanged ==
  ASSUME MadeInv, NEW id \in DOMAIN prules, NEW new \in PaRule, new.auto = prules[id].auto,
         new.freq # 0 => new.used > 0, prules' = [prules EXCEPT ![id] = new]
  PROVE  MadeInv' /\ Autos' \subseteq Autos
<1>1. /\ DOMAIN prules \subseteq RuleIds /\ prules \in [DOMAIN prules -> PaRule]
      /\ \A r \in DOMAIN prules : prules[r].freq # 0 => prules[r].used > 0
  BY DEF MadeInv
<1>2. /\ DOMAIN prules' = DOMAIN prules /\ prules'[id] = new /\ prules' \in [DOMAIN prules -> PaRule]
      /\ \A x \in DOMAIN prules : x # id => prules'[x] = prules[x]
  BY <1>1
<1>3. \A r \in DOMAIN prules' : (prules'[r].freq # 0 => prules'[r].used > 0) /\ prules'[r].auto = prules[r].auto
  BY <1>1, <1>2
<1>4. MadeInv'
  BY <1>1, <1>2, <1>3 DEF MadeInv
<1>5. Autos' \subseteq Autos
  BY <1>2, <1>3 DEF Autos
<1> QED
  BY <1>4, <1>5

\* Fewer automatic rules, and the same callers.
LEMMA FewerRules ==
  ASSUME MadeInv, MadeInv', CallsInv, LimitInv, Autos' \subseteq Autos, UNCHANGED <<creator, overlap>>
  PROVE  LimitInv'
<1>1. PICK A : A = Autos
  OBVIOUS
<1>2. PICK B : B = Autos'
  OBVIOUS
<1>3. B \subseteq A /\ IsFiniteSet(A) /\ Cardinality(A) \in Nat
  BY <1>1, <1>2, AutosFinite
<1>4. IsFiniteSet(B) /\ Cardinality(B) <= Cardinality(A)
  BY <1>3, FS_Subset
<1>5. PICK m, n : m = Cardinality(A) /\ n = Cardinality(B)
  OBVIOUS
<1>6. m \in Nat /\ n \in Nat /\ n <= m /\ MaxAuto \in Nat
  BY <1>3, <1>4, <1>5, FS_CardinalityType, PreAggAssumption
<1>7. \A c \in Creators : creator[c].count \in Nat /\ creator[c].made \in Nat
  BY DEF CallsInv, PaCreator
<1> SUFFICES ASSUME ~overlap'
             PROVE  /\ n <= MaxAuto
                    /\ \A c, d \in Creators : creator[c].pc = "create" /\ creator[d].pc = "create" => c = d
                    /\ \A c \in Creators : creator[c].pc = "create" =>
                         /\ n <= creator[c].count + creator[c].made
                         /\ creator[c].count + creator[c].made < MaxAuto
  BY <1>2, <1>5 DEF LimitInv
<1>8. /\ m <= MaxAuto
      /\ \A c, d \in Creators : creator[c].pc = "create" /\ creator[d].pc = "create" => c = d
      /\ \A c \in Creators : creator[c].pc = "create" =>
           /\ m <= creator[c].count + creator[c].made
           /\ creator[c].count + creator[c].made < MaxAuto
  BY <1>1, <1>5 DEF LimitInv
<1> QED
  BY <1>6, <1>7, <1>8

\* auto_create_rules begins: the caller counts what there is.
LEMMA CreateBegins ==
  ASSUME FreqInv, MadeInv, CallsInv, LimitInv, NEW c \in Creators, AutoCreateBegin(c)
  PROVE  MadeInv' /\ CallsInv' /\ LimitInv'
<1>1. PICK todo \in SetToSeqs(get_high_frequency_queries) :
           /\ todo # <<>>
           /\ creator' = [creator EXCEPT ![c] =
                [pc |-> "create", count |-> Cardinality(Autos), todo |-> todo, made |-> 0]]
  BY DEF AutoCreateBegin
<1>2. /\ Cardinality(Autos) < MaxAuto /\ overlap' = (overlap \/ \E d \in Creators \ {c} : creator[d] # Idle)
      /\ UNCHANGED <<stats, prules, nextRule>>
  BY DEF AutoCreateBegin, trackVars
<1>3. todo \in Seq(Normals)
  <2> DEFINE W == get_high_frequency_queries
  <2>1. W \subseteq DOMAIN stats /\ W \subseteq Normals
    BY DEF get_high_frequency_queries, FreqInv
  <2>2. IsFiniteSet(W)
    BY <2>1, FS_Subset DEF CallsInv
  <2> DEFINE n == Cardinality(W)
  <2>3. n \in Nat
    BY <2>2, FS_CardinalityType
  <2>4. todo \in [1..n -> W]
    BY DEF SetToSeqs
  <2> HIDE DEF n, W
  <2>5. todo \in Seq(W)
    BY <2>3, <2>4
  <2> QED
    BY <2>1, <2>5
<1>4. PICK a, new : a = Cardinality(Autos) /\ new = [pc |-> "create", count |-> a, todo |-> todo, made |-> 0]
  OBVIOUS
<1>5. a \in Nat /\ a < MaxAuto /\ MaxAuto \in Nat
  BY <1>2, <1>4, AutosFinite, PreAggAssumption
<1>6. new \in PaCreator /\ new.pc = "create" /\ new.todo = todo /\ new.count = a /\ new.made = 0
  BY <1>3, <1>4, <1>5 DEF PaCreator
<1>7. /\ creator' \in [Creators -> PaCreator] /\ creator'[c] = new
      /\ \A d \in Creators : d # c => creator'[d] = creator[d]
  BY <1>1, <1>4, <1>6 DEF CallsInv
<1>8. MadeInv'
  BY <1>2 DEF MadeInv
<1>9. CallsInv'
  <2>1. \A d \in Creators : creator'[d].pc = "create" => creator'[d].todo # <<>>
    BY <1>1, <1>6, <1>7 DEF CallsInv
  <2> QED
    BY <1>2, <1>7, <2>1 DEF CallsInv
<1>10. Cardinality(Autos)' = a
  BY <1>2, <1>4 DEF Autos
<1>11. ASSUME ~overlap', NEW d \in Creators, d # c PROVE creator'[d].pc # "create"
  <2>1. creator[d] = Idle
    BY <1>2, <1>11, Zenon
  <2>2. Idle.pc = "idle"
    BY DEF Idle
  <2> QED
    BY <1>7, <1>11, <2>1, <2>2
<1>12. a <= MaxAuto /\ a <= new.count + new.made /\ new.count + new.made < MaxAuto
  BY <1>5, <1>6
<1>13. LimitInv'
  <2> SUFFICES ASSUME ~overlap'
               PROVE  /\ a <= MaxAuto
                      /\ \A d, e \in Creators : creator'[d].pc = "create" /\ creator'[e].pc = "create" => d = e
                      /\ \A d \in Creators : creator'[d].pc = "create" =>
                           /\ a <= creator'[d].count + creator'[d].made
                           /\ creator'[d].count + creator'[d].made < MaxAuto
    BY <1>10 DEF LimitInv
  <2> QED
    BY <1>7, <1>11, <1>12
<1> QED
  BY <1>8, <1>9, <1>13

\* auto_create_rules, one rule.
LEMMA CreatesOne ==
  ASSUME FreqInv, MadeInv, CallsInv, LimitInv, NEW c \in Creators, AutoCreateOne(c)
  PROVE  MadeInv' /\ CallsInv' /\ LimitInv'
<1>0. PICK k : k = creator[c]
  OBVIOUS
<1>1. PICK full : full = (Len(k.todo) = 1 \/ k.count + k.made + 1 >= MaxAuto)
  OBVIOUS
<1>2. /\ k.pc = "create" /\ nextRule <= PaRules
      /\ prules' = With(prules, nextRule, NewRule(Head(k.todo), TRUE)) /\ nextRule' = nextRule + 1
      /\ creator' = [creator EXCEPT ![c] = IF full THEN Idle ELSE [k EXCEPT !.made = @ + 1, !.todo = Tail(@)]]
      /\ UNCHANGED <<stats, overlap>>
  BY <1>0, <1>1 DEF AutoCreateOne, trackVars
<1>3. k \in PaCreator /\ k.todo # <<>>
  BY <1>0, <1>2 DEF CallsInv
<1>4. /\ k.count \in Nat /\ k.made \in Nat /\ k.todo \in Seq(Normals)
      /\ k = [pc |-> k.pc, count |-> k.count, todo |-> k.todo, made |-> k.made]
  BY <1>3 DEF PaCreator
<1>5. Head(k.todo) \in Normals /\ Tail(k.todo) \in Seq(Normals) /\ (Len(k.todo) # 1 => Tail(k.todo) # <<>>)
  <2>1. PICK q \in Seq(Normals) : q = k.todo
    BY <1>4
  <2>2. q # <<>>
    BY <1>3, <2>1
  <2>3. Head(q) \in Normals /\ Tail(q) \in Seq(Normals) /\ Len(Tail(q)) = Len(q) - 1 /\ Len(q) \in Nat
    BY <2>2
  <2>4. Len(q) # 1 => Tail(q) # <<>>
    <3>1. Len(q) # 0
      BY <2>2
    <3>2. Len(q) # 1 => Len(Tail(q)) # 0
      BY <2>3, <3>1
    <3>3. Len(<<>>) = 0
      OBVIOUS
    <3>4. PICK u : u = Tail(q)
      OBVIOUS
    <3> QED
      BY <3>2, <3>3, <3>4
  <2> QED
    BY <2>1, <2>3, <2>4
<1>6. nextRule \in RuleIds /\ nextRule' \in Nat \ {0}
  BY <1>2, PreAggAssumption DEF CallsInv, RuleIds
<1>7. MadeInv' /\ Autos' \subseteq Autos \cup {nextRule}
  BY <1>2, <1>5, <1>6, RuleAdded
<1>8. PICK new : new = IF full THEN Idle ELSE [k EXCEPT !.made = @ + 1, !.todo = Tail(@)]
  OBVIOUS
<1>9. full => new \in PaCreator /\ new.pc = "idle"
  BY <1>8 DEF Idle, PaCreator
<1>10. ~full => new = [pc |-> "create", count |-> k.count, todo |-> Tail(k.todo), made |-> k.made + 1]
  <2> SUFFICES ASSUME ~full PROVE new = [pc |-> "create", count |-> k.count, todo |-> Tail(k.todo), made |-> k.made + 1]
    OBVIOUS
  <2>1. new = [[k EXCEPT !.made = k.made + 1] EXCEPT !.todo = Tail(k.todo)]
    BY <1>4, <1>8
  <2>2. [k EXCEPT !.made = k.made + 1] = [pc |-> "create", count |-> k.count, todo |-> k.todo, made |-> k.made + 1]
    BY <1>2, <1>4
  <2> QED
    BY <2>1, <2>2
<1>11. ~full => /\ new \in PaCreator /\ new.todo # <<>> /\ new.count = k.count /\ new.made = k.made + 1 /\ new.pc = "create"
                /\ k.count + k.made + 1 < MaxAuto
  <2> SUFFICES ASSUME ~full
               PROVE  /\ new \in PaCreator /\ new.todo # <<>> /\ new.count = k.count /\ new.made = k.made + 1 /\ new.pc = "create"
                      /\ k.count + k.made + 1 < MaxAuto
    OBVIOUS
  <2>1. Len(k.todo) # 1 /\ ~(k.count + k.made + 1 >= MaxAuto)
    BY <1>1
  <2>2. k.count + k.made + 1 < MaxAuto
    BY <1>4, <2>1, PreAggAssumption
  <2>3. k.made + 1 \in Nat /\ Tail(k.todo) # <<>>
    BY <1>4, <1>5, <2>1
  <2>4. PICK q \in Seq(Normals), n \in Nat, m \in Nat : q = Tail(k.todo) /\ n = k.count /\ m = k.made + 1
    BY <1>4, <1>5, <2>3
  <2>5. new = [pc |-> "create", count |-> n, todo |-> q, made |-> m]
    BY <1>10, <2>4
  <2>6. new \in PaCreator /\ new.todo = q /\ new.count = n /\ new.made = m /\ new.pc = "create"
    BY <2>5 DEF PaCreator
  <2> QED
    BY <2>2, <2>3, <2>4, <2>6
<1>12. /\ creator' \in [Creators -> PaCreator] /\ creator'[c] = new
       /\ \A d \in Creators : d # c => creator'[d] = creator[d]
  BY <1>2, <1>8, <1>9, <1>11 DEF CallsInv
<1>13. CallsInv'
  <2>1. \A d \in Creators : creator'[d].pc = "create" => creator'[d].todo # <<>>
    BY <1>9, <1>11, <1>12 DEF CallsInv
  <2> QED
    BY <1>2, <1>6, <1>12, <2>1 DEF CallsInv
<1>14. PICK A, id : A = Autos /\ id = nextRule
  OBVIOUS
<1>15. PICK B : B = Autos'
  OBVIOUS
<1>16. IsFiniteSet(A) /\ B \subseteq A \cup {id} /\ Cardinality(A) \in Nat
  BY <1>7, <1>14, <1>15, AutosFinite
<1>17. IsFiniteSet(A \cup {id}) /\ Cardinality(A \cup {id}) \in Nat /\ Cardinality(A \cup {id}) <= Cardinality(A) + 1
  BY <1>16, OneMore
<1>18. IsFiniteSet(B) /\ Cardinality(B) <= Cardinality(A \cup {id})
  BY <1>16, <1>17, FS_Subset
<1>19. PICK m, n : m = Cardinality(A) /\ n = Cardinality(B)
  OBVIOUS
<1>20. m \in Nat /\ n \in Nat /\ n <= m + 1 /\ MaxAuto \in Nat
  BY <1>16, <1>17, <1>18, <1>19, FS_CardinalityType, PreAggAssumption
<1>21. LimitInv'
  <2> SUFFICES ASSUME ~overlap'
               PROVE  /\ n <= MaxAuto
                      /\ \A d, e \in Creators : creator'[d].pc = "create" /\ creator'[e].pc = "create" => d = e
                      /\ \A d \in Creators : creator'[d].pc = "create" =>
                           /\ n <= creator'[d].count + creator'[d].made
                           /\ creator'[d].count + creator'[d].made < MaxAuto
    BY <1>15, <1>19 DEF LimitInv
  <2>1. /\ \A d, e \in Creators : creator[d].pc = "create" /\ creator[e].pc = "create" => d = e
        /\ m <= k.count + k.made /\ k.count + k.made < MaxAuto
    BY <1>0, <1>2, <1>14, <1>19 DEF LimitInv
  <2>2. \A d \in Creators : d # c => creator'[d].pc # "create"
    BY <1>0, <1>2, <1>12, <2>1
  <2>3. n <= MaxAuto
    BY <1>4, <1>20, <2>1
  <2>4. new.pc = "create" => n <= new.count + new.made /\ new.count + new.made < MaxAuto
    BY <1>4, <1>9, <1>11, <1>20, <2>1
  <2> QED
    BY <1>12, <2>2, <2>3, <2>4
<1> QED
  BY <1>7, <1>13, <1>21

\* The table of frequencies stays finite.
LEMMA TableFinite ==
  ASSUME FreqInv, IsFiniteSet(DOMAIN stats), NEW q \in PQueries, record_query(q)
  PROVE  IsFiniteSet(DOMAIN stats')
<1>1. PICK n, g, kept : stats' = With([m \in kept |-> stats[m]], n, g) /\ kept \subseteq DOMAIN stats
  BY DEF record_query
<1>2. DOMAIN stats' = kept \cup {n}
  BY <1>1 DEF With
<1>3. IsFiniteSet(kept)
  BY <1>1, FS_Subset
<1> QED
  BY <1>2, <1>3, OneMore

\* The rules through any step.
LEMMA MadeStep ==
  ASSUME FreqInv, MadeInv, CallsInv, LimitInv, [ManageNext \/ RunNext]_paVars
  PROVE  MadeInv' /\ CallsInv' /\ LimitInv'
<1>0. MadeInv /\ prules \in [DOMAIN prules -> PaRule] /\ paNow \in Nat \ {0}
  BY DEF MadeInv, FreqInv
<1>1. ASSUME MadeInv', Autos' \subseteq Autos, UNCHANGED <<creator, overlap, nextRule>>, IsFiniteSet(DOMAIN stats')
      PROVE  MadeInv' /\ CallsInv' /\ LimitInv'
  <2>1. CallsInv'
    BY <1>1 DEF CallsInv
  <2> QED
    BY <1>1, <2>1, FewerRules
<1>2. ASSUME UNCHANGED <<manageVars, stats>> PROVE MadeInv' /\ CallsInv' /\ LimitInv'
  <2>1. UNCHANGED <<prules, creator, overlap, nextRule, stats>>
    BY <1>2 DEF manageVars
  <2>2. MadeInv' /\ Autos' \subseteq Autos
    BY <2>1, RuleRemoved
  <2>3. IsFiniteSet(DOMAIN stats')
    BY <2>1 DEF CallsInv
  <2> QED
    BY <1>1, <2>1, <2>2, <2>3
<1>3. ASSUME NEW id, prules' = Without(prules, id) \/ prules' = prules, UNCHANGED <<creator, overlap, nextRule, stats>>
      PROVE  MadeInv' /\ CallsInv' /\ LimitInv'
  <2>1. MadeInv' /\ Autos' \subseteq Autos
    BY <1>3, RuleRemoved
  <2>2. IsFiniteSet(DOMAIN stats')
    BY <1>3 DEF CallsInv
  <2> QED
    BY <1>1, <1>3, <2>1, <2>2
<1>4. ASSUME NEW id \in DOMAIN prules, NEW new \in PaRule, new.auto = prules[id].auto, new.freq # 0 => new.used > 0,
             prules' = [prules EXCEPT ![id] = new], UNCHANGED <<creator, overlap, nextRule, stats>>
      PROVE  MadeInv' /\ CallsInv' /\ LimitInv'
  <2>1. MadeInv' /\ Autos' \subseteq Autos
    BY <1>4, RuleChanged
  <2>2. IsFiniteSet(DOMAIN stats')
    BY <1>4 DEF CallsInv
  <2> QED
    BY <1>1, <1>4, <2>1, <2>2
<1>5. CASE PaTick
  BY <1>2, <1>5 DEF PaTick, trackVars
<1>6. ASSUME NEW q \in PQueries, record_query(q) PROVE MadeInv' /\ CallsInv' /\ LimitInv'
  <2>1. IsFiniteSet(DOMAIN stats')
    BY <1>6, TableFinite DEF CallsInv
  <2>2. UNCHANGED <<prules, creator, overlap, nextRule>>
    BY <1>6 DEF record_query, manageVars
  <2>3. MadeInv' /\ Autos' \subseteq Autos
    BY <2>2, RuleRemoved
  <2> QED
    BY <1>1, <2>1, <2>2, <2>3
<1>7. CASE cleanup_expired
  <2>1. DOMAIN stats' \subseteq DOMAIN stats /\ UNCHANGED <<prules, creator, overlap, nextRule>>
    BY <1>7 DEF cleanup_expired, manageVars
  <2>2. PICK D : D = DOMAIN stats'
    OBVIOUS
  <2>3. IsFiniteSet(D)
    BY <2>1, <2>2, FS_Subset DEF CallsInv
  <2>4. MadeInv' /\ Autos' \subseteq Autos
    BY <2>1, RuleRemoved
  <2> QED
    BY <1>1, <2>1, <2>2, <2>3, <2>4
<1>8. ASSUME NEW q \in PQueries, create_rule(q) PROVE MadeInv' /\ CallsInv' /\ LimitInv'
  <2>1. /\ nextRule <= PaRules /\ prules' = With(prules, nextRule, NewRule(q, FALSE)) /\ nextRule' = nextRule + 1
        /\ UNCHANGED <<stats, creator, overlap>>
    BY <1>8 DEF create_rule, trackVars
  <2>2. nextRule \in RuleIds /\ nextRule' \in Nat \ {0}
    BY <2>1, PreAggAssumption DEF CallsInv, RuleIds
  <2>3. MadeInv' /\ Autos' \subseteq Autos
    BY <2>1, <2>2, RuleAdded
  <2>4. CallsInv'
    BY <2>1, <2>2 DEF CallsInv
  <2> QED
    BY <2>1, <2>3, <2>4, FewerRules
<1>9. ASSUME NEW r \in RuleIds, SetStatus(r, "Inactive") PROVE MadeInv' /\ CallsInv' /\ LimitInv'
  <2>1. r \in DOMAIN prules /\ prules' = [prules EXCEPT ![r].status = "Inactive"] /\ UNCHANGED <<creator, overlap, nextRule, stats>>
    BY <1>9 DEF SetStatus, trackVars
  <2>2. PICK old \in PaRule : old = prules[r]
    BY <1>0, <2>1
  <2>3. PICK new : new = [old EXCEPT !.status = "Inactive"]
    OBVIOUS
  <2>4. prules' = [prules EXCEPT ![r] = new]
    BY <1>0, <2>1, <2>2, <2>3
  <2>5. new \in PaRule /\ new.auto = old.auto /\ new.freq = old.freq /\ new.used = old.used
    BY <2>3 DEF PaRule
  <2>6. old.freq # 0 => old.used > 0
    BY <2>1, <2>2 DEF MadeInv
  <2>7. new.auto = prules[r].auto /\ (new.freq # 0 => new.used > 0)
    BY <2>2, <2>5, <2>6
  <2> QED
    BY <1>4, <2>1, <2>4, <2>5, <2>7
<1>10. ASSUME NEW r \in RuleIds, update_rule_frequency(r) PROVE MadeInv' /\ CallsInv' /\ LimitInv'
  <2>1. PICK old, new : old = prules[r] /\ new = [old EXCEPT !.freq = old.freq + 1, !.used = paNow]
    OBVIOUS
  <2>2. r \in DOMAIN prules /\ prules' = [prules EXCEPT ![r] = new] /\ UNCHANGED <<creator, overlap, nextRule, stats>>
    <3>1. /\ r \in DOMAIN prules /\ UNCHANGED <<creator, overlap, nextRule, stats>>
          /\ prules' = [prules EXCEPT ![r] = [prules[r] EXCEPT !.freq = prules[r].freq + 1, !.used = paNow]]
      BY <1>10 DEF update_rule_frequency, trackVars
    <3> QED
      BY <2>1, <3>1
  <2>3. old \in PaRule
    BY <1>0, <2>1, <2>2
  <2>4. new = [[old EXCEPT !.freq = old.freq + 1] EXCEPT !.used = paNow]
    BY <2>1
  <2>5. PICK mid : mid = [old EXCEPT !.freq = old.freq + 1]
    OBVIOUS
  <2>6. mid \in PaRule /\ mid.auto = old.auto
    BY <2>3, <2>5 DEF PaRule
  <2>7. new \in PaRule /\ new.auto = mid.auto /\ new.used = paNow
    BY <1>0, <2>4, <2>5, <2>6 DEF PaRule
  <2>8. new.auto = prules[r].auto /\ new.used > 0
    BY <1>0, <2>1, <2>6, <2>7
  <2> QED
    BY <1>4, <2>2, <2>7, <2>8
<1>11. ASSUME NEW r \in RuleIds, delete_rule(r) PROVE MadeInv' /\ CallsInv' /\ LimitInv'
  BY <1>3, <1>11 DEF delete_rule, trackVars
<1>12. CASE CleanupBegin
  BY <1>3, <1>12 DEF CleanupBegin, trackVars
<1>13. CASE CleanupOne
  BY <1>3, <1>13 DEF CleanupOne, trackVars
<1>14. ASSUME NEW r \in RuleIds, add_rule(r) \/ remove_rule(r) \/ ExecuteBegin(r) PROVE MadeInv' /\ CallsInv' /\ LimitInv'
  BY <1>2, <1>14 DEF add_rule, remove_rule, ExecuteBegin, trackVars
<1>15. CASE ExecuteEnd
  BY <1>2, <1>15 DEF ExecuteEnd, trackVars
<1>16. CASE UNCHANGED paVars
  BY <1>2, <1>16 DEF paVars, manageVars
<1>17. ASSUME NEW c \in Creators, AutoCreateBegin(c) \/ AutoCreateOne(c) PROVE MadeInv' /\ CallsInv' /\ LimitInv'
  BY <1>17, CreateBegins, CreatesOne
<1> QED
  BY <1>5, <1>6, <1>7, <1>8, <1>9, <1>10, <1>11, <1>12, <1>13, <1>14, <1>15, <1>16, <1>17 DEF ManageNext, RunNext, MakeRules

\* The rule that runs is the scheduler's, or was removed meanwhile.
AggInv ==
  /\ exec # <<>> => exec[1] \in DOMAIN srules \cup raced
  /\ agg \ DOMAIN srules \subseteq raced

\* The aggregated data through any step.
LEMMA AggStep ==
  ASSUME AggInv, [ManageNext \/ RunNext]_paVars
  PROVE  AggInv'
<1>1. ASSUME UNCHANGED runVars PROVE AggInv'
  BY <1>1 DEF AggInv, runVars
<1>2. ASSUME NEW r \in RuleIds, add_rule(r) PROVE AggInv'
  <2>1. DOMAIN srules' = DOMAIN srules \cup {r} /\ UNCHANGED <<agg, exec, raced>>
    BY <1>2 DEF add_rule, With
  <2> QED
    BY <2>1 DEF AggInv
<1>3. ASSUME NEW r \in RuleIds, remove_rule(r) PROVE AggInv'
  <2>1. /\ DOMAIN srules' = DOMAIN srules \ {r} /\ agg' = agg \ {r} /\ exec' = exec
        /\ raced' = IF exec # <<>> /\ exec[1] = r THEN raced \cup {r} ELSE raced
    BY <1>3 DEF remove_rule, Without
  <2> QED
    BY <2>1 DEF AggInv
<1>4. ASSUME NEW r \in RuleIds, ExecuteBegin(r) PROVE AggInv'
  <2>1. r \in DOMAIN srules /\ exec' = <<r, srules[r].expr>> /\ UNCHANGED <<srules, agg, raced>>
    BY <1>4 DEF ExecuteBegin
  <2> QED
    BY <2>1 DEF AggInv
<1>5. CASE ExecuteEnd
  <2>1. exec # <<>> /\ agg' \subseteq agg \cup {exec[1]} /\ exec' = <<>> /\ UNCHANGED <<srules, raced>>
    BY <1>5 DEF ExecuteEnd
  <2> QED
    BY <2>1 DEF AggInv
<1>6. CASE PaTick \/ cleanup_expired \/ CleanupBegin \/ CleanupOne
  BY <1>1, <1>6 DEF PaTick, cleanup_expired, CleanupBegin, CleanupOne
<1>7. ASSUME NEW q \in PQueries, record_query(q) \/ create_rule(q) PROVE AggInv'
  BY <1>1, <1>7 DEF record_query, create_rule
<1>8. ASSUME NEW c \in Creators, AutoCreateBegin(c) \/ AutoCreateOne(c) PROVE AggInv'
  BY <1>1, <1>8 DEF AutoCreateBegin, AutoCreateOne
<1>9. ASSUME NEW r \in RuleIds, delete_rule(r) \/ update_rule_frequency(r) \/ SetStatus(r, "Inactive") PROVE AggInv'
  BY <1>1, <1>9 DEF delete_rule, update_rule_frequency, SetStatus
<1>10. CASE UNCHANGED paVars
  BY <1>1, <1>10 DEF paVars, runVars
<1> QED
  BY <1>2, <1>3, <1>4, <1>5, <1>6, <1>7, <1>8, <1>9, <1>10 DEF ManageNext, RunNext, MakeRules

\* Nothing is recorded, made or run at the start.
LEMMA PaStart ==
  ASSUME PaInit
  PROVE  FreqInv /\ MadeInv /\ CallsInv /\ LimitInv /\ AggInv
<1>1. /\ stats = <<>> /\ askedAt = [n \in Normals |-> <<>>] /\ dropped = {} /\ prules = <<>> /\ nextRule = 1
      /\ creator = [c \in Creators |-> Idle] /\ exec = <<>> /\ agg = {} /\ paNow = 1
  BY DEF PaInit
<1>2. DOMAIN stats = {} /\ DOMAIN prules = {} /\ \A T : <<>> \in Seq(T)
  BY <1>1
<1>3. FreqInv
  <2>1. askedAt \in [Normals -> Seq(Nat)]
    BY <1>1, <1>2
  <2>2. stats \in [DOMAIN stats -> Seq(Nat)]
    BY <1>1
  <2>3. ASSUME NEW n \in Normals PROVE Complete(Tracked(n), askedAt[n], paNow)
    BY <1>1, <1>2, <2>3 DEF Complete, Tracked
  <2> QED
    BY <1>1, <1>2, <2>1, <2>2, <2>3 DEF FreqInv
<1>4. MadeInv
  BY <1>1, <1>2 DEF MadeInv
<1>5. Idle \in PaCreator /\ Idle.pc = "idle"
  BY <1>2 DEF Idle, PaCreator
<1>6. CallsInv
  BY <1>1, <1>2, <1>5, FS_EmptySet DEF CallsInv
<1>7. Autos = {} /\ Cardinality(Autos) = 0
  <2>1. Autos = {}
    BY <1>2 DEF Autos
  <2> QED
    BY <2>1, FS_EmptySet
<1>8. LimitInv
  <2>1. \A c \in Creators : creator[c].pc # "create"
    BY <1>1, <1>5
  <2>2. MaxAuto \in Nat
    BY PreAggAssumption
  <2> QED
    BY <1>7, <2>1, <2>2 DEF LimitInv
<1>9. AggInv
  BY <1>1 DEF AggInv
<1> QED
  BY <1>3, <1>4, <1>6, <1>8, <1>9

\* A query's frequency is what the history has in the window.
LEMMA FreqExact ==
  ASSUME FreqInv
  PROVE  FrequencyExact
<1> SUFFICES ASSUME NEW n \in DOMAIN stats
             PROVE  /\ Len(stats[n]) <= Len(Keep(askedAt[n], Within(askedAt[n][Len(askedAt[n])])))
                    /\ n \notin dropped => Len(stats[n]) >= Len(Keep(askedAt[n], Within(paNow)))
  BY DEF FrequencyExact
<1>1. PICK f, a : f = stats[n] /\ a = askedAt[n]
  OBVIOUS
<1>2. n \in Normals /\ f \in Seq(Nat) /\ a \in Seq(Nat) /\ paNow \in Int /\ Known(f, a, paNow)
  BY <1>1 DEF FreqInv
<1>3. PICK l : l = a[Len(a)]
  OBVIOUS
<1>4. a # <<>> /\ Keep(f, Within(l)) = f /\ \A b \in Int : Len(Keep(f, Within(b))) <= Len(Keep(a, Within(b)))
  BY <1>2, <1>3 DEF Known
<1>5. l \in Int
  <2>1. a \in Seq(Nat) /\ a # <<>>
    BY <1>2, <1>4
  <2>2. a[Len(a)] \in Nat
    BY <2>1
  <2> QED
    BY <1>3, <2>2
<1>6. Len(f) <= Len(Keep(a, Within(l)))
  BY <1>4, <1>5
<1>7. ASSUME n \notin dropped PROVE Len(f) >= Len(Keep(a, Within(paNow)))
  <2>1. Tracked(n) = f
    BY <1>1 DEF Tracked
  <2>2. Complete(f, a, paNow)
    BY <1>1, <1>2, <1>7, <2>1 DEF FreqInv
  <2>3. Keep(f, Within(paNow)) = Keep(a, Within(paNow))
    BY <1>2, <2>2 DEF Complete
  <2>4. Keep(f, Within(paNow)) \in Seq(Nat) /\ Len(Keep(f, Within(paNow))) <= Len(f)
    BY <1>2, KeepElements
  <2> QED
    BY <1>2, <2>3, <2>4
<1> QED
  BY <1>1, <1>3, <1>6, <1>7

\* However the callers of the tracker, the manager and the scheduler overlap, a
\* frequency is what was asked in the window, automatic rules pass their limit
\* only by an overlap of two callers, data outlives its rule only by a race with
\* its execution, and a query is routed only to a rule of its own form that was
\* used before (record_query, auto_create_rules, execute_task, route).
THEOREM PreAggSoundHolds == PaSpec => []PreAggSound
<1> DEFINE Inv == FreqInv /\ MadeInv /\ CallsInv /\ LimitInv /\ AggInv
<1>1. PaInit => Inv
  BY PaStart
<1>2. Inv /\ [ManageNext \/ RunNext]_paVars => Inv'
  <2> SUFFICES ASSUME FreqInv, MadeInv, CallsInv, LimitInv, AggInv, [ManageNext \/ RunNext]_paVars
               PROVE  FreqInv' /\ (MadeInv' /\ CallsInv' /\ LimitInv') /\ AggInv'
    OBVIOUS
  <2> QED
    BY FreqStep, MadeStep, AggStep
<1>3. Inv => PreAggSound
  <2> SUFFICES ASSUME FreqInv, MadeInv, LimitInv, AggInv
               PROVE  FrequencyExact /\ AutoRulesBounded /\ OrphansNeedRace /\ RoutedWasUsed
    BY DEF PreAggSound
  <2>1. AutoRulesBounded
    BY DEF AutoRulesBounded, LimitInv
  <2>2. OrphansNeedRace
    BY DEF OrphansNeedRace, AggInv
  <2>3. ASSUME NEW q \in PQueries, NEW r \in route(q)
        PROVE  normalize_query(prules[r].expr) = normalize_query(q) /\ prules[r].used > 0
    <3>1. r \in MatchingRules(q) /\ calculate_match_score(prules[r]) > 0
      BY <2>3 DEF route, select_best_match
    <3>2. r \in DOMAIN prules /\ normalize_query(prules[r].expr) = normalize_query(q)
      BY <3>1 DEF MatchingRules
    <3>3. prules[r].freq # 0
      BY <3>1 DEF calculate_match_score
    <3> QED
      BY <3>2, <3>3 DEF MadeInv
  <2>4. RoutedWasUsed
    BY <2>3 DEF RoutedWasUsed
  <2> QED
    BY <2>1, <2>2, <2>4, FreqExact
<1> QED
  BY <1>1, <1>2, <1>3, PTL DEF PaSpec
=============================================================================
