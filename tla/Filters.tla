------------------------------- MODULE Filters -------------------------------
(***************************************************************************)
(* Vec::retain and Iterator::filter: the elements of a sequence that belong  *)
(* to a set, in their order.  It is SelectSeq with a set for the test, so    *)
(* that what it keeps can be proved.                                         *)
(***************************************************************************)
EXTENDS Integers, Sequences, FiniteSets

\* What is kept of the first i elements, for every i.
KeptUpTo(s, S) ==
  LET F[i \in 0..Len(s)] ==
        IF i = 0 THEN <<>> ELSE IF s[i] \in S THEN Append(F[i-1], s[i]) ELSE F[i-1]
  IN  F
Keep(s, S) == KeptUpTo(s, S)[Len(s)]

\* How often x is in s.
Count(s, x) == Len(Keep(s, {x}))
=============================================================================
