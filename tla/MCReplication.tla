--------------------------- MODULE MCReplication ---------------------------
\* A small instance of Replication.
EXTENDS Replication

CONSTANTS w1, w2, s1, s2, f1, f2

\* Two writes, of the same shard or of different ones, with both followers.
TwoCalls ==
    {[write |-> ws[1], shard |-> ws[2], targets |-> <<f1, f2>>] : ws \in {<<w1, s1>>, <<w2, s1>>, <<w2, s2>>}}
=============================================================================
