----------------------------- MODULE DurableLog -----------------------------
(***************************************************************************)
(* What a store with a write-ahead log promises its callers, without        *)
(* threads, batches, blocks or crashes: the log grows by the samples of one  *)
(* series at a time and loses nothing; what the store holds, in memory or in *)
(* blocks, may come and go but is always a part of the log; and a call is    *)
(* acknowledged, in a step of its own, when the log has its samples.         *)
(* A store without a log is one whose log holds everything from the start.   *)
(***************************************************************************)
CONSTANTS Series, Samples

VARIABLES
    logged, \* samples in the log
    held,   \* samples a query or a block reader can find
    acked   \* samples of calls that returned Ok

vars == <<logged, held, acked>>

Init == logged \in {{}, Series \X Samples} /\ held = {} /\ acked = {}

\* An entry of one series is appended.
Append ==
    /\ logged \subseteq logged'
    /\ \E s \in Series : \A p \in logged' \ logged : p[1] = s
    /\ UNCHANGED <<held, acked>>

\* The store takes samples in, or loses some.
Hold ==
    /\ held' \subseteq logged
    /\ UNCHANGED <<logged, acked>>

\* A call returns.
Ack ==
    /\ acked \subseteq acked'
    /\ acked' \subseteq logged
    /\ UNCHANGED <<logged, held>>

Next == Append \/ Hold \/ Ack

Spec == Init /\ [][Next]_vars
=============================================================================
