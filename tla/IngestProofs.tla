--------------------------- MODULE IngestProofs ---------------------------
(***************************************************************************)
(* Proofs about Ingest for any number of writers, series, samples and      *)
(* batches, any capacity and threshold, any number of failing file         *)
(* operations and crashes.                                                 *)
(***************************************************************************)
EXTENDS Ingest, TLAPS, FiniteSetTheorems, SequenceTheorems

(* Sequences of items.                                                     *)

\* The tail of a non-empty batch is a batch, and its head an item.
LEMMA BatchParts ==
    ASSUME NEW b \in Seq(Item), b # <<>>
    PROVE  /\ Head(b) \in Item
           /\ Tail(b) \in Seq(Item)
           /\ Len(b) \in Nat \ {0}
           /\ Len(b) > 1 <=> Tail(b) # <<>>
<1>1. Len(b) \in Nat \ {0}
  BY EmptySeq
<1>2. Head(b) \in Item /\ Tail(b) \in Seq(Item) /\ Len(Tail(b)) = Len(b) - 1
  BY HeadTailProperties
<1>3. Tail(b) # <<>> => Len(Tail(b)) \in Nat \ {0}
  BY <1>2, EmptySeq
<1>4. Tail(b) = <<>> => Len(Tail(b)) = 0
  BY EmptySeq
<1> QED BY <1>1, <1>2, <1>3, <1>4

\* The points of a batch are those of its first item and of the rest: what
\* the loop of write_batch has left after one item.
LEMMA BatchPointsSplit ==
    ASSUME NEW b \in Seq(Item), b # <<>>
    PROVE  BatchPoints(b) \subseteq ItemPoints(Head(b)) \cup BatchPoints(Tail(b))
<1> SUFFICES ASSUME NEW i \in 1..Len(b), NEW p \in ItemPoints(b[i])
             PROVE  p \in ItemPoints(Head(b)) \cup BatchPoints(Tail(b))
  BY DEF BatchPoints
<1>1. CASE i = 1
  BY <1>1
<1>2. CASE i # 1
  <2>1. i - 1 \in 1..Len(Tail(b)) /\ b[i] = Tail(b)[i - 1]
    BY <1>2
  <2> QED BY <2>1 DEF BatchPoints
<1> QED BY <1>1, <1>2

\* The points of a batch are points.
LEMMA BatchPointsType ==
    ASSUME NEW b \in Seq(Item)
    PROVE  BatchPoints(b) \subseteq Point /\ BatchSamples(b) \subseteq Samples
<1>1. \A i \in 1..Len(b) : b[i] \in Item
  OBVIOUS
<1>2. \A i \in 1..Len(b) : ItemPoints(b[i]) \subseteq Point /\ b[i].samples \subseteq Samples
  BY <1>1 DEF ItemPoints, Item, Point
<1> QED BY <1>2 DEF BatchPoints, BatchSamples

\* A batch of no items has no samples.
LEMMA EmptyBatchPoints == BatchPoints(<<>>) = {}
  BY DEF BatchPoints

-----------------------------------------------------------------------------

\* Type correctness, together with the shape of the calls in progress.
TypeInv == TypeOK /\ BatchShape

\* The initial state is well typed.
LEMMA TypeInit == Init => TypeInv
<1> SUFFICES ASSUME Init PROVE TypeInv
  OBVIOUS
<1>1. /\ <<>> \in Seq(SUBSET Point) /\ <<>> \in Seq(Item)
      /\ <<>> \in Seq({"Flush", "Shutdown"})
  BY EmptySeq
<1>2. TypeOK
  BY <1>1 DEF Init, TypeOK, WriterPc, FlushPc
<1>3. BatchShape
  BY DEF Init, BatchShape
<1> QED BY <1>2, <1>3 DEF TypeInv

\* Every step keeps the types, one step of the proof per action.
LEMMA TypeNext == TypeInv /\ [Next]_vars => TypeInv'
<1> SUFFICES ASSUME TypeInv, [Next]_vars PROVE TypeInv'
  OBVIOUS
<1> USE DEF TypeInv, TypeOK, BatchShape, WriterPc, FlushPc
<1>1. ASSUME NEW w \in Writers, Call(w) PROVE TypeInv'
  <2>1. PICK b \in Batches :
             /\ submitted' = submitted \cup BatchSamples(b)
             /\ batch' = [batch EXCEPT ![w] = b]
             /\ req' = [req EXCEPT ![w] = BatchPoints(b)]
    BY <1>1 DEF Call
  <2>2. b \in Seq(Item) /\ b # <<>>
    BY BatchesAssumption
  <2>3. BatchPoints(b) \subseteq Point /\ BatchSamples(b) \subseteq Samples
    BY <2>2, BatchPointsType
  <2> QED BY <1>1, <2>1, <2>2, <2>3 DEF Call, store, flusher
<1>2. ASSUME NEW w \in Writers, Lookup(w) PROVE TypeInv'
  BY <1>2 DEF Lookup, store, flusher
<1>3. ASSUME NEW w \in Writers, Create(w) PROVE TypeInv'
  <2>1. Head(batch[w]).series \in Series
    BY <1>3, BatchParts DEF Create, Item
  <2> QED BY <1>3, <2>1 DEF Create, flusher
<1>4. ASSUME NEW w \in Writers, StorageFull(w) PROVE TypeInv'
  BY <1>4 DEF StorageFull, Fail, store, flusher
<1>5. ASSUME NEW w \in Writers, Log(w) PROVE TypeInv'
  <2> DEFINE it == Head(batch[w])
  <2>1. it \in Item /\ Tail(batch[w]) \in Seq(Item)
        /\ (Len(batch[w]) > 1 <=> Tail(batch[w]) # <<>>) /\ batch[w] # <<>>
    BY <1>5, BatchParts DEF Log
  <2>2. ItemPoints(it) \subseteq Point
    BY <2>1 DEF ItemPoints, Item, Point
  <2>3. Cardinality(it.samples) \in Nat
    BY <2>1, SamplesAssumption, FS_Subset, FS_CardinalityType DEF Item
  <2>4. wal' \subseteq Point
    BY <1>5, <2>2 DEF Log
  <2>5. /\ todo' \in [Writers -> SUBSET Samples]
        /\ count' \in [Writers -> Nat]
        /\ wpc' \in [Writers -> WriterPc]
        /\ batch' \in [Writers -> Seq(Item)]
    <3>1. it.samples \in SUBSET Samples
      BY <2>1 DEF Item
    <3>2. count' = [count EXCEPT ![w] = @ + Cardinality(it.samples)]
      BY <1>5 DEF Log, StartAdding
    <3>3. count' \in [Writers -> Nat]
      BY <2>3, <3>2
    <3> QED BY <1>5, <2>1, <3>1, <3>3 DEF Log, StartAdding, AfterItem
  <2>6. BatchShape'
    BY <1>5, <2>1 DEF Log, StartAdding, AfterItem
  <2> QED BY <1>5, <2>4, <2>5, <2>6 DEF Log, flusher
<1>6. ASSUME NEW w \in Writers, LogFails(w) PROVE TypeInv'
  BY <1>6 DEF LogFails, Fail, store, flusher
<1>7. ASSUME NEW w \in Writers, AddSample(w) PROVE TypeInv'
  <2>1. PICK x \in todo[w] :
             /\ head' = head \cup {<<Head(batch[w]).series, x>>}
             /\ todo' = [todo EXCEPT ![w] = @ \ {x}]
             /\ wpc' = [wpc EXCEPT ![w] = AfterItem(batch[w], todo[w] \ {x})]
             /\ batch' = [batch EXCEPT ![w] = IF todo[w] = {x} THEN Tail(@) ELSE @]
    BY <1>7 DEF AddSample
  <2>2. /\ Head(batch[w]) \in Item /\ Tail(batch[w]) \in Seq(Item)
        /\ (Len(batch[w]) > 1 <=> Tail(batch[w]) # <<>>) /\ batch[w] # <<>>
    BY <1>7, BatchParts DEF AddSample
  <2>3. head' \subseteq Point
    BY <2>1, <2>2 DEF Item, Point
  <2>4. (todo[w] = {x}) <=> (todo[w] \ {x} = {})
    OBVIOUS
  <2>5. /\ todo' \in [Writers -> SUBSET Samples]
        /\ wpc' \in [Writers -> WriterPc]
        /\ batch' \in [Writers -> Seq(Item)]
    BY <2>1, <2>2 DEF AfterItem
  <2>6. BatchShape'
    BY <1>7, <2>1, <2>2, <2>4 DEF AfterItem, AddSample
  <2> QED BY <1>7, <2>3, <2>5, <2>6 DEF AddSample, flusher
<1>8. ASSUME NEW w \in Writers, SeriesNotFound(w) PROVE TypeInv'
  BY <1>8 DEF SeriesNotFound, Fail, store, flusher
<1>9. ASSUME NEW w \in Writers, Return(w) PROVE TypeInv'
  BY <1>9 DEF Return, flusher
<1>10. ASSUME NEW c \in {"Flush", "Shutdown"}, Send(c) PROVE TypeInv'
  <2>1. cmds' \in Seq({"Flush", "Shutdown"})
    BY <1>10, AppendProperties DEF Send
  <2> QED BY <1>10, <2>1 DEF Send, store, writer
<1>11. CASE Tick
  BY <1>11 DEF Tick, store, writer
<1>12. CASE Recv
  BY <1>12 DEF Recv, store, writer
<1>13. CASE CheckSkips
  BY <1>13 DEF CheckSkips, FlushReturns, store, writer
<1>14. CASE Snapshot
  BY <1>14 DEF Snapshot, store, writer
<1>15. CASE ReadSeries
  BY <1>15 DEF ReadSeries, store, writer
<1>16. CASE RemoveBlocksDir
  BY <1>16 DEF RemoveBlocksDir, FlushReturns, store, writer
<1>17. CASE WriteBlock
  BY <1>17 DEF WriteBlock, store, writer
<1>18. CASE FlushFails
  BY <1>18 DEF FlushFails, FlushReturns, store, writer
<1>19. CASE SyncWal
  BY <1>19 DEF SyncWal, store, writer
<1>20. CASE RemoveSeries
  BY <1>20 DEF RemoveSeries, FlushReturns, writer
<1>21. CASE Restart
  <2>1. <<>> \in Seq(Item) /\ <<>> \in Seq({"Flush", "Shutdown"})
    BY EmptySeq
  <2>2. TypeOK'
    <3>1. batch' \in [Writers -> Seq(Item)] /\ cmds' \in Seq({"Flush", "Shutdown"})
      BY <1>21, <2>1 DEF Restart
    <3>2. /\ wpc' \in [Writers -> WriterPc]
          /\ todo' \in [Writers -> SUBSET Samples]
          /\ count' \in [Writers -> Nat]
          /\ req' \in [Writers -> SUBSET Point]
      BY <1>21 DEF Restart
    <3>3. restarts' \in Nat
      BY <1>21 DEF Restart
    <3> QED BY <1>21, <3>1, <3>2, <3>3 DEF Restart
  <2>3. BatchShape'
    BY <1>21 DEF Restart
  <2> QED BY <2>2, <2>3
<1>22. CASE UNCHANGED vars
  BY <1>22 DEF vars, store, writer, flusher
<1> QED
  BY <1>1, <1>2, <1>3, <1>4, <1>5, <1>6, <1>7, <1>8, <1>9, <1>10, <1>11, <1>12,
     <1>13, <1>14, <1>15, <1>16, <1>17, <1>18, <1>19, <1>20, <1>21, <1>22
     DEF Next, WriterStep, FlushStep, TriggerFlush, Shutdown

\* Every variable of the write path and of the flush task keeps its type.
THEOREM TypeCorrect == Spec => []TypeOK
<1>1. Spec => []TypeInv
  BY TypeInit, TypeNext, PTL DEF Spec
<1> QED BY <1>1, PTL DEF TypeInv

-----------------------------------------------------------------------------

(* The write-ahead rule.  AddingLogged makes it inductive: what AddSample   *)
(* puts into the head belongs to an item that Log has put into the log.    *)

AheadInv == TypeInv /\ WriteAhead /\ AddingLogged

\* Nothing is stored at the start.
LEMMA AheadInit == Init => AheadInv
<1> SUFFICES ASSUME Init PROVE WriteAhead /\ AddingLogged
  BY TypeInit DEF AheadInv
<1> QED BY DEF Init, WriteAhead, AddingLogged, Persisted

\* No step puts a sample into the head, a copy or a block before it is logged.
LEMMA AheadNext == AheadInv /\ [Next]_vars => AheadInv'
<1> SUFFICES ASSUME AheadInv, [Next]_vars, TypeInv', WalEnabled
             PROVE  WriteAhead' /\ AddingLogged'
  BY TypeNext DEF AheadInv, WriteAhead, AddingLogged
<1> USE DEF AheadInv, WriteAhead, AddingLogged, Persisted
<1>1. ASSUME NEW w \in Writers, Call(w) PROVE WriteAhead' /\ AddingLogged'
  BY <1>1 DEF Call, store, flusher, TypeInv, TypeOK
<1>2. ASSUME NEW w \in Writers, Lookup(w) PROVE WriteAhead' /\ AddingLogged'
  BY <1>2 DEF Lookup, store, flusher, TypeInv, TypeOK
<1>3. ASSUME NEW w \in Writers, Create(w) PROVE WriteAhead' /\ AddingLogged'
  BY <1>3 DEF Create, flusher, TypeInv, TypeOK
<1>4. ASSUME NEW w \in Writers, Fail(w),
             UNCHANGED <<store, blocks, flusher>>
      PROVE  WriteAhead' /\ AddingLogged'
  BY <1>4 DEF Fail, store, flusher, TypeInv, TypeOK
<1>5. ASSUME NEW w \in Writers, Log(w) PROVE WriteAhead' /\ AddingLogged'
  <2>1. wal' = wal \cup ItemPoints(Head(batch[w]))
    BY <1>5 DEF Log
  <2>2. WriteAhead'
    BY <1>5, <2>1 DEF Log, flusher
  <2>3. ASSUME NEW v \in Writers, wpc'[v] = "add"
        PROVE  /\ todo'[v] \subseteq Head(batch'[v]).samples
               /\ ItemPoints(Head(batch'[v])) \subseteq wal'
    <3>1. CASE v = w
      <4>1. Head(batch[w]).samples # {}
        BY <1>5, <2>3, <3>1 DEF Log, StartAdding, AfterItem, TypeInv, TypeOK
      <4> QED BY <1>5, <2>1, <3>1, <4>1 DEF Log, StartAdding, TypeInv, TypeOK
    <3>2. CASE v # w
      BY <1>5, <2>1, <2>3, <3>2 DEF Log, StartAdding, TypeInv, TypeOK
    <3> QED BY <3>1, <3>2
  <2> QED BY <2>2, <2>3
<1>6. ASSUME NEW w \in Writers, AddSample(w) PROVE WriteAhead' /\ AddingLogged'
  <2>1. PICK x \in todo[w] :
             /\ head' = head \cup {<<Head(batch[w]).series, x>>}
             /\ todo' = [todo EXCEPT ![w] = @ \ {x}]
             /\ wpc' = [wpc EXCEPT ![w] = AfterItem(batch[w], todo[w] \ {x})]
             /\ batch' = [batch EXCEPT ![w] = IF todo[w] = {x} THEN Tail(@) ELSE @]
    BY <1>6 DEF AddSample
  <2>2. <<Head(batch[w]).series, x>> \in wal
    BY <1>6, <2>1 DEF AddSample, ItemPoints
  <2>3. WriteAhead'
    BY <1>6, <2>1, <2>2 DEF AddSample, flusher
  <2>4. ASSUME NEW v \in Writers, wpc'[v] = "add"
        PROVE  /\ todo'[v] \subseteq Head(batch'[v]).samples
               /\ ItemPoints(Head(batch'[v])) \subseteq wal'
    <3>1. CASE v = w
      <4>1. todo[w] # {x}
        BY <1>6, <2>1, <2>4, <3>1 DEF AfterItem, TypeInv, TypeOK
      <4> QED BY <1>6, <2>1, <3>1, <4>1 DEF AddSample, TypeInv, TypeOK
    <3>2. CASE v # w
      BY <1>6, <2>1, <2>4, <3>2 DEF AddSample, TypeInv, TypeOK
    <3> QED BY <3>1, <3>2
  <2> QED BY <2>3, <2>4
<1>7. ASSUME NEW w \in Writers, Return(w) PROVE WriteAhead' /\ AddingLogged'
  BY <1>7 DEF Return, flusher, TypeInv, TypeOK
<1>8. ASSUME UNCHANGED <<head, wal, blocks, writer>>, buf' \subseteq buf \cup head
      PROVE  WriteAhead' /\ AddingLogged'
  BY <1>8 DEF writer
<1>9. CASE RemoveBlocksDir
  BY <1>9 DEF RemoveBlocksDir, FlushReturns, store, writer
<1>10. CASE WriteBlock
  BY <1>10 DEF WriteBlock, store, writer, TypeInv, TypeOK
<1>11. CASE RemoveSeries
  BY <1>11 DEF RemoveSeries, FlushReturns, writer
<1>12. CASE Restart
  BY <1>12 DEF Restart
<1>13. CASE TriggerFlush \/ Shutdown \/ Tick \/ Recv \/ CheckSkips \/ Snapshot
            \/ ReadSeries \/ FlushFails \/ SyncWal \/ UNCHANGED vars
  BY <1>8, <1>13 DEF TriggerFlush, Shutdown, Send, Tick, Recv, CheckSkips,
     Snapshot, ReadSeries, FlushFails, SyncWal, FlushReturns, vars, store, flusher
<1>14. ASSUME NEW w \in Writers, StorageFull(w) \/ LogFails(w) \/ SeriesNotFound(w)
       PROVE  WriteAhead' /\ AddingLogged'
  BY <1>4, <1>14 DEF StorageFull, LogFails, SeriesNotFound
<1> QED
  BY <1>1, <1>2, <1>3, <1>5, <1>6, <1>7, <1>9, <1>10, <1>11, <1>12, <1>13, <1>14
     DEF Next, WriterStep, FlushStep

\* Nothing reaches the head, a flush or a block before it is in the log.
THEOREM WriteAheadHolds == Spec => []WriteAhead
<1>1. Spec => []AheadInv
  BY AheadInit, AheadNext, PTL DEF Spec
<1> QED BY <1>1, PTL DEF AheadInv

-----------------------------------------------------------------------------

(* An acknowledgement.  Until a call returns, what it carries is in the log *)
(* or in the items it has not finished; when it returns there are none.    *)

AckInv == AheadInv /\ AckedLogged /\ LoggedOrPending

\* No call has returned at the start.
LEMMA AckInit == Init => AckInv
<1> SUFFICES ASSUME Init PROVE AckedLogged /\ LoggedOrPending
  BY AheadInit DEF AckInv
<1> QED BY DEF Init, AckedLogged, LoggedOrPending

\* No step acknowledges a call before its batch is logged.
LEMMA AckNext == AckInv /\ [Next]_vars => AckInv'
<1> SUFFICES ASSUME AckInv, [Next]_vars, AheadInv', WalEnabled
             PROVE  AckedLogged' /\ LoggedOrPending'
  BY AheadNext DEF AckInv, AckedLogged, LoggedOrPending
<1>t. TypeOK /\ BatchShape /\ AddingLogged
  BY DEF AckInv, AheadInv, TypeInv
<1> USE DEF AckInv, AckedLogged, LoggedOrPending
<1>1. ASSUME NEW w \in Writers, Call(w) PROVE AckedLogged' /\ LoggedOrPending'
  BY <1>1, <1>t DEF Call, store, TypeOK
<1>2. ASSUME NEW w \in Writers, Lookup(w) \/ Create(w)
      PROVE  AckedLogged' /\ LoggedOrPending'
  BY <1>2 DEF Lookup, Create, store
<1>3. ASSUME NEW w \in Writers, Fail(w), wal' = wal
      PROVE  AckedLogged' /\ LoggedOrPending'
  BY <1>3, <1>t DEF Fail, TypeOK
<1>4. ASSUME NEW w \in Writers, NEW t,
             batch[w] # <<>>, ItemPoints(Head(batch[w])) \subseteq wal', wal \subseteq wal',
             batch' = [batch EXCEPT ![w] = IF t THEN Tail(@) ELSE @],
             UNCHANGED <<req, acked>>
      PROVE  AckedLogged' /\ LoggedOrPending'
  <2>1. ASSUME NEW v \in Writers PROVE req'[v] \subseteq wal' \cup BatchPoints(batch'[v])
    <3>1. CASE v = w /\ t
      <4>1. batch[w] \in Seq(Item) /\ batch'[w] = Tail(batch[w])
        BY <1>4, <1>t, <3>1 DEF TypeOK
      <4>2. BatchPoints(batch[w]) \subseteq ItemPoints(Head(batch[w])) \cup BatchPoints(Tail(batch[w]))
        BY <1>4, <4>1, BatchPointsSplit
      <4> QED BY <1>4, <3>1, <4>1, <4>2
    <3>2. CASE ~(v = w /\ t)
      <4>1. batch'[v] = batch[v]
        BY <1>4, <1>t, <3>2 DEF TypeOK
      <4> QED BY <1>4, <4>1
    <3> QED BY <3>1, <3>2
  <2> QED BY <1>4, <2>1
<1>5. ASSUME NEW w \in Writers, Log(w) PROVE AckedLogged' /\ LoggedOrPending'
  <2>1. batch[w] # <<>>
    BY <1>5, <1>t DEF Log, BatchShape
  <2>2. wal' = wal \cup ItemPoints(Head(batch[w]))
    BY <1>5 DEF Log
  <2> QED BY <1>4, <1>5, <2>1, <2>2 DEF Log, StartAdding
<1>6. ASSUME NEW w \in Writers, AddSample(w) PROVE AckedLogged' /\ LoggedOrPending'
  <2>1. batch[w] # <<>> /\ ItemPoints(Head(batch[w])) \subseteq wal
    BY <1>6, <1>t DEF AddSample, BatchShape, AddingLogged
  <2> QED BY <1>4, <1>6, <2>1 DEF AddSample
<1>7. ASSUME NEW w \in Writers, Return(w) PROVE AckedLogged' /\ LoggedOrPending'
  <2>1. batch[w] = <<>>
    BY <1>7, <1>t DEF Return, BatchShape
  <2>2. req[w] \subseteq wal
    BY <2>1, EmptyBatchPoints
  <2> QED BY <1>7, <1>t, <2>2 DEF Return, TypeOK
<1>8. ASSUME wal' = wal, UNCHANGED writer PROVE AckedLogged' /\ LoggedOrPending'
  BY <1>8 DEF writer
<1>9. CASE Restart
  BY <1>9 DEF Restart
<1>10. CASE TriggerFlush \/ Shutdown \/ Tick \/ Recv \/ FlushStep \/ UNCHANGED vars
  BY <1>8, <1>10 DEF TriggerFlush, Shutdown, Send, Tick, Recv, FlushStep, CheckSkips,
     Snapshot, ReadSeries, RemoveBlocksDir, WriteBlock, FlushFails, SyncWal, RemoveSeries,
     vars, store
<1>11. ASSUME NEW w \in Writers, StorageFull(w) \/ LogFails(w) \/ SeriesNotFound(w)
       PROVE  AckedLogged' /\ LoggedOrPending'
  BY <1>3, <1>11 DEF StorageFull, LogFails, SeriesNotFound, store
<1> QED
  BY <1>1, <1>2, <1>5, <1>6, <1>7, <1>9, <1>10, <1>11 DEF Next, WriterStep

\* An acknowledged call is in the log with every sample of every item.
THEOREM AckedLoggedHolds == Spec => []AckedLogged
<1>1. Spec => []AckInv
  BY AckInit, AckNext, PTL DEF Spec
<1> QED BY <1>1, PTL DEF AckInv

\* What the log promises the head and the callers: nothing is stored, copied
\* or acknowledged that it does not hold (MemStore::write logs first).
THEOREM LoggedFirstHolds == Spec => []LoggedFirst
<1>1. Spec => []AckInv
  BY AckInit, AckNext, PTL DEF Spec
<1>2. AckInv => LoggedFirst
  BY DEF AckInv, AheadInv, TypeInv, LoggedFirst
<1> QED BY <1>1, <1>2, PTL

-----------------------------------------------------------------------------

(* The refinement.  The mapped log is wal, or everything without a log;     *)
(* the mapped store is the head and the blocks.                             *)

MappedLog  == IF WalEnabled THEN wal ELSE Point
MappedHeld == head \cup Persisted
HeldLogged == MappedHeld \subseteq MappedLog /\ acked \subseteq MappedLog

\* An initial state of the store is one of the durable log.
LEMMA PromiseInit == Init => Promise!Init
  BY DEF Init, Promise!Init, Persisted, Point

\* What the store holds, and what was acknowledged, is always logged.
LEMMA PromiseKept == AckInv => HeldLogged
<1> SUFFICES ASSUME AckInv
             PROVE  MappedHeld \subseteq MappedLog /\ acked \subseteq MappedLog
  BY DEF HeldLogged
<1>1. TypeOK /\ WriteAhead /\ AckedLogged
  BY DEF AckInv, AheadInv, TypeInv
<1>2. CASE WalEnabled
  BY <1>1, <1>2 DEF WriteAhead, AckedLogged, MappedHeld, MappedLog
<1>3. CASE ~WalEnabled
  <2>1. Persisted \subseteq Point
    BY <1>1 DEF TypeOK, Persisted
  <2> QED BY <1>1, <1>3, <2>1 DEF TypeOK, MappedHeld, MappedLog
<1> QED BY <1>2, <1>3

\* The same in the state after a step.
LEMMA PromiseKeptNext == AckInv' => HeldLogged'
  BY PromiseKept, PTL

\* Every step appends to the log, changes what is held, acknowledges, or
\* leaves all three alone.
LEMMA PromiseStep ==
    AckInv /\ AckInv' /\ [Next]_vars => [Promise!Next]_(Promise!vars)
<1> SUFFICES ASSUME AckInv, AckInv', [Next]_vars PROVE [Promise!Next]_(Promise!vars)
  OBVIOUS
<1>k. MappedHeld' \subseteq MappedLog' /\ acked' \subseteq MappedLog'
  BY PromiseKeptNext DEF HeldLogged
<1>1. ASSUME UNCHANGED <<wal, acked>> PROVE [Promise!Next]_(Promise!vars)
  <2>1. MappedLog' = MappedLog
    BY <1>1 DEF MappedLog
  <2> QED BY <1>1, <1>k, <2>1 DEF Promise!Next, Promise!Hold, MappedLog, MappedHeld
<1>2. ASSUME NEW w \in Writers, Log(w) PROVE [Promise!Next]_(Promise!vars)
  <2>1. Head(batch[w]).series \in Series
    <3>1. batch[w] \in Seq(Item) /\ batch[w] # <<>>
      BY <1>2 DEF Log, AckInv, AheadInv, TypeInv, TypeOK, BatchShape
    <3> QED BY <3>1, BatchParts DEF Item
  <2>2. /\ UNCHANGED <<head, blocks, acked>>
        /\ wal' = IF WalEnabled THEN wal \cup ItemPoints(Head(batch[w])) ELSE wal
    BY <1>2 DEF Log
  <2>3. \A p \in MappedLog' \ MappedLog : p[1] = Head(batch[w]).series
    BY <2>2 DEF MappedLog, ItemPoints
  <2>4. MappedLog \subseteq MappedLog' /\ MappedHeld' = MappedHeld
    BY <2>2 DEF MappedLog, MappedHeld, Persisted
  <2> QED BY <2>1, <2>2, <2>3, <2>4 DEF Promise!Next, Promise!Append, MappedLog, MappedHeld
<1>3. ASSUME NEW w \in Writers, Return(w) PROVE [Promise!Next]_(Promise!vars)
  <2>1. UNCHANGED <<head, blocks, wal>> /\ acked \subseteq acked'
    BY <1>3 DEF Return
  <2>2. MappedLog' = MappedLog /\ MappedHeld' = MappedHeld
    BY <2>1 DEF MappedLog, MappedHeld, Persisted
  <2> QED BY <1>k, <2>1, <2>2 DEF Promise!Next, Promise!Ack, MappedLog, MappedHeld
<1>4. ASSUME NEW w \in Writers,
             Call(w) \/ Lookup(w) \/ Create(w) \/ StorageFull(w) \/ LogFails(w)
               \/ AddSample(w) \/ SeriesNotFound(w)
      PROVE  [Promise!Next]_(Promise!vars)
  BY <1>1, <1>4 DEF Call, Lookup, Create, StorageFull, LogFails, AddSample,
     SeriesNotFound, Fail, store
<1>5. CASE TriggerFlush \/ Shutdown \/ Tick \/ Recv \/ FlushStep \/ Restart
           \/ UNCHANGED vars
  BY <1>1, <1>5 DEF TriggerFlush, Shutdown, Send, Tick, Recv, FlushStep, CheckSkips,
     Snapshot, ReadSeries, RemoveBlocksDir, WriteBlock, FlushFails, SyncWal,
     RemoveSeries, Restart, vars, store, writer
<1> QED
  BY <1>2, <1>3, <1>4, <1>5 DEF Next, WriterStep

\* The write path implements the durable log: whatever the writers and the
\* flush task interleave, whatever fails and whenever the process dies.
THEOREM ImplementsLogHolds == Spec => ImplementsLog
<1>1. Spec => []AckInv
  BY AckInit, AckNext, PTL DEF Spec
<1> QED BY <1>1, PromiseInit, PromiseStep, PTL DEF Spec, ImplementsLog, Promise!Spec

-----------------------------------------------------------------------------

(* The head block.                                                         *)

HeadInv == TypeInv /\ HeadIndexAgree /\ SeriesBound

\* The head and its index are empty at the start.
LEMMA HeadInit == Init => HeadInv
<1> SUFFICES ASSUME Init PROVE HeadIndexAgree /\ SeriesBound
  BY TypeInit DEF HeadInv
<1>1. Cardinality(series) = 0
  BY FS_EmptySet DEF Init
<1> QED BY <1>1, BoundsAssumption DEF Init, HeadIndexAgree, SeriesBound

\* No step lets the head and its index differ or grow past max_series.
LEMMA HeadNext == HeadInv /\ [Next]_vars => HeadInv'
<1> SUFFICES ASSUME HeadInv, [Next]_vars, TypeInv' PROVE HeadIndexAgree' /\ SeriesBound'
  BY TypeNext DEF HeadInv
<1>f. IsFiniteSet(series) /\ Cardinality(series) \in Nat
  BY SeriesAssumption, FS_Subset, FS_CardinalityType DEF HeadInv, TypeInv, TypeOK
<1> USE DEF HeadInv, HeadIndexAgree, SeriesBound
<1>1. ASSUME NEW w \in Writers, Create(w) PROVE HeadIndexAgree' /\ SeriesBound'
  <2>1. Cardinality(series') <= Cardinality(series) + 1
    <3>1. CASE Head(batch[w]).series \in series
      <4>1. series' = series
        BY <1>1, <3>1 DEF Create
      <4> QED BY <1>f, <4>1
    <3>2. CASE Head(batch[w]).series \notin series
      <4>1. series' = series \cup {Head(batch[w]).series}
        BY <1>1 DEF Create
      <4>2. Cardinality(series \cup {Head(batch[w]).series}) = Cardinality(series) + 1
        BY <1>f, <3>2, FS_AddElement
      <4> QED BY <1>f, <4>1, <4>2
    <3> QED BY <3>1, <3>2
  <2>2. Cardinality(series') \in Nat
    BY SeriesAssumption, FS_Subset, FS_CardinalityType DEF TypeInv, TypeOK
  <2>3. SeriesBound'
    BY <1>1, <1>f, <2>1, <2>2, BoundsAssumption DEF Create
  <2> QED BY <1>1, <2>3 DEF Create
<1>2. ASSUME NEW w \in Writers, AddSample(w) PROVE HeadIndexAgree' /\ SeriesBound'
  BY <1>2 DEF AddSample
<1>3. CASE RemoveSeries
  <2>1. SeriesBound'
    <3>1. Cardinality(series') <= Cardinality(series) /\ Cardinality(series') \in Nat
      BY <1>3, <1>f, FS_Subset, FS_CardinalityType DEF RemoveSeries
    <3> QED BY <1>f, <3>1, BoundsAssumption
  <2> QED BY <1>3, <2>1 DEF RemoveSeries
<1>4. CASE Restart
  BY <1>4, FS_EmptySet, BoundsAssumption DEF Restart
<1>5. ASSUME UNCHANGED <<head, series, index>> PROVE HeadIndexAgree' /\ SeriesBound'
  BY <1>5
<1>6. ASSUME NEW w \in Writers,
             Call(w) \/ Lookup(w) \/ StorageFull(w) \/ Log(w) \/ LogFails(w)
               \/ SeriesNotFound(w) \/ Return(w)
      PROVE  HeadIndexAgree' /\ SeriesBound'
  BY <1>5, <1>6 DEF Call, Lookup, StorageFull, Log, LogFails, SeriesNotFound, Return, store
<1>7. CASE TriggerFlush \/ Shutdown \/ Tick \/ Recv \/ CheckSkips \/ Snapshot
            \/ ReadSeries \/ RemoveBlocksDir \/ WriteBlock \/ FlushFails \/ SyncWal
            \/ UNCHANGED vars
  BY <1>5, <1>7 DEF TriggerFlush, Shutdown, Send, Tick, Recv, CheckSkips, Snapshot,
     ReadSeries, RemoveBlocksDir, WriteBlock, FlushFails, SyncWal, vars, store
<1> QED
  BY <1>1, <1>2, <1>3, <1>4, <1>6, <1>7 DEF Next, WriterStep, FlushStep

\* The head and its index name the same series, and no more than max_series.
THEOREM HeadHolds == Spec => []HeadSound
<1>1. Spec => []HeadInv
  BY HeadInit, HeadNext, PTL DEF Spec
<1>2. HeadInv => HeadSound
  BY DEF HeadInv, HeadSound
<1> QED BY <1>1, <1>2, PTL

-----------------------------------------------------------------------------

(* A flush.  Its copy is on disk before anything is removed for it.        *)

CopyInv == TypeInv /\ CopyOnDisk

\* The flush task holds no copy at the start.
LEMMA CopyInit == Init => CopyInv
  BY TypeInit DEF CopyInv, Init, CopyOnDisk

\* What the flush task is about to remove is on disk.
LEMMA CopyNext == CopyInv /\ [Next]_vars => CopyInv'
<1> SUFFICES ASSUME CopyInv, [Next]_vars PROVE CopyOnDisk'
  BY TypeNext DEF CopyInv
<1> USE DEF CopyInv, CopyOnDisk, Persisted
<1>1. ASSUME UNCHANGED <<blocks, flusher>> PROVE CopyOnDisk'
  BY <1>1 DEF flusher
<1>2. ASSUME NEW w \in Writers, Call(w) \/ WriterStep(w) PROVE CopyOnDisk'
  BY <1>1, <1>2 DEF Call, WriterStep, Lookup, Create, StorageFull, Log, LogFails,
     AddSample, SeriesNotFound, Return
<1>3. CASE TriggerFlush \/ Shutdown
  BY <1>3 DEF TriggerFlush, Shutdown, Send
<1>4. CASE WriteBlock
  <2>1. Len(blocks') = Len(blocks) + 1 /\ blocks'[Len(blocks) + 1] = buf
    BY <1>4, AppendProperties DEF WriteBlock, TypeInv, TypeOK
  <2>2. Len(blocks) + 1 \in 1..Len(blocks')
    BY <2>1, LenProperties DEF TypeInv, TypeOK
  <2> QED BY <1>4, <2>1, <2>2 DEF WriteBlock
<1>5. CASE SyncWal
  BY <1>5 DEF SyncWal
<1>6. CASE Tick \/ Recv \/ CheckSkips \/ Snapshot \/ ReadSeries \/ RemoveBlocksDir
           \/ FlushFails \/ RemoveSeries \/ Restart
  BY <1>6 DEF Tick, Recv, CheckSkips, Snapshot, ReadSeries, RemoveBlocksDir,
     FlushFails, RemoveSeries, FlushReturns, Restart
<1>7. CASE UNCHANGED vars
  BY <1>1, <1>7 DEF vars
<1> QED
  BY <1>2, <1>3, <1>4, <1>5, <1>6, <1>7 DEF Next, FlushStep

\* A step that takes samples out of the head takes out copied ones.
LEMMA RemovalStep ==
    ASSUME CopyInv, [Next]_vars, NEW p \in head \ head'
    PROVE  \/ p \in Persisted'
           \/ fpc = "remove" /\ p \notin buf
           \/ restarts' # restarts
<1>1. CASE RemoveSeries
  <2>1. buf \subseteq Persisted /\ blocks' = blocks /\ fpc = "remove"
    BY <1>1 DEF RemoveSeries, CopyInv, CopyOnDisk
  <2> QED BY <2>1 DEF Persisted
<1>2. CASE Restart
  BY <1>2 DEF Restart, CopyInv, TypeInv, TypeOK
<1>3. ASSUME head \subseteq head' PROVE FALSE
  BY <1>3
<1>4. CASE ~RemoveSeries /\ ~Restart
  BY <1>3, <1>4 DEF Next, WriterStep, FlushStep, Call, Lookup, Create, StorageFull,
     Log, LogFails, AddSample, SeriesNotFound, Return, TriggerFlush, Shutdown, Send,
     Tick, Recv, CheckSkips, Snapshot, ReadSeries, RemoveBlocksDir, WriteBlock,
     FlushFails, SyncWal, vars, store
<1> QED BY <1>1, <1>2, <1>4

\* Of what a flush copied it removes nothing that is not on disk, whatever
\* the writers add meanwhile and whatever fails.
THEOREM FlushRemovesOnlyCopiedHolds == Spec => FlushRemovesOnlyCopied
<1>1. CopyInv /\ [Next]_vars =>
        [\A p \in head \ head' :
            \/ p \in Persisted'
            \/ fpc = "remove" /\ p \notin buf
            \/ restarts' # restarts]_vars
  BY RemovalStep
<1>2. Spec => []CopyInv
  BY CopyInit, CopyNext, PTL DEF Spec
<1> QED BY <1>1, <1>2, PTL DEF Spec, FlushRemovesOnlyCopied

-----------------------------------------------------------------------------

(* No sample twice.  A point moves from a call's unfinished items to the    *)
(* head, to one block, and nowhere else: what a call has still to add is in *)
(* neither, and no two calls have to add the same point.                    *)

Pending(w) ==
    IF wpc[w] = "add"
    THEN ({Head(batch[w]).series} \X todo[w]) \cup BatchPoints(Tail(batch[w]))
    ELSE BatchPoints(batch[w])

Stored == head \cup Persisted

BatchesApart ==
    \A w \in Writers :
        /\ DistinctItems(batch[w])
        /\ wpc[w] = "add" => todo[w] \subseteq Head(batch[w]).samples

StoredSubmitted == \A p \in Stored : p[2] \in submitted

PendingApart ==
    \A w \in Writers :
        /\ \A p \in Pending(w) : p[2] \in submitted /\ p \notin Stored
        /\ \A v \in Writers : v # w => Pending(v) \cap Pending(w) = {}

CopyInHead ==
    /\ fpc = "read" => buf \subseteq head
    /\ \A p \in buf : p[1] \in ids

FreshInv ==
    TypeInv /\ BatchesApart /\ StoredSubmitted /\ PendingApart /\ CopyInHead

NoDupInv == FreshInv /\ NoDuplicates

\* What a batch has left after its first item, exactly.
LEMMA BatchRest ==
    ASSUME NEW b \in Seq(Item), b # <<>>
    PROVE  /\ ItemPoints(Head(b)) \subseteq BatchPoints(b)
           /\ BatchPoints(Tail(b)) \subseteq BatchPoints(b)
<1>1. Len(b) \in Nat \ {0}
  BY BatchParts
<1>2. b[1] = Head(b) /\ 1 \in 1..Len(b)
  BY <1>1
<1>3. ASSUME NEW i \in 1..Len(Tail(b)) PROVE i + 1 \in 1..Len(b) /\ Tail(b)[i] = b[i + 1]
  BY <1>1
<1> QED BY <1>2, <1>3 DEF BatchPoints

\* Items that carry different points still do without the first, and the
\* first has none of the rest.
LEMMA DistinctRest ==
    ASSUME NEW b \in Seq(Item), b # <<>>, DistinctItems(b)
    PROVE  /\ DistinctItems(Tail(b))
           /\ ItemPoints(Head(b)) \cap BatchPoints(Tail(b)) = {}
<1>1. Len(b) \in Nat \ {0}
  BY BatchParts
<1>2. b[1] = Head(b) /\ 1 \in 1..Len(b)
  BY <1>1
<1>3. ASSUME NEW i \in 1..Len(Tail(b))
      PROVE  i + 1 \in 1..Len(b) /\ Tail(b)[i] = b[i + 1] /\ i + 1 # 1
  BY <1>1
<1>4. DistinctItems(Tail(b))
  <2> SUFFICES ASSUME NEW i \in 1..Len(Tail(b)), NEW j \in 1..Len(Tail(b)), i # j
               PROVE  ItemPoints(Tail(b)[i]) \cap ItemPoints(Tail(b)[j]) = {}
    BY DEF DistinctItems
  <2>1. i + 1 # j + 1
    OBVIOUS
  <2> QED BY <1>3, <2>1 DEF DistinctItems
<1>5. ASSUME NEW i \in 1..Len(Tail(b))
      PROVE  ItemPoints(Head(b)) \cap ItemPoints(Tail(b)[i]) = {}
  BY <1>2, <1>3 DEF DistinctItems
<1> QED BY <1>4, <1>5 DEF BatchPoints

\* A batch of no items carries nothing twice.
LEMMA DistinctEmpty == DistinctItems(<<>>)
  BY DEF DistinctItems

\* The points of a batch carry the samples of the batch.
LEMMA BatchPointsSamples ==
    ASSUME NEW b \in Seq(Item), NEW p \in BatchPoints(b)
    PROVE  p[2] \in BatchSamples(b)
  BY DEF BatchPoints, BatchSamples, ItemPoints

\* Nothing is stored or under way at the start.
LEMMA FreshInit == Init => FreshInv
<1> SUFFICES ASSUME Init PROVE BatchesApart /\ StoredSubmitted /\ PendingApart /\ CopyInHead
  BY TypeInit DEF FreshInv
<1>1. Stored = {} /\ \A w \in Writers : Pending(w) = {}
  BY EmptyBatchPoints DEF Init, Stored, Persisted, Pending
<1> QED BY <1>1, DistinctEmpty
        DEF Init, BatchesApart, StoredSubmitted, PendingApart, CopyInHead

\* A step that stores nothing new and gives no call more to add keeps what is
\* pending apart from what is stored.
LEMMA FreshStep ==
    ASSUME FreshInv, submitted \subseteq submitted', Stored' \subseteq Stored,
           \A w \in Writers : Pending(w)' \subseteq Pending(w)
    PROVE  StoredSubmitted' /\ PendingApart'
  BY DEF FreshInv, StoredSubmitted, PendingApart

\* The steps of a writer up to the log, and out of the call.
LEMMA FreshWriter ==
    ASSUME FreshInv, NEW w \in Writers,
           \/ Lookup(w) \/ Create(w) \/ StorageFull(w) \/ Log(w) \/ LogFails(w)
           \/ SeriesNotFound(w) \/ Return(w)
    PROVE  BatchesApart' /\ StoredSubmitted' /\ PendingApart'
<1>t. /\ TypeOK /\ BatchShape /\ BatchesApart
      /\ batch \in [Writers -> Seq(Item)]
      /\ wpc \in [Writers -> WriterPc] /\ todo \in [Writers -> SUBSET Samples]
  BY DEF FreshInv, TypeInv, TypeOK
<1>1. UNCHANGED <<head, blocks, submitted>>
  BY DEF Lookup, Create, StorageFull, Log, LogFails, SeriesNotFound, Return, Fail, store
<1>2. Stored' = Stored
  BY <1>1 DEF Stored, Persisted
<1>3. ASSUME NEW v \in Writers, v # w
      PROVE  wpc'[v] = wpc[v] /\ batch'[v] = batch[v] /\ todo'[v] = todo[v]
  BY <1>3, <1>t DEF Lookup, Create, StorageFull, Log, LogFails, SeriesNotFound, Return,
     Fail, StartAdding
<1>4. ASSUME NEW v \in Writers, v # w PROVE Pending(v)' = Pending(v)
  BY <1>3, <1>4 DEF Pending
<1>5. /\ Pending(w)' \subseteq Pending(w)
      /\ DistinctItems(batch'[w])
      /\ wpc'[w] = "add" => todo'[w] \subseteq Head(batch'[w]).samples
  <2>1. CASE Lookup(w) \/ Create(w) \/ Return(w)
    <3>1. batch' = batch /\ wpc'[w] # "add" /\ wpc[w] # "add"
      BY <2>1, <1>t DEF Lookup, Create, Return
    <3> QED BY <1>t, <3>1 DEF Pending, BatchesApart
  <2>2. CASE StorageFull(w) \/ LogFails(w) \/ SeriesNotFound(w)
    <3>1. batch'[w] = <<>> /\ wpc'[w] = "idle"
      BY <2>2, <1>t DEF StorageFull, LogFails, SeriesNotFound, Fail
    <3>2. Pending(w)' = {}
      BY <3>1, EmptyBatchPoints DEF Pending
    <3> QED BY <3>1, <3>2, DistinctEmpty
  <2>3. CASE Log(w)
    <3> DEFINE b == batch[w]
    <3>1. b \in Seq(Item) /\ b # <<>> /\ wpc[w] = "log"
      BY <2>3, <1>t DEF Log, BatchShape
    <3>2. /\ ItemPoints(Head(b)) \subseteq BatchPoints(b)
          /\ BatchPoints(Tail(b)) \subseteq BatchPoints(b)
      BY <3>1, BatchRest
    <3>3. DistinctItems(b) /\ DistinctItems(Tail(b))
      BY <1>t, <3>1, DistinctRest DEF BatchesApart
    <3>4. Pending(w) = BatchPoints(b)
      BY <3>1 DEF Pending
    <3>5. CASE Head(b).samples = {}
      <4>1. batch'[w] = Tail(b) /\ wpc'[w] # "add"
        BY <2>3, <1>t, <3>5 DEF Log, StartAdding, AfterItem
      <4> QED BY <3>2, <3>3, <3>4, <4>1 DEF Pending
    <3>6. CASE Head(b).samples # {}
      <4>1. batch'[w] = b /\ wpc'[w] = "add" /\ todo'[w] = Head(b).samples
        BY <2>3, <1>t, <3>6 DEF Log, StartAdding, AfterItem
      <4>2. Pending(w)' = ItemPoints(Head(b)) \cup BatchPoints(Tail(b))
        BY <4>1 DEF Pending, ItemPoints
      <4> QED BY <3>2, <3>3, <3>4, <4>1, <4>2
    <3> QED BY <3>5, <3>6
  <2> QED BY <2>1, <2>2, <2>3
<1>6. BatchesApart'
  BY <1>3, <1>5, <1>t DEF BatchesApart
<1>7. StoredSubmitted' /\ PendingApart'
  BY <1>1, <1>2, <1>4, <1>5, FreshStep
<1> QED BY <1>6, <1>7

\* A call's samples are new, so none of them is stored or pending elsewhere.
LEMMA FreshCall ==
    ASSUME FreshInv, NEW w \in Writers, Call(w)
    PROVE  BatchesApart' /\ StoredSubmitted' /\ PendingApart'
<1>t. /\ TypeOK /\ BatchesApart /\ StoredSubmitted /\ PendingApart
      /\ batch \in [Writers -> Seq(Item)]
      /\ wpc \in [Writers -> WriterPc]
  BY DEF FreshInv, TypeInv, TypeOK
<1>1. PICK b \in Batches :
        /\ BatchSamples(b) \cap submitted = {}
        /\ submitted' = submitted \cup BatchSamples(b)
        /\ batch' = [batch EXCEPT ![w] = b]
  BY DEF Call
<1>2. b \in Seq(Item) /\ DistinctItems(b)
  BY BatchesAssumption, DistinctAssumption
<1>3. /\ UNCHANGED <<head, blocks, todo>>
      /\ wpc' = [wpc EXCEPT ![w] = "lookup"]
  BY DEF Call, store
<1>4. Stored' = Stored
  BY <1>3 DEF Stored, Persisted
<1>5. ASSUME NEW v \in Writers, v # w
      PROVE  wpc'[v] = wpc[v] /\ batch'[v] = batch[v] /\ Pending(v)' = Pending(v)
  <2>1. wpc'[v] = wpc[v] /\ batch'[v] = batch[v]
    BY <1>1, <1>3, <1>5, <1>t
  <2> QED BY <1>3, <2>1 DEF Pending
<1>6. batch'[w] = b /\ wpc'[w] = "lookup" /\ Pending(w)' = BatchPoints(b)
  <2>1. batch'[w] = b /\ wpc'[w] = "lookup"
    BY <1>1, <1>3, <1>t
  <2> QED BY <2>1 DEF Pending
<1>7. \A p \in BatchPoints(b) : p[2] \in BatchSamples(b)
  BY <1>2, BatchPointsSamples
<1>8. BatchesApart'
  BY <1>2, <1>3, <1>5, <1>6, <1>t DEF BatchesApart
<1>9. StoredSubmitted'
  BY <1>1, <1>4, <1>t DEF StoredSubmitted
<1>10. \A p \in BatchPoints(b) : p[2] \in submitted' /\ p \notin Stored'
  BY <1>1, <1>4, <1>7, <1>t DEF StoredSubmitted
<1>11. \A v \in Writers : v # w => Pending(v) \cap BatchPoints(b) = {}
  BY <1>1, <1>7, <1>t DEF PendingApart
<1>12. PendingApart'
  <2>1. ASSUME NEW u \in Writers, NEW p \in Pending(u)'
        PROVE  p[2] \in submitted' /\ p \notin Stored'
    <3>1. CASE u = w
      BY <1>1, <1>4, <1>5, <1>6, <1>10, <1>11, <1>t, <2>1, <3>1 DEF PendingApart
    <3>2. CASE u # w
      BY <1>1, <1>4, <1>5, <1>6, <1>10, <1>11, <1>t, <2>1, <3>2 DEF PendingApart
    <3> QED BY <3>1, <3>2
  <2>2. ASSUME NEW u \in Writers, NEW v \in Writers, v # u
        PROVE  Pending(v)' \cap Pending(u)' = {}
    <3>1. CASE u = w
      BY <1>1, <1>4, <1>5, <1>6, <1>10, <1>11, <1>t, <2>2, <3>1 DEF PendingApart
    <3>2. CASE v = w
      BY <1>1, <1>4, <1>5, <1>6, <1>10, <1>11, <1>t, <2>2, <3>2 DEF PendingApart
    <3>3. CASE u # w /\ v # w
      BY <1>1, <1>4, <1>5, <1>6, <1>10, <1>11, <1>t, <2>2, <3>3 DEF PendingApart
    <3> QED BY <3>1, <3>2, <3>3
  <2> QED BY <2>1, <2>2 DEF PendingApart
<1> QED BY <1>8, <1>9, <1>12

\* A sample that enters the head leaves what its call has to add.
LEMMA FreshAdd ==
    ASSUME FreshInv, NEW w \in Writers, AddSample(w)
    PROVE  BatchesApart' /\ StoredSubmitted' /\ PendingApart'
<1>t. /\ TypeOK /\ BatchShape /\ BatchesApart /\ StoredSubmitted /\ PendingApart
      /\ batch \in [Writers -> Seq(Item)]
      /\ wpc \in [Writers -> WriterPc] /\ todo \in [Writers -> SUBSET Samples]
  BY DEF FreshInv, TypeInv, TypeOK
<1> DEFINE b == batch[w]
<1> DEFINE s == Head(b).series
<1>1. PICK x \in todo[w] :
           /\ head' = head \cup {<<s, x>>}
           /\ todo' = [todo EXCEPT ![w] = todo[w] \ {x}]
           /\ wpc' = [wpc EXCEPT ![w] = AfterItem(b, todo[w] \ {x})]
           /\ batch' = [batch EXCEPT ![w] = IF todo[w] = {x} THEN Tail(b) ELSE b]
  BY DEF AddSample
<1>2. b \in Seq(Item) /\ b # <<>> /\ wpc[w] = "add" /\ todo[w] \subseteq Head(b).samples
  BY <1>t DEF AddSample, BatchShape, BatchesApart
<1>3. /\ DistinctItems(b) /\ DistinctItems(Tail(b))
      /\ ItemPoints(Head(b)) \cap BatchPoints(Tail(b)) = {}
  BY <1>t, <1>2, DistinctRest DEF BatchesApart
<1>4. /\ UNCHANGED <<blocks, submitted>>
  BY DEF AddSample
<1>5. Stored' = Stored \cup {<<s, x>>}
  BY <1>1, <1>4 DEF Stored, Persisted
<1>6. ASSUME NEW v \in Writers, v # w
      PROVE  /\ wpc'[v] = wpc[v] /\ batch'[v] = batch[v] /\ todo'[v] = todo[v]
             /\ Pending(v)' = Pending(v)
  <2>1. wpc'[v] = wpc[v] /\ batch'[v] = batch[v] /\ todo'[v] = todo[v]
    BY <1>1, <1>6, <1>t
  <2> QED BY <2>1 DEF Pending
<1>7. Pending(w) = ({s} \X todo[w]) \cup BatchPoints(Tail(b))
  BY <1>2 DEF Pending
<1>8. <<s, x>> \in Pending(w) /\ <<s, x>> \notin BatchPoints(Tail(b))
  BY <1>1, <1>2, <1>3, <1>7 DEF ItemPoints
<1>9. /\ Pending(w)' \subseteq Pending(w) \ {<<s, x>>}
      /\ DistinctItems(batch'[w])
      /\ wpc'[w] = "add" => todo'[w] \subseteq Head(batch'[w]).samples
  <2>1. CASE todo[w] = {x}
    <3>1. batch'[w] = Tail(b) /\ wpc'[w] # "add"
      BY <1>1, <1>t, <2>1 DEF AfterItem
    <3> QED BY <1>3, <1>7, <1>8, <3>1 DEF Pending
  <2>2. CASE todo[w] # {x}
    <3>1. todo[w] \ {x} # {}
      BY <2>2
    <3>2. batch'[w] = b /\ wpc'[w] = "add" /\ todo'[w] = todo[w] \ {x}
      BY <1>1, <1>t, <2>2, <3>1 DEF AfterItem
    <3>3. Pending(w)' = ({s} \X (todo[w] \ {x})) \cup BatchPoints(Tail(b))
      BY <3>2 DEF Pending
    <3> QED BY <1>2, <1>3, <1>7, <1>8, <3>2, <3>3
  <2> QED BY <2>1, <2>2
<1>10. BatchesApart'
  BY <1>6, <1>9, <1>t DEF BatchesApart
<1>11. StoredSubmitted'
  BY <1>4, <1>5, <1>8, <1>t DEF StoredSubmitted, PendingApart
<1>12. \A v \in Writers : v # w => <<s, x>> \notin Pending(v)
  BY <1>8, <1>t DEF PendingApart
<1>13. PendingApart'
  <2>1. ASSUME NEW u \in Writers, NEW p \in Pending(u)'
        PROVE  p[2] \in submitted' /\ p \notin Stored'
    <3>1. CASE u = w
      BY <1>4, <1>5, <1>6, <1>9, <1>12, <1>t, <2>1, <3>1 DEF PendingApart
    <3>2. CASE u # w
      BY <1>4, <1>5, <1>6, <1>9, <1>12, <1>t, <2>1, <3>2 DEF PendingApart
    <3> QED BY <3>1, <3>2
  <2>2. ASSUME NEW u \in Writers, NEW v \in Writers, v # u
        PROVE  Pending(v)' \cap Pending(u)' = {}
    <3>1. CASE u = w
      BY <1>4, <1>5, <1>6, <1>9, <1>12, <1>t, <2>2, <3>1 DEF PendingApart
    <3>2. CASE v = w
      BY <1>4, <1>5, <1>6, <1>9, <1>12, <1>t, <2>2, <3>2 DEF PendingApart
    <3>3. CASE u # w /\ v # w
      BY <1>4, <1>5, <1>6, <1>9, <1>12, <1>t, <2>2, <3>3 DEF PendingApart
    <3> QED BY <3>1, <3>2, <3>3
  <2> QED BY <2>1, <2>2 DEF PendingApart
<1> QED BY <1>10, <1>11, <1>13
\* What a new block adds to the blocks.
LEMMA BlockAppended ==
    ASSUME TypeOK, WriteBlock
    PROVE  /\ Persisted' = Persisted \cup buf
           /\ Len(blocks') = Len(blocks) + 1 /\ Len(blocks) \in Nat
           /\ blocks'[Len(blocks) + 1] = buf
           /\ \A i \in 1..Len(blocks) : blocks'[i] = blocks[i]
<1>1. /\ Len(blocks') = Len(blocks) + 1 /\ Len(blocks) \in Nat
      /\ blocks'[Len(blocks) + 1] = buf
      /\ \A i \in 1..Len(blocks) : blocks'[i] = blocks[i]
  BY AppendProperties, LenProperties DEF WriteBlock, TypeOK
<1>2. \A i \in 1..Len(blocks') : i \in 1..Len(blocks) \/ i = Len(blocks) + 1
  BY <1>1
<1>3. \A i \in 1..Len(blocks) : i \in 1..Len(blocks')
  BY <1>1
<1>4. Len(blocks) + 1 \in 1..Len(blocks')
  BY <1>1
<1>5. Persisted' \subseteq Persisted \cup buf
  BY <1>1, <1>2 DEF Persisted
<1>6. Persisted \cup buf \subseteq Persisted'
  BY <1>1, <1>3, <1>4 DEF Persisted
<1> QED BY <1>1, <1>5, <1>6

\* The steps of the flush task, of its callers and of a crash store nothing
\* new and leave the calls alone, or end them all.
LEMMA FreshFlush ==
    ASSUME FreshInv,
           \/ TriggerFlush \/ Shutdown \/ Tick \/ Recv \/ FlushStep \/ Restart
           \/ UNCHANGED vars
    PROVE  BatchesApart' /\ StoredSubmitted' /\ PendingApart'
<1>t. /\ TypeOK /\ BatchesApart /\ CopyInHead
      /\ batch \in [Writers -> Seq(Item)]
  BY DEF FreshInv, TypeInv, TypeOK
<1>1. submitted \subseteq submitted'
  BY DEF TriggerFlush, Shutdown, Send, Tick, Recv, FlushStep, CheckSkips,
     Snapshot, ReadSeries, RemoveBlocksDir, WriteBlock, FlushFails, SyncWal,
     RemoveSeries, Restart, vars, writer
<1>2. Stored' \subseteq Stored
  <2>1. CASE WriteBlock
    <3>1. Persisted' = Persisted \cup buf /\ head' = head /\ buf \subseteq head
      BY <1>t, <2>1, BlockAppended DEF WriteBlock, CopyInHead, store
    <3> QED BY <3>1 DEF Stored
  <2>2. CASE RemoveBlocksDir
    <3>1. Persisted' = {} /\ head' = head
      BY <2>2 DEF RemoveBlocksDir, Persisted, store
    <3> QED BY <3>1 DEF Stored
  <2>3. ASSUME blocks' = blocks, head' \subseteq head PROVE Stored' \subseteq Stored
    BY <2>3 DEF Stored, Persisted
  <2>4. CASE ~WriteBlock /\ ~RemoveBlocksDir
    BY <2>3, <2>4 DEF TriggerFlush, Shutdown, Send, Tick, Recv, FlushStep, CheckSkips,
       Snapshot, ReadSeries, FlushFails, SyncWal, RemoveSeries, Restart, vars, store
  <2> QED BY <2>1, <2>2, <2>4
<1>3. CASE Restart
  <2>1. \A w \in Writers : batch'[w] = <<>> /\ wpc'[w] = "idle"
    BY <1>3 DEF Restart
  <2>2. \A w \in Writers : Pending(w)' = {}
    BY <2>1, EmptyBatchPoints DEF Pending
  <2>3. BatchesApart'
    BY <2>1, DistinctEmpty DEF BatchesApart
  <2> QED BY <1>1, <1>2, <2>2, <2>3, FreshStep
<1>4. CASE ~Restart
  <2>1. UNCHANGED <<wpc, batch, todo>>
    BY <1>4 DEF TriggerFlush, Shutdown, Send, Tick, Recv, FlushStep, CheckSkips,
       Snapshot, ReadSeries, RemoveBlocksDir, WriteBlock, FlushFails, SyncWal,
       RemoveSeries, vars, writer
  <2>2. \A w \in Writers : Pending(w)' = Pending(w)
    BY <2>1 DEF Pending
  <2>3. BatchesApart'
    BY <1>t, <2>1 DEF BatchesApart
  <2> QED BY <1>1, <1>2, <2>2, <2>3, FreshStep
<1> QED BY <1>3, <1>4

\* While a flush copies, what it has copied is still in the head, and it only
\* copies series of its snapshot.
LEMMA CopyInHeadNext == FreshInv /\ [Next]_vars => CopyInHead'
<1> SUFFICES ASSUME FreshInv, [Next]_vars PROVE CopyInHead'
  OBVIOUS
<1>t. TypeOK /\ CopyInHead
  BY DEF FreshInv, TypeInv
<1>1. ASSUME head \subseteq head', UNCHANGED <<fpc, ids, buf>> PROVE CopyInHead'
  BY <1>1, <1>t DEF CopyInHead
<1>2. ASSUME NEW w \in Writers, Call(w) \/ WriterStep(w) PROVE CopyInHead'
  BY <1>1, <1>2 DEF Call, WriterStep, Lookup, Create, StorageFull, Log, LogFails,
     AddSample, SeriesNotFound, Return, store, flusher
<1>3. CASE TriggerFlush \/ Shutdown \/ UNCHANGED vars
  BY <1>1, <1>3 DEF TriggerFlush, Shutdown, Send, vars, store, flusher
<1>4. CASE ReadSeries
  BY <1>4, <1>t DEF ReadSeries, CopyInHead, store, TypeOK
<1>5. ASSUME fpc' # "read", UNCHANGED <<ids, buf>> PROVE CopyInHead'
  BY <1>5, <1>t DEF CopyInHead
<1>6. CASE Tick \/ Recv \/ WriteBlock \/ SyncWal
  BY <1>5, <1>6 DEF Tick, Recv, WriteBlock, SyncWal
<1>7. ASSUME buf' = {} PROVE CopyInHead'
  BY <1>7 DEF CopyInHead
<1>8. CASE CheckSkips \/ Snapshot \/ RemoveBlocksDir \/ FlushFails \/ RemoveSeries \/ Restart
  BY <1>7, <1>8 DEF CheckSkips, Snapshot, RemoveBlocksDir, FlushFails, RemoveSeries,
     FlushReturns, Restart
<1> QED BY <1>2, <1>3, <1>4, <1>6, <1>8 DEF Next, FlushStep

\* No step stores a point that a call has still to add.
LEMMA FreshNext == FreshInv /\ [Next]_vars => FreshInv'
<1> SUFFICES ASSUME FreshInv, [Next]_vars PROVE FreshInv'
  OBVIOUS
<1>1. TypeInv' /\ CopyInHead'
  BY TypeNext, CopyInHeadNext DEF FreshInv
<1>2. BatchesApart' /\ StoredSubmitted' /\ PendingApart'
  BY FreshCall, FreshWriter, FreshAdd, FreshFlush DEF Next, WriterStep
<1> QED BY <1>1, <1>2 DEF FreshInv

\* There are no blocks at the start.
LEMMA NoDupInit == Init => NoDupInv
  BY FreshInit DEF Init, NoDupInv, NoDuplicates, Persisted

\* No step puts a point into two blocks, or leaves it in the head and in a
\* block once the flush that wrote it is over.
LEMMA NoDupNext == NoDupInv /\ [Next]_vars => NoDupInv'
<1> SUFFICES ASSUME NoDupInv, [Next]_vars, FreshInv' PROVE NoDuplicates'
  BY FreshNext DEF NoDupInv
<1>t. TypeOK /\ FreshInv /\ CopyInHead /\ NoDuplicates /\ PendingApart /\ BatchShape
  BY DEF NoDupInv, FreshInv, TypeInv
<1>f. faults \in Nat /\ (faults' = faults \/ faults' = faults + 1)
  BY <1>t DEF TypeOK, Next, WriterStep, FlushStep, Call, Lookup, Create, StorageFull, Log,
     LogFails, AddSample, SeriesNotFound, Return, TriggerFlush, Shutdown, Send, Tick, Recv,
     CheckSkips, Snapshot, ReadSeries, RemoveBlocksDir, WriteBlock, FlushFails, SyncWal,
     RemoveSeries, Restart, vars
<1>g. faults' = 0 => faults = 0 /\ faults' = faults
  BY <1>f
<1> SUFFICES ASSUME faults = 0, faults' = faults PROVE NoDuplicates'
  BY <1>g DEF NoDuplicates
<1>1. ASSUME NEW w \in Writers, AddSample(w) PROVE NoDuplicates'
  <2>1. PICK x \in todo[w] : head' = head \cup {<<Head(batch[w]).series, x>>}
    BY <1>1 DEF AddSample
  <2>2. wpc[w] = "add" /\ UNCHANGED <<blocks, fpc, buf>>
    BY <1>1 DEF AddSample, flusher
  <2>3. <<Head(batch[w]).series, x>> \in Pending(w)
    BY <2>1, <2>2 DEF Pending
  <2>4. <<Head(batch[w]).series, x>> \notin Persisted /\ Persisted' = Persisted
    BY <1>t, <2>2, <2>3 DEF PendingApart, Stored, Persisted
  <2> QED BY <1>t, <2>1, <2>2, <2>4 DEF NoDuplicates
<1>2. ASSUME UNCHANGED <<head, blocks, fpc, buf>> PROVE NoDuplicates'
  BY <1>2, <1>t DEF NoDuplicates, Persisted
<1>3. ASSUME NEW w \in Writers,
             Call(w) \/ Lookup(w) \/ Create(w) \/ StorageFull(w) \/ Log(w) \/ LogFails(w)
               \/ SeriesNotFound(w) \/ Return(w)
      PROVE  NoDuplicates'
  BY <1>2, <1>3 DEF Call, Lookup, Create, StorageFull, Log, LogFails, SeriesNotFound,
     Return, store, flusher
<1>4. CASE TriggerFlush \/ Shutdown \/ ReadSeries \/ UNCHANGED vars
  <2>1. CASE ReadSeries
    BY <1>t, <2>1 DEF ReadSeries, NoDuplicates, Persisted, store
  <2> QED BY <1>2, <1>4, <2>1 DEF TriggerFlush, Shutdown, Send, vars, store, flusher
<1>5. ASSUME UNCHANGED <<head, blocks>>, fpc \notin {"sync", "remove"},
             fpc' \notin {"sync", "remove"}
      PROVE  NoDuplicates'
  BY <1>5, <1>t DEF NoDuplicates, Persisted
<1>6. CASE Tick \/ Recv \/ CheckSkips \/ Snapshot
  BY <1>5, <1>6 DEF Tick, Recv, CheckSkips, Snapshot, FlushReturns, store
<1>7. CASE RemoveBlocksDir
  <2>1. blocks' = <<>> /\ fpc' \notin {"sync", "remove"} /\ Persisted' = {}
    BY <1>7 DEF RemoveBlocksDir, FlushReturns, Persisted
  <2> QED BY <2>1 DEF NoDuplicates
<1>8. CASE WriteBlock
  <2>1. /\ Persisted' = Persisted \cup buf
        /\ Len(blocks') = Len(blocks) + 1 /\ Len(blocks) \in Nat
        /\ blocks'[Len(blocks) + 1] = buf
        /\ \A i \in 1..Len(blocks) : blocks'[i] = blocks[i]
    BY <1>t, <1>8, BlockAppended
  <2>2. /\ head' = head /\ buf' = buf /\ fpc' = "sync" /\ fpc = "read"
        /\ buf \subseteq head /\ head \cap Persisted = {}
    BY <1>t, <1>8 DEF WriteBlock, CopyInHead, NoDuplicates, store
  <2>3. \A i \in 1..Len(blocks) : blocks[i] \cap buf = {}
    BY <2>2 DEF Persisted
  <2>4. \A i \in 1..Len(blocks') : i \in 1..Len(blocks) \/ i = Len(blocks) + 1
    BY <2>1
  <2>5. \A i, j \in 1..Len(blocks) : i # j => blocks[i] \cap blocks[j] = {}
    BY <1>t DEF NoDuplicates
  <2>6. \A i, j \in 1..Len(blocks') : i # j => blocks'[i] \cap blocks'[j] = {}
    BY <2>1, <2>3, <2>4, <2>5
  <2>7. blocks' # <<>>
    <3>1. Len(blocks') # 0
      BY <2>1
    <3> QED BY <3>1
  <2> QED BY <2>1, <2>2, <2>6, <2>7 DEF NoDuplicates
<1>9. CASE FlushFails
  BY <1>9, <1>f DEF FlushFails
<1>10. CASE SyncWal
  BY <1>10, <1>t DEF SyncWal, NoDuplicates, Persisted, store
<1>11. CASE RemoveSeries
  <2>1. /\ head' = {p \in head : p[1] \notin ids} /\ blocks' = blocks
        /\ fpc = "remove" /\ fpc' \notin {"sync", "remove"}
    BY <1>11 DEF RemoveSeries, FlushReturns
  <2>2. head \cap Persisted \subseteq buf /\ \A p \in buf : p[1] \in ids
    BY <1>t, <2>1 DEF NoDuplicates, CopyInHead
  <2>3. head' \cap Persisted' = {}
    BY <2>1, <2>2 DEF Persisted
  <2> QED BY <1>t, <2>1, <2>3 DEF NoDuplicates
<1>12. CASE Restart
  <2>1. head' = {} /\ blocks' = blocks /\ fpc' = "idle"
    BY <1>12 DEF Restart
  <2> QED BY <1>t, <2>1 DEF NoDuplicates
<1> QED
  BY <1>1, <1>3, <1>4, <1>6, <1>7, <1>8, <1>9, <1>10, <1>11, <1>12
     DEF Next, WriterStep, FlushStep

\* While no file operation fails, no interleaving of writers and flushes and no
\* crash in the middle of one makes a sample count twice: it is in one block at
\* most, and in the head and a block only until the flush that wrote it ends.
THEOREM NoDuplicatesHolds == Spec => []NoDuplicates
<1>1. Spec => []NoDupInv
  BY NoDupInit, NoDupNext, PTL DEF Spec
<1> QED BY <1>1, PTL DEF NoDupInv
=============================================================================
