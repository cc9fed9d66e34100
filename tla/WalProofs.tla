----------------------------- MODULE WalProofs ------------------------------
(***************************************************************************)
(* Proofs about the two writers of the write-ahead log.  Of the segmented   *)
(* log: what recover finds is in order, every acknowledged entry is         *)
(* accounted for, and cleanup spares the file being written.  Of the        *)
(* buffered asynchronous writer: what it keeps, in which order, and what a  *)
(* sync promises.  For any segment, batch and buffer sizes and any number   *)
(* of entries, failures and crashes.                                        *)
(***************************************************************************)
EXTENDS Wal, AsyncWal, TLAPS, FiniteSetTheorems, SequenceTheorems, WellFoundedInduction

Recording == Seq(-1 .. MaxEntries)
File == [hdr : {"ok", "none", "torn"}, recs : Recording]
Phases == {"free", "data", "rotate", "header"}

WalType ==
  /\ segs = [k \in Ids |-> segs[k]] /\ \A k \in Ids : segs[k] \in File
  /\ synced = [k \in Ids |-> synced[k]]
  /\ \A k \in Ids : synced[k] \in Int /\ -1 <= synced[k] /\ synced[k] <= Len(segs[k].recs)
  /\ Ids \subseteq Nat /\ IsFiniteSet(Ids)
  /\ cur \in Nat /\ seg \in Nat /\ count \in Nat /\ next \in 0 .. MaxEntries /\ entry \in 0 .. MaxEntries
  /\ phase \in Phases
  /\ acked \subseteq 1 .. MaxEntries /\ cleaned \subseteq 1 .. MaxEntries /\ doomed \subseteq 1 .. MaxEntries
  /\ todo \subseteq Ids /\ left \in Nat
  /\ faults \in Nat /\ crashes \in Nat /\ powerFailures \in Nat

-----------------------------------------------------------------------------
(* Order.  Nothing stands behind the place where the writer appends, and    *)
(* what stands before it is older.                                          *)

Positions(k) == 1 .. Len(segs[k].recs)

Behind ==
  /\ NoCollision /\ cur <= seg
  /\ phase = "header" => cur < seg
  /\ \A k \in Ids : k > cur => segs[k].recs = <<>>
  /\ \A k \in Ids : segs[k].hdr = "none" => segs[k].recs = <<>>
  /\ cur \in Ids => segs[cur].hdr # "none"

Writing ==
  phase = "data" =>
    /\ entry = next /\ next > 0
    /\ cur \in Ids => segs[cur].recs # <<>> /\ segs[cur].recs[Len(segs[cur].recs)] = LongTorn

Submitted ==
  \A k \in Ids : \A i \in Positions(k) :
    segs[k].recs[i] <= next /\ (phase = "data" => segs[k].recs[i] < next)

OrderInv == Behind /\ Writing /\ Submitted /\ RecoveredInOrder

-----------------------------------------------------------------------------
(* Without a failed operation.                                              *)

CleanInv ==
  faults = 0 =>
    /\ \E lo \in 0 .. seg + 1 : Ids = lo .. seg
    /\ \A j \in todo, k \in Ids : k <= j => k \in todo
    /\ IF phase = "header" THEN seg = cur + 1 ELSE seg = cur
    /\ phase = "header" /\ cur \in Ids => synced[cur] = Len(segs[cur].recs)
    /\ RotatedIsSynced

-----------------------------------------------------------------------------
(* With fewer failed operations than segments kept.  A file above the       *)
(* current one is there because a rotation has failed or is under way, and  *)
(* a cleanup passes over a file because its deletion has failed.            *)

Above == {k \in Ids : k > cur}
Passed == IF todo = {} THEN 0 ELSE left - Cardinality(todo)
Rotating == IF phase = "header" THEN 1 ELSE 0
Returning == IF phase \in {"rotate", "header"} /\ entry # 0 THEN {entry} ELSE {}

KeepInv ==
  /\ todo # {} => Cardinality(todo) <= left
  /\ faults < MinKeep =>
       /\ Cardinality(Above) + Passed <= faults + Rotating
       /\ phase = "header" => seg \in Ids
       /\ acked \cup Returning \subseteq OnDisk \cup cleaned \cup doomed
  /\ CurrentKept

-----------------------------------------------------------------------------
(* Damage.  A segment that is not the one being written and not on stable   *)
(* storage is there because something failed, and has not been counted.     *)

Torn(k) ==
  \/ segs[k].hdr = "torn"
  \/ \E i \in Positions(k) :
       segs[k].recs[i] <= 0 /\ ~(phase = "data" /\ k = cur /\ i = Len(segs[k].recs))
Live == IF phase = "header" THEN seg ELSE cur
AtRisk == {k \in Ids : Torn(k) \/ (synced[k] < Len(segs[k].recs) /\ k # Live)}

DamageInv == Cardinality(AtRisk) <= faults + crashes + powerFailures

WalInv == WalType /\ OrderInv /\ CleanInv /\ KeepInv /\ DamageInv

-----------------------------------------------------------------------------
(* What each operation does to the files.                                   *)

\* Writing to the current file leaves every other file alone.
LEMMA PutFiles ==
  ASSUME WalType, NEW r \in Recording, segs' = Put(r)
  PROVE  /\ Ids' = Ids /\ segs' = [k \in Ids |-> segs'[k]]
         /\ \A k \in Ids : segs'[k].hdr = segs[k].hdr
         /\ \A k \in Ids : segs'[k] \in File /\ (k # cur => segs'[k] = segs[k])
         /\ cur \in Ids => segs'[cur].recs = r
<1>1. CASE cur \notin Ids
  BY <1>1 DEF WalType, Put, Ids
<1>2. CASE cur \in Ids
  <2> DEFINE f == [hdr |-> segs[cur].hdr, recs |-> r]
  <2>1. segs[cur] \in File
    BY <1>2 DEF WalType
  <2>2. [segs[cur] EXCEPT !.recs = r] = f /\ f \in File
    BY <2>1 DEF File
  <2>3. segs' = [segs EXCEPT ![cur] = f]
    BY <1>2, <2>2 DEF Put
  <2>4. f.hdr = segs[cur].hdr /\ f.recs = r
    OBVIOUS
  <2> HIDE DEF f
  <2>5. segs' = [k \in Ids |-> IF k = cur THEN f ELSE segs[k]]
    BY <2>3, <1>2 DEF WalType, Ids
  <2> QED
    BY <2>5, <2>4, <2>2, <1>2 DEF WalType, Ids
<1> QED
  BY <1>1, <1>2

\* What the current file holds is well typed.
LEMMA RecsType ==
  ASSUME WalType
  PROVE  /\ Recs \in Recording
         /\ cur \in Ids => Recs = segs[cur].recs
BY EmptySeq DEF WalType, Recs, Recording, File

\* The first half of an append leaves one incomplete record at the end of the
\* current file.
LEMMA LogBeginFiles ==
  ASSUME WalType, LogBegin
  PROVE  /\ Ids' = Ids /\ segs' = [k \in Ids |-> segs'[k]]
         /\ \A k \in Ids : segs'[k] \in File /\ (k # cur => segs'[k] = segs[k])
         /\ \A k \in Ids : segs'[k].hdr = segs[k].hdr
         /\ cur \in Ids =>
              /\ Len(segs'[cur].recs) = Len(segs[cur].recs) + 1
              /\ \A i \in Positions(cur) : segs'[cur].recs[i] = segs[cur].recs[i]
              /\ segs'[cur].recs[Len(segs[cur].recs) + 1] = LongTorn
<1> DEFINE r == Append(Recs, LongTorn)
<1>1. LongTorn \in -1 .. MaxEntries
  BY WalBounds DEF LongTorn
<1>2. /\ r \in Recording /\ Len(r) = Len(Recs) + 1
      /\ \A i \in 1 .. Len(Recs) : r[i] = Recs[i]
      /\ r[Len(Recs) + 1] = LongTorn
  BY <1>1, RecsType, AppendProperties DEF Recording
<1>3. segs' = Put(r)
  BY DEF LogBegin
<1> HIDE DEF r
<1> QED
  BY <1>2, <1>3, PutFiles, RecsType DEF Positions

\* The second half completes that record and touches nothing else.
LEMMA LogEndFiles ==
  ASSUME WalType, Writing, LogEnd
  PROVE  /\ Ids' = Ids /\ segs' = [k \in Ids |-> segs'[k]]
         /\ \A k \in Ids : segs'[k] \in File /\ (k # cur => segs'[k] = segs[k])
         /\ \A k \in Ids : segs'[k].hdr = segs[k].hdr
         /\ cur \in Ids =>
              /\ Len(segs'[cur].recs) = Len(segs[cur].recs)
              /\ Len(segs[cur].recs) > 0
              /\ segs[cur].recs[Len(segs[cur].recs)] = LongTorn
              /\ \A i \in Positions(cur) : i # Len(segs[cur].recs)
                    => segs'[cur].recs[i] = segs[cur].recs[i]
              /\ segs'[cur].recs[Len(segs[cur].recs)] = entry
<1> DEFINE r == IF Recs = <<>> THEN <<>> ELSE [Recs EXCEPT ![Len(Recs)] = entry]
<1>0. Recs \in Seq(-1 .. MaxEntries) /\ entry \in -1 .. MaxEntries /\ entry \in Nat
  BY RecsType DEF WalType, Recording
<1>1. /\ r \in Recording /\ Len(r) = Len(Recs)
      /\ Recs # <<>> => /\ Len(Recs) > 0
                        /\ \A i \in 1 .. Len(Recs) : i # Len(Recs) => r[i] = Recs[i]
                        /\ r[Len(Recs)] = entry
  <2>1. CASE Recs = <<>>
    BY <2>1, EmptySeq DEF Recording
  <2>2. CASE Recs # <<>>
    <3>1. Len(Recs) \in 1 .. Len(Recs) /\ Len(Recs) > 0
      BY <1>0, <2>2, EmptySeq, LenProperties
    <3>2. r = [Recs EXCEPT ![Len(Recs)] = entry]
      BY <2>2
    <3> QED
      BY <1>0, <3>1, <3>2, ExceptSeq, <2>2 DEF Recording
  <2> QED
    BY <2>1, <2>2
<1>2. segs' = Put(r)
  BY DEF LogEnd
<1>3. cur \in Ids => Recs # <<>> /\ Recs[Len(Recs)] = LongTorn
  BY RecsType DEF Writing, LogEnd
<1> HIDE DEF r
<1> QED
  BY <1>1, <1>2, <1>3, PutFiles, RecsType DEF Positions

\* A rotation syncs the current file and adds an empty one, of a number not in
\* use.
LEMMA RotateCreateFiles ==
  ASSUME WalType, RotateCreate
  PROVE  /\ seg + 1 \notin Ids
         /\ Ids' = Ids \cup {seg + 1}
         /\ segs' = [k \in Ids' |-> segs'[k]]
         /\ synced' = [k \in Ids' |-> synced'[k]]
         /\ \A k \in Ids' : segs'[k] \in File
         /\ segs'[seg + 1].hdr = "none" /\ segs'[seg + 1].recs = <<>> /\ Len(segs'[seg + 1].recs) = 0
         /\ synced'[seg + 1] = -1
         /\ \A k \in Ids : /\ segs'[k] = segs[k]
                            /\ synced'[k] = IF k = cur THEN Len(segs[k].recs) ELSE synced[k]
<1> DEFINE f == [hdr |-> "none", recs |-> <<>>]
<1>1. f \in File /\ f.hdr = "none" /\ f.recs = <<>> /\ Len(f.recs) = 0
  BY EmptySeq DEF File, Recording
<1>2. seg + 1 \notin Ids
  BY DEF RotateCreate
<1>3. segs' = [k \in Ids \cup {seg + 1} |-> IF k = seg + 1 THEN f ELSE segs[k]]
  BY DEF RotateCreate
<1>4. \A k \in Ids : SyncCur[k] = IF k = cur THEN Len(segs[k].recs) ELSE synced[k]
  BY DEF SyncCur, WalType, Recs
<1>5. synced' = [k \in Ids \cup {seg + 1} |-> IF k = seg + 1 THEN -1 ELSE SyncCur[k]]
  BY DEF RotateCreate
<1> HIDE DEF f
<1>6. Ids' = Ids \cup {seg + 1}
  BY <1>3 DEF Ids
<1>7. \A k \in Ids : segs[k] \in File
  BY DEF WalType
<1>8. \A k \in Ids : k # seg + 1
  BY <1>2
<1>9. segs'[seg + 1] = f /\ \A k \in Ids : segs'[k] = segs[k]
  BY <1>3, <1>8
<1>10. synced'[seg + 1] = -1 /\ \A k \in Ids : synced'[k] = SyncCur[k]
  BY <1>5, <1>8
<1> QED
  BY <1>1, <1>2, <1>3, <1>4, <1>5, <1>6, <1>7, <1>9, <1>10

\* A rotation then writes the new file's header and nothing else.
LEMMA RotateHeaderFiles ==
  ASSUME WalType, RotateHeader
  PROVE  /\ Ids' = Ids /\ segs' = [k \in Ids |-> segs'[k]]
         /\ \A k \in Ids : segs'[k] \in File /\ segs'[k].recs = segs[k].recs
         /\ \A k \in Ids : segs'[k].hdr = IF k = seg THEN "ok" ELSE segs[k].hdr
<1>1. CASE seg \notin Ids
  BY <1>1 DEF WalType, RotateHeader, Ids
<1>2. CASE seg \in Ids
  <2> DEFINE f == [hdr |-> "ok", recs |-> segs[seg].recs]
  <2>1. segs[seg] \in File
    BY <1>2 DEF WalType
  <2>2. [segs[seg] EXCEPT !.hdr = "ok"] = f /\ f \in File
    BY <2>1 DEF File
  <2>3. segs' = [segs EXCEPT ![seg] = f]
    BY <1>2, <2>2 DEF RotateHeader
  <2>4. f.hdr = "ok" /\ f.recs = segs[seg].recs
    OBVIOUS
  <2> HIDE DEF f
  <2>5. segs' = [k \in Ids |-> IF k = seg THEN f ELSE segs[k]]
    BY <2>3, <1>2 DEF WalType, Ids
  <2> QED
    BY <2>5, <2>4, <2>2, <1>2 DEF WalType, Ids
<1> QED
  BY <1>1, <1>2

\* A cleanup's deletion removes one file and leaves the others alone.
LEMMA DeleteFiles ==
  ASSUME WalType, CleanupDelete
  PROVE  /\ Ids' = Ids \ {Oldest}
         /\ segs' = [k \in Ids' |-> segs'[k]] /\ synced' = [k \in Ids' |-> synced'[k]]
         /\ \A k \in Ids' : segs'[k] = segs[k] /\ synced'[k] = synced[k] /\ segs'[k] \in File
BY DEF CleanupDelete, WalType, Ids

\* A nonempty set of numbers has a least one.
LEMMA LeastNat ==
  ASSUME NEW S \in SUBSET Nat, S # {}
  PROVE  \E m \in S : \A k \in S : m <= k
<1> DEFINE Down == {0 .. x : x \in S}
           R == StrictSubsetOrdering(Nat)
<1>1. Down \subseteq FiniteSubsetsOf(Nat) /\ Down # {}
  <2>1. \A x \in S : x \in Int /\ 0 .. x \subseteq Nat
    OBVIOUS
  <2>2. \A x \in S : IsFiniteSet(0 .. x)
    BY <2>1, FS_Interval
  <2> QED
    BY <2>1, <2>2 DEF FiniteSubsetsOf
<1>2. PICK D \in Down : \A E \in Down : ~(<<E, D>> \in R)
  BY <1>1, FS_StrictSubsetOrderingWellFounded, WFMin
<1>3. PICK m \in S : D = 0 .. m
  BY <1>2
<1>4. \A k \in S : m <= k
  <2> SUFFICES ASSUME NEW k \in S, k < m PROVE FALSE
    OBVIOUS
  <2>1. m \in 0 .. m /\ m \notin 0 .. k
    OBVIOUS
  <2>2. 0 .. k \subseteq 0 .. m /\ 0 .. k # 0 .. m /\ 0 .. k \in SUBSET Nat /\ 0 .. m \in SUBSET Nat
    BY <2>1
  <2>3. <<0 .. k, 0 .. m>> \in R
    BY <2>2 DEF StrictSubsetOrdering
  <2> QED
    BY <2>3, <1>2, <1>3
<1> QED
  BY <1>4

\* A nonempty bounded set of numbers has a greatest one.
LEMMA GreatestNat ==
  ASSUME NEW S \in SUBSET Nat, S # {}, NEW b \in Nat, \A k \in S : k <= b
  PROVE  Greatest(S) \in S /\ \A k \in S : k <= Greatest(S)
<1> DEFINE T == {b - k : k \in S}
<1>1. T \in SUBSET Nat /\ T # {}
  <2>1. \A k \in S : b - k \in Nat
    OBVIOUS
  <2> QED
    BY <2>1
<1>2. PICK t \in T : \A x \in T : t <= x
  BY <1>1, LeastNat
<1>3. PICK m \in S : t = b - m
  BY <1>2
<1>4. \A k \in S : k <= m
  <2> SUFFICES ASSUME NEW k \in S PROVE k <= m
    OBVIOUS
  <2>1. b - k \in T
    OBVIOUS
  <2> QED
    BY <2>1, <1>2, <1>3
<1> QED
  BY <1>4 DEF Greatest

\* The file a cleanup deletes next is the oldest of those it has left.
LEMMA OldestTodo ==
  ASSUME WalType, todo # {}
  PROVE  Oldest \in todo /\ Oldest \in Ids /\ Oldest \in Nat /\ \A j \in todo : Oldest <= j
<1>1. todo \in SUBSET Nat /\ todo \subseteq Ids
  BY DEF WalType
<1> QED
  BY <1>1, LeastNat DEF Oldest

-----------------------------------------------------------------------------
(* What a restart leaves: the synced files as they were, of the others a    *)
(* part and perhaps a torn record.                                          *)

RestartedFiles ==
  /\ segs' = [k \in Ids' |-> segs'[k]] /\ synced' = [k \in Ids' |-> synced'[k]]
  /\ cur' \in Nat /\ seg' = cur' /\ cur' \in Ids' /\ Ids' = Ids \cup {cur'}
  /\ \A k \in Ids' : k <= cur'
  /\ IF Ids = {} THEN cur' = 0 ELSE cur' \in Ids
  /\ \A k \in Ids' : /\ segs'[k] \in File
                     /\ synced'[k] \in Int /\ -1 <= synced'[k]
                     /\ synced'[k] <= Len(segs'[k].recs)
                     /\ segs'[k].hdr = "none" => k # cur' /\ segs'[k].recs = <<>>
                     /\ k \notin Ids => segs'[k].recs = <<>> /\ segs'[k].hdr = "ok"
  /\ count' \in Nat /\ phase' = "free" /\ entry' = 0 /\ todo' = {} /\ left' = 0

Restarted ==
  /\ RestartedFiles
  /\ \A k \in Ids :
       /\ Len(segs'[k].recs) <= Len(segs[k].recs)
       /\ \A i \in 1 .. Len(segs'[k].recs) :
            segs'[k].recs[i] <= 0 \/ segs'[k].recs[i] = segs[k].recs[i]
       /\ k \notin Unsynced /\ k # cur' => segs'[k] = segs[k] /\ synced'[k] = synced[k]
       /\ k \notin Unsynced => /\ segs'[k].recs = segs[k].recs
                               /\ segs'[k].hdr = "torn" => segs[k].hdr = "torn"

\* Opening the log again keeps every record that is in the files.
LEMMA ReopenFiles ==
  ASSUME WalType, NoCollision, NEW S, S = [k \in Ids |-> S[k]],
         \A k \in Ids : /\ S[k] \in File /\ synced[k] <= Len(S[k].recs)
                        /\ S[k].hdr = "none" => S[k].recs = <<>>,
         Reopen(S)
  PROVE  /\ RestartedFiles
         /\ \A k \in Ids : /\ segs'[k].recs = S[k].recs
                           /\ k # cur' => segs'[k] = S[k] /\ synced'[k] = synced[k]
                           /\ segs'[k].hdr = "torn" => S[k].hdr = "torn"
<1>1. DOMAIN S = Ids
  OBVIOUS
<1>2. PICK m : m = IF Ids = {} THEN 0 ELSE Greatest(Ids)
  OBVIOUS
<1>3. /\ m \in Nat /\ \A k \in Ids : k <= m
      /\ IF Ids = {} THEN m = 0 ELSE m \in Ids
  <2>1. Ids \in SUBSET Nat /\ seg \in Nat /\ \A k \in Ids : k <= seg
    BY DEF WalType, NoCollision
  <2>2. Ids # {} => Greatest(Ids) \in Ids /\ \A k \in Ids : k <= Greatest(Ids)
    BY <2>1, GreatestNat
  <2> QED
    BY <2>1, <2>2, <1>2
<1> DEFINE isNew == m \notin Ids \/ S[m].hdr = "none"
           D == Ids \cup {m}
<1>4. /\ segs' = [k \in D |-> IF k = m /\ isNew THEN Fresh ELSE S[k]]
      /\ synced' = [k \in D |-> IF k = m /\ isNew THEN -1 ELSE synced[k]]
      /\ cur' = m /\ seg' = m
      /\ count' \in 0 .. (IF isNew THEN 0 ELSE Len(S[m].recs))
      /\ phase' = "free" /\ entry' = 0 /\ todo' = {} /\ left' = 0
  BY <1>1, <1>2 DEF Reopen
<1>5. Fresh \in File /\ Fresh.hdr = "ok" /\ Fresh.recs = <<>> /\ Len(Fresh.recs) = 0
  BY EmptySeq DEF Fresh, File, Recording
<1>6. Ids' = D
  BY <1>4 DEF Ids
<1>7. \A k \in Ids : /\ S[k].recs \in Recording /\ Len(S[k].recs) \in Nat
                     /\ synced[k] \in Int /\ -1 <= synced[k]
  BY LenProperties DEF WalType, File, Recording
<1>8. \A k \in D : /\ k = m /\ isNew => segs'[k] = Fresh /\ synced'[k] = -1
                   /\ ~(k = m /\ isNew) => k \in Ids /\ segs'[k] = S[k] /\ synced'[k] = synced[k]
  BY <1>4
<1>9. count' \in Nat
  BY <1>4, <1>7
<1>10. segs' = [k \in Ids' |-> segs'[k]] /\ synced' = [k \in Ids' |-> synced'[k]]
  BY <1>4, <1>6
<1>11. \A k \in Ids : /\ segs'[k].recs = S[k].recs
                      /\ k # cur' => segs'[k] = S[k] /\ synced'[k] = synced[k]
                      /\ segs'[k].hdr = "torn" => S[k].hdr = "torn"
  BY <1>8, <1>5, <1>4
<1>12. \A k \in Ids' : /\ segs'[k] \in File
                       /\ synced'[k] \in Int /\ -1 <= synced'[k]
                       /\ synced'[k] <= Len(segs'[k].recs)
  <2> SUFFICES ASSUME NEW k \in D
               PROVE  /\ segs'[k] \in File
                      /\ synced'[k] \in Int /\ -1 <= synced'[k]
                      /\ synced'[k] <= Len(segs'[k].recs)
    BY <1>6
  <2>1. CASE k = m /\ isNew
    <3>1. segs'[k] = Fresh /\ synced'[k] = -1
      BY <2>1, <1>8
    <3>2. segs'[k] \in File /\ Len(segs'[k].recs) = 0
      BY <3>1, <1>5
    <3> QED
      BY <3>1, <3>2
  <2>2. CASE ~(k = m /\ isNew)
    <3>1. k \in Ids /\ segs'[k] = S[k] /\ synced'[k] = synced[k]
      BY <2>2, <1>8
    <3> QED
      BY <3>1, <1>7
  <2> QED
    BY <2>1, <2>2
<1>13. \A k \in Ids' : /\ segs'[k].hdr = "none" => k # cur' /\ segs'[k].recs = <<>>
                       /\ k \notin Ids => segs'[k].recs = <<>> /\ segs'[k].hdr = "ok"
  BY <1>8, <1>5, <1>6, <1>4
<1>14. /\ cur' \in Nat /\ seg' = cur' /\ cur' \in Ids' /\ Ids' = Ids \cup {cur'}
       /\ \A k \in Ids' : k <= cur'
       /\ IF Ids = {} THEN cur' = 0 ELSE cur' \in Ids
       /\ phase' = "free" /\ entry' = 0 /\ todo' = {} /\ left' = 0
  BY <1>3, <1>4, <1>6
<1>15. RestartedFiles
  BY <1>9, <1>10, <1>12, <1>13, <1>14 DEF RestartedFiles
<1> QED
  BY <1>11, <1>15

\* After a crash every record that was in a file is there.
LEMMA CrashFiles ==
  ASSUME WalType, Behind, Crash
  PROVE  Restarted /\ OnDisk \subseteq OnDisk'
<1>1. PICK S : S = segs
  OBVIOUS
<1>2. Reopen(S)
  BY <1>1 DEF Crash
<1>3. /\ S = [k \in Ids |-> S[k]]
      /\ \A k \in Ids : /\ S[k] \in File /\ synced[k] <= Len(S[k].recs)
                        /\ S[k].hdr = "none" => S[k].recs = <<>>
  BY <1>1 DEF WalType, Behind
<1>4. /\ RestartedFiles
      /\ \A k \in Ids : /\ segs'[k].recs = segs[k].recs
                        /\ k # cur' => segs'[k] = segs[k] /\ synced'[k] = synced[k]
                        /\ segs'[k].hdr = "torn" => segs[k].hdr = "torn"
  BY <1>1, <1>2, <1>3, ReopenFiles DEF Behind
<1>5. \A k \in Ids : Len(segs[k].recs) \in Nat
  BY LenProperties DEF WalType, File, Recording
<1>6. Ids \subseteq Ids'
  BY <1>4 DEF RestartedFiles
<1>7. OnDisk \subseteq OnDisk'
  BY <1>4, <1>6 DEF OnDisk
<1> QED
  BY <1>4, <1>5, <1>7 DEF Restarted

\* What a power failure leaves of a file: its synced records, and of the others
\* a beginning that may end in an incomplete one.
LEMMA SurvivorFile ==
  ASSUME WalType, Behind, NEW k \in Unsynced, NEW n \in Int,
         synced[k] <= n, n <= Len(segs[k].recs),
         NEW tail \in {<<>>, <<ShortTorn>>, <<LongTorn>>}, NEW f, f = Survivor(k, n, tail)
  PROVE  /\ f \in File /\ synced[k] <= Len(f.recs) /\ Len(f.recs) <= Len(segs[k].recs)
         /\ f.hdr = "none" => f.recs = <<>>
         /\ \A i \in 1 .. Len(f.recs) : f.recs[i] <= 0 \/ f.recs[i] = segs[k].recs[i]
<1>0. PICK r : r = segs[k].recs
  OBVIOUS
<1>1. /\ k \in Ids /\ segs[k].hdr \in {"ok", "none", "torn"} /\ r \in Seq(-1 .. MaxEntries)
      /\ Len(r) \in Nat /\ synced[k] \in Int /\ -1 <= synced[k]
      /\ segs[k].hdr = "none" => r = <<>>
  BY <1>0, LenProperties DEF Unsynced, WalType, File, Recording, Behind
<1>2. CASE n = -1
  <2>1. f = [hdr |-> IF tail = <<>> THEN "none" ELSE "torn", recs |-> <<>>]
    BY <1>2 DEF Survivor
  <2>2. f.recs = <<>> /\ Len(f.recs) = 0 /\ f \in File
    BY <2>1, EmptySeq DEF File, Recording
  <2> QED
    BY <2>2, <1>0, <1>1, <1>2
<1>3. CASE n # -1
  <2>1. n \in 0 .. Len(r)
    BY <1>0, <1>1, <1>3
  <2> DEFINE p == SubSeq(r, 1, n)
             t == IF n < Len(r) THEN tail ELSE <<>>
  <2>2. /\ p \in Seq(-1 .. MaxEntries) /\ Len(p) = n
        /\ \A i \in 1 .. n : p[i] = r[i]
    <3>1. \A i \in 1 .. n : r[i] \in -1 .. MaxEntries
      <4> SUFFICES ASSUME NEW i \in 1 .. n PROVE r[i] \in -1 .. MaxEntries
        OBVIOUS
      <4>1. i \in 1 .. Len(r)
        BY <2>1, <1>1
      <4> QED
        BY <4>1, <1>1, ElementOfSeq
    <3>2. /\ SubSeq(r, 1, n) \in Seq(-1 .. MaxEntries)
          /\ Len(SubSeq(r, 1, n)) = IF 1 <= n THEN n - 1 + 1 ELSE 0
          /\ \A i \in 1 .. n - 1 + 1 : SubSeq(r, 1, n)[i] = r[1 + i - 1]
      BY <3>1, SubSeqProperties
    <3>3. Len(SubSeq(r, 1, n)) = n
      BY <3>2, <2>1
    <3>4. \A i \in 1 .. n : SubSeq(r, 1, n)[i] = r[i]
      <4> SUFFICES ASSUME NEW i \in 1 .. n PROVE SubSeq(r, 1, n)[i] = r[i]
        OBVIOUS
      <4>1. i \in 1 .. n - 1 + 1 /\ 1 + i - 1 = i
        BY <2>1
      <4> QED
        BY <4>1, <3>2
    <3> QED
      BY <3>2, <3>3, <3>4
  <2>3. /\ t \in Seq(-1 .. MaxEntries) /\ Len(t) \in 0 .. 1
        /\ Len(t) = 1 => t[1] <= 0 /\ n < Len(r)
    <3>1. -1 \in -1 .. MaxEntries /\ 0 \in -1 .. MaxEntries
      BY WalBounds
    <3>2. /\ <<>> \in Seq(-1 .. MaxEntries) /\ Len(<<>>) = 0
          /\ <<-1>> \in Seq(-1 .. MaxEntries) /\ Len(<<-1>>) = 1 /\ <<-1>>[1] = -1
          /\ <<0>> \in Seq(-1 .. MaxEntries) /\ Len(<<0>>) = 1 /\ <<0>>[1] = 0
      BY <3>1
    <3>3. tail = <<>> \/ tail = <<0>> \/ tail = <<-1>>
      BY DEF ShortTorn, LongTorn
    <3>4. /\ tail \in Seq(-1 .. MaxEntries) /\ Len(tail) \in 0 .. 1
          /\ Len(tail) = 1 => tail[1] <= 0
      <4>1. CASE tail = <<>>
        BY <4>1, <3>2
      <4>2. CASE tail = <<0>>
        BY <4>2, <3>2
      <4>3. CASE tail = <<-1>>
        BY <4>3, <3>2
      <4> QED
        BY <3>3, <4>1, <4>2, <4>3
    <3>5. CASE n < Len(r)
      BY <3>4, <3>5
    <3>6. CASE ~(n < Len(r))
      BY <3>2, <3>6
    <3> QED
      BY <3>5, <3>6
  <2>4. f = [hdr |-> segs[k].hdr, recs |-> p \o t]
    BY <1>0, <1>3 DEF Survivor
  <2> HIDE DEF p, t
  <2>5. PICK c : c = p \o t
    OBVIOUS
  <2>6. /\ c \in Seq(-1 .. MaxEntries) /\ Len(c) = Len(p) + Len(t)
        /\ \A i \in 1 .. Len(p) + Len(t) : c[i] = IF i <= Len(p) THEN p[i] ELSE t[i - Len(p)]
    <3>1. p \in Seq(-1 .. MaxEntries) /\ t \in Seq(-1 .. MaxEntries)
      BY <2>2, <2>3
    <3>2. /\ p \o t \in Seq(-1 .. MaxEntries) /\ Len(p \o t) = Len(p) + Len(t)
          /\ \A i \in 1 .. Len(p) + Len(t) :
               (p \o t)[i] = IF i <= Len(p) THEN p[i] ELSE t[i - Len(p)]
      BY <3>1, ConcatProperties, Zenon
    <3> QED
      BY <2>5, <3>2, Zenon
  <2>7. f \in File /\ f.hdr = segs[k].hdr /\ f.recs = c
    BY <2>4, <2>5, <2>6, <1>1 DEF File, Recording
  <2>8. PICK l \in 0 .. 1 : l = Len(t)
    BY <2>3
  <2>9. Len(c) = n + l /\ n + l <= Len(r)
    <3>1. Len(c) = n + l
      BY <2>8, <2>6, <2>2
    <3>2. l = 1 => n < Len(r)
      BY <2>8, <2>3
    <3>3. l = 0 \/ l = 1
      BY <2>8
    <3> QED
      BY <3>1, <3>2, <3>3, <2>1, <1>1
  <2>10. \A i \in 1 .. Len(c) : c[i] <= 0 \/ c[i] = r[i]
    <3> SUFFICES ASSUME NEW i \in 1 .. n + l PROVE c[i] <= 0 \/ c[i] = r[i]
      BY <2>9
    <3>1. c[i] = IF i <= n THEN p[i] ELSE t[i - n]
      BY <2>6, <2>8, <2>2
    <3>2. CASE i <= n
      <4>1. i \in 1 .. n
        BY <3>2, <2>1
      <4> QED
        BY <3>1, <3>2, <4>1, <2>2
    <3>3. CASE i > n
      <4>1. l = 1 /\ i - n = 1 /\ ~(i <= n)
        BY <3>3, <2>1, <2>8
      <4> QED
        BY <4>1, <3>1, <2>3, <2>8
    <3> QED
      BY <3>2, <3>3, <2>1
  <2>11. f.hdr = "none" => c = <<>>
    <3> SUFFICES ASSUME f.hdr = "none" PROVE c = <<>>
      OBVIOUS
    <3>1. Len(r) = 0
      BY <2>7, <1>1, EmptySeq
    <3>2. Len(c) = 0
      BY <3>1, <2>9, <2>8, <2>1
    <3> QED
      BY <3>2, <2>6, EmptySeq
  <2>12. synced[k] <= Len(c) /\ Len(c) <= Len(r)
    BY <1>0, <2>9, <2>8, <2>1, <1>1
  <2> QED
    BY <1>0, <2>7, <2>10, <2>11, <2>12
<1> QED
  BY <1>2, <1>3

\* After a power failure the synced records of every file are there.
LEMMA PowerFailureFiles ==
  ASSUME WalType, Behind, PowerFailure
  PROVE  Restarted
<1>1. PICK keep \in [Unsynced -> -1 .. MaxEntries],
           tail \in {<<>>, <<ShortTorn>>, <<LongTorn>>} :
        /\ \A k \in Unsynced : synced[k] <= keep[k] /\ keep[k] <= Len(segs[k].recs)
        /\ Reopen([k \in Ids |-> IF k \in Unsynced THEN Survivor(k, keep[k], tail) ELSE segs[k]])
  BY DEF PowerFailure
<1>2. PICK S : S = [k \in Ids |-> IF k \in Unsynced THEN Survivor(k, keep[k], tail) ELSE segs[k]]
  OBVIOUS
<1>3. S = [k \in Ids |-> S[k]] /\ Reopen(S)
  BY <1>1, <1>2
<1>4. \A k \in Ids : /\ S[k] \in File /\ synced[k] <= Len(S[k].recs)
                     /\ S[k].hdr = "none" => S[k].recs = <<>>
                     /\ Len(S[k].recs) <= Len(segs[k].recs)
                     /\ \A i \in 1 .. Len(S[k].recs) : S[k].recs[i] <= 0 \/ S[k].recs[i] = segs[k].recs[i]
                     /\ k \notin Unsynced => S[k] = segs[k]
  <2> SUFFICES ASSUME NEW k \in Ids
               PROVE  /\ S[k] \in File /\ synced[k] <= Len(S[k].recs)
                      /\ S[k].hdr = "none" => S[k].recs = <<>>
                      /\ Len(S[k].recs) <= Len(segs[k].recs)
                      /\ \A i \in 1 .. Len(S[k].recs) : S[k].recs[i] <= 0 \/ S[k].recs[i] = segs[k].recs[i]
                      /\ k \notin Unsynced => S[k] = segs[k]
    OBVIOUS
  <2>1. CASE k \in Unsynced
    <3>1. S[k] = Survivor(k, keep[k], tail) /\ keep[k] \in Int
      BY <2>1, <1>1, <1>2
    <3> QED
      BY <2>1, <3>1, <1>1, SurvivorFile
  <2>2. CASE k \notin Unsynced
    <3>1. S[k] = segs[k]
      BY <2>2, <1>2
    <3>2. Len(segs[k].recs) \in Nat
      BY LenProperties DEF WalType, File, Recording
    <3> QED
      BY <3>1, <3>2 DEF WalType, Behind
  <2> QED
    BY <2>1, <2>2
<1>5. /\ RestartedFiles
      /\ \A k \in Ids : /\ segs'[k].recs = S[k].recs
                        /\ k # cur' => segs'[k] = S[k] /\ synced'[k] = synced[k]
                        /\ segs'[k].hdr = "torn" => S[k].hdr = "torn"
  BY <1>3, <1>4, ReopenFiles DEF Behind
<1> QED
  BY <1>4, <1>5 DEF Restarted

-----------------------------------------------------------------------------
(* Types.                                                                   *)

\* Records are entries or marks of incomplete ones.
LEMMA RecordTypes ==
  ASSUME WalType
  PROVE  /\ \A k \in Ids : Len(segs[k].recs) \in Nat
         /\ \A k \in Ids : \A i \in Positions(k) : segs[k].recs[i] \in -1 .. MaxEntries
         /\ \A k \in Ids : Entries(segs[k].recs) \subseteq 1 .. MaxEntries
         /\ OnDisk \subseteq 1 .. MaxEntries
<1>1. \A k \in Ids : segs[k].recs \in Seq(-1 .. MaxEntries)
  BY DEF WalType, File, Recording
<1>2. \A k \in Ids : Len(segs[k].recs) \in Nat
  BY <1>1, LenProperties
<1>3. \A k \in Ids : \A i \in 1 .. Len(segs[k].recs) : segs[k].recs[i] \in -1 .. MaxEntries
  BY <1>1, ElementOfSeq
<1>4. \A k \in Ids : Entries(segs[k].recs) \subseteq 1 .. MaxEntries
  BY <1>3, WalBounds DEF Entries
<1> QED
  BY <1>2, <1>3, <1>4 DEF Positions, OnDisk

\* The same of the state after a step.
LEMMA NextRecordTypes ==
  ASSUME WalType'
  PROVE  \A k \in Ids' : /\ segs'[k].recs \in Seq(-1 .. MaxEntries)
                         /\ Len(segs'[k].recs) \in Nat
                         /\ \A i \in 1 .. Len(segs'[k].recs) : segs'[k].recs[i] \in Int
<1>1. \A k \in Ids' : segs'[k].recs \in Seq(-1 .. MaxEntries)
  BY DEF WalType, File, Recording
<1>2. \A k \in Ids' : Len(segs'[k].recs) \in Nat
  BY <1>1, LenProperties
<1>3. \A k \in Ids' : \A i \in 1 .. Len(segs'[k].recs) : segs'[k].recs[i] \in -1 .. MaxEntries
  BY <1>1, ElementOfSeq
<1>4. -1 .. MaxEntries \subseteq Int
  BY WalBounds
<1> QED
  BY <1>1, <1>2, <1>3, <1>4

\* A sync covers the current file and no other.
LEMMA SyncCurType ==
  ASSUME WalType
  PROVE  /\ SyncCur = [k \in Ids |-> SyncCur[k]]
         /\ \A k \in Ids : SyncCur[k] = IF k = cur THEN Len(segs[k].recs) ELSE synced[k]
<1>1. CASE cur \in Ids
  <2>1. SyncCur = [synced EXCEPT ![cur] = Len(segs[cur].recs)]
    BY <1>1 DEF SyncCur, Recs
  <2> QED
    BY <2>1, <1>1 DEF WalType
<1>2. CASE cur \notin Ids
  BY <1>2 DEF SyncCur, WalType
<1> QED
  BY <1>1, <1>2

\* Every step keeps the types.
LEMMA WalTypeNext ==
  ASSUME WalType, Behind, Writing, Next
  PROVE  WalType'
<1> USE RecordTypes
<1>0. /\ SegmentEntries \in Nat /\ MinKeep \in Nat /\ MaxEntries \in Nat
  BY WalBounds
<1>1. CASE LogBegin
  <2>1. /\ Ids' = Ids /\ segs' = [k \in Ids |-> segs'[k]] /\ \A k \in Ids : segs'[k] \in File
        /\ \A k \in Ids : Len(segs[k].recs) <= Len(segs'[k].recs)
    BY <1>1, LogBeginFiles
  <2>2. \A k \in Ids : Len(segs'[k].recs) \in Nat
    BY <2>1, LenProperties DEF File, Recording
  <2>3. next' \in 0 .. MaxEntries /\ entry' \in 0 .. MaxEntries
    BY <1>0, <1>1, SMTT(30) DEF LogBegin, WalType
  <2> QED
    <3>1. synced' = synced /\ \A k \in Ids : synced[k] \in Int /\ -1 <= synced[k] /\ synced[k] <= Len(segs'[k].recs)
      <4>1. \A k \in Ids : synced[k] \in Int /\ -1 <= synced[k] /\ synced[k] <= Len(segs[k].recs)
        BY DEF WalType
      <4> QED
        BY <4>1, <1>1, <2>1, <2>2 DEF LogBegin
    <3>2. /\ UNCHANGED <<cur, seg, count, acked, cleanup, doomed, budget>> /\ phase' \in Phases
      BY <1>1 DEF LogBegin, Phases
    <3> QED
      BY <2>1, <2>3, <3>1, <3>2 DEF WalType, cleanup, budget
<1>2. CASE LogEnd
  <2>1. /\ Ids' = Ids /\ segs' = [k \in Ids |-> segs'[k]] /\ \A k \in Ids : segs'[k] \in File
        /\ \A k \in Ids : Len(segs[k].recs) = Len(segs'[k].recs)
    BY <1>2, LogEndFiles
  <2>2. count' \in Nat /\ phase' \in Phases
    BY <1>2 DEF LogEnd, Done, WalType, Phases
  <2>3. acked' \subseteq 1 .. MaxEntries
    BY <1>2 DEF LogEnd, Done, WalType
  <2> QED
    BY <1>2, <2>1, <2>2, <2>3 DEF LogEnd, WalType, cleanup, budget
<1>3. CASE LogFails \/ RotateCall
  <2>1. UNCHANGED <<segs, synced, cur, seg, count, next, acked, cleanup, doomed, crashes, powerFailures>> /\ Ids' = Ids
    BY <1>3 DEF LogFails, RotateCall, budget, Ids
  <2>2. faults' \in Nat /\ phase' \in Phases /\ entry' \in 0 .. MaxEntries
    BY <1>0, <1>3, SMTT(30) DEF LogFails, RotateCall, budget, Phases, WalType
  <2> QED
    BY <2>1, <2>2 DEF WalType, cleanup
<1>4. CASE RotateCreate
  <2>1. /\ Ids' = Ids \cup {seg + 1} /\ seg + 1 \notin Ids
        /\ segs' = [k \in Ids' |-> segs'[k]] /\ synced' = [k \in Ids' |-> synced'[k]]
        /\ \A k \in Ids' : segs'[k] \in File
    BY <1>4, RotateCreateFiles
  <2>2. \A k \in Ids' : synced'[k] \in Int /\ -1 <= synced'[k] /\ synced'[k] <= Len(segs'[k].recs)
    <3> SUFFICES ASSUME NEW k \in Ids \cup {seg + 1}
                 PROVE  synced'[k] \in Int /\ -1 <= synced'[k] /\ synced'[k] <= Len(segs'[k].recs)
      BY <2>1
    <3>1. CASE k = seg + 1
      <4>1. synced'[k] = -1 /\ Len(segs'[k].recs) = 0
        BY <3>1, <1>4, RotateCreateFiles
      <4> QED
        BY <4>1
    <3>2. CASE k \in Ids
      <4>1. segs'[k] = segs[k] /\ synced'[k] = IF k = cur THEN Len(segs[k].recs) ELSE synced[k]
        BY <3>2, <1>4, RotateCreateFiles
      <4>2. synced[k] \in Int /\ -1 <= synced[k] /\ synced[k] <= Len(segs[k].recs) /\ Len(segs[k].recs) \in Nat
        BY <3>2 DEF WalType
      <4> QED
        BY <4>1, <4>2
    <3> QED
      BY <3>1, <3>2
  <2>3. Ids' \subseteq Nat /\ IsFiniteSet(Ids')
    BY <2>1, FS_AddElement DEF WalType
  <2>4. /\ seg' = seg + 1 /\ count' = 0 /\ phase' = "header"
        /\ UNCHANGED <<cur, entry, next, acked, cleanup, doomed, budget>>
    BY <1>4 DEF RotateCreate
  <2>5. seg' \in Nat /\ count' \in Nat /\ phase' \in Phases
    BY <2>4 DEF WalType, Phases
  <2> QED
    BY <2>1, <2>2, <2>3, <2>4, <2>5 DEF WalType, cleanup, budget
<1>5. CASE RotateHeader
  <2>1. /\ Ids' = Ids /\ segs' = [k \in Ids |-> segs'[k]]
        /\ \A k \in Ids : segs'[k] \in File /\ segs'[k].recs = segs[k].recs
    BY <1>5, RotateHeaderFiles
  <2>2. acked' \subseteq 1 .. MaxEntries
    BY <1>5 DEF RotateHeader, Done, WalType
  <2> QED
    BY <1>5, <2>1, <2>2 DEF RotateHeader, Done, WalType, cleanup, budget, Phases
<1>6. CASE RotateFails \/ Sync
  <2>1. synced' = SyncCur \/ synced' = synced
    BY <1>6 DEF RotateFails, Sync
  <2>2. synced' = [k \in Ids |-> synced'[k]]
    BY <2>1, SyncCurType DEF WalType
  <2>3. \A k \in Ids : synced'[k] = synced[k] \/ synced'[k] = Len(segs[k].recs)
    BY <2>1, SyncCurType
  <2>4. \A k \in Ids : synced'[k] \in Int /\ -1 <= synced'[k] /\ synced'[k] <= Len(segs[k].recs)
    BY <2>3, SMTT(30) DEF WalType
  <2>5. seg' \in Nat /\ count' \in Nat /\ phase' \in Phases /\ faults' \in Nat
    BY <1>6 DEF RotateFails, Sync, WalType, Phases, budget
  <2>6. UNCHANGED <<segs, cur, entry, next, acked, cleanup, doomed, crashes, powerFailures>> /\ Ids' = Ids
    BY <1>6 DEF RotateFails, Sync, budget, Ids
  <2> QED
    BY <2>2, <2>4, <2>5, <2>6 DEF WalType, cleanup
<1>7. CASE Crash \/ PowerFailure
  <2>1. RestartedFiles
    BY <1>7, CrashFiles, PowerFailureFiles DEF Restarted
  <2>2. Ids' \subseteq Nat /\ IsFiniteSet(Ids')
    BY <2>1, FS_AddElement DEF RestartedFiles, WalType
  <2>3. /\ UNCHANGED <<next, acked, cleaned, faults>>
        /\ crashes' \in Nat /\ powerFailures' \in Nat
    BY <1>7 DEF Crash, PowerFailure, WalType
  <2>4. doomed' \subseteq 1 .. MaxEntries
    BY <1>7 DEF Crash, PowerFailure, WalType
  <2> QED
    <3>1. /\ cur' \in Nat /\ seg' \in Nat /\ count' \in Nat /\ phase' \in Phases
          /\ entry' \in 0 .. MaxEntries /\ left' \in Nat /\ todo' \subseteq Ids'
      BY <2>1, <1>0 DEF RestartedFiles, Phases
    <3>2. /\ segs' = [k \in Ids' |-> segs'[k]] /\ synced' = [k \in Ids' |-> synced'[k]]
          /\ \A k \in Ids' : /\ segs'[k] \in File
                             /\ synced'[k] \in Int /\ -1 <= synced'[k] /\ synced'[k] <= Len(segs'[k].recs)
      BY <2>1 DEF RestartedFiles
    <3> QED
      BY <3>1, <3>2, <2>2, <2>3, <2>4 DEF WalType
<1>8. CASE CleanupDelete
  <2>1. Oldest \in Ids
    BY <1>8, OldestTodo DEF CleanupDelete
  <2>2. /\ Ids' = Ids \ {Oldest}
        /\ segs' = [k \in Ids' |-> segs'[k]] /\ synced' = [k \in Ids' |-> synced'[k]]
        /\ \A k \in Ids' : segs'[k] = segs[k] /\ synced'[k] = synced[k] /\ segs'[k] \in File
    BY <1>8, DeleteFiles
  <2>3. Ids' \subseteq Nat /\ IsFiniteSet(Ids')
    BY <2>2, FS_RemoveElement DEF WalType
  <2>4. cleaned' \subseteq 1 .. MaxEntries
    BY <1>8 DEF CleanupDelete, WalType
  <2>5. left' \in Nat /\ todo' \subseteq Ids'
    BY <1>8, <2>2, <1>0, SMTT(30) DEF CleanupDelete, WalType
  <2> QED
    BY <1>8, <2>2, <2>3, <2>4, <2>5 DEF CleanupDelete, WalType, budget
<1>9. CASE CleanupStart \/ CleanupDeleteFails \/ CleanupStop
  <2>1. UNCHANGED writer /\ Ids' = Ids
    BY <1>9 DEF CleanupStart, CleanupDeleteFails, CleanupStop, writer, Ids
  <2>2. Cardinality(Ids) \in Nat
    BY FS_CardinalityType DEF WalType
  <2>3. todo' \subseteq Ids /\ left' \in Nat /\ faults' \in Nat
    BY <1>9, <2>2, SMTT(30) DEF CleanupStart, CleanupDeleteFails, CleanupStop, WalType, budget
  <2>4. UNCHANGED <<cleaned, doomed, crashes, powerFailures>>
    BY <1>9 DEF CleanupStart, CleanupDeleteFails, CleanupStop, budget
  <2> QED
    BY <2>1, <2>3, <2>4 DEF WalType, writer
<1> QED
  BY <1>1, <1>2, <1>3, <1>4, <1>5, <1>6, <1>7, <1>8, <1>9 DEF Next

-----------------------------------------------------------------------------
(* Order.                                                                   *)

\* Every entry in the files stood at the same place before.
NoneAdded ==
  \A k \in Ids' : \A i \in 1 .. Len(segs'[k].recs) :
    \/ segs'[k].recs[i] <= 0
    \/ k \in Ids /\ i \in Positions(k) /\ segs'[k].recs[i] = segs[k].recs[i]

\* Only the end of an append adds an entry to the files.
LEMMA NoneAddedNext ==
  ASSUME WalType, Behind, Writing, Next, ~LogEnd
  PROVE  NoneAdded
<1> USE RecordTypes DEF NoneAdded, Positions
<1>1. CASE LogBegin
  <2> SUFFICES ASSUME NEW k \in Ids, NEW i \in 1 .. Len(segs'[k].recs)
               PROVE  \/ segs'[k].recs[i] <= 0
                      \/ i \in Positions(k) /\ segs'[k].recs[i] = segs[k].recs[i]
    BY <1>1, LogBeginFiles
  <2>1. CASE k # cur
    BY <2>1, <1>1, LogBeginFiles
  <2>2. CASE k = cur
    <3>1. /\ Len(segs'[k].recs) = Len(segs[k].recs) + 1
          /\ \A j \in Positions(k) : segs'[k].recs[j] = segs[k].recs[j]
          /\ segs'[k].recs[Len(segs[k].recs) + 1] = LongTorn
      BY <2>2, <1>1, LogBeginFiles
    <3>2. CASE i \in Positions(k)
      BY <3>1, <3>2
    <3>3. CASE i \notin Positions(k)
      <4>1. i = Len(segs[k].recs) + 1
        BY <3>3, <3>1
      <4> QED
        BY <4>1, <3>1 DEF LongTorn
    <3> QED
      BY <3>2, <3>3
  <2> QED
    BY <2>1, <2>2
<1>2. CASE segs' = segs
  BY <1>2 DEF Ids
<1>3. CASE RotateCreate
  <2>1. /\ Ids' = Ids \cup {seg + 1} /\ Len(segs'[seg + 1].recs) = 0
        /\ \A k \in Ids : segs'[k] = segs[k]
    BY <1>3, RotateCreateFiles
  <2>2. \A i \in 1 .. Len(segs'[seg + 1].recs) : FALSE
    BY <2>1
  <2> QED
    BY <2>1, <2>2
<1>4. CASE RotateHeader
  BY <1>4, RotateHeaderFiles
<1>5. CASE Crash \/ PowerFailure
  <2>1. Restarted
    BY <1>5, CrashFiles, PowerFailureFiles
  <2> SUFFICES ASSUME NEW k \in Ids', NEW i \in 1 .. Len(segs'[k].recs)
               PROVE  \/ segs'[k].recs[i] <= 0
                      \/ k \in Ids /\ i \in Positions(k) /\ segs'[k].recs[i] = segs[k].recs[i]
    OBVIOUS
  <2>2. CASE k \in Ids
    <3>1. /\ Len(segs'[k].recs) <= Len(segs[k].recs)
          /\ segs'[k].recs[i] <= 0 \/ segs'[k].recs[i] = segs[k].recs[i]
      BY <2>1, <2>2 DEF Restarted
    <3>2. segs'[k].recs \in Seq(-1 .. MaxEntries)
      BY <2>1 DEF Restarted, RestartedFiles, File, Recording
    <3>3. Len(segs'[k].recs) \in Nat /\ Len(segs[k].recs) \in Nat
      BY <3>2, <2>2, LenProperties
    <3> QED
      BY <3>1, <3>3, <2>2
  <2>3. CASE k \notin Ids
    <3>1. segs'[k].recs = <<>> /\ Len(<<>>) = 0
      BY <2>1, <2>3, EmptySeq DEF Restarted, RestartedFiles
    <3> QED
      BY <3>1
  <2> QED
    BY <2>2, <2>3
<1>6. CASE CleanupDelete
  BY <1>6, DeleteFiles
<1>7. LogFails \/ RotateCall \/ RotateFails \/ Sync \/ CleanupStart \/ CleanupDeleteFails \/ CleanupStop
        => segs' = segs
  BY DEF LogFails, RotateCall, RotateFails, Sync, CleanupStart, CleanupDeleteFails, CleanupStop, writer
<1> QED
  BY <1>1, <1>2, <1>3, <1>4, <1>5, <1>6, <1>7 DEF Next

\* Every step keeps the entries in the order in which they were submitted.
LEMMA InOrderNext ==
  ASSUME WalType, OrderInv, Next, WalType'
  PROVE  RecoveredInOrder'
<1>1. CASE ~LogEnd
  <2>1. NoneAdded
    BY <1>1, NoneAddedNext DEF OrderInv
  <2> SUFFICES ASSUME NEW j \in Ids', NEW k \in Ids',
                      NEW x \in 1 .. Len(segs'[j].recs), NEW y \in 1 .. Len(segs'[k].recs),
                      j < k \/ (j = k /\ x < y), segs'[j].recs[x] > 0, segs'[k].recs[y] > 0
               PROVE  segs'[j].recs[x] < segs'[k].recs[y]
    BY DEF RecoveredInOrder
  <2>2. segs'[j].recs[x] \in Int /\ segs'[k].recs[y] \in Int
    BY NextRecordTypes
  <2>3. /\ j \in Ids /\ x \in 1 .. Len(segs[j].recs) /\ segs'[j].recs[x] = segs[j].recs[x]
        /\ k \in Ids /\ y \in 1 .. Len(segs[k].recs) /\ segs'[k].recs[y] = segs[k].recs[y]
    BY <2>1, <2>2, SMTT(30) DEF NoneAdded, Positions
  <2> QED
    BY <2>3 DEF OrderInv, RecoveredInOrder
<1>2. CASE LogEnd
  <2>1. /\ Ids' = Ids /\ \A k \in Ids : k # cur => segs'[k] = segs[k]
        /\ \A k \in Ids : Len(segs'[k].recs) = Len(segs[k].recs)
        /\ cur \in Ids =>
              /\ \A i \in Positions(cur) : i # Len(segs[cur].recs)
                    => segs'[cur].recs[i] = segs[cur].recs[i]
              /\ segs'[cur].recs[Len(segs[cur].recs)] = next
    BY <1>2, LogEndFiles DEF OrderInv, Writing, LogEnd
  <2>2. \A k \in Ids : \A i \in Positions(k) :
          \/ segs'[k].recs[i] = segs[k].recs[i] /\ segs'[k].recs[i] < next
          \/ k = cur /\ i = Len(segs[k].recs) /\ segs'[k].recs[i] = next
    BY <2>1, <1>2 DEF OrderInv, Submitted, LogEnd
  <2> SUFFICES ASSUME NEW j \in Ids, NEW k \in Ids,
                      NEW x \in Positions(j), NEW y \in Positions(k),
                      j < k \/ (j = k /\ x < y), segs'[j].recs[x] > 0, segs'[k].recs[y] > 0
               PROVE  segs'[j].recs[x] < segs'[k].recs[y]
    BY <2>1 DEF RecoveredInOrder, Positions
  <2>3. j \in Nat /\ k \in Nat /\ cur \in Nat /\ Len(segs[j].recs) \in Nat /\ Len(segs[k].recs) \in Nat
    BY RecordTypes DEF WalType
  <2>4. ~(j = cur /\ x = Len(segs[j].recs))
    <3> SUFFICES ASSUME j = cur, x = Len(segs[j].recs) PROVE FALSE
      OBVIOUS
    <3>1. CASE j < k
      <4>1. segs[k].recs = <<>> /\ Len(<<>>) = 0
        BY <3>1, EmptySeq DEF OrderInv, Behind
      <4> QED
        BY <4>1 DEF Positions
    <3>2. CASE j = k /\ x < y
      BY <3>2, <2>3 DEF Positions
    <3> QED
      BY <3>1, <3>2
  <2>5. segs'[j].recs[x] = segs[j].recs[x] /\ segs'[j].recs[x] < next
    BY <2>2, <2>4
  <2>6. CASE segs'[k].recs[y] = next
    BY <2>5, <2>6
  <2>7. CASE segs'[k].recs[y] = segs[k].recs[y]
    BY <2>5, <2>7 DEF OrderInv, RecoveredInOrder, Positions
  <2> QED
    BY <2>2, <2>6, <2>7
<1> QED
  BY <1>1, <1>2

\* Every step keeps the files free of entries nobody submitted.
LEMMA SubmittedNext ==
  ASSUME WalType, OrderInv, Next, WalType'
  PROVE  Submitted'
<1> SUFFICES ASSUME NEW k \in Ids', NEW i \in 1 .. Len(segs'[k].recs)
             PROVE  segs'[k].recs[i] <= next' /\ (phase' = "data" => segs'[k].recs[i] < next')
  BY DEF Submitted, Positions
<1>1. next \in Nat /\ next' \in Nat
  BY DEF WalType
<1>2. segs'[k].recs[i] \in Int
  BY NextRecordTypes
<1>3. \/ LogBegin /\ phase' = "data" /\ next' = next + 1
      \/ next' = next /\ phase' # "data"
      \/ next' = next /\ phase = "data" /\ phase' = "data" /\ ~LogEnd
  <2>1. CASE LogBegin
    BY <2>1 DEF LogBegin
  <2>2. CASE LogEnd \/ LogFails \/ RotateCall \/ RotateCreate \/ RotateHeader \/ RotateFails \/ Sync
    BY <2>2 DEF LogEnd, LogFails, RotateCall, RotateCreate, RotateHeader, RotateFails, Sync, Done
  <2>3. CASE Crash \/ PowerFailure
    BY <2>3, CrashFiles, PowerFailureFiles DEF OrderInv, Crash, PowerFailure, Restarted, RestartedFiles
  <2>4. CASE CleanupStart \/ CleanupDelete \/ CleanupDeleteFails \/ CleanupStop
    <3>1. next' = next /\ phase' = phase
      BY <2>4 DEF CleanupStart, CleanupDelete, CleanupDeleteFails, CleanupStop, writer
    <3>2. LogEnd => phase' # "data"
      BY DEF LogEnd, Done
    <3> QED
      BY <3>1, <3>2
  <2> QED
    BY <2>1, <2>2, <2>3, <2>4 DEF Next
<1>4. CASE ~LogEnd
  <2>1. \/ segs'[k].recs[i] <= 0
        \/ k \in Ids /\ i \in Positions(k) /\ segs'[k].recs[i] = segs[k].recs[i]
    BY <1>4, NoneAddedNext DEF NoneAdded, OrderInv
  <2>2. phase = "data" => next > 0
    BY DEF OrderInv, Writing
  <2>3. k \in Ids /\ i \in Positions(k)
          => segs[k].recs[i] <= next /\ (phase = "data" => segs[k].recs[i] < next)
    BY DEF OrderInv, Submitted
  <2> QED
    BY <2>1, <2>2, <2>3, <1>1, <1>2, <1>3
<1>5. CASE LogEnd
  <2>1. /\ Ids' = Ids /\ \A n \in Ids : n # cur => segs'[n] = segs[n]
        /\ Len(segs'[k].recs) = Len(segs[k].recs)
        /\ cur \in Ids =>
              /\ \A x \in Positions(cur) : x # Len(segs[cur].recs)
                    => segs'[cur].recs[x] = segs[cur].recs[x]
              /\ segs'[cur].recs[Len(segs[cur].recs)] = next
    BY <1>5, LogEndFiles DEF OrderInv, Writing, LogEnd
  <2>2. k \in Ids /\ i \in Positions(k) /\ (segs'[k].recs[i] = segs[k].recs[i] \/ segs'[k].recs[i] = next)
    BY <2>1 DEF Positions
  <2>3. next' = next /\ phase' # "data"
    BY <1>5 DEF LogEnd, Done
  <2> QED
    BY <2>2, <2>3, <1>1 DEF OrderInv, Submitted
<1> QED
  BY <1>4, <1>5

\* Every step keeps the running append's record the last of the current file.
LEMMA WritingNext ==
  ASSUME WalType, OrderInv, Next, WalType'
  PROVE  Writing'
<1> USE DEF OrderInv
<1>1. CASE LogBegin
  <2>1. /\ entry' = next' /\ next' > 0 /\ cur' = cur
    BY <1>1 DEF LogBegin, WalType
  <2>2. Ids' = Ids /\ (cur \in Ids => Len(segs'[cur].recs) = Len(segs[cur].recs) + 1
                                      /\ segs'[cur].recs[Len(segs[cur].recs) + 1] = LongTorn)
    BY <1>1, LogBeginFiles
  <2>3. cur \in Ids => Len(segs'[cur].recs) # 0
    BY <2>2, RecordTypes
  <2>4. cur \in Ids => segs'[cur].recs # <<>>
    BY <2>3, EmptySeq
  <2> QED
    BY <2>1, <2>2, <2>4 DEF Writing
<1>2. CASE phase' # "data"
  BY <1>2 DEF Writing
<1>3. CASE CleanupStart \/ CleanupDeleteFails \/ CleanupStop
  BY <1>3 DEF Writing, CleanupStart, CleanupDeleteFails, CleanupStop, writer, Ids
<1>4. CASE CleanupDelete
  <2>1. Ids' \subseteq Ids /\ \A k \in Ids' : segs'[k] = segs[k]
    BY <1>4, DeleteFiles
  <2>2. UNCHANGED <<cur, phase, entry, next>>
    BY <1>4 DEF CleanupDelete
  <2> QED
    BY <2>1, <2>2 DEF Writing
<1>5. LogEnd \/ LogFails \/ RotateCall \/ RotateCreate \/ RotateHeader \/ RotateFails \/ Sync => phase' # "data"
  BY DEF LogEnd, LogFails, RotateCall, RotateCreate, RotateHeader, RotateFails, Sync, Done
<1>6. Crash \/ PowerFailure => phase' # "data"
  BY CrashFiles, PowerFailureFiles DEF Restarted, RestartedFiles
<1> QED
  BY <1>1, <1>2, <1>3, <1>4, <1>5, <1>6 DEF Next

\* Every step keeps the files above the current one empty and the segment numbers apart.
LEMMA BehindNext ==
  ASSUME WalType, OrderInv, Next, WalType'
  PROVE  Behind'
<1> USE DEF OrderInv
<1>0. cur \in Nat /\ seg \in Nat /\ Ids \subseteq Nat
  BY DEF WalType
<1>1. CASE LogBegin \/ LogEnd
  <2>1. /\ Ids' = Ids /\ \A k \in Ids : k # cur => segs'[k] = segs[k]
        /\ \A k \in Ids : segs'[k].hdr = segs[k].hdr
    BY <1>1, LogBeginFiles, LogEndFiles
  <2>2. cur' = cur /\ seg' = seg /\ phase' # "header"
    BY <1>1 DEF LogBegin, LogEnd, Done
  <2>3. \A k \in Ids : k > cur => segs'[k].recs = <<>>
    BY <2>1, <1>0 DEF Behind
  <2>4. \A k \in Ids : segs'[k].hdr = "none" => segs'[k].recs = <<>>
    BY <2>1 DEF Behind
  <2> QED
    BY <2>1, <2>2, <2>3, <2>4 DEF Behind, NoCollision
<1>2. CASE LogFails \/ RotateCall \/ RotateFails \/ Sync
  <2>1. segs' = segs /\ Ids' = Ids /\ cur' = cur /\ phase' # "header" /\ (seg' = seg \/ seg' = seg + 1)
    BY <1>2 DEF LogFails, RotateCall, RotateFails, Sync, Ids
  <2> QED
    BY <2>1, <1>0 DEF Behind, NoCollision
<1>3. CASE RotateCreate
  <2>1. /\ Ids' = Ids \cup {seg + 1} /\ segs'[seg + 1].recs = <<>>
        /\ \A k \in Ids : segs'[k] = segs[k]
        /\ seg + 1 \notin Ids
    BY <1>3, RotateCreateFiles
  <2>2. cur' = cur /\ seg' = seg + 1 /\ phase' = "header"
    BY <1>3 DEF RotateCreate
  <2>3. cur \in Ids' => cur \in Ids
    BY <2>1, <1>0 DEF Behind
  <2> QED
    BY <2>1, <2>2, <2>3, <1>0 DEF Behind, NoCollision
<1>4. CASE RotateHeader
  <2>1. /\ Ids' = Ids
        /\ \A k \in Ids : segs'[k].recs = segs[k].recs
        /\ \A k \in Ids : segs'[k].hdr = IF k = seg THEN "ok" ELSE segs[k].hdr
    BY <1>4, RotateHeaderFiles
  <2>2. cur' = seg /\ seg' = seg /\ phase' = "free" /\ cur < seg
    BY <1>4 DEF RotateHeader, Done, Behind
  <2>3. \A k \in Ids : k <= seg /\ ~(k > seg)
    BY <1>0 DEF Behind, NoCollision
  <2>4. \A k \in Ids : segs'[k].hdr = "none" => segs'[k].recs = <<>> /\ k # seg
    BY <2>1 DEF Behind
  <2>5. NoCollision' /\ cur' <= seg' /\ (phase' = "header" => cur' < seg')
    BY <1>0, <2>1, <2>2, <2>3 DEF NoCollision
  <2>6. \A k \in Ids' : k > cur' => segs'[k].recs = <<>>
    BY <2>1, <2>2, <2>3
  <2>7. \A k \in Ids' : segs'[k].hdr = "none" => segs'[k].recs = <<>>
    BY <2>1, <2>4
  <2>8. cur' \in Ids' => segs'[cur'].hdr # "none"
    BY <2>1, <2>2
  <2> QED
    BY <2>5, <2>6, <2>7, <2>8 DEF Behind
<1>5. CASE Crash \/ PowerFailure
  <2>1. RestartedFiles
    BY <1>5, CrashFiles, PowerFailureFiles DEF Restarted
  <2>2. \A k \in Ids' : k <= cur' /\ ~(k > cur')
    BY <2>1, SMTT(30) DEF WalType, RestartedFiles
  <2>3. /\ seg' = cur' /\ cur' <= seg' /\ phase' = "free" /\ cur' \in Ids'
        /\ \A k \in Ids' : segs'[k].hdr = "none" => k # cur' /\ segs'[k].recs = <<>>
    BY <2>1 DEF RestartedFiles
  <2> QED
    BY <2>2, <2>3 DEF Behind, NoCollision
<1>6. CASE CleanupDelete
  <2>1. Ids' \subseteq Ids /\ \A k \in Ids' : segs'[k] = segs[k]
    BY <1>6, DeleteFiles
  <2>2. UNCHANGED <<cur, seg, phase>>
    BY <1>6 DEF CleanupDelete
  <2> QED
    BY <2>1, <2>2 DEF Behind, NoCollision
<1>7. CASE CleanupStart \/ CleanupDeleteFails \/ CleanupStop
  BY <1>7 DEF Behind, NoCollision, CleanupStart, CleanupDeleteFails, CleanupStop, writer, Ids
<1> QED
  BY <1>1, <1>2, <1>3, <1>4, <1>5, <1>6, <1>7 DEF Next

\* Every step keeps the four facts about order.
LEMMA OrderInvNext ==
  ASSUME WalType, OrderInv, Next, WalType'
  PROVE  OrderInv'
BY BehindNext, WritingNext, SubmittedNext, InOrderNext DEF OrderInv

-----------------------------------------------------------------------------
(* Damage.                                                                  *)

\* A step puts at most the current file at risk, and only if it fails, crashes
\* or loses power.
LEMMA AtRiskNext ==
  ASSUME WalType, OrderInv, Next, WalType'
  PROVE  \/ AtRisk' \subseteq AtRisk
         \/ (LogFails \/ RotateFails \/ Crash \/ PowerFailure) /\ AtRisk' \subseteq AtRisk \cup {Live}
<1> USE RecordTypes DEF OrderInv
<1>0. cur \in Nat /\ seg \in Nat /\ Ids \subseteq Nat
  BY DEF WalType
<1>1. CASE LogBegin
  <2>1. /\ Ids' = Ids /\ \A k \in Ids : k # cur => segs'[k] = segs[k]
        /\ \A k \in Ids : segs'[k].hdr = segs[k].hdr
        /\ cur \in Ids =>
              /\ Len(segs'[cur].recs) = Len(segs[cur].recs) + 1
              /\ \A i \in Positions(cur) : segs'[cur].recs[i] = segs[cur].recs[i]
    BY <1>1, LogBeginFiles
  <2>2. /\ phase = "free" /\ phase' = "data" /\ cur' = cur /\ synced' = synced
    BY <1>1 DEF LogBegin
  <2>3. Live = cur /\ Live' = cur
    BY <2>2 DEF Live
  <2> SUFFICES ASSUME NEW k \in Ids, k \in AtRisk' PROVE Torn(k) \/ (synced[k] < Len(segs[k].recs) /\ k # cur)
    BY <2>1, <2>3 DEF AtRisk
  <2>4. Torn(k)' \/ (synced[k] < Len(segs'[k].recs) /\ k # cur)
    BY <2>2, <2>3 DEF AtRisk
  <2>5. CASE k # cur
    BY <2>1, <2>2, <2>4, <2>5 DEF Torn, Positions
  <2>6. CASE k = cur
    <3>1. CASE segs'[k].hdr = "torn"
      BY <3>1, <2>1 DEF Torn
    <3>2. CASE \E i \in 1 .. Len(segs'[k].recs) : segs'[k].recs[i] <= 0 /\ i # Len(segs'[k].recs)
      <4>1. PICK i \in 1 .. Len(segs'[k].recs) : segs'[k].recs[i] <= 0 /\ i # Len(segs'[k].recs)
        BY <3>2
      <4>2. i \in Positions(k)
        BY <4>1, <2>1, <2>6 DEF Positions
      <4>3. segs[k].recs[i] <= 0
        BY <4>1, <4>2, <2>1, <2>6
      <4> QED
        BY <4>2, <4>3, <2>2 DEF Torn
    <3> QED
      BY <3>1, <3>2, <2>2, <2>4, <2>6 DEF Torn, Positions
  <2> QED
    BY <2>5, <2>6
<1>2. CASE LogEnd
  <2>1. /\ Ids' = Ids /\ \A k \in Ids : k # cur => segs'[k] = segs[k]
        /\ \A k \in Ids : segs'[k].hdr = segs[k].hdr
        /\ cur \in Ids =>
              /\ Len(segs'[cur].recs) = Len(segs[cur].recs)
              /\ \A i \in Positions(cur) : i # Len(segs[cur].recs)
                    => segs'[cur].recs[i] = segs[cur].recs[i]
              /\ segs'[cur].recs[Len(segs[cur].recs)] = entry
    BY <1>2, LogEndFiles
  <2>2. /\ phase = "data" /\ (phase' = "free" \/ phase' = "rotate") /\ cur' = cur /\ synced' = synced
        /\ entry = next /\ next > 0 /\ next \in Nat
    BY <1>2 DEF LogEnd, Done, Writing, WalType
  <2>3. Live = cur /\ Live' = cur
    BY <2>2 DEF Live
  <2> SUFFICES ASSUME NEW k \in Ids, k \in AtRisk' PROVE Torn(k) \/ (synced[k] < Len(segs[k].recs) /\ k # cur)
    BY <2>1, <2>3 DEF AtRisk
  <2>4. Torn(k)' \/ (synced[k] < Len(segs'[k].recs) /\ k # cur)
    BY <2>2, <2>3 DEF AtRisk
  <2>5. CASE k # cur
    BY <2>1, <2>2, <2>4, <2>5 DEF Torn, Positions
  <2>6. CASE k = cur
    <3>1. CASE segs'[k].hdr = "torn"
      BY <3>1, <2>1 DEF Torn
    <3>2. CASE \E i \in 1 .. Len(segs'[k].recs) : segs'[k].recs[i] <= 0
      <4>1. PICK i \in 1 .. Len(segs'[k].recs) : segs'[k].recs[i] <= 0
        BY <3>2
      <4>2. i \in Positions(k)
        BY <4>1, <2>1, <2>6 DEF Positions
      <4>3. i # Len(segs[k].recs)
        BY <4>1, <2>1, <2>2, <2>6
      <4>4. segs[k].recs[i] <= 0
        BY <4>1, <4>2, <4>3, <2>1, <2>6
      <4> QED
        BY <4>2, <4>3, <4>4, <2>2 DEF Torn
    <3> QED
      BY <3>1, <3>2, <2>4, <2>6 DEF Torn, Positions
  <2> QED
    BY <2>5, <2>6
<1>3. CASE LogFails \/ RotateFails
  <2>1. /\ UNCHANGED <<segs, cur>> /\ Ids' = Ids /\ phase' = "free" /\ Live' = cur
    BY <1>3 DEF LogFails, RotateFails, Ids, Live
  <2>2. \A k \in Ids : synced'[k] = synced[k] \/ synced'[k] = Len(segs[k].recs)
    BY <1>3, SyncCurType DEF LogFails, RotateFails
  <2> SUFFICES ASSUME NEW k \in AtRisk', k # Live PROVE k \in AtRisk
    BY <1>3
  <2>3. k \in Ids /\ (Torn(k)' \/ (synced'[k] < Len(segs[k].recs) /\ k # cur))
    BY <2>1 DEF AtRisk
  <2>4. CASE Torn(k)'
    <3>1. phase = "data" => Live = cur
      BY DEF Live
    <3> QED
      BY <2>1, <2>3, <2>4, <3>1 DEF AtRisk, Torn, Positions
  <2>5. CASE synced'[k] < Len(segs[k].recs) /\ k # cur
    BY <2>2, <2>3, <2>5 DEF AtRisk
  <2> QED
    BY <2>3, <2>4, <2>5
<1>4. CASE RotateCall \/ Sync
  <2>1. /\ UNCHANGED <<segs, cur>> /\ Ids' = Ids /\ phase = "free" /\ phase' # "data" /\ phase' # "header"
    BY <1>4 DEF RotateCall, Sync, Ids
  <2>2. \A k \in Ids : synced'[k] = synced[k] \/ synced'[k] = Len(segs[k].recs)
    BY <1>4, SyncCurType DEF RotateCall, Sync
  <2>3. Live = cur /\ Live' = cur
    BY <2>1 DEF Live
  <2> SUFFICES ASSUME NEW k \in AtRisk' PROVE k \in AtRisk
    OBVIOUS
  <2>4. k \in Ids /\ (Torn(k)' \/ (synced'[k] < Len(segs[k].recs) /\ k # cur))
    BY <2>1, <2>3 DEF AtRisk
  <2>5. Torn(k)' => Torn(k)
    BY <2>1 DEF Torn, Positions
  <2> QED
    BY <2>2, <2>3, <2>4, <2>5 DEF AtRisk
<1>5. CASE RotateCreate
  <2>1. /\ Ids' = Ids \cup {seg + 1} /\ segs'[seg + 1].recs = <<>> /\ segs'[seg + 1].hdr = "none"
        /\ \A k \in Ids : /\ segs'[k] = segs[k]
                          /\ synced'[k] = IF k = cur THEN Len(segs[k].recs) ELSE synced[k]
    BY <1>5, RotateCreateFiles
  <2>2. phase = "rotate" /\ phase' = "header" /\ seg' = seg + 1
    BY <1>5 DEF RotateCreate
  <2>3. Live = cur /\ Live' = seg + 1
    BY <2>2 DEF Live
  <2> SUFFICES ASSUME NEW k \in AtRisk' PROVE k \in AtRisk
    OBVIOUS
  <2>4. k \in Ids' /\ (Torn(k)' \/ (synced'[k] < Len(segs'[k].recs) /\ k # seg + 1))
    BY <2>3 DEF AtRisk
  <2>5. CASE k \in Ids
    <3>1. Torn(k)' => Torn(k)
      BY <2>5, <2>1, <2>2 DEF Torn, Positions
    <3>2. synced'[k] < Len(segs'[k].recs) => synced[k] < Len(segs[k].recs) /\ k # cur
      BY <2>5, <2>1
    <3> QED
      BY <2>4, <2>5, <3>1, <3>2, <2>3 DEF AtRisk
  <2>6. CASE k = seg + 1
    <3>1. ~Torn(k)'
      BY <2>6, <2>1, EmptySeq DEF Torn, Positions
    <3> QED
      BY <2>4, <2>6, <3>1
  <2> QED
    BY <2>1, <2>4, <2>5, <2>6
<1>6. CASE RotateHeader
  <2>1. /\ Ids' = Ids
        /\ \A k \in Ids : segs'[k].recs = segs[k].recs
        /\ \A k \in Ids : segs'[k].hdr = IF k = seg THEN "ok" ELSE segs[k].hdr
    BY <1>6, RotateHeaderFiles
  <2>2. phase = "header" /\ phase' = "free" /\ cur' = seg /\ synced' = synced
    BY <1>6 DEF RotateHeader, Done
  <2>3. Live = seg /\ Live' = seg
    BY <2>2 DEF Live
  <2> SUFFICES ASSUME NEW k \in Ids, k \in AtRisk' PROVE k \in AtRisk
    BY <2>1 DEF AtRisk
  <2>4. Torn(k)' \/ (synced[k] < Len(segs[k].recs) /\ k # seg)
    BY <2>1, <2>2, <2>3 DEF AtRisk
  <2>5. Torn(k)' => Torn(k)
    BY <2>1, <2>2 DEF Torn, Positions
  <2> QED
    BY <2>3, <2>4, <2>5 DEF AtRisk
<1>7. CASE Crash \/ PowerFailure
  <2>1. Restarted
    BY <1>7, CrashFiles, PowerFailureFiles
  <2>2. phase' = "free" /\ Live' = cur'
    BY <2>1 DEF Restarted, RestartedFiles, Live
  <2> SUFFICES ASSUME NEW k \in AtRisk', k # Live PROVE k \in AtRisk
    BY <1>7
  <2>3. k \in Ids' /\ (Torn(k)' \/ (synced'[k] < Len(segs'[k].recs) /\ k # cur'))
    BY <2>2 DEF AtRisk
  <2>4. CASE k \notin Ids
    <3>1. k = cur' /\ segs'[k].recs = <<>> /\ segs'[k].hdr = "ok"
      BY <2>1, <2>3, <2>4 DEF Restarted, RestartedFiles
    <3>2. ~Torn(k)'
      BY <3>1, EmptySeq DEF Torn, Positions
    <3> QED
      BY <3>1, <3>2, <2>3
  <2>5. CASE k \in Unsynced
    BY <2>5 DEF Unsynced, AtRisk
  <2>6. CASE k \in Ids /\ k \notin Unsynced
    <3>1. /\ k # cur' => segs'[k] = segs[k] /\ synced'[k] = synced[k]
          /\ segs'[k].recs = segs[k].recs
          /\ segs'[k].hdr = "torn" => segs[k].hdr = "torn"
      BY <2>1, <2>6 DEF Restarted
    <3>2. ~(synced'[k] < Len(segs'[k].recs) /\ k # cur')
      BY <3>1, <2>6 DEF Unsynced
    <3>3. phase = "data" => k # cur
      BY DEF Live
    <3>4. Torn(k)
      BY <2>3, <3>1, <3>2, <3>3 DEF Torn, Positions
    <3> QED
      BY <2>6, <3>4 DEF AtRisk
  <2> QED
    BY <2>4, <2>5, <2>6
<1>8. CASE CleanupDelete
  <2>1. Ids' \subseteq Ids /\ \A k \in Ids' : segs'[k] = segs[k] /\ synced'[k] = synced[k]
    BY <1>8, DeleteFiles
  <2>2. UNCHANGED <<cur, seg, phase>> /\ Live' = Live
    BY <1>8 DEF CleanupDelete, Live
  <2> SUFFICES ASSUME NEW k \in AtRisk' PROVE k \in AtRisk
    OBVIOUS
  <2>3. k \in Ids' /\ (Torn(k)' \/ (synced'[k] < Len(segs'[k].recs) /\ k # Live))
    BY <2>2 DEF AtRisk
  <2>4. Torn(k)' => Torn(k)
    BY <2>1, <2>2, <2>3 DEF Torn, Positions
  <2> QED
    BY <2>1, <2>3, <2>4 DEF AtRisk
<1>9. CASE CleanupStart \/ CleanupDeleteFails \/ CleanupStop
  BY <1>9 DEF CleanupStart, CleanupDeleteFails, CleanupStop, writer, AtRisk, Torn, Positions, Live, Ids
<1> QED
  BY <1>1, <1>2, <1>3, <1>4, <1>5, <1>6, <1>7, <1>8, <1>9 DEF Next

\* A set with at most one more element has at most one more element.
LEMMA OneMore ==
  ASSUME NEW A, NEW B, NEW x, IsFiniteSet(A), B \subseteq A \cup {x}
  PROVE  Cardinality(B) <= Cardinality(A) + 1
<1>1. IsFiniteSet(A \cup {x}) /\ Cardinality(A \cup {x}) <= Cardinality(A) + 1 /\ Cardinality(A) \in Nat
      /\ Cardinality(A \cup {x}) \in Nat
  BY FS_AddElement, FS_CardinalityType
<1>2. B \in SUBSET (A \cup {x})
  OBVIOUS
<1>3. IsFiniteSet(B) /\ Cardinality(B) <= Cardinality(A \cup {x})
  BY <1>1, <1>2, FS_Subset
<1>4. Cardinality(B) \in Nat
  BY <1>3, FS_CardinalityType
<1> QED
  BY <1>1, <1>3, <1>4

\* The arithmetic of damaged files and failures.
LEMMA BudgetSum ==
  ASSUME NEW n \in Nat, NEW m \in Nat, NEW a \in Nat, NEW b \in Nat, NEW c \in Nat,
         NEW d \in Nat, NEW e \in Nat, NEW f \in Nat,
         n <= a + b + c, a <= d, b <= e, c <= f, m <= n + 1,
         d = a + 1 \/ e = b + 1 \/ f = c + 1
  PROVE  m <= d + e + f
<1>1. CASE d = a + 1
  BY <1>1
<1>2. CASE e = b + 1
  BY <1>2
<1>3. CASE f = c + 1
  BY <1>3
<1> QED
  BY <1>1, <1>2, <1>3

\* Failures are counted, and the counts never go down.
LEMMA BudgetNext ==
  ASSUME WalType, Next
  PROVE  /\ faults' \in Nat /\ crashes' \in Nat /\ powerFailures' \in Nat
         /\ faults <= faults' /\ crashes <= crashes' /\ powerFailures <= powerFailures'
         /\ LogFails \/ RotateFails => faults' = faults + 1
         /\ Crash => crashes' = crashes + 1
         /\ PowerFailure => powerFailures' = powerFailures + 1
<1>0. faults \in Nat /\ crashes \in Nat /\ powerFailures \in Nat
  BY DEF WalType
<1>1. faults' \in {faults, faults + 1} /\ crashes' \in {crashes, crashes + 1}
      /\ powerFailures' \in {powerFailures, powerFailures + 1}
  <2>1. CASE LogBegin \/ LogEnd \/ LogFails \/ RotateCall \/ RotateCreate
    BY <2>1 DEF LogBegin, LogEnd, LogFails, RotateCall, RotateCreate, budget
  <2>2. CASE RotateHeader \/ RotateFails \/ Sync
    BY <2>2 DEF RotateHeader, RotateFails, Sync, budget
  <2>3. CASE Crash \/ PowerFailure
    BY <2>3 DEF Crash, PowerFailure
  <2>4. CASE CleanupStart \/ CleanupDelete \/ CleanupDeleteFails \/ CleanupStop
    BY <2>4 DEF CleanupStart, CleanupDelete, CleanupDeleteFails, CleanupStop, budget
  <2> QED
    BY <2>1, <2>2, <2>3, <2>4 DEF Next
<1> QED
  BY <1>1, <1>0 DEF LogFails, RotateFails, Crash, PowerFailure

\* Every step keeps the files at risk within the number of failures.
LEMMA DamageInvNext ==
  ASSUME WalType, OrderInv, DamageInv, Next, WalType'
  PROVE  DamageInv'
<1>1. PICK A : A = AtRisk
  OBVIOUS
<1>2. PICK B : B = AtRisk'
  OBVIOUS
<1>3. IsFiniteSet(A) /\ Cardinality(A) \in Nat
  <2>1. A \in SUBSET Ids /\ IsFiniteSet(Ids)
    BY <1>1 DEF AtRisk, WalType
  <2> QED
    BY <2>1, FS_Subset, FS_CardinalityType
<1>4. faults \in Nat /\ crashes \in Nat /\ powerFailures \in Nat
  BY DEF WalType
<1>5. /\ faults' \in Nat /\ crashes' \in Nat /\ powerFailures' \in Nat
      /\ faults <= faults' /\ crashes <= crashes' /\ powerFailures <= powerFailures'
      /\ LogFails \/ RotateFails => faults' = faults + 1
      /\ Crash => crashes' = crashes + 1
      /\ PowerFailure => powerFailures' = powerFailures + 1
  BY BudgetNext
<1>6. Cardinality(A) <= faults + crashes + powerFailures
  BY <1>1 DEF DamageInv
<1>7. CASE B \subseteq A
  <2>1. Cardinality(B) <= Cardinality(A) /\ Cardinality(B) \in Nat
    BY <1>3, <1>7, FS_Subset, FS_CardinalityType
  <2>2. Cardinality(B) <= faults' + crashes' + powerFailures'
    BY <2>1, <1>3, <1>4, <1>5, <1>6
  <2> QED
    BY <2>2, <1>2 DEF DamageInv
<1>8. CASE (LogFails \/ RotateFails \/ Crash \/ PowerFailure) /\ B \subseteq A \cup {Live}
  <2>1. PICK x : x = Live
    OBVIOUS
  <2>2. B \subseteq A \cup {x}
    BY <1>8, <2>1
  <2>3. Cardinality(B) <= Cardinality(A) + 1
    BY <2>2, <1>3, OneMore
  <2>4. IsFiniteSet(B)
    <3>1. B \in SUBSET (A \cup {x}) /\ IsFiniteSet(A \cup {x})
      BY <2>2, <1>3, FS_AddElement
    <3> QED
      BY <3>1, FS_Subset
  <2>5. Cardinality(B) \in Nat
    BY <2>4, FS_CardinalityType
  <2>6. \/ faults' = faults + 1 \/ crashes' = crashes + 1 \/ powerFailures' = powerFailures + 1
    BY <1>8, <1>5
  <2>7. Cardinality(B) <= faults' + crashes' + powerFailures'
    BY <2>3, <2>5, <2>6, <1>3, <1>4, <1>5, <1>6, BudgetSum
  <2> QED
    BY <2>7, <1>2 DEF DamageInv
<1> QED
  BY <1>1, <1>2, <1>7, <1>8, AtRiskNext

-----------------------------------------------------------------------------
(* Without a failed operation.                                              *)

\* Every step keeps what is known of the cleanup.
LEMMA CleanInvNext ==
  ASSUME WalType, OrderInv, CleanInv, Next, WalType'
  PROVE  CleanInv'
<1> SUFFICES ASSUME faults' = 0 PROVE CleanInv'
  BY DEF CleanInv
<1> USE RecordTypes DEF OrderInv
<1>a. faults = 0 /\ ~LogFails /\ ~RotateFails /\ ~CleanupDeleteFails
  <2>1. faults \in Nat /\ faults <= faults'
    BY BudgetNext DEF WalType
  <2>2. LogFails \/ RotateFails \/ CleanupDeleteFails => faults' = faults + 1
    BY DEF LogFails, RotateFails, CleanupDeleteFails
  <2> QED
    BY <2>1, <2>2
<1>b. PICK lo \in 0 .. seg + 1 : Ids = lo .. seg
  BY <1>a DEF CleanInv
<1>c. /\ \A j \in todo, k \in Ids : k <= j => k \in todo
      /\ IF phase = "header" THEN seg = cur + 1 ELSE seg = cur
      /\ phase = "header" /\ cur \in Ids => synced[cur] = Len(segs[cur].recs)
      /\ \A k \in Ids : k < cur => synced[k] = Len(segs[k].recs)
  BY <1>a DEF CleanInv, RotatedIsSynced
<1>d. cur \in Nat /\ seg \in Nat /\ Ids \subseteq Nat /\ todo \subseteq Ids /\ lo \in Nat
  BY <1>b, SMTT(30) DEF WalType
<1>1. CASE LogBegin \/ LogEnd
  <2>1. Ids' = Ids /\ \A k \in Ids : k # cur => segs'[k] = segs[k]
    BY <1>1, LogBeginFiles, LogEndFiles
  <2>2. UNCHANGED <<cur, seg, todo, synced>> /\ phase # "header" /\ phase' # "header"
    BY <1>1 DEF LogBegin, LogEnd, Done, cleanup
  <2>3. \A k \in Ids : k < cur => synced[k] = Len(segs'[k].recs)
    BY <2>1, <1>c, <1>d
  <2> QED
    BY <2>1, <2>2, <2>3, <1>b, <1>c DEF CleanInv, RotatedIsSynced
<1>2. CASE RotateCall \/ Sync
  <2>1. /\ UNCHANGED <<segs, cur, seg, todo>> /\ Ids' = Ids
        /\ phase # "header" /\ phase' # "header"
    BY <1>2 DEF RotateCall, Sync, cleanup, Ids
  <2>2. \A k \in Ids : synced'[k] = synced[k] \/ synced'[k] = Len(segs[k].recs)
    BY <1>2, SyncCurType DEF RotateCall, Sync
  <2>3. \A k \in Ids : k < cur => synced'[k] = Len(segs[k].recs)
    BY <2>2, <1>c
  <2> QED
    BY <2>1, <2>3, <1>b, <1>c DEF CleanInv, RotatedIsSynced
<1>3. CASE RotateCreate
  <2>1. /\ Ids' = Ids \cup {seg + 1}
        /\ \A k \in Ids : /\ segs'[k] = segs[k]
                          /\ synced'[k] = IF k = cur THEN Len(segs[k].recs) ELSE synced[k]
    BY <1>3, RotateCreateFiles
  <2>2. /\ seg' = seg + 1 /\ phase = "rotate" /\ phase' = "header" /\ UNCHANGED <<cur, todo>>
    BY <1>3 DEF RotateCreate, cleanup
  <2>3. seg = cur
    BY <2>2, <1>c
  <2>4. Ids' = lo .. seg' /\ lo \in 0 .. seg' + 1
    BY <2>1, <2>2, <1>b, <1>d
  <2>5. \A j \in todo, k \in Ids' : k <= j => k \in todo
    <3> SUFFICES ASSUME NEW j \in todo, NEW k \in Ids \cup {seg + 1}, k <= j PROVE k \in todo
      BY <2>1
    <3>1. j <= seg /\ j \in Nat /\ j \in Ids
      BY <1>d DEF Behind, NoCollision
    <3>2. k \in Ids
      BY <3>1, <1>d
    <3> QED
      BY <3>2, <1>c
  <2>6. cur \in Ids' => synced'[cur] = Len(segs'[cur].recs)
    BY <2>1, <2>3, <1>d
  <2>7. \A k \in Ids' : k < cur => synced'[k] = Len(segs'[k].recs)
    BY <2>1, <2>3, <1>c, <1>d
  <2> QED
    BY <2>2, <2>3, <2>4, <2>5, <2>6, <2>7 DEF CleanInv, RotatedIsSynced
<1>4. CASE RotateHeader
  <2>1. Ids' = Ids /\ \A k \in Ids : segs'[k].recs = segs[k].recs
    BY <1>4, RotateHeaderFiles
  <2>2. UNCHANGED <<seg, todo, synced>> /\ phase = "header" /\ phase' = "free" /\ cur' = seg
    BY <1>4 DEF RotateHeader, Done, cleanup
  <2>3. \A k \in Ids : k < seg => synced[k] = Len(segs[k].recs)
    <3> SUFFICES ASSUME NEW k \in Ids, k < seg PROVE synced[k] = Len(segs[k].recs)
      OBVIOUS
    <3>1. k < cur \/ k = cur
      BY <2>2, <1>c, <1>d
    <3> QED
      BY <3>1, <2>2, <1>c
  <2> QED
    BY <2>1, <2>2, <2>3, <1>b, <1>c DEF CleanInv, RotatedIsSynced
<1>5. CASE Crash \/ PowerFailure
  <2>1. Restarted
    BY <1>5, CrashFiles, PowerFailureFiles
  <2>2. /\ seg' = cur' /\ phase' = "free" /\ todo' = {} /\ Ids' = Ids \cup {cur'} /\ cur' \in Nat
        /\ \A k \in Ids' : k <= cur'
        /\ IF Ids = {} THEN cur' = 0 ELSE cur' \in Ids
    BY <2>1 DEF Restarted, RestartedFiles
  <2>3. /\ \E l \in 0 .. seg' + 1 : Ids' = l .. seg'
        /\ Ids # {} => cur' = seg
    <3>1. CASE Ids = {}
      <4>1. Ids' = 0 .. 0 /\ seg' = 0 /\ 0 \in 0 .. seg' + 1
        BY <3>1, <2>2
      <4> QED
        BY <4>1, <3>1
    <3>2. CASE Ids # {}
      <4>1. lo <= seg /\ seg \in Ids /\ cur' \in Ids
        BY <3>2, <2>2, <1>b, <1>d
      <4>2. cur' = seg
        BY <4>1, <2>2, <1>d DEF Behind, NoCollision
      <4>3. Ids' = lo .. seg' /\ lo \in 0 .. seg' + 1
        BY <4>1, <4>2, <2>2, <1>b
      <4> QED
        BY <4>2, <4>3
    <3> QED
      BY <3>1, <3>2
  <2>4. \A k \in Ids' : k < cur' => synced'[k] = Len(segs'[k].recs)
    <3> SUFFICES ASSUME NEW k \in Ids', k < cur' PROVE synced'[k] = Len(segs'[k].recs)
      OBVIOUS
    <3>1. k # cur' /\ k \in Ids /\ k < seg
      BY <2>2, <2>3
    <3>2. synced[k] = Len(segs[k].recs)
      <4>1. k < cur \/ (k = cur /\ phase = "header")
        BY <3>1, <1>c, <1>d
      <4> QED
        BY <4>1, <3>1, <1>c
    <3>3. k \notin Unsynced
      BY <3>1, <3>2 DEF Unsynced
    <3> QED
      BY <2>1, <3>1, <3>2, <3>3 DEF Restarted
  <2> QED
    BY <2>2, <2>3, <2>4 DEF CleanInv, RotatedIsSynced
<1>6. CASE CleanupDelete
  <2>1. Oldest \in todo /\ Oldest \in Ids /\ Oldest \in Nat /\ \A j \in todo : Oldest <= j
    BY <1>6, OldestTodo DEF CleanupDelete
  <2>2. Ids' = Ids \ {Oldest} /\ \A k \in Ids' : segs'[k] = segs[k] /\ synced'[k] = synced[k]
    BY <1>6, DeleteFiles
  <2>3. UNCHANGED <<cur, seg, phase>> /\ todo' = todo \ {Oldest}
    BY <1>6 DEF CleanupDelete
  <2>4. Oldest = lo /\ lo <= seg
    <3>1. lo <= Oldest /\ Oldest <= seg
      BY <2>1, <1>b, <1>d
    <3>2. lo \in Ids
      BY <3>1, <2>1, <1>b, <1>d
    <3>3. lo \in todo
      BY <3>1, <3>2, <2>1, <1>c
    <3> QED
      BY <3>1, <3>3, <2>1, <1>d
  <2>5. Ids' = lo + 1 .. seg' /\ lo + 1 \in 0 .. seg' + 1
    BY <2>2, <2>3, <2>4, <1>b, <1>d
  <2>6. \A j \in todo', k \in Ids' : k <= j => k \in todo'
    BY <2>2, <2>3, <1>c
  <2> QED
    BY <2>2, <2>3, <2>5, <2>6, <1>c DEF CleanInv, RotatedIsSynced
<1>7. CASE CleanupStart \/ CleanupStop
  <2>1. UNCHANGED <<segs, synced, cur, seg, phase>> /\ Ids' = Ids /\ (todo' = Ids \/ todo' = {})
    BY <1>7 DEF CleanupStart, CleanupStop, writer, Ids
  <2> QED
    BY <2>1, <1>b, <1>c DEF CleanInv, RotatedIsSynced
<1> QED
  BY <1>1, <1>2, <1>3, <1>4, <1>5, <1>6, <1>7, <1>a DEF Next

-----------------------------------------------------------------------------
(* With fewer failed operations than segments kept.                         *)

\* What the cleanup may delete: it leaves more segments than have been passed
\* over, and what is younger than the oldest listed one.
LEMMA OldestSpared ==
  ASSUME WalType, OrderInv, KeepInv, todo # {}, left > MinKeep, faults < MinKeep
  PROVE  /\ Oldest = cur => phase = "header" /\ ~(faults + 1 < MinKeep)
         /\ phase = "header" => Oldest # seg
<1>0. MinKeep \in Nat /\ faults \in Nat /\ left \in Nat /\ cur \in Nat /\ seg \in Nat
  BY WalBounds DEF WalType
<1>1. PICK o : o = Oldest
  OBVIOUS
<1>2. o \in todo /\ o \in Ids /\ o \in Nat /\ \A j \in todo : o <= j
  BY <1>1, OldestTodo
<1>3. PICK T : T = todo
  OBVIOUS
<1>4. PICK A : A = Above
  OBVIOUS
<1>5. /\ IsFiniteSet(T) /\ IsFiniteSet(A) /\ Cardinality(T) \in Nat /\ Cardinality(A) \in Nat
  <2>1. T \in SUBSET Ids /\ A \in SUBSET Ids /\ IsFiniteSet(Ids)
    BY <1>3, <1>4 DEF WalType, Above
  <2> QED
    BY <2>1, FS_Subset, FS_CardinalityType
<1>6. PICK r \in 0 .. 1 : r = Rotating
  BY DEF Rotating
<1>7. Cardinality(A) + (left - Cardinality(T)) <= faults + r
  <2>1. Passed = left - Cardinality(T) /\ Cardinality(Above) + Passed <= faults + Rotating
    BY <1>3 DEF Passed, KeepInv
  <2> QED
    BY <2>1, <1>4, <1>6
<1>8. ASSUME o = cur PROVE phase = "header" /\ ~(faults + 1 < MinKeep)
  <2>1. T \subseteq A \cup {o}
    BY <1>2, <1>3, <1>4, <1>8, <1>0 DEF Above, WalType
  <2>2. Cardinality(T) <= Cardinality(A) + 1
    BY <2>1, <1>5, OneMore
  <2>3. MinKeep <= faults + r
    BY <2>2, <1>0, <1>5, <1>6, <1>7
  <2>4. r = 1
    BY <2>3, <1>0, <1>6
  <2> QED
    BY <2>3, <2>4, <1>0, <1>6 DEF Rotating
<1>9. ASSUME phase = "header", o = seg PROVE FALSE
  <2>1. T = {o} /\ o \in A
    <3>1. \A j \in T : j = o
      BY <1>2, <1>3, <1>9, <1>0, SMTT(30) DEF OrderInv, Behind, NoCollision, WalType
    <3>2. cur < seg
      BY <1>9 DEF OrderInv, Behind
    <3> QED
      BY <3>1, <3>2, <1>2, <1>3, <1>4, <1>9, <1>0 DEF Above
  <2>2. Cardinality(T) = 1
    BY <2>1, FS_Singleton
  <2>3. Cardinality(A) # 0
    BY <2>1, <1>5, FS_EmptySet
  <2> QED
    BY <2>2, <2>3, <1>0, <1>5, <1>6, <1>7
<1> QED
  BY <1>1, <1>8, <1>9

\* As long as few steps have failed, fewer had before.
LEMMA FewerFaults ==
  ASSUME WalType, Next, faults' < MinKeep
  PROVE  MinKeep \in Nat /\ faults \in Nat /\ faults' \in Nat /\ faults <= faults' /\ faults < MinKeep
<1>1. MinKeep \in Nat /\ faults \in Nat
  BY WalBounds DEF WalType
<1>2. faults' \in Nat /\ faults <= faults'
  BY BudgetNext
<1> QED
  BY <1>1, <1>2

\* Every step keeps the acknowledged entries in the files, or in those a cleanup
\* was meant to take.
LEMMA AckedNext ==
  ASSUME WalType, OrderInv, KeepInv, Next, WalType', faults' < MinKeep
  PROVE  (acked \cup Returning \subseteq OnDisk \cup cleaned \cup doomed)'
<1> USE RecordTypes DEF OrderInv
<1>0. MinKeep \in Nat /\ faults \in Nat /\ faults' \in Nat /\ faults <= faults' /\ faults < MinKeep
  BY FewerFaults
<1>1. acked \cup Returning \subseteq OnDisk \cup cleaned \cup doomed
  BY <1>0 DEF KeepInv
<1>2. CASE LogBegin
  <2>1. OnDisk \subseteq OnDisk'
    <3> SUFFICES ASSUME NEW k \in Ids PROVE Entries(segs[k].recs) \subseteq Entries(segs'[k].recs) /\ k \in Ids'
      BY DEF OnDisk
    <3>1. CASE k # cur
      BY <3>1, <1>2, LogBeginFiles
    <3>2. CASE k = cur
      <4>1. /\ Len(segs'[k].recs) = Len(segs[k].recs) + 1
            /\ \A i \in Positions(k) : segs'[k].recs[i] = segs[k].recs[i]
            /\ k \in Ids'
        BY <3>2, <1>2, LogBeginFiles
      <4> QED
        BY <4>1, SMTT(30) DEF Entries, Positions
    <3> QED
      BY <3>1, <3>2
  <2>2. acked' = acked /\ cleaned' = cleaned /\ doomed' = doomed /\ Returning' = {}
    BY <1>2 DEF LogBegin, cleanup, Returning
  <2> QED
    BY <1>1, <2>1, <2>2
<1>3. CASE LogEnd
  <2>1. cur \in Ids
    BY <1>0, <1>3 DEF KeepInv, CurrentKept, LogEnd
  <2>2. /\ Ids' = Ids /\ \A k \in Ids : k # cur => segs'[k] = segs[k]
        /\ Len(segs'[cur].recs) = Len(segs[cur].recs)
        /\ Len(segs[cur].recs) > 0
        /\ segs[cur].recs[Len(segs[cur].recs)] = LongTorn
        /\ \A i \in Positions(cur) : i # Len(segs[cur].recs)
              => segs'[cur].recs[i] = segs[cur].recs[i]
        /\ segs'[cur].recs[Len(segs[cur].recs)] = entry
    BY <1>3, <2>1, LogEndFiles
  <2>3. entry > 0 /\ Len(segs[cur].recs) \in 1 .. Len(segs[cur].recs)
    BY <1>3, <2>1, <2>2 DEF Writing, LogEnd
  <2>4. entry \in OnDisk'
    <3>1. entry \in Entries(segs'[cur].recs)
      BY <2>2, <2>3 DEF Entries
    <3> QED
      BY <3>1, <2>1, <2>2 DEF OnDisk
  <2>5. OnDisk \subseteq OnDisk'
    <3> SUFFICES ASSUME NEW k \in Ids PROVE Entries(segs[k].recs) \subseteq Entries(segs'[k].recs)
      BY <2>2 DEF OnDisk
    <3>1. CASE k # cur
      BY <3>1, <2>2
    <3>2. CASE k = cur
      BY <3>2, <2>2 DEF Entries, Positions, LongTorn
    <3> QED
      BY <3>1, <3>2
  <2>6. acked' \cup Returning' \subseteq acked \cup {entry} /\ cleaned' = cleaned /\ doomed' = doomed
    BY <1>3 DEF LogEnd, Done, Returning, cleanup
  <2> QED
    BY <1>1, <2>4, <2>5, <2>6
<1>4. CASE RotateCreate
  <2>1. OnDisk \subseteq OnDisk'
    BY <1>4, RotateCreateFiles DEF OnDisk
  <2>2. UNCHANGED <<acked, entry, cleaned, doomed>> /\ Returning' = Returning
    BY <1>4 DEF RotateCreate, cleanup, Returning
  <2> QED
    BY <1>1, <2>1, <2>2
<1>5. CASE RotateHeader
  <2>1. OnDisk \subseteq OnDisk'
    BY <1>5, RotateHeaderFiles DEF OnDisk
  <2>2. UNCHANGED <<cleaned, doomed>> /\ acked' \cup Returning' = acked \cup Returning
    BY <1>5 DEF RotateHeader, Done, cleanup, Returning
  <2> QED
    BY <1>1, <2>1, <2>2
<1>6. CASE Crash
  <2>1. OnDisk \subseteq OnDisk' /\ phase' = "free"
    BY <1>6, CrashFiles DEF Restarted, RestartedFiles
  <2>2. UNCHANGED <<acked, cleaned, doomed>> /\ Returning' = {}
    BY <1>6, <2>1 DEF Crash, Returning
  <2> QED
    BY <1>1, <2>1, <2>2
<1>7. CASE PowerFailure
  <2>1. phase' = "free"
    BY <1>7, PowerFailureFiles DEF Restarted, RestartedFiles
  <2>2. UNCHANGED <<acked, cleaned>> /\ Returning' = {} /\ doomed' = doomed \cup (OnDisk \ OnDisk')
    BY <1>7, <2>1 DEF PowerFailure, Returning
  <2> QED
    BY <1>1, <2>2
<1>8. CASE CleanupDelete
  <2>1. Oldest \in Ids /\ Ids' = Ids \ {Oldest} /\ \A k \in Ids' : segs'[k] = segs[k]
    BY <1>8, OldestTodo, DeleteFiles DEF CleanupDelete
  <2>2. cleaned' = cleaned \cup Entries(segs[Oldest].recs) /\ UNCHANGED <<acked, doomed, phase, entry>>
    BY <1>8, <2>1 DEF CleanupDelete
  <2>3. OnDisk \subseteq OnDisk' \cup Entries(segs[Oldest].recs)
    BY <2>1 DEF OnDisk
  <2>4. Returning' = Returning
    BY <2>2 DEF Returning
  <2> QED
    BY <1>1, <2>2, <2>3, <2>4
<1>9. CASE LogFails \/ RotateCall \/ RotateFails \/ Sync
  <2>1. UNCHANGED <<segs, acked, cleaned, doomed>> /\ (phase' = "free" \/ entry' = 0)
    BY <1>9 DEF LogFails, RotateCall, RotateFails, Sync, cleanup
  <2>2. Returning' = {} /\ OnDisk' = OnDisk
    BY <2>1 DEF Returning, OnDisk, Ids
  <2> QED
    BY <1>1, <2>1, <2>2
<1>10. CASE CleanupStart \/ CleanupDeleteFails \/ CleanupStop
  <2>1. UNCHANGED <<segs, acked, cleaned, doomed, phase, entry>>
    BY <1>10 DEF CleanupStart, CleanupDeleteFails, CleanupStop, writer
  <2>2. Returning' = Returning /\ OnDisk' = OnDisk
    BY <2>1 DEF Returning, OnDisk, Ids
  <2> QED
    BY <1>1, <2>1, <2>2
<1> QED
  BY <1>2, <1>3, <1>4, <1>5, <1>6, <1>7, <1>8, <1>9, <1>10 DEF Next

\* A cleanup passes over at most one file for each deletion that fails.
LEMMA CountedNext ==
  ASSUME WalType, todo # {} => Cardinality(todo) <= left, Next, WalType'
  PROVE  /\ todo' # {} => Cardinality(todo') <= left'
         /\ Passed \in Nat /\ Passed' \in Nat
         /\ CleanupDeleteFails => Passed' <= Passed + 1
         /\ ~CleanupDeleteFails => Passed' <= Passed
<1>1. PICK T : T = todo
  OBVIOUS
<1>2. /\ IsFiniteSet(T) /\ Cardinality(T) \in Nat /\ left \in Nat /\ left' \in Nat
      /\ \A x : x \in T => IsFiniteSet(T \ {x}) /\ Cardinality(T \ {x}) = Cardinality(T) - 1
  <2>1. T \in SUBSET Ids /\ IsFiniteSet(Ids) /\ left \in Nat /\ left' \in Nat
    BY <1>1 DEF WalType
  <2> QED
    BY <2>1, FS_Subset, FS_CardinalityType, FS_RemoveElement
<1>3. Passed \in Nat /\ (T # {} => Passed = left - Cardinality(T) /\ Cardinality(T) <= left)
  BY <1>1, <1>2 DEF Passed
<1>4. CASE UNCHANGED <<todo, left>> /\ ~CleanupDeleteFails
  BY <1>1, <1>2, <1>3, <1>4 DEF Passed
<1>5. CASE todo' = {} /\ ~CleanupDeleteFails
  BY <1>3, <1>5 DEF Passed
<1>6. CASE CleanupStart
  <2>1. Cardinality(Ids) \in Nat
    BY FS_CardinalityType DEF WalType
  <2>2. todo' = Ids /\ left' = Cardinality(Ids) /\ T = {}
    BY <1>1, <1>6 DEF CleanupStart
  <2>3. Passed' = 0 /\ ~CleanupDeleteFails /\ Cardinality(todo') <= left'
    BY <2>1, <2>2, <1>1 DEF Passed, CleanupDeleteFails
  <2> QED
    BY <2>3, <1>3
<1>7. CASE CleanupDelete
  <2>1. PICK o : o = Oldest
    OBVIOUS
  <2>2. o \in T /\ todo' = T \ {o} /\ left' = left - 1 /\ T # {}
    BY <1>1, <1>7, <2>1, OldestTodo DEF CleanupDelete
  <2>3. Cardinality(todo') = Cardinality(T) - 1
    BY <2>2, <1>2
  <2>4. ~CleanupDeleteFails
    <3>1. CleanupDeleteFails => left' = left
      BY DEF CleanupDeleteFails
    <3> QED
      BY <3>1, <2>2, <1>2
  <2>5. todo' # {} => Passed' = Passed
    BY <2>2, <2>3, <1>2, <1>3 DEF Passed
  <2>6. todo' = {} => Passed' = 0
    BY DEF Passed
  <2>7. Cardinality(todo') <= left'
    BY <2>2, <2>3, <1>2, <1>3
  <2> QED
    BY <2>4, <2>5, <2>6, <2>7, <1>3
<1>8. CASE CleanupDeleteFails
  <2>1. PICK o : o = Oldest
    OBVIOUS
  <2>2. o \in T /\ todo' = T \ {o} /\ left' = left /\ T # {}
    BY <1>1, <1>8, <2>1, OldestTodo DEF CleanupDeleteFails
  <2>3. Cardinality(todo') = Cardinality(T) - 1
    BY <2>2, <1>2
  <2>4. todo' # {} => Passed' = left - (Cardinality(T) - 1)
    BY <2>2, <2>3 DEF Passed
  <2>5. todo' = {} => Passed' = 0
    BY DEF Passed
  <2>6. Cardinality(todo') <= left' /\ (todo' # {} => Passed' \in Nat /\ Passed' = Passed + 1)
    BY <2>2, <2>3, <2>4, <1>2, <1>3
  <2> QED
    BY <1>8, <2>5, <2>6, <1>3
<1>9. LogBegin \/ LogEnd \/ LogFails \/ RotateCall \/ RotateCreate \/ RotateHeader \/ RotateFails \/ Sync
        => UNCHANGED <<todo, left>>
  BY SMTT(30) DEF LogBegin, LogEnd, LogFails, RotateCall, RotateCreate, RotateHeader, RotateFails, Sync, cleanup
<1>10. Crash \/ PowerFailure \/ CleanupStop => todo' = {}
  BY DEF Crash, PowerFailure, CleanupStop, Reopen
<1> QED
  BY <1>4, <1>5, <1>6, <1>7, <1>8, <1>9, <1>10 DEF Next

\* Every step keeps the files above the current one within the number of failures.
LEMMA AboveNext ==
  ASSUME WalType, OrderInv, KeepInv, Next, WalType', faults' < MinKeep
  PROVE  (Cardinality(Above) + Passed <= faults + Rotating)'
<1> USE DEF OrderInv
<1>0. MinKeep \in Nat /\ faults \in Nat /\ faults' \in Nat /\ faults <= faults' /\ faults < MinKeep
  BY FewerFaults
<1>1. PICK A : A = Above
  OBVIOUS
<1>2. PICK B : B = Above'
  OBVIOUS
<1>3. /\ IsFiniteSet(A) /\ Cardinality(A) \in Nat /\ IsFiniteSet(B) /\ Cardinality(B) \in Nat
  <2>1. A \in SUBSET Ids /\ IsFiniteSet(Ids)
    BY <1>1 DEF WalType, Above
  <2>2. PICK D : D = Ids'
    OBVIOUS
  <2>3. B \in SUBSET D /\ IsFiniteSet(D)
    BY <1>2, <2>2 DEF WalType, Above
  <2> QED
    BY <2>1, <2>3, FS_Subset, FS_CardinalityType
<1>4. PICK r \in 0 .. 1 : r = Rotating
  BY DEF Rotating
<1>5. PICK s \in 0 .. 1 : s = Rotating'
  BY DEF Rotating
<1>6. Cardinality(A) + Passed <= faults + r
  BY <1>0, <1>1, <1>4 DEF KeepInv
<1>7. /\ Passed \in Nat /\ Passed' \in Nat
      /\ CleanupDeleteFails => Passed' <= Passed + 1
      /\ ~CleanupDeleteFails => Passed' <= Passed
  BY CountedNext DEF KeepInv
<1>8. cur \in Nat /\ seg \in Nat /\ Ids \subseteq Nat
  BY DEF WalType
<1>9. B \subseteq A => Cardinality(B) <= Cardinality(A)
  BY <1>3, FS_Subset
<1>10. B = {} => Cardinality(B) = 0
  BY FS_EmptySet
<1> SUFFICES \/ Cardinality(B) <= Cardinality(A) /\ Passed' <= Passed /\ faults + r <= faults' + s
             \/ Cardinality(B) <= Cardinality(A) + 1 /\ Passed' <= Passed /\ faults + r + 1 <= faults' + s
             \/ Cardinality(B) <= Cardinality(A) /\ Passed' <= Passed + 1 /\ faults + r + 1 <= faults' + s
             \/ Cardinality(B) = 0 /\ Cardinality(A) > 0 /\ Passed' <= Passed /\ faults + r <= faults' + s + 1
             \/ Cardinality(B) = 0 /\ Passed' = 0
  <2>1. Cardinality(B) + Passed' <= faults' + s
    <3>1. PICK a \in Nat : a = Cardinality(A)
      BY <1>3
    <3>2. PICK b \in Nat : b = Cardinality(B)
      BY <1>3
    <3>3. PICK p \in Nat : p = Passed
      BY <1>7
    <3>4. PICK q \in Nat : q = Passed'
      BY <1>7
    <3>5. PICK f \in Nat : f = faults
      BY <1>0
    <3>6. PICK g \in Nat : g = faults'
      BY <1>0
    <3>7. /\ \/ b <= a /\ q <= p /\ f + r <= g + s
             \/ b <= a + 1 /\ q <= p /\ f + r + 1 <= g + s
             \/ b <= a /\ q <= p + 1 /\ f + r + 1 <= g + s
             \/ b = 0 /\ a > 0 /\ q <= p /\ f + r <= g + s + 1
             \/ b = 0 /\ q = 0
          /\ a + p <= f + r
      BY <3>1, <3>2, <3>3, <3>4, <3>5, <3>6, <1>6
    <3>8. b + q <= g + s
      <4>1. r \in Nat /\ s \in Nat /\ a + p <= f + r
        BY <3>7, <1>4, <1>5
      <4>2. CASE b <= a /\ q <= p /\ f + r <= g + s
        BY <4>1, <4>2
      <4>3. CASE b <= a + 1 /\ q <= p /\ f + r + 1 <= g + s
        BY <4>1, <4>3
      <4>4. CASE b <= a /\ q <= p + 1 /\ f + r + 1 <= g + s
        BY <4>1, <4>4
      <4>5. CASE b = 0 /\ a > 0 /\ q <= p /\ f + r <= g + s + 1
        BY <4>1, <4>5
      <4>6. CASE b = 0 /\ q = 0
        BY <4>1, <4>6
      <4> QED
        BY <3>7, <4>2, <4>3, <4>4, <4>5, <4>6
    <3> QED
      BY <3>2, <3>4, <3>6, <3>8
  <2> QED
    BY <2>1, <1>2, <1>5
<1>11. CASE LogBegin \/ LogEnd \/ LogFails \/ RotateCall \/ RotateFails \/ Sync
  <2>1. Ids' = Ids /\ cur' = cur /\ phase' # "header" /\ ~CleanupDeleteFails
    <3>1. CASE LogBegin \/ LogEnd
      BY <3>1, LogBeginFiles, LogEndFiles DEF LogBegin, LogEnd, Done, CleanupDeleteFails, writer
    <3>2. CASE LogFails \/ RotateCall \/ RotateFails \/ Sync
      <4>1. Ids' = Ids /\ cur' = cur /\ phase' # "header" /\ todo' = todo
        BY <3>2 DEF LogFails, RotateCall, RotateFails, Sync, cleanup, Ids
      <4>2. CleanupDeleteFails => todo' # todo
        BY OldestTodo DEF CleanupDeleteFails
      <4> QED
        BY <4>1, <4>2
    <3> QED
      BY <1>11, <3>1, <3>2
  <2>2. B = A /\ s = 0
    BY <2>1, <1>1, <1>2, <1>5 DEF Above, Rotating
  <2>3. r = 1 => RotateFails
    BY <1>4, <1>11 DEF Rotating, LogBegin, LogEnd, LogFails, RotateCall, Sync
  <2>4. faults + r <= faults' + s
    <3>1. RotateFails => faults' = faults + 1
      BY DEF RotateFails
    <3>2. r = 0 \/ r = 1
      BY <1>4
    <3>0. s = 0 /\ faults \in Nat /\ faults' \in Nat /\ faults <= faults'
      BY <2>2, <1>0
    <3>3. CASE r = 0
      <4>1. PICK g \in Nat : g = faults'
        BY <3>0
      <4>2. faults \in Nat /\ faults <= g /\ s = 0
        BY <4>1, <3>0
      <4>3. faults + r <= g + s
        BY <4>2, <3>3
      <4> QED
        BY <4>1, <4>3
    <3>4. CASE r = 1
      <4>1. faults' = faults + 1
        BY <3>1, <3>4, <2>3
      <4> QED
        BY <4>1, <3>4, <3>0
    <3> QED
      BY <3>2, <3>3, <3>4
  <2> QED
    BY <2>1, <2>2, <2>4, <1>3, <1>7
<1>12. CASE RotateCreate
  <2>1. Ids' = Ids \cup {seg + 1} /\ cur' = cur /\ phase = "rotate" /\ phase' = "header" /\ faults' = faults
    BY <1>12, RotateCreateFiles DEF RotateCreate, budget
  <2>2. PICK x : x = seg + 1
    OBVIOUS
  <2>3. B \subseteq A \cup {x}
    BY <2>1, <2>2, <1>1, <1>2 DEF Above
  <2>4. Cardinality(B) <= Cardinality(A) + 1
    BY <2>3, <1>3, OneMore
  <2>5. r = 0 /\ s = 1
    BY <2>1, <1>4, <1>5 DEF Rotating
  <2>6. ~CleanupDeleteFails
    BY <2>1 DEF CleanupDeleteFails, writer
  <2> QED
    BY <2>1, <2>4, <2>5, <2>6, <1>0, <1>7
<1>13. CASE RotateHeader
  <2>1. Ids' = Ids /\ cur' = seg /\ phase = "header" /\ phase' = "free" /\ faults' = faults
    BY <1>13, RotateHeaderFiles DEF RotateHeader, Done, budget
  <2>2. seg \in Ids /\ cur < seg /\ \A k \in Ids : ~(k > seg)
    BY <2>1, <1>0, <1>8 DEF KeepInv, Behind, NoCollision
  <2>3. B = {} /\ seg \in A
    BY <2>1, <2>2, <1>1, <1>2, <1>8 DEF Above
  <2>4. Cardinality(A) # 0
    BY <2>3, <1>3, FS_EmptySet
  <2>5. r = 1 /\ s = 0
    BY <2>1, <1>4, <1>5 DEF Rotating
  <2>6. ~CleanupDeleteFails
    BY <2>1 DEF CleanupDeleteFails, writer
  <2> QED
    BY <2>1, <2>3, <2>4, <2>5, <2>6, <1>0, <1>3, <1>7, <1>10
<1>14. CASE Crash \/ PowerFailure
  <2>1. RestartedFiles
    BY <1>14, CrashFiles, PowerFailureFiles DEF Restarted
  <2>2. B = {}
    <3>1. \A k \in Ids' : ~(k > cur')
      BY <2>1, SMTT(30) DEF RestartedFiles, WalType
    <3> QED
      BY <3>1, <1>2 DEF Above
  <2>3. Passed' = 0
    BY <2>1 DEF RestartedFiles, Passed
  <2> QED
    BY <2>2, <2>3, <1>10
<1>15. CASE CleanupStart \/ CleanupDelete \/ CleanupStop
  <2>1. Ids' \subseteq Ids /\ cur' = cur /\ phase' = phase /\ faults' = faults
    BY <1>15, DeleteFiles DEF CleanupStart, CleanupDelete, CleanupStop, writer, budget, Ids
  <2>2. B \subseteq A /\ s = r
    BY <2>1, <1>1, <1>2, <1>4, <1>5 DEF Above, Rotating
  <2>3. ~CleanupDeleteFails
    BY <2>1, <1>0 DEF CleanupDeleteFails
  <2> QED
    BY <2>1, <2>2, <2>3, <1>0, <1>7, <1>9
<1>16. CASE CleanupDeleteFails
  <2>1. Ids' = Ids /\ cur' = cur /\ phase' = phase /\ faults' = faults + 1
    BY <1>16 DEF CleanupDeleteFails, writer, Ids
  <2>2. B = A /\ s = r
    BY <2>1, <1>1, <1>2, <1>4, <1>5 DEF Above, Rotating
  <2> QED
    BY <2>1, <2>2, <1>0, <1>3, <1>7, <1>16
<1> QED
  BY <1>11, <1>12, <1>13, <1>14, <1>15, <1>16 DEF Next

\* Every step keeps what is known of the files that are kept.
LEMMA KeepInvNext ==
  ASSUME WalType, OrderInv, KeepInv, Next, WalType'
  PROVE  KeepInv'
<1> USE DEF OrderInv
<1>1. todo' # {} => Cardinality(todo') <= left'
  BY CountedNext DEF KeepInv
<1>2. faults' < MinKeep => /\ (Cardinality(Above) + Passed <= faults + Rotating)'
                           /\ (acked \cup Returning \subseteq OnDisk \cup cleaned \cup doomed)'
  BY AboveNext, AckedNext
<1>3. ASSUME faults' < MinKeep, phase' = "header" PROVE seg' \in Ids'
  <2>0. MinKeep \in Nat /\ faults \in Nat /\ faults < MinKeep
    BY <1>3, FewerFaults
  <2>1. CASE RotateCreate
    BY <2>1, RotateCreateFiles DEF RotateCreate
  <2>2. CASE CleanupDelete
    <3>1. /\ todo # {} /\ left > MinKeep /\ UNCHANGED <<seg, phase>>
      BY <2>2 DEF CleanupDelete
    <3>2. Oldest # seg /\ seg \in Ids
      BY <3>1, <1>3, <2>0, OldestSpared DEF KeepInv
    <3> QED
      BY <3>1, <3>2, <2>2, DeleteFiles
  <2>3. CASE CleanupStart \/ CleanupDeleteFails \/ CleanupStop
    <3>1. UNCHANGED <<segs, seg, phase>>
      BY <2>3 DEF CleanupStart, CleanupDeleteFails, CleanupStop, writer
    <3> QED
      BY <3>1, <1>3, <2>0 DEF KeepInv, Ids
  <2>4. LogBegin \/ LogEnd \/ LogFails \/ RotateCall \/ RotateHeader \/ RotateFails \/ Sync => phase' # "header"
    BY DEF LogBegin, LogEnd, LogFails, RotateCall, RotateHeader, RotateFails, Sync, Done
  <2>5. Crash \/ PowerFailure => phase' # "header"
    BY CrashFiles, PowerFailureFiles DEF Restarted, RestartedFiles
  <2> QED
    BY <1>3, <2>1, <2>2, <2>3, <2>4, <2>5 DEF Next
<1>4. ASSUME faults' + (IF phase' = "header" THEN 1 ELSE 0) < MinKeep PROVE cur' \in Ids'
  <2>a. MinKeep \in Nat /\ faults' \in Nat
    BY BudgetNext, WalBounds
  <2>b. faults' < MinKeep /\ (phase' = "header" => faults' + 1 < MinKeep)
    <3>0. PICK g \in Nat : g = faults'
      BY <2>a
    <3>1. CASE phase' = "header"
      <4>1. g + 1 < MinKeep
        BY <3>0, <1>4, <3>1
      <4>2. g < MinKeep
        BY <4>1, <2>a
      <4> QED
        BY <3>0, <4>1, <4>2
    <3>2. CASE phase' # "header"
      <4>1. (IF phase' = "header" THEN 1 ELSE 0) = 0
        BY <3>2
      <4>2. g + 0 < MinKeep
        BY <3>0, <4>1, <1>4
      <4>3. g < MinKeep
        BY <4>2, <2>a
      <4> QED
        BY <3>0, <3>2, <4>3
    <3> QED
      BY <3>1, <3>2
  <2>0. faults \in Nat /\ faults <= faults' /\ faults < MinKeep
    BY <2>b, FewerFaults
  <2>1. CASE LogBegin \/ LogEnd
    <3>1. Ids' = Ids /\ cur' = cur /\ phase # "header"
      BY <2>1, LogBeginFiles, LogEndFiles DEF LogBegin, LogEnd
    <3> QED
      BY <3>1, <2>0 DEF KeepInv, CurrentKept
  <2>2. CASE LogFails \/ RotateCall \/ Sync
    <3>1. segs' = segs /\ cur' = cur /\ phase # "header"
      BY <2>2 DEF LogFails, RotateCall, Sync
    <3> QED
      BY <3>1, <2>0 DEF KeepInv, CurrentKept, Ids
  <2>3. CASE RotateFails
    <3>1. segs' = segs /\ cur' = cur /\ faults' = faults + 1
      BY <2>3 DEF RotateFails
    <3>2. faults + (IF phase = "header" THEN 1 ELSE 0) < MinKeep
      BY <3>1, <2>0, <2>a, <2>b
    <3> QED
      BY <3>1, <3>2 DEF KeepInv, CurrentKept, Ids
  <2>4. CASE RotateCreate
    <3>1. Ids \subseteq Ids' /\ cur' = cur /\ phase # "header"
      BY <2>4, RotateCreateFiles DEF RotateCreate
    <3> QED
      BY <3>1, <2>0 DEF KeepInv, CurrentKept
  <2>5. CASE RotateHeader
    <3>1. Ids' = Ids /\ cur' = seg /\ phase = "header"
      BY <2>5, RotateHeaderFiles DEF RotateHeader
    <3> QED
      BY <3>1, <2>0 DEF KeepInv
  <2>6. CASE Crash \/ PowerFailure
    BY <2>6, CrashFiles, PowerFailureFiles DEF Restarted, RestartedFiles
  <2>7. CASE CleanupDelete
    <3>1. /\ todo # {} /\ left > MinKeep /\ UNCHANGED <<cur, phase, faults>>
      BY <2>7 DEF CleanupDelete, budget
    <3>2. Oldest # cur
      BY <3>1, <2>0, <2>b, OldestSpared
    <3>3. cur \in Ids
      BY <3>1, <1>4 DEF KeepInv, CurrentKept
    <3> QED
      BY <3>1, <3>2, <3>3, <2>7, DeleteFiles
  <2>8. CASE CleanupStart \/ CleanupDeleteFails \/ CleanupStop
    <3>1. UNCHANGED <<segs, cur, phase>>
      BY <2>8 DEF CleanupStart, CleanupDeleteFails, CleanupStop, writer
    <3>2. CASE phase = "header"
      <4>1. PICK g \in Nat : g = faults'
        BY <2>a
      <4>2. g + 1 < MinKeep /\ faults <= g
        BY <3>1, <3>2, <4>1, <2>0, <2>b
      <4>3. faults + 1 < MinKeep
        BY <4>2, <2>0, <2>a
      <4> QED
        BY <3>1, <3>2, <4>3 DEF KeepInv, CurrentKept, Ids
    <3>3. CASE phase # "header"
      <4>1. faults + 0 < MinKeep
        BY <2>0, <2>a
      <4> QED
        BY <3>1, <3>3, <4>1 DEF KeepInv, CurrentKept, Ids
    <3> QED
      BY <3>2, <3>3
  <2> QED
    BY <2>1, <2>2, <2>3, <2>4, <2>5, <2>6, <2>7, <2>8 DEF Next
<1> QED
  BY <1>1, <1>2, <1>3, <1>4 DEF KeepInv, CurrentKept

-----------------------------------------------------------------------------
(* The invariant.                                                           *)

\* The invariant holds of an empty log.
LEMMA WalInvInit == Init => WalInv
<1> SUFFICES ASSUME Init PROVE WalInv
  OBVIOUS
<1>1. /\ Fresh \in File /\ Fresh.hdr = "ok" /\ Fresh.recs = <<>> /\ Len(<<>>) = 0
  BY EmptySeq DEF Fresh, File, Recording
<1>2. Ids = {0} /\ segs[0] = Fresh /\ synced[0] = -1 /\ segs = [k \in {0} |-> segs[k]] /\ synced = [k \in {0} |-> synced[k]]
  BY DEF Init, Ids
<1>3. IsFiniteSet(Ids) /\ IsFiniteSet({}) /\ Cardinality({}) = 0
  BY <1>2, FS_Singleton, FS_EmptySet
<1>4. /\ cur = 0 /\ seg = 0 /\ count = 0 /\ phase = "free" /\ entry = 0 /\ next = 0 /\ acked = {}
      /\ todo = {} /\ left = 0 /\ cleaned = {} /\ doomed = {}
      /\ faults = 0 /\ crashes = 0 /\ powerFailures = 0
  BY DEF Init
<1>5. WalType
  <2>1. \A k \in Ids : /\ segs[k] \in File /\ synced[k] \in Int /\ -1 <= synced[k]
                       /\ synced[k] <= Len(segs[k].recs)
    BY <1>1, <1>2
  <2>2. 0 \in 0 .. MaxEntries /\ Ids \subseteq Nat
    BY <1>2, WalBounds
  <2> QED
    BY <1>2, <1>3, <1>4, <2>1, <2>2 DEF WalType, Phases
<1>6. \A k \in Ids : k = 0 /\ segs[k].hdr = "ok" /\ segs[k].recs = <<>> /\ Positions(k) = {}
  BY <1>1, <1>2 DEF Positions
<1>7. OrderInv
  <2>1. Behind
    BY <1>4, <1>6 DEF Behind, NoCollision
  <2>2. Writing /\ Submitted /\ RecoveredInOrder
    BY <1>4, <1>6 DEF Writing, Submitted, RecoveredInOrder, Positions
  <2> QED
    BY <2>1, <2>2 DEF OrderInv
<1>8. CleanInv
  <2>1. Ids = 0 .. seg /\ 0 \in 0 .. seg + 1
    BY <1>2, <1>4
  <2> QED
    BY <2>1, <1>4, <1>6 DEF CleanInv, RotatedIsSynced
<1>9. KeepInv
  <2>1. Above = {} /\ Passed = 0 /\ Rotating = 0 /\ Returning = {}
    BY <1>4, <1>6 DEF Above, Passed, Rotating, Returning
  <2> QED
    BY <2>1, <1>2, <1>3, <1>4 DEF KeepInv, CurrentKept
<1>10. DamageInv
  <2>1. AtRisk = {}
    BY <1>4, <1>6 DEF AtRisk, Torn, Live
  <2> QED
    BY <2>1, <1>3, <1>4 DEF DamageInv
<1> QED
  BY <1>5, <1>7, <1>8, <1>9, <1>10 DEF WalInv

\* Every step keeps the invariant.
LEMMA WalInvNext == WalInv /\ [Next]_vars => WalInv'
<1> SUFFICES ASSUME WalInv, [Next]_vars PROVE WalInv'
  OBVIOUS
<1>1. CASE Next
  <2>1. WalType'
    BY <1>1, WalTypeNext DEF WalInv, OrderInv
  <2> QED
    BY <1>1, <2>1, OrderInvNext, CleanInvNext, KeepInvNext, DamageInvNext DEF WalInv
<1>2. CASE UNCHANGED vars
  <2>1. /\ UNCHANGED <<segs, synced, cur, seg, count, phase, entry, next, acked>>
        /\ UNCHANGED <<todo, left, cleaned, doomed, faults, crashes, powerFailures>>
    BY <1>2 DEF vars, writer, cleanup, budget
  <2>2. WalType' /\ OrderInv'
    BY <2>1 DEF WalInv, WalType, OrderInv, Behind, NoCollision, Writing, Submitted, RecoveredInOrder, Positions, Ids
  <2>3. CleanInv' /\ DamageInv'
    BY <2>1 DEF WalInv, CleanInv, RotatedIsSynced, DamageInv, AtRisk, Torn, Live, Positions, Ids
  <2>4. KeepInv'
    BY <2>1 DEF WalInv, KeepInv, CurrentKept, Above, Passed, Rotating, Returning, OnDisk, Ids
  <2> QED
    BY <2>2, <2>3, <2>4 DEF WalInv
<1> QED
  BY <1>1, <1>2

\* The invariant holds in every state.
LEMMA WalInvHolds == Spec => []WalInv
<1> QED
  BY WalInvInit, WalInvNext, PTL DEF Spec

-----------------------------------------------------------------------------
(* What the invariant says of recovery.                                     *)

\* FirstTorn finds the first record that is not an entry, if there is one.
LEMMA FirstTornIs ==
  ASSUME NEW recs, NEW n \in Nat, n = Len(recs), \A i \in 1 .. n : recs[i] \in Int
  PROVE  /\ FirstTorn(recs) <= n => \E i \in 1 .. n : recs[i] <= 0
         /\ FirstTorn(recs) > n => \A i \in 1 .. n : recs[i] > 0
         /\ FirstTorn(recs) \in Nat
<1> DEFINE T == {i \in 1 .. n : recs[i] <= 0}
<1>1. CASE T = {}
  <2>1. FirstTorn(recs) = n + 1
    BY <1>1 DEF FirstTorn
  <2>2. \A i \in 1 .. n : recs[i] > 0
    BY <1>1
  <2> QED
    BY <2>1, <2>2
<1>2. CASE T # {}
  <2>1. FirstTorn(recs) = CHOOSE i \in T : \A j \in T : i <= j
    BY <1>2 DEF FirstTorn
  <2>2. T \in SUBSET Nat
    OBVIOUS
  <2>3. \E m \in T : \A k \in T : m <= k
    BY <1>2, <2>2, LeastNat
  <2>4. FirstTorn(recs) \in T
    BY <2>1, <2>3
  <2> QED
    BY <2>4
<1> QED
  BY <1>1, <1>2

\* A segment without damage is read back whole.
LEMMA UndamagedIsRead ==
  ASSUME WalType, Behind, NEW k \in Ids, k \notin Damaged
  PROVE  Entries(segs[k].recs) \subseteq read_segment(segs[k])
<1>1. /\ Len(segs[k].recs) \in Nat /\ \A i \in 1 .. Len(segs[k].recs) : segs[k].recs[i] \in Int
      /\ segs[k].hdr \in {"ok", "none", "torn"}
  <2>1. \A i \in Positions(k) : segs[k].recs[i] \in -1 .. MaxEntries
    BY RecordTypes
  <2>2. -1 .. MaxEntries \subseteq Int
    BY WalBounds
  <2>3. segs[k].hdr \in {"ok", "none", "torn"}
    BY DEF WalType, File
  <2> QED
    BY <2>1, <2>2, <2>3, RecordTypes DEF Positions
<1>2. PICK r : r = segs[k].recs
  OBVIOUS
<1>3. FirstTorn(r) \in Nat
  BY <1>1, <1>2, FirstTornIs
<1>4. segs[k].hdr # "torn" /\ FirstTorn(r) > Len(r)
  BY <1>1, <1>2, <1>3 DEF Damaged
<1>5. CASE segs[k].hdr = "none"
  <2>1. r = <<>>
    BY <1>2, <1>5 DEF Behind
  <2>2. Entries(r) = {}
    BY <2>1, EmptySeq DEF Entries
  <2> QED
    BY <1>2, <2>2
<1>6. CASE segs[k].hdr = "ok"
  BY <1>2, <1>4, <1>6 DEF read_segment
<1> QED
  BY <1>1, <1>4, <1>5, <1>6

\* A damaged file is at risk, or is being written.
LEMMA DamagedAtRisk ==
  ASSUME WalType
  PROVE  Damaged \subseteq AtRisk \cup (IF phase = "data" THEN {cur} ELSE {})
<1> SUFFICES ASSUME NEW k \in Damaged, ~(phase = "data" /\ k = cur) PROVE k \in AtRisk
  OBVIOUS
<1>1. k \in Ids /\ (segs[k].hdr = "torn" \/ FirstTorn(segs[k].recs) <= Len(segs[k].recs))
  BY DEF Damaged
<1>2. Len(segs[k].recs) \in Nat /\ \A i \in 1 .. Len(segs[k].recs) : segs[k].recs[i] \in Int
  <2>1. \A i \in Positions(k) : segs[k].recs[i] \in -1 .. MaxEntries
    BY <1>1, RecordTypes
  <2>2. -1 .. MaxEntries \subseteq Int
    BY WalBounds
  <2> QED
    BY <1>1, <2>1, <2>2, RecordTypes DEF Positions
<1>3. PICK r : r = segs[k].recs
  OBVIOUS
<1>4. FirstTorn(r) <= Len(r) => \E i \in 1 .. Len(r) : r[i] <= 0
  BY <1>2, <1>3, FirstTornIs
<1>5. Torn(k)
  BY <1>1, <1>3, <1>4 DEF Torn, Positions
<1> QED
  BY <1>1, <1>5 DEF AtRisk

\* The invariant implies that every entry is accounted for.
LEMMA AccountedFor == WalInv => EntriesAccounted
<1> SUFFICES ASSUME WalInv PROVE EntriesAccounted
  OBVIOUS
<1>1. WalType /\ Behind
  BY DEF WalInv, OrderInv
<1>2. TypeOK
  <2>1. \A k \in Ids : /\ segs[k].hdr \in {"ok", "none", "torn"}
                       /\ segs[k].recs \in Seq(-1 .. MaxEntries)
                       /\ synced[k] \in -1 .. Len(segs[k].recs)
    <3> SUFFICES ASSUME NEW k \in Ids
                 PROVE  /\ segs[k].hdr \in {"ok", "none", "torn"}
                        /\ segs[k].recs \in Seq(-1 .. MaxEntries)
                        /\ synced[k] \in -1 .. Len(segs[k].recs)
      OBVIOUS
    <3>1. segs[k].hdr \in {"ok", "none", "torn"} /\ segs[k].recs \in Seq(-1 .. MaxEntries)
      BY <1>1 DEF WalType, File, Recording
    <3>2. /\ Len(segs[k].recs) \in Nat /\ synced[k] \in Int /\ -1 <= synced[k]
          /\ synced[k] <= Len(segs[k].recs)
      BY <1>1, RecordTypes DEF WalType
    <3> QED
      BY <3>1, <3>2
  <2>2. Ids \subseteq Nat /\ DOMAIN synced = Ids /\ todo \subseteq Nat
    BY <1>1 DEF WalType
  <2> QED
    BY <2>1, <2>2, <1>1 DEF TypeOK, WalType, Phases
<1>3. AckedAccounted
  <2> SUFFICES ASSUME faults < MinKeep, NEW e \in acked,
                      e \notin cleaned, e \notin doomed,
                      e \notin UNION {Entries(segs[k].recs) : k \in Damaged}
               PROVE  e \in recover
    BY DEF AckedAccounted
  <2>1. e \in OnDisk
    BY DEF WalInv, KeepInv
  <2>2. PICK k \in Ids : e \in Entries(segs[k].recs)
    BY <2>1 DEF OnDisk
  <2>3. k \notin Damaged
    BY <2>2
  <2>4. e \in read_segment(segs[k])
    BY <1>1, <2>2, <2>3, UndamagedIsRead
  <2> QED
    BY <2>2, <2>4 DEF recover
<1>4. DamageBound
  <2>1. PICK A : A = AtRisk
    OBVIOUS
  <2>2. PICK D : D = Damaged
    OBVIOUS
  <2>3. IsFiniteSet(A) /\ Cardinality(A) \in Nat /\ IsFiniteSet(D) /\ Cardinality(D) \in Nat
    <3>1. A \in SUBSET Ids /\ D \in SUBSET Ids /\ IsFiniteSet(Ids)
      BY <1>1, <2>1, <2>2 DEF WalType, AtRisk, Damaged
    <3> QED
      BY <3>1, FS_Subset, FS_CardinalityType
  <2>4. Cardinality(A) <= faults + crashes + powerFailures
    BY <2>1 DEF WalInv, DamageInv
  <2>5. PICK n \in Nat : n = faults + crashes + powerFailures
    BY <1>1 DEF WalType
  <2>6. CASE phase = "data"
    <3>1. PICK c : c = cur
      OBVIOUS
    <3>2. D \subseteq A \cup {c}
      BY <1>1, <2>1, <2>2, <2>6, <3>1, DamagedAtRisk
    <3>3. Cardinality(D) <= Cardinality(A) + 1
      BY <3>2, <2>3, OneMore
    <3>4. Cardinality(D) <= n + 1
      BY <3>3, <2>3, <2>4, <2>5
    <3> QED
      BY <3>4, <2>2, <2>5, <2>6 DEF DamageBound
  <2>7. CASE phase # "data"
    <3>1. D \subseteq A
      BY <1>1, <2>1, <2>2, <2>7, DamagedAtRisk
    <3>2. Cardinality(D) <= Cardinality(A)
      BY <3>1, <2>3, FS_Subset
    <3>3. Cardinality(D) <= n /\ n = n + 0
      BY <3>2, <2>3, <2>4, <2>5
    <3> QED
      BY <3>3, <2>2, <2>5, <2>7 DEF DamageBound
  <2> QED
    BY <2>6, <2>7
<1> QED
  BY <1>2, <1>3, <1>4 DEF EntriesAccounted

\* The invariant implies that the log can be read.
LEMMA ReadableOf == WalInv => LogReadable
<1> SUFFICES ASSUME WalInv PROVE LogReadable
  OBVIOUS
<1>1. NoCollision /\ RecoveredInOrder
  BY DEF WalInv, OrderInv, Behind
<1>2. Contiguous
  <2> SUFFICES ASSUME faults = 0 PROVE Ids = (seg + 1 - Cardinality(Ids)) .. seg
    BY DEF Contiguous
  <2>1. PICK lo \in 0 .. seg + 1 : Ids = lo .. seg
    BY DEF WalInv, CleanInv
  <2>2. seg \in Nat /\ lo \in Nat /\ lo <= seg + 1
    BY <2>1 DEF WalInv, WalType
  <2>3. Cardinality(lo .. seg) = IF lo > seg THEN 0 ELSE seg - lo + 1
    BY <2>2, FS_Interval
  <2>4. PICK n \in Nat : n = Cardinality(lo .. seg)
    BY <2>2, <2>3
  <2>5. seg + 1 - n = lo
    BY <2>2, <2>3, <2>4
  <2> QED
    BY <2>1, <2>4, <2>5
<1> QED
  BY <1>1, <1>2 DEF LogReadable

\* The invariant implies that the files are kept.
LEMMA KeptOf == WalInv => FilesKept
<1> SUFFICES ASSUME WalInv PROVE FilesKept
  OBVIOUS
<1>1. RotatedIsSynced
  BY DEF WalInv, CleanInv, RotatedIsSynced
<1> QED
  BY <1>1 DEF WalInv, KeepInv, FilesKept

\* After any rotations, failed operations, crashes and cleanups the entries in
\* the segment files are in the order of the log_write calls, rotate never
\* meets an existing file, and without failed operations no id is missing.
THEOREM LogReadableHolds == Spec => []LogReadable
<1> QED
  BY WalInvHolds, ReadableOf, PTL

\* An entry whose log_write returned Ok is recovered, or cleanup deleted it,
\* or a power failure took it, or its segment has an unreadable record, of
\* which there are no more than failures and crashes.
THEOREM EntriesAccountedHolds == Spec => []EntriesAccounted
<1> QED
  BY WalInvHolds, AccountedFor, PTL

\* Rotated segments are on stable storage, and the cleanup, which runs without
\* the writer's lock, does not delete the file being written as long as fewer
\* operations have failed than segments are kept.
THEOREM FilesKeptHolds == Spec => []FilesKept
<1> QED
  BY WalInvHolds, KeptOf, PTL

-----------------------------------------------------------------------------
(* The asynchronous writer.  What a call does to the writer and the files is  *)
(* said of the states the calls work on.                                     *)

AwWriter == [pending : Seq(Nat), buffer : Seq(Nat), segment : Nat, entries : Nat, expired : BOOLEAN]

\* The entries of every segment, with what the last one will get.
LineOf(s) == [k \in DOMAIN s.files |-> IF k = s.w.segment THEN s.files[k] \o Waiting(s.w) ELSE s.files[k]]
EntriesOf(s) == UNION {ToSet(LineOf(s)[k]) : k \in DOMAIN s.files}
InOrder(L) ==
  \A k, l \in DOMAIN L : \A i \in DOMAIN L[k], j \in DOMAIN L[l] :
    k < l \/ (k = l /\ i < j) => L[k][i] < L[l][j]

AwType(s) ==
  /\ s = [w |-> s.w, files |-> s.files, synced |-> s.synced, replaced |-> s.replaced]
  /\ s.w \in AwWriter
  /\ s.files \in [0..s.w.segment -> Seq(Nat)]
  /\ s.synced \in [0..s.w.segment -> Nat]
  /\ \A k \in 0..s.w.segment : s.synced[k] <= Len(s.files[k])
AwGood(s, n) ==
  /\ AwType(s)
  /\ InOrder(LineOf(s))
  /\ EntriesOf(s) \subseteq 1..n /\ s.replaced \subseteq 1..n
  /\ EntriesOf(s) \cap s.replaced = {}

\* No entry gets lost unnoticed between s and t, and what is synced stays.
Continues(s, t) ==
  /\ EntriesOf(s) \cup s.replaced \subseteq EntriesOf(t) \cup t.replaced
  /\ \A k \in DOMAIN s.files :
       /\ k \in DOMAIN t.files /\ s.synced[k] <= t.synced[k]
       /\ \A i \in 1..s.synced[k] : t.files[k][i] = s.files[k][i]

\* The entries of a state, by their places.
LEMMA EntryPlaces ==
  ASSUME NEW s, NEW x
  PROVE  x \in EntriesOf(s) <=> \E k \in DOMAIN LineOf(s) : \E i \in DOMAIN LineOf(s)[k] : LineOf(s)[k][i] = x
<1>1. DOMAIN LineOf(s) = DOMAIN s.files
  BY DEF LineOf
<1> QED
  BY <1>1 DEF EntriesOf, ToSet

\* One call after the other.
LEMMA ContinuesOn ==
  ASSUME NEW s, NEW t, NEW u, AwType(s), AwType(t), AwType(u), Continues(s, t), Continues(t, u)
  PROVE  Continues(s, u)
<1>1. ASSUME NEW k \in DOMAIN s.files
      PROVE  /\ k \in DOMAIN u.files /\ s.synced[k] <= u.synced[k]
             /\ \A i \in 1..s.synced[k] : u.files[k][i] = s.files[k][i]
  <2>1. k \in DOMAIN t.files /\ k \in DOMAIN u.files /\ s.synced[k] <= t.synced[k] /\ t.synced[k] <= u.synced[k]
    BY <1>1 DEF Continues
  <2>2. s.synced[k] \in Nat /\ t.synced[k] \in Nat /\ u.synced[k] \in Nat
    BY <1>1, <2>1 DEF AwType
  <2>3. ASSUME NEW i \in 1..s.synced[k] PROVE u.files[k][i] = s.files[k][i]
    <3>1. i \in 1..t.synced[k]
      BY <2>1, <2>2
    <3>2. t.files[k][i] = s.files[k][i]
      BY DEF Continues
    <3>3. u.files[k][i] = t.files[k][i]
      BY <2>1, <3>1 DEF Continues
    <3> QED
      BY <3>2, <3>3
  <2> QED
    BY <2>1, <2>2, <2>3
<1> QED
  BY <1>1 DEF Continues

\* What stays in a buffer is a part of what came.
LEMMA OutBounded ==
  ASSUME NEW n \in Nat
  PROVE  PushedOut(n) \in 0..n
<1>1. BufferEntries \in Nat \ {0}
  BY AsyncAssumption
<1>2. CASE n = 0
  BY <1>2 DEF PushedOut
<1>3. CASE n # 0
  <2>1. PICK m \in Nat : m = n - 1
    BY <1>3
  <2>2. m \div BufferEntries \in Nat /\ BufferEntries * (m \div BufferEntries) <= m
    BY <1>1
  <2>3. PICK q \in Nat : q = m \div BufferEntries
    BY <2>2
  <2>4. BufferEntries * q \in Nat
    BY <1>1
  <2> QED
    BY <1>3, <2>1, <2>2, <2>3, <2>4 DEF PushedOut
<1> QED
  BY <1>2, <1>3

\* A sequence cut in two, and put together again.
LEMMA CutInTwo ==
  ASSUME NEW T, NEW s \in Seq(T), NEW m \in 0..Len(s)
  PROVE  /\ SubSeq(s, 1, m) \in Seq(T) /\ SubSeq(s, m + 1, Len(s)) \in Seq(T)
         /\ Len(SubSeq(s, 1, m)) = m /\ Len(SubSeq(s, m + 1, Len(s))) = Len(s) - m
         /\ SubSeq(s, 1, m) \o SubSeq(s, m + 1, Len(s)) = s
<1>0. PICK a, b : a = SubSeq(s, 1, m) /\ b = SubSeq(s, m + 1, Len(s))
  OBVIOUS
<1>1. a \in Seq(T) /\ Len(a) = m /\ \A i \in 1..m : a[i] = s[i]
  BY <1>0
<1>2. b \in Seq(T) /\ Len(b) = Len(s) - m /\ \A i \in 1..(Len(s) - m) : b[i] = s[m + i]
  BY <1>0
<1>3. /\ a \o b \in Seq(T) /\ Len(a \o b) = Len(a) + Len(b)
      /\ \A i \in 1..(Len(a) + Len(b)) : (a \o b)[i] = IF i <= Len(a) THEN a[i] ELSE b[i - Len(a)]
  BY <1>1, <1>2, ConcatProperties
<1>4. Len(a) + Len(b) = Len(s)
  BY <1>1, <1>2
<1>5. ASSUME NEW i \in 1..Len(s) PROVE (a \o b)[i] = s[i]
  <2>1. (a \o b)[i] = IF i <= m THEN a[i] ELSE b[i - m]
    BY <1>1, <1>3, <1>4
  <2>2. CASE i <= m
    BY <1>1, <2>1, <2>2
  <2>3. CASE ~(i <= m)
    <3>1. i - m \in 1..(Len(s) - m) /\ m + (i - m) = i
      BY <2>3
    <3> QED
      BY <1>2, <2>1, <2>3, <3>1
  <2> QED
    BY <2>2, <2>3
<1>6. PICK c : c = a \o b
  OBVIOUS
<1>7. c = s
  BY <1>3, <1>4, <1>5, <1>6, SeqEqual
<1> QED
  BY <1>0, <1>1, <1>2, <1>6, <1>7

\* Where the pieces of a sequence are joined does not matter.
LEMMA Joined ==
  ASSUME NEW f \in Seq(Nat), NEW m \in Seq(Nat), NEW b \in Seq(Nat)
  PROVE  (f \o m) \o b = f \o (m \o b) /\ m \o b \in Seq(Nat)
OBVIOUS

\* The places of two joined sequences.
LEMMA JoinedPlaces ==
  ASSUME NEW f \in Seq(Nat), NEW b \in Seq(Nat)
  PROVE  /\ DOMAIN f = 1..Len(f) /\ DOMAIN (f \o b) = 1..(Len(f) + Len(b)) /\ Len(f) \in Nat /\ Len(b) \in Nat
         /\ \A i \in 1..Len(f) : (f \o b)[i] = f[i]
         /\ \A i \in 1..Len(b) : (f \o b)[Len(f) + i] = b[i]
<1>1. Len(f) \in Nat /\ Len(b) \in Nat /\ DOMAIN f = 1..Len(f)
  OBVIOUS
<1>2. Len(f \o b) = Len(f) + Len(b) /\ f \o b \in Seq(Nat)
  OBVIOUS
<1>3. DOMAIN (f \o b) = 1..(Len(f) + Len(b))
  BY <1>2
<1>4. ASSUME NEW i \in 1..Len(f) PROVE (f \o b)[i] = f[i]
  BY <1>1
<1>5. ASSUME NEW i \in 1..Len(b) PROVE (f \o b)[Len(f) + i] = b[i]
  BY <1>1
<1> QED
  BY <1>1, <1>3, <1>4, <1>5

\* A prefix of what waits goes to the file: the log stays what it was.
LEMMA WrittenKeeps ==
  ASSUME NEW s, NEW n, AwGood(s, n), NEW w \in AwWriter, w.segment = s.w.segment, NEW more \in Seq(Nat),
         more \o Waiting(w) = Waiting(s.w)
  PROVE  AwGood(Written(s, w, more), n) /\ Continues(s, Written(s, w, more))
<1>1. PICK t : t = Written(s, w, more)
  OBVIOUS
<1>2. PICK g : g = s.w.segment
  OBVIOUS
<1>3. AwType(s)
  BY DEF AwGood
<1>4. /\ t = [w |-> t.w, files |-> t.files, synced |-> t.synced, replaced |-> t.replaced]
      /\ t.w = w /\ t.synced = s.synced /\ t.replaced = s.replaced
      /\ t.files = [s.files EXCEPT ![g] = s.files[g] \o more]
  BY <1>1, <1>2 DEF Written
<1>5. /\ g \in Nat /\ w.segment = g /\ s.files \in [0..g -> Seq(Nat)] /\ s.synced \in [0..g -> Nat]
      /\ Waiting(w) \in Seq(Nat)
      /\ \A k \in 0..g : s.synced[k] <= Len(s.files[k])
  BY <1>2, <1>3 DEF AwType, AwWriter, Waiting
<1>6. PICK f : f = s.files[g]
  OBVIOUS
<1>7. f \in Seq(Nat) /\ f \o more \in Seq(Nat) /\ Len(f \o more) = Len(f) + Len(more) /\ g \in 0..g
      /\ \A i \in 1..Len(f) : (f \o more)[i] = f[i]
  BY <1>5, <1>6
<1>8. t.files \in [0..g -> Seq(Nat)] /\ DOMAIN t.files = 0..g /\ DOMAIN s.files = 0..g
  BY <1>4, <1>5, <1>6, <1>7
<1>9. ASSUME NEW k \in 0..g
      PROVE  /\ s.synced[k] \in Nat /\ s.synced[k] <= Len(t.files[k])
             /\ \A i \in 1..s.synced[k] : t.files[k][i] = s.files[k][i]
  <2>1. CASE k = g
    <3>1. t.files[k] = f \o more /\ s.files[k] = f
      BY <1>4, <1>5, <1>6, <1>7, <2>1
    <3>2. s.synced[k] \in Nat /\ s.synced[k] <= Len(f) /\ Len(f) \in Nat /\ Len(more) \in Nat
      <4>1. s.synced[k] \in Nat /\ s.synced[k] <= Len(f)
        BY <1>5, <3>1
      <4>2. Len(f) \in Nat /\ Len(more) \in Nat
        BY <1>7
      <4> QED
        BY <4>1, <4>2
    <3>3. \A i \in 1..s.synced[k] : i \in 1..Len(f)
      BY <3>2
    <3> QED
      BY <1>7, <3>1, <3>2, <3>3
  <2>2. CASE k # g
    <3>1. t.files[k] = s.files[k]
      BY <1>4, <1>5, <2>2
    <3> QED
      BY <1>5, <3>1
  <2> QED
    BY <2>1, <2>2
<1>10. AwType(t)
  BY <1>4, <1>5, <1>8, <1>9 DEF AwType
<1>11. (f \o more) \o Waiting(w) = f \o Waiting(s.w)
  <2>1. f \in Seq(Nat) /\ Waiting(w) \in Seq(Nat)
    BY <1>5, <1>7
  <2>2. (f \o more) \o Waiting(w) = f \o (more \o Waiting(w))
    BY <2>1, Joined
  <2> QED
    BY <2>2
<1>12. ASSUME NEW k \in 0..g PROVE LineOf(t)[k] = LineOf(s)[k]
  <2>1. CASE k = g
    <3>1. LineOf(t)[k] = (f \o more) \o Waiting(w)
      BY <1>4, <1>5, <1>6, <1>8, <2>1 DEF LineOf
    <3>2. LineOf(s)[k] = f \o Waiting(s.w)
      BY <1>2, <1>5, <1>6, <1>8, <2>1 DEF LineOf
    <3> QED
      BY <1>11, <3>1, <3>2
  <2>2. CASE k # g
    BY <1>2, <1>4, <1>5, <1>8, <2>2 DEF LineOf
  <2> QED
    BY <2>1, <2>2
<1>13. LineOf(t) = LineOf(s)
  BY <1>8, <1>12 DEF LineOf
<1>14. EntriesOf(t) = EntriesOf(s)
  BY <1>8, <1>13 DEF EntriesOf
<1>15. AwGood(t, n)
  BY <1>4, <1>10, <1>13, <1>14 DEF AwGood
<1>16. Continues(s, t)
  BY <1>4, <1>8, <1>9, <1>14, SMTT(30) DEF Continues
<1> QED
  BY <1>1, <1>15, <1>16

\* The fields of a writer.
LEMMA WriterFields ==
  ASSUME NEW s, NEW n, AwGood(s, n)
  PROVE  /\ s.w \in AwWriter /\ s.w.buffer \in Seq(Nat) /\ s.w.pending \in Seq(Nat)
         /\ s.w.segment \in Nat /\ s.w.entries \in Nat /\ Waiting(s.w) \in Seq(Nat)
BY DEF AwGood, AwType, AwWriter, Waiting

\* flush_batch: the batch goes to the buffer, and what does not fit to the file.
LEMMA FlushKeeps ==
  ASSUME NEW s, NEW n, AwGood(s, n)
  PROVE  AwGood(flush_batch(s), n) /\ Continues(s, flush_batch(s)) /\ flush_batch(s).w.pending = <<>>
<1>1. PICK o, all, out : o = s.w /\ all = Waiting(s.w) /\ out = PushedOut(Len(all))
  OBVIOUS
<1>2. o \in AwWriter /\ all \in Seq(Nat) /\ Len(all) \in Nat /\ out \in 0..Len(all)
  BY <1>1, WriterFields, OutBounded
<1>3. PICK rest, more : rest = SubSeq(all, out + 1, Len(all)) /\ more = SubSeq(all, 1, out)
  OBVIOUS
<1>4. rest \in Seq(Nat) /\ more \in Seq(Nat) /\ more \o rest = all
  BY <1>2, <1>3, CutInTwo
<1>5. PICK w : w = [o EXCEPT !.buffer = rest, !.pending = <<>>, !.entries = o.entries + Len(o.pending)]
  OBVIOUS
<1>6. w = [pending |-> <<>>, buffer |-> rest, segment |-> o.segment, entries |-> o.entries + Len(o.pending), expired |-> o.expired]
  BY <1>2, <1>5 DEF AwWriter
<1>7. o.segment \in Nat /\ o.entries \in Nat /\ o.expired \in BOOLEAN /\ Len(o.pending) \in Nat /\ <<>> \in Seq(Nat)
  BY <1>2 DEF AwWriter
<1>8. w \in AwWriter /\ w.segment = s.w.segment /\ w.pending = <<>> /\ w.buffer = rest
  BY <1>1, <1>4, <1>6, <1>7 DEF AwWriter
<1>9. Waiting(w) = rest
  BY <1>4, <1>8 DEF Waiting
<1>10. flush_batch(s) = Written(s, w, more)
  BY <1>1, <1>3, <1>5 DEF flush_batch
<1>11. more \o Waiting(w) = Waiting(s.w)
  BY <1>1, <1>4, <1>9
<1>12. AwGood(Written(s, w, more), n) /\ Continues(s, Written(s, w, more))
  BY <1>4, <1>8, <1>11, WrittenKeeps
<1>13. Written(s, w, more).w = w
  BY DEF Written
<1> QED
  BY <1>8, <1>10, <1>12, <1>13

\* The buffer is flushed.
LEMMA SpillKeeps ==
  ASSUME NEW s, NEW n, AwGood(s, n)
  PROVE  /\ AwGood(Spill(s), n) /\ Continues(s, Spill(s))
         /\ Spill(s).w.segment = s.w.segment /\ Spill(s).w.pending = s.w.pending /\ Spill(s).w.buffer = <<>>
<1>1. PICK o, more : o = s.w /\ more = s.w.buffer
  OBVIOUS
<1>2. o \in AwWriter /\ more \in Seq(Nat) /\ o.pending \in Seq(Nat)
  BY <1>1, WriterFields
<1>3. PICK w : w = [o EXCEPT !.buffer = <<>>]
  OBVIOUS
<1>4. w \in AwWriter /\ w.segment = s.w.segment /\ w.pending = o.pending /\ w.buffer = <<>>
  <2>1. w.segment = o.segment /\ w.pending = o.pending /\ w.buffer = <<>>
    BY <1>2, <1>3 DEF AwWriter
  <2>0. <<>> \in Seq(Nat)
    OBVIOUS
  <2>2. PICK e : e = <<>> /\ e \in Seq(Nat)
    BY <2>0
  <2>3. w = [o EXCEPT !.buffer = e]
    BY <1>3, <2>2
  <2>4. w \in AwWriter
    BY <1>2, <2>2, <2>3 DEF AwWriter
  <2> QED
    BY <1>1, <2>1, <2>4
<1>5. Waiting(w) = o.pending
  BY <1>2, <1>4 DEF Waiting
<1>6. more \o Waiting(w) = Waiting(s.w)
  BY <1>1, <1>5 DEF Waiting
<1>7. Spill(s) = Written(s, w, more)
  BY <1>1, <1>3 DEF Spill
<1>8. AwGood(Written(s, w, more), n) /\ Continues(s, Written(s, w, more))
  BY <1>2, <1>4, <1>6, WrittenKeeps
<1>9. Written(s, w, more).w = w
  BY DEF Written
<1> QED
  BY <1>1, <1>4, <1>7, <1>8, <1>9

\* A sync: the whole file of the segment is on stable storage.
LEMMA SyncKeeps ==
  ASSUME NEW s, NEW n, AwGood(s, n)
  PROVE  /\ AwGood(SyncAll(s), n) /\ Continues(s, SyncAll(s))
         /\ SyncAll(s).w.segment = s.w.segment /\ SyncAll(s).w.pending = s.w.pending /\ SyncAll(s).w.buffer = <<>>
         /\ SyncAll(s).synced[s.w.segment] = Len(SyncAll(s).files[s.w.segment])
<1>1. PICK t, u, g : t = Spill(s) /\ u = SyncAll(s) /\ g = s.w.segment
  OBVIOUS
<1>2. AwGood(t, n) /\ Continues(s, t) /\ t.w.segment = g /\ t.w.pending = s.w.pending /\ t.w.buffer = <<>>
  BY <1>1, SpillKeeps
<1>3. u = [t EXCEPT !.synced = [t.synced EXCEPT ![g] = Len(t.files[g])]]
  BY <1>1, <1>2 DEF SyncAll
<1>4. t = [w |-> t.w, files |-> t.files, synced |-> t.synced, replaced |-> t.replaced]
  BY <1>2 DEF AwGood, AwType
<1>5. PICK W, F, Y, R : W = t.w /\ F = t.files /\ Y = t.synced /\ R = t.replaced
  OBVIOUS
<1>6. u = [w |-> W, files |-> F, synced |-> [Y EXCEPT ![g] = Len(F[g])], replaced |-> R]
  BY <1>3, <1>4, <1>5
<1>7. u.w = t.w /\ u.files = t.files /\ u.replaced = t.replaced /\ u.synced = [t.synced EXCEPT ![g] = Len(t.files[g])]
      /\ u = [w |-> u.w, files |-> u.files, synced |-> u.synced, replaced |-> u.replaced]
  BY <1>5, <1>6
<1>8. /\ g \in Nat /\ t.w \in AwWriter /\ t.files \in [0..g -> Seq(Nat)] /\ t.synced \in [0..g -> Nat] /\ g \in 0..g
      /\ \A k \in 0..g : t.synced[k] <= Len(t.files[k])
  <2>1. g \in Nat
    BY <1>1, WriterFields
  <2>2. AwType(t)
    BY <1>2 DEF AwGood
  <2>3. /\ t.w \in AwWriter /\ t.files \in [0..t.w.segment -> Seq(Nat)] /\ t.synced \in [0..t.w.segment -> Nat]
        /\ \A k \in 0..t.w.segment : t.synced[k] <= Len(t.files[k])
    BY <2>2 DEF AwType
  <2>4. g \in 0..g
    BY <2>1
  <2>5. t.w.segment = g
    BY <1>2
  <2> QED
    BY <2>1, <2>3, <2>4, <2>5
<1>9. Len(t.files[g]) \in Nat
  BY <1>8
<1>10. ASSUME NEW k \in 0..g PROVE u.synced[k] \in Nat /\ t.synced[k] <= u.synced[k] /\ u.synced[k] <= Len(t.files[k])
  <2>1. CASE k = g
    <3>1. u.synced[k] = Len(t.files[g])
      BY <1>7, <1>8, <2>1
    <3> QED
      BY <1>8, <1>9, <2>1, <3>1
  <2>2. CASE k # g
    <3>1. u.synced[k] = t.synced[k]
      BY <1>7, <1>8, <2>2
    <3>2. t.synced[k] \in Nat /\ t.synced[k] <= Len(t.files[k])
      BY <1>8
    <3> QED
      BY <3>1, <3>2
  <2> QED
    BY <2>1, <2>2
<1>11. u.synced \in [0..g -> Nat] /\ u.synced[g] = Len(t.files[g])
  BY <1>7, <1>8, <1>9
<1>12. AwType(u)
  BY <1>2, <1>7, <1>8, <1>10, <1>11 DEF AwType
<1>13. LineOf(u) = LineOf(t) /\ EntriesOf(u) = EntriesOf(t)
  BY <1>7 DEF LineOf, EntriesOf
<1>14. AwGood(u, n)
  BY <1>2, <1>7, <1>12, <1>13 DEF AwGood
<1>15. DOMAIN t.files = 0..g
  BY <1>8
<1>16. Continues(t, u)
  <2>1. EntriesOf(t) \cup t.replaced \subseteq EntriesOf(u) \cup u.replaced
    BY <1>7, <1>13
  <2>2. \A k \in DOMAIN t.files :
          /\ k \in DOMAIN u.files /\ t.synced[k] <= u.synced[k]
          /\ \A i \in 1..t.synced[k] : u.files[k][i] = t.files[k][i]
    BY <1>7, <1>10, <1>15
  <2> QED
    BY <2>1, <2>2 DEF Continues
<1>17. Continues(s, u)
  BY <1>2, <1>12, <1>16, ContinuesOn DEF AwGood
<1> QED
  BY <1>1, <1>2, <1>7, <1>11, <1>14, <1>17

\* rotate_inner, when the batch is empty: what the buffer held is replaced.
LEMMA RotateKeeps ==
  ASSUME NEW s, NEW n, AwGood(s, n), s.w.pending = <<>>
  PROVE  /\ AwGood(rotate_inner(s), n) /\ Continues(s, rotate_inner(s)) /\ rotate_inner(s).w.pending = <<>>
<1>1. PICK t, o, g, b : t = rotate_inner(s) /\ o = s.w /\ g = s.w.segment /\ b = s.w.buffer
  OBVIOUS
<1>2. o \in AwWriter /\ g \in Nat /\ b \in Seq(Nat) /\ o.segment = g /\ o.pending = <<>> /\ o.buffer = b
  BY <1>1, WriterFields
<1>3. /\ s.files \in [0..g -> Seq(Nat)] /\ s.synced \in [0..g -> Nat]
      /\ \A k \in 0..g : s.synced[k] <= Len(s.files[k])
  BY <1>1 DEF AwGood, AwType
<1>4. /\ t.w = [o EXCEPT !.segment = g + 1, !.entries = 0, !.buffer = <<>>, !.expired = FALSE]
      /\ t.files = [j \in DOMAIN s.files \cup {g + 1} |-> IF j = g + 1 THEN <<>> ELSE s.files[j]]
      /\ t.synced = [j \in DOMAIN s.synced \cup {g + 1} |-> IF j = g + 1 THEN 0 ELSE s.synced[j]]
      /\ t.replaced = s.replaced \cup ToSet(b)
      /\ t = [w |-> t.w, files |-> t.files, synced |-> t.synced, replaced |-> t.replaced]
  BY <1>1 DEF rotate_inner
<1>5. 0..(g + 1) = 0..g \cup {g + 1} /\ g + 1 \notin 0..g /\ DOMAIN s.files = 0..g /\ DOMAIN s.synced = 0..g /\ <<>> \in Seq(Nat)
  BY <1>2, <1>3
<1>6. t.w = [pending |-> <<>>, buffer |-> <<>>, segment |-> g + 1, entries |-> 0, expired |-> FALSE]
  BY <1>2, <1>4 DEF AwWriter
<1>7. t.w \in AwWriter /\ t.w.segment = g + 1 /\ t.w.pending = <<>> /\ t.w.buffer = <<>>
  BY <1>2, <1>5, <1>6 DEF AwWriter
<1>8. Waiting(t.w) = <<>>
  BY <1>7 DEF Waiting
<1>9. Waiting(s.w) = b
  BY <1>1, <1>2 DEF Waiting
<1>10. DOMAIN t.files = 0..(g + 1) /\ t.files[g + 1] = <<>> /\ t.synced[g + 1] = 0
  BY <1>4, <1>5
<1>11. ASSUME NEW k \in 0..g PROVE t.files[k] = s.files[k] /\ t.synced[k] = s.synced[k]
  BY <1>4, <1>5
<1>12. AwType(t)
  <2>1. t.files \in [0..(g + 1) -> Seq(Nat)]
    BY <1>3, <1>4, <1>5
  <2>2. t.synced \in [0..(g + 1) -> Nat]
    <3>1. t.synced = [j \in 0..(g + 1) |-> IF j = g + 1 THEN 0 ELSE s.synced[j]]
      BY <1>4, <1>5
    <3>2. \A j \in 0..(g + 1) : (IF j = g + 1 THEN 0 ELSE s.synced[j]) \in Nat
      BY <1>3, <1>5
    <3> QED
      BY <3>1, <3>2
  <2>3. ASSUME NEW k \in 0..(g + 1) PROVE t.synced[k] <= Len(t.files[k])
    BY <1>3, <1>5, <1>10, <1>11
  <2> QED
    BY <1>4, <1>7, <2>1, <2>2, <2>3 DEF AwType
<1>13. PICK f \in Seq(Nat) : f = s.files[g]
  BY <1>2, <1>3
<1>14. PICK L, M : L = LineOf(s) /\ M = LineOf(t)
  OBVIOUS
<1>15. DOMAIN L = 0..g /\ L[g] = f \o b /\ \A k \in 0..g : k # g => L[k] = s.files[k]
  <2>1. L = [k \in 0..g |-> IF k = g THEN s.files[k] \o b ELSE s.files[k]]
    BY <1>1, <1>5, <1>9, <1>14 DEF LineOf
  <2>2. g \in 0..g
    BY <1>2
  <2> QED
    BY <1>13, <2>1, <2>2
<1>16. DOMAIN M = 0..(g + 1) /\ M[g + 1] = <<>> /\ \A k \in 0..g : M[k] = s.files[k]
  <2>1. M = [k \in 0..(g + 1) |-> IF k = g + 1 THEN t.files[k] \o <<>> ELSE t.files[k]]
    BY <1>7, <1>8, <1>10, <1>14 DEF LineOf
  <2>2. g + 1 \in 0..(g + 1) /\ <<>> \o <<>> = <<>>
    BY <1>2
  <2>3. M[g + 1] = <<>>
    BY <1>10, <2>1, <2>2
  <2>4. ASSUME NEW k \in 0..g PROVE M[k] = s.files[k]
    BY <1>5, <1>11, <2>1
  <2> QED
    BY <2>1, <2>3, <2>4
<1>17. /\ DOMAIN f = 1..Len(f) /\ DOMAIN (f \o b) = 1..(Len(f) + Len(b)) /\ Len(f) \in Nat /\ Len(b) \in Nat
       /\ \A i \in 1..Len(f) : (f \o b)[i] = f[i]
       /\ \A i \in 1..Len(b) : (f \o b)[Len(f) + i] = b[i]
  BY <1>2, <1>13, JoinedPlaces
<1>18. ASSUME NEW k \in DOMAIN M, NEW i \in DOMAIN M[k]
       PROVE  k \in DOMAIN L /\ i \in DOMAIN L[k] /\ L[k][i] = M[k][i]
  <2>1. k \in 0..g
    BY <1>5, <1>16, <1>18
  <2>2. CASE k = g
    <3>1. M[k] = f /\ L[k] = f \o b
      BY <1>13, <1>15, <1>16, <2>1, <2>2
    <3>2. i \in 1..Len(f)
      BY <1>17, <1>18, <3>1
    <3> QED
      BY <1>15, <1>17, <2>1, <3>1, <3>2
  <2>3. CASE k # g
    BY <1>15, <1>16, <1>18, <2>1, <2>3
  <2> QED
    BY <2>2, <2>3
<1>19. InOrder(L) /\ EntriesOf(s) \subseteq 1..n /\ s.replaced \subseteq 1..n /\ EntriesOf(s) \cap s.replaced = {}
  BY <1>14 DEF AwGood
<1>20. InOrder(M)
  BY <1>18, <1>19 DEF InOrder
<1>21. \A x : x \in EntriesOf(s) <=> \E k \in DOMAIN L : \E i \in DOMAIN L[k] : L[k][i] = x
  BY <1>14, EntryPlaces
<1>22. \A x : x \in EntriesOf(t) <=> \E k \in DOMAIN M : \E i \in DOMAIN M[k] : M[k][i] = x
  BY <1>14, EntryPlaces
<1>23. ASSUME NEW x \in ToSet(b) PROVE x \in EntriesOf(s) /\ x \notin EntriesOf(t)
  <2>1. PICK j \in 1..Len(b) : b[j] = x
    BY <1>2, <1>23 DEF ToSet
  <2>2. g \in DOMAIN L /\ Len(f) + j \in DOMAIN L[g] /\ L[g][Len(f) + j] = x
    BY <1>2, <1>15, <1>17, <2>1
  <2>3. ASSUME x \in EntriesOf(t) PROVE FALSE
    <3>1. PICK k \in DOMAIN M : \E i \in DOMAIN M[k] : M[k][i] = x
      BY <1>22, <2>3
    <3>2. PICK i \in DOMAIN M[k] : M[k][i] = x
      BY <3>1
    <3>3. k \in DOMAIN L /\ i \in DOMAIN L[k] /\ L[k][i] = x
      BY <1>18, <3>2
    <3>4. k \in 0..g /\ (k = g => i < Len(f) + j)
      <4>1. k \in 0..g
        BY <1>15, <3>3
      <4>2. ASSUME k = g PROVE i < Len(f) + j
        <5>1. i \in 1..Len(f)
          BY <1>13, <1>16, <1>17, <4>1, <4>2
        <5> QED
          BY <1>17, <2>1, <5>1
      <4> QED
        BY <4>1, <4>2
    <3>5. k < g \/ (k = g /\ i < Len(f) + j)
      BY <1>2, <3>4
    <3>6. x < x
      BY <1>19, <2>2, <3>3, <3>5 DEF InOrder
    <3>7. x \in Nat
      BY <1>2, <2>1
    <3> QED
      BY <3>6, <3>7
  <2> QED
    BY <1>21, <2>2, <2>3
<1>24. EntriesOf(t) \subseteq EntriesOf(s) /\ EntriesOf(s) \subseteq EntriesOf(t) \cup ToSet(b)
  <2>1. EntriesOf(t) \subseteq EntriesOf(s)
    BY <1>18, <1>21, <1>22
  <2>2. ASSUME NEW x \in EntriesOf(s) PROVE x \in EntriesOf(t) \cup ToSet(b)
    <3>1. PICK k \in DOMAIN L : \E i \in DOMAIN L[k] : L[k][i] = x
      BY <1>21, <2>2
    <3>2. PICK i \in DOMAIN L[k] : L[k][i] = x
      BY <3>1
    <3>3. k \in 0..g /\ k \in DOMAIN M /\ M[k] = s.files[k]
      BY <1>5, <1>15, <1>16
    <3>4. CASE k # g
      BY <1>15, <1>22, <3>2, <3>3, <3>4
    <3>5. CASE k = g
      <4>1. i \in 1..(Len(f) + Len(b)) /\ (f \o b)[i] = x /\ M[k] = f
        BY <1>13, <1>15, <1>17, <3>2, <3>3, <3>5
      <4>2. CASE i <= Len(f)
        <5>1. i \in 1..Len(f)
          BY <1>17, <4>1, <4>2
        <5> QED
          BY <1>17, <1>22, <3>3, <4>1, <5>1
      <4>3. CASE ~(i <= Len(f))
        <5>1. i - Len(f) \in 1..Len(b) /\ Len(f) + (i - Len(f)) = i
          BY <1>17, <4>1, <4>3
        <5>2. b[i - Len(f)] = x /\ DOMAIN b = 1..Len(b)
          BY <1>2, <1>17, <4>1, <5>1
        <5> QED
          BY <5>1, <5>2 DEF ToSet
      <4> QED
        BY <4>2, <4>3
    <3> QED
      BY <3>4, <3>5
  <2> QED
    BY <2>1, <2>2
<1>25. AwGood(t, n)
  <2>1. EntriesOf(t) \subseteq 1..n /\ t.replaced \subseteq 1..n /\ EntriesOf(t) \cap t.replaced = {}
    BY <1>4, <1>19, <1>23, <1>24
  <2> QED
    BY <1>12, <1>14, <1>20, <2>1 DEF AwGood
<1>26. Continues(s, t)
  <2>1. EntriesOf(s) \cup s.replaced \subseteq EntriesOf(t) \cup t.replaced
    BY <1>4, <1>24
  <2>2. ASSUME NEW k \in DOMAIN s.files
        PROVE  /\ k \in DOMAIN t.files /\ s.synced[k] <= t.synced[k]
               /\ \A i \in 1..s.synced[k] : t.files[k][i] = s.files[k][i]
    <3>1. k \in 0..g /\ s.synced[k] \in Nat
      BY <1>3, <1>5
    <3>2. t.files[k] = s.files[k] /\ t.synced[k] = s.synced[k] /\ k \in DOMAIN t.files
      BY <1>5, <1>10, <1>11, <3>1
    <3> QED
      BY <3>1, <3>2
  <2> QED
    BY <2>1, <2>2 DEF Continues
<1> QED
  BY <1>1, <1>7, <1>25, <1>26

\* The loop over flush_batch and rotate_inner.
LEMMA LoopKeeps ==
  ASSUME NEW s, NEW n, AwGood(s, n)
  PROVE  AwGood(FlushAndRotate(s), n) /\ Continues(s, FlushAndRotate(s)) /\ FlushAndRotate(s).w.pending = <<>>
<1>1. PICK t : t = flush_batch(s)
  OBVIOUS
<1>2. AwGood(t, n) /\ Continues(s, t) /\ t.w.pending = <<>>
  BY <1>1, FlushKeeps
<1>3. AwType(s) /\ AwType(t)
  BY <1>2 DEF AwGood
<1>4. CASE s.w.pending = <<>>
  <2>1. FlushAndRotate(s) = s
    BY <1>4 DEF FlushAndRotate
  <2>2. Continues(s, s)
    <3>1. s.synced \in [DOMAIN s.files -> Nat]
      BY <1>3 DEF AwType
    <3>2. \A k \in DOMAIN s.files : s.synced[k] <= s.synced[k]
      BY <3>1
    <3> QED
      BY <3>2 DEF Continues
  <2> QED
    BY <1>4, <2>1, <2>2
<1>5. CASE s.w.pending # <<>> /\ should_rotate(t.w)
  <2>1. FlushAndRotate(s) = rotate_inner(t)
    BY <1>1, <1>5 DEF FlushAndRotate
  <2>2. AwGood(rotate_inner(t), n) /\ Continues(t, rotate_inner(t)) /\ rotate_inner(t).w.pending = <<>>
    BY <1>2, RotateKeeps
  <2>3. Continues(s, rotate_inner(t))
    BY <1>2, <1>3, <2>2, ContinuesOn DEF AwGood
  <2> QED
    BY <2>1, <2>2, <2>3
<1>6. CASE s.w.pending # <<>> /\ ~should_rotate(t.w)
  <2>1. FlushAndRotate(s) = t
    BY <1>1, <1>6 DEF FlushAndRotate
  <2> QED
    BY <1>2, <2>1
<1> QED
  BY <1>4, <1>5, <1>6

\* One more entry in the batch.
LEMMA PendsOne ==
  ASSUME NEW s, NEW n \in Nat, AwGood(s, n), NEW t, AwType(t),
         t.files = s.files, t.synced = s.synced, t.replaced = s.replaced, t.w.segment = s.w.segment,
         Waiting(t.w) = Append(Waiting(s.w), n + 1)
  PROVE  AwGood(t, n + 1) /\ Continues(s, t) /\ n + 1 \in EntriesOf(t)
<1>1. PICK g : g = s.w.segment
  OBVIOUS
<1>2. g \in Nat /\ Waiting(s.w) \in Seq(Nat)
  BY <1>1, WriterFields
<1>8. /\ s.files \in [0..g -> Seq(Nat)] /\ s.synced \in [0..g -> Nat] /\ DOMAIN s.files = 0..g /\ g \in 0..g
      /\ \A k \in 0..g : s.synced[k] <= Len(s.files[k])
  BY <1>1, <1>2 DEF AwGood, AwType
<1>11. PICK L, M : L = LineOf(s) /\ M = LineOf(t)
  OBVIOUS
<1>12. /\ L = [k \in 0..g |-> IF k = g THEN s.files[k] \o Waiting(s.w) ELSE s.files[k]]
       /\ M = [k \in 0..g |-> IF k = g THEN s.files[k] \o Waiting(t.w) ELSE s.files[k]]
  BY <1>1, <1>8, <1>11 DEF LineOf
<1>13. PICK c \in Seq(Nat) : c = L[g] /\ M[g] = Append(c, n + 1)
  <2>1. PICK f \in Seq(Nat), u \in Seq(Nat) : f = s.files[g] /\ u = Waiting(s.w)
    BY <1>2, <1>8
  <2>2. f \o Append(u, n + 1) = Append(f \o u, n + 1) /\ f \o u \in Seq(Nat)
    OBVIOUS
  <2> QED
    BY <1>8, <1>12, <2>1, <2>2
<1>14. /\ DOMAIN c = 1..Len(c) /\ DOMAIN Append(c, n + 1) = 1..(Len(c) + 1) /\ Append(c, n + 1)[Len(c) + 1] = n + 1
       /\ \A i \in 1..Len(c) : Append(c, n + 1)[i] = c[i]
       /\ Len(c) \in Nat
  OBVIOUS
<1>15. DOMAIN L = 0..g /\ DOMAIN M = 0..g /\ \A k \in 0..g : k # g => M[k] = L[k]
  BY <1>12
<1>16. ASSUME NEW k \in 0..g, NEW i \in DOMAIN M[k]
       PROVE  (i \in DOMAIN L[k] /\ M[k][i] = L[k][i]) \/ (k = g /\ i = Len(c) + 1 /\ M[k][i] = n + 1)
  <2>1. CASE k = g
    <3>1. i \in 1..(Len(c) + 1) /\ M[k] = Append(c, n + 1) /\ L[k] = c
      BY <1>13, <1>14, <2>1
    <3>2. CASE i = Len(c) + 1
      BY <1>14, <2>1, <3>1, <3>2
    <3>3. CASE i \in 1..Len(c)
      BY <1>14, <3>1, <3>3
    <3> QED
      BY <1>14, <3>1, <3>2, <3>3
  <2>2. CASE k # g
    <3>1. M[k] = L[k]
      BY <1>15, <2>2
    <3> QED
      BY <3>1
  <2> QED
    BY <2>1, <2>2
<1>17. ASSUME NEW k \in 0..g, NEW i \in DOMAIN L[k]
       PROVE  i \in DOMAIN M[k] /\ M[k][i] = L[k][i] /\ (k = g => i < Len(c) + 1)
  <2>1. CASE k = g
    <3>1. i \in 1..Len(c) /\ i \in 1..(Len(c) + 1)
      BY <1>13, <1>14, <2>1
    <3> QED
      BY <1>13, <1>14, <2>1, <3>1
  <2>2. CASE k # g
    BY <1>15, <2>2
  <2> QED
    BY <2>1, <2>2
<1>18. InOrder(L) /\ EntriesOf(s) \subseteq 1..n /\ s.replaced \subseteq 1..n /\ EntriesOf(s) \cap s.replaced = {}
  BY <1>11 DEF AwGood
<1>19. \A x : x \in EntriesOf(s) <=> \E k \in DOMAIN L : \E i \in DOMAIN L[k] : L[k][i] = x
  BY <1>11, EntryPlaces
<1>20. \A x : x \in EntriesOf(t) <=> \E k \in DOMAIN M : \E i \in DOMAIN M[k] : M[k][i] = x
  BY <1>11, EntryPlaces
<1>21. n + 1 \in EntriesOf(t)
  <2>1. Len(c) + 1 \in DOMAIN M[g] /\ M[g][Len(c) + 1] = n + 1
    BY <1>13, <1>14
  <2> QED
    BY <1>8, <1>15, <1>20, <2>1
<1>22. EntriesOf(s) \subseteq EntriesOf(t)
  BY <1>15, <1>17, <1>19, <1>20
<1>23. ASSUME NEW x \in EntriesOf(t) PROVE x \in EntriesOf(s) \/ x = n + 1
  <2>1. PICK k \in 0..g : \E i \in DOMAIN M[k] : M[k][i] = x
    BY <1>15, <1>20, <1>23
  <2>2. PICK i \in DOMAIN M[k] : M[k][i] = x
    BY <2>1
  <2> QED
    BY <1>15, <1>16, <1>19, <2>2
<1>24. InOrder(M)
  <2> SUFFICES ASSUME NEW k \in 0..g, NEW l \in 0..g, NEW i \in DOMAIN M[k], NEW j \in DOMAIN M[l], k < l \/ (k = l /\ i < j)
               PROVE  M[k][i] < M[l][j]
    BY <1>15 DEF InOrder
  <2>1. ~(k = g /\ i = Len(c) + 1)
    <3>1. ASSUME k = g, i = Len(c) + 1 PROVE FALSE
      <4>1. l = g /\ i < j
        BY <1>2, <3>1
      <4>2. j \in 1..(Len(c) + 1)
        BY <1>13, <1>14, <4>1
      <4> QED
        BY <1>14, <3>1, <4>1, <4>2
    <3> QED
      BY <3>1
  <2>2. i \in DOMAIN L[k] /\ M[k][i] = L[k][i]
    BY <1>16, <2>1
  <2>3. CASE j \in DOMAIN L[l] /\ M[l][j] = L[l][j]
    BY <1>15, <1>18, <2>2, <2>3 DEF InOrder
  <2>4. CASE M[l][j] = n + 1
    <3>1. M[k][i] \in 1..n
      BY <1>15, <1>18, <1>19, <2>2
    <3> QED
      BY <2>4, <3>1
  <2> QED
    BY <1>16, <2>3, <2>4
<1>25. AwGood(t, n + 1)
  <2>1. 1..n \subseteq 1..(n + 1) /\ n + 1 \in 1..(n + 1) /\ n + 1 \notin 1..n
    OBVIOUS
  <2>2. EntriesOf(t) \subseteq 1..(n + 1) /\ t.replaced \subseteq 1..(n + 1) /\ EntriesOf(t) \cap t.replaced = {}
    BY <1>18, <1>23, <2>1
  <2> QED
    BY <1>11, <1>24, <2>2 DEF AwGood
<1>26. Continues(s, t)
  <2>1. \A k \in DOMAIN s.files : s.synced[k] <= s.synced[k]
    BY <1>8
  <2> QED
    BY <1>22, <2>1 DEF Continues
<1> QED
  BY <1>21, <1>25, <1>26

\* The state between calls: every entry since the last start of the process is
\* there or was replaced, and what a sync promised is on stable storage.
AwInv ==
  /\ awNext \in Nat /\ AwGood(State, awNext)
  /\ (1..awNext) \ crashedAw \subseteq EntriesOf(State) \cup replaced
  /\ PromisedIsDurable

\* The fields of the state.
LEMMA StateFields ==
  State.w = aw /\ State.files = files /\ State.synced = awSynced /\ State.replaced = replaced
BY DEF State

\* A call that works on the state and leaves t keeps the invariant.
LEMMA CallEnds ==
  ASSUME AwInv, NEW t, Adopt(t), AwGood(t, awNext'), Continues(State, t), awNext' \in Nat,
         1..awNext' \subseteq (1..awNext) \cup EntriesOf(t) \cup t.replaced, crashedAw' = crashedAw,
         \A e \in promised' \ promised : \E k \in DOMAIN t.files : \E i \in 1..t.synced[k] : t.files[k][i] = e
  PROVE  AwInv'
<1>1. aw' = t.w /\ files' = t.files /\ awSynced' = t.synced /\ replaced' = t.replaced
  BY DEF Adopt
<1>2. State' = t
  <2>1. State' = [w |-> t.w, files |-> t.files, synced |-> t.synced, replaced |-> t.replaced]
    BY <1>1 DEF State
  <2>2. t = [w |-> t.w, files |-> t.files, synced |-> t.synced, replaced |-> t.replaced]
    BY DEF AwGood, AwType
  <2> QED
    BY <2>1, <2>2
<1>3. PICK s, m : s = State /\ m = awNext'
  OBVIOUS
<1>4. /\ s.files = files /\ s.synced = awSynced /\ s.replaced = replaced /\ AwGood(s, awNext) /\ Continues(s, t)
      /\ (1..awNext) \ crashedAw \subseteq EntriesOf(s) \cup s.replaced
  BY <1>3, StateFields DEF AwInv
<1>5. (1..m) \ crashedAw \subseteq EntriesOf(t) \cup t.replaced
  BY <1>3, <1>4 DEF Continues
<1>6. ASSUME NEW e \in promised' PROVE \E k \in DOMAIN t.files : \E i \in 1..t.synced[k] : t.files[k][i] = e
  <2>1. CASE e \in promised
    <3>1. PICK k \in DOMAIN files : \E i \in 1..awSynced[k] : files[k][i] = e
      BY <2>1 DEF AwInv, PromisedIsDurable
    <3>2. PICK i \in 1..s.synced[k] : s.files[k][i] = e
      BY <1>4, <3>1
    <3>3. k \in DOMAIN s.files /\ k \in DOMAIN t.files /\ s.synced[k] <= t.synced[k] /\ t.files[k][i] = e
      BY <1>4, <3>1, <3>2 DEF Continues
    <3>4. s.synced[k] \in Nat /\ t.synced[k] \in Nat
      <4>1. s.synced \in [DOMAIN s.files -> Nat] /\ t.synced \in [DOMAIN t.files -> Nat]
        BY <1>4 DEF AwGood, AwType
      <4> QED
        BY <3>3, <4>1
    <3>5. i \in 1..t.synced[k]
      BY <3>2, <3>3, <3>4
    <3> QED
      BY <3>3, <3>5
  <2>2. CASE e \notin promised
    BY <2>2
  <2> QED
    BY <2>1, <2>2
<1>7. PromisedIsDurable'
  BY <1>1, <1>6 DEF PromisedIsDurable
<1>8. AwGood(State, awNext)' 
  BY <1>2
<1>9. ((1..awNext) \ crashedAw \subseteq EntriesOf(State) \cup replaced)'
  BY <1>1, <1>2, <1>3, <1>5
<1> QED
  BY <1>7, <1>8, <1>9 DEF AwInv

\* write.
LEMMA WriteStep ==
  ASSUME AwInv, write
  PROVE  AwInv'
<1>1. PICK s, n : s = State /\ n = awNext
  OBVIOUS
<1>2. n \in Nat /\ AwGood(s, n) /\ s.w = aw
  BY <1>1, StateFields DEF AwInv
<1>3. PICK t : t = [s EXCEPT !.w = [aw EXCEPT !.pending = Append(aw.pending, n + 1)]]
  OBVIOUS
<1>4. /\ awNext' = n + 1 /\ crashedAw' = crashedAw /\ promised' = promised
      /\ Adopt(IF Len(t.w.pending) >= BatchSize THEN FlushAndRotate(t) ELSE t)
  BY <1>1, <1>3 DEF write
<1>5. aw \in AwWriter /\ aw.pending \in Seq(Nat) /\ aw.buffer \in Seq(Nat) /\ aw.segment \in Nat
  BY <1>2, WriterFields
<1>6. PICK p : p = Append(aw.pending, n + 1) /\ p \in Seq(Nat)
  <2>1. Append(aw.pending, n + 1) \in Seq(Nat)
    BY <1>2, <1>5
  <2> QED
    BY <2>1
<1>7. PICK v : v = [aw EXCEPT !.pending = p]
  OBVIOUS
<1>8. v \in AwWriter /\ v.segment = aw.segment /\ v.pending = p /\ v.buffer = aw.buffer
  BY <1>5, <1>6, <1>7 DEF AwWriter
<1>9. t = [w |-> v, files |-> files, synced |-> awSynced, replaced |-> replaced]
  <2>1. t = [State EXCEPT !.w = v]
    BY <1>1, <1>3, <1>6, <1>7
  <2> QED
    BY <2>1 DEF State
<1>10. /\ t.w = v /\ t.files = s.files /\ t.synced = s.synced /\ t.replaced = s.replaced
       /\ t = [w |-> t.w, files |-> t.files, synced |-> t.synced, replaced |-> t.replaced]
  BY <1>1, <1>9, StateFields
<1>11. AwType(t)
  <2>1. AwType(s)
    BY <1>2 DEF AwGood
  <2>2. /\ s.files \in [0..aw.segment -> Seq(Nat)] /\ s.synced \in [0..aw.segment -> Nat]
        /\ \A k \in 0..aw.segment : s.synced[k] <= Len(s.files[k])
    BY <1>2, <2>1 DEF AwType
  <2> QED
    BY <1>8, <1>10, <2>2 DEF AwType
<1>12. Waiting(t.w) = Append(Waiting(s.w), n + 1)
  <2>1. PICK b \in Seq(Nat), q \in Seq(Nat) : b = aw.buffer /\ q = aw.pending
    BY <1>5
  <2>2. b \o Append(q, n + 1) = Append(b \o q, n + 1)
    BY <1>2
  <2>3. Waiting(t.w) = b \o Append(q, n + 1) /\ Waiting(s.w) = b \o q
    BY <1>2, <1>6, <1>8, <1>10, <2>1 DEF Waiting
  <2> QED
    BY <2>2, <2>3
<1>13. AwGood(t, n + 1) /\ Continues(s, t) /\ n + 1 \in EntriesOf(t)
  BY <1>2, <1>8, <1>10, <1>11, <1>12, PendsOne
<1>14. PICK u : u = IF Len(t.w.pending) >= BatchSize THEN FlushAndRotate(t) ELSE t
  OBVIOUS
<1>15. AwGood(u, n + 1) /\ Continues(s, u) /\ n + 1 \in EntriesOf(u) \cup u.replaced
  <2>1. CASE u = t
    BY <1>13, <2>1
  <2>2. CASE u = FlushAndRotate(t)
    <3>1. AwGood(u, n + 1) /\ Continues(t, u)
      BY <1>13, <2>2, LoopKeeps
    <3>2. AwType(s) /\ AwType(t) /\ AwType(u)
      BY <1>2, <1>11, <3>1 DEF AwGood
    <3>3. Continues(s, u)
      BY <1>13, <3>1, <3>2, ContinuesOn
    <3> QED
      BY <1>13, <3>1, <3>3 DEF Continues
  <2> QED
    BY <1>14, <2>1, <2>2
<1>16. 1..(n + 1) \subseteq 1..n \cup EntriesOf(u) \cup u.replaced
  <2>1. \A x \in 1..(n + 1) : x \in 1..n \/ x = n + 1
    BY <1>2
  <2> QED
    BY <1>15, <2>1
<1>17. Adopt(u) /\ Continues(State, u) /\ n + 1 \in Nat
  BY <1>1, <1>2, <1>4, <1>14, <1>15
<1> QED
  BY <1>1, <1>4, <1>15, <1>16, <1>17, CallEnds

\* sync, flush and rotate.
LEMMA SyncStep ==
  ASSUME AwInv, sync \/ flush \/ rotate
  PROVE  AwInv'
<1>1. PICK s, n : s = State /\ n = awNext
  OBVIOUS
<1>2. n \in Nat /\ AwGood(s, n)
  BY <1>1 DEF AwInv
<1>3. PICK t, u : t = FlushAndRotate(s) /\ u = SyncAll(t)
  OBVIOUS
<1>4. AwGood(t, n) /\ Continues(s, t) /\ t.w.pending = <<>>
  BY <1>2, <1>3, LoopKeeps
<1>5. /\ AwGood(u, n) /\ Continues(t, u) /\ u.w.segment = t.w.segment /\ u.w.pending = <<>>
      /\ u.synced[u.w.segment] = Len(u.files[u.w.segment])
  BY <1>3, <1>4, SyncKeeps
<1>6. AwType(s) /\ AwType(t) /\ AwType(u)
  BY <1>2, <1>4, <1>5 DEF AwGood
<1>7. Continues(s, u)
  BY <1>4, <1>5, <1>6, ContinuesOn
<1>8. CASE sync
  <2>1. /\ awNext' = n /\ crashedAw' = crashedAw /\ Adopt(u)
        /\ promised' = promised \cup ToSet(files'[aw'.segment])
    BY <1>1, <1>3, <1>8 DEF sync
  <2>2. promised' = promised \cup ToSet(u.files[u.w.segment])
    BY <2>1 DEF Adopt
  <2>3. ASSUME NEW e \in promised' \ promised
        PROVE  \E k \in DOMAIN u.files : \E i \in 1..u.synced[k] : u.files[k][i] = e
    <3>1. PICK g, f : g = u.w.segment /\ f = u.files[g]
      OBVIOUS
    <3>2. g \in Nat /\ u.files \in [0..g -> Seq(Nat)]
      BY <1>5, <1>6, <3>1, WriterFields DEF AwType
    <3>3. g \in DOMAIN u.files /\ f \in Seq(Nat) /\ DOMAIN f = 1..Len(f) /\ u.synced[g] = Len(f)
      BY <1>5, <3>1, <3>2
    <3>4. PICK i \in DOMAIN f : f[i] = e
      BY <2>2, <2>3, <3>1 DEF ToSet
    <3> QED
      BY <3>1, <3>3, <3>4
  <2> QED
    BY <1>1, <1>2, <1>5, <1>7, <2>1, <2>3, CallEnds
<1>9. CASE flush
  <2>1. awNext' = n /\ crashedAw' = crashedAw /\ Adopt(flush_batch(s)) /\ promised' = promised
    BY <1>1, <1>9 DEF flush
  <2>2. PICK v : v = flush_batch(s)
    OBVIOUS
  <2>3. AwGood(v, n) /\ Continues(s, v)
    BY <1>2, <2>2, FlushKeeps
  <2> QED
    BY <1>1, <1>2, <2>1, <2>2, <2>3, CallEnds
<1>10. CASE rotate
  <2>1. awNext' = n /\ crashedAw' = crashedAw /\ Adopt(rotate_inner(u)) /\ promised' = promised
    BY <1>1, <1>3, <1>10 DEF rotate
  <2>2. PICK v : v = rotate_inner(u)
    OBVIOUS
  <2>3. AwGood(v, n) /\ Continues(u, v)
    BY <1>5, <2>2, RotateKeeps
  <2>4. Continues(s, v)
    BY <1>6, <1>7, <2>3, ContinuesOn DEF AwGood
  <2> QED
    BY <1>1, <1>2, <2>1, <2>2, <2>3, <2>4, CallEnds
<1> QED
  BY <1>8, <1>9, <1>10

\* A restart: files keep a prefix with what was synced, and the writer is new.
LEMMA RestartStep ==
  ASSUME AwInv, Restart
  PROVE  AwInv'
<1>1. PICK s, n, g : s = State /\ n = awNext /\ g = aw.segment
  OBVIOUS
<1>2. /\ n \in Nat /\ AwGood(s, n) /\ AwType(s) /\ s.w = aw /\ s.files = files /\ s.synced = awSynced /\ s.replaced = replaced
  BY <1>1, StateFields DEF AwInv, AwGood
<1>3. /\ g \in Nat /\ files \in [0..g -> Seq(Nat)] /\ awSynced \in [0..g -> Nat] /\ DOMAIN files = 0..g
      /\ \A k \in 0..g : awSynced[k] <= Len(files[k])
      /\ Waiting(aw) \in Seq(Nat)
  <2>1. g \in Nat /\ Waiting(aw) \in Seq(Nat)
    BY <1>1, <1>2, WriterFields
  <2>2. files \in [0..g -> Seq(Nat)] /\ awSynced \in [0..g -> Nat] /\ \A k \in 0..g : awSynced[k] <= Len(files[k])
    BY <1>1, <1>2 DEF AwType
  <2> QED
    BY <2>1, <2>2
<1>4. /\ aw' = Opened(g, 0) /\ crashedAw' = 1..n /\ awNext' = n /\ replaced' = replaced /\ promised' = promised
      /\ \E torn \in SUBSET DOMAIN files :
           /\ files' = [k \in DOMAIN files |-> IF k \in torn THEN SubSeq(files[k], 1, awSynced[k]) ELSE files[k]]
           /\ awSynced' = [k \in DOMAIN files |-> Len(files'[k])]
  BY <1>1 DEF Restart
<1>5. PICK torn : files' = [k \in 0..g |-> IF k \in torn THEN SubSeq(files[k], 1, awSynced[k]) ELSE files[k]]
  BY <1>3, <1>4
<1>6. awSynced' = [k \in 0..g |-> Len(files'[k])]
  BY <1>3, <1>4
<1>7. PICK F, Y : F = files' /\ Y = awSynced'
  OBVIOUS
<1>8. ASSUME NEW k \in 0..g
      PROVE  /\ F[k] \in Seq(Nat) /\ Len(F[k]) \in Nat /\ awSynced[k] <= Len(F[k]) /\ Len(F[k]) <= Len(files[k])
             /\ \A i \in 1..Len(F[k]) : F[k][i] = files[k][i]
  <2>1. PICK f, m : f = files[k] /\ m = awSynced[k]
    OBVIOUS
  <2>2. f \in Seq(Nat) /\ m \in 0..Len(f) /\ Len(f) \in Nat
    BY <1>3, <2>1
  <2>3. F[k] = IF k \in torn THEN SubSeq(f, 1, m) ELSE f
    BY <1>5, <1>7, <2>1
  <2>4. SubSeq(f, 1, m) \in Seq(Nat) /\ Len(SubSeq(f, 1, m)) = m /\ \A i \in 1..m : SubSeq(f, 1, m)[i] = f[i]
    BY <2>2
  <2>5. CASE k \in torn
    <3>1. PICK h : h = SubSeq(f, 1, m)
      OBVIOUS
    <3>2. F[k] = h /\ h \in Seq(Nat) /\ Len(h) = m /\ \A i \in 1..m : h[i] = f[i]
      BY <2>3, <2>4, <2>5, <3>1
    <3> QED
      BY <2>1, <2>2, <3>2
  <2>6. CASE k \notin torn
    <3>1. F[k] = f
      BY <2>3, <2>6
    <3> QED
      BY <2>1, <2>2, <3>1
  <2> QED
    BY <2>5, <2>6
<1>9. F \in [0..g -> Seq(Nat)] /\ Y \in [0..g -> Nat] /\ DOMAIN F = 0..g /\ \A k \in 0..g : Y[k] = Len(F[k])
  <2>1. DOMAIN F = 0..g /\ F = [k \in 0..g |-> F[k]]
    BY <1>5, <1>7
  <2>2. F \in [0..g -> Seq(Nat)]
    BY <1>8, <2>1
  <2>3. Y = [k \in 0..g |-> Len(F[k])]
    BY <1>6, <1>7
  <2> QED
    BY <1>8, <2>1, <2>2, <2>3
<1>10. PICK w, t : w = Opened(g, 0) /\ t = [w |-> w, files |-> F, synced |-> Y, replaced |-> replaced]
  OBVIOUS
<1>11. w \in AwWriter /\ w.segment = g /\ Waiting(w) = <<>>
  <2>0. <<>> \in Seq(Nat)
    OBVIOUS
  <2>1. PICK e : e = <<>> /\ e \in Seq(Nat)
    BY <2>0
  <2>2. w = [pending |-> e, buffer |-> e, segment |-> g, entries |-> 0, expired |-> g = 0]
    BY <1>10, <2>1 DEF Opened
  <2>3. (g = 0) \in BOOLEAN
    OBVIOUS
  <2>4. w \in AwWriter /\ w.segment = g /\ w.buffer = e /\ w.pending = e
    BY <1>3, <2>1, <2>2, <2>3 DEF AwWriter
  <2>5. <<>> \o <<>> = <<>>
    OBVIOUS
  <2> QED
    BY <2>1, <2>4, <2>5 DEF Waiting
<1>12. State' = t
  BY <1>4, <1>7, <1>10 DEF State
<1>13. /\ t.w = w /\ t.files = F /\ t.synced = Y /\ t.replaced = replaced
       /\ t = [w |-> t.w, files |-> t.files, synced |-> t.synced, replaced |-> t.replaced]
  BY <1>10
<1>14. AwType(t)
  <2>1. \A k \in 0..g : Y[k] <= Len(F[k])
    BY <1>8, <1>9
  <2> QED
    BY <1>9, <1>11, <1>13, <2>1 DEF AwType
<1>15. PICK L, M : L = LineOf(s) /\ M = LineOf(t)
  OBVIOUS
<1>16. DOMAIN M = 0..g /\ \A k \in 0..g : M[k] = F[k]
  <2>1. M = [k \in 0..g |-> IF k = g THEN F[k] \o <<>> ELSE F[k]]
    BY <1>9, <1>11, <1>13, <1>15 DEF LineOf
  <2>2. ASSUME NEW k \in 0..g PROVE M[k] = F[k]
    <3>1. F[k] \o <<>> = F[k]
      BY <1>8
    <3> QED
      BY <2>1, <3>1
  <2> QED
    BY <2>1, <2>2
<1>17. DOMAIN L = 0..g /\ \A k \in 0..g : L[k] = IF k = g THEN files[k] \o Waiting(aw) ELSE files[k]
  BY <1>1, <1>2, <1>3, <1>15 DEF LineOf
<1>18. ASSUME NEW k \in DOMAIN M, NEW i \in DOMAIN M[k]
       PROVE  k \in DOMAIN L /\ i \in DOMAIN L[k] /\ L[k][i] = M[k][i]
  <2>1. k \in 0..g /\ M[k] = F[k]
    BY <1>16
  <2>2. PICK f, u : f = files[k] /\ u = Waiting(aw)
    OBVIOUS
  <2>3. f \in Seq(Nat) /\ u \in Seq(Nat) /\ Len(f) \in Nat
    BY <1>3, <2>1, <2>2
  <2>4. i \in 1..Len(f) /\ M[k][i] = f[i]
    <3>1. i \in 1..Len(F[k])
      BY <1>8, <2>1
    <3> QED
      BY <1>8, <2>1, <2>2, <2>3, <3>1
  <2>5. L[k] = f \o u \/ L[k] = f
    BY <1>17, <2>1, <2>2
  <2>6. i \in DOMAIN f /\ f[i] = M[k][i] /\ i \in DOMAIN (f \o u) /\ (f \o u)[i] = f[i]
    BY <2>3, <2>4
  <2> QED
    BY <1>17, <2>1, <2>5, <2>6
<1>19. InOrder(L) /\ EntriesOf(s) \subseteq 1..n /\ s.replaced \subseteq 1..n /\ EntriesOf(s) \cap s.replaced = {}
  BY <1>2, <1>15 DEF AwGood
<1>20. InOrder(M)
  BY <1>18, <1>19 DEF InOrder
<1>21. EntriesOf(t) \subseteq EntriesOf(s)
  <2>1. \A x : x \in EntriesOf(s) <=> \E k \in DOMAIN L : \E i \in DOMAIN L[k] : L[k][i] = x
    BY <1>15, EntryPlaces
  <2>2. \A x : x \in EntriesOf(t) <=> \E k \in DOMAIN M : \E i \in DOMAIN M[k] : M[k][i] = x
    BY <1>15, EntryPlaces
  <2> QED
    BY <1>18, <2>1, <2>2
<1>22. AwGood(t, n)
  BY <1>2, <1>13, <1>14, <1>15, <1>19, <1>20, <1>21 DEF AwGood
<1>23. PromisedIsDurable'
  <2>1. ASSUME NEW e \in promised PROVE \E k \in DOMAIN F : \E i \in 1..Y[k] : F[k][i] = e
    <3>1. PICK k \in 0..g : \E i \in 1..awSynced[k] : files[k][i] = e
      BY <1>3 DEF AwInv, PromisedIsDurable
    <3>2. PICK i \in 1..awSynced[k] : files[k][i] = e
      BY <3>1
    <3>3. awSynced[k] \in Nat /\ awSynced[k] <= Len(F[k]) /\ Len(F[k]) \in Nat /\ Y[k] = Len(F[k])
      BY <1>3, <1>8, <1>9
    <3>4. i \in 1..Len(F[k])
      BY <3>2, <3>3
    <3> QED
      BY <1>8, <1>9, <3>2, <3>3, <3>4
  <2>2. \A e \in promised' : \E k \in DOMAIN files' : \E i \in 1..awSynced'[k] : files'[k][i] = e
    <3>1. promised' = promised
      BY <1>4
    <3> QED
      BY <1>7, <2>1, <3>1
  <2> QED
    BY <2>2 DEF PromisedIsDurable
<1>24. AwGood(State, awNext)'
  BY <1>4, <1>12, <1>22
<1>25. ((1..awNext) \ crashedAw \subseteq EntriesOf(State) \cup replaced)'
  BY <1>4
<1> QED
  BY <1>2, <1>4, <1>23, <1>24, <1>25 DEF AwInv

\* The state a fresh directory starts from.
LEMMA AwStart ==
  ASSUME AwInit
  PROVE  AwInv
<1>1. <<>> \in Seq(Nat)
  OBVIOUS
<1>2. PICK e : e = <<>> /\ e \in Seq(Nat)
  BY <1>1
<1>3. PICK w, F, Y : w = aw /\ F = files /\ Y = awSynced
  OBVIOUS
<1>4. /\ w = [pending |-> e, buffer |-> e, segment |-> 0, entries |-> 0, expired |-> 0 = 0]
      /\ F = [k \in {0} |-> e] /\ Y = [k \in {0} |-> 0]
      /\ awNext = 0 /\ replaced = {} /\ crashedAw = {} /\ promised = {}
  BY <1>2, <1>3 DEF AwInit, Opened
<1>5. w \in AwWriter /\ w.segment = 0 /\ w.buffer = e /\ w.pending = e
  <2>1. (0 = 0) \in BOOLEAN
    OBVIOUS
  <2> QED
    BY <1>2, <1>4, <2>1 DEF AwWriter
<1>6. Waiting(w) = <<>>
  <2>1. <<>> \o <<>> = <<>>
    OBVIOUS
  <2> QED
    BY <1>2, <1>5, <2>1 DEF Waiting
<1>7. 0..0 = {0}
  OBVIOUS
<1>8. F \in [0..0 -> Seq(Nat)] /\ Y \in [0..0 -> Nat] /\ DOMAIN F = 0..0 /\ F[0] = <<>> /\ Y[0] = 0
  BY <1>2, <1>4, <1>7
<1>9. PICK s : s = [w |-> w, files |-> F, synced |-> Y, replaced |-> replaced]
  OBVIOUS
<1>10. State = s
  BY <1>3, <1>9 DEF State
<1>11. /\ s.w = w /\ s.files = F /\ s.synced = Y /\ s.replaced = {}
       /\ s = [w |-> s.w, files |-> s.files, synced |-> s.synced, replaced |-> s.replaced]
  BY <1>4, <1>9
<1>12. AwType(s)
  <2>1. \A k \in 0..0 : Y[k] <= Len(F[k])
    BY <1>7, <1>8
  <2> QED
    BY <1>5, <1>8, <1>11, <2>1 DEF AwType
<1>13. PICK L : L = LineOf(s)
  OBVIOUS
<1>14. DOMAIN L = 0..0 /\ \A k \in 0..0 : DOMAIN L[k] = {}
  <2>1. L = [k \in 0..0 |-> IF k = 0 THEN F[k] \o <<>> ELSE F[k]]
    BY <1>5, <1>6, <1>8, <1>11, <1>13 DEF LineOf
  <2>2. <<>> \o <<>> = <<>> /\ DOMAIN <<>> = {}
    OBVIOUS
  <2> QED
    BY <1>7, <1>8, <2>1, <2>2
<1>15. InOrder(L)
  BY <1>14 DEF InOrder
<1>16. EntriesOf(s) = {}
  <2>1. \A x : x \in EntriesOf(s) <=> \E k \in DOMAIN L : \E i \in DOMAIN L[k] : L[k][i] = x
    BY <1>13, EntryPlaces
  <2> QED
    BY <1>14, <2>1
<1>17. AwGood(s, 0)
  BY <1>11, <1>12, <1>13, <1>15, <1>16 DEF AwGood
<1>18. 1..0 = {}
  OBVIOUS
<1> QED
  BY <1>4, <1>10, <1>17, <1>18 DEF AwInv, PromisedIsDurable

\* What the invariant says of the log, in the words of the property.
LEMMA AwInvSound ==
  ASSUME AwInv
  PROVE  AsyncLogSound
<1>1. State.w = aw /\ State.files = files /\ State.replaced = replaced
  BY StateFields
<1>2. Everything = LineOf(State)
  BY <1>1 DEF Everything, LineOf
<1>3. Kept = EntriesOf(State)
  BY <1>1, <1>2 DEF Kept, EntriesOf
<1>4. DOMAIN Everything = DOMAIN files
  BY DEF Everything
<1>5. AwGood(State, awNext) /\ (1..awNext) \ crashedAw \subseteq EntriesOf(State) \cup replaced /\ PromisedIsDurable
  BY DEF AwInv
<1>6. AsyncAccounted
  BY <1>1, <1>3, <1>5 DEF AwGood, AsyncAccounted
<1>7. AsyncOrdered
  <2>1. InOrder(Everything)
    BY <1>2, <1>5 DEF AwGood
  <2> QED
    BY <1>4, <2>1 DEF InOrder, AsyncOrdered
<1> QED
  BY <1>5, <1>6, <1>7 DEF AsyncLogSound

\* Between two crashes the buffered writer loses only what an automatic rotation
\* finds in the buffer it replaces; segments and buffers hold each entry once, in
\* the order of the writes; and what a sync covered survives every later crash:
\* for every batch, buffer and segment size.
THEOREM AsyncLogSoundHolds == AwSpec => []AsyncLogSound
<1>1. AwInit => AwInv
  BY AwStart
<1>2. AwInv /\ [AwNext]_awVars => AwInv'
  <2> SUFFICES ASSUME AwInv, [AwNext]_awVars
               PROVE  AwInv'
    OBVIOUS
  <2>1. CASE write
    BY <2>1, WriteStep
  <2>2. CASE sync \/ flush \/ rotate
    BY <2>2, SyncStep
  <2>3. CASE Restart
    BY <2>3, RestartStep
  <2>4. CASE UNCHANGED awVars
    <3>1. State' = State /\ promised' = promised /\ files' = files /\ awSynced' = awSynced
          /\ awNext' = awNext /\ crashedAw' = crashedAw /\ replaced' = replaced
      BY <2>4 DEF awVars, State
    <3>2. PromisedIsDurable'
      BY <3>1 DEF AwInv, PromisedIsDurable
    <3> QED
      BY <3>1, <3>2 DEF AwInv
  <2> QED
    BY <2>1, <2>2, <2>3, <2>4 DEF AwNext
<1>3. AwInv => AsyncLogSound
  BY AwInvSound
<1> QED
  BY <1>1, <1>2, <1>3, PTL DEF AwSpec
=============================================================================
