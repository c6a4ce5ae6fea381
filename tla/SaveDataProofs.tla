--------------------------- MODULE SaveDataProofs ---------------------------
(***************************************************************************)
(* Proofs about SaveData, for any number of frames, work items, threads    *)
(* and failures: a frame that waits to be saved has one work item, and     *)
(* when the stream is destroyed no callback is left.                       *)
(***************************************************************************)
EXTENDS SaveData, FunctionTheorems, FiniteSetTheorems, SequenceTheorems, NaturalsInduction, TLAPS

\* No frame has the number that stands for none, and no work item the number
\* that stands for nobody.
LEMMA Numbers == NoFrame \notin Frames /\ Nobody \notin Items /\ 0 \in Frames
BY SaveDataAssumption DEF NoFrame, Frames, Nobody

\* The index of the next frame is the index of a frame.
LEMMA NextFrame == ASSUME NEW f \in Frames PROVE (f + 1) % FrameCount \in Frames
BY SaveDataAssumption DEF Frames

\* A new stream has no frame to save.
LEMMA InitInv == Init => IndInv
BY Numbers DEF Init, IndInv, Shape, FrameExclusive, MutexHeld, BeforeIsQuiet, AfterIsIdle,
    NothingAfterFree, Busy, NoItem, NotWriting

\* While the stream is set up its work items are idle.
LEMMA SetupStep ==
    IndInv /\ (SetDataFormat \/ Initialize) => IndInv'
<1> SUFFICES ASSUME IndInv, SetDataFormat \/ Initialize PROVE IndInv'
  OBVIOUS
<1> USE DEF IndInv
<1>1. CASE SetDataFormat
  BY <1>1 DEF SetDataFormat, Shape, FrameExclusive, MutexHeld, BeforeIsQuiet, AfterIsIdle,
    NothingAfterFree, Busy, buffer, disk
<1>2. CASE Initialize
  <2>1. m_FileSync = Nobody /\ m_FileSync' = Nobody
    BY <1>2 DEF Initialize, MutexHeld, BeforeIsQuiet
  <2>2. \/ UNCHANGED m_pWorkItems
        \/ \E n : InitializeWorkItems(n)
    BY <1>2, Zenon DEF Initialize, InitializeFails, InitializeFile
  <2>3. stream = "Formatted" /\ stream' \in {"Failed", "Ready"} /\ UNCHANGED <<m_fFrameUsed, m_ulFrameIndex, write>>
    BY <1>2 DEF Initialize, InitializeFails, InitializeFile, buffer
  <2>4. \A i \in Items : m_pWorkItems'[i].at \in {"None", "Done"}
    BY <2>2, <2>3 DEF InitializeWorkItems, NoItem, BeforeIsQuiet
  <2>5. m_pWorkItems' = [i \in Items |-> [at |-> m_pWorkItems'[i].at, frame |-> m_pWorkItems'[i].frame,
                                         size |-> m_pWorkItems'[i].size]]
    BY <2>2 DEF InitializeWorkItems, NoItem, Shape
  <2> QED
    BY <2>1, <2>3, <2>4, <2>5 DEF Shape, FrameExclusive, MutexHeld, BeforeIsQuiet, AfterIsIdle,
      NothingAfterFree, Busy
<1> QED
  BY <1>1, <1>2

\* A new buffer and the switch for writing concern no frame.
LEMMA SettingsStep ==
    IndInv /\ ((\E size \in MaxWriteSizes : SetMaxWriteSize(size)) \/ \E fDisable \in BOOLEAN : Disable(fDisable)) => IndInv'
BY DEF SetMaxWriteSize, Disable, IndInv, Shape, FrameExclusive, MutexHeld, BeforeIsQuiet,
    AfterIsIdle, NothingAfterFree, Busy, buffer, disk

\* A callback changes its own work item only, and gives its frame free.
LEMMA CallbackStep ==
    ASSUME IndInv, NEW i \in Items, SaveFrameWorkerCallback(i) PROVE IndInv'
<1> USE Numbers DEF IndInv
<1>1. CASE CallbackBegins(i)
  BY <1>1 DEF CallbackBegins, Shape, FrameExclusive, MutexHeld, BeforeIsQuiet, AfterIsIdle,
    NothingAfterFree, Busy, buffer, disk
<1>2. CASE CallbackOpens(i)
  BY <1>2 DEF CallbackOpens, Shape, FrameExclusive, MutexHeld, BeforeIsQuiet, AfterIsIdle,
    NothingAfterFree, Busy, buffer
<1>3. CASE CallbackWrites(i)
  BY <1>3 DEF CallbackWrites, Shape, FrameExclusive, MutexHeld, BeforeIsQuiet, AfterIsIdle,
    NothingAfterFree, Busy, buffer
<1>4. CASE CallbackClears(i)
  BY <1>4 DEF CallbackClears, Shape, FrameExclusive, MutexHeld, BeforeIsQuiet, AfterIsIdle,
    NothingAfterFree, Busy, buffer
<1>5. CASE CallbackSignals(i)
  BY <1>5 DEF CallbackSignals, NoItem, Shape, FrameExclusive, MutexHeld, BeforeIsQuiet, AfterIsIdle,
    NothingAfterFree, Busy, buffer, disk
<1> QED
  BY <1>1, <1>2, <1>3, <1>4, <1>5 DEF SaveFrameWorkerCallback

\* WriteData takes only a frame that is not in use.
LEMMA WriteStep ==
    ASSUME IndInv, NEW n \in WriteSizes, WriteData(n) PROVE IndInv'
<1> USE Numbers DEF IndInv
<1>1. CASE UNCHANGED <<buffer, m_fFrameUsed, write>>
  BY <1>1 DEF WriteData, Shape, FrameExclusive, MutexHeld, BeforeIsQuiet, AfterIsIdle,
    NothingAfterFree, Busy, buffer, disk
<1>2. CASE ~UNCHANGED <<buffer, m_fFrameUsed, write>>
  <2> DEFINE f == m_ulFrameIndex
  <2>1. /\ stream = "Ready" /\ ~m_fFrameUsed[f] /\ f \in Frames
        /\ UNCHANGED <<stream, m_pWorkItems, m_FileSync>>
    BY <1>2 DEF WriteData, disk, Shape
  <2>2. \/ /\ m_fFrameUsed' = [m_fFrameUsed EXCEPT ![f] = TRUE] /\ write'.save = f
           /\ m_ulFrameIndex' = (f + 1) % FrameCount /\ write'.at # "Idle"
        \/ write'.save = NoFrame /\ write'.at # "Save" /\ UNCHANGED <<m_fFrameUsed, m_ulFrameIndex>>
    <3>1. PICK data : WriteFirst(data)
      BY <1>2, Zenon DEF WriteData
    <3> QED
      BY <3>1 DEF WriteFirst
  <2>3. Shape'
    BY <2>1, <2>2, NextFrame DEF Shape, Busy
  <2>4. FrameExclusive'
    BY <2>1, <2>2 DEF FrameExclusive, Busy, Shape
  <2> QED
    BY <2>1, <2>3, <2>4 DEF MutexHeld, BeforeIsQuiet, AfterIsIdle, NothingAfterFree
<1> QED
  BY <1>1, <1>2

\* GetNewWorkItem gives at most one work item.
LEMMA OneItem == ASSUME NEW i \in GetNewWorkItem, NEW j \in GetNewWorkItem PROVE i = j
<1>1. i \in Nat /\ j \in Nat
  BY SaveDataAssumption DEF GetNewWorkItem
<1>2. i <= j /\ j <= i
  BY DEF GetNewWorkItem
<1> QED
  BY <1>1, <1>2

\* A frame that is saved while the stream writes has no work item yet.
LEMMA SaveStep == IndInv /\ (WriteLeftOver \/ WriteSaves) => IndInv'
<1> SUFFICES ASSUME IndInv, WriteLeftOver \/ WriteSaves PROVE IndInv'
  OBVIOUS
<1> USE Numbers DEF IndInv
<1>1. CASE WriteLeftOver
  BY <1>1 DEF WriteLeftOver, Copy, Shape, FrameExclusive, MutexHeld, BeforeIsQuiet, AfterIsIdle,
    NothingAfterFree, Busy, buffer, disk
<1>2. CASE WriteSaves
  <2>1. /\ stream = "Ready" /\ UNCHANGED <<stream, m_fFrameUsed, m_ulFrameIndex, m_FileSync>>
        /\ write' = NotWriting /\ write.save \in Frames /\ m_fFrameUsed[write.save]
    BY <1>2 DEF WriteSaves, AfterIsIdle, FrameExclusive, Shape, buffer, disk
  <2>2. /\ m_pWorkItems' = [i \in Items |-> IF i \in GetNewWorkItem
             THEN [at |-> "Queued", frame |-> write.save, size |-> write.size] ELSE m_pWorkItems[i]]
        /\ \A i \in GetNewWorkItem : i \in Items /\ m_pWorkItems[i].at = "Done"
    BY <1>2 DEF WriteSaves, SaveFrame, GetNewWorkItem
  <2>3. \A i, j \in GetNewWorkItem : i = j
    BY OneItem
  <2>4. Shape'
    BY <2>1, <2>2 DEF Shape, NotWriting, Busy
  <2>5. FrameExclusive'
    BY <2>1, <2>2, <2>3 DEF FrameExclusive, NotWriting, Busy, Shape
  <2>6. MutexHeld'
    BY <2>1, <2>2 DEF MutexHeld
  <2> QED
    BY <2>1, <2>4, <2>5, <2>6 DEF BeforeIsQuiet, AfterIsIdle, NothingAfterFree, NotWriting
<1> QED
  BY <1>1, <1>2

\* The end of the stream.
LEMMA EndStep == IndInv /\ (WaitAllWorkItems \/ WaitedForAll \/ Destroy \/ Ended) => IndInv'
<1> SUFFICES ASSUME IndInv, WaitAllWorkItems \/ WaitedForAll \/ Destroy \/ Ended PROVE IndInv'
  OBVIOUS
<1> USE Numbers DEF IndInv
<1>1. CASE WaitAllWorkItems
  BY <1>1 DEF WaitAllWorkItems, SaveFrame, GetNewWorkItem, Shape, FrameExclusive, MutexHeld, BeforeIsQuiet,
    AfterIsIdle, NothingAfterFree, Busy, buffer, disk
<1>2. CASE WaitedForAll
  BY <1>2 DEF WaitedForAll, Shape, FrameExclusive, MutexHeld, BeforeIsQuiet,
    AfterIsIdle, NothingAfterFree, Busy, buffer, disk
<1>3. CASE Destroy
  BY <1>3 DEF Destroy, DestroyWorkItems, NoItem, Shape, FrameExclusive, MutexHeld, BeforeIsQuiet,
    AfterIsIdle, NothingAfterFree, Busy, buffer
<1>4. CASE Ended
  BY <1>4 DEF Ended, vars, Shape, FrameExclusive, MutexHeld, BeforeIsQuiet,
    AfterIsIdle, NothingAfterFree, Busy, buffer, disk
<1> QED
  BY <1>1, <1>2, <1>3, <1>4

\* A step that changes nothing keeps the invariant.
LEMMA StutterStep == IndInv /\ UNCHANGED vars => IndInv'
BY DEF vars, IndInv, Shape, FrameExclusive, MutexHeld, BeforeIsQuiet, AfterIsIdle,
    NothingAfterFree, Busy, buffer, disk

\* The inductive invariant: whatever the owner, the callbacks and the system do,
\* a frame that waits to be saved is in use and has one work item, and the mutex
\* of the file is held by a callback that works on the file.
THEOREM SaveInvariant == Spec => []IndInv
<1>1. IndInv /\ [Next]_vars => IndInv'
  BY SetupStep, SettingsStep, CallbackStep, WriteStep, SaveStep, EndStep, StutterStep
  DEF Next, Writing
<1> QED
  BY <1>1, InitInv, PTL DEF Spec

\* ~CSaveData frees the work items only when none is queued or running.
THEOREM DestroyedIsQuiet == Spec => []NothingAfterFree
<1>1. IndInv => NothingAfterFree
  BY DEF IndInv
<1> QED
  BY <1>1, SaveInvariant, PTL

\* While the stream writes, no two callbacks have the same frame, and WriteData
\* never takes a frame that a callback has.
THEOREM FramesAreExclusive == Spec => []FrameExclusive
<1>1. IndInv => FrameExclusive
  BY DEF IndInv
<1> QED
  BY <1>1, SaveInvariant, PTL

(***************************************************************************)
(* Every accepted byte is in one place.                                    *)
(***************************************************************************)

\* Frames of s bytes lie within the buffer, ...
LEMMA FrameBounds ==
    ASSUME NEW s \in Nat \ {0}, NEW f \in Frames
    PROVE  /\ f * s \in Nat /\ (f + 1) * s = f * s + s /\ FrameCount * s \in Nat \ {0}
           /\ f * s + s <= FrameCount * s
           /\ f + 1 = FrameCount => f * s + s = FrameCount * s
           /\ f + 1 # FrameCount => f * s + 2 * s <= FrameCount * s
<1>1. f \in Nat /\ FrameCount \in Nat \ {0} /\ f + 1 <= FrameCount
  BY SaveDataAssumption DEF Frames
<1>2. f * s \in Nat /\ (f + 1) * s = f * s + s /\ FrameCount * s \in Nat \ {0}
  BY <1>1
<1>3. PICK d \in Nat : FrameCount = f + 1 + d
  <2>1. FrameCount - (f + 1) \in Nat /\ FrameCount = f + 1 + (FrameCount - (f + 1))
    BY <1>1
  <2> QED BY <2>1
<1>4. FrameCount * s = f * s + s + d * s /\ d * s \in Nat
  BY <1>1, <1>3
<1>5. f + 1 # FrameCount => \E e \in Nat : d = e + 1
  <2> SUFFICES ASSUME f + 1 # FrameCount PROVE d - 1 \in Nat /\ d = (d - 1) + 1
    OBVIOUS
  <2> QED BY <1>1, <1>3
<1>6. \A e \in Nat : d = e + 1 => d * s = e * s + s /\ e * s \in Nat
  OBVIOUS
<1>7. f + 1 # FrameCount => d * s >= s
  BY <1>5, <1>6
<1>8. f + 1 = FrameCount => d * s = 0
  <2>1. f + 1 = FrameCount => d = 0
    BY <1>1, <1>3
  <2> QED BY <2>1
<1> QED BY <1>2, <1>4, <1>7, <1>8

\* ... two of them have no place in common.
LEMMA FramesApart ==
    ASSUME NEW s \in Nat \ {0}, NEW f \in Frames, NEW g \in Frames, f # g,
           NEW b \in f * s .. f * s + s - 1
    PROVE  b \notin g * s .. g * s + s - 1
<1> DEFINE Apart(x, y) == \A c \in x * s .. x * s + s - 1 : c \notin y * s .. y * s + s - 1
<1>1. f \in Nat /\ g \in Nat
  BY DEF Frames
<1>2. ASSUME NEW x \in Nat, NEW y \in Nat, x < y PROVE x * s + s <= y * s
  <2>1. PICK d \in Nat : y = x + 1 + d
    <3>1. y - (x + 1) \in Nat /\ y = x + 1 + (y - (x + 1))
      BY <1>2
    <3> QED BY <3>1
  <2> QED BY <2>1
<1>3. f * s \in Nat /\ g * s \in Nat
  BY <1>1
<1>4. CASE f < g
  <2>1. f * s + s <= g * s
    BY <1>1, <1>2, <1>4
  <2> QED BY <1>3, <2>1
<1>5. CASE g < f
  <2>1. g * s + s <= f * s
    BY <1>1, <1>2, <1>5
  <2> QED BY <1>3, <2>1
<1> QED BY <1>1, <1>4, <1>5

\* The position in the buffer, which starts anew at its end.
LEMMA Wraps == ASSUME NEW m \in Nat \ {0}, NEW p \in 0..m PROVE p % m = IF p = m THEN 0 ELSE p
OBVIOUS

LEMMA MinOfTwo ==
    ASSUME NEW a \in Int, NEW b \in Int
    PROVE  Min({a, b}) \in Int /\ Min({a, b}) <= a /\ Min({a, b}) <= b /\ (Min({a, b}) = a \/ Min({a, b}) = b)
<1>1. \E x \in {a, b} : \A y \in {a, b} : x <= y
  OBVIOUS
<1> QED BY <1>1 DEF Min

\* The places of a frame
LEMMA InFrameIs ==
    ASSUME DataTypes, NEW f \in Frames
    PROVE  /\ InFrame(f) = f * m_ulFrameSize .. f * m_ulFrameSize + m_ulFrameSize - 1
           /\ InFrame(f) \subseteq 0..m_ulBufferSize - 1
<1>1. m_ulFrameSize \in Nat \ {0}
  BY DEF DataTypes
<1>2. /\ f * m_ulFrameSize \in Nat /\ (f + 1) * m_ulFrameSize = f * m_ulFrameSize + m_ulFrameSize
      /\ FrameCount * m_ulFrameSize \in Nat /\ f * m_ulFrameSize + m_ulFrameSize <= FrameCount * m_ulFrameSize
  BY <1>1, FrameBounds
<1> QED BY <1>1, <1>2 DEF InFrame, m_ulBufferSize

\* What waits to be saved is part of a frame in use.
LEMMA SavedIn ==
    ASSUME IndInv, DataTypes, PiecesApart, NEW i \in Items, Waits(i)
    PROVE  /\ m_pWorkItems[i].frame \in Frames /\ m_pWorkItems[i].size \in 1..m_ulFrameSize
           /\ ToSave(i) \subseteq InFrame(m_pWorkItems[i].frame)
           /\ ToSave(i) \subseteq 0..m_ulBufferSize - 1
           /\ stream = "Ready" => m_fFrameUsed[m_pWorkItems[i].frame]
<1>1. Busy(i) /\ m_pWorkItems[i].frame \in Frames
  BY DEF IndInv, Shape, Busy, Waits
<1>2. m_pWorkItems[i].size \in 1..m_ulFrameSize /\ m_ulFrameSize \in Nat \ {0}
  BY DEF PiecesApart, DataTypes
<1>3. m_pWorkItems[i].frame * m_ulFrameSize \in Nat
  BY <1>1, <1>2, FrameBounds
<1>4. ToSave(i) \subseteq InFrame(m_pWorkItems[i].frame)
  BY <1>1, <1>2, <1>3, InFrameIs DEF ToSave
<1> QED BY <1>1, <1>2, <1>4, InFrameIs DEF IndInv, FrameExclusive

\* A thread runs a callback; a work item that is not free is queued or runs one.
LEMMA FiniteItems ==
    /\ IsFiniteSet(Items) /\ Cardinality(Items) \in Nat
    /\ IsFiniteSet(Running) /\ Cardinality(Running) \in Nat /\ Running \subseteq Items
BY SizesAssumption, FS_CardinalityType, FS_Subset DEF Running

UpTo(S, x) == {y \in S : y <= x}

\* Among some work items there is a first one.
LEMMA SomeIsFirst ==
    ASSUME NEW S \in SUBSET Items, S # {}
    PROVE  \E x \in S : \A y \in S : x <= y
<1>1. S \subseteq Nat /\ IsFiniteSet(S) /\ Cardinality(S) \in Nat /\ Cardinality(S) # 0
  BY SaveDataAssumption, SizesAssumption, FS_Subset, FS_CardinalityType, FS_EmptySet
<1>2. ASSUME NEW x \in S
      PROVE  /\ IsFiniteSet(UpTo(S, x)) /\ Cardinality(UpTo(S, x)) \in 1..Cardinality(S) /\ x \in UpTo(S, x)
  <2>1. UpTo(S, x) \in SUBSET S /\ x \in UpTo(S, x)
    BY <1>1 DEF UpTo
  <2>2. IsFiniteSet(UpTo(S, x)) /\ Cardinality(UpTo(S, x)) <= Cardinality(S)
    BY <1>1, <2>1, FS_Subset
  <2> QED BY <1>1, <2>1, <2>2, FS_CardinalityType, FS_EmptySet
<1>3. ASSUME NEW x \in S, NEW y \in S, x < y PROVE Cardinality(UpTo(S, x)) # Cardinality(UpTo(S, y))
  <2>1. x \in Nat /\ y \in Nat /\ \A z \in S : z \in Nat
    BY <1>1
  <2>2. \A z \in UpTo(S, x) : z \in UpTo(S, y)
    BY <1>3, <2>1 DEF UpTo
  <2>3. y \notin UpTo(S, x)
    BY <1>3, <2>1 DEF UpTo
  <2> QED BY <1>2, <2>2, <2>3, FS_Subset
<1>4. PICK rank : rank = [x \in S |-> Cardinality(UpTo(S, x))]
  OBVIOUS
<1>5. rank \in [S -> 1..Cardinality(S)]
  BY <1>2, <1>4
<1>6. \A x, y \in S : rank[x] = rank[y] => x = y
  BY <1>1, <1>3, <1>4
<1>7. rank \in Injection(S, 1..Cardinality(S))
  BY <1>5, <1>6, Fun_IsInj
<1>8. IsFiniteSet(1..Cardinality(S)) /\ Cardinality(1..Cardinality(S)) = Cardinality(S)
  BY <1>1, FS_Interval
<1>9. rank \in Surjection(S, 1..Cardinality(S))
  BY <1>7, <1>8, FS_Injection
<1>10. PICK x \in S : Cardinality(UpTo(S, x)) = 1
  <2>1. 1 \in 1..Cardinality(S)
    BY <1>1
  <2>2. \E x \in S : rank[x] = 1
    BY <1>9, <2>1 DEF Surjection
  <2> QED BY <1>4, <2>2
<1>11. PICK z : UpTo(S, x) = {z}
  BY <1>2, <1>10, FS_Singleton
<1>12. \A y \in S : x <= y
  <2> SUFFICES ASSUME NEW y \in S, ~(x <= y) PROVE FALSE
    OBVIOUS
  <2>1. y \in UpTo(S, x) /\ x \in UpTo(S, x) /\ y # x
    BY <1>1 DEF UpTo
  <2> QED BY <1>11, <2>1
<1> QED BY <1>12

LEMMA AtMostBoth ==
    ASSUME NEW P, NEW Q, IsFiniteSet(P), IsFiniteSet(Q)
    PROVE  Cardinality(P \cup Q) <= Cardinality(P) + Cardinality(Q)
<1>1. IsFiniteSet(P \cap Q) /\ Cardinality(P \cup Q) = Cardinality(P) + Cardinality(Q) - Cardinality(P \cap Q)
  BY FS_Union, FS_Intersection
<1>2. Cardinality(P) \in Nat /\ Cardinality(Q) \in Nat /\ Cardinality(P \cap Q) \in Nat
  BY <1>1, FS_CardinalityType
<1> QED BY <1>1, <1>2

\* While there is a frame that no work item has, a work item is free.
LEMMA ItemIsFree ==
    ASSUME EnoughItems, IndInv, DataTypes, ThreadsBusy, stream = "Ready",
           NEW f \in Frames, \A i \in Items : Busy(i) => m_pWorkItems[i].frame # f
    PROVE  \E i : i \in GetNewWorkItem
<1> DEFINE D == {i \in Items : m_pWorkItems[i].at = "Done"}
           B == {i \in Items : Busy(i)}
           S == {i \in Items : m_pWorkItems[i].at = "Signal"}
<1>1. CASE D # {}
  <2>1. PICK x \in D : \A y \in D : x <= y
    BY <1>1, SomeIsFirst
  <2> QED BY <2>1 DEF GetNewWorkItem
<1>2. CASE D = {}
  <2>1. Items = B \cup S
    BY <1>2 DEF DataTypes, ThreadsBusy, Busy
  <2>2. B \in SUBSET Items /\ S \in SUBSET Items /\ S \in SUBSET Running
    BY DEF Running
  <2>3. /\ IsFiniteSet(B) /\ IsFiniteSet(S) /\ Cardinality(B) \in Nat /\ Cardinality(S) \in Nat
        /\ Cardinality(S) <= Cardinality(Running)
    BY <2>2, FiniteItems, FS_Subset, FS_CardinalityType
  <2>4. Cardinality(Items) <= Cardinality(B) + Cardinality(S)
    <3>1. Cardinality(B \cup S) <= Cardinality(B) + Cardinality(S)
      BY <2>3, AtMostBoth
    <3> QED BY <2>1, <3>1, Zenon
  <2>5. Cardinality(B) <= FrameCount - 1
    <3>1. IsFiniteSet(Frames) /\ Cardinality(Frames) = FrameCount
      <4>1. 0 \in Int /\ FrameCount - 1 \in Int
        BY SaveDataAssumption
      <4>2. IsFiniteSet(Frames) /\ Cardinality(Frames) = IF 0 > FrameCount - 1 THEN 0 ELSE FrameCount - 1 - 0 + 1
        BY <4>1, FS_Interval DEF Frames
      <4> QED BY <4>2, SaveDataAssumption
    <3>2. IsFiniteSet(Frames \ {f}) /\ Cardinality(Frames \ {f}) = FrameCount - 1
      BY <3>1, FS_RemoveElement
    <3>3. PICK h : h = [i \in B |-> m_pWorkItems[i].frame]
      OBVIOUS
    <3>4. h \in [B -> Frames \ {f}]
      BY <3>3 DEF IndInv, Shape
    <3>5. \A i, j \in B : h[i] = h[j] => i = j
      BY <3>3 DEF IndInv, FrameExclusive
    <3>6. h \in Injection(B, Frames \ {f})
      BY <3>4, <3>5, Fun_IsInj
    <3> QED BY <3>2, <3>6, FS_Injection
  <2>6. Cardinality(S) <= Workers
    BY <2>3, FiniteItems, SaveDataAssumption DEF ThreadsBusy
  <2> QED BY <2>3, <2>4, <2>5, <2>6, FiniteItems, SaveDataAssumption DEF EnoughItems
<1> QED BY <1>1, <1>2

\* The pieces have no place in common.
LEMMA PiecesDisjoint ==
    ASSUME IndInv, DataTypes, OffsetInFrame, PiecesApart, NEW i \in Items, Waits(i), NEW b \in ToSave(i)
    PROVE  /\ \A j \in Items \ {i} : Waits(j) => b \notin ToSave(j)
           /\ write.save # NoFrame => b \notin InFrame(write.save)
           /\ stream = "Ready" => b \notin Partial
<1>1. /\ m_pWorkItems[i].frame \in Frames /\ b \in InFrame(m_pWorkItems[i].frame)
      /\ stream = "Ready" => m_fFrameUsed[m_pWorkItems[i].frame]
  BY SavedIn
<1>2. m_ulFrameSize \in Nat \ {0}
  BY DEF DataTypes
<1>3. ASSUME NEW f \in Frames, f # m_pWorkItems[i].frame PROVE b \notin InFrame(f)
  BY <1>1, <1>2, <1>3, InFrameIs, FramesApart
<1>4. \A j \in Items \ {i} : Waits(j) => b \notin ToSave(j)
  BY <1>3, SavedIn DEF PiecesApart
<1>5. write.save # NoFrame => b \notin InFrame(write.save)
  <2>1. write.save # NoFrame => write.save \in Frames /\ stream = "Ready"
    BY DEF IndInv, Shape, AfterIsIdle
  <2>2. Busy(i)
    BY DEF Waits, Busy
  <2>3. write.save # NoFrame => m_pWorkItems[i].frame # write.save
    BY <2>1, <2>2 DEF IndInv, FrameExclusive
  <2> QED BY <1>3, <2>1, <2>3
<1>6. stream = "Ready" => b \notin Partial
  <2>1. m_ulFrameIndex \in Frames
    BY DEF IndInv, Shape
  <2>2. Partial \subseteq InFrame(m_ulFrameIndex)
    <3>1. m_ulFrameIndex * m_ulFrameSize \in Nat /\ (m_ulFrameIndex + 1) * m_ulFrameSize \in Nat
      BY <1>2, <2>1, FrameBounds
    <3> QED BY <3>1 DEF Partial, OffsetInFrame, InFrame, DataTypes
  <2>3. m_fFrameUsed[m_ulFrameIndex] => Partial = {}
    <3>1. m_ulFrameIndex * m_ulFrameSize \in Nat
      BY <1>2, <2>1, FrameBounds
    <3> QED BY <3>1 DEF Partial, OffsetInFrame
  <2> QED BY <1>1, <1>3, <2>1, <2>2, <2>3
<1> QED BY <1>4, <1>5, <1>6

\* A step that moves no byte
LEMMA Keeps ==
    ASSUME Accounted, DataTypes', FirstWrite', ThreadsBusy',
           UNCHANGED <<m_ulFrameSize, m_ulBufferOffset, m_ulFrameIndex, m_pDataBuffer, accepted, write>>,
           given <= given', file'.data = file.data,
           m_fFrameUsed'[m_ulFrameIndex] => m_fFrameUsed[m_ulFrameIndex],
           stream' = stream \/ Partial = {},
           \A i \in Items : /\ Waits(i)' <=> Waits(i)
                            /\ Waits(i) => /\ m_pWorkItems'[i].frame = m_pWorkItems[i].frame
                                           /\ m_pWorkItems'[i].size = m_pWorkItems[i].size
    PROVE  Accounted'
<1>1. OffsetInFrame /\ PiecesApart /\ LeftIsNew /\ EachByteOnce /\ DataTypes
  BY DEF Accounted
<1>2. OffsetInFrame'
  BY <1>1 DEF OffsetInFrame
<1>3. PiecesApart'
  BY <1>1 DEF PiecesApart
<1>4. LeftIsNew'
  BY <1>1 DEF LeftIsNew, DataTypes
<1>5. Held' = Held
  <2>1. m_ulBufferSize' = m_ulBufferSize /\ Partial' = Partial /\ \A f : InFrame(f)' = InFrame(f)
    BY DEF m_ulBufferSize, Partial, InFrame
  <2>2. \A i \in Items : Waits(i) => ToSave(i)' = ToSave(i)
    BY DEF ToSave
  <2> QED BY <2>1, <2>2 DEF Held
<1>6. EachByteOnce'
  BY <1>1, <1>5 DEF EachByteOnce
<1> QED BY <1>2, <1>3, <1>4, <1>6 DEF Accounted

\* As long as nothing has failed, calls have succeeded.
LEMMA Succeeds == ASSUME NEW ok \in BOOLEAN, Try(ok), failures' = 0, failures = 0 PROVE ok
BY DEF Try

\* A work item moves on.
LEMMA BusyKept ==
    ASSUME ThreadsBusy, NEW i \in Items, \A j \in Items \ {i} : m_pWorkItems'[j].at = m_pWorkItems[j].at,
           stream' \in {"Ready", "Waiting"} => stream \in {"Ready", "Waiting"}, m_pWorkItems'[i].at # "None",
           i \in Running' => i \in Running \/ Cardinality(Running) < Workers
    PROVE  ThreadsBusy'
<1>1. Cardinality(Running') <= Workers
  <2>1. Running' \subseteq Running \cup {i} /\ (i \in Running \/ i \notin Running' => Running' \subseteq Running)
    BY DEF Running
  <2>2. /\ IsFiniteSet(Running \cup {i})
        /\ Cardinality(Running \cup {i}) = IF i \in Running THEN Cardinality(Running) ELSE Cardinality(Running) + 1
    BY FiniteItems, FS_AddElement
  <2>3. Workers \in Nat
    BY SaveDataAssumption
  <2>4. CASE i \in Running \/ i \notin Running'
    <3>1. IsFiniteSet(Running') /\ Cardinality(Running') <= Cardinality(Running)
      BY <2>1, <2>4, FiniteItems, FS_Subset
    <3> QED BY <2>3, <3>1, FiniteItems, FS_CardinalityType DEF ThreadsBusy
  <2>5. CASE i \notin Running /\ i \in Running'
    <3>1. IsFiniteSet(Running') /\ Cardinality(Running') <= Cardinality(Running) + 1
      BY <2>1, <2>2, <2>5, FS_Subset
    <3>2. Cardinality(Running) < Workers
      BY <2>5
    <3> QED BY <2>3, <3>1, <3>2, FiniteItems, FS_CardinalityType
  <2> QED BY <2>4, <2>5
<1> QED BY <1>1 DEF ThreadsBusy

\* A new stream has accepted nothing.
LEMMA DataInit == Init => DataInv
<1> SUFFICES ASSUME Init PROVE failures \in Nat /\ Accounted
  BY DEF DataInv
<1> USE DEF Init
<1>1. DefaultFrameSize \in Nat \ {0} /\ FrameCount \in Nat \ {0} /\ 0 \in Frames
  BY SaveDataAssumption, Numbers
<1>2. Running = {} /\ \A i \in Items : m_pWorkItems[i].at = "None" /\ ~Waits(i)
  BY DEF Running, NoItem, Waits
<1>3. DataTypes
  BY <1>1, <1>2 DEF DataTypes, NotWriting, m_ulBufferSize
<1>4. ThreadsBusy
  BY <1>2, FS_EmptySet, SaveDataAssumption DEF ThreadsBusy
<1>5. FirstWrite
  BY <1>2 DEF FirstWrite, NotWriting
<1>6. OffsetInFrame /\ PiecesApart /\ LeftIsNew
  BY <1>1, <1>2 DEF OffsetInFrame, PiecesApart, LeftIsNew, NotWriting
<1>7. Held = {}
  BY <1>2 DEF Held, NotWriting
<1>8. EachByteOnce
  BY <1>7 DEF EachByteOnce
<1> QED BY <1>3, <1>4, <1>5, <1>6, <1>8 DEF Accounted

\* Nothing has been written when the stream is set up.
LEMMA DataSetup ==
    ASSUME IndInv, Accounted, failures = 0, failures' = 0, SetDataFormat \/ Initialize
    PROVE  Accounted'
<1>1. /\ DataTypes /\ FirstWrite /\ ThreadsBusy /\ given = 0 /\ stream \in {"New", "Formatted"}
      /\ UNCHANGED <<buffer, m_ulFrameSize, m_fFrameUsed, write, bytes>>
  BY DEF Accounted, FirstWrite, SetDataFormat, Initialize
<1>2. \A i \in Items : m_pWorkItems[i].at = "None" /\ ~Waits(i)
  BY <1>1 DEF IndInv, BeforeIsQuiet, Waits
<1>3. Partial = {}
  BY <1>1 DEF FirstWrite, Partial, DataTypes
<1>4. /\ stream' \in {"Formatted", "Failed", "Ready"}
      /\ file' = [header |-> file'.header, data |-> file'.data] /\ file'.data = file.data
      /\ \A i \in Items : m_pWorkItems'[i].at \in {"None", "Done"}
      /\ stream' = "Ready" => \A i \in Items : m_pWorkItems'[i].at = "Done"
  <2>1. CASE SetDataFormat
    BY <1>1, <1>2, <2>1 DEF SetDataFormat, disk, DataTypes
  <2>2. CASE Initialize
    <3>1. ~InitializeFails
      BY DEF InitializeFails, Try
    <3>2. InitializeFile
      BY <2>2, <3>1 DEF Initialize
    <3>3. PICK open \in BOOLEAN, header \in BOOLEAN :
            /\ Try(open /\ header) /\ stream' = IF open /\ header THEN "Ready" ELSE "Failed"
            /\ IF open THEN FileWriteHeader(0, header) ELSE UNCHANGED <<m_pFilePtr, file>>
      BY <3>2 DEF InitializeFile
    <3>4. file' = [header |-> file'.header, data |-> file'.data] /\ file'.data = file.data
      BY <1>1, <3>3 DEF FileWriteHeader, DataTypes
    <3>5. \A i \in Items : m_pWorkItems'[i].at = "Done"
      <4>1. \A i \in Items : i <= Cardinality(Items)
        BY SaveDataAssumption, FiniteItems
      <4> QED BY <3>2, <4>1 DEF InitializeFile, InitializeWorkItems, NoItem
    <3> QED BY <3>3, <3>4, <3>5
  <2> QED BY <2>1, <2>2
<1>5. \A i \in Items : ~Waits(i)'
  BY <1>4 DEF Waits
<1>6. DataTypes'
  BY <1>1, <1>4 DEF DataTypes, buffer, bytes, m_ulBufferSize
<1>7. FirstWrite'
  BY <1>1, <1>5 DEF FirstWrite, buffer, bytes
<1>8. ThreadsBusy'
  <2>1. Running' = {}
    BY <1>4 DEF Running
  <2> QED BY <1>4, <2>1, FS_EmptySet, SaveDataAssumption DEF ThreadsBusy
<1> QED BY <1>1, <1>2, <1>3, <1>4, <1>5, <1>6, <1>7, <1>8, Keeps DEF buffer, bytes, DataTypes

\* Another buffer is made while there is nothing in the old one.
LEMMA DataSize ==
    ASSUME IndInv, Accounted, NEW size \in MaxWriteSizes, SetMaxWriteSize(size)
    PROVE  Accounted'
<1>1. /\ DataTypes /\ FirstWrite /\ ThreadsBusy /\ given = 0 /\ size \in Nat \ {0} /\ LeftIsNew /\ EachByteOnce
      /\ UNCHANGED <<stream, m_pWorkItems, m_ulBufferOffset, m_ulFrameIndex, m_fFrameUsed, write, file,
                     given, accepted>>
  BY SizesAssumption DEF Accounted, SetMaxWriteSize, disk, bytes
<1>2. PICK ok \in BOOLEAN :
        /\ m_ulFrameSize' = IF ok THEN size ELSE m_ulFrameSize
        /\ m_pDataBuffer' = IF ok THEN [b \in 0..FrameCount * size - 1 |-> 0] ELSE m_pDataBuffer
  BY DEF SetMaxWriteSize
<1>3. /\ m_ulBufferOffset = 0 /\ m_ulFrameIndex = 0 /\ write.save = NoFrame /\ write.at # "LeftOver"
      /\ \A i \in Items : ~Waits(i)
  BY <1>1 DEF FirstWrite
<1>4. m_ulFrameSize' \in Nat \ {0}
  BY <1>1, <1>2 DEF DataTypes
<1>5. m_pDataBuffer' \in [0..m_ulBufferSize' - 1 -> Nat]
  BY <1>1, <1>2 DEF DataTypes, m_ulBufferSize
<1>6. DataTypes'
  BY <1>1, <1>4, <1>5 DEF DataTypes
<1>7. FirstWrite' /\ ThreadsBusy'
  BY <1>1, <1>3 DEF FirstWrite, ThreadsBusy, Running, Waits
<1>8. Held = {} /\ Held' = {}
  <2>1. \A i \in Items : ~Waits(i)'
    BY <1>1, <1>3 DEF Waits
  <2>2. Partial = {} /\ Partial' = {}
    <3>1. 0 * m_ulFrameSize = 0 /\ 0 * m_ulFrameSize' = 0
      BY <1>1, <1>4 DEF DataTypes
    <3>2. m_ulFrameIndex' = 0 /\ m_ulBufferOffset' = 0
      BY <1>1, <1>3
    <3> QED BY <1>3, <3>1, <3>2 DEF Partial
  <2> QED BY <1>1, <1>3, <2>1, <2>2 DEF Held
<1>9. OffsetInFrame'
  <2>1. m_ulFrameIndex' = 0 /\ m_ulBufferOffset' = 0 /\ write'.at # "LeftOver"
    BY <1>1, <1>3
  <2>2. PICK size2 \in Nat \ {0} : m_ulFrameSize' = size2
    BY <1>4
  <2>3. 0 * size2 = 0 /\ (0 + 1) * size2 = size2 /\ 0 < size2
    OBVIOUS
  <2> QED BY <2>1, <2>2, <2>3 DEF OffsetInFrame
<1>10. PiecesApart'
  BY <1>1, <1>3 DEF PiecesApart, Waits
<1>11. LeftIsNew' /\ EachByteOnce'
  BY <1>1, <1>8 DEF LeftIsNew, EachByteOnce
<1> QED BY <1>6, <1>7, <1>9, <1>10, <1>11 DEF Accounted

\* A callback that does not write the file
LEMMA DataCallback ==
    ASSUME IndInv, Accounted, failures = 0, failures' = 0, NEW i \in Items,
           CallbackBegins(i) \/ CallbackOpens(i) \/ CallbackClears(i) \/ CallbackSignals(i)
    PROVE  Accounted'
<1>1. /\ DataTypes /\ FirstWrite /\ ThreadsBusy /\ Shape
      /\ UNCHANGED <<stream, buffer, m_ulFrameSize, write, file, bytes>>
  BY DEF Accounted, IndInv, CallbackBegins, CallbackOpens, CallbackClears, CallbackSignals, disk
<1>2. \A j \in Items \ {i} : m_pWorkItems'[j] = m_pWorkItems[j]
  BY <1>1 DEF Shape, CallbackBegins, CallbackOpens, CallbackClears, CallbackSignals
<1>3. \/ /\ m_pWorkItems[i].at = "Queued" /\ m_pWorkItems'[i].at = "Wait" /\ Cardinality(Running) < Workers
         /\ m_pWorkItems'[i].frame = m_pWorkItems[i].frame /\ m_pWorkItems'[i].size = m_pWorkItems[i].size
      \/ /\ m_pWorkItems[i].at = "Wait" /\ m_pWorkItems'[i].at = "Write"
         /\ m_pWorkItems'[i].frame = m_pWorkItems[i].frame /\ m_pWorkItems'[i].size = m_pWorkItems[i].size
      \/ m_pWorkItems[i].at = "Clear" /\ m_pWorkItems'[i].at = "Signal"
      \/ m_pWorkItems[i].at = "Signal" /\ m_pWorkItems'[i].at = "Done"
  <2>1. CASE CallbackBegins(i)
    BY <1>1, <2>1 DEF CallbackBegins, Shape
  <2>2. CASE CallbackOpens(i)
    <3>1. m_pWorkItems[i].at = "Wait" /\ m_pWorkItems' = [m_pWorkItems EXCEPT ![i].at = "Write"]
      BY <2>2, Succeeds DEF CallbackOpens
    <3> QED BY <1>1, <3>1 DEF Shape
  <2>3. CASE CallbackClears(i)
    BY <1>1, <2>3 DEF CallbackClears, Shape
  <2>4. CASE CallbackSignals(i)
    BY <1>1, <2>4 DEF CallbackSignals, Shape, NoItem
  <2> QED BY <2>1, <2>2, <2>3, <2>4
<1>4. \A j \in Items : /\ Waits(j)' <=> Waits(j)
                       /\ Waits(j) => /\ m_pWorkItems'[j].frame = m_pWorkItems[j].frame
                                      /\ m_pWorkItems'[j].size = m_pWorkItems[j].size
  BY <1>2, <1>3 DEF Waits
<1>5. DataTypes'
  <2>1. \A j \in Items : m_pWorkItems'[j].at \in {"None", "Done", "Queued", "Wait", "Write", "Clear", "Signal"}
    BY <1>1, <1>2, <1>3 DEF DataTypes
  <2> QED BY <1>1, <2>1 DEF DataTypes, buffer, bytes, m_ulBufferSize
<1>6. FirstWrite'
  BY <1>1, <1>4 DEF FirstWrite, buffer, bytes
<1>7. ThreadsBusy'
  <2>1. i \in Running' => i \in Running \/ Cardinality(Running) < Workers
    BY <1>3 DEF Running
  <2>2. m_pWorkItems'[i].at # "None"
    BY <1>3
  <2> QED BY <1>1, <1>2, <2>1, <2>2, BusyKept
<1>8. m_fFrameUsed'[m_ulFrameIndex] => m_fFrameUsed[m_ulFrameIndex]
  BY <1>1 DEF Shape, CallbackBegins, CallbackOpens, CallbackClears, CallbackSignals
<1> QED BY <1>1, <1>4, <1>5, <1>6, <1>7, <1>8, Keeps DEF buffer, bytes, DataTypes

LEMMA IsSequence ==
    ASSUME NEW n \in Nat, NEW s \in [1..n -> Nat]
    PROVE  s \in Seq(Nat) /\ Len(s) = n
OBVIOUS

\* A callback moves the bytes of its frame to the end of the file.
LEMMA DataWritten ==
    ASSUME IndInv, Accounted, failures = 0, failures' = 0, NEW i \in Items, CallbackWrites(i)
    PROVE  Accounted'
<1> DEFINE from == m_pWorkItems[i].frame * m_ulFrameSize
           size == m_pWorkItems[i].size
           part == [k \in 1..size |-> m_pDataBuffer[from + k - 1]]
<1>1. /\ DataTypes /\ FirstWrite /\ ThreadsBusy /\ Shape /\ OffsetInFrame /\ PiecesApart /\ LeftIsNew /\ EachByteOnce
      /\ UNCHANGED <<stream, m_pDataBuffer, m_ulBufferOffset, m_ulFrameIndex, m_ulFrameSize, m_fFrameUsed, write,
                     given, accepted>>
      /\ m_pWorkItems[i].at = "Write" /\ m_pWorkItems' = [m_pWorkItems EXCEPT ![i].at = "Clear"]
  BY DEF Accounted, IndInv, CallbackWrites, buffer, bytes
<1>2. /\ \A j \in Items \ {i} : m_pWorkItems'[j] = m_pWorkItems[j]
      /\ m_pWorkItems'[i].at = "Clear"
  BY <1>1 DEF Shape
<1>3. /\ Waits(i) /\ ~Waits(i)'
      /\ \A j \in Items \ {i} : (Waits(j)' <=> Waits(j)) /\ ToSave(j)' = ToSave(j)
  BY <1>1, <1>2 DEF Waits, ToSave
<1>4. file'.data = file.data \o part /\ file' = [header |-> file'.header, data |-> file'.data]
  <2>1. PICK ok \in BOOLEAN : Try(ok) /\ FileWrite(part, ok)
    BY DEF CallbackWrites
  <2>2. ok
    BY <2>1, Succeeds
  <2>3. file' = [file EXCEPT !.data = @ \o part]
    BY <2>1, <2>2 DEF FileWrite
  <2> QED BY <1>1, <2>3 DEF DataTypes
<1>5. /\ size \in Nat /\ from \in Nat /\ ToSave(i) = from..from + size - 1
      /\ ToSave(i) \subseteq 0..m_ulBufferSize - 1 /\ ToSave(i) \subseteq Held
  <2>1. /\ m_pWorkItems[i].frame \in Frames /\ size \in 1..m_ulFrameSize
        /\ ToSave(i) \subseteq 0..m_ulBufferSize - 1
    BY <1>1, <1>3, SavedIn
  <2>2. from \in Nat
    BY <1>1, <2>1, FrameBounds DEF DataTypes
  <2> QED BY <1>1, <1>3, <2>1, <2>2 DEF ToSave, Held, DataTypes
<1>6. /\ part \in Seq(Nat) /\ Len(part) = size
      /\ \A k \in 1..size : from + k - 1 \in ToSave(i) /\ part[k] = m_pDataBuffer[from + k - 1]
  <2>1. \A k \in 1..size : from + k - 1 \in ToSave(i)
    BY <1>5
  <2>2. \A k \in 1..size : part[k] \in Nat
    BY <1>1, <1>5, <2>1 DEF DataTypes
  <2>3. part = [k \in 1..size |-> m_pDataBuffer[from + k - 1]] /\ part \in [1..size -> Nat]
    BY <2>2
  <2> HIDE DEF part
  <2>4. part \in Seq(Nat) /\ Len(part) = size
    BY <1>5, <2>3, IsSequence
  <2> QED BY <2>1, <2>3, <2>4
<1> HIDE DEF part, from, size
<1>7. /\ file'.data \in Seq(Nat) /\ Len(file'.data) = Len(file.data) + size /\ Len(file.data) \in Nat
      /\ \A k \in 1..Len(file.data) : file'.data[k] = file.data[k]
      /\ \A k \in 1..size : file'.data[Len(file.data) + k] = part[k]
      /\ DOMAIN file.data = 1..Len(file.data) /\ DOMAIN file'.data = 1..Len(file.data) + size
  <2>1. file.data \in Seq(Nat)
    BY <1>1 DEF DataTypes
  <2>2. /\ file.data \o part \in Seq(Nat) /\ Len(file.data \o part) = Len(file.data) + Len(part)
        /\ \A k \in 1..Len(file.data) + Len(part) :
             (file.data \o part)[k] = IF k <= Len(file.data) THEN file.data[k] ELSE part[k - Len(file.data)]
    BY <1>6, <2>1, ConcatProperties
  <2>3. Len(file.data) \in Nat /\ DOMAIN file.data = 1..Len(file.data)
    BY <2>1
  <2>4. DOMAIN (file.data \o part) = 1..Len(file.data) + size
    BY <1>6, <2>2
  <2>5. DOMAIN file'.data = 1..Len(file.data) + size
    BY <1>4, <2>4
  <2>6. /\ file'.data \in Seq(Nat) /\ Len(file'.data) = Len(file.data) + size
        /\ \A k \in 1..Len(file.data) + size :
             file'.data[k] = IF k <= Len(file.data) THEN file.data[k] ELSE part[k - Len(file.data)]
    BY <1>4, <1>6, <2>2
  <2>7. \A k \in 1..Len(file.data) : k \in 1..Len(file.data) + size /\ k <= Len(file.data)
    BY <1>5, <2>3
  <2>8. \A k \in 1..size : /\ Len(file.data) + k \in 1..Len(file.data) + size
                          /\ ~(Len(file.data) + k <= Len(file.data)) /\ Len(file.data) + k - Len(file.data) = k
    BY <1>5, <2>3
  <2> QED BY <2>3, <2>5, <2>6, <2>7, <2>8
<1>8. Held' = Held \ ToSave(i)
  <2>1. /\ m_ulBufferSize' = m_ulBufferSize /\ Partial' = Partial /\ \A f : InFrame(f)' = InFrame(f)
    BY <1>1 DEF m_ulBufferSize, Partial, InFrame
  <2>2. Held' = {b \in 0..m_ulBufferSize - 1 :
                  \/ \E j \in Items \ {i} : Waits(j) /\ b \in ToSave(j)
                  \/ write.save # NoFrame /\ b \in InFrame(write.save)
                  \/ stream = "Ready" /\ b \in Partial}
    BY <1>1, <1>3, <2>1 DEF Held
  <2>3. \A b \in ToSave(i) : /\ \A j \in Items \ {i} : Waits(j) => b \notin ToSave(j)
                             /\ write.save # NoFrame => b \notin InFrame(write.save)
                             /\ stream = "Ready" => b \notin Partial
    BY <1>1, <1>3, PiecesDisjoint
  <2> QED BY <1>3, <2>2, <2>3 DEF Held
<1>9. EachByteOnce'
  <2>1. ASSUME NEW k \in DOMAIN file'.data
        PROVE  \/ k \in DOMAIN file.data /\ file'.data[k] = file.data[k]
               \/ \E b \in ToSave(i) : k = Len(file.data) + 1 + (b - from) /\ file'.data[k] = m_pDataBuffer[b]
    <3>1. CASE k <= Len(file.data)
      BY <1>7, <3>1
    <3>2. CASE ~(k <= Len(file.data))
      <4>1. k - Len(file.data) \in 1..size
        BY <1>5, <1>7, <3>2
      <4>2. PICK l \in 1..size : l = k - Len(file.data)
        BY <4>1
      <4>3. k = Len(file.data) + l /\ from + l - 1 \in ToSave(i) /\ file'.data[k] = m_pDataBuffer[from + l - 1]
        <5>1. file'.data[Len(file.data) + l] = part[l]
          BY <1>7
        <5>2. k = Len(file.data) + l
          <6>1. k \in Int /\ Len(file.data) \in Int /\ l \in Int
            BY <1>5, <1>7
          <6> QED BY <4>2, <6>1
        <5> QED BY <1>6, <5>1, <5>2
      <4>4. k = Len(file.data) + 1 + ((from + l - 1) - from)
        <5>1. Len(file.data) \in Int /\ from \in Int /\ l \in Int
          BY <1>5, <1>7
        <5>2. \A m, z, x \in Int : m + x = m + 1 + ((z + x - 1) - z)
          OBVIOUS
        <5> QED BY <4>3, <5>1, <5>2
      <4> QED BY <4>3, <4>4
    <3> QED BY <3>1, <3>2
  <2>2. \A b \in ToSave(i) : \E k \in DOMAIN file'.data : file'.data[k] = m_pDataBuffer[b]
    <3> SUFFICES ASSUME NEW b \in ToSave(i) PROVE \E k \in DOMAIN file'.data : file'.data[k] = m_pDataBuffer[b]
      OBVIOUS
    <3>1. b - from + 1 \in 1..size /\ from + (b - from + 1) - 1 = b
      BY <1>5
    <3>2. Len(file.data) + (b - from + 1) \in DOMAIN file'.data
      <4>1. Len(file.data) \in Nat /\ size \in Nat /\ DOMAIN file'.data = 1..Len(file.data) + size
        BY <1>5, <1>7
      <4>2. \A m, z \in Nat : \A x \in 1..z : m + x \in 1..m + z
        OBVIOUS
      <4> QED BY <3>1, <4>1, <4>2
    <3> QED BY <1>6, <1>7, <3>1, <3>2
  <2>3. \A k, l \in DOMAIN file'.data : file'.data[k] = file'.data[l] => k = l
    <3> SUFFICES ASSUME NEW k \in DOMAIN file'.data, NEW l \in DOMAIN file'.data, file'.data[k] = file'.data[l]
                 PROVE  k = l
      OBVIOUS
    <3> QED BY <1>1, <1>5, <2>1 DEF EachByteOnce
  <2>4. \A b, c \in Held' : m_pDataBuffer'[b] = m_pDataBuffer'[c] => b = c
    BY <1>1, <1>8 DEF EachByteOnce
  <2>5. \A k \in DOMAIN file'.data, b \in Held' : file'.data[k] # m_pDataBuffer'[b]
    <3> SUFFICES ASSUME NEW k \in DOMAIN file'.data, NEW b \in Held' PROVE file'.data[k] # m_pDataBuffer[b]
      BY <1>1
    <3>1. b \in Held /\ b \notin ToSave(i)
      BY <1>8
    <3> QED BY <1>1, <1>5, <2>1, <3>1 DEF EachByteOnce
  <2>6. accepted' = {file'.data[k] : k \in DOMAIN file'.data} \cup {m_pDataBuffer'[b] : b \in Held'}
    <3>1. accepted = {file.data[k] : k \in DOMAIN file.data} \cup {m_pDataBuffer[b] : b \in Held}
      BY <1>1 DEF EachByteOnce
    <3>2. \A k \in DOMAIN file.data : k \in DOMAIN file'.data /\ file'.data[k] = file.data[k]
      BY <1>5, <1>7
    <3>3. accepted = {file'.data[k] : k \in DOMAIN file'.data} \cup {m_pDataBuffer[b] : b \in Held'}
      <4>1. \A b \in Held : b \in ToSave(i) \/ b \in Held'
        BY <1>8
      <4>2. ToSave(i) \subseteq Held /\ Held' \subseteq Held
        BY <1>5, <1>8
      <4>3. ASSUME NEW a \in accepted
            PROVE  \/ \E k \in DOMAIN file'.data : file'.data[k] = a
                   \/ \E b \in Held' : m_pDataBuffer[b] = a
        BY <2>2, <3>1, <3>2, <4>1
      <4>4. \A k \in DOMAIN file'.data : file'.data[k] \in accepted
        BY <2>1, <3>1, <4>2
      <4>5. \A b \in Held' : m_pDataBuffer[b] \in accepted
        BY <3>1, <4>2
      <4> QED BY <4>3, <4>4, <4>5
    <3> QED BY <1>1, <3>3
  <2> QED BY <2>3, <2>4, <2>5, <2>6 DEF EachByteOnce
<1>10. DataTypes'
  <2>1. \A j \in Items : m_pWorkItems'[j].at \in {"None", "Done", "Queued", "Wait", "Write", "Clear", "Signal"}
    BY <1>1, <1>2 DEF DataTypes
  <2> QED BY <1>1, <1>4, <1>7, <2>1 DEF DataTypes, m_ulBufferSize
<1>11. FirstWrite'
  BY <1>1, <1>3 DEF FirstWrite
<1>12. ThreadsBusy'
  <2>1. i \in Running /\ m_pWorkItems'[i].at # "None"
    BY <1>1, <1>2 DEF Running
  <2> QED BY <1>1, <1>2, <2>1, BusyKept
<1>13. OffsetInFrame' /\ LeftIsNew'
  BY <1>1 DEF OffsetInFrame, LeftIsNew
<1>14. PiecesApart'
  BY <1>1, <1>2, <1>3 DEF PiecesApart
<1> QED BY <1>9, <1>10, <1>11, <1>12, <1>13, <1>14 DEF Accounted

\* The work item that gets a frame
LEMMA SaveFrameIs ==
    ASSUME Shape, NEW i \in GetNewWorkItem, NEW f, NEW n, SaveFrame(f, n)
    PROVE  /\ i \in Items /\ m_pWorkItems[i].at = "Done" /\ ~Waits(i) /\ Waits(i)'
           /\ \A j \in Items \ {i} : m_pWorkItems'[j] = m_pWorkItems[j] /\ (Waits(j)' <=> Waits(j))
           /\ m_pWorkItems'[i].at = "Queued" /\ m_pWorkItems'[i].frame = f /\ m_pWorkItems'[i].size = n
<1>1. i \in Items /\ m_pWorkItems[i].at = "Done" /\ \A j \in GetNewWorkItem : j = i
  BY OneItem DEF GetNewWorkItem
<1>2. m_pWorkItems' = [j \in Items |->
        IF j \in GetNewWorkItem THEN [at |-> "Queued", frame |-> f, size |-> n] ELSE m_pWorkItems[j]]
  BY DEF SaveFrame
<1>3. m_pWorkItems'[i] = [at |-> "Queued", frame |-> f, size |-> n]
  BY <1>1, <1>2
<1>4. \A j \in Items \ {i} : m_pWorkItems'[j] = m_pWorkItems[j]
  BY <1>1, <1>2
<1>5. m_pWorkItems'[i].at = "Queued" /\ m_pWorkItems'[i].frame = f /\ m_pWorkItems'[i].size = n
  BY <1>3
<1> QED BY <1>1, <1>4, <1>5 DEF Waits

\* A piece of the buffer is handed to a work item.
LEMMA Handed ==
    ASSUME IndInv, Accounted, NEW f \in Frames, NEW n \in 1..m_ulFrameSize, SaveFrame(f, n), NEW i \in GetNewWorkItem,
           \A j \in Items : Waits(j) => m_pWorkItems[j].frame # f,
           UNCHANGED <<m_pDataBuffer, m_ulBufferOffset, m_ulFrameIndex, m_ulFrameSize, m_fFrameUsed, file, given, accepted>>,
           given # 0, stream = "Ready", stream' \in {"Ready", "Waiting"},
           write'.save = NoFrame, write'.at = "Idle", write'.left = write.left \/ write'.left = <<>>,
           \A b \in 0..m_ulBufferSize - 1 :
             (write.save # NoFrame /\ b \in InFrame(write.save)) \/ b \in Partial
             <=> b \in f * m_ulFrameSize .. f * m_ulFrameSize + n - 1 \/ (stream' = "Ready" /\ b \in Partial)
    PROVE  Accounted'
<1>1. DataTypes /\ FirstWrite /\ ThreadsBusy /\ Shape /\ OffsetInFrame /\ PiecesApart /\ LeftIsNew /\ EachByteOnce
  BY DEF Accounted, IndInv
<1>2. /\ i \in Items /\ m_pWorkItems[i].at = "Done" /\ ~Waits(i) /\ Waits(i)'
      /\ \A j \in Items \ {i} : m_pWorkItems'[j] = m_pWorkItems[j] /\ (Waits(j)' <=> Waits(j))
      /\ m_pWorkItems'[i].at = "Queued" /\ m_pWorkItems'[i].frame = f /\ m_pWorkItems'[i].size = n
  BY <1>1, SaveFrameIs
<1>3. DataTypes'
  <2>1. \A j \in Items : m_pWorkItems'[j].at \in {"None", "Done", "Queued", "Wait", "Write", "Clear", "Signal"}
    BY <1>1, <1>2 DEF DataTypes
  <2>2. write'.left \in Seq(Nat)
    <3>1. write.left \in Seq(Nat) /\ <<>> \in Seq(Nat)
      BY <1>1 DEF DataTypes
    <3> QED BY <3>1
  <2> QED BY <1>1, <2>1, <2>2 DEF DataTypes, m_ulBufferSize
<1>4. FirstWrite'
  BY DEF FirstWrite
<1>5. ThreadsBusy'
  <2>1. i \notin Running' /\ m_pWorkItems'[i].at # "None"
    BY <1>2 DEF Running
  <2> QED BY <1>1, <1>2, <2>1, BusyKept
<1>6. OffsetInFrame'
  BY <1>1 DEF OffsetInFrame
<1>7. PiecesApart'
  BY <1>1, <1>2 DEF PiecesApart
<1>8. LeftIsNew'
  BY <1>1 DEF LeftIsNew
<1>9. Held' = Held
  <2>1. /\ m_ulBufferSize' = m_ulBufferSize /\ Partial' = Partial
        /\ ToSave(i)' = f * m_ulFrameSize .. f * m_ulFrameSize + n - 1
        /\ \A j \in Items \ {i} : ToSave(j)' = ToSave(j)
    BY <1>2 DEF m_ulBufferSize, Partial, ToSave
  <2>2. ASSUME NEW b \in 0..m_ulBufferSize - 1
        PROVE  b \in Held' <=> b \in Held
    <3>1. b \in Held' <=> \/ \E j \in Items : Waits(j)' /\ b \in ToSave(j)'
                          \/ stream' = "Ready" /\ b \in Partial
      BY <2>1 DEF Held
    <3>2. b \in Held <=> \/ \E j \in Items : Waits(j) /\ b \in ToSave(j)
                         \/ (write.save # NoFrame /\ b \in InFrame(write.save)) \/ b \in Partial
      BY DEF Held
    <3>3. (\E j \in Items : Waits(j)' /\ b \in ToSave(j)') <=>
            b \in f * m_ulFrameSize .. f * m_ulFrameSize + n - 1 \/ \E j \in Items : Waits(j) /\ b \in ToSave(j)
      BY <1>2, <2>1
    <3> QED BY <3>1, <3>2, <3>3
  <2> QED BY <2>1, <2>2 DEF Held
<1>10. EachByteOnce'
  BY <1>1, <1>9 DEF EachByteOnce
<1> QED BY <1>3, <1>4, <1>5, <1>6, <1>7, <1>8, <1>10 DEF Accounted


\* A full frame is handed over by WriteData, ...
LEMMA DataSaved ==
    ASSUME EnoughItems, IndInv, Accounted, WriteSaves
    PROVE  Accounted'
<1>1. DataTypes /\ FirstWrite /\ ThreadsBusy /\ Shape /\ FrameExclusive /\ PiecesApart
  BY DEF Accounted, IndInv
<1>2. /\ write.at = "Save" /\ write.save \in Frames /\ write.save # NoFrame /\ stream = "Ready"
      /\ write.size = m_ulFrameSize
  BY <1>1 DEF WriteSaves, Shape, IndInv, AfterIsIdle, PiecesApart
<1>3. /\ SaveFrame(write.save, m_ulFrameSize) /\ write' = NotWriting
      /\ UNCHANGED <<stream, m_pDataBuffer, m_ulBufferOffset, m_ulFrameIndex, m_ulFrameSize, m_fFrameUsed, file, given, accepted>>
  BY <1>2 DEF WriteSaves, buffer, disk, bytes
<1>4. write'.save = NoFrame /\ write'.at = "Idle" /\ write'.left = <<>>
  BY <1>3 DEF NotWriting
<1>5. \A i \in Items : Busy(i) => m_pWorkItems[i].frame # write.save
  BY <1>1, <1>2 DEF FrameExclusive
<1>6. \A i \in Items : Waits(i) => m_pWorkItems[i].frame # write.save
  BY <1>5 DEF Waits, Busy
<1>7. PICK i : i \in GetNewWorkItem
  BY <1>1, <1>2, <1>5, ItemIsFree
<1>8. given # 0 /\ m_ulFrameSize \in 1..m_ulFrameSize
  BY <1>1, <1>2 DEF FirstWrite, DataTypes
<1>9. InFrame(write.save) = write.save * m_ulFrameSize .. write.save * m_ulFrameSize + m_ulFrameSize - 1
  BY <1>1, <1>2, InFrameIs
<1>10. \A b \in 0..m_ulBufferSize - 1 :
         (write.save # NoFrame /\ b \in InFrame(write.save)) \/ b \in Partial
         <=> b \in write.save * m_ulFrameSize .. write.save * m_ulFrameSize + m_ulFrameSize - 1
               \/ (stream' = "Ready" /\ b \in Partial)
  BY <1>2, <1>3, <1>9
<1>11. stream' \in {"Ready", "Waiting"}
  BY <1>2, <1>3
<1> QED BY <1>2, <1>3, <1>4, <1>6, <1>7, <1>8, <1>10, <1>11, Handed

\* ... the last one, partly filled, when the stream is stopped.
LEMMA DataRest ==
    ASSUME EnoughItems, IndInv, Accounted, WaitAllWorkItems
    PROVE  Accounted'
<1> DEFINE n == m_ulBufferOffset - m_ulFrameIndex * m_ulFrameSize
<1>1. DataTypes /\ FirstWrite /\ ThreadsBusy /\ Shape /\ FrameExclusive /\ PiecesApart /\ OffsetInFrame
  BY DEF Accounted, IndInv
<1>2. /\ write.at = "Idle" /\ write.save = NoFrame /\ m_ulFrameIndex \in Frames
      /\ stream = "Ready" /\ stream' = "Waiting"
      /\ UNCHANGED <<write, m_pDataBuffer, m_ulBufferOffset, m_ulFrameIndex, m_ulFrameSize, m_fFrameUsed, file, given, accepted>>
  BY <1>1 DEF WaitAllWorkItems, Shape, buffer, disk, bytes
<1>3. /\ m_ulFrameSize \in Nat \ {0} /\ m_ulFrameIndex * m_ulFrameSize \in Nat /\ m_ulBufferOffset \in Nat
      /\ (m_ulFrameIndex + 1) * m_ulFrameSize = m_ulFrameIndex * m_ulFrameSize + m_ulFrameSize
  BY <1>1, <1>2, FrameBounds DEF DataTypes
<1>4. CASE m_ulBufferOffset > m_ulFrameIndex * m_ulFrameSize
  <2>1. SaveFrame(m_ulFrameIndex, n)
    BY <1>4 DEF WaitAllWorkItems
  <2>2. n \in 1..m_ulFrameSize /\ m_ulFrameIndex * m_ulFrameSize + n - 1 = m_ulBufferOffset - 1
    BY <1>1, <1>3, <1>4 DEF OffsetInFrame
  <2>3. ~m_fFrameUsed[m_ulFrameIndex]
    BY <1>1, <1>3, <1>4 DEF OffsetInFrame
  <2>4. \A i \in Items : Busy(i) => m_pWorkItems[i].frame # m_ulFrameIndex
    BY <1>1, <1>2, <2>3 DEF FrameExclusive
  <2>5. \A i \in Items : Waits(i) => m_pWorkItems[i].frame # m_ulFrameIndex
    BY <2>4 DEF Waits, Busy
  <2>6. PICK i : i \in GetNewWorkItem
    BY <1>1, <1>2, <2>4, ItemIsFree
  <2>7. given # 0
    BY <1>1, <1>3, <1>4 DEF FirstWrite
  <2>8. \A b \in 0..m_ulBufferSize - 1 :
           (write.save # NoFrame /\ b \in InFrame(write.save)) \/ b \in Partial
           <=> b \in m_ulFrameIndex * m_ulFrameSize .. m_ulFrameIndex * m_ulFrameSize + n - 1
                 \/ (stream' = "Ready" /\ b \in Partial)
    BY <1>2, <2>2 DEF Partial
  <2>9. write'.save = NoFrame /\ write'.at = "Idle" /\ write'.left = write.left /\ stream' \in {"Ready", "Waiting"}
    BY <1>2
  <2> HIDE DEF n
  <2> QED BY <1>2, <2>1, <2>2, <2>5, <2>6, <2>7, <2>8, <2>9, Handed
<1>5. CASE ~(m_ulBufferOffset > m_ulFrameIndex * m_ulFrameSize)
  <2>1. UNCHANGED m_pWorkItems
    BY <1>5 DEF WaitAllWorkItems
  <2>2. Partial = {}
    BY <1>3, <1>5 DEF Partial
  <2>3. \A i \in Items : Waits(i)' <=> Waits(i)
    BY <2>1 DEF Waits
  <2>4. DataTypes' /\ FirstWrite' /\ ThreadsBusy'
    BY <1>1, <1>2, <2>1, <2>3 DEF DataTypes, FirstWrite, ThreadsBusy, Running, m_ulBufferSize
  <2> QED BY <1>2, <1>3, <2>1, <2>2, <2>3, <2>4, Keeps DEF DataTypes
<1> QED BY <1>4, <1>5


\* A copy that does not run over goes to places that hold nothing.
LEMMA CopyIsApart ==
    ASSUME IndInv, Accounted, NEW n \in Nat, stream = "Ready", ~m_fFrameUsed[m_ulFrameIndex],
           \A f \in Frames \ {m_ulFrameIndex} : m_fFrameUsed[f] =>
             InFrame(f) \cap (m_ulBufferOffset .. m_ulBufferOffset + n - 1) = {},
           NEW b \in m_ulBufferOffset .. m_ulBufferOffset + n - 1
    PROVE  b \notin Held
<1>1. DataTypes /\ Shape /\ FrameExclusive /\ PiecesApart
  BY DEF Accounted, IndInv
<1>2. ASSUME NEW i \in Items, Waits(i) PROVE b \notin ToSave(i)
  <2>1. /\ m_pWorkItems[i].frame \in Frames /\ m_fFrameUsed[m_pWorkItems[i].frame]
        /\ ToSave(i) \subseteq InFrame(m_pWorkItems[i].frame)
    BY <1>1, <1>2, SavedIn
  <2> QED BY <2>1
<1>3. write.save # NoFrame => b \notin InFrame(write.save)
  BY <1>1 DEF Shape, FrameExclusive
<1>4. b \notin Partial
  BY <1>1 DEF Partial, DataTypes
<1> QED BY <1>2, <1>3, <1>4 DEF Held

\* New bytes that are copied to places that hold nothing are accounted for.
LEMMA Copied ==
    ASSUME DataTypes, EachByteOnce, NEW d \in Seq(Nat), Copy(d), file' = file,
           m_ulBufferOffset + Len(d) <= m_ulBufferSize, m_ulFrameSize' = m_ulFrameSize,
           \A k \in 1..Len(d) : d[k] \notin accepted,
           \A k, l \in 1..Len(d) : d[k] = d[l] => k = l,
           \A b \in m_ulBufferOffset .. m_ulBufferOffset + Len(d) - 1 : b \notin Held,
           Held' = Held \cup (m_ulBufferOffset .. m_ulBufferOffset + Len(d) - 1)
    PROVE  /\ EachByteOnce' /\ m_pDataBuffer' \in [0..m_ulBufferSize' - 1 -> Nat]
           /\ accepted' = accepted \cup {d[k] : k \in 1..Len(d)}
<1> DEFINE P == m_ulBufferOffset .. m_ulBufferOffset + Len(d) - 1
<1>1. /\ Len(d) \in Nat /\ DOMAIN d = 1..Len(d) /\ m_ulBufferOffset \in Nat /\ \A k \in 1..Len(d) : d[k] \in Nat
      /\ m_pDataBuffer \in [0..m_ulBufferSize - 1 -> Nat] /\ m_ulBufferSize' = m_ulBufferSize
  BY DEF DataTypes, m_ulBufferSize
<1>2. m_ulBufferSize \in Nat
  BY SaveDataAssumption DEF m_ulBufferSize, DataTypes
<1>3. m_pDataBuffer' = [b \in 0..m_ulBufferSize - 1 |->
         IF b - m_ulBufferOffset \in 0..Len(d) - 1 THEN d[b - m_ulBufferOffset + 1] ELSE m_pDataBuffer[b]]
  BY <1>1 DEF Copy
<1>4. \A b \in P : /\ b \in 0..m_ulBufferSize - 1 /\ b - m_ulBufferOffset \in 0..Len(d) - 1
                   /\ b - m_ulBufferOffset + 1 \in 1..Len(d)
  BY <1>1, <1>2
<1>5. \A b \in P : m_pDataBuffer'[b] = d[b - m_ulBufferOffset + 1]
  BY <1>3, <1>4
<1>6. Held \subseteq 0..m_ulBufferSize - 1 /\ \A b \in Held : b - m_ulBufferOffset \notin 0..Len(d) - 1
  <2>1. Held \subseteq 0..m_ulBufferSize - 1
    BY DEF Held
  <2> QED BY <1>1, <1>2, <2>1
<1>7. \A b \in Held : m_pDataBuffer'[b] = m_pDataBuffer[b]
  BY <1>3, <1>6
<1>8. m_pDataBuffer' \in [0..m_ulBufferSize - 1 -> Nat]
  <2>1. ASSUME NEW b \in 0..m_ulBufferSize - 1, b - m_ulBufferOffset \in 0..Len(d) - 1
        PROVE  d[b - m_ulBufferOffset + 1] \in Nat
    <3>1. b - m_ulBufferOffset + 1 \in 1..Len(d)
      BY <1>1, <1>2, <2>1
    <3> QED BY <1>1, <3>1
  <2> QED BY <1>1, <1>3, <2>1
<1>9. \A k \in 1..Len(d) : \E b \in P : m_pDataBuffer'[b] = d[k]
  <2> SUFFICES ASSUME NEW k \in 1..Len(d) PROVE \E b \in P : m_pDataBuffer'[b] = d[k]
    OBVIOUS
  <2>1. m_ulBufferOffset + k - 1 \in P /\ (m_ulBufferOffset + k - 1) - m_ulBufferOffset + 1 = k
    BY <1>1
  <2> QED BY <1>5, <2>1
<1>10. \A b \in P : \E k \in 1..Len(d) : k = b - m_ulBufferOffset + 1 /\ m_pDataBuffer'[b] = d[k]
  BY <1>4, <1>5
<1>11. accepted' = accepted \cup {d[k] : k \in 1..Len(d)}
  BY <1>1 DEF Copy, Range
<1>12. Held' = Held \cup P /\ \A b \in P : b \notin Held
  OBVIOUS
<1>13. \A b, c \in P : b - m_ulBufferOffset + 1 = c - m_ulBufferOffset + 1 => b = c
  BY <1>1
<1> HIDE DEF P
<1>14. \A b, c \in P : m_pDataBuffer'[b] = m_pDataBuffer'[c] => b = c
  BY <1>10, <1>13
<1>15. \A b \in Held : m_pDataBuffer[b] \in accepted
  BY DEF EachByteOnce
<1>16. \A b \in P : m_pDataBuffer'[b] \notin accepted
  BY <1>10
<1>17. \A b, c \in Held' : m_pDataBuffer'[b] = m_pDataBuffer'[c] => b = c
  BY <1>7, <1>12, <1>14, <1>15, <1>16 DEF EachByteOnce
<1>18. \A k \in DOMAIN file.data, b \in Held' : file.data[k] # m_pDataBuffer'[b]
  BY <1>7, <1>12, <1>16 DEF EachByteOnce
<1>19. accepted' = {file.data[k] : k \in DOMAIN file.data} \cup {m_pDataBuffer'[b] : b \in Held'}
  <2>1. accepted = {file.data[k] : k \in DOMAIN file.data} \cup {m_pDataBuffer[b] : b \in Held}
    BY DEF EachByteOnce
  <2>2. {m_pDataBuffer'[b] : b \in Held'} = {m_pDataBuffer[b] : b \in Held} \cup {m_pDataBuffer'[b] : b \in P}
    BY <1>7, <1>12
  <2>3. {m_pDataBuffer'[b] : b \in P} = {d[k] : k \in 1..Len(d)}
    BY <1>9, <1>10
  <2> QED BY <1>11, <2>1, <2>2, <2>3
<1>20. EachByteOnce'
  BY <1>17, <1>18, <1>19 DEF EachByteOnce
<1> QED BY <1>1, <1>8, <1>11, <1>20

\* The rest of a write, at the start of the buffer
LEMMA DataLeftOver ==
    ASSUME IndInv, Accounted, ~overrun', WriteLeftOver
    PROVE  Accounted'
<1>1. /\ DataTypes /\ FirstWrite /\ ThreadsBusy /\ Shape /\ FrameExclusive /\ PiecesApart /\ OffsetInFrame
      /\ LeftIsNew /\ EachByteOnce
  BY DEF Accounted, IndInv
<1>2. /\ write.at = "LeftOver" /\ stream = "Ready" /\ m_ulFrameIndex = 0 /\ m_ulBufferOffset = 0
      /\ write.save # NoFrame /\ Len(write.left) < m_ulFrameSize /\ given # 0
      /\ UNCHANGED <<stream, m_pWorkItems, m_ulFrameIndex, m_ulFrameSize, m_fFrameUsed, file, given>>
  BY <1>1 DEF WriteLeftOver, OffsetInFrame, IndInv, AfterIsIdle, FirstWrite, buffer, disk
<1>3. /\ write'.at = "Save" /\ write'.left = <<>> /\ write'.save = write.save /\ write'.size = write.size
  BY <1>2 DEF WriteLeftOver
<1>4. /\ \A i \in Items : Waits(i)' = Waits(i) /\ ToSave(i)' = ToSave(i)
      /\ m_ulBufferSize' = m_ulBufferSize /\ \A f : InFrame(f)' = InFrame(f)
  BY <1>2 DEF Waits, ToSave, m_ulBufferSize, InFrame
<1>5. FirstWrite' /\ ThreadsBusy' /\ PiecesApart'
  BY <1>1, <1>2, <1>3, <1>4 DEF FirstWrite, ThreadsBusy, Running, PiecesApart
<1>6. LeftIsNew'
  BY <1>3 DEF LeftIsNew
<1>7. m_ulFrameSize \in Nat \ {0} /\ Len(write.left) \in Nat /\ write.left \in Seq(Nat) /\ 0 \in Frames
  BY <1>1, Numbers DEF DataTypes
<1>8. 0 * m_ulFrameSize = 0 /\ (0 + 1) * m_ulFrameSize = m_ulFrameSize /\ m_ulFrameSize <= m_ulBufferSize
  <2>1. 0 * m_ulFrameSize = 0 /\ (0 + 1) * m_ulFrameSize = 0 * m_ulFrameSize + m_ulFrameSize
    BY <1>7, FrameBounds
  <2>2. 0 * m_ulFrameSize + m_ulFrameSize <= m_ulBufferSize
    BY <1>7, FrameBounds DEF m_ulBufferSize
  <2> QED BY <1>7, <2>1, <2>2
<1>9. m_ulBufferSize \in Nat \ {0}
  BY <1>7, FrameBounds DEF m_ulBufferSize
<1>10. CASE m_fFrameUsed[m_ulFrameIndex]
  <2>1. UNCHANGED <<m_pDataBuffer, m_ulBufferOffset, accepted>>
    BY <1>10 DEF WriteLeftOver, buffer
  <2>2. Partial' = Partial
    BY <1>2, <2>1 DEF Partial
  <2>3. Held' = Held
    BY <1>2, <1>3, <1>4, <2>2 DEF Held
  <2>4. EachByteOnce'
    BY <1>1, <1>2, <2>1, <2>3 DEF EachByteOnce
  <2>5. DataTypes'
    <3>1. write'.left \in Seq(Nat)
      BY <1>3
    <3> QED BY <1>1, <1>2, <1>3, <1>4, <2>1, <3>1 DEF DataTypes
  <2>6. OffsetInFrame'
    BY <1>1, <1>2, <1>3, <2>1 DEF OffsetInFrame
  <2> QED BY <1>5, <1>6, <2>4, <2>5, <2>6 DEF Accounted
<1>11. CASE ~m_fFrameUsed[m_ulFrameIndex]
  <2>1. Copy(write.left)
    BY <1>11 DEF WriteLeftOver
  <2>2. m_ulBufferOffset' = Len(write.left)
    <3>1. 0 + Len(write.left) = Len(write.left) /\ Len(write.left) \in 0..m_ulBufferSize /\ Len(write.left) # m_ulBufferSize
      BY <1>2, <1>7, <1>8, <1>9
    <3> QED BY <1>2, <1>9, <2>1, <3>1, Wraps DEF Copy
  <2>3. \A f \in Frames \ {m_ulFrameIndex} : m_fFrameUsed[f] =>
          InFrame(f) \cap (m_ulBufferOffset .. m_ulBufferOffset + Len(write.left) - 1) = {}
    BY <2>1 DEF Copy
  <2>4. \A b \in m_ulBufferOffset .. m_ulBufferOffset + Len(write.left) - 1 : b \notin Held
    BY <1>2, <1>7, <1>11, <2>3, CopyIsApart
  <2>5. Partial = {} /\ Partial' = 0 .. Len(write.left) - 1
    BY <1>2, <1>8, <2>2 DEF Partial
  <2>6. 0 .. Len(write.left) - 1 = m_ulBufferOffset .. m_ulBufferOffset + Len(write.left) - 1
    BY <1>2, <1>7
  <2>7. 0 .. Len(write.left) - 1 \subseteq 0..m_ulBufferSize - 1
    BY <1>2, <1>7, <1>8, <1>9
  <2>8. Held' = Held \cup (m_ulBufferOffset .. m_ulBufferOffset + Len(write.left) - 1)
    BY <1>2, <1>3, <1>4, <2>5, <2>6, <2>7 DEF Held
  <2>9. m_ulBufferOffset + Len(write.left) <= m_ulBufferSize
    BY <1>2, <1>7, <1>8, <1>9
  <2>10. /\ \A k \in 1..Len(write.left) : write.left[k] \notin accepted /\ write.left[k] \in 1..given
         /\ \A k, l \in 1..Len(write.left) : write.left[k] = write.left[l] => k = l
    BY <1>1, <1>7 DEF LeftIsNew
  <2>11. /\ EachByteOnce' /\ m_pDataBuffer' \in [0..m_ulBufferSize' - 1 -> Nat]
         /\ accepted' = accepted \cup {write.left[k] : k \in 1..Len(write.left)}
    BY <1>1, <1>2, <1>7, <2>1, <2>4, <2>8, <2>9, <2>10, Copied
  <2>12. DataTypes'
    <3>1. write'.left \in Seq(Nat) /\ m_ulBufferOffset' \in Nat
      BY <1>3, <1>7, <2>2
    <3>2. accepted' \subseteq 1..given
      BY <1>1, <2>10, <2>11 DEF DataTypes
    <3> QED BY <1>1, <1>2, <1>3, <2>11, <3>1, <3>2 DEF DataTypes
  <2>13. OffsetInFrame'
    BY <1>2, <1>3, <1>7, <1>8, <1>11, <2>2 DEF OffsetInFrame
  <2> QED BY <1>5, <1>6, <2>11, <2>12, <2>13 DEF Accounted
<1> QED BY <1>10, <1>11


\* The part of a write up to the end of the buffer
LEMMA DataFirst ==
    ASSUME IndInv, Accounted, ~overrun', stream = "Ready", write.at = "Idle", ~m_fFrameUsed[m_ulFrameIndex],
           NEW d \in Seq(Nat), Len(d) \in 1..m_ulFrameSize, \A k \in 1..Len(d) : d[k] = given + k,
           WriteFirst(d), given' \in Nat, given + Len(d) <= given',
           UNCHANGED <<stream, m_pWorkItems, m_ulFrameSize, file>>
    PROVE  Accounted'
<1> DEFINE start == m_ulFrameIndex * m_ulFrameSize
           n == Min({Len(d), m_ulBufferSize - m_ulBufferOffset})
           first == SubSeq(d, 1, n)
           rest == SubSeq(d, n + 1, Len(d))
           full == m_ulBufferOffset + n >= (m_ulFrameIndex + 1) * m_ulFrameSize
           P == m_ulBufferOffset .. m_ulBufferOffset + n - 1
<1>1. /\ DataTypes /\ FirstWrite /\ ThreadsBusy /\ Shape /\ FrameExclusive /\ PiecesApart /\ OffsetInFrame
      /\ LeftIsNew /\ EachByteOnce
  BY DEF Accounted, IndInv
<1>2. /\ m_ulFrameIndex \in Frames /\ write.save = NoFrame /\ m_ulFrameSize \in Nat \ {0} /\ given \in Nat
      /\ m_ulBufferOffset \in Nat /\ accepted \subseteq 1..given
      /\ m_fFrameUsed \in [Frames -> BOOLEAN]
  BY <1>1 DEF Shape, DataTypes
<1>3. /\ start \in Nat /\ (m_ulFrameIndex + 1) * m_ulFrameSize = start + m_ulFrameSize
      /\ m_ulBufferSize \in Nat \ {0} /\ start + m_ulFrameSize <= m_ulBufferSize
      /\ m_ulFrameIndex + 1 = FrameCount => start + m_ulFrameSize = m_ulBufferSize
      /\ m_ulFrameIndex + 1 # FrameCount => start + 2 * m_ulFrameSize <= m_ulBufferSize
  BY <1>2, FrameBounds DEF m_ulBufferSize
<1>4. start <= m_ulBufferOffset /\ m_ulBufferOffset < start + m_ulFrameSize
  BY <1>1, <1>3 DEF OffsetInFrame
<1> HIDE DEF start
<1>5. /\ n \in 1..Len(d) /\ n <= m_ulFrameSize /\ m_ulBufferOffset + n <= m_ulBufferSize
      /\ n = Len(d) \/ m_ulBufferOffset + n = m_ulBufferSize
  <2>1. Len(d) \in Int /\ m_ulBufferSize - m_ulBufferOffset \in Int /\ m_ulBufferSize - m_ulBufferOffset >= 1
    BY <1>2, <1>3, <1>4
  <2>2. /\ n \in Int /\ n <= Len(d) /\ n <= m_ulBufferSize - m_ulBufferOffset
        /\ n = Len(d) \/ n = m_ulBufferSize - m_ulBufferOffset
    BY <2>1, MinOfTwo
  <2> HIDE DEF n
  <2> QED BY <1>2, <1>3, <2>1, <2>2
<1>6. /\ Copy(first)
      /\ write' = [at |-> IF n < Len(d) THEN "LeftOver" ELSE IF full THEN "Save" ELSE "Idle", left |-> rest,
                   save |-> IF full THEN m_ulFrameIndex ELSE NoFrame, size |-> m_ulFrameSize]
      /\ IF full THEN /\ m_fFrameUsed' = [m_fFrameUsed EXCEPT ![m_ulFrameIndex] = TRUE]
                      /\ m_ulFrameIndex' = (m_ulFrameIndex + 1) % FrameCount
         ELSE UNCHANGED <<m_fFrameUsed, m_ulFrameIndex>>
  BY DEF WriteFirst
<1>7. full <=> m_ulBufferOffset + n >= start + m_ulFrameSize
  BY <1>3 DEF start
<1> HIDE DEF n, full
<1>8. /\ first \in Seq(Nat) /\ Len(first) = n /\ \A k \in 1..n : first[k] = given + k
      /\ rest \in Seq(Nat) /\ Len(rest) = Len(d) - n /\ \A k \in 1..Len(d) - n : rest[k] = given + n + k
  <2>1. \A k \in 1..Len(d) : d[k] \in Nat
    BY <1>2
  <2>2. \A k \in 1..n : d[k] \in Nat /\ 1 + k - 1 = k /\ k \in 1..Len(d)
    BY <1>5, <2>1
  <2>3. n \in Int /\ 1 <= n /\ n - 1 + 1 = n /\ n + 1 \in Int /\ Len(d) \in Int
    BY <1>5
  <2>4. /\ first \in Seq(Nat) /\ Len(first) = IF 1 <= n THEN n - 1 + 1 ELSE 0
        /\ \A k \in 1..n - 1 + 1 : first[k] = d[1 + k - 1]
    BY <2>2, <2>3, SubSeqProperties
  <2>5. \A k \in n + 1..Len(d) : d[k] \in Nat
    BY <1>5, <2>1
  <2>6. /\ rest \in Seq(Nat) /\ Len(rest) = IF n + 1 <= Len(d) THEN Len(d) - (n + 1) + 1 ELSE 0
        /\ \A k \in 1..Len(d) - (n + 1) + 1 : rest[k] = d[n + 1 + k - 1]
    BY <2>3, <2>5, SubSeqProperties
  <2> HIDE DEF first, rest
  <2>7. Len(d) - (n + 1) + 1 = Len(d) - n /\ (~(n + 1 <= Len(d)) => Len(d) - n = 0)
    BY <1>5
  <2>8. \A k \in 1..Len(d) - n : n + 1 + k - 1 \in 1..Len(d) /\ n + 1 + k - 1 = n + k
    BY <1>5
  <2>9. \A k \in 1..Len(d) - n : rest[k] = given + (n + k)
    BY <2>6, <2>7, <2>8
  <2>10. \A k \in 1..n : first[k] = given + k
    BY <2>2, <2>3, <2>4
  <2>11. \A k \in 1..Len(d) - n : given + (n + k) = given + n + k
    BY <1>2, <1>5
  <2>12. Len(first) = n /\ Len(rest) = Len(d) - n
    BY <1>5, <2>3, <2>4, <2>6, <2>7
  <2> QED BY <2>4, <2>6, <2>9, <2>10, <2>11, <2>12
<1>9. /\ write'.at = IF n < Len(d) THEN "LeftOver" ELSE IF full THEN "Save" ELSE "Idle"
      /\ write'.left = rest /\ write'.save = (IF full THEN m_ulFrameIndex ELSE NoFrame)
      /\ write'.size = m_ulFrameSize
  BY <1>6
<1> HIDE DEF first, rest
<1>10. /\ \A i \in Items : Waits(i)' = Waits(i) /\ ToSave(i)' = ToSave(i)
       /\ m_ulBufferSize' = m_ulBufferSize /\ \A f : InFrame(f)' = InFrame(f)
  BY DEF Waits, ToSave, m_ulBufferSize, InFrame
<1>11. FirstWrite' /\ ThreadsBusy' /\ PiecesApart'
  <2>1. given' # 0 /\ stream' = "Ready"
    BY <1>2, <1>5
  <2> QED BY <1>1, <1>9, <1>10, <2>1 DEF FirstWrite, ThreadsBusy, Running, PiecesApart
<1>12. m_ulBufferOffset' = IF m_ulBufferOffset + n = m_ulBufferSize THEN 0 ELSE m_ulBufferOffset + n
  <2>1. m_ulBufferOffset + n \in 0..m_ulBufferSize
    BY <1>2, <1>3, <1>5
  <2>2. m_ulBufferOffset' = (m_ulBufferOffset + n) % m_ulBufferSize
    BY <1>6, <1>8 DEF Copy
  <2> QED BY <1>3, <2>1, <2>2, Wraps
<1>13. \A f \in Frames \ {m_ulFrameIndex} : m_fFrameUsed[f] => InFrame(f) \cap P = {}
  BY <1>6, <1>8 DEF Copy
<1>14. \A b \in P : b \notin Held
  <2>1. n \in Nat
    BY <1>5
  <2> QED BY <1>13, <2>1, CopyIsApart
<1>15. /\ InFrame(m_ulFrameIndex) = start .. start + m_ulFrameSize - 1 /\ Partial = start .. m_ulBufferOffset - 1
       /\ P \subseteq 0..m_ulBufferSize - 1
  <2>1. InFrame(m_ulFrameIndex) = start .. start + m_ulFrameSize - 1
    BY <1>1, <1>2, InFrameIs DEF start
  <2>2. P \subseteq 0..m_ulBufferSize - 1
    BY <1>2, <1>3, <1>5
  <2> QED BY <2>1, <2>2 DEF Partial, start
<1> DEFINE Moved ==
      /\ OffsetInFrame' /\ m_ulBufferOffset' \in Nat
      /\ \A b \in 0..m_ulBufferSize - 1 :
           (full /\ b \in InFrame(m_ulFrameIndex)) \/ b \in Partial' <=> b \in Partial \/ b \in P
<1>16. ASSUME ~full PROVE Moved
  <2>1. /\ m_ulBufferOffset + n < start + m_ulFrameSize /\ n = Len(d)
        /\ m_ulBufferOffset' = m_ulBufferOffset + n /\ UNCHANGED <<m_fFrameUsed, m_ulFrameIndex>>
    BY <1>2, <1>3, <1>5, <1>6, <1>7, <1>12, <1>16
  <2>2. Partial' = start .. m_ulBufferOffset + n - 1
    <3>1. m_ulFrameIndex' * m_ulFrameSize' = start
      BY <2>1 DEF start
    <3>2. m_ulBufferOffset' - 1 = m_ulBufferOffset + n - 1
      BY <1>2, <1>5, <2>1
    <3> QED BY <3>1, <3>2, Zenon DEF Partial
  <2>3. \A b \in 0..m_ulBufferSize - 1 : b \in Partial' <=> b \in Partial \/ b \in P
    BY <1>2, <1>3, <1>4, <1>5, <1>15, <2>2
  <2>4. write'.at = "Idle"
    BY <1>9, <1>16, <2>1
  <2>5. m_ulFrameIndex' * m_ulFrameSize' = start /\ (m_ulFrameIndex' + 1) * m_ulFrameSize' = start + m_ulFrameSize
    BY <1>3, <2>1 DEF start
  <2>6. start <= m_ulBufferOffset' /\ m_ulBufferOffset' \in Nat
    BY <1>2, <1>3, <1>4, <1>5, <2>1
  <2>7. OffsetInFrame'
    BY <2>1, <2>4, <2>5, <2>6 DEF OffsetInFrame
  <2> QED BY <1>16, <2>3, <2>6, <2>7
<1>17. ASSUME full, m_ulFrameIndex + 1 # FrameCount PROVE Moved
  <2> DEFINE next == start + m_ulFrameSize
  <2>1. m_ulFrameIndex \in Nat /\ m_ulFrameIndex + 1 \in Frames /\ m_ulFrameIndex' = m_ulFrameIndex + 1
    <3>1. m_ulFrameIndex \in Nat /\ m_ulFrameIndex + 1 \in 0..FrameCount /\ m_ulFrameIndex + 1 \in Frames
      BY <1>2, <1>17, SaveDataAssumption DEF Frames
    <3> QED BY <1>6, <1>17, <3>1, Wraps, SaveDataAssumption
  <2>2. /\ next <= m_ulBufferOffset + n /\ m_ulBufferOffset + n < next + m_ulFrameSize
        /\ m_ulBufferOffset + n < m_ulBufferSize /\ n = Len(d) /\ m_ulBufferOffset' = m_ulBufferOffset + n
    BY <1>2, <1>3, <1>4, <1>5, <1>7, <1>12, <1>17
  <2>3. /\ m_ulFrameIndex' * m_ulFrameSize' = next
        /\ (m_ulFrameIndex' + 1) * m_ulFrameSize' = next + m_ulFrameSize
        /\ InFrame(m_ulFrameIndex + 1) = next .. next + m_ulFrameSize - 1
    <3>1. /\ m_ulFrameIndex' * m_ulFrameSize = next
          /\ (m_ulFrameIndex' + 1) * m_ulFrameSize = m_ulFrameIndex' * m_ulFrameSize + m_ulFrameSize
      BY <1>2, <1>3, <2>1, FrameBounds
    <3>2. InFrame(m_ulFrameIndex + 1)
            = (m_ulFrameIndex + 1) * m_ulFrameSize .. (m_ulFrameIndex + 1) * m_ulFrameSize + m_ulFrameSize - 1
      BY <1>1, <2>1, InFrameIs
    <3> QED BY <1>3, <2>1, <3>1, <3>2
  <2>4. Partial' = next .. m_ulBufferOffset + n - 1
    <3>1. m_ulBufferOffset' - 1 = m_ulBufferOffset + n - 1
      BY <1>2, <1>5, <2>2
    <3> QED BY <2>3, <3>1, Zenon DEF Partial
  <2>5. \A b \in 0..m_ulBufferSize - 1 :
          b \in InFrame(m_ulFrameIndex) \/ b \in Partial' <=> b \in Partial \/ b \in P
    BY <1>2, <1>3, <1>4, <1>5, <1>15, <2>2, <2>4
  <2>6. m_fFrameUsed'[m_ulFrameIndex'] => m_ulBufferOffset' = next
    <3>1. m_fFrameUsed'[m_ulFrameIndex'] = m_fFrameUsed[m_ulFrameIndex + 1] /\ m_ulFrameIndex + 1 # m_ulFrameIndex
      BY <1>2, <1>6, <1>17, <2>1
    <3>2. SUFFICES ASSUME m_fFrameUsed[m_ulFrameIndex + 1], m_ulBufferOffset + n # next PROVE FALSE
      BY <2>2, <3>1
    <3>3. next \in P /\ next \in InFrame(m_ulFrameIndex + 1)
      BY <1>2, <1>3, <1>4, <1>5, <2>2, <2>3, <3>2
    <3> QED BY <1>13, <2>1, <3>1, <3>2, <3>3
  <2>7. write'.at # "LeftOver" /\ m_ulBufferOffset' \in Nat
    BY <1>2, <1>5, <1>9, <2>2
  <2>8. OffsetInFrame'
    BY <2>2, <2>3, <2>6, <2>7 DEF OffsetInFrame
  <2> QED BY <1>17, <2>5, <2>7, <2>8
<1>18. ASSUME full, m_ulFrameIndex + 1 = FrameCount PROVE Moved
  <2>1. m_ulFrameIndex' = 0
    BY <1>6, <1>18, Wraps, SaveDataAssumption
  <2>2. start + m_ulFrameSize = m_ulBufferSize /\ m_ulBufferOffset + n = m_ulBufferSize /\ m_ulBufferOffset' = 0
    BY <1>2, <1>3, <1>5, <1>7, <1>12, <1>18
  <2>3. 0 * m_ulFrameSize = 0 /\ (0 + 1) * m_ulFrameSize = 0 * m_ulFrameSize + m_ulFrameSize
    BY <1>2, FrameBounds, Numbers
  <2>4. Partial' = {}
    BY <2>1, <2>2, <2>3 DEF Partial
  <2>5. \A b \in 0..m_ulBufferSize - 1 :
          b \in InFrame(m_ulFrameIndex) <=> b \in Partial \/ b \in P
    BY <1>2, <1>3, <1>4, <1>5, <1>15, <2>2
  <2>6. Len(write'.left) < m_ulFrameSize
    BY <1>2, <1>5, <1>8, <1>9
  <2>7. write'.save # NoFrame
    BY <1>2, <1>9, <1>18, Numbers
  <2>8. OffsetInFrame'
    <3>1. 0 < m_ulFrameSize
      BY <1>2
    <3>2. m_ulFrameIndex' * m_ulFrameSize' = 0 /\ (m_ulFrameIndex' + 1) * m_ulFrameSize' = m_ulFrameSize
      <4>1. m_ulFrameSize' = m_ulFrameSize /\ 0 + m_ulFrameSize = m_ulFrameSize
        BY <1>2
      <4> QED BY <2>1, <2>3, <4>1
    <3> QED BY <2>1, <2>2, <2>6, <2>7, <3>1, <3>2 DEF OffsetInFrame
  <2> QED BY <1>18, <2>2, <2>4, <2>5, <2>8
<1>19. Moved
  BY <1>16, <1>17, <1>18
<1>20. Held' = Held \cup P
  <2>1. /\ write'.save # NoFrame <=> full
        /\ full => InFrame(write.save)' = InFrame(m_ulFrameIndex)
    BY <1>2, <1>9, Numbers DEF InFrame
  <2>2. ASSUME NEW b \in 0..m_ulBufferSize - 1
        PROVE  b \in Held' <=> b \in Held \/ b \in P
    <3>1. b \in Held' <=> \/ \E i \in Items : Waits(i) /\ b \in ToSave(i)
                          \/ (full /\ b \in InFrame(m_ulFrameIndex)) \/ b \in Partial'
      BY <1>10, <2>1 DEF Held
    <3>2. b \in Held <=> b \in Partial \/ \E i \in Items : Waits(i) /\ b \in ToSave(i)
      BY <1>2 DEF Held
    <3> QED BY <1>19, <3>1, <3>2
  <2>3. Held \subseteq 0..m_ulBufferSize - 1 /\ Held' \subseteq 0..m_ulBufferSize - 1
    BY <1>10 DEF Held
  <2> HIDE DEF P
  <2> QED BY <1>15, <2>2, <2>3
<1>21. /\ \A k \in 1..n : first[k] \notin accepted /\ first[k] \in 1..given'
       /\ \A k, l \in 1..n : first[k] = first[l] => k = l
  <2>1. n \in Nat /\ Len(d) \in Nat /\ n <= Len(d)
    BY <1>5
  <2>2. \A k \in 1..n : given + k \in 1..given' /\ given + k \notin 1..given
    BY <1>2, <2>1
  <2>3. \A k \in 1..n : first[k] \notin accepted /\ first[k] \in 1..given'
    BY <1>2, <1>8, <2>2
  <2>4. \A k, l \in 1..n : first[k] = first[l] => k = l
    <3>1. \A k, l \in 1..n : given + k = given + l => k = l
      BY <1>2, <2>1
    <3> QED BY <1>8, <3>1
  <2> QED BY <2>3, <2>4
<1>22. /\ EachByteOnce' /\ m_pDataBuffer' \in [0..m_ulBufferSize' - 1 -> Nat]
       /\ accepted' = accepted \cup {first[k] : k \in 1..n}
  BY <1>1, <1>5, <1>6, <1>8, <1>14, <1>20, <1>21, Copied
<1>23. DataTypes'
  <2>1. accepted' \subseteq 1..given'
    <3>1. 1..given \subseteq 1..given'
      BY <1>2
    <3>2. {first[k] : k \in 1..n} \subseteq 1..given'
      BY <1>21
    <3> QED BY <1>2, <1>22, <3>1, <3>2
  <2>2. write'.at \in {"Idle", "LeftOver", "Save"}
    BY <1>9
  <2> QED BY <1>1, <1>8, <1>9, <1>19, <1>22, <2>1, <2>2 DEF DataTypes
<1>24. LeftIsNew'
  <2>1. DOMAIN rest = 1..Len(d) - n /\ n \in Nat /\ Len(d) \in Nat
    BY <1>5, <1>8
  <2>2. \A k \in 1..Len(d) - n : rest[k] \in 1..given' /\ rest[k] > given + n
    BY <1>2, <1>8, <2>1
  <2>3. \A a \in accepted' : a \in Nat /\ a <= given + n
    BY <1>2, <1>8, <1>22, <2>1
  <2>4. \A k \in 1..Len(d) - n : rest[k] \in (1..given') \ accepted'
    BY <1>2, <2>1, <2>2, <2>3
  <2>5. \A k, l \in 1..Len(d) - n : rest[k] = rest[l] => k = l
    BY <1>2, <1>8, <2>1
  <2> QED BY <1>9, <2>1, <2>4, <2>5 DEF LeftIsNew
<1> QED BY <1>11, <1>19, <1>22, <1>23, <1>24 DEF Accounted


\* A call of WriteData
LEMMA DataGiven ==
    ASSUME IndInv, Accounted, ~overrun', NEW ulByteCount \in WriteSizes, WriteData(ulByteCount)
    PROVE  Accounted'
<1>1. /\ DataTypes /\ FirstWrite /\ ThreadsBusy /\ Shape
  BY DEF Accounted, IndInv
<1>2. /\ stream = "Ready" /\ write.at = "Idle" /\ write.save = NoFrame /\ given' = given + ulByteCount
      /\ UNCHANGED <<stream, m_pWorkItems, m_ulFrameSize, file>>
      /\ given \in Nat /\ ulByteCount \in Nat /\ m_ulFrameSize \in Nat \ {0} /\ given' \in Nat
  BY <1>1, SizesAssumption DEF WriteData, Shape, DataTypes, disk
<1>3. CASE m_fWriteDisabled \/ ulByteCount = 0 \/ m_fFrameUsed[m_ulFrameIndex]
  <2>1. UNCHANGED <<m_pDataBuffer, m_ulBufferOffset, m_ulFrameIndex, m_fFrameUsed, write, accepted>>
    BY <1>3 DEF WriteData, buffer
  <2>2. \A i \in Items : Waits(i)' <=> Waits(i)
    BY <1>2 DEF Waits
  <2>3. given <= given' /\ 1..given \subseteq 1..given' /\ (given' = 0 => given = 0)
    BY <1>2
  <2>4. DataTypes'
    BY <1>1, <1>2, <2>1, <2>3 DEF DataTypes, m_ulBufferSize
  <2>5. FirstWrite' /\ ThreadsBusy'
    BY <1>1, <1>2, <2>1, <2>2, <2>3 DEF FirstWrite, ThreadsBusy, Running
  <2> QED BY <1>2, <2>1, <2>2, <2>3, <2>4, <2>5, Keeps
<1>4. CASE ~(m_fWriteDisabled \/ ulByteCount = 0 \/ m_fFrameUsed[m_ulFrameIndex])
  <2> DEFINE n == Min({ulByteCount, m_ulFrameSize})
             d == [k \in 1..n |-> given + k]
  <2>1. n \in 1..m_ulFrameSize /\ n <= ulByteCount
    <3>1. n \in Int /\ n <= ulByteCount /\ n <= m_ulFrameSize /\ (n = ulByteCount \/ n = m_ulFrameSize)
      <4>1. ulByteCount \in Int /\ m_ulFrameSize \in Int
        BY <1>2
      <4> QED BY <4>1, MinOfTwo
    <3> HIDE DEF n
    <3> QED BY <1>2, <1>4, <3>1
  <2>2. WriteFirst(d)
    BY <1>4 DEF WriteData
  <2> HIDE DEF n
  <2>3. n \in Nat /\ \A k \in 1..n : given + k \in Nat
    BY <1>2, <2>1
  <2>4. d \in [1..n -> Nat]
    BY <2>3
  <2>5. d \in Seq(Nat) /\ Len(d) = n
    BY <2>3, <2>4, IsSequence
  <2>6. \A k \in 1..Len(d) : d[k] = given + k
    BY <2>5
  <2> HIDE DEF d
  <2>7. given + Len(d) <= given' /\ Len(d) \in 1..m_ulFrameSize
    BY <1>2, <2>1, <2>5
  <2> QED BY <1>2, <1>4, <2>2, <2>5, <2>6, <2>7, DataFirst
<1> QED BY <1>3, <1>4

\* The other steps move no byte.
LEMMA DataRemains ==
    ASSUME IndInv, Accounted, (\E fDisable \in BOOLEAN : Disable(fDisable)) \/ WaitedForAll \/ Destroy \/ UNCHANGED vars
    PROVE  Accounted'
<1>1. /\ DataTypes /\ FirstWrite /\ ThreadsBusy /\ Shape
  BY DEF Accounted, IndInv
<1>2. CASE Destroy
  <2>1. /\ stream \in {"New", "Formatted", "Failed", "Stopped"} /\ stream' = "Gone"
        /\ m_pWorkItems' = [i \in Items |-> NoItem]
        /\ UNCHANGED <<m_pDataBuffer, m_ulBufferOffset, m_ulFrameIndex, m_ulFrameSize, m_fFrameUsed, write, given, accepted>>
    BY <1>2 DEF Destroy, DestroyWorkItems, buffer, bytes
  <2>2. \A i \in Items : ~Waits(i) /\ ~Waits(i)' /\ m_pWorkItems'[i].at = "None"
    BY <2>1 DEF Waits, NoItem, IndInv, BeforeIsQuiet, NothingAfterFree
  <2>3. file'.data = file.data /\ file' = [header |-> file'.header, data |-> file'.data]
    BY <1>1, <1>2 DEF Destroy, FileWriteHeader, DataTypes
  <2>4. DataTypes'
    BY <1>1, <2>1, <2>2, <2>3 DEF DataTypes, m_ulBufferSize
  <2>5. FirstWrite'
    BY <1>1, <2>1, <2>2 DEF FirstWrite
  <2>6. ThreadsBusy'
    <3>1. Running' = {}
      BY <2>2 DEF Running
    <3> QED BY <2>1, <3>1, FS_EmptySet, SaveDataAssumption DEF ThreadsBusy
  <2>7. PiecesApart' /\ OffsetInFrame' /\ LeftIsNew'
    BY <2>1, <2>2 DEF Accounted, PiecesApart, OffsetInFrame, LeftIsNew
  <2>8. Held' = Held
    <3>1. m_ulBufferSize' = m_ulBufferSize /\ InFrame(write.save)' = InFrame(write.save)
      BY <2>1 DEF m_ulBufferSize, InFrame
    <3> QED BY <2>1, <2>2, <3>1 DEF Held
  <2>9. EachByteOnce'
    BY <2>1, <2>3, <2>8 DEF Accounted, EachByteOnce
  <2> QED BY <2>4, <2>5, <2>6, <2>7, <2>9 DEF Accounted
<1>3. CASE (\E fDisable \in BOOLEAN : Disable(fDisable)) \/ WaitedForAll \/ UNCHANGED vars
  <2>1. /\ stream' = stream \/ (stream = "Waiting" /\ stream' = "Stopped")
        /\ UNCHANGED <<m_pWorkItems, m_pDataBuffer, m_ulBufferOffset, m_ulFrameIndex, m_ulFrameSize, m_fFrameUsed,
                       write, file, given, accepted>>
    <3>1. CASE \E fDisable \in BOOLEAN : Disable(fDisable)
      BY <3>1 DEF Disable, buffer, disk, bytes
    <3>2. CASE WaitedForAll
      BY <3>2 DEF WaitedForAll, buffer, disk, bytes
    <3>3. CASE UNCHANGED vars
      BY <3>3 DEF vars, buffer, disk, bytes
    <3> QED BY <1>3, <3>1, <3>2, <3>3
  <2>2. \A i \in Items : (Waits(i)' <=> Waits(i)) /\ ToSave(i)' = ToSave(i)
    BY <2>1 DEF Waits, ToSave
  <2>3. DataTypes'
    BY <1>1, <2>1 DEF DataTypes, m_ulBufferSize
  <2>4. FirstWrite' /\ ThreadsBusy'
    BY <1>1, <2>1, <2>2 DEF FirstWrite, ThreadsBusy, Running
  <2>5. PiecesApart' /\ OffsetInFrame' /\ LeftIsNew'
    BY <2>1, <2>2 DEF Accounted, PiecesApart, OffsetInFrame, LeftIsNew
  <2>6. Held' = Held
    <3>1. /\ m_ulBufferSize' = m_ulBufferSize /\ InFrame(write.save)' = InFrame(write.save) /\ Partial' = Partial
          /\ stream' = "Ready" <=> stream = "Ready"
      BY <2>1 DEF m_ulBufferSize, InFrame, Partial
    <3> QED BY <2>1, <2>2, <3>1 DEF Held
  <2>7. EachByteOnce'
    BY <2>1, <2>6 DEF Accounted, EachByteOnce
  <2> QED BY <2>3, <2>4, <2>5, <2>7 DEF Accounted
<1> QED BY <1>2, <1>3

\* What has failed, and what has run over, stays so.
LEMMA DisturbedStays ==
    ASSUME failures \in Nat, [Next]_vars
    PROVE  failures' \in Nat /\ (Undisturbed' => Undisturbed)
<1>1. failures' \in Nat /\ failures <= failures'
  <2>1. \A ok : Try(ok) => failures' \in Nat /\ failures <= failures'
    BY DEF Try
  <2>2. (\E ok : Try(ok)) \/ UNCHANGED failures
    <3>1. CASE SetDataFormat \/ \E size \in MaxWriteSizes : SetMaxWriteSize(size)
      BY <3>1 DEF SetDataFormat, SetMaxWriteSize
    <3>2. CASE Initialize
      BY <3>2 DEF Initialize, InitializeFails, InitializeFile
    <3>3. CASE \/ \E fDisable \in BOOLEAN : Disable(fDisable)
               \/ \E ulByteCount \in WriteSizes : WriteData(ulByteCount)
               \/ Writing \/ WaitAllWorkItems \/ WaitedForAll
      BY <3>3 DEF Disable, WriteData, Writing, WriteLeftOver, WriteSaves, WaitAllWorkItems, WaitedForAll
    <3>4. CASE \E i \in Items : SaveFrameWorkerCallback(i)
      BY <3>4 DEF SaveFrameWorkerCallback, CallbackBegins, CallbackOpens, CallbackWrites, CallbackClears, CallbackSignals
    <3>5. CASE Destroy
      BY <3>5 DEF Destroy
    <3>6. CASE Ended \/ UNCHANGED vars
      BY <3>6 DEF Ended, vars
    <3> QED BY <3>1, <3>2, <3>3, <3>4, <3>5, <3>6 DEF Next
  <2> QED BY <2>1, <2>2
<1>2. overrun => overrun'
  BY DEF Next, SetDataFormat, Initialize, SetMaxWriteSize, Disable, WriteData, WriteFirst, Copy,
         Writing, WriteLeftOver, WriteSaves, SaveFrameWorkerCallback, CallbackBegins, CallbackOpens, CallbackWrites,
         CallbackClears, CallbackSignals, WaitAllWorkItems, WaitedForAll, Destroy, Ended, vars, bytes
<1> QED BY <1>1, <1>2 DEF Undisturbed

\* Every step keeps the account, as long as nothing disturbs it.
LEMMA DataStep ==
    ASSUME EnoughItems, IndInv, DataInv, [Next]_vars
    PROVE  DataInv'
<1>1. failures' \in Nat
  <2>1. failures \in Nat
    BY DEF DataInv
  <2> QED BY <2>1, DisturbedStays
<1>2. SUFFICES ASSUME Undisturbed' PROVE Accounted'
  BY <1>1 DEF DataInv
<1>3. Undisturbed /\ Accounted
  BY <1>2, DisturbedStays DEF DataInv
<1>4. ~overrun' /\ failures = 0 /\ failures' = 0
  BY <1>2, <1>3 DEF Undisturbed
<1>5. CASE SetDataFormat \/ Initialize
  BY <1>3, <1>4, <1>5, DataSetup
<1>6. CASE \E size \in MaxWriteSizes : SetMaxWriteSize(size)
  BY <1>3, <1>6, DataSize
<1>7. CASE \E ulByteCount \in WriteSizes : WriteData(ulByteCount)
  BY <1>3, <1>4, <1>7, DataGiven
<1>8. CASE Writing
  BY <1>3, <1>4, <1>8, DataLeftOver, DataSaved DEF Writing
<1>9. CASE \E i \in Items : SaveFrameWorkerCallback(i)
  BY <1>3, <1>4, <1>9, DataCallback, DataWritten DEF SaveFrameWorkerCallback
<1>10. CASE WaitAllWorkItems
  BY <1>3, <1>10, DataRest
<1>11. CASE (\E fDisable \in BOOLEAN : Disable(fDisable)) \/ WaitedForAll \/ Destroy \/ UNCHANGED vars
  BY <1>3, <1>11, DataRemains
<1>12. CASE Ended
  BY <1>3, <1>12, DataRemains DEF Ended
<1> QED BY <1>5, <1>6, <1>7, <1>8, <1>9, <1>10, <1>11, <1>12 DEF Next

\* With a work item for every frame and every thread, each byte that WriteData
\* accepts is in one place of the file or in one of the buffer that is still to
\* be saved, until a write runs over into a frame that waits or a call fails.
THEOREM BytesAreAccounted == EnoughItems => (Spec => []DataInv)
<1> SUFFICES ASSUME EnoughItems PROVE Spec => []DataInv
  OBVIOUS
<1>1. Init => DataInv
  BY DataInit
<1>2. IndInv /\ DataInv /\ [Next]_vars => DataInv'
  BY DataStep
<1> QED BY <1>1, <1>2, SaveInvariant, PTL DEF Spec

\* A sequence without repetitions is as long as its range is large.
LEMMA LengthIsSize ==
    ASSUME NEW s \in Seq(Nat), \A k, l \in DOMAIN s : s[k] = s[l] => k = l
    PROVE  Len(s) = Cardinality(Range(s))
<1>1. Len(s) \in Nat /\ DOMAIN s = 1..Len(s) /\ Range(s) = {s[k] : k \in 1..Len(s)}
  BY DEF Range
<1>2. s \in [1..Len(s) -> Range(s)] /\ \A k, l \in 1..Len(s) : s[k] = s[l] => k = l
  BY <1>1
<1>3. s \in Injection(1..Len(s), Range(s)) /\ s \in Surjection(1..Len(s), Range(s))
  BY <1>1, <1>2, Fun_IsInj, Fun_IsSurj
<1>4. ExistsBijection(1..Len(s), Range(s))
  BY <1>3 DEF Bijection, ExistsBijection
<1>5. IsFiniteSet(1..Len(s)) /\ Cardinality(1..Len(s)) = Len(s)
  BY <1>1, FS_Interval
<1> QED BY <1>4, <1>5, FS_Bijection

\* Then the file of a stream that has stopped holds every byte that was accepted,
\* once, in whatever order the callbacks of the frames have run.
THEOREM FileIsComplete == EnoughItems => (Spec => []Complete)
<1> SUFFICES ASSUME EnoughItems PROVE Spec => []Complete
  OBVIOUS
<1>1. IndInv /\ DataInv => Complete
  <2> SUFFICES ASSUME IndInv, DataInv, stream = "Stopped", ~overrun, failures = 0
               PROVE  Range(file.data) = accepted /\ Len(file.data) = Cardinality(accepted)
    BY DEF Complete
  <2>1. DataTypes /\ EachByteOnce
    BY DEF DataInv, Undisturbed, Accounted
  <2>2. Held = {}
    <3>1. \A i \in Items : ~Waits(i)
      BY DEF IndInv, NothingAfterFree, Waits
    <3>2. write.save = NoFrame
      BY DEF IndInv, AfterIsIdle, Shape
    <3> QED BY <3>1, <3>2 DEF Held
  <2>3. Range(file.data) = accepted
    BY <2>1, <2>2 DEF EachByteOnce, Range
  <2>4. Len(file.data) = Cardinality(Range(file.data))
    BY <2>1, LengthIsSize DEF EachByteOnce, DataTypes
  <2> QED BY <2>3, <2>4
<1> QED BY <1>1, BytesAreAccounted, SaveInvariant, PTL
=============================================================================
