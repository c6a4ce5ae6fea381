--------------------------- MODULE RingBufferProofs ---------------------------
(***************************************************************************)
(* Proofs about RingBuffer, for every ring size, hole_fix_wait, number of  *)
(* readers and bound on the positions.                                     *)
(***************************************************************************)
EXTENDS RingBuffer, TLAPS

-----------------------------------------------------------------------------
(* Arithmetic of the ring's indices *)

\* A position's index is one of the ring's.
LEMMA IndexType == \A p \in Int : Index(p) \in Indices
  BY SizeAssumption DEF Index, Indices

\* Division with remainder, for the ring's size.
LEMMA DivMod ==
  \A p \in Int : p \div Size \in Int /\ p = Size * (p \div Size) + (p % Size)
  BY SizeAssumption

\* A positive multiple of the size is at least the size.
LEMMA SizeMultiple == \A k \in Int : k >= 1 => Size * k >= Size
  BY SizeAssumption

\* Two different positions with the same index are at least a ring apart.
LEMMA IndexInjective ==
  \A p, q \in Int : Index(p) = Index(q) /\ p < q => q - p >= Size
<1> SUFFICES ASSUME NEW p \in Int, NEW q \in Int, p % Size = q % Size, p < q
             PROVE  q - p >= Size
  BY DEF Index
<1> DEFINE a == p \div Size
<1> DEFINE b == q \div Size
<1>1. p % Size \in Int
  BY SizeAssumption
<1>2. /\ a \in Int /\ b \in Int
      /\ p = Size * a + (p % Size)
      /\ q = Size * b + (p % Size)
  BY DivMod
<1> HIDE DEF a, b
<1>3. q - p = Size * b - Size * a /\ Size * a \in Int /\ Size * b \in Int
  BY <1>1, <1>2, SizeAssumption
<1>4. Size * (b - a) = q - p
  BY <1>2, <1>3, SizeAssumption
<1>5. b - a >= 1
  BY <1>2, <1>3, <1>4, SizeAssumption
<1> QED
  BY <1>2, <1>4, <1>5, SizeMultiple

\* for_in_ring visits the whole of a range that is not longer than the ring.
LEMMA SpanExact ==
  \A f, t \in Int : f <= t /\ t - f <= Size => RingSpan(f, t) = t - f
<1>1. \A d \in 1 .. Size - 1 : d % Size = d
  BY SizeAssumption
<1>2. Size % Size = 0
  BY SizeAssumption
<1> SUFFICES ASSUME NEW f \in Int, NEW t \in Int, f <= t, t - f <= Size
             PROVE  RingSpan(f, t) = t - f
  OBVIOUS
<1>3. CASE f = t
  BY <1>3 DEF RingSpan
<1>4. CASE f < t /\ t - f < Size
  BY <1>1, <1>4, SizeAssumption DEF RingSpan
<1>5. CASE t - f = Size
  BY <1>2, <1>5, SizeAssumption DEF RingSpan
<1> QED
  BY <1>3, <1>4, <1>5, SizeAssumption

\* So the positions a ring holds at one time have different indices.
LEMMA WindowInjective ==
  ASSUME NEW w \in Int, NEW p \in Window(w), NEW q \in Window(w), Index(p) = Index(q)
  PROVE  p = q
<1>1. p \in Int /\ q \in Int /\ p - q < Size /\ q - p < Size
  BY SizeAssumption DEF Window
<1> QED
  BY <1>1, IndexInjective, SizeAssumption

\* for_in_ring visits at most a ring of items.
LEMMA SpanType == \A f, t \in Int : RingSpan(f, t) \in 0 .. Size
  BY SizeAssumption DEF RingSpan

-----------------------------------------------------------------------------
(* Types *)

\* Every step of the writer and of the readers keeps the variables in their types.
LEMMA StateTypesStep == StateTypes /\ [Next]_vars => StateTypes'
<1> SUFFICES ASSUME StateTypes, [Next]_vars PROVE StateTypes'
  OBVIOUS
<1> USE SizeAssumption, BoundsAssumption
<1>1. ASSUME NEW ts \in 0 .. MaxPos, NEW n \in 0 .. Size - 1, BeginWrite(ts, n)
      PROVE  StateTypes'
  <2>1. item_ready' \in [Indices -> BOOLEAN]
    BY <1>1 DEF StateTypes, BeginWrite
  <2>2. writing_pos' \in Int /\ cur' \in Int /\ end' \in Int /\ need' \in Nat
    BY <1>1 DEF StateTypes, BeginWrite, Max
  <2>3. written' \subseteq Int
    BY <1>1 DEF StateTypes, BeginWrite
  <2> QED
    BY <1>1, <2>1, <2>2, <2>3 DEF StateTypes, BeginWrite, reading
<1>2. CASE StoreItem
  BY <1>2, IndexType DEF StateTypes, StoreItem, Samples, positions, reading
<1>3. CASE PublishAll
  BY <1>3 DEF StateTypes, PublishAll, Return, content, reading
<1>4. CASE CloseOldHoles
  <2>1. CloseUntil \in Int
    BY DEF StateTypes, CloseUntil, Min
  <2>2. RingSpan(readable_pos, CloseUntil) \in Int
    BY <2>1, SpanType DEF StateTypes
  <2> QED
    BY <1>4, <2>2 DEF StateTypes, CloseOldHoles, EnterClose, positions, content, reading
<1>5. CASE ZeroItem
  BY <1>5, IndexType DEF StateTypes, ZeroItem, Samples, positions, reading
<1>6. CASE EndZero
  BY <1>6 DEF StateTypes, EndZero, CloseUntil, Min, content, reading
<1>7. CASE CheckReady
  <2>1. CheckUntil \in Int
    BY DEF StateTypes, CheckUntil, Min
  <2>2. RingSpan(readable_pos, CheckUntil) \in Int /\ RingSpan(writing_pos, need) \in Int
    BY <2>1, SpanType DEF StateTypes
  <2>3. written' \subseteq Int
    BY <1>7 DEF StateTypes, CheckReady
  <2>4. readable_pos' \in Int
    BY <1>7, <2>2 DEF StateTypes, CheckReady
  <2>5. CASE op = "close" /\ need > writing_pos
    BY <1>7, <2>2, <2>3, <2>4, <2>5 DEF StateTypes, CheckReady, Return, reading
  <2>6. CASE ~(op = "close" /\ need > writing_pos)
    BY <1>7, <2>2, <2>3, <2>4, <2>6 DEF StateTypes, CheckReady, Return, reading
  <2> QED
    BY <2>5, <2>6
<1>8. ASSUME NEW until \in 0 .. MaxPos, BeginClose(until)
      PROVE  StateTypes'
  <2>1. Min(until, writing_pos) \in Int
    BY DEF StateTypes, Min
  <2>2. RingSpan(readable_pos, Min(until, writing_pos)) \in Int
    BY <2>1, SpanType DEF StateTypes
  <2> QED
    BY <1>8, <2>2 DEF StateTypes, BeginClose, EnterClose, positions, content, reading
<1>9. CASE ExtendItem
  BY <1>9, IndexType DEF StateTypes, ExtendItem, Samples, positions, reading
<1>10. CASE EndExtend
  BY <1>10 DEF StateTypes, EndExtend, Return, content, reading
<1>11. ASSUME NEW ts \in 0 .. MaxPos, BeginReset(ts)
       PROVE  StateTypes'
  <2>1. written' \subseteq Int
    BY <1>11 DEF StateTypes, BeginReset
  <2> QED
    BY <1>11, <2>1 DEF StateTypes, BeginReset, reading
<1>12. CASE EndReset
  BY <1>12 DEF StateTypes, EndReset, Return, content, reading
<1>13. ASSUME NEW r \in Readers, NEW ts \in 0 .. MaxPos, NEW n \in 1 .. Size,
              BeginRead(r, ts, n)
       PROVE  StateTypes'
  <2>1. rpc' \in [Readers -> {"idle", "copy"}]
    BY <1>13 DEF StateTypes, BeginRead
  <2>2. len' \in [Readers -> 0 .. Size]
    <3>1. readable_pos - ts \in 0 .. Size => Min(n, readable_pos - ts) \in 0 .. Size
      BY DEF Min
    <3>2. \/ len' = [len EXCEPT ![r] = 0]
          \/ /\ readable_pos - ts \in 0 .. Size
             /\ len' = [len EXCEPT ![r] = Min(n, readable_pos - ts)]
      BY <1>13 DEF BeginRead
    <3> QED
      BY <3>1, <3>2 DEF StateTypes
  <2>3. out' \in [Readers -> Seq(Samples)]
    BY <1>13 DEF StateTypes, BeginRead
  <2>4. start' \in [Readers -> Nat] /\ useful' \in [Readers -> 0 .. Size]
    BY <1>13 DEF StateTypes, BeginRead
  <2> QED
    BY <1>13, <2>1, <2>2, <2>3, <2>4 DEF StateTypes, BeginRead, positions, content, control
<1>14. ASSUME NEW r \in Readers, CopyItem(r)
       PROVE  StateTypes'
  <2>1. buffer[Index(start[r] + Len(out[r]))] \in Samples
    BY <1>14, IndexType DEF StateTypes
  <2> QED
    BY <1>14, <2>1 DEF StateTypes, CopyItem, positions, content, control
<1>15. ASSUME NEW r \in Readers, Validate(r)
       PROVE  StateTypes'
  BY <1>15 DEF StateTypes, Validate, Min, positions, content, control
<1>16. CASE UNCHANGED vars
  BY <1>16 DEF StateTypes, vars, positions, content, control, reading
<1> QED
  BY <1>1, <1>2, <1>3, <1>4, <1>5, <1>6, <1>7, <1>8, <1>9, <1>10, <1>11, <1>12,
     <1>13, <1>14, <1>15, <1>16 DEF Next, Writer, Reader

\* Every step keeps TypeOK; the Boolean item_ready is treated apart.
LEMMA TypeStep == TypeOK /\ [Next]_vars => TypeOK'
<1> SUFFICES ASSUME TypeOK, [Next]_vars PROVE TypeOK'
  OBVIOUS
<1>1. StateTypes'
  BY StateTypesStep DEF TypeOK
<1>2. hole' \in BOOLEAN
  BY Zenon DEF TypeOK, Next, Writer, Reader, BeginWrite, StoreItem, PublishAll, Return,
     CloseOldHoles, ZeroItem, EndZero, CheckReady, BeginClose, ExtendItem, EndExtend,
     BeginReset, EndReset, BeginRead, CopyItem, Validate, vars, control
<1> QED
  BY <1>1, <1>2 DEF TypeOK

\* TypeOK holds in every behaviour of the ring buffer, in or out of contract.
THEOREM TypeCorrect == Spec => []TypeOK
<1>1. Init => TypeOK
  BY SizeAssumption, BoundsAssumption DEF Init, TypeOK, StateTypes, Indices, Samples
<1> QED
  BY <1>1, TypeStep, PTL DEF Spec

-----------------------------------------------------------------------------
(* The inductive invariant *)

\* A step of the writer that moves no position back keeps what the readers rely
\* on.
LEMMA ReaderFrame ==
  ASSUME StateTypes, StateTypes', ReaderInv, UNCHANGED reading,
         writing_pos' >= writing_pos, readable_pos' >= readable_pos
  PROVE  ReaderInv'
<1> SUFFICES ASSUME NEW r \in Readers
             PROVE  /\ Len(out[r]) <= len[r]
                    /\ rpc[r] = "copy" =>
                         /\ start[r] + len[r] <= readable_pos'
                         /\ \A j \in 1 .. Len(out[r]) :
                              \/ out[r][j] \in {start[r] + j - 1, Silence}
                              \/ writing_pos' > start[r] + j - 1 + Size
                    /\ rpc[r] = "idle" =>
                         \A j \in useful[r] + 1 .. Len(out[r]) :
                           out[r][j] \in {start[r] + j - 1, Silence}
  BY DEF ReaderInv, reading
<1>1. /\ writing_pos \in Int /\ readable_pos \in Int
      /\ writing_pos' \in Int /\ readable_pos' \in Int
      /\ start[r] \in Nat /\ len[r] \in Nat /\ Len(out[r]) \in Nat
  BY SizeAssumption DEF StateTypes
<1>2. Len(out[r]) <= len[r]
  BY DEF ReaderInv
<1>3. rpc[r] = "copy" => start[r] + len[r] <= readable_pos'
  BY <1>1 DEF ReaderInv
<1>4. ASSUME rpc[r] = "copy", NEW j \in 1 .. Len(out[r])
      PROVE  \/ out[r][j] \in {start[r] + j - 1, Silence}
             \/ writing_pos' > start[r] + j - 1 + Size
  <2>1. \/ out[r][j] \in {start[r] + j - 1, Silence}
        \/ writing_pos > start[r] + j - 1 + Size
    BY <1>4 DEF ReaderInv
  <2> QED
    BY <1>1, <2>1, SizeAssumption
<1> QED
  BY <1>2, <1>3, <1>4 DEF ReaderInv

\* StoreItem puts the sample in its own slot, and in no other position's.
LEMMA StoreItemStep ==
  ASSUME IndInv, StateTypes', StoreItem
  PROVE  (PositionOrder /\ WriterInv /\ ContentInv /\ WrittenInv /\ ReaderInv)'
<1> USE SizeAssumption
<1>1. StateTypes
  BY DEF IndInv, TypeOK
<1>2. cur \in Window(writing_pos)
  BY <1>1 DEF IndInv, WriterInv, StoreItem, Window, StateTypes
<1>3. PositionOrder'
  BY DEF IndInv, PositionOrder, StoreItem, positions
<1>4. WriterInv'
  BY <1>1 DEF IndInv, WriterInv, StoreItem, positions, StateTypes
<1>5. ASSUME NEW p \in Window(writing_pos), p # cur
      PROVE  buffer'[Index(p)] = buffer[Index(p)] /\ item_ready'[Index(p)] = item_ready[Index(p)]
  <2>1. p \in Int /\ cur \in Int /\ writing_pos \in Int
    BY <1>1 DEF StateTypes, Window
  <2>2. Index(p) # Index(cur)
    BY <1>2, <1>5, <2>1, WindowInjective
  <2> QED
    BY <1>1, <2>1, <2>2, IndexType DEF StoreItem, StateTypes
<1>6. buffer'[Index(cur)] = cur /\ item_ready'[Index(cur)] = TRUE
  BY <1>1, IndexType DEF StoreItem, StateTypes
<1>7. ContentInv'
  <2> SUFFICES ASSUME NEW p \in Window(writing_pos), p # cur
               PROVE  Settled(p)' \/ Pending(p)'
    BY <1>6 DEF ContentInv, StoreItem, positions, Settled, Window
  <2>1. p \in Int /\ cur \in Int
    BY <1>1 DEF StateTypes, Window
  <2>2. Settled(p) \/ Pending(p)
    BY DEF IndInv, ContentInv
  <2>3. CASE Settled(p)
    BY <1>5, <2>3 DEF Settled
  <2>4. CASE Pending(p)
    <3>1. pc = "store" /\ pc' = "store"
      BY DEF StoreItem
    <3>2. CASE p >= cur /\ p < end /\ p >= readable_pos
      BY <1>1, <2>1, <3>1, <3>2 DEF Pending, StoreItem, positions, StateTypes
    <3>3. CASE hole /\ p >= readable_pos /\ ~item_ready[Index(p)]
      BY <1>5, <3>1, <3>3 DEF Pending, StoreItem, positions
    <3> QED
      BY <2>4, <3>1, <3>2, <3>3 DEF Pending
  <2> QED
    BY <2>2, <2>3, <2>4
<1>8. WrittenInv'
  BY <1>2, <1>5, <1>6 DEF IndInv, WrittenInv, StoreItem, positions
<1>9. ReaderInv'
  BY <1>1, ReaderFrame DEF IndInv, StoreItem, positions, StateTypes
<1> QED
  BY <1>3, <1>4, <1>7, <1>8, <1>9

\* BeginWrite announces the write before any item is touched, and marks the
\* items it skips as not ready.
LEMMA BeginWriteStep ==
  ASSUME Contract, IndInv, StateTypes',
         NEW ts \in 0 .. MaxPos, NEW n \in 0 .. Size - 1, BeginWrite(ts, n)
  PROVE  (PositionOrder /\ WriterInv /\ ContentInv /\ WrittenInv /\ ReaderInv)'
<1> USE SizeAssumption, BoundsAssumption
<1>1. StateTypes
  BY DEF IndInv, TypeOK
<1>2. /\ ts \in Int /\ n \in Int
      /\ writing_pos \in Int /\ readable_pos \in Int /\ writing_pos' \in Int
      /\ writing_pos' = Max(ts + n, writing_pos)
      /\ writing_pos' >= writing_pos /\ writing_pos' >= ts + n
      /\ writing_pos' <= writing_pos + Size
      /\ ts >= writing_pos' - Size
      /\ readable_pos' = readable_pos
      /\ readable_pos <= writing_pos
      /\ writing_pos - readable_pos <= HoleFixWait
  BY <1>1 DEF StateTypes, BeginWrite, Max, Min, Contract, IndInv, PositionOrder, WriterInv
<1>3. pc = "idle" /\ pc' = "store" /\ op' = "write" /\ cur' = ts /\ end' = ts + n
  BY DEF BeginWrite
<1>4. PositionOrder'
  BY <1>1, <1>2 DEF IndInv, PositionOrder, BeginWrite, StateTypes
<1>5. WriterInv'
  BY <1>2, <1>3 DEF WriterInv

\* The slots marked as not ready are those of the new hole.
<1>6. ASSUME NEW p \in Window(writing_pos')
      PROVE  /\ p < writing_pos => item_ready'[Index(p)] = item_ready[Index(p)]
             /\ p >= writing_pos /\ p < ts => item_ready'[Index(p)] = FALSE
  <2>1. p \in Int /\ Index(p) \in Indices
    BY <1>2, IndexType DEF Window
  <2>2. CASE ~(ts > writing_pos)
    <3>1. item_ready' = item_ready
      BY <2>2 DEF BeginWrite
    <3>2. ~(p >= writing_pos /\ p < ts)
      BY <1>2, <2>1, <2>2
    <3> QED
      BY <3>1, <3>2
  <2>3. CASE ts > writing_pos
    <3>1. RingSpan(writing_pos, ts) = ts - writing_pos
      BY <1>2, <2>3, SpanExact
    <3>2. RingRange(writing_pos, ts) = writing_pos .. ts - 1
      BY <1>2, <3>1 DEF RingRange
    <3>3. item_ready' = [i \in Indices |->
                           IF \E q \in writing_pos .. ts - 1 : Index(q) = i
                           THEN FALSE ELSE item_ready[i]]
      BY <1>2, <2>3, <3>2 DEF BeginWrite
    <3>4. ASSUME p < writing_pos, NEW q \in writing_pos .. ts - 1
          PROVE  Index(q) # Index(p)
      <4>1. q \in Window(writing_pos')
        BY <1>2, <2>1, <3>4 DEF Window
      <4> QED
        BY <1>2, <2>1, <3>4, <4>1, WindowInjective
    <3>5. p < writing_pos => item_ready'[Index(p)] = item_ready[Index(p)]
      BY <2>1, <3>3, <3>4
    <3>6. p >= writing_pos /\ p < ts => p \in writing_pos .. ts - 1
      BY <1>2, <2>1
    <3> QED
      BY <2>1, <3>3, <3>5, <3>6
  <2> QED
    BY <2>2, <2>3
<1>7. ContentInv'
  <2> SUFFICES ASSUME NEW p \in Window(writing_pos')
               PROVE  Settled(p)' \/ Pending(p)'
    BY DEF ContentInv
  <2>1. p \in Int /\ p < writing_pos'
    BY <1>2 DEF Window
  <2>2. CASE p < writing_pos
    <3>1. p \in Window(writing_pos)
      BY <1>2, <2>1, <2>2 DEF Window
    <3>2. Settled(p) \/ Pending(p)
      BY <3>1 DEF IndInv, ContentInv
    <3>3. CASE Settled(p)
      BY <3>3 DEF Settled, BeginWrite
    <3>4. CASE Pending(p)
      <4>1. p >= readable_pos /\ ~item_ready[Index(p)]
        BY <1>3, <3>4 DEF Pending
      <4>2. ~item_ready'[Index(p)]
        BY <1>6, <2>2, <4>1
      <4>3. readable_pos # writing_pos
        BY <1>2, <2>1, <2>2, <4>1
      <4>4. hole'
        BY <4>3, Zenon DEF BeginWrite
      <4> QED
        BY <1>2, <1>3, <4>1, <4>2, <4>4 DEF Pending
    <3> QED
      BY <3>2, <3>3, <3>4
  <2>3. CASE p >= writing_pos /\ p < ts
    <3>1. ~item_ready'[Index(p)]
      BY <1>6, <2>3
    <3>2. ts > writing_pos /\ p >= readable_pos
      BY <1>2, <2>1, <2>3
    <3>3. hole'
      BY <3>2, Zenon DEF BeginWrite
    <3> QED
      BY <1>2, <1>3, <3>1, <3>2, <3>3 DEF Pending
  <2>4. CASE p >= writing_pos /\ p >= ts
    BY <1>2, <1>3, <2>1, <2>4 DEF Pending, Max
  <2> QED
    BY <1>2, <2>1, <2>2, <2>3, <2>4
<1>8. WrittenInv'
  <2> SUFFICES ASSUME NEW p \in written, p \in Window(writing_pos')
               PROVE  /\ buffer'[Index(p)] = p
                      /\ p >= readable_pos' => item_ready'[Index(p)]
    BY <1>3 DEF WrittenInv, BeginWrite
  <2>1. p < writing_pos /\ buffer[Index(p)] = p /\ (p >= readable_pos => item_ready[Index(p)])
    BY <1>2 DEF IndInv, WrittenInv, Window
  <2> QED
    BY <1>2, <1>6, <2>1 DEF BeginWrite
<1>9. ReaderInv'
  BY <1>1, <1>2, ReaderFrame DEF IndInv, BeginWrite
<1> QED
  BY <1>4, <1>5, <1>7, <1>8, <1>9

\* Without a hole, every item before writing_pos is settled once the write is
\* done.
LEMMA PublishAllStep ==
  ASSUME IndInv, StateTypes', PublishAll
  PROVE  (PositionOrder /\ WriterInv /\ ContentInv /\ WrittenInv /\ ReaderInv)'
<1> USE SizeAssumption
<1>1. StateTypes
  BY DEF IndInv, TypeOK
<1>2. /\ writing_pos \in Int /\ readable_pos \in Int /\ cur \in Int /\ end \in Int
      /\ writing_pos' = writing_pos /\ readable_pos' = writing_pos /\ reported_pos' = writing_pos
      /\ readable_pos <= writing_pos
      /\ pc = "store" /\ cur = end /\ pc' = "idle"
  BY <1>1 DEF StateTypes, IndInv, PositionOrder, PublishAll, Return
<1>0. ~hole /\ buffer' = buffer /\ item_ready' = item_ready /\ written' = written
  BY DEF PublishAll, content
<1>3. PositionOrder' /\ WriterInv'
  BY <1>2 DEF PositionOrder, WriterInv
<1>4. ContentInv'
  <2> SUFFICES ASSUME NEW p \in Window(writing_pos) PROVE Settled(p)
    BY <1>0, <1>2 DEF ContentInv, Settled
  <2>1. p \in Int
    BY <1>2 DEF Window
  <2>2. ~Pending(p)
    BY <1>0, <1>2, <2>1 DEF Pending
  <2> QED
    BY <2>2 DEF IndInv, ContentInv
<1>5. WrittenInv'
  BY <1>0, <1>2 DEF IndInv, WrittenInv, Window
<1>6. ReaderInv'
  BY <1>1, <1>2, ReaderFrame DEF IndInv, PublishAll
<1> QED
  BY <1>3, <1>4, <1>5, <1>6

\* Entering close_items_until_internal from write_from_at: the range to close
\* is not longer than the ring, so the zeroing loop visits all of it.
LEMMA CloseOldHolesStep ==
  ASSUME IndInv, StateTypes', CloseOldHoles
  PROVE  (PositionOrder /\ WriterInv /\ ContentInv /\ WrittenInv /\ ReaderInv)'
<1> USE SizeAssumption
<1>1. StateTypes
  BY DEF IndInv, TypeOK
<1>2. /\ writing_pos \in Int /\ readable_pos \in Int /\ cur \in Int /\ end \in Int
      /\ UNCHANGED <<writing_pos, readable_pos, reported_pos>>
      /\ pc = "store" /\ cur = end /\ op = "write" /\ op' = "write"
      /\ writing_pos - readable_pos <= Size + HoleFixWait
      /\ CloseUntil = writing_pos - HoleFixWait /\ CloseUntil \in Int
  BY <1>1 DEF StateTypes, IndInv, WriterInv, CloseOldHoles, CloseUntil, positions
<1>3. UNCHANGED <<buffer, item_ready, written, reading>>
  BY DEF CloseOldHoles, content
<1>4. CloseUntil' = CloseUntil
  BY <1>2 DEF CloseUntil
<1>5. \/ /\ CloseUntil > readable_pos
         /\ pc' = "zero" /\ cur' = readable_pos /\ end' = CloseUntil
      \/ /\ CloseUntil <= readable_pos
         /\ pc' = "check"
  <2>1. CASE CloseUntil > readable_pos
    <3>1. RingSpan(readable_pos, CloseUntil) = CloseUntil - readable_pos
      BY <1>2, <2>1, SpanExact
    <3> QED
      BY <1>2, <2>1, <3>1 DEF CloseOldHoles, EnterClose
  <2>2. CASE ~(CloseUntil > readable_pos)
    BY <1>2, <2>2 DEF CloseOldHoles, EnterClose
  <2> QED
    BY <2>1, <2>2
<1>6. PositionOrder'
  BY <1>2 DEF IndInv, PositionOrder
<1>7. WriterInv'
  BY <1>2, <1>4, <1>5 DEF WriterInv
<1>8. ContentInv'
  <2> SUFFICES ASSUME NEW p \in Window(writing_pos), ~Settled(p)
               PROVE  Pending(p)'
    BY <1>2, <1>3 DEF ContentInv, Settled
  <2>1. p \in Int /\ Pending(p)
    BY <1>2 DEF IndInv, ContentInv, Window
  <2>2. p >= readable_pos /\ ~item_ready[Index(p)]
    BY <1>2, <2>1 DEF Pending
  <2> QED
    BY <1>2, <1>3, <1>5, <2>2 DEF Pending
<1>9. WrittenInv'
  BY <1>2, <1>3, <1>5 DEF IndInv, WrittenInv
<1>10. ReaderInv'
  BY <1>1, <1>2, <1>3, ReaderFrame DEF IndInv
<1> QED
  BY <1>6, <1>7, <1>8, <1>9, <1>10

\* Entering it from close_items_until.
LEMMA BeginCloseStep ==
  ASSUME Contract, IndInv, StateTypes', NEW until \in 0 .. MaxPos, BeginClose(until)
  PROVE  (PositionOrder /\ WriterInv /\ ContentInv /\ WrittenInv /\ ReaderInv)'
<1> USE SizeAssumption, BoundsAssumption
<1> DEFINE c == Min(until, writing_pos)
<1>1. StateTypes
  BY DEF IndInv, TypeOK
<1>2. /\ writing_pos \in Int /\ readable_pos \in Int /\ until \in Int
      /\ UNCHANGED <<writing_pos, readable_pos, reported_pos>>
      /\ pc = "idle" /\ op' = "close" /\ need' = until
      /\ writing_pos - readable_pos <= HoleFixWait
      /\ until <= writing_pos + Size
      /\ c \in Int /\ c <= writing_pos
  BY <1>1 DEF StateTypes, IndInv, WriterInv, BeginClose, Contract, Min, positions
<1>3. UNCHANGED <<buffer, item_ready, written, reading>>
  BY DEF BeginClose, content
<1>4. CloseUntil' = c /\ Min(need', writing_pos') = c
  BY <1>2 DEF CloseUntil, Min
<1>5. \/ /\ c > readable_pos
         /\ pc' = "zero" /\ cur' = readable_pos /\ end' = c
      \/ /\ c <= readable_pos
         /\ pc' = "check"
  <2>1. CASE c > readable_pos
    <3>1. RingSpan(readable_pos, c) = c - readable_pos
      BY <1>2, <2>1, SpanExact
    <3> QED
      BY <1>2, <2>1, <3>1 DEF BeginClose, EnterClose
  <2>2. CASE ~(c > readable_pos)
    BY <1>2, <2>2 DEF BeginClose, EnterClose
  <2> QED
    BY <2>1, <2>2
<1>6. PositionOrder'
  BY <1>2 DEF IndInv, PositionOrder
<1> HIDE DEF c
<1>7. WriterInv'
  BY <1>2, <1>4, <1>5 DEF WriterInv
<1>8. ContentInv'
  <2> SUFFICES ASSUME NEW p \in Window(writing_pos), ~Settled(p)
               PROVE  Pending(p)'
    BY <1>2, <1>3 DEF ContentInv, Settled
  <2>1. p \in Int /\ Pending(p)
    BY <1>2 DEF IndInv, ContentInv, Window
  <2>2. p >= readable_pos /\ ~item_ready[Index(p)]
    BY <1>2, <2>1 DEF Pending
  <2> QED
    BY <1>2, <1>3, <1>5, <2>2 DEF Pending
<1>9. WrittenInv'
  BY <1>2, <1>3, <1>5 DEF IndInv, WrittenInv
<1>10. ReaderInv'
  BY <1>1, <1>2, <1>3, ReaderFrame DEF IndInv
<1> QED
  BY <1>6, <1>7, <1>8, <1>9, <1>10

\* ZeroItem silences only slots that hold no sample of the current lap.
LEMMA ZeroItemStep ==
  ASSUME IndInv, StateTypes', ZeroItem
  PROVE  (PositionOrder /\ WriterInv /\ ContentInv /\ WrittenInv /\ ReaderInv)'
<1> USE SizeAssumption
<1>1. StateTypes
  BY DEF IndInv, TypeOK
<1>2. /\ writing_pos \in Int /\ readable_pos \in Int /\ cur \in Int /\ end \in Int
      /\ UNCHANGED <<writing_pos, readable_pos, reported_pos>>
      /\ UNCHANGED <<item_ready, written, pc, op, end, need>>
      /\ pc = "zero" /\ cur < end /\ cur' = cur + 1
      /\ readable_pos <= cur /\ end <= writing_pos
      /\ Index(cur) \in Indices
  BY <1>1, IndexType DEF StateTypes, IndInv, WriterInv, ZeroItem, positions
<1>3. /\ item_ready[Index(cur)] => buffer' = buffer
      /\ ~item_ready[Index(cur)] => buffer' = [buffer EXCEPT ![Index(cur)] = Silence]
      /\ UNCHANGED reading
  BY DEF ZeroItem
<1>4. PositionOrder'
  BY <1>2 DEF IndInv, PositionOrder
<1>5. WriterInv'
  <2>1. CloseUntil' = CloseUntil
    BY <1>2 DEF CloseUntil
  <2> QED
    BY <1>2, <2>1 DEF IndInv, WriterInv
<1>6. ContentInv'
  <2> SUFFICES ASSUME NEW p \in Window(writing_pos)
               PROVE  Settled(p)' \/ Pending(p)'
    BY <1>2 DEF ContentInv
  <2>1. p \in Int /\ Index(p) \in Indices /\ (Settled(p) \/ Pending(p))
    BY <1>2, IndexType DEF IndInv, ContentInv, Window
  <2>2. CASE Settled(p)
    BY <1>1, <1>3, <2>1, <2>2 DEF Settled, StateTypes
  <2>3. CASE Pending(p) /\ p = cur
    BY <1>1, <1>2, <1>3, <2>3 DEF Settled, Pending, StateTypes
  <2>4. CASE Pending(p) /\ p # cur
    BY <1>2, <2>1, <2>4 DEF Pending
  <2> QED
    BY <2>1, <2>2, <2>3, <2>4
<1>7. WrittenInv'
  <2> SUFFICES ASSUME NEW p \in written
               PROVE  buffer'[Index(p)] = p
    BY <1>2 DEF IndInv, WrittenInv
  <2>1. /\ p \in Window(writing_pos) /\ buffer[Index(p)] = p
        /\ p >= readable_pos => item_ready[Index(p)]
    BY DEF IndInv, WrittenInv
  <2>2. p \in Int /\ Index(p) \in Indices /\ p >= writing_pos - Size
    BY <1>2, <2>1, IndexType DEF Window
  <2>3. CASE Index(p) # Index(cur)
    BY <1>1, <1>2, <1>3, <2>1, <2>2, <2>3 DEF StateTypes
  <2>4. CASE Index(p) = Index(cur)
    <3>1. ~(p < cur)
      BY <1>2, <2>2, <2>4, IndexInjective
    <3>2. item_ready[Index(cur)]
      BY <1>2, <2>1, <2>2, <2>4, <3>1
    <3> QED
      BY <1>3, <2>1, <3>2
  <2> QED
    BY <2>3, <2>4
<1>8. ReaderInv'
  BY <1>1, <1>2, <1>3, ReaderFrame DEF IndInv
<1> QED
  BY <1>4, <1>5, <1>6, <1>7, <1>8

\* EndZero makes the closed items readable.
LEMMA EndZeroStep ==
  ASSUME IndInv, StateTypes', EndZero
  PROVE  (PositionOrder /\ WriterInv /\ ContentInv /\ WrittenInv /\ ReaderInv)'
<1> USE SizeAssumption
<1>1. StateTypes
  BY DEF IndInv, TypeOK
<1>2. /\ writing_pos \in Int /\ readable_pos \in Int /\ reported_pos \in Int
      /\ cur \in Int /\ end \in Int /\ need \in Int
      /\ UNCHANGED <<writing_pos, reported_pos, op, need>>
      /\ UNCHANGED <<buffer, item_ready, written, reading>>
      /\ pc = "zero" /\ pc' = "check" /\ cur = end
      /\ readable_pos' = end /\ readable_pos <= end /\ end <= writing_pos
      /\ end = CloseUntil
  BY <1>1 DEF StateTypes, IndInv, WriterInv, EndZero, content
<1>3. PositionOrder'
  BY <1>2 DEF IndInv, PositionOrder
<1>4. WriterInv'
  BY <1>2 DEF IndInv, WriterInv, CloseUntil
<1>5. ContentInv'
  BY <1>2 DEF IndInv, ContentInv, Settled, Pending
<1>6. WrittenInv'
  <2> SUFFICES ASSUME NEW p \in written, p >= readable_pos'
               PROVE  p >= readable_pos
    BY <1>2 DEF IndInv, WrittenInv
  <2> QED
    BY <1>1, <1>2 DEF StateTypes
<1>7. ReaderInv'
  BY <1>1, <1>2, ReaderFrame DEF IndInv
<1> QED
  BY <1>3, <1>4, <1>5, <1>6, <1>7

\* CheckReady makes readable exactly the items that are ready; when
\* close_items_until goes on past writing_pos there are none left to wait for.
LEMMA CheckReadyStep ==
  ASSUME IndInv, StateTypes', CheckReady
  PROVE  (PositionOrder /\ WriterInv /\ ContentInv /\ WrittenInv /\ ReaderInv)'
<1> USE SizeAssumption
<1>1. StateTypes
  BY DEF IndInv, TypeOK
<1>2. /\ writing_pos \in Int /\ readable_pos \in Int /\ reported_pos \in Int /\ need \in Int
      /\ readable_pos' \in Int /\ writing_pos' \in Int
      /\ UNCHANGED <<buffer, item_ready, reading>>
      /\ pc = "check" /\ op \in {"write", "close"}
      /\ reported_pos <= readable_pos /\ readable_pos <= writing_pos
      /\ writing_pos - readable_pos <= HoleFixWait
      /\ op = "close" => readable_pos >= Min(need, writing_pos)
      /\ op = "close" => need <= writing_pos + Size
  BY <1>1 DEF StateTypes, IndInv, PositionOrder, WriterInv, CheckReady
<1>3. CheckUntil \in Int /\ CheckUntil <= writing_pos
  BY <1>2 DEF CheckUntil, Min
<1>4. \E s \in Int :
        /\ readable_pos' = s /\ s >= readable_pos /\ s <= writing_pos
        /\ \A q \in readable_pos .. s - 1 : item_ready[Index(q)]
  <2>1. PICK stop \in readable_pos .. readable_pos + RingSpan(readable_pos, CheckUntil) :
          /\ IF CheckUntil > readable_pos
             THEN StopsAt(readable_pos, CheckUntil, stop)
             ELSE stop = readable_pos
          /\ readable_pos' = stop
    BY DEF CheckReady
  <2>2. CASE CheckUntil > readable_pos
    <3>1. RingSpan(readable_pos, CheckUntil) = CheckUntil - readable_pos
      BY <1>2, <1>3, <2>2, SpanExact
    <3> QED
      BY <1>2, <1>3, <2>1, <2>2, <3>1 DEF StopsAt
  <2>3. CASE ~(CheckUntil > readable_pos)
    BY <1>2, <2>1, <2>3
  <2> QED
    BY <2>2, <2>3
<1>5. PICK s \in Int :
        /\ readable_pos' = s /\ s >= readable_pos /\ s <= writing_pos
        /\ \A q \in readable_pos .. s - 1 : item_ready[Index(q)]
  BY <1>4
<1>6. ReaderInv'
  <2>1. writing_pos' >= writing_pos
    BY <1>2 DEF CheckReady
  <2> QED
    BY <1>1, <1>2, <1>5, <2>1, ReaderFrame DEF IndInv
<1>7. CASE op = "close" /\ need > writing_pos
  <2>1. /\ writing_pos' = need /\ pc' = "extend" /\ op' = op /\ need' = need
        /\ cur' = writing_pos /\ end' = writing_pos + RingSpan(writing_pos, need)
        /\ reported_pos' = reported_pos
        /\ written' = written \cap Window(need)
    BY <1>2, <1>7 DEF CheckReady
  <2>2. readable_pos = writing_pos /\ readable_pos' = writing_pos
    BY <1>2, <1>5, <1>7 DEF Min
  <2>3. end' = need
    <3>1. RingSpan(writing_pos, need) = need - writing_pos
      BY <1>2, <1>7, SpanExact
    <3> QED
      BY <1>2, <2>1, <3>1
  <2>4. PositionOrder'
    BY <1>2, <1>7, <2>1, <2>2 DEF PositionOrder
  <2>5. WriterInv'
    BY <1>2, <1>7, <2>1, <2>2, <2>3 DEF WriterInv
  <2>6. ContentInv'
    <3> SUFFICES ASSUME NEW p \in Window(need)
                 PROVE  Settled(p)' \/ Pending(p)'
      BY <2>1 DEF ContentInv
    <3>1. p \in Int
      BY <1>2 DEF Window
    <3>2. CASE p >= writing_pos
      BY <2>1, <3>2 DEF Pending
    <3>3. CASE p < writing_pos
      <4>1. p \in Window(writing_pos)
        BY <1>2, <1>7, <3>1, <3>3 DEF Window
      <4>2. ~Pending(p)
        BY <1>2, <2>2, <3>1, <3>3 DEF Pending
      <4> QED
        BY <1>2, <4>1, <4>2 DEF IndInv, ContentInv, Settled
    <3> QED
      BY <1>2, <3>1, <3>2, <3>3
  <2>7. WrittenInv'
    <3> SUFFICES ASSUME NEW p \in written, p \in Window(need)
                 PROVE  buffer[Index(p)] = p /\ ~(p >= writing_pos)
      BY <1>2, <2>1, <2>2 DEF WrittenInv
    <3> QED
      BY <1>2 DEF IndInv, WrittenInv, Window
  <2> QED
    BY <1>6, <2>4, <2>5, <2>6, <2>7
<1>8. CASE ~(op = "close" /\ need > writing_pos)
  <2>1. /\ writing_pos' = writing_pos /\ pc' = "idle"
        /\ reported_pos' = readable_pos' /\ written' = written
    BY <1>2, <1>8 DEF CheckReady, Return
  <2>2. PositionOrder'
    BY <1>2, <1>5, <2>1 DEF PositionOrder
  <2>3. WriterInv'
    <3>1. writing_pos - s <= HoleFixWait
      BY <1>2, <1>5
    <3> QED
      BY <1>5, <2>1, <3>1 DEF WriterInv
  <2>4. ContentInv'
    <3> SUFFICES ASSUME NEW p \in Window(writing_pos), ~Settled(p)
                 PROVE  Pending(p)'
      BY <1>2, <2>1 DEF ContentInv, Settled
    <3>1. p \in Int /\ Pending(p)
      BY <1>2 DEF IndInv, ContentInv, Window
    <3>2. p >= readable_pos /\ ~item_ready[Index(p)]
      BY <1>2, <3>1 DEF Pending
    <3>3. p \notin readable_pos .. s - 1
      BY <1>5, <3>2
    <3>4. p >= s
      BY <1>2, <3>1, <3>2, <3>3
    <3> QED
      BY <1>2, <1>5, <2>1, <3>2, <3>4 DEF Pending
  <2>5. WrittenInv'
    <3> SUFFICES ASSUME NEW p \in written, p >= readable_pos'
                 PROVE  p >= readable_pos
      BY <1>2, <2>1 DEF IndInv, WrittenInv
    <3> QED
      BY <1>1, <1>2, <1>5 DEF StateTypes
  <2> QED
    BY <1>6, <2>2, <2>3, <2>4, <2>5
<1> QED
  BY <1>7, <1>8

\* ExtendItem silences slots past the old writing_pos only.
LEMMA ExtendItemStep ==
  ASSUME IndInv, StateTypes', ExtendItem
  PROVE  (PositionOrder /\ WriterInv /\ ContentInv /\ WrittenInv /\ ReaderInv)'
<1> USE SizeAssumption
<1>1. StateTypes
  BY DEF IndInv, TypeOK
<1>2. /\ writing_pos \in Int /\ readable_pos \in Int /\ cur \in Int /\ end \in Int
      /\ UNCHANGED <<writing_pos, readable_pos, reported_pos>>
      /\ UNCHANGED <<item_ready, written, pc, op, end, need, reading>>
      /\ pc = "extend" /\ cur < end /\ cur' = cur + 1
      /\ readable_pos <= cur /\ end = writing_pos
      /\ Index(cur) \in Indices
      /\ buffer' = [buffer EXCEPT ![Index(cur)] = Silence]
  BY <1>1, IndexType DEF StateTypes, IndInv, WriterInv, ExtendItem, positions
<1>3. PositionOrder'
  BY <1>2 DEF IndInv, PositionOrder
<1>4. WriterInv'
  BY <1>2 DEF IndInv, WriterInv
<1>5. ContentInv'
  <2> SUFFICES ASSUME NEW p \in Window(writing_pos)
               PROVE  Settled(p)' \/ Pending(p)'
    BY <1>2 DEF ContentInv
  <2>1. p \in Int /\ Index(p) \in Indices /\ (Settled(p) \/ Pending(p))
    BY <1>2, IndexType DEF IndInv, ContentInv, Window
  <2>2. CASE Settled(p) \/ p = cur
    BY <1>1, <1>2, <2>1, <2>2 DEF Settled, StateTypes
  <2>3. CASE Pending(p) /\ p # cur
    BY <1>2, <2>1, <2>3 DEF Pending
  <2> QED
    BY <2>1, <2>2, <2>3
<1>6. WrittenInv'
  <2> SUFFICES ASSUME NEW p \in written
               PROVE  buffer'[Index(p)] = p
    BY <1>2 DEF IndInv, WrittenInv
  <2>1. /\ p \in Window(writing_pos) /\ buffer[Index(p)] = p /\ ~(p >= readable_pos)
    BY <1>2 DEF IndInv, WrittenInv
  <2>2. p \in Int /\ Index(p) \in Indices /\ p >= writing_pos - Size /\ p < cur
    BY <1>2, <2>1, IndexType DEF Window
  <2>3. Index(p) # Index(cur)
    BY <1>2, <2>2, IndexInjective
  <2> QED
    BY <1>1, <1>2, <2>1, <2>2, <2>3 DEF StateTypes
<1>7. ReaderInv'
  BY <1>1, <1>2, ReaderFrame DEF IndInv
<1> QED
  BY <1>3, <1>4, <1>5, <1>6, <1>7

\* EndExtend makes the items it has silenced readable.
LEMMA EndExtendStep ==
  ASSUME IndInv, StateTypes', EndExtend
  PROVE  (PositionOrder /\ WriterInv /\ ContentInv /\ WrittenInv /\ ReaderInv)'
<1> USE SizeAssumption
<1>1. StateTypes
  BY DEF IndInv, TypeOK
<1>2. /\ writing_pos \in Int /\ readable_pos \in Int /\ cur \in Int
      /\ UNCHANGED <<writing_pos, buffer, item_ready, written, reading>>
      /\ pc = "extend" /\ pc' = "idle" /\ cur = writing_pos
      /\ readable_pos' = writing_pos /\ reported_pos' = writing_pos
      /\ readable_pos <= writing_pos
  BY <1>1 DEF StateTypes, IndInv, PositionOrder, WriterInv, EndExtend, Return, content
<1>3. PositionOrder' /\ WriterInv'
  BY <1>2 DEF PositionOrder, WriterInv
<1>4. ContentInv'
  <2> SUFFICES ASSUME NEW p \in Window(writing_pos) PROVE Settled(p)
    BY <1>2 DEF ContentInv, Settled
  <2>1. ~Pending(p)
    BY <1>2 DEF Pending, Window
  <2> QED
    BY <2>1 DEF IndInv, ContentInv
<1>5. WrittenInv'
  BY <1>2 DEF IndInv, WrittenInv, Window
<1>6. ReaderInv'
  BY <1>1, <1>2, ReaderFrame DEF IndInv
<1> QED
  BY <1>3, <1>4, <1>5, <1>6

\* reset is harmless on a silent ring.
LEMMA BeginResetStep ==
  ASSUME IndInv, StateTypes', NEW ts \in 0 .. MaxPos, BeginReset(ts)
  PROVE  (PositionOrder /\ WriterInv /\ ContentInv /\ WrittenInv /\ ReaderInv)'
<1> USE SizeAssumption, BoundsAssumption
<1>1. StateTypes
  BY DEF IndInv, TypeOK
<1>2. /\ writing_pos \in Int /\ readable_pos \in Int /\ reported_pos \in Int /\ ts \in Int
      /\ UNCHANGED <<readable_pos, reported_pos, buffer, reading>>
      /\ pc' = "reset" /\ need' = ts /\ writing_pos' = ts /\ ts >= writing_pos
      /\ \A i \in Indices : buffer[i] = Silence
  BY <1>1 DEF StateTypes, BeginReset
<1>3. PositionOrder' /\ WriterInv'
  BY <1>2 DEF IndInv, PositionOrder, WriterInv
<1>4. ContentInv'
  BY <1>2, IndexType DEF ContentInv, Settled, Window
<1>5. written = {}
  <2> SUFFICES ASSUME NEW p \in written PROVE FALSE
    OBVIOUS
  <2>1. p \in Int /\ buffer[Index(p)] = p /\ Index(p) \in Indices
    BY <1>1, IndexType DEF IndInv, WrittenInv, StateTypes
  <2> QED
    BY <1>2, <2>1, SilenceAssumption
<1>6. WrittenInv'
  BY <1>5 DEF WrittenInv, BeginReset
<1>7. ReaderInv'
  BY <1>1, <1>2, ReaderFrame DEF IndInv
<1> QED
  BY <1>3, <1>4, <1>6, <1>7

\* The end of reset publishes the new position on a ring without samples.
LEMMA EndResetStep ==
  ASSUME IndInv, StateTypes', EndReset
  PROVE  (PositionOrder /\ WriterInv /\ ContentInv /\ WrittenInv /\ ReaderInv)'
<1> USE SizeAssumption
<1>1. StateTypes
  BY DEF IndInv, TypeOK
<1>2. /\ writing_pos \in Int /\ readable_pos \in Int /\ reported_pos \in Int
      /\ UNCHANGED <<writing_pos, reported_pos, buffer, item_ready, written, reading>>
      /\ pc' = "idle" /\ readable_pos' = writing_pos
      /\ reported_pos <= readable_pos /\ readable_pos <= writing_pos
      /\ \A i \in Indices : buffer[i] = Silence
  BY <1>1 DEF StateTypes, IndInv, PositionOrder, WriterInv, EndReset, Return, content
<1>3. PositionOrder' /\ WriterInv'
  BY <1>2 DEF PositionOrder, WriterInv
<1>4. ContentInv'
  BY <1>2, IndexType DEF ContentInv, Settled, Window
<1>5. WrittenInv'
  BY <1>2 DEF IndInv, WrittenInv, Window
<1>6. ReaderInv'
  BY <1>1, <1>2, ReaderFrame DEF IndInv
<1> QED
  BY <1>3, <1>4, <1>5, <1>6

\* A step of a reader leaves the writer's part of the invariant alone.
LEMMA WriterFrame ==
  ASSUME IndInv, UNCHANGED <<positions, content, control>>
  PROVE  (PositionOrder /\ WriterInv /\ ContentInv /\ WrittenInv)'
<1>1. /\ UNCHANGED <<writing_pos, readable_pos, reported_pos>>
      /\ UNCHANGED <<buffer, item_ready, written>>
      /\ UNCHANGED <<pc, op, cur, end, hole, need>>
  BY DEF positions, content, control
<1>2. PositionOrder'
  BY <1>1 DEF IndInv, PositionOrder
<1>3. WriterInv'
  BY <1>1 DEF IndInv, WriterInv, CloseUntil
<1>4. ContentInv'
  BY <1>1 DEF IndInv, ContentInv, Settled, Pending
<1>5. WrittenInv'
  BY <1>1 DEF IndInv, WrittenInv
<1> QED
  BY <1>2, <1>3, <1>4, <1>5

\* A read starts with no item copied and below the readable_pos it has loaded.
LEMMA BeginReadStep ==
  ASSUME IndInv, StateTypes', NEW r \in Readers, NEW ts \in 0 .. MaxPos,
         NEW n \in 1 .. Size, BeginRead(r, ts, n)
  PROVE  ReaderInv'
<1> USE SizeAssumption, BoundsAssumption
<1>1. StateTypes
  BY DEF IndInv, TypeOK
<1>2. /\ out'[r] = << >> /\ start'[r] = ts /\ len'[r] \in Nat
      /\ readable_pos' = readable_pos /\ readable_pos \in Int
  BY <1>1 DEF StateTypes, BeginRead, positions
<1>3. rpc'[r] = "copy" => ts + len'[r] <= readable_pos
  BY <1>1 DEF StateTypes, BeginRead, Min
<1>4. ASSUME NEW s \in Readers, s # r
      PROVE  /\ rpc'[s] = rpc[s] /\ start'[s] = start[s] /\ len'[s] = len[s]
             /\ out'[s] = out[s] /\ useful'[s] = useful[s]
  BY <1>1, <1>4 DEF StateTypes, BeginRead
<1>5. UNCHANGED <<writing_pos, readable_pos>>
  BY DEF BeginRead, positions
<1>6. Len(out'[r]) = 0
  BY <1>2
<1> SUFFICES ASSUME NEW s \in Readers
             PROVE  /\ Len(out'[s]) <= len'[s]
                    /\ rpc'[s] = "copy" =>
                         /\ start'[s] + len'[s] <= readable_pos'
                         /\ \A j \in 1 .. Len(out'[s]) :
                              \/ out'[s][j] \in {start'[s] + j - 1, Silence}
                              \/ writing_pos' > start'[s] + j - 1 + Size
                    /\ rpc'[s] = "idle" =>
                         \A j \in useful'[s] + 1 .. Len(out'[s]) :
                           out'[s][j] \in {start'[s] + j - 1, Silence}
  BY DEF ReaderInv
<1>7. CASE s = r
  <2>1. useful'[r] = 0
    BY <1>1 DEF StateTypes, BeginRead
  <2> QED
    BY <1>2, <1>3, <1>6, <1>7, <2>1
<1>8. CASE s # r
  BY <1>4, <1>5, <1>8 DEF IndInv, ReaderInv
<1> QED
  BY <1>7, <1>8

\* The item a reader copies is settled, or the ring has moved on by more than
\* its size, which Validate will see because writing_pos never moves back.
LEMMA CopyItemStep ==
  ASSUME IndInv, StateTypes', NEW r \in Readers, CopyItem(r)
  PROVE  ReaderInv'
<1> USE SizeAssumption
<1>1. StateTypes
  BY DEF IndInv, TypeOK
<1> DEFINE k == Len(out[r])
<1> DEFINE p == start[r] + k
<1>2. /\ writing_pos \in Int /\ readable_pos \in Int /\ cur \in Int
      /\ start[r] \in Nat /\ len[r] \in Nat /\ k \in Nat /\ p \in Int
      /\ k < len[r] /\ rpc[r] = "copy" /\ start[r] + len[r] <= readable_pos
      /\ readable_pos <= writing_pos
      /\ UNCHANGED <<writing_pos, readable_pos, rpc, start, len, useful>>
  BY <1>1 DEF StateTypes, IndInv, PositionOrder, ReaderInv, CopyItem, positions
<1>3. /\ Len(out'[r]) = k + 1
      /\ out'[r][k + 1] = buffer[Index(p)]
      /\ \A j \in 1 .. k : out'[r][j] = out[r][j]
  <2>1. out[r] \in Seq(Samples) /\ out'[r] = Append(out[r], buffer[Index(p)])
    BY <1>1 DEF StateTypes, CopyItem
  <2> QED
    BY <2>1
<1>4. \/ buffer[Index(p)] \in {p, Silence}
      \/ writing_pos > p + Size
  <2>1. CASE p \in Window(writing_pos)
    <3>1. ~Pending(p)
      BY <1>2 DEF Pending, IndInv, WriterInv
    <3> QED
      BY <2>1, <3>1 DEF IndInv, ContentInv, Settled
  <2>2. CASE p \notin Window(writing_pos)
    BY <1>2, <2>2 DEF Window
  <2> QED
    BY <2>1, <2>2
<1>5. ASSUME NEW s \in Readers, s # r
      PROVE  out'[s] = out[s]
  BY <1>1, <1>5 DEF StateTypes, CopyItem
<1>6. ASSUME NEW j \in 1 .. k + 1
      PROVE  \/ out'[r][j] \in {start[r] + j - 1, Silence}
             \/ writing_pos > start[r] + j - 1 + Size
  <2>1. CASE j = k + 1
    BY <1>2, <1>3, <1>4, <2>1
  <2>2. CASE j \in 1 .. k
    BY <1>2, <1>3, <2>2 DEF IndInv, ReaderInv
  <2> QED
    BY <1>2, <2>1, <2>2
<1> HIDE DEF k, p
<1> SUFFICES ASSUME NEW s \in Readers
             PROVE  /\ Len(out'[s]) <= len'[s]
                    /\ rpc'[s] = "copy" =>
                         /\ start'[s] + len'[s] <= readable_pos'
                         /\ \A j \in 1 .. Len(out'[s]) :
                              \/ out'[s][j] \in {start'[s] + j - 1, Silence}
                              \/ writing_pos' > start'[s] + j - 1 + Size
                    /\ rpc'[s] = "idle" =>
                         \A j \in useful'[s] + 1 .. Len(out'[s]) :
                           out'[s][j] \in {start'[s] + j - 1, Silence}
  BY DEF ReaderInv
<1>7. CASE s = r
  BY <1>2, <1>3, <1>6, <1>7
<1>8. CASE s # r
  BY <1>2, <1>5, <1>8 DEF IndInv, ReaderInv
<1> QED
  BY <1>7, <1>8

\* Validate gives up every item that may have been overwritten while copying.
LEMMA ValidateStep ==
  ASSUME IndInv, StateTypes', NEW r \in Readers, Validate(r)
  PROVE  ReaderInv'
<1> USE SizeAssumption
<1>1. StateTypes
  BY DEF IndInv, TypeOK
<1>2. /\ writing_pos \in Int /\ start[r] \in Nat /\ len[r] \in Nat
      /\ rpc[r] = "copy" /\ rpc'[r] = "idle" /\ Len(out[r]) = len[r]
      /\ useful'[r] = IF writing_pos - start[r] > Size
                      THEN Min(writing_pos - start[r] - Size, len[r]) ELSE 0
      /\ UNCHANGED <<writing_pos, readable_pos, start, len, out>>
  BY <1>1 DEF StateTypes, Validate, positions
<1>3. ASSUME NEW s \in Readers, s # r
      PROVE  rpc'[s] = rpc[s] /\ useful'[s] = useful[s]
  BY <1>1, <1>3 DEF StateTypes, Validate
<1>4. ASSUME NEW j \in useful'[r] + 1 .. Len(out[r])
      PROVE  out[r][j] \in {start[r] + j - 1, Silence}
  <2>1. useful'[r] \in Nat
    BY <1>2 DEF Min
  <2>2. j \in 1 .. Len(out[r])
    BY <1>2, <2>1
  <2>3. ~(writing_pos > start[r] + j - 1 + Size)
    BY <1>2, <2>1 DEF Min
  <2> QED
    BY <1>2, <2>2, <2>3 DEF IndInv, ReaderInv
<1> QED
  BY <1>2, <1>3, <1>4 DEF IndInv, ReaderInv

\* IndInv is preserved by every step of the writer and of the readers.
LEMMA IndInvStep ==
  ASSUME Contract PROVE IndInv /\ [Next]_vars => IndInv'
<1> SUFFICES ASSUME IndInv, [Next]_vars PROVE IndInv'
  OBVIOUS
<1>1. TypeOK' /\ StateTypes'
  BY TypeStep DEF IndInv, TypeOK
<1> SUFFICES (PositionOrder /\ WriterInv /\ ContentInv /\ WrittenInv /\ ReaderInv)'
  BY <1>1 DEF IndInv
<1>2. CASE \E ts \in 0 .. MaxPos, n \in 0 .. Size - 1 : BeginWrite(ts, n)
  BY <1>1, <1>2, BeginWriteStep
<1>3. CASE StoreItem
  BY <1>1, <1>3, StoreItemStep
<1>4. CASE PublishAll
  BY <1>1, <1>4, PublishAllStep
<1>5. CASE CloseOldHoles
  BY <1>1, <1>5, CloseOldHolesStep
<1>6. CASE ZeroItem
  BY <1>1, <1>6, ZeroItemStep
<1>7. CASE EndZero
  BY <1>1, <1>7, EndZeroStep
<1>8. CASE CheckReady
  BY <1>1, <1>8, CheckReadyStep
<1>9. CASE \E until \in 0 .. MaxPos : BeginClose(until)
  BY <1>1, <1>9, BeginCloseStep
<1>10. CASE ExtendItem
  BY <1>1, <1>10, ExtendItemStep
<1>11. CASE EndExtend
  BY <1>1, <1>11, EndExtendStep
<1>12. CASE \E ts \in 0 .. MaxPos : BeginReset(ts)
  BY <1>1, <1>12, BeginResetStep
<1>13. CASE EndReset
  BY <1>1, <1>13, EndResetStep
<1>14. ASSUME NEW r \in Readers, Reader(r)
       PROVE  (PositionOrder /\ WriterInv /\ ContentInv /\ WrittenInv /\ ReaderInv)'
  <2>1. UNCHANGED <<positions, content, control>>
    BY <1>14 DEF Reader, BeginRead, CopyItem, Validate
  <2>2. ReaderInv'
    BY <1>1, <1>14, BeginReadStep, CopyItemStep, ValidateStep DEF Reader
  <2> QED
    BY <2>1, <2>2, WriterFrame
<1>15. CASE UNCHANGED vars
  <2>1. UNCHANGED <<positions, content, control>> /\ UNCHANGED reading
    BY <1>15 DEF vars
  <2>2. ReaderInv'
    BY <2>1 DEF IndInv, ReaderInv, positions, reading
  <2> QED
    BY <2>1, <2>2, WriterFrame
<1> QED
  BY <1>2, <1>3, <1>4, <1>5, <1>6, <1>7, <1>8, <1>9, <1>10, <1>11, <1>12, <1>13,
     <1>14, <1>15 DEF Next, Writer

\* The initial state, a ring full of silence, satisfies the invariant.
LEMMA IndInvInit == Init => IndInv
<1> SUFFICES ASSUME Init PROVE IndInv
  OBVIOUS
<1> USE SizeAssumption, BoundsAssumption
<1>1. TypeOK
  BY DEF Init, TypeOK, StateTypes, Indices, Samples
<1>2. PositionOrder /\ WriterInv
  BY DEF Init, PositionOrder, WriterInv
<1>3. ContentInv
  BY IndexType DEF Init, ContentInv, Settled, Window
<1>4. WrittenInv /\ ReaderInv
  BY DEF Init, WrittenInv, ReaderInv
<1> QED
  BY <1>1, <1>2, <1>3, <1>4 DEF IndInv

\* While its callers keep the contract, IndInv is an invariant of the ring buffer.
THEOREM RingInvariant == ASSUME Contract PROVE Spec => []IndInv
  BY IndInvInit, IndInvStep, PTL DEF Spec

\* For every ring size and any number of readers: what read_at returns as useful
\* is the sample of the timestamp asked for, or silence.
THEOREM ReadersGetTheirOwn == ASSUME Contract PROVE Spec => []UsefulIsOwn
<1>1. IndInv => UsefulIsOwn
  BY DEF IndInv, ReaderInv, UsefulIsOwn
<1> QED
  BY <1>1, RingInvariant, PTL

\* A received sample stays in its slot for a whole lap of the ring.
THEOREM SamplesStay == ASSUME Contract PROVE Spec => []NoLostSample
<1>1. IndInv => NoLostSample
  BY DEF IndInv, WrittenInv, NoLostSample
<1> QED
  BY <1>1, RingInvariant, PTL

\* A hole delays the readers by at most hole_fix_wait.
THEOREM HolesAreBounded == ASSUME Contract PROVE Spec => []HoleBound
<1>1. IndInv => HoleBound
  BY DEF IndInv, WriterInv, HoleBound
<1> QED
  BY <1>1, RingInvariant, PTL

\* Neither position ever moves back.
THEOREM PositionsAdvance == ASSUME Contract PROVE Spec => NeverBackInTime
<1>1. IndInv /\ [Next]_vars =>
        [writing_pos' >= writing_pos /\ readable_pos' >= readable_pos]_vars
  <2> SUFFICES ASSUME IndInv, Next
               PROVE  writing_pos' >= writing_pos /\ readable_pos' >= readable_pos
    OBVIOUS
  <2>1. /\ writing_pos \in Int /\ readable_pos \in Int /\ need \in Int
        /\ readable_pos <= writing_pos
    BY DEF IndInv, TypeOK, StateTypes, PositionOrder
  <2>2. ASSUME NEW ts \in 0 .. MaxPos, NEW n \in 0 .. Size - 1, BeginWrite(ts, n)
        PROVE  writing_pos' >= writing_pos /\ readable_pos' >= readable_pos
    BY <2>1, <2>2, SizeAssumption, BoundsAssumption DEF BeginWrite, Max
  <2>3. CASE PublishAll
    BY <2>1, <2>3 DEF PublishAll
  <2>4. CASE EndZero
    BY <2>1, <2>4 DEF IndInv, TypeOK, StateTypes, WriterInv, EndZero
  <2>5. CASE CheckReady
    <3>1. readable_pos' >= readable_pos
      <4>1. CheckUntil \in Int
        BY <2>1 DEF CheckUntil, Min
      <4>2. RingSpan(readable_pos, CheckUntil) \in Int
        BY <2>1, <4>1, SpanType, SizeAssumption
      <4> QED
        BY <2>1, <2>5, <4>2 DEF CheckReady
    <3>2. writing_pos' >= writing_pos
      BY <2>1, <2>5 DEF CheckReady
    <3> QED
      BY <3>1, <3>2
  <2>6. CASE EndExtend
    BY <2>1, <2>6 DEF EndExtend, IndInv, WriterInv
  <2>7. ASSUME NEW ts \in 0 .. MaxPos, BeginReset(ts)
        PROVE  writing_pos' >= writing_pos /\ readable_pos' >= readable_pos
    BY <2>1, <2>7 DEF BeginReset
  <2>8. CASE EndReset
    BY <2>1, <2>8 DEF EndReset, IndInv, WriterInv
  <2>9. CASE UNCHANGED <<writing_pos, readable_pos>>
    BY <2>1, <2>9
  <2> QED
    BY <2>2, <2>3, <2>4, <2>5, <2>6, <2>7, <2>8, <2>9
       DEF Next, Writer, Reader, StoreItem, CloseOldHoles, ZeroItem, BeginClose,
           ExtendItem, BeginRead, CopyItem, Validate, positions
<1> QED
  BY <1>1, RingInvariant, PTL DEF Spec, NeverBackInTime
=============================================================================
