------------------------------ MODULE RingBuffer ------------------------------
(***************************************************************************)
(* The sample ring buffer of inferno_aoip/src/ring_buffer.rs.              *)
(*                                                                         *)
(* One RBInput (the writer) stores samples at absolute timestamps, in any  *)
(* order, while RBOutputs (the readers) copy samples out.  No lock is held *)
(* by either side: a reader loads readable_pos, copies item by item, and   *)
(* then loads writing_pos to find out which of the copied items may have   *)
(* been overwritten meanwhile.  Every load and store of shared memory is a *)
(* step of its own here, in program order (x86 order: see the README).     *)
(*                                                                         *)
(* A sample is abstracted to the timestamp it was written for, so that a   *)
(* reader's result tells whose sample it is; Silence is T::default().      *)
(* Positions are unbounded integers: the code's usize wraps after 2^64     *)
(* samples, and wrapped_diff compares positions that are close together.   *)
(***************************************************************************)
EXTENDS Integers, Sequences

CONSTANTS
  Size,          \* items_size: the number of items of the ring
  HoleFixWait,   \* hole_fix_wait: how long a hole may wait for late samples
  Readers,       \* the RBOutputs sharing the ring
  Silence,       \* T::default()
  StartTime,     \* start_time given to RingBufferShared::new
  MaxPos,        \* bound: no position beyond this one is used
  MaxLate,       \* contract: a write starts at most this far behind writing_pos
  MaxAhead,      \* contract: a write ends at most this far past writing_pos
  MaxSkip        \* contract: a close goes at most this far past writing_pos

ASSUME SizeAssumption ==
  /\ Size \in Nat \ {0}
  /\ HoleFixWait \in 0 .. Size

\* RingBufferShared::new: assert!(items_size.is_power_of_two())
ASSUME PowerOfTwo == \E e \in 0 .. Size : Size = 2 ^ e

ASSUME BoundsAssumption ==
  /\ StartTime \in Nat
  /\ MaxPos \in Nat
  /\ MaxLate \in Nat
  /\ MaxAhead \in Nat
  /\ MaxSkip \in Nat

ASSUME SilenceAssumption == Silence \notin Int

VARIABLES
  writing_pos,   \* no item at or after this position has been touched
  readable_pos,  \* readers may read the items before this position
  reported_pos,  \* readable_pos as last stored to readable_pos_dest
  buffer,        \* the items, by index
  item_ready,    \* RBInput::item_ready, private to the writer
  pc,            \* where the writer is in its current call
  op,            \* which call that is: "write", "close", "reset" or "none"
  cur, end,      \* the positions its innermost loop has still to visit
  hole,          \* write_from_at's local `hole'
  need,          \* close_items_until's need_until_pos, or reset's start_time
  written,       \* history: positions written and not yet overwritten
  rpc,           \* where each reader is in read_at
  start,         \* read_at's start_timestamp
  len,           \* read_at's output_len
  out,           \* the items copied so far
  useful         \* ReadResult::useful_start_index

positions == <<writing_pos, readable_pos, reported_pos>>
content   == <<buffer, item_ready, written>>
control   == <<pc, op, cur, end, hole, need>>
reading   == <<rpc, start, len, out, useful>>
vars      == <<positions, content, control, reading>>

-----------------------------------------------------------------------------

Min(a, b) == IF a <= b THEN a ELSE b
Max(a, b) == IF a >= b THEN a ELSE b

Indices == 0 .. Size - 1
Samples == Int \cup {Silence}

\* item_to_buffer_index, and the masks of for_in_ring.
Index(p) == p % Size

\* How many items for_in_ring(from, to) visits, counting from `from': a range
\* longer than the ring is cut to its length modulo the ring.
RingSpan(from, to) ==
  IF from = to THEN 0
  ELSE LET d == (to - from) % Size IN IF d = 0 THEN Size ELSE d

\* The positions for_in_ring(from, to) stands for.
RingRange(from, to) == from .. from + RingSpan(from, to) - 1

\* The positions whose item the ring still holds when writing_pos is w.
Window(w) == w - Size .. w - 1

Init ==
  /\ writing_pos = StartTime
  /\ readable_pos = StartTime
  /\ reported_pos = StartTime
  /\ buffer = [i \in Indices |-> Silence]
  /\ item_ready = [i \in Indices |-> FALSE]
  /\ pc = "idle" /\ op = "none"
  /\ cur = 0 /\ end = 0 /\ hole = FALSE /\ need = 0
  /\ written = {}
  /\ rpc = [r \in Readers |-> "idle"]
  /\ start = [r \in Readers |-> 0]
  /\ len = [r \in Readers |-> 0]
  /\ out = [r \in Readers |-> << >>]
  /\ useful = [r \in Readers |-> 0]

\* The writer's call returns, and its locals with it.
Return ==
  /\ pc' = "idle" /\ op' = "none"
  /\ cur' = 0 /\ end' = 0 /\ hole' = FALSE /\ need' = 0

-----------------------------------------------------------------------------
(***************************************************************************)
(* RBInput::write_from_at                                                  *)
(***************************************************************************)

\* Up to the store of writing_pos, which announces the items to be written.
\* item_ready is private to the writer, so the marking of the new hole is
\* part of this step.
BeginWrite(ts, n) ==
  LET end_ts == ts + n IN
  /\ pc = "idle"
  /\ ts >= writing_pos - MaxLate
  /\ end_ts <= Min(writing_pos + MaxAhead, MaxPos)
  /\ item_ready' =
       IF ts > writing_pos
       THEN [i \in Indices |->
               IF \E p \in RingRange(writing_pos, ts) : Index(p) = i
               THEN FALSE ELSE item_ready[i]]
       ELSE item_ready
  /\ hole' = (ts > writing_pos \/ readable_pos # writing_pos)
  /\ writing_pos' = Max(end_ts, writing_pos)
  /\ written' = written \cap Window(writing_pos')
  /\ pc' = "store" /\ op' = "write"
  /\ cur' = ts /\ end' = end_ts
  /\ UNCHANGED <<readable_pos, reported_pos, buffer, need, reading>>

\* One iteration of the storing loop.
StoreItem ==
  /\ pc = "store" /\ cur < end
  /\ buffer' = [buffer EXCEPT ![Index(cur)] = cur]
  /\ item_ready' = [item_ready EXCEPT ![Index(cur)] = TRUE]
  /\ written' = written \cup {cur}
  /\ cur' = cur + 1
  /\ UNCHANGED <<positions, pc, op, end, hole, need, reading>>

\* No hole: everything up to writing_pos becomes readable at once.
PublishAll ==
  /\ pc = "store" /\ cur = end /\ ~hole
  /\ readable_pos' = writing_pos
  /\ reported_pos' = readable_pos'
  /\ Return
  /\ UNCHANGED <<writing_pos, content, reading>>

-----------------------------------------------------------------------------
(***************************************************************************)
(* RBInput::close_items_until_internal                                     *)
(***************************************************************************)

\* Entering close_items_until_internal: the zeroing loop is skipped when
\* there is nothing to close.
EnterClose(close_until) ==
  IF close_until > readable_pos
  THEN /\ pc' = "zero"
       /\ cur' = readable_pos
       /\ end' = readable_pos + RingSpan(readable_pos, close_until)
  ELSE /\ pc' = "check"
       /\ UNCHANGED <<cur, end>>

\* Deliberate error: one item too few is closed.
CloseUntilShort ==
  IF op = "write" THEN writing_pos - HoleFixWait - 1 ELSE Min(need, writing_pos)

\* The arguments close_items_until_internal was called with.
CloseUntil ==
  IF op = "write" THEN writing_pos - HoleFixWait ELSE Min(need, writing_pos)
CheckUntil ==
  IF op = "write" THEN writing_pos ELSE Min(need, writing_pos)

\* write_from_at with a hole: items older than hole_fix_wait are given up.
CloseOldHoles ==
  /\ pc = "store" /\ cur = end /\ hole
  /\ EnterClose(CloseUntil)
  /\ UNCHANGED <<positions, content, op, hole, need, reading>>

\* Deliberate error: received items are silenced along with the missing ones.
ZeroItemAlways ==
  /\ pc = "zero" /\ cur < end
  /\ buffer' = [buffer EXCEPT ![Index(cur)] = Silence]
  /\ cur' = cur + 1
  /\ UNCHANGED <<positions, item_ready, written, pc, op, end, hole, need, reading>>

\* One iteration of the zeroing loop: only items not ready are overwritten.
ZeroItem ==
  /\ pc = "zero" /\ cur < end
  /\ buffer' = IF item_ready[Index(cur)]
               THEN buffer
               ELSE [buffer EXCEPT ![Index(cur)] = Silence]
  /\ cur' = cur + 1
  /\ UNCHANGED <<positions, item_ready, written, pc, op, end, hole, need, reading>>

EndZero ==
  /\ pc = "zero" /\ cur = end
  /\ readable_pos' = CloseUntil
  /\ pc' = "check"
  /\ UNCHANGED <<writing_pos, reported_pos, content, op, cur, end, hole, need, reading>>

\* Where the check for fixed holes over from..to stops: at the first item that
\* is not ready.
StopsAt(from, to, p) ==
  /\ \A q \in from .. p - 1 : item_ready[Index(q)]
  /\ p = from + RingSpan(from, to) \/ ~item_ready[Index(p)]

\* The check for fixed holes, and what follows it in either caller:
\* write_from_at commits; close_items_until commits, or goes on to close the
\* items that were never touched.
CheckReady ==
  /\ pc = "check"
  /\ \E p \in readable_pos .. readable_pos + RingSpan(readable_pos, CheckUntil) :
       /\ IF CheckUntil > readable_pos
          THEN StopsAt(readable_pos, CheckUntil, p)
          ELSE p = readable_pos
       /\ readable_pos' = p
  /\ \/ /\ op = "close" /\ need > writing_pos
        /\ writing_pos' = need
        /\ written' = written \cap Window(need)
        /\ pc' = "extend"
        /\ cur' = writing_pos
        /\ end' = writing_pos + RingSpan(writing_pos, need)
        /\ UNCHANGED <<reported_pos, op, hole, need>>
     \/ /\ op = "write" \/ need <= writing_pos
        /\ reported_pos' = readable_pos'
        /\ Return
        /\ UNCHANGED <<writing_pos, written>>
  /\ UNCHANGED <<buffer, item_ready, reading>>

-----------------------------------------------------------------------------
(***************************************************************************)
(* RBInput::close_items_until and RingBufferShared::reset                  *)
(***************************************************************************)

BeginClose(until) ==
  /\ pc = "idle"
  /\ until <= Min(writing_pos + MaxSkip, MaxPos)
  /\ op' = "close" /\ need' = until
  /\ EnterClose(Min(until, writing_pos))
  /\ UNCHANGED <<positions, content, hole, reading>>

\* One iteration of the loop that stores defaults in untouched items.
ExtendItem ==
  /\ pc = "extend" /\ cur < end
  /\ buffer' = [buffer EXCEPT ![Index(cur)] = Silence]
  /\ cur' = cur + 1
  /\ UNCHANGED <<positions, item_ready, written, pc, op, end, hole, need, reading>>

EndExtend ==
  /\ pc = "extend" /\ cur = end
  /\ readable_pos' = need
  /\ reported_pos' = need
  /\ Return
  /\ UNCHANGED <<writing_pos, content, reading>>

\* reset moves both positions without touching the items.  Its one caller, the
\* ConnectChannel handler of flows_rx.rs, uses it on a ring that is new or that
\* a SilenceWriter has filled with silence, and never to go back in time.
BeginReset(ts) ==
  /\ pc = "idle"
  /\ \A i \in Indices : buffer[i] = Silence
  /\ ts >= writing_pos
  /\ writing_pos' = ts
  /\ written' = written \cap Window(ts)
  /\ pc' = "reset" /\ op' = "reset" /\ need' = ts
  /\ UNCHANGED <<readable_pos, reported_pos, buffer, item_ready, cur, end, hole, reading>>

EndReset ==
  /\ pc = "reset"
  /\ readable_pos' = need
  /\ Return
  /\ UNCHANGED <<writing_pos, reported_pos, content, reading>>

-----------------------------------------------------------------------------
(***************************************************************************)
(* RBOutput::read_at on an OwnedBuffer                                     *)
(***************************************************************************)

\* The load of readable_pos, and the early return for positions that are not
\* readable yet or that are more than a ring behind.
BeginRead(r, ts, n) ==
  LET readable == readable_pos - ts IN
  /\ rpc[r] = "idle"
  /\ start' = [start EXCEPT ![r] = ts]
  /\ out' = [out EXCEPT ![r] = << >>]
  /\ useful' = [useful EXCEPT ![r] = 0]
  /\ \/ /\ readable < 0 \/ readable > Size
        /\ len' = [len EXCEPT ![r] = 0]
        /\ UNCHANGED rpc
     \/ /\ readable \in 0 .. Size
        /\ len' = [len EXCEPT ![r] = Min(n, readable)]
        /\ rpc' = [rpc EXCEPT ![r] = "copy"]
  /\ UNCHANGED <<positions, content, control>>

\* One iteration of the copying loop.
CopyItem(r) ==
  /\ rpc[r] = "copy" /\ Len(out[r]) < len[r]
  /\ out' = [out EXCEPT ![r] = Append(@, buffer[Index(start[r] + Len(@))])]
  /\ UNCHANGED <<positions, content, control, rpc, start, len, useful>>

\* Deliberate error: the check for overwritten items is left out.
ValidateNothing(r) ==
  /\ rpc[r] = "copy" /\ Len(out[r]) = len[r]
  /\ useful' = [useful EXCEPT ![r] = 0]
  /\ rpc' = [rpc EXCEPT ![r] = "idle"]
  /\ UNCHANGED <<positions, content, control, start, len, out>>

\* The load of writing_pos: items overwritten meanwhile are not useful.
Validate(r) ==
  LET diff == writing_pos - start[r] IN
  /\ rpc[r] = "copy" /\ Len(out[r]) = len[r]
  /\ useful' = [useful EXCEPT ![r] =
                  IF diff > Size THEN Min(diff - Size, len[r]) ELSE 0]
  /\ rpc' = [rpc EXCEPT ![r] = "idle"]
  /\ UNCHANGED <<positions, content, control, start, len, out>>

-----------------------------------------------------------------------------

Writer ==
  \/ \E ts \in 0 .. MaxPos, n \in 0 .. Size - 1 : BeginWrite(ts, n)
  \/ StoreItem
  \/ PublishAll
  \/ CloseOldHoles
  \/ ZeroItem
  \/ EndZero
  \/ CheckReady
  \/ \E until \in 0 .. MaxPos : BeginClose(until)
  \/ ExtendItem
  \/ EndExtend
  \/ \E ts \in 0 .. MaxPos : BeginReset(ts)
  \/ EndReset

Reader(r) ==
  \/ \E ts \in 0 .. MaxPos, n \in 1 .. Size : BeginRead(r, ts, n)
  \/ CopyItem(r)
  \/ Validate(r)

Next == Writer \/ \E r \in Readers : Reader(r)

Spec == Init /\ [][Next]_vars

-----------------------------------------------------------------------------
(***************************************************************************)
(* Properties                                                              *)
(***************************************************************************)

\* The flag `hole' is typed apart: the provers treat Booleans separately.
StateTypes ==
  /\ writing_pos \in Int /\ readable_pos \in Int /\ reported_pos \in Int
  /\ buffer \in [Indices -> Samples]
  /\ item_ready \in [Indices -> BOOLEAN]
  /\ pc \in {"idle", "store", "zero", "check", "extend", "reset"}
  /\ op \in {"none", "write", "close", "reset"}
  /\ cur \in Int /\ end \in Int
  /\ need \in Nat
  /\ written \subseteq Int
  /\ rpc \in [Readers -> {"idle", "copy"}]
  /\ start \in [Readers -> Nat]
  /\ len \in [Readers -> 0 .. Size]
  /\ out \in [Readers -> Seq(Samples)]
  /\ useful \in [Readers -> 0 .. Size]

TypeOK == StateTypes /\ hole \in BOOLEAN

\* Every item read_at returns as useful is the sample written for the very
\* timestamp that was asked for, or silence: never a sample of another lap of
\* the ring, however the writer's stores interleave with the reader's loads.
UsefulIsOwn ==
  \A r \in Readers : rpc[r] = "idle" =>
    \A j \in useful[r] + 1 .. Len(out[r]) :
      out[r][j] \in {start[r] + j - 1, Silence}

\* A sample that was written stays in the ring until writing_pos has moved a
\* whole ring past it: closing holes never replaces a received sample by
\* silence, and a late write never hits another sample's slot.
NoLostSample == \A p \in written : buffer[Index(p)] = p

\* Between calls of the writer a hole never keeps more than hole_fix_wait items
\* from the readers.
HoleBound == pc = "idle" => writing_pos - readable_pos <= HoleFixWait

\* Neither position ever moves back: what a reader was told is readable stays
\* readable, and its check against writing_pos cannot miss an overwrite.
NeverBackInTime ==
  [][writing_pos' >= writing_pos /\ readable_pos' >= readable_pos]_vars

\* The position published to readable_pos_dest never runs ahead of what is
\* readable, and readers are never promised untouched items.
PositionOrder == reported_pos <= readable_pos /\ readable_pos <= writing_pos

-----------------------------------------------------------------------------
(***************************************************************************)
(* The inductive invariant of RingBufferProofs                             *)
(***************************************************************************)

\* What the callers of the writer promise: nothing is written a ring or more
\* behind or past writing_pos, and closing never skips more than a ring.
Contract == MaxLate <= Size /\ MaxAhead <= Size /\ MaxSkip <= Size

\* Position p of the ring holds its own sample or silence.
Settled(p) == buffer[Index(p)] = p \/ buffer[Index(p)] = Silence

\* Positions whose item the current call has still to store or to silence, and
\* positions of holes not yet given up.
Pending(p) ==
  \/ pc = "store" /\ p >= cur /\ p < end /\ p >= readable_pos
  \/ pc = "extend" /\ p >= cur
  \/ pc = "zero" /\ p >= cur /\ ~item_ready[Index(p)]
  \/ pc \in {"idle", "check"} /\ p >= readable_pos /\ ~item_ready[Index(p)]
  \/ pc = "store" /\ hole /\ p >= readable_pos /\ ~item_ready[Index(p)]

ContentInv == \A p \in Window(writing_pos) : Settled(p) \/ Pending(p)

WrittenInv ==
  \A p \in written :
    /\ p \in Window(writing_pos)
    /\ buffer[Index(p)] = p
    /\ p >= readable_pos => pc # "extend" /\ item_ready[Index(p)]

WriterInv ==
  /\ pc = "idle" => writing_pos - readable_pos <= HoleFixWait
  /\ pc = "store" =>
       /\ op = "write"
       /\ cur <= end /\ end <= writing_pos /\ cur >= writing_pos - Size
       /\ writing_pos - readable_pos <= Size + HoleFixWait
  /\ pc = "zero" =>
       /\ op \in {"write", "close"}
       /\ readable_pos <= cur /\ cur <= end
       /\ end = CloseUntil /\ end <= writing_pos
       /\ op = "close" => writing_pos - readable_pos <= HoleFixWait
       /\ op = "close" => need <= writing_pos + Size
  /\ pc = "check" =>
       /\ op \in {"write", "close"}
       /\ writing_pos - readable_pos <= HoleFixWait
       /\ op = "close" => readable_pos >= Min(need, writing_pos)
       /\ op = "close" => need <= writing_pos + Size
  /\ pc = "extend" =>
       /\ writing_pos = need /\ end = need
       /\ readable_pos <= cur /\ cur <= end
  /\ pc = "reset" => writing_pos = need /\ \A i \in Indices : buffer[i] = Silence

\* What a reader has copied is its own sample, silence, or will be found
\* overwritten; an idle reader's result is right.
ReaderInv ==
  \A r \in Readers :
    /\ Len(out[r]) <= len[r]
    /\ rpc[r] = "copy" =>
         /\ start[r] + len[r] <= readable_pos
         /\ \A j \in 1 .. Len(out[r]) :
              \/ out[r][j] \in {start[r] + j - 1, Silence}
              \/ writing_pos > start[r] + j - 1 + Size
    /\ rpc[r] = "idle" =>
         \A j \in useful[r] + 1 .. Len(out[r]) :
           out[r][j] \in {start[r] + j - 1, Silence}

\* The inductive invariant: the parts above hold together at every step of
\* write_from_at, close_items_until, reset and read_at.
IndInv ==
  /\ TypeOK
  /\ PositionOrder
  /\ WriterInv
  /\ ContentInv
  /\ WrittenInv
  /\ ReaderInv
=============================================================================
