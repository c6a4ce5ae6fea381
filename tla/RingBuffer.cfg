\* A ring of 4 items and one reader; writes, closes and resets stay within a
\* ring of writing_pos.
CONSTANTS
  Size = 4
  HoleFixWait = 2
  Readers = {r1}
  Silence = Silence
  StartTime = 1
  MaxPos = 6
  MaxLate = 4
  MaxAhead = 4
  MaxSkip = 4
SPECIFICATION Spec
INVARIANTS
  UsefulIsOwn NoLostSample HoleBound
CHECK_DEADLOCK FALSE
