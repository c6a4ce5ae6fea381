\* A ring of four frames and an index of three bits; the reader may be lapped.
\* The driver may stop, and the reader gives up when there is no driver.
CONSTANTS
  Frames = 4
  Wrap = 8
  Header = Header
  MaxBatch = 2
  MaxLag = 6
  MaxFrames = 11
SPECIFICATION FairSpec
INVARIANTS
  FramesCounted 
CHECK_DEADLOCK FALSE
