SPECIFICATION Spec
CONSTANTS
    FrameCount = 2
    DefaultFrameSize = 2
    MaxWriteSizes = {3}
    Items <- MCItems
    Workers = 2
    WriteSizes = {1, 3}
    MaxBytes = 8
    Failures = 1
INVARIANTS
  Complete NothingAfterFree
PROPERTIES
  FramesFree
