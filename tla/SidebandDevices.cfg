SPECIFICATION Spec
CONSTANTS
    MaxErrors = 1
    MaxStreams = 2
    Cases <- MCCases
INVARIANTS
  StoppedIsQuiet CallbackSafe CollectedIsServed StreamsCounted StreamAgrees
PROPERTIES
  CallsReturn StopReturns
