\* Two channels, two sources of one transmitter, flows of two channels.
CONSTANTS
  None = None
  MaxFlows = 4
  PerFlow = 2
  RxQueue = 1
  Channels = {1, 2}
  Sources = {a, b}
  Servers = {1}
  ServerOf <- OneServer
  BundleSlot <- FirstSlot
  Bundled = {a, b}
  Operations = {"subscribe", "unsubscribe"}
  MaxCalls = 3
  MaxFaults = 1
  MaxMade = 3
  MaxWaiting = 0
SPECIFICATION Spec
SYMMETRY Alike
INVARIANTS
  RefcountExact SavedAll CollectorAgrees
CHECK_DEADLOCK FALSE
