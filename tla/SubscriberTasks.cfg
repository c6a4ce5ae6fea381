\* One channel with flows of its own; spawned tasks wait as long as they like.
CONSTANTS
  None = None
  MaxFlows = 2
  PerFlow = 1
  RxQueue = 1
  Channels = {1}
  Sources = {a, b}
  Servers = {1}
  ServerOf <- OneServer
  BundleSlot <- FirstSlot
  Bundled = {}
  Operations = {"subscribe", "unsubscribe", "refresh", "shutdown"}
  MaxCalls = 2
  MaxFaults = 1
  MaxMade = 3
  MaxWaiting = 6
SPECIFICATION FairSpec
INVARIANTS
  ThreadSurvives
PROPERTIES
  Receives
CHECK_DEADLOCK FALSE
