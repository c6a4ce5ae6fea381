\* Two channel lists and room for one command, so that the manager waits for the
\* thread before almost every command; the process may be restarted.
CONSTANTS
  None = None
  Dsts = {d1, d2}
  Multicast = {d2}
  MaxFlows = 2
  Cookies = {k1, k2}
  Channels = {c1, c2}
  Partial = {c2}
  Vacant = {}
  TooLarge = {}
  QueueCap = 1
  MaxRestarts = 1
SPECIFICATION FairSpec
INVARIANTS
  NoPanic DrainedAgrees
PROPERTIES
  IsFlowTable Answered Transmitted
CHECK_DEADLOCK FALSE
