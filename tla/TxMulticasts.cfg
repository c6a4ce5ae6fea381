\* Two indices, three addresses and a receiver that competes for the indices.
CONSTANTS
  None = None
  MaxFlows = 2
  Dsts = {g1, g2, g3, u1}
  Groups = {g1, g2, g3}
  Channels = {c1}
  Patient = TRUE
  MaxBundles = 2
  MaxConflicts = 1
  MaxRestarts = 1
SPECIFICATION FairSpec
INVARIANTS
  Removable SentIsChecked
PROPERTIES
   ProbesEnd
CHECK_DEADLOCK FALSE
