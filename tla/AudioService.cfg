\* Two channels, a queue of three frames, batches of up to two; the service may end.
CONSTANTS
  Channels = 2
  DevChannels = 2
  MaxQueue = 6
  MaxBatch = 2
  MaxSpace = 2
  MaxFrames = 8
  MaxClients = 2
  Silence = Silence
SPECIFICATION FairSpec
INVARIANTS
  ChannelsMatch
PROPERTIES
  PlayedInOrder Ends
CHECK_DEADLOCK FALSE
