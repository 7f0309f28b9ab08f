CONSTANTS
  n1 = n1  b1 = b1
  Neighbors = {n1}
  Browsers = {b1}
  Packets <- ThreePackets
  MaxStreams = 2
  Faults = {"NodeUnknown", "MaskError", "ConnectError", "PeerCloses", "WriteError"}
SPECIFICATION FairSpec
INVARIANTS OpeningIsBacked EndedStreamIsRemoved PacketsAreConserved ServerDropIsNotReported
PROPERTY PacketsSettle
CHECK_DEADLOCK FALSE
