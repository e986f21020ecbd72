SPECIFICATION FairSpec
CONSTANTS
  Script <- OneFile
  MaxPayload = 2
  Duplex = 3
  Wire = 4
  MaxFaults = 1
INVARIANT NoTornFrame
PROPERTY ConversationEnds
