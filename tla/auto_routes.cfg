SPECIFICATION FairSpec
CONSTANTS
  Direct = direct
  r1 = r1
  r2 = r2
  NoRoute = NoRoute
  Relays <- TwoRelays
  Wanted = 2
  MaxBacklog = 2
  Kinds = {"stranger", "break", "late", "relay"}
  MaxFaults = 2
INVARIANT TypeOK
INVARIANT OneSession
INVARIANT SuccessIsDelivered
PROPERTY RetriesDeliver
