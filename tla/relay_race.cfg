SPECIFICATION Spec
CONSTANTS
  s1 = s1
  s2 = s2
  s3 = s3
  r1 = r1
  r2 = r2
  i = i
  j = j
  here = here
  there = there
  Nobody = Nobody
  Sender <- ThreeSenders
  Receiver <- TwoReceivers
  Id = {i, j}
  Addr = {here, there}
  IdOf <- OneId
  AddrOf <- TwoAddrs
  SinglePort = FALSE
  MaxPending = 2
  MaxSessions = 1
  MaxWaiters = 2
  FailureBudget = 0
INVARIANT TypeOK
INVARIANT SessionsBounded
INVARIANT SlotsAccounted
INVARIANT OneOwner
PROPERTY OnlyReturnEvicts
CHECK_DEADLOCK FALSE
