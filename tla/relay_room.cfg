SPECIFICATION Spec
CONSTANTS
  s1 = s1
  s2 = s2
  s3 = s3
  r1 = r1
  r2 = r2
  i = i
  j = j
  here = here
  there = there
  Nobody = Nobody
  Sender <- ThreeSenders
  Receiver <- TwoReceivers
  Id = {i, j}
  Addr = {here, there}
  IdOf <- TwoIds
  AddrOf <- OneAddr
  SinglePort = TRUE
  MaxPending = 1
  MaxSessions = 1
  MaxWaiters = 1
  FailureBudget = 0
INVARIANT MapBounded
INVARIANT Bookkeeping
CHECK_DEADLOCK FALSE
