SPECIFICATION FairSpec
CONSTANTS
  s1 = s1
  s2 = s2
  s3 = s3
  r1 = r1
  r2 = r2
  i = i
  j = j
  here = here
  there = there
  Nobody = Nobody
  Sender <- TwoSenders
  Receiver <- TwoReceivers
  Id = {i, j}
  Addr = {here, there}
  IdOf <- OneId
  AddrOf <- OneAddr
  SinglePort = FALSE
  MaxPending = 1
  MaxSessions = 1
  MaxWaiters = 1
  FailureBudget = 1
PROPERTY EveryoneAnswered
CHECK_DEADLOCK FALSE
