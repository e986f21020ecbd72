SPECIFICATION FairSpec
CONSTANTS
  FileCount = 2
  Wanted = 2
  Offers = {1, 2}
  Policies = {"resume", "fail"}
  Founds = {{}, {0}}
  MaxAttempts = 2
  Kinds = {"cut", "late", "missed", "restart"}
  MaxFaults = 1
INVARIANT TypeOK
INVARIANT SuccessIsServed
INVARIANT NoSharedFile
INVARIANT SenderSuccessIsServed
PROPERTY ExistingKept
PROPERTY BothEnd
PROPERTY CleanRunDelivers
