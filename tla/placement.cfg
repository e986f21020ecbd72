SPECIFICATION Spec
CONSTANTS
  Hidden = {".h"}
  Portable = {"d", "e", "a", "A", "b", "o", "l", ".h"}
  Fold <- LowerCase
  CaseBlind = TRUE
  Sends <- AnySend
  Outs <- AnyOut
  Founds <- AnyFound
  Policies = {"resume", "overwrite", "skip", "rename", "fail"}
  Parallel = 2
  MaxAttempts = 2
INVARIANT SourcesAreMeant
INVARIANT OldKept
INVARIANT AllArrived
