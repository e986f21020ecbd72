SPECIFICATION Spec
CONSTANTS
  a = a
  b = b
  z = z
  NoFile = NoFile
  NoSidecar = NoSidecar
  Cell = {a, b, z}
  Hole = z
  ChunkSize = 2
  BufSize = 2
  MaxRanges = 2
  Policies = {"resume", "overwrite", "skip", "fail"}
  MaxRetries = 1
  Sources <- AnyLength
  Disks <- AllDisks
  MaxDrops = 2
  MaxEdits = 1
  MaxTouches = 1
INVARIANT TypeOK
INVARIANT ExistingUntouched
INVARIANT VerifiedIsOffered
INVARIANT VerifiedIsSource
INVARIANT SkippedMatches
INVARIANT SidecarIsHonest
INVARIANT NoMutualWait
INVARIANT SessionSound
PROPERTY VerifiedPrefixKept
PROPERTY PromiseKept
