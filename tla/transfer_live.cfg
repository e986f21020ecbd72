SPECIFICATION FairSpec
CONSTANTS
  a = a
  b = b
  z = z
  NoFile = NoFile
  NoSidecar = NoSidecar
  Cell = {a, b, z}
  Hole = z
  ChunkSize = 2
  BufSize = 3
  MaxRanges = 1
  Policies = {"resume"}
  MaxRetries = 2
  Sources <- SameLength
  Disks <- FewDisks
  MaxDrops = 1
  MaxEdits = 1
  MaxTouches = 1
INVARIANT FramesInStep
PROPERTY EventuallyDelivered
