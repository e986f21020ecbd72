SPECIFICATION Spec
CONSTANTS
  f1 = f1
  f2 = f2
  s1 = s1
  s2 = s2
  a = a
  b = b
  File = {f1, f2}
  Send = {s1, s2}
  InputsOf <- SameFiles
  Cell = {a, b}
  ContentOf <- Contents
  ChunkSize = 2
  MaxEdits = 2
  MaxSends = 3
SYMMETRY Alike
INVARIANT ManifestIsFresh
