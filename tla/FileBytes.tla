------------------------------ MODULE FileBytes ------------------------------
(***************************************************************************)
(* The data both ends of a transfer compute on: file contents, the chunk   *)
(* grid of a manifest entry, what a destination file becomes when it is    *)
(* opened and written, the resume point and the damaged chunks.            *)
(*                                                                         *)
(* A file is a sequence of cells.  A cell stands for a block of bytes that *)
(* is always read and written as one.  BLAKE3 is taken as free of          *)
(* collisions, so the hash of some bytes is the bytes themselves and the   *)
(* state of an incremental hasher is everything fed to it so far.          *)
(*                                                                         *)
(* A manifest entry is given by the content it was built from: its size is *)
(* the length, its chunk hashes are the chunks.                            *)
(***************************************************************************)
EXTENDS Integers, Sequences, FiniteSets, FiniteSetsExt

CONSTANTS
  Cell,       \* the values a cell of a file can have
  Hole,       \* the cell a file is filled with when set_len extends it
  ChunkSize,  \* cells per chunk: entry.chunk_size
  BufSize,    \* cells per read buffer of the sender: CHUNK_BUF
  MaxRanges,  \* ranges one FileChunkRequest can hold: MAX_CHUNK_RANGES
  NoFile,     \* the destination path does not exist
  NoSidecar   \* there is no .lanx-partial.json beside the destination

ASSUME BytesAssumption ==
  /\ Hole \in Cell
  /\ ChunkSize \in Nat \ {0}
  /\ BufSize \in Nat \ {0}
  /\ MaxRanges \in Nat \ {0}
  /\ NoFile \notin Seq(Cell)

Content == Seq(Cell)

Smaller(m, n) == IF m <= n THEN m ELSE n
Larger(m, n) == IF m <= n THEN n ELSE m

\* The cells of b at offsets from .. to-1, fewer where b is shorter.
Slice(b, from, to) == SubSeq(b, from + 1, Smaller(to, Len(b)))

\* b begins with h.
Begins(b, h) == Len(h) <= Len(b) /\ \A i \in DOMAIN h : b[i] = h[i]

-----------------------------------------------------------------------------
(* Writing the destination.                                                *)

\* The bytes there are, none where there is no file.
OnDisk(disk) == IF disk = NoFile THEN << >> ELSE disk

\* File::set_len: cut, or extend with zeroes.
SetLen(b, n) == [i \in 1..n |-> IF i <= Len(b) THEN b[i] ELSE Hole]

\* seek to off, then write_all.
WriteAt(b, off, cells) ==
  [i \in 1..Larger(Len(b), off + Len(cells)) |->
     IF off < i /\ i <= off + Len(cells) THEN cells[i - off]
     ELSE IF i <= Len(b) THEN b[i] ELSE Hole]

\* Defects the properties are tested against: trailing bytes kept, and the
\* prefix cut off with them.
OpenWithoutSetLen(disk, off, size) == IF off = 0 THEN << >> ELSE OnDisk(disk)
OpenTruncating(disk, off, size) == << >>

\* open_for_resume: truncate at offset 0, else keep what is there and bring
\* the file to the size of the manifest entry.
OpenForResume(disk, off, size) ==
  IF off = 0 THEN << >> ELSE SetLen(OnDisk(disk), size)

-----------------------------------------------------------------------------
(* The chunk grid.                                                         *)

ChunkStarts(size) == {o \in 0..(size - 1) : o % ChunkSize = 0}
ChunkEnd(size, o) == Smaller(o + ChunkSize, size)

\* All of the chunk at o is on disk.
HasChunk(entry, disk, o) == Len(disk) >= ChunkEnd(Len(entry), o)

\* It is, and it has the hash of the manifest.
ChunkMatches(entry, disk, o) ==
  LET e == ChunkEnd(Len(entry), o)
  IN  HasChunk(entry, disk, o) /\ Slice(disk, o, e) = Slice(entry, o, e)

MismatchedStarts(entry, disk) ==
  {o \in ChunkStarts(Len(entry)) : ~ChunkMatches(entry, disk, o)}

\* Length of the longest prefix whose chunks all match.
VerifiedPrefix(entry, disk) ==
  LET bad == MismatchedStarts(entry, disk)
  IN  IF bad = {} THEN Len(entry) ELSE Min(bad)

\* find_bad_ranges.  The scan stops at the first chunk the file is too short
\* for, and the request is cut to its first MaxRanges ranges; with no file at
\* all every chunk is asked for.
BadStarts(entry, disk) ==
  IF disk = NoFile THEN ChunkStarts(Len(entry))
  ELSE LET bad     == MismatchedStarts(entry, disk)
           scanned == {o \in bad : \A p \in bad : p < o => HasChunk(entry, disk, p)}
       IN  {o \in scanned : Cardinality({p \in scanned : p < o}) < MaxRanges}

-----------------------------------------------------------------------------
(* Resuming.                                                               *)

\* What the sidecar claims of the destination, in cells.
ClaimedPrefix(sidecar) == sidecar.chunks * ChunkSize

\* Sidecar::is_valid_for: size agrees, and the file is as long as claimed.
SidecarValid(sidecar, entry, disk) ==
  /\ sidecar # NoSidecar
  /\ disk # NoFile
  /\ sidecar.size = Len(entry)
  /\ Len(disk) >= Smaller(ClaimedPrefix(sidecar), Len(entry))

\* The prefix of the destination that is kept: the one a valid sidecar
\* claims, unread, or the one whose chunks were hashed and compared.
TrustedPrefix(entry, disk, sidecar) ==
  IF SidecarValid(sidecar, entry, disk)
  THEN Smaller(ClaimedPrefix(sidecar), Len(entry))
  ELSE VerifiedPrefix(entry, disk)

\* What an incremental hasher knows after the first n cells of b: what
\* hash_prefix and the chunk walk build on one side, build_prefix_hasher on the
\* other.
HashedPrefix(b, n) == Slice(b, 0, n)

\* Nothing is left to fetch.  (Defect: a longer file passes too.)
PrefixIsAll(entry, disk, n) == n = Len(entry)
IsComplete(entry, disk, n) == n = Len(entry) /\ Len(disk) = Len(entry)

\* compute_resume_point: where to resume, whether nothing is left to do, and
\* what the prebuilt hasher has been fed.
ResumePoint(entry, disk, sidecar) ==
  LET fresh == [off |-> 0, complete |-> FALSE, hash |-> << >>]
  IN  IF disk = NoFile THEN fresh
      ELSE IF entry = << >> THEN [fresh EXCEPT !.complete = disk = << >>]
      ELSE LET n == TrustedPrefix(entry, disk, sidecar)
           IN  [off |-> n,
                complete |-> IsComplete(entry, disk, n),
                hash |-> HashedPrefix(disk, n)]
=============================================================================
