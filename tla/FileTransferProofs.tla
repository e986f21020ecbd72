-------------------------- MODULE FileTransferProofs --------------------------
(***************************************************************************)
(* Proofs about FileTransfer for every chunk size, retry limit, file and   *)
(* number of faults: its variables keep their types, what a pass claims is *)
(* true of the disk, every step is one the promise of Delivery allows, and *)
(* the safety invariants its runs check hold.                              *)
(***************************************************************************)
EXTENDS FileTransfer, SequenceTheorems, WellFoundedInduction, TLAPS

-----------------------------------------------------------------------------
(* What the operators of FileBytes return, for every cell, file and chunk  *)
(* size: a destination is dest, the file it is to become is final, and     *)
(* what a sidecar says of it is voucher.                                   *)

\* A nonempty set of naturals has the minimum its definition chooses.
LEMMA LeastElement ==
  ASSUME NEW S \in SUBSET Nat, S # {}
  PROVE  Min(S) \in S /\ \A y \in S : Min(S) <= y
<1>1. PICK x \in S : \A y \in S : ~ (<<y, x>> \in OpToRel(<, Nat))
  BY NatLessThanWellFounded, WFMin
<1>2. \A y \in S : x <= y
  <2>1. SUFFICES ASSUME NEW y \in S, ~ (x <= y) PROVE FALSE
    OBVIOUS
  <2>2. <<y, x>> \in Nat \X Nat /\ y < x
    BY <2>1
  <2>3. <<y, x>> \in OpToRel(<, Nat)
    BY <2>2 DEF OpToRel
  <2> QED
    BY <1>1, <2>3
<1> QED
  BY <1>2 DEF Min

\* The cells of a slice are those of the file, as many as there are.
LEMMA SliceCells ==
  ASSUME NEW b \in Content, NEW from \in Nat, NEW to \in Nat
  PROVE  /\ Slice(b, from, to) \in Content
         /\ from = 0 => /\ Len(Slice(b, from, to)) = Smaller(to, Len(b))
                        /\ Begins(b, Slice(b, from, to))
<1> DEFINE last == Smaller(to, Len(b))
<1>1. last \in Nat /\ last <= Len(b) /\ Len(b) \in Nat
  BY DEF Smaller, Content
<1>2. \A i \in (from + 1)..last : b[i] \in Cell
  BY <1>1 DEF Content
<1>3. SubSeq(b, from + 1, last) \in Seq(Cell)
  BY <1>1, <1>2 DEF Content
<1>4. from = 0 => Len(SubSeq(b, from + 1, last)) = last
  BY <1>1 DEF Content
<1>5. from = 0 => \A i \in 1..last : SubSeq(b, from + 1, last)[i] = b[i]
  BY <1>1 DEF Content
<1>6. from = 0 => Begins(b, SubSeq(b, from + 1, last))
  BY <1>1, <1>3, <1>4, <1>5 DEF Begins
<1> QED
  BY <1>1, <1>3, <1>4, <1>6 DEF Slice, Content

\* A slice from an offset has the cells of the file from there on, up to its end
\* or the file's.
LEMMA SliceRange ==
  ASSUME NEW b \in Content, NEW from \in Nat, NEW to \in Nat, NEW last,
         last = Smaller(to, Len(b))
  PROVE  /\ last \in Nat /\ last <= Len(b) /\ last <= to
         /\ to <= Len(b) => last = to
         /\ Slice(b, from, to) \in Content
         /\ DOMAIN Slice(b, from, to) = 1..Len(Slice(b, from, to))
         /\ Len(Slice(b, from, to)) = IF from < last THEN last - from ELSE 0
         /\ \A j \in 1..(last - from) : Slice(b, from, to)[j] = b[from + j]
<1>1. Len(b) \in Nat /\ last \in Nat /\ last <= Len(b) /\ last <= to
      /\ (to <= Len(b) => last = to)
  BY DEF Smaller, Content
<1>2. \A i \in (from + 1)..last : b[i] \in Cell
  BY <1>1 DEF Content
<1> DEFINE s == SubSeq(b, from + 1, last)
<1>3. /\ s \in Seq(Cell)
      /\ Len(s) = IF from + 1 <= last THEN last - (from + 1) + 1 ELSE 0
      /\ \A j \in 1..(last - (from + 1) + 1) : s[j] = b[(from + 1) + j - 1]
  BY <1>1, <1>2, SubSeqProperties
<1>4. Slice(b, from, to) = s
  BY DEF Slice
<1> HIDE DEF s
<1>5. Len(s) = IF from < last THEN last - from ELSE 0
  BY <1>1, <1>3
<1>6. ASSUME NEW j \in 1..(last - from) PROVE s[j] = b[from + j]
  <2>1. j \in 1..(last - (from + 1) + 1) /\ (from + 1) + j - 1 = from + j
    BY <1>1
  <2> QED
    BY <1>3, <2>1
<1> QED
  BY <1>1, <1>3, <1>4, <1>5, <1>6 DEF Content

\* A prefix followed by the cells that come next is a longer prefix.
LEMMA BeginsLonger ==
  ASSUME NEW b \in Content, NEW h \in Content, NEW c \in Content, Begins(b, h),
         \A j \in DOMAIN c : Len(h) + j \in 1..Len(b) /\ c[j] = b[Len(h) + j]
  PROVE  /\ h \o c \in Content /\ Len(h \o c) = Len(h) + Len(c)
         /\ Begins(b, h \o c)
<1> DEFINE s == h \o c
<1>1. /\ Len(h) \in Nat /\ Len(c) \in Nat /\ Len(b) \in Nat
      /\ DOMAIN h = 1..Len(h) /\ DOMAIN c = 1..Len(c)
  BY DEF Content
<1>2. /\ s \in Content /\ Len(s) = Len(h) + Len(c) /\ DOMAIN s = 1..Len(s)
      /\ \A i \in DOMAIN s : s[i] = IF i <= Len(h) THEN h[i] ELSE c[i - Len(h)]
  BY DEF Content
<1> HIDE DEF s
<1>3. Len(s) <= Len(b)
  <2>1. CASE Len(c) = 0
    BY <1>1, <1>2, <2>1 DEF Begins
  <2>2. CASE Len(c) # 0
    <3>1. Len(c) \in DOMAIN c
      BY <1>1, <2>2
    <3>2. Len(h) + Len(c) \in 1..Len(b)
      BY <3>1
    <3> QED
      BY <1>1, <1>2, <3>2
  <2> QED
    BY <2>1, <2>2
<1>4. ASSUME NEW i \in DOMAIN s PROVE b[i] = s[i]
  <2>1. CASE i <= Len(h)
    BY <1>1, <1>2, <2>1 DEF Begins
  <2>2. CASE ~ (i <= Len(h))
    <3>1. i - Len(h) \in DOMAIN c /\ Len(h) + (i - Len(h)) = i
      BY <1>1, <1>2, <2>2
    <3> QED
      BY <1>2, <2>2, <3>1
  <2> QED
    BY <2>1, <2>2
<1>5. Begins(b, s)
  BY <1>3, <1>4 DEF Begins
<1> QED
  BY <1>2, <1>5 DEF s

\* What is appended to a file does not change how it begins.
LEMMA BeginsAppended ==
  ASSUME NEW b \in Content, NEW h \in Content, NEW c \in Content, Begins(h, b)
  PROVE  Begins(h \o c, b)
BY DEF Begins, Content

\* A prefix as long as the file is the file.
LEMMA BeginsWhole ==
  ASSUME NEW b \in Content, NEW h \in Content, Begins(b, h), Len(h) >= Len(b)
  PROVE  h = b
<1>1. /\ b \in Seq(Cell) /\ h \in Seq(Cell) /\ Len(h) = Len(b)
      /\ \A i \in DOMAIN h : h[i] = b[i]
  BY DEF Begins, Content
<1> QED
  BY <1>1, SeqEqual

\* set_len leaves n cells, the old ones first.
LEMMA SetLenCells ==
  ASSUME NEW b \in Content, NEW n \in Nat
  PROVE  /\ SetLen(b, n) \in Content
         /\ Len(SetLen(b, n)) = n
         /\ \A i \in 1..n : i <= Len(b) => SetLen(b, n)[i] = b[i]
<1>1. \A i \in 1..n : (IF i <= Len(b) THEN b[i] ELSE Hole) \in Cell
  BY BytesAssumption DEF Content
<1>2. SetLen(b, n) \in [1..n -> Cell]
  BY <1>1 DEF SetLen
<1>3. SetLen(b, n) \in Seq(Cell) /\ Len(SetLen(b, n)) = n
  BY <1>2
<1>4. \A i \in 1..n : i <= Len(b) => SetLen(b, n)[i] = b[i]
  BY DEF SetLen
<1> QED
  BY <1>3, <1>4 DEF Content

\* A write replaces the cells it covers, keeps the others, and lengthens the
\* file when it reaches past its end.
LEMMA WriteAtCells ==
  ASSUME NEW b \in Content, NEW off \in Nat, NEW cells \in Content
  PROVE  /\ WriteAt(b, off, cells) \in Content
         /\ Len(WriteAt(b, off, cells)) = Larger(Len(b), off + Len(cells))
         /\ \A i \in 1..off : i <= Len(b) => WriteAt(b, off, cells)[i] = b[i]
         /\ \A i \in DOMAIN cells : WriteAt(b, off, cells)[off + i] = cells[i]
<1> DEFINE n == Larger(Len(b), off + Len(cells))
<1>1. /\ n \in Nat /\ Len(b) <= n /\ off + Len(cells) <= n
      /\ Len(cells) \in Nat /\ Len(b) \in Nat
  BY DEF Larger, Content
<1>2. ASSUME NEW i \in 1..n
      PROVE  (IF off < i /\ i <= off + Len(cells) THEN cells[i - off]
              ELSE IF i <= Len(b) THEN b[i] ELSE Hole) \in Cell
  <2>1. CASE off < i /\ i <= off + Len(cells)
    <3>1. i - off \in 1..Len(cells)
      BY <1>1, <2>1
    <3> QED
      BY <2>1, <3>1 DEF Content
  <2>2. CASE ~ (off < i /\ i <= off + Len(cells)) /\ i <= Len(b)
    BY <1>1, <2>2 DEF Content
  <2>3. CASE ~ (off < i /\ i <= off + Len(cells)) /\ ~ (i <= Len(b))
    BY <2>3, BytesAssumption
  <2> QED
    BY <2>1, <2>2, <2>3
<1>3. WriteAt(b, off, cells) \in [1..n -> Cell]
  BY <1>2 DEF WriteAt
<1>4. WriteAt(b, off, cells) \in Seq(Cell) /\ Len(WriteAt(b, off, cells)) = n
  BY <1>1, <1>3
<1>5. \A i \in 1..off : i <= Len(b) => WriteAt(b, off, cells)[i] = b[i]
  BY <1>1 DEF WriteAt
<1>6. ASSUME NEW i \in DOMAIN cells
      PROVE  WriteAt(b, off, cells)[off + i] = cells[i]
  <2>1. i \in 1..Len(cells)
    BY DEF Content
  <2>2. off + i \in 1..n /\ off < off + i /\ off + i <= off + Len(cells)
    BY <1>1, <2>1
  <2>3. (off + i) - off = i
    BY <2>1
  <2> QED
    BY <2>2, <2>3 DEF WriteAt
<1> QED
  BY <1>4, <1>5, <1>6 DEF Content

\* As far as b goes, its first n cells are those of c.
MatchesUpTo(b, c, n) == \A i \in 1..n : i <= Len(b) => b[i] = c[i]

\* The cells are those of c from off on.
CellsFrom(cells, c, off) == \A j \in DOMAIN cells : cells[j] = c[off + j]

\* A write of cells that are the entry's, from no further than the end of the
\* file, leaves what was the entry's so.
LEMMA WriteMatches ==
  ASSUME NEW b \in Content, NEW off \in Nat, NEW cells \in Content,
         NEW final \in Content, NEW n \in Nat, off <= Len(b),
         MatchesUpTo(b, final, n), CellsFrom(cells, final, off)
  PROVE  MatchesUpTo(WriteAt(b, off, cells), final, n)
<1> SUFFICES ASSUME NEW i \in 1..n, i <= Len(WriteAt(b, off, cells))
             PROVE  WriteAt(b, off, cells)[i] = final[i]
  BY DEF MatchesUpTo
<1> USE DEF MatchesUpTo, CellsFrom
<1>0. Len(WriteAt(b, off, cells)) = Larger(Len(b), off + Len(cells))
  BY WriteAtCells
<1>1. Len(cells) \in Nat /\ Len(b) \in Nat /\ DOMAIN cells = 1..Len(cells)
  BY DEF Content
<1>2. i \in 1..Larger(Len(b), off + Len(cells))
  BY <1>0, <1>1 DEF Larger
<1>3. CASE off < i /\ i <= off + Len(cells)
  <2>1. i - off \in DOMAIN cells /\ off + (i - off) = i
    BY <1>1, <1>3
  <2>2. WriteAt(b, off, cells)[i] = cells[i - off]
    BY <1>2, <1>3 DEF WriteAt
  <2> QED
    BY <2>1, <2>2
<1>4. CASE ~(off < i /\ i <= off + Len(cells))
  <2>1. i <= Len(b)
    BY <1>1, <1>2, <1>4 DEF Larger
  <2>2. WriteAt(b, off, cells)[i] = b[i]
    BY <1>2, <1>4, <2>1 DEF WriteAt
  <2> QED
    BY <2>1, <2>2
<1> QED
  BY <1>3, <1>4

-----------------------------------------------------------------------------
(* The chunk grid.                                                         *)

\* Multiples of the chunk size are on the grid.
LEMMA MultipleOfChunk ==
  ASSUME NEW k \in Nat
  PROVE  (ChunkSize * k) % ChunkSize = 0 /\ ChunkSize * k \in Nat
<1>1. ChunkSize \in Nat /\ ChunkSize > 0
  BY BytesAssumption
<1> QED
  BY <1>1

\* A chunk ends a chunk size on, or where the file ends.
LEMMA ChunkEndType ==
  ASSUME NEW size \in Nat, NEW o \in Nat
  PROVE  /\ ChunkEnd(size, o) \in Nat /\ ChunkEnd(size, o) <= size
         /\ o + ChunkSize >= size => ChunkEnd(size, o) = size
         /\ o + ChunkSize <= size => ChunkEnd(size, o) = o + ChunkSize
BY BytesAssumption DEF ChunkEnd, Smaller

\* The cells of a file lie in its chunks.
LEMMA ChunkOfCell ==
  ASSUME NEW size \in Nat, NEW i \in 1..size
  PROVE  \E o \in ChunkStarts(size) : o < i /\ i <= ChunkEnd(size, o)
<1> DEFINE q == (i - 1) \div ChunkSize
           r == (i - 1) % ChunkSize
           o == ChunkSize * q
<1>1. ChunkSize \in Nat /\ ChunkSize > 0 /\ i - 1 \in Nat
  BY BytesAssumption
<1>2. q \in Nat /\ i - 1 = ChunkSize * q + r /\ r \in 0..(ChunkSize - 1)
  BY <1>1
<1>3. o % ChunkSize = 0 /\ o \in Nat
  BY <1>1, <1>2
<1>4. i - 1 = o + r /\ 0 <= r /\ r <= ChunkSize - 1 /\ r \in Int
  BY <1>2
<1> HIDE DEF o, q, r
<1>5. o < i /\ i <= o + ChunkSize /\ o <= size - 1
  BY <1>1, <1>3, <1>4
<1>6. o \in ChunkStarts(size)
  BY <1>3, <1>5 DEF ChunkStarts
<1>7. i <= ChunkEnd(size, o)
  BY <1>1, <1>3, <1>5 DEF ChunkEnd, Smaller
<1> QED
  BY <1>5, <1>6, <1>7

\* Chunks begin a chunk size or more apart.
LEMMA ChunksApart ==
  ASSUME NEW o \in Nat, NEW p \in Nat,
         o % ChunkSize = 0, p % ChunkSize = 0, o < p
  PROVE  o + ChunkSize <= p
<1>1. ChunkSize \in Nat /\ ChunkSize > 0
  BY BytesAssumption
<1> DEFINE q == o \div ChunkSize
           r == p \div ChunkSize
<1>2. q \in Nat /\ r \in Nat /\ o = ChunkSize * q /\ p = ChunkSize * r
  BY <1>1
<1> HIDE DEF q, r
<1>3. r >= q + 1
  <2> SUFFICES ASSUME q - r \in Nat PROVE FALSE
    BY <1>2
  <2>1. ChunkSize * (q - r) \in Nat
    BY MultipleOfChunk
  <2>2. ChunkSize * q = ChunkSize * r + ChunkSize * (q - r)
    BY <1>1, <1>2
  <2> QED
    BY <1>2, <2>1, <2>2
<1>4. r - (q + 1) \in Nat
  BY <1>2, <1>3
<1>5. ChunkSize * (r - (q + 1)) \in Nat
  BY <1>4, MultipleOfChunk
<1>6. ChunkSize * r = ChunkSize * q + ChunkSize + ChunkSize * (r - (q + 1))
  BY <1>1, <1>2
<1> QED
  BY <1>1, <1>2, <1>5, <1>6

\* The last chunk ends where the file ends.
LEMMA LastChunk ==
  ASSUME NEW size \in Nat \ {0}
  PROVE  \E o \in ChunkStarts(size) : ChunkEnd(size, o) = size
<1>1. PICK o \in ChunkStarts(size) : size <= ChunkEnd(size, o)
  BY ChunkOfCell
<1>2. o \in Nat
  BY DEF ChunkStarts
<1>3. ChunkEnd(size, o) = size
  BY <1>1, <1>2, BytesAssumption DEF ChunkEnd, Smaller
<1> QED
  BY <1>3

\* A chunk other than the first begins where another one ends.
LEMMA PreviousChunk ==
  ASSUME NEW size \in Nat, NEW o \in ChunkStarts(size), o # 0
  PROVE  /\ o - ChunkSize \in ChunkStarts(size)
         /\ ChunkEnd(size, o - ChunkSize) = o
<1>1. ChunkSize \in Nat \ {0} /\ o \in Nat /\ o < size /\ o % ChunkSize = 0
  BY BytesAssumption DEF ChunkStarts
<1> DEFINE q == o \div ChunkSize
<1>2. q \in Int /\ o = ChunkSize * q
  BY <1>1
<1>3. q >= 1
  BY <1>1, <1>2
<1>4. o - ChunkSize = ChunkSize * (q - 1) /\ q - 1 \in Nat
  BY <1>1, <1>2, <1>3
<1> HIDE DEF q
<1>5. (ChunkSize * (q - 1)) % ChunkSize = 0 /\ ChunkSize * (q - 1) \in Nat
  BY <1>4, MultipleOfChunk
<1>6. o - ChunkSize \in ChunkStarts(size)
  BY <1>1, <1>4, <1>5 DEF ChunkStarts
<1>7. o - ChunkSize \in Nat /\ (o - ChunkSize) + ChunkSize = o /\ o <= size
  BY <1>1, <1>4, <1>5
<1> QED
  BY <1>6, <1>7, ChunkEndType

\* The prefix found to match is no longer than either file.
LEMMA VerifiedPrefixWithin ==
  ASSUME NEW final \in Content, NEW dest \in Content
  PROVE  /\ VerifiedPrefix(final, dest) \in Nat
         /\ VerifiedPrefix(final, dest) <= Len(final)
         /\ VerifiedPrefix(final, dest) <= Len(dest)
<1> DEFINE size == Len(final)
           bad == MismatchedStarts(final, dest)
<1>1. size \in Nat /\ Len(dest) \in Nat
  BY DEF Content
<1>2. bad \subseteq ChunkStarts(size) /\ ChunkStarts(size) \subseteq Nat
  BY <1>1 DEF MismatchedStarts, ChunkStarts
<1>3. \A o \in ChunkStarts(size) \ bad : ChunkEnd(size, o) <= Len(dest)
  <2>1. ASSUME NEW o \in ChunkStarts(size) \ bad
        PROVE  ChunkEnd(size, o) <= Len(dest)
    <3>1. HasChunk(final, dest, o)
      BY DEF MismatchedStarts, ChunkMatches
    <3> QED
      BY <3>1, <1>1, <1>2, ChunkEndType DEF HasChunk
  <2> QED
    BY <2>1
<1>4. CASE bad = {}
  <2>1. VerifiedPrefix(final, dest) = size
    BY <1>4 DEF VerifiedPrefix
  <2>2. CASE size = 0
    BY <1>1, <2>1, <2>2
  <2>3. CASE size # 0
    <3>1. PICK o \in ChunkStarts(size) : ChunkEnd(size, o) = size
      BY <1>1, <2>3, LastChunk
    <3>2. size <= Len(dest)
      BY <1>3, <1>4, <3>1
    <3> QED
      BY <1>1, <2>1, <3>2
  <2> QED
    BY <2>2, <2>3
<1>5. CASE bad # {}
  <2> DEFINE o == Min(bad)
  <2>1. o \in bad /\ \A p \in bad : o <= p
    BY <1>2, <1>5, LeastElement
  <2>2. VerifiedPrefix(final, dest) = o
    BY <1>5 DEF VerifiedPrefix
  <2> HIDE DEF o
  <2>3. o \in ChunkStarts(size) /\ o \in Nat /\ o <= size
    BY <1>1, <1>2, <2>1 DEF ChunkStarts
  <2>4. CASE o = 0
    BY <1>1, <2>2, <2>4
  <2>5. CASE o # 0
    <3> DEFINE p == o - ChunkSize
    <3>1. p \in ChunkStarts(size) /\ ChunkEnd(size, p) = o
      BY <1>1, <2>3, <2>5, PreviousChunk
    <3>2. ~ (o <= p)
      BY <2>3, BytesAssumption
    <3>3. p \notin bad
      BY <2>1, <3>2
    <3>4. o <= Len(dest)
      BY <1>3, <3>1, <3>3
    <3> QED
      BY <2>2, <2>3, <3>4
  <2> QED
    BY <2>4, <2>5
<1> QED
  BY <1>4, <1>5

\* A chunk that matches has the cells of the manifest, and a chunk that has them
\* matches.
LEMMA MatchingCells ==
  ASSUME NEW final \in Content, NEW dest \in Content, NEW o \in ChunkStarts(Len(final))
  PROVE  ChunkMatches(final, dest, o) <=>
           /\ ChunkEnd(Len(final), o) <= Len(dest)
           /\ \A i \in (o + 1)..ChunkEnd(Len(final), o) : dest[i] = final[i]
<1> DEFINE e == ChunkEnd(Len(final), o)
           d == Slice(dest, o, e)
           c == Slice(final, o, e)
<1>1. Len(final) \in Nat /\ Len(dest) \in Nat /\ o \in Nat
  BY DEF Content, ChunkStarts
<1>2. e \in Nat /\ e <= Len(final)
  BY <1>1, ChunkEndType
<1>3. ChunkMatches(final, dest, o) <=> e <= Len(dest) /\ d = c
  BY <1>1, <1>2 DEF ChunkMatches, HasChunk
<1> HIDE DEF e
<1> SUFFICES ASSUME e <= Len(dest)
             PROVE  d = c <=> \A i \in (o + 1)..e : dest[i] = final[i]
  BY <1>3 DEF e
<1>4. ASSUME NEW b \in Content, e <= Len(b)
      PROVE  /\ Slice(b, o, e) \in Content
             /\ Len(Slice(b, o, e)) = IF o < e THEN e - o ELSE 0
             /\ \A j \in 1..(e - o) : Slice(b, o, e)[j] = b[o + j]
  <2>1. e = Smaller(e, Len(b))
    BY <1>1, <1>4 DEF Smaller
  <2> QED
    BY <1>1, <1>2, <2>1, SliceRange
<1>5. /\ d \in Content /\ Len(d) = IF o < e THEN e - o ELSE 0
      /\ \A j \in 1..(e - o) : d[j] = dest[o + j]
  BY <1>4
<1>6. /\ c \in Content /\ Len(c) = IF o < e THEN e - o ELSE 0
      /\ \A j \in 1..(e - o) : c[j] = final[o + j]
  BY <1>2, <1>4
<1> HIDE DEF d, c
<1>7. ASSUME d = c, NEW i \in (o + 1)..e PROVE dest[i] = final[i]
  <2>1. i - o \in 1..(e - o) /\ o + (i - o) = i
    BY <1>1, <1>2
  <2>2. d[i - o] = dest[i] /\ c[i - o] = final[i]
    BY <1>5, <1>6, <2>1
  <2> QED
    BY <1>7, <2>2
<1>8. ASSUME \A i \in (o + 1)..e : dest[i] = final[i] PROVE d = c
  <2>1. Len(d) = Len(c) /\ d \in Seq(Cell) /\ c \in Seq(Cell)
    BY <1>5, <1>6 DEF Content
  <2>2. ASSUME NEW j \in 1..Len(d) PROVE d[j] = c[j]
    <3>1. j \in 1..(e - o) /\ o + j \in (o + 1)..e
      BY <1>1, <1>2, <1>5
    <3> QED
      BY <1>5, <1>6, <1>8, <3>1
  <2> QED
    BY <2>1, <2>2, SeqEqual
<1> QED
  BY <1>7, <1>8

\* A prefix found to match has the cells of the manifest.
LEMMA VerifiedPrefixMatches ==
  ASSUME NEW final \in Content, NEW dest \in Content,
         NEW i \in 1..VerifiedPrefix(final, dest)
  PROVE  i <= Len(dest) /\ dest[i] = final[i]
<1> DEFINE bad == MismatchedStarts(final, dest)
           n == VerifiedPrefix(final, dest)
<1>1. n \in Nat /\ n <= Len(final) /\ n <= Len(dest)
      /\ Len(final) \in Nat /\ Len(dest) \in Nat
  BY VerifiedPrefixWithin DEF Content
<1>2. bad \subseteq Nat
  BY <1>1 DEF MismatchedStarts, ChunkStarts
<1>3. \A o \in bad : n <= o
  <2>1. CASE bad = {}
    BY <2>1
  <2>2. CASE bad # {}
    BY <1>2, <2>2, LeastElement DEF VerifiedPrefix
  <2> QED
    BY <2>1, <2>2
<1> HIDE DEF n
<1>4. i \in 1..Len(final) /\ i <= n /\ i <= Len(dest)
  BY <1>1 DEF n
<1>5. PICK o \in ChunkStarts(Len(final)) : o < i /\ i <= ChunkEnd(Len(final), o)
  BY <1>1, <1>4, ChunkOfCell
<1>6. o \in Nat /\ ChunkEnd(Len(final), o) \in Nat
  BY <1>1, ChunkEndType DEF ChunkStarts
<1>7. o \notin bad
  BY <1>1, <1>3, <1>4, <1>5, <1>6
<1>8. ChunkMatches(final, dest, o)
  BY <1>7 DEF MismatchedStarts
<1>9. i \in (o + 1)..ChunkEnd(Len(final), o)
  BY <1>4, <1>5, <1>6
<1> QED
  BY <1>4, <1>8, <1>9, MatchingCells

\* What the chunk comparison vouches for (compute_resume_point): the prefix it
\* finds is on disk, is no longer than the file of the manifest, and has that
\* file's cells, every one of them.
THEOREM VerifiedPrefixOnDisk ==
  ASSUME NEW final \in Content, NEW dest \in Content
  PROVE  /\ VerifiedPrefix(final, dest) \in Nat
         /\ VerifiedPrefix(final, dest) <= Len(final)
         /\ VerifiedPrefix(final, dest) <= Len(dest)
         /\ \A i \in 1..VerifiedPrefix(final, dest) : dest[i] = final[i]
BY VerifiedPrefixWithin, VerifiedPrefixMatches

\* It is a number of chunks, or the whole file.
LEMMA VerifiedPrefixOnGrid ==
  ASSUME NEW final \in Content, NEW dest \in Content
  PROVE  \/ VerifiedPrefix(final, dest) = Len(final)
         \/ VerifiedPrefix(final, dest) % ChunkSize = 0
<1> DEFINE bad == MismatchedStarts(final, dest)
<1>1. bad \subseteq ChunkStarts(Len(final)) /\ bad \subseteq Nat
  BY DEF MismatchedStarts, ChunkStarts, Content
<1>2. CASE bad = {}
  BY <1>2 DEF VerifiedPrefix
<1>3. CASE bad # {}
  <2>1. Min(bad) \in ChunkStarts(Len(final))
    BY <1>1, <1>3, LeastElement
  <2> QED
    BY <1>3, <2>1 DEF VerifiedPrefix, ChunkStarts
<1> QED
  BY <1>2, <1>3

\* It does not get shorter as long as its cells stay what they are.
LEMMA VerifiedPrefixGrows ==
  ASSUME NEW final \in Content, NEW old \in Content, NEW new \in Content,
         \A i \in 1..VerifiedPrefix(final, old) : i <= Len(new) /\ new[i] = final[i]
  PROVE  VerifiedPrefix(final, old) <= VerifiedPrefix(final, new)
<1> DEFINE n == VerifiedPrefix(final, old)
           bad == MismatchedStarts(final, new)
<1>1. n \in Nat /\ n <= Len(final) /\ Len(final) \in Nat /\ Len(new) \in Nat
      /\ (n = Len(final) \/ n % ChunkSize = 0)
  BY VerifiedPrefixWithin, VerifiedPrefixOnGrid DEF Content
<1>2. \A i \in 1..n : i <= Len(new) /\ new[i] = final[i]
  OBVIOUS
<1> HIDE DEF n
<1>3. ASSUME NEW o \in bad PROVE n <= o
  <2>1. o \in ChunkStarts(Len(final)) /\ o \in Nat /\ o % ChunkSize = 0
        /\ o < Len(final)
    BY <1>1 DEF MismatchedStarts, ChunkStarts
  <2> DEFINE e == ChunkEnd(Len(final), o)
  <2>2. SUFFICES ASSUME o < n PROVE ChunkMatches(final, new, o)
    BY <1>1, <2>1 DEF MismatchedStarts
  <2>3. e \in Nat /\ e <= n
    <3>1. CASE n = Len(final)
      BY <1>1, <2>1, <3>1, ChunkEndType
    <3>2. CASE n % ChunkSize = 0
      <4>1. o + ChunkSize <= n
        BY <1>1, <2>1, <2>2, <3>2, ChunksApart
      <4>2. o + ChunkSize <= Len(final) /\ e \in Nat
        BY <1>1, <2>1, <4>1, BytesAssumption, ChunkEndType
      <4> QED
        BY <1>1, <2>1, <4>1, <4>2, ChunkEndType
    <3> QED
      BY <1>1, <3>1, <3>2
  <2> HIDE DEF e
  <2>4. e <= Len(new)
    <3>1. CASE e = 0
      BY <1>1, <3>1
    <3>2. CASE e # 0
      <4>1. e \in 1..n
        BY <1>1, <2>3, <3>2
      <4> QED
        BY <1>2, <4>1
    <3> QED
      BY <3>1, <3>2
  <2>5. \A i \in (o + 1)..e : new[i] = final[i]
    <3> SUFFICES ASSUME NEW i \in (o + 1)..e PROVE new[i] = final[i]
      OBVIOUS
    <3>1. i \in 1..n
      BY <1>1, <2>1, <2>3
    <3> QED
      BY <1>2, <3>1
  <2> QED
    BY <2>1, <2>4, <2>5, MatchingCells DEF e
<1>4. CASE bad = {}
  BY <1>1, <1>4 DEF VerifiedPrefix, n
<1>5. CASE bad # {}
  <2>1. bad \subseteq Nat
    BY <1>1 DEF MismatchedStarts, ChunkStarts
  <2>2. Min(bad) \in bad
    BY <1>5, <2>1, LeastElement
  <2>3. VerifiedPrefix(final, new) = Min(bad)
    BY <1>5 DEF VerifiedPrefix
  <2> QED
    BY <1>3, <2>2, <2>3 DEF n
<1> QED
  BY <1>4, <1>5

\* So is the prefix that is kept, read or not.
LEMMA TrustedPrefixOnDisk ==
  ASSUME NEW final \in Content, NEW dest \in Content,
         NEW voucher \in {NoSidecar} \cup [size: Nat, chunks: Nat]
  PROVE  /\ TrustedPrefix(final, dest, voucher) \in Nat
         /\ TrustedPrefix(final, dest, voucher) <= Len(final)
         /\ TrustedPrefix(final, dest, voucher) <= Len(dest)
<1>1. Len(final) \in Nat /\ Len(dest) \in Nat
  BY DEF Content
<1>2. CASE SidecarValid(voucher, final, dest)
  <2> DEFINE n == Smaller(ClaimedPrefix(voucher), Len(final))
  <2>1. voucher \in [size: Nat, chunks: Nat]
    BY <1>2 DEF SidecarValid
  <2>2. ClaimedPrefix(voucher) \in Nat
    BY <2>1, BytesAssumption DEF ClaimedPrefix
  <2>3. n \in Nat /\ n <= Len(final)
    BY <1>1, <2>2 DEF Smaller
  <2>4. n <= Len(dest)
    BY <1>1, <1>2, <2>3 DEF SidecarValid
  <2> QED
    BY <1>2, <2>3, <2>4 DEF TrustedPrefix
<1>3. CASE ~ SidecarValid(voucher, final, dest)
  BY <1>3, VerifiedPrefixWithin DEF TrustedPrefix
<1> QED
  BY <1>2, <1>3

\* As long as what a sidecar of the entry claims is so, the prefix that is kept
\* has the cells of the manifest.
LEMMA TrustedPrefixMatches ==
  ASSUME NEW final \in Content, NEW dest \in Content,
         NEW voucher \in {NoSidecar} \cup [size: Nat, chunks: Nat],
         voucher # NoSidecar /\ voucher.size = Len(final) =>
           \A i \in 1..Smaller(ClaimedPrefix(voucher), Len(final)) :
             i <= Len(dest) => dest[i] = final[i],
         NEW i \in 1..TrustedPrefix(final, dest, voucher)
  PROVE  i <= Len(dest) /\ dest[i] = final[i]
<1>1. CASE SidecarValid(voucher, final, dest)
  <2>1. TrustedPrefix(final, dest, voucher) = Smaller(ClaimedPrefix(voucher), Len(final))
    BY <1>1 DEF TrustedPrefix
  <2>2. i <= Len(dest)
    BY TrustedPrefixOnDisk DEF Content
  <2>3. voucher # NoSidecar /\ voucher.size = Len(final)
    BY <1>1 DEF SidecarValid
  <2> QED
    BY <2>1, <2>2, <2>3
<1>2. CASE ~SidecarValid(voucher, final, dest)
  BY <1>2, VerifiedPrefixMatches DEF TrustedPrefix
<1> QED
  BY <1>1, <1>2

\* The prefix that is kept is nothing, a chunk at least, or the whole file.
LEMMA TrustedPrefixWhole ==
  ASSUME NEW final \in Content, NEW dest \in Content,
         NEW voucher \in {NoSidecar} \cup [size: Nat, chunks: Nat]
  PROVE  \/ TrustedPrefix(final, dest, voucher) = 0
         \/ TrustedPrefix(final, dest, voucher) = Len(final)
         \/ TrustedPrefix(final, dest, voucher) >= ChunkSize
<1>1. ChunkSize \in Nat /\ ChunkSize > 0 /\ 0 % ChunkSize = 0 /\ Len(final) \in Nat
  BY BytesAssumption DEF Content
<1>2. CASE SidecarValid(voucher, final, dest)
  <2> DEFINE c == voucher.chunks
  <2>1. c \in Nat
    BY <1>2 DEF SidecarValid
  <2>2. TrustedPrefix(final, dest, voucher) = Smaller(c * ChunkSize, Len(final))
    BY <1>2 DEF TrustedPrefix, ClaimedPrefix
  <2> HIDE DEF c
  <2>3. CASE c = 0
    BY <1>1, <2>2, <2>3 DEF Smaller
  <2>4. CASE c # 0
    <3>1. c - 1 \in Nat /\ c * ChunkSize = ChunkSize + ChunkSize * (c - 1)
      BY <1>1, <2>1, <2>4
    <3>2. ChunkSize * (c - 1) \in Nat
      BY <3>1, MultipleOfChunk
    <3>3. c * ChunkSize >= ChunkSize
      BY <1>1, <3>1, <3>2
    <3> QED
      BY <2>2, <3>3 DEF Smaller
  <2> QED
    BY <2>3, <2>4
<1>3. CASE ~SidecarValid(voucher, final, dest)
  <2> DEFINE n == VerifiedPrefix(final, dest)
  <2>1. n \in Nat /\ (n = Len(final) \/ n % ChunkSize = 0)
    BY VerifiedPrefixWithin, VerifiedPrefixOnGrid
  <2>2. TrustedPrefix(final, dest, voucher) = n
    BY <1>3 DEF TrustedPrefix
  <2> HIDE DEF n
  <2>3. ASSUME n # 0, n # Len(final) PROVE n >= ChunkSize
    <3>1. 0 + ChunkSize <= n
      BY <1>1, <2>1, <2>3, ChunksApart
    <3> QED
      BY <1>1, <2>1, <3>1
  <2> QED
    BY <2>2, <2>3
<1> QED
  BY <1>2, <1>3

\* Two files that agree on their first n cells have the same first slice.
LEMMA SlicesAgree ==
  ASSUME NEW b \in Content, NEW c \in Content, NEW n \in Nat,
         n <= Len(b), n <= Len(c), \A i \in 1..n : b[i] = c[i]
  PROVE  Slice(b, 0, n) = Slice(c, 0, n)
<1>1. Len(b) \in Nat /\ Len(c) \in Nat
  BY DEF Content
<1>2. ASSUME NEW d \in Content, n <= Len(d)
      PROVE  /\ Slice(d, 0, n) \in Seq(Cell) /\ Len(Slice(d, 0, n)) = n
             /\ \A i \in 1..n : Slice(d, 0, n)[i] = d[i]
  <2>1. n = Smaller(n, Len(d)) /\ 0 \in Nat
    BY <1>2 DEF Smaller, Content
  <2>2. /\ Slice(d, 0, n) \in Content
        /\ Len(Slice(d, 0, n)) = IF 0 < n THEN n - 0 ELSE 0
        /\ \A j \in 1..(n - 0) : Slice(d, 0, n)[j] = d[0 + j]
    BY <2>1, SliceRange
  <2> QED
    BY <2>2 DEF Content
<1>3. /\ Slice(b, 0, n) \in Seq(Cell) /\ Len(Slice(b, 0, n)) = n
      /\ Slice(c, 0, n) \in Seq(Cell) /\ Len(Slice(c, 0, n)) = n
      /\ \A i \in 1..n : Slice(b, 0, n)[i] = b[i] /\ Slice(c, 0, n)[i] = c[i]
  BY <1>2
<1>4. \A i \in 1..n : Slice(b, 0, n)[i] = Slice(c, 0, n)[i]
  BY <1>3
<1> QED
  BY <1>3, <1>4, SeqEqual

\* A session resumes where the hasher that was built for it stands, and the
\* destination begins with what that hasher was fed.
LEMMA ResumePointBegins ==
  ASSUME NEW final \in Content, NEW dest \in {NoFile} \cup Content,
         NEW voucher \in {NoSidecar} \cup [size: Nat, chunks: Nat]
  PROVE  LET point == ResumePoint(final, dest, voucher)
         IN  /\ point \in [off: Nat, complete: BOOLEAN, hash: Content]
             /\ point.off = Len(point.hash)
             /\ point.off <= Len(final)
             /\ Begins(OnDisk(dest), point.hash)
<1> DEFINE fresh == [off |-> 0, complete |-> FALSE, hash |-> << >>]
           n == TrustedPrefix(final, dest, voucher)
           hash == HashedPrefix(dest, n)
<1>1. Len(final) \in Nat /\ << >> \in Content /\ Len(<< >>) = 0
  BY DEF Content
<1>2. OnDisk(dest) \in Content /\ Begins(OnDisk(dest), << >>)
  BY <1>1 DEF OnDisk, Begins, Content
<1>3. CASE dest = NoFile
  <2>1. ResumePoint(final, dest, voucher) = fresh
    BY <1>3 DEF ResumePoint
  <2> QED
    BY <1>1, <1>2, <2>1
<1>4. CASE dest # NoFile /\ final = << >>
  <2>1. ResumePoint(final, dest, voucher) =
          [off |-> 0, complete |-> dest = << >>, hash |-> << >>]
    BY <1>4 DEF ResumePoint
  <2> QED
    BY <1>1, <1>2, <2>1
<1>5. CASE dest # NoFile /\ final # << >>
  <2>1. dest \in Content /\ OnDisk(dest) = dest
    BY <1>5 DEF OnDisk
  <2>2. n \in Nat /\ n <= Len(final) /\ n <= Len(dest)
    BY <2>1, TrustedPrefixOnDisk
  <2>3. ResumePoint(final, dest, voucher) =
          [off |-> n, complete |-> IsComplete(final, dest, n), hash |-> hash]
    BY <1>5 DEF ResumePoint
  <2> HIDE DEF n
  <2>4. hash \in Content /\ Len(hash) = Smaller(n, Len(dest)) /\ Begins(dest, hash)
    BY <2>1, <2>2, SliceCells DEF HashedPrefix
  <2>5. Len(hash) = n
    BY <2>1, <2>2, <2>4 DEF Smaller, Content
  <2>6. IsComplete(final, dest, n) \in BOOLEAN
    BY DEF IsComplete
  <2> HIDE DEF hash
  <2> QED
    BY <2>1, <2>2, <2>3, <2>4, <2>5, <2>6
<1> QED
  BY <1>3, <1>4, <1>5

\* As long as what a sidecar of the entry claims is so, the hasher of a resumed
\* session has been fed the file's cells, a file reported complete is the file,
\* and a session starts over only where no chunk can be kept.
LEMMA ResumePointMatches ==
  ASSUME NEW final \in Content, NEW dest \in {NoFile} \cup Content,
         NEW voucher \in {NoSidecar} \cup [size: Nat, chunks: Nat],
         voucher # NoSidecar /\ dest # NoFile /\ voucher.size = Len(final) =>
           \A i \in 1..Smaller(ClaimedPrefix(voucher), Len(final)) :
             i <= Len(dest) => dest[i] = final[i]
  PROVE  LET point == ResumePoint(final, dest, voucher)
         IN  /\ Begins(final, point.hash)
             /\ point.complete => dest = final
             /\ point.hash = << >> /\ (voucher # NoSidecar => voucher.chunks > 0) =>
                  VerifiedPrefix(final, OnDisk(dest)) = 0
<1> DEFINE n == TrustedPrefix(final, dest, voucher)
           hash == HashedPrefix(dest, n)
           point == ResumePoint(final, dest, voucher)
<1>1. /\ Len(final) \in Nat /\ << >> \in Content /\ Len(<< >>) = 0
      /\ Begins(final, << >>) /\ OnDisk(dest) \in Content
  BY DEF Content, Begins, OnDisk
<1>2. VerifiedPrefix(final, OnDisk(dest)) \in Nat
      /\ VerifiedPrefix(final, OnDisk(dest)) <= Len(final)
      /\ VerifiedPrefix(final, OnDisk(dest)) <= Len(OnDisk(dest))
  BY <1>1, VerifiedPrefixWithin
<1>3. CASE dest = NoFile
  <2>1. point = [off |-> 0, complete |-> FALSE, hash |-> << >>]
    BY <1>3 DEF ResumePoint
  <2>2. VerifiedPrefix(final, OnDisk(dest)) = 0
    BY <1>1, <1>2, <1>3 DEF OnDisk
  <2> QED
    BY <1>1, <2>1, <2>2
<1>4. CASE dest # NoFile /\ final = << >>
  <2>1. point = [off |-> 0, complete |-> dest = << >>, hash |-> << >>]
    BY <1>4 DEF ResumePoint
  <2>2. VerifiedPrefix(final, OnDisk(dest)) = 0
    BY <1>1, <1>2, <1>4
  <2>3. point.hash = << >> /\ (point.complete => dest = << >>)
    <3>1. CASE dest = << >>
      BY <2>1, <3>1
    <3>2. CASE dest # << >>
      <4>1. point = [off |-> 0, complete |-> FALSE, hash |-> << >>]
        BY <2>1, <3>2
      <4> QED
        BY <4>1
    <3> QED
      BY <3>1, <3>2
  <2> HIDE DEF point
  <2> QED
    BY <1>1, <1>4, <2>2, <2>3 DEF point
<1>5. CASE dest # NoFile /\ final # << >>
  <2>1. dest \in Content /\ OnDisk(dest) = dest /\ Len(dest) \in Nat
    BY <1>5 DEF OnDisk, Content
  <2>2. n \in Nat /\ n <= Len(final) /\ n <= Len(dest)
    BY <2>1, TrustedPrefixOnDisk
  <2>3. point = [off |-> n, complete |-> IsComplete(final, dest, n), hash |-> hash]
    BY <1>5 DEF ResumePoint
  <2>4. \A i \in 1..n : i <= Len(dest) /\ dest[i] = final[i]
    BY <1>5, <2>1, TrustedPrefixMatches
  <2>5. SidecarValid(voucher, final, dest) =>
          n = Smaller(voucher.chunks * ChunkSize, Len(final))
    BY DEF TrustedPrefix, ClaimedPrefix
  <2>6. ~SidecarValid(voucher, final, dest) => n = VerifiedPrefix(final, dest)
    BY DEF TrustedPrefix
  <2> HIDE DEF n
  <2>7. hash \in Content /\ Len(hash) = Smaller(n, Len(dest)) /\ Begins(dest, hash)
    BY <2>1, <2>2, SliceCells DEF HashedPrefix
  <2>8. Len(hash) = n /\ DOMAIN hash = 1..n
    BY <2>1, <2>2, <2>7 DEF Smaller, Content
  <2>9. Begins(final, hash)
    BY <2>2, <2>4, <2>7, <2>8 DEF Begins
  <2>10. ASSUME IsComplete(final, dest, n) PROVE dest = final
    <3>1. n = Len(final) /\ Len(dest) = Len(final)
      BY <2>10 DEF IsComplete
    <3>2. \A i \in 1..Len(final) : dest[i] = final[i]
      BY <2>4, <3>1
    <3>3. dest \in Seq(Cell) /\ final \in Seq(Cell)
      BY <2>1 DEF Content
    <3> QED
      BY <3>1, <3>2, <3>3, SeqEqual
  <2>11. ASSUME hash = << >>, voucher # NoSidecar => voucher.chunks > 0
         PROVE  VerifiedPrefix(final, dest) = 0
    <3>1. n = 0
      BY <2>8, <2>11
    <3>2. ~SidecarValid(voucher, final, dest)
      <4> SUFFICES ASSUME SidecarValid(voucher, final, dest) PROVE FALSE
        OBVIOUS
      <4> DEFINE c == voucher.chunks
      <4>1. c \in Nat /\ c > 0
        BY <2>11 DEF SidecarValid
      <4>2. Smaller(c * ChunkSize, Len(final)) = 0
        BY <2>5, <3>1
      <4>3. Len(final) # 0
        BY <1>5 DEF Content
      <4> HIDE DEF c
      <4>4. c * ChunkSize > 0
        <5>1. c - 1 \in Nat /\ ChunkSize * (c - 1) \in Nat
          BY <4>1, MultipleOfChunk
        <5>2. c * ChunkSize = ChunkSize * (c - 1) + ChunkSize
          BY <4>1, BytesAssumption
        <5> QED
          BY <5>1, <5>2, BytesAssumption
      <4> QED
        BY <1>1, <4>2, <4>3, <4>4 DEF Smaller
    <3> QED
      BY <2>6, <3>1, <3>2
  <2> HIDE DEF hash, point
  <2> QED
    BY <2>1, <2>3, <2>9, <2>10, <2>11 DEF point
<1> QED
  BY <1>3, <1>4, <1>5

\* A hasher short of a chunk has been fed nothing, or all of the file.
LEMMA ResumePointWhole ==
  ASSUME NEW final \in Content, NEW dest \in {NoFile} \cup Content,
         NEW voucher \in {NoSidecar} \cup [size: Nat, chunks: Nat]
  PROVE  LET n == Len(ResumePoint(final, dest, voucher).hash)
         IN  n = 0 \/ n = Len(final) \/ n >= ChunkSize
<1> DEFINE n == TrustedPrefix(final, dest, voucher)
           hash == HashedPrefix(dest, n)
<1>1. CASE dest = NoFile \/ final = << >>
  <2>1. ResumePoint(final, dest, voucher).hash = << >>
    BY <1>1 DEF ResumePoint
  <2> QED
    BY <2>1
<1>2. CASE dest # NoFile /\ final # << >>
  <2>1. dest \in Content /\ Len(dest) \in Nat
    BY <1>2 DEF Content
  <2>2. n \in Nat /\ n <= Len(dest) /\ (n = 0 \/ n = Len(final) \/ n >= ChunkSize)
    BY <2>1, TrustedPrefixOnDisk, TrustedPrefixWhole
  <2>3. ResumePoint(final, dest, voucher) =
          [off |-> n, complete |-> IsComplete(final, dest, n), hash |-> hash]
    BY <1>2 DEF ResumePoint
  <2> HIDE DEF n
  <2>4. Len(hash) = Smaller(n, Len(dest))
    BY <2>1, <2>2, SliceCells DEF HashedPrefix
  <2>5. Len(hash) = n
    BY <2>1, <2>2, <2>4 DEF Smaller
  <2> HIDE DEF hash
  <2> QED
    BY <2>2, <2>3, <2>5
<1> QED
  BY <1>1, <1>2

\* The chunks asked for are chunks of the file.
LEMMA BadStartsType ==
  ASSUME NEW final \in Content, NEW dest
  PROVE  BadStarts(final, dest) \subseteq Nat
<1>1. Len(final) \in Nat
  BY DEF Content
<1>2. ChunkStarts(Len(final)) \subseteq Nat
  BY <1>1 DEF ChunkStarts
<1> QED
  BY <1>2 DEF BadStarts, MismatchedStarts

-----------------------------------------------------------------------------
(* Types.                                                                  *)

\* What is written to the connection is queued or lost.
LEMMA SentType ==
  /\ \A q \in Seq(ToReceiver), m \in ToReceiver :
       up \in BOOLEAN => Sent(q, <<m>>) \in Seq(ToReceiver)
  /\ \A q \in Seq(ToSender), m \in ToSender :
       up \in BOOLEAN => Sent(q, <<m>>) \in Seq(ToSender)
BY DEF Sent

\* What is left of a queue once its head is read.
LEMMA TailType ==
  /\ \A q \in Seq(ToReceiver) :
       q # << >> => Head(q) \in ToReceiver /\ Tail(q) \in Seq(ToReceiver)
  /\ \A q \in Seq(ToSender) :
       q # << >> => Head(q) \in ToSender /\ Tail(q) \in Seq(ToSender)
OBVIOUS

\* A side at rest, or about to begin, is a session.
LEMMA FreshType ==
  /\ \A pc \in SenderStates : FreshSender(pc) \in SenderSession
  /\ \A pc \in ReceiverStates, outcome \in Outcomes :
       FreshReceiver(pc, outcome) \in ReceiverSession
BY TransferAssumption DEF FreshSender, FreshReceiver, SenderSession, ReceiverSession, Content

\* Both sides have the fields their declaration names.
LEMMA SessionFields ==
  ASSUME TypeOK
  PROVE  /\ snd.cur \in Nat /\ snd.end \in Nat /\ snd.todo \subseteq Nat
         /\ snd.hash \in Content /\ snd.attempts \in Nat
         /\ rcv.cur \in Nat /\ rcv.need \subseteq Nat
         /\ rcv.hash \in Content /\ rcv.attempts \in Nat
BY TransferAssumption DEF TypeOK, SenderSession, ReceiverSession

\* A sender that starts a pass is in a session.
LEMMA StreamType ==
  ASSUME TypeOK,
         NEW from \in Nat, NEW hash \in Content, NEW attempts \in 0..MaxRetries,
         NEW frames, Stream(from, hash, attempts, frames)
  PROVE  snd' \in SenderSession
<1>1. Len(entry) \in Nat /\ snd \in SenderSession
  BY DEF TypeOK, Content
<1>2. snd' = [snd EXCEPT !.pc = "stream", !.cur = from, !.end = Len(entry),
                         !.todo = {}, !.hash = hash, !.attempts = attempts]
  BY DEF Stream
<1> QED
  BY <1>1, <1>2 DEF SenderSession, SenderStates

\* The program starts in a typed state.
LEMMA TypeInit == Init => TypeOK
<1> SUFFICES ASSUME Init PROVE TypeOK
  OBVIOUS
<1>1. snd \in SenderSession /\ rcv \in ReceiverSession
  BY FreshType DEF Init, SenderStates, SenderResting, ReceiverStates, ReceiverResting, Outcomes
<1>2. faults \in [drops: 0..MaxDrops, edits: 0..MaxEdits, touches: 0..MaxTouches]
  BY TransferAssumption DEF Init
<1>3. policy \in Policies /\ source \in Content /\ entry \in Content
  BY TransferAssumption DEF Init
<1>4. disk \in {NoFile} \cup Content /\ found \in {NoFile} \cup Content
  BY TransferAssumption DEF Init
<1>5. sidecar = NoSidecar /\ up \in BOOLEAN /\ offered = {}
  BY DEF Init
<1>6. toR \in Seq(ToReceiver) /\ toS \in Seq(ToSender)
  BY DEF Init
<1> QED
  BY <1>1, <1>2, <1>3, <1>4, <1>5, <1>6 DEF TypeOK

\* So does every session.
LEMMA TypeConnect == TypeOK /\ Connect => TypeOK'
<1> SUFFICES ASSUME TypeOK, Connect PROVE TypeOK'
  OBVIOUS
<1>1. snd' \in SenderSession /\ rcv' \in ReceiverSession
  BY FreshType DEF Connect, SenderStates, SenderResting, ReceiverStates, ReceiverResting, Outcomes
<1>2. [type |-> "manifest", entry |-> entry] \in ToReceiver
  BY DEF TypeOK, ToReceiver
<1>3. toR' \in Seq(ToReceiver) /\ toS' \in Seq(ToSender) /\ up' \in BOOLEAN
  BY <1>2 DEF Connect
<1> QED
  BY <1>1, <1>3 DEF Connect, TypeOK, files, fixed

\* No step of the sender touches anything but its session, the frames and what
\* it announced.
LEMMA TypeSender == TypeOK /\ Sender => TypeOK'
<1> SUFFICES ASSUME TypeOK, Sender PROVE TypeOK'
  OBVIOUS
<1> USE DEF files, fixed, wire
<1>0. /\ toR \in Seq(ToReceiver) /\ toS \in Seq(ToSender) /\ up \in BOOLEAN
      /\ snd \in SenderSession /\ entry \in Content /\ source \in Content
  BY DEF TypeOK
<1>1. UNCHANGED <<policy, source, entry, disk, sidecar, rcv, faults, found>>
  BY DEF Sender, SenderAck, SenderDone, SenderChunk, SenderNextRange, SenderEnd,
         SenderResend, SenderRepair, SenderGivesUp, SenderBroken, SenderStops, Stream
<1>2. SUFFICES /\ snd' \in SenderSession
               /\ toR' \in Seq(ToReceiver) /\ toS' \in Seq(ToSender)
               /\ up' \in BOOLEAN /\ offered' \subseteq Content
  BY <1>1 DEF TypeOK
<1>3. CASE SenderAck
  <2> DEFINE off == Head(toS).off
  <2>1. off \in Nat /\ toS' \in Seq(ToSender)
    BY <1>0, <1>3, TailType DEF SenderAck, Hears, ToSender
  <2>2. HashedPrefix(source, off) \in Content
    BY <1>0, <2>1, SliceCells DEF HashedPrefix
  <2>3. StartFrame(off) \in ToReceiver
    BY <2>1 DEF StartFrame, ToReceiver
  <2> HIDE DEF off
  <2>4. Stream(off, HashedPrefix(source, off), 0, <<StartFrame(off)>>)
    BY <1>3 DEF SenderAck, off
  <2>5. toR' \in Seq(ToReceiver)
    BY <1>0, <2>3, <2>4, SentType DEF Stream
  <2>6. snd' \in SenderSession
    BY <2>1, <2>2, <2>4, StreamType, TransferAssumption
  <2> QED
    BY <1>3, <2>1, <2>5, <2>6 DEF SenderAck, TypeOK
<1>4. CASE SenderDone
  <2>1. [type |-> "done"] \in ToReceiver
    BY DEF ToReceiver
  <2>2. toR' \in Seq(ToReceiver) /\ toS' \in Seq(ToSender)
    BY <1>0, <1>4, <2>1, SentType, TailType DEF SenderDone, Hears
  <2>3. snd' \in SenderSession
    BY <1>4, FreshType DEF SenderDone, SenderStates, SenderResting
  <2> QED
    BY <1>4, <2>2, <2>3 DEF SenderDone, TypeOK
<1>5. CASE SenderChunk
  <2> DEFINE want == Smaller(BufferLen, snd.end - snd.cur)
             cells == Slice(source, snd.cur, snd.cur + want)
  <2>1. snd.cur \in Nat /\ snd.end \in Nat /\ snd.cur < snd.end /\ snd.hash \in Content
    BY <1>5, SessionFields DEF SenderChunk
  <2>2. want \in Nat /\ snd.cur + want \in Nat
    BY <2>1, BytesAssumption DEF Smaller, BufferLen
  <2> HIDE DEF want
  <2>3. cells \in Content
    BY <1>0, <2>1, <2>2, SliceCells
  <2> HIDE DEF cells
  <2>4. CASE cells = << >>
    <3>1. SenderStops("failed")
      BY <1>5, <2>4 DEF SenderChunk, cells, want
    <3>2. snd' \in SenderSession
      BY <3>1, FreshType DEF SenderStops, SenderStates, SenderResting
    <3> QED
      BY <1>0, <1>5, <3>1, <3>2 DEF SenderStops, SenderChunk, TypeOK
  <2>5. CASE cells # << >>
    <3>1. /\ toR' = Sent(toR, <<[type |-> "chunk", off |-> snd.cur, cells |-> cells]>>)
          /\ snd' = [snd EXCEPT !.cur = @ + Len(cells), !.hash = @ \o cells]
          /\ UNCHANGED up
      BY <1>5, <2>5 DEF SenderChunk, cells, want
    <3>2. [type |-> "chunk", off |-> snd.cur, cells |-> cells] \in ToReceiver
      BY <2>1, <2>3 DEF ToReceiver
    <3>3. toR' \in Seq(ToReceiver)
      BY <1>0, <3>1, <3>2, SentType
    <3>4. snd.hash \o cells \in Content /\ snd.cur + Len(cells) \in Nat
      BY <2>1, <2>3 DEF Content
    <3>5. snd' \in SenderSession
      BY <1>0, <2>1, <3>1, <3>4 DEF SenderSession
    <3> QED
      BY <1>0, <1>5, <3>1, <3>3, <3>5 DEF SenderChunk, TypeOK
  <2> QED
    BY <2>4, <2>5
<1>6. CASE SenderNextRange
  <2>1. Min(snd.todo) \in Nat
    BY <1>6, SessionFields, LeastElement DEF SenderNextRange
  <2>2. ChunkEnd(Len(entry), Min(snd.todo)) \in Nat
    BY <1>0, <2>1, ChunkEndType DEF Content
  <2>3. snd' \in SenderSession
    BY <1>0, <1>6, <2>1, <2>2 DEF SenderNextRange, SenderSession
  <2> QED
    BY <1>0, <1>6, <2>3 DEF SenderNextRange, TypeOK
<1>7. CASE SenderEnd
  <2>1. [type |-> "end", hash |-> snd.hash] \in ToReceiver
    BY SessionFields DEF ToReceiver
  <2>2. toR' \in Seq(ToReceiver)
    BY <1>0, <1>7, <2>1, SentType DEF SenderEnd
  <2>3. snd' \in SenderSession /\ offered' \subseteq Content
    BY <1>0, <1>7, SessionFields DEF SenderEnd, SenderSession, SenderStates, TypeOK
  <2> QED
    BY <1>0, <1>7, <2>2, <2>3 DEF SenderEnd
<1>8. CASE SenderResend
  <2>1. toS' \in Seq(ToSender)
    BY <1>0, <1>8, TailType DEF SenderResend, Hears
  <2>2. StartFrame(0) \in ToReceiver
    BY DEF StartFrame, ToReceiver
  <2>3. Stream(0, << >>, snd.attempts + 1, <<StartFrame(0)>>)
    BY <1>8 DEF SenderResend
  <2>4. toR' \in Seq(ToReceiver)
    BY <1>0, <2>2, <2>3, SentType DEF Stream
  <2>5. snd.attempts + 1 \in 0..MaxRetries
    BY <1>8, SessionFields, TransferAssumption DEF SenderResend, MayRetry
  <2>6. << >> \in Content
    BY DEF Content
  <2>7. snd' \in SenderSession
    BY <2>3, <2>5, <2>6, StreamType
  <2> QED
    BY <1>0, <1>8, <2>1, <2>4, <2>7 DEF SenderResend, TypeOK
<1>9. CASE SenderRepair
  <2>1. Head(toS).starts \subseteq Nat /\ toS' \in Seq(ToSender)
    BY <1>0, <1>9, TailType DEF SenderRepair, Hears, ToSender
  <2>2. snd.attempts + 1 \in 0..MaxRetries
    BY <1>9, SessionFields, TransferAssumption DEF SenderRepair, MayRetry
  <2>3. snd' \in SenderSession
    BY <1>0, <1>9, <2>1, <2>2 DEF SenderRepair, SenderSession, SenderStates
  <2> QED
    BY <1>0, <1>9, <2>1, <2>3 DEF SenderRepair, TypeOK
<1>10. CASE SenderGivesUp
  <2>1. snd' \in SenderSession
    BY <1>10, FreshType DEF SenderGivesUp, SenderStops, SenderStates, SenderResting
  <2>2. toS' \in Seq(ToSender)
    BY <1>0, <1>10, TailType DEF SenderGivesUp, Hears
  <2> QED
    BY <1>0, <1>10, <2>1, <2>2 DEF SenderGivesUp, SenderStops, TypeOK
<1>11. CASE SenderBroken
  BY <1>0, <1>11, FreshType DEF SenderBroken, SenderStates, SenderResting, TypeOK
<1> QED
  BY <1>3, <1>4, <1>5, <1>6, <1>7, <1>8, <1>9, <1>10, <1>11 DEF Sender

\* The plan of a session is a resume point, whatever the policy.
LEMMA PlannedPointBegins ==
  ASSUME TypeOK
  PROVE  /\ PlannedPoint \in [off: Nat, complete: BOOLEAN, hash: Content]
         /\ PlannedPoint.off = Len(PlannedPoint.hash)
         /\ PlannedPoint.off <= Len(entry)
         /\ Begins(OnDisk(disk), PlannedPoint.hash)
<1> DEFINE point == ResumePoint(entry, disk, sidecar)
<1>1. /\ point \in [off: Nat, complete: BOOLEAN, hash: Content]
      /\ point.off = Len(point.hash) /\ point.off <= Len(entry)
      /\ Begins(OnDisk(disk), point.hash)
  BY ResumePointBegins DEF TypeOK
<1>2. PlannedPoint = IF policy = "overwrite"
                     THEN [point EXCEPT !.off = 0, !.hash = << >>] ELSE point
  BY DEF PlannedPoint
<1> HIDE DEF point
<1>3. << >> \in Content /\ Len(<< >>) = 0 /\ Len(entry) \in Nat
  BY DEF TypeOK, Content
<1>4. Begins(OnDisk(disk), << >>)
  BY DEF TypeOK, OnDisk, Begins, Content
<1>5. CASE policy = "overwrite"
  <2>1. PlannedPoint = [point EXCEPT !.off = 0, !.hash = << >>]
    BY <1>2, <1>5
  <2>2. /\ PlannedPoint.off = 0 /\ PlannedPoint.hash = << >>
        /\ PlannedPoint \in [off: Nat, complete: BOOLEAN, hash: Content]
    BY <1>1, <1>3, <2>1
  <2> QED
    BY <1>3, <1>4, <2>2
<1>6. CASE policy # "overwrite"
  BY <1>1, <1>2, <1>6
<1> QED
  BY <1>5, <1>6

\* The chunks a hasher covers are counted in naturals.
LEMMA ChunkCountType ==
  ASSUME NEW h \in Content
  PROVE  Len(h) \div ChunkSize \in Nat
<1>1. Len(h) \in Nat /\ ChunkSize \in Nat /\ ChunkSize > 0
  BY BytesAssumption DEF Content
<1> QED
  BY <1>1

\* A receiver whose session failed is typed.
LEMMA ReceiverStopsType ==
  ASSUME ReceiverStops
  PROVE  rcv' \in ReceiverSession /\ up' = FALSE
BY FreshType DEF ReceiverStops, ReceiverStates, ReceiverResting, Outcomes

\* No step of the receiver touches anything but its session, the frames, the
\* destination and the sidecar.
LEMMA TypeReceiver ==
  TypeOK /\ HasherCoversDisk /\ OutcomeIsFinal /\ Receiver => TypeOK'
<1> SUFFICES ASSUME TypeOK, HasherCoversDisk, OutcomeIsFinal, Receiver
             PROVE  TypeOK'
  OBVIOUS
<1> USE DEF files, fixed, wire
<1>0. /\ toR \in Seq(ToReceiver) /\ toS \in Seq(ToSender) /\ up \in BOOLEAN
      /\ rcv \in ReceiverSession /\ entry \in Content
      /\ disk \in {NoFile} \cup Content
      /\ sidecar \in {NoSidecar} \cup [size: Nat, chunks: Nat]
  BY DEF TypeOK
<1>1. UNCHANGED <<policy, source, entry, snd, faults, found, offered>>
  BY DEF Receiver, ReceiverManifest, ReceiverStart, ReceiverChunk,
         ReceiverRepairChunk, ReceiverVerified, ReceiverMismatch,
         ReceiverUnrepaired, ReceiverDrain, ReceiverRefuses, ReceiverBroken
<1>2. SUFFICES /\ rcv' \in ReceiverSession
               /\ toR' \in Seq(ToReceiver) /\ toS' \in Seq(ToSender)
               /\ up' \in BOOLEAN
               /\ disk' \in {NoFile} \cup Content
               /\ sidecar' \in {NoSidecar} \cup [size: Nat, chunks: Nat]
  BY <1>1 DEF TypeOK
<1>3. /\ << >> \in Content /\ Len(entry) \in Nat
      /\ OnDisk(disk) \in Content
  BY <1>0 DEF OnDisk, Content
<1>4. CASE ReceiverManifest
  <2> DEFINE point == PlannedPoint
             chunks == VerifiedChunks(point)
  <2>1. point.off \in Nat /\ point.hash \in Content
    BY PlannedPointBegins
  <2>2. chunks \in Nat
    BY <2>1, ChunkCountType DEF VerifiedChunks
  <2>3. toR' \in Seq(ToReceiver) /\ disk' = disk
    BY <1>0, <1>4, TailType DEF ReceiverManifest, Gets
  <2>4. CASE ReceiverStops /\ UNCHANGED <<toS, sidecar>>
    BY <1>0, <2>3, <2>4, ReceiverStopsType
  <2>5. CASE /\ Ack(FALSE, 0) /\ sidecar' = NoSidecar
             /\ rcv' = FreshReceiver("drain", "skipped") /\ UNCHANGED up
    <3>1. [type |-> "ack", accepted |-> FALSE, off |-> 0] \in ToSender
      BY DEF ToSender
    <3>2. toS' \in Seq(ToSender)
      BY <1>0, <2>5, <3>1, SentType DEF Ack
    <3>3. rcv' \in ReceiverSession
      BY <2>5, FreshType DEF ReceiverStates, Outcomes
    <3> QED
      BY <1>0, <2>3, <2>5, <3>2, <3>3
  <2>6. CASE /\ Ack(TRUE, point.off)
             /\ sidecar' = IF chunks = 0 THEN sidecar
                           ELSE [size |-> Len(entry), chunks |-> chunks]
             /\ rcv' = [rcv EXCEPT !.pc = "start", !.hash = point.hash]
             /\ UNCHANGED up
    <3>1. [type |-> "ack", accepted |-> TRUE, off |-> point.off] \in ToSender
      BY <2>1 DEF ToSender
    <3> HIDE DEF point, chunks
    <3>2. toS' \in Seq(ToSender)
      BY <1>0, <2>6, <3>1, SentType DEF Ack
    <3>3. rcv' \in ReceiverSession
      BY <1>0, <2>1, <2>6 DEF ReceiverSession, ReceiverStates
    <3>4. sidecar' \in {NoSidecar} \cup [size: Nat, chunks: Nat]
      BY <1>0, <1>3, <2>2, <2>6
    <3> QED
      BY <1>0, <2>3, <2>6, <3>2, <3>3, <3>4
  <2> QED
    BY <1>4, <2>4, <2>5, <2>6 DEF ReceiverManifest
<1>5. CASE ReceiverStart
  <2> DEFINE off == Head(toR).off
  <2>1. off \in Nat /\ toR' \in Seq(ToReceiver)
    BY <1>0, <1>5, TailType DEF ReceiverStart, Gets, ToReceiver
  <2>2. OpenForResume(disk, off, Len(entry)) \in Content
    BY <1>3, <2>1, SetLenCells DEF OpenForResume
  <2> HIDE DEF off
  <2>3. /\ disk' = OpenForResume(disk, off, Len(entry))
        /\ rcv' = [rcv EXCEPT !.pc = "chunks", !.cur = off]
        /\ UNCHANGED <<sidecar, up, toS>>
    BY <1>5 DEF ReceiverStart, off
  <2>4. rcv' \in ReceiverSession
    BY <1>0, <2>1, <2>3 DEF ReceiverSession, ReceiverStates
  <2> QED
    BY <1>0, <2>1, <2>2, <2>3, <2>4
<1>6. CASE ReceiverChunk
  <2> DEFINE m == Head(toR)
  <2>1. m.cells \in Content /\ toR' \in Seq(ToReceiver)
    BY <1>0, <1>6, TailType DEF ReceiverChunk, Gets, ToReceiver
  <2>2. disk \in Content /\ rcv.cur \in Nat /\ rcv.hash \in Content
    BY <1>6, SessionFields DEF ReceiverChunk, HasherCoversDisk
  <2>3. WriteAt(disk, rcv.cur, m.cells) \in Content
    BY <2>1, <2>2, WriteAtCells
  <2>4. rcv.cur + Len(m.cells) \in Nat /\ rcv.hash \o m.cells \in Content
    BY <2>1, <2>2 DEF Content
  <2> HIDE DEF m
  <2>5. /\ disk' = WriteAt(disk, rcv.cur, m.cells)
        /\ rcv' = [rcv EXCEPT !.cur = @ + Len(m.cells), !.hash = @ \o m.cells]
        /\ UNCHANGED <<sidecar, up, toS>>
    BY <1>6 DEF ReceiverChunk, m
  <2>6. rcv' \in ReceiverSession
    BY <1>0, <2>2, <2>4, <2>5 DEF ReceiverSession
  <2> QED
    BY <1>0, <2>1, <2>3, <2>5, <2>6
<1>7. CASE ReceiverRepairChunk
  <2> DEFINE m == Head(toR)
  <2>1. m.cells \in Content /\ m.off \in Nat /\ toR' \in Seq(ToReceiver)
    BY <1>0, <1>7, TailType DEF ReceiverRepairChunk, Gets, ToReceiver
  <2>2. disk \in Content
    BY <1>7 DEF ReceiverRepairChunk, HasherCoversDisk
  <2>3. WriteAt(disk, m.off, m.cells) \in Content
    BY <2>1, <2>2, WriteAtCells
  <2> HIDE DEF m
  <2>4. /\ disk' = WriteAt(disk, m.off, m.cells)
        /\ rcv' = [rcv EXCEPT !.need = @ \ {m.off}]
        /\ UNCHANGED <<sidecar, up, toS>>
    BY <1>7 DEF ReceiverRepairChunk, m
  <2>5. rcv' \in ReceiverSession
    BY <1>0, <2>4 DEF ReceiverSession
  <2> QED
    BY <1>0, <2>1, <2>3, <2>4, <2>5
<1>8. \A ok \in BOOLEAN : Verdict(ok) => toS' \in Seq(ToSender)
  <2>1. \A ok \in BOOLEAN : [type |-> "verdict", ok |-> ok] \in ToSender
    BY DEF ToSender
  <2> QED
    BY <1>0, <2>1, SentType DEF Verdict
<1>9. CASE ReceiverVerified
  <2>1. rcv' \in ReceiverSession
    BY <1>9, FreshType DEF ReceiverVerified, ReceiverStates, Outcomes
  <2>2. toR' \in Seq(ToReceiver) /\ toS' \in Seq(ToSender)
    BY <1>0, <1>8, <1>9, TailType DEF ReceiverVerified, PassEnds, Gets
  <2> QED
    BY <1>0, <1>9, <2>1, <2>2 DEF ReceiverVerified
<1>10. ExpectResend \in ReceiverSession
  BY <1>0, <1>3 DEF ExpectResend, ReceiverSession, ReceiverStates
<1>11. CASE ReceiverMismatch
  <2> DEFINE bad == BadStarts(entry, disk)
  <2>1. toR' \in Seq(ToReceiver) /\ UNCHANGED <<disk, sidecar, up>>
    BY <1>0, <1>11, TailType DEF ReceiverMismatch, PassEnds, Gets
  <2>2. rcv.attempts + 1 \in 0..(MaxRetries + 1)
    BY <1>11, SessionFields, TransferAssumption DEF ReceiverMismatch, OutcomeIsFinal
  <2>3. bad \subseteq Nat
    BY <1>0, BadStartsType
  <2> HIDE DEF bad
  <2>4. CASE /\ toS' = Sent(toS, <<[type |-> "request", starts |-> bad]>>)
             /\ rcv' = [rcv EXCEPT !.pc = "repair", !.need = bad, !.attempts = @ + 1]
    <3>1. [type |-> "request", starts |-> bad] \in ToSender
      BY <2>3 DEF ToSender
    <3>2. toS' \in Seq(ToSender)
      BY <1>0, <2>4, <3>1, SentType
    <3>3. rcv' \in ReceiverSession
      BY <1>0, <2>2, <2>3, <2>4 DEF ReceiverSession, ReceiverStates
    <3> QED
      BY <1>0, <2>1, <3>2, <3>3
  <2>5. CASE /\ Verdict(FALSE)
             /\ rcv' = IF Exhausted(rcv.attempts + 1)
                       THEN FreshReceiver("drain", "failed")
                       ELSE [ExpectResend EXCEPT !.attempts = @ + 1]
    <3>1. FreshReceiver("drain", "failed") \in ReceiverSession
      BY FreshType DEF ReceiverStates, Outcomes
    <3>2. [ExpectResend EXCEPT !.attempts = @ + 1] \in ReceiverSession
      BY <1>0, <1>3, <2>2 DEF ExpectResend, ReceiverSession, ReceiverStates
    <3>3. rcv' \in ReceiverSession
      BY <2>5, <3>1, <3>2
    <3> QED
      BY <1>0, <1>8, <2>1, <2>5, <3>3
  <2> QED
    BY <1>11, <2>4, <2>5 DEF ReceiverMismatch, bad
<1>12. CASE ReceiverUnrepaired
  <2>1. toR' \in Seq(ToReceiver) /\ UNCHANGED <<disk, sidecar, up>>
    BY <1>0, <1>12, TailType DEF ReceiverUnrepaired, PassEnds, Gets
  <2>2. FreshReceiver("drain", "failed") \in ReceiverSession
    BY FreshType DEF ReceiverStates, Outcomes
  <2>3. rcv' \in ReceiverSession /\ toS' \in Seq(ToSender)
    BY <1>0, <1>8, <1>10, <1>12, <2>2 DEF ReceiverUnrepaired
  <2> QED
    BY <1>0, <2>1, <2>3
<1>13. CASE ReceiverDrain
  <2>1. rcv' \in ReceiverSession
    BY <1>0, <1>13 DEF ReceiverDrain, ReceiverSession, ReceiverStates, ReceiverResting
  <2>2. toR' \in Seq(ToReceiver)
    BY <1>0, <1>13, TailType DEF ReceiverDrain
  <2>3. up' \in BOOLEAN
    BY <1>13 DEF ReceiverDrain
  <2> QED
    BY <1>0, <1>13, <2>1, <2>2, <2>3 DEF ReceiverDrain
<1>14. CASE ReceiverRefuses
  <2>1. toR' \in Seq(ToReceiver)
    BY <1>0, <1>14, TailType DEF ReceiverRefuses
  <2> QED
    BY <1>0, <1>14, <2>1, ReceiverStopsType DEF ReceiverRefuses
<1>15. CASE ReceiverBroken
  BY <1>0, <1>15, FreshType DEF ReceiverBroken, ReceiverStates, ReceiverResting, Outcomes
<1> QED
  BY <1>4, <1>5, <1>6, <1>7, <1>9, <1>11, <1>12, <1>13, <1>14, <1>15 DEF Receiver

\* The environment keeps to the files and faults it is given.
LEMMA TypeEnvironment == TypeOK /\ Environment => TypeOK'
<1> SUFFICES ASSUME TypeOK, Environment PROVE TypeOK'
  OBVIOUS
<1> USE DEF files, fixed, wire
<1>1. CASE Drop
  <2>1. faults' \in [drops: 0..MaxDrops, edits: 0..MaxEdits, touches: 0..MaxTouches]
    BY <1>1, TransferAssumption DEF Drop, TypeOK
  <2> QED
    BY <1>1, <2>1 DEF Drop, TypeOK
<1>2. CASE EditSource
  <2>1. faults' \in [drops: 0..MaxDrops, edits: 0..MaxEdits, touches: 0..MaxTouches]
    BY <1>2, TransferAssumption DEF EditSource, TypeOK
  <2>2. source' \in Content
    BY <1>2, TransferAssumption DEF EditSource
  <2> QED
    BY <1>2, <2>1, <2>2 DEF EditSource, TypeOK
<1>3. CASE RebuildManifest
  BY <1>3 DEF RebuildManifest, TypeOK
<1>4. CASE TouchDisk
  <2>1. faults' \in [drops: 0..MaxDrops, edits: 0..MaxEdits, touches: 0..MaxTouches]
    BY <1>4, TransferAssumption DEF TouchDisk, TypeOK
  <2>2. disk' \in {NoFile} \cup Content /\ found' = disk'
    BY <1>4, TransferAssumption DEF TouchDisk
  <2> QED
    BY <1>4, <2>1, <2>2 DEF TouchDisk, TypeOK
<1> QED
  BY <1>1, <1>2, <1>3, <1>4 DEF Environment

-----------------------------------------------------------------------------
(* The passes of a session.                                                *)

\* The strengthening of VerifiedIsOffered that every step preserves.
IInv == TypeOK /\ PassesInStep /\ VerifiedIsOffered

\* A frame in flight after a write was in flight before it, or is the one
\* written, and then it is the last.
LEMMA SentFrames ==
  ASSUME TypeOK, NEW m \in ToReceiver, toR' = Sent(toR, <<m>>),
         NEW i \in DOMAIN toR'
  PROVE  \/ i \in DOMAIN toR /\ toR'[i] = toR[i]
         \/ i = Len(toR) + 1 /\ i = Len(toR') /\ toR'[i] = m
<1>1. toR \in Seq(ToReceiver)
  BY DEF TypeOK
<1>2. CASE up
  <2>1. toR' = toR \o <<m>>
    BY <1>2 DEF Sent
  <2>2. /\ Len(toR') = Len(toR) + 1 /\ DOMAIN toR' = 1..(Len(toR) + 1)
        /\ DOMAIN toR = 1..Len(toR) /\ Len(toR) \in Nat
    BY <1>1, <2>1
  <2>3. CASE i = Len(toR) + 1
    BY <1>1, <2>1, <2>2, <2>3
  <2>4. CASE i # Len(toR) + 1
    BY <1>1, <2>1, <2>2, <2>4
  <2> QED
    BY <2>3, <2>4
<1>3. CASE ~ up
  BY <1>3 DEF Sent
<1> QED
  BY <1>2, <1>3

\* Reading the head leaves the other frames, each one place further on.
LEMMA TailFrames ==
  ASSUME TypeOK, toR # << >>, toR' = Tail(toR)
  PROVE  /\ 1 \in DOMAIN toR /\ toR[1] = Head(toR)
         /\ Len(toR') = Len(toR) - 1 /\ Len(toR) \in Nat
         /\ \A i \in DOMAIN toR' :
              i \in Nat /\ i >= 1 /\ i + 1 \in DOMAIN toR /\ toR'[i] = toR[i + 1]
BY DEF TypeOK

\* The sender reads the only answer there is.
LEMMA AnswerRead ==
  ASSUME TypeOK, Turns, toS # << >>, toS' = Tail(toS)
  PROVE  toS' = << >>
BY DEF TypeOK, Turns

\* What a step of the sender has to keep.
LEMMA SenderFrame ==
  ASSUME IInv, UNCHANGED <<disk, entry, rcv>>, offered \subseteq offered',
         Turns', Answers', Settlements', StartsOnTime', EndsOnTime'
  PROVE  (PassesInStep /\ VerifiedIsOffered)'
BY DEF IInv, PassesInStep, VerifiedIsOffered, HasherCoversDisk, OutcomeIsFinal

\* An answer has been read: nothing is in flight but what the sender writes in
\* reply, the opening of the pass that was asked for.
LEMMA SenderReplies ==
  ASSUME IInv, UNCHANGED <<disk, entry, rcv, offered>>,
         toS # << >>, toS' = Tail(toS), NEW m \in ToReceiver,
         \/ toR' = toR
         \/ toR' = Sent(toR, <<m>>),
         m.type # "end",
         m.type = "start" /\ rcv.pc \in {"start", "repair"} =>
           rcv.pc = "start" /\ m.off = Len(rcv.hash)
  PROVE  (PassesInStep /\ VerifiedIsOffered)'
<1> USE DEF IInv, PassesInStep
<1>1. toS' = << >>
  BY AnswerRead
<1>2. Turns' /\ Answers' /\ Settlements'
  BY <1>1 DEF Turns, Answers, Settlements, Reading
<1>3. rcv.pc \in {"start", "repair"} => toR = << >>
  BY DEF Turns, Reading
<1>4. rcv.pc \notin {"manifest", "chunks"}
  BY DEF Turns
<1>5. ASSUME NEW i \in DOMAIN toR'
      PROVE  \/ i \in DOMAIN toR /\ toR'[i] = toR[i]
             \/ i = Len(toR) + 1 /\ i = Len(toR') /\ toR'[i] = m
  BY SentFrames
<1>6. rcv.pc \in {"start", "chunks", "repair", "manifest"}
        \/ rcv.pc \in ReceiverResting \cup {"drain"}
  BY DEF TypeOK, ReceiverSession, ReceiverStates
<1>7. StartsOnTime'
  <2> SUFFICES ASSUME NEW i \in DOMAIN toR', toR'[i].type = "start",
                      rcv.pc \notin ReceiverResting \cup {"drain"}
               PROVE  rcv.pc = "start" /\ i = 1 /\ toR'[i].off = Len(rcv.hash)
    BY DEF StartsOnTime
  <2>1. toR = << >> /\ i = 1 /\ toR'[i] = m
    BY <1>3, <1>4, <1>5, <1>6
  <2> QED
    BY <1>4, <1>6, <2>1
<1>8. EndsOnTime'
  <2> SUFFICES ASSUME NEW i \in DOMAIN toR', toR'[i].type = "end"
               PROVE  toR'[i].hash \in offered /\ rcv.pc \notin Reading
    BY DEF EndsOnTime
  <2>1. i \in DOMAIN toR /\ toR'[i] = toR[i]
    BY <1>5
  <2> QED
    BY <1>3, <1>4, <2>1 DEF EndsOnTime, Reading
<1> QED
  BY <1>2, <1>7, <1>8, SenderFrame

\* Every step of the sender keeps the passes in step.
LEMMA SenderKeeps == IInv /\ Sender => (PassesInStep /\ VerifiedIsOffered)'
<1> SUFFICES ASSUME IInv, Sender PROVE (PassesInStep /\ VerifiedIsOffered)'
  OBVIOUS
<1> USE DEF files, fixed, wire
<1>0. TypeOK /\ Turns /\ Answers /\ Settlements /\ StartsOnTime /\ EndsOnTime
  BY DEF IInv, PassesInStep
<1>1. CASE SenderAck
  <2> DEFINE off == Head(toS).off
             m == StartFrame(off)
  <2>1. off \in Nat /\ m \in ToReceiver /\ m.type = "start" /\ m.off = off
    BY <1>0, <1>1, TailType DEF SenderAck, Hears, ToSender, ToReceiver, StartFrame, TypeOK
  <2>2. rcv.pc = "start" => off = Len(rcv.hash)
    BY <1>0, <1>1 DEF SenderAck, Hears, Answers
  <2>3. rcv.pc # "repair"
    BY <1>0, <1>1 DEF SenderAck, Hears, Answers
  <2>4. toR' = Sent(toR, <<m>>)
    BY <1>1 DEF SenderAck, Stream
  <2> HIDE DEF off, m
  <2> QED
    BY <1>1, <2>1, <2>2, <2>3, <2>4, SenderReplies DEF SenderAck, Hears
<1>2. CASE SenderDone
  <2>1. [type |-> "done"] \in ToReceiver
    BY DEF ToReceiver
  <2> QED
    BY <1>2, <2>1, SenderReplies DEF SenderDone, Hears
<1>3. CASE SenderChunk
  <2> DEFINE want == Smaller(BufferLen, snd.end - snd.cur)
             cells == Slice(source, snd.cur, snd.cur + want)
             m == [type |-> "chunk", off |-> snd.cur, cells |-> cells]
  <2>1. snd.pc = "stream" /\ UNCHANGED <<disk, entry, rcv, offered, toS>>
    BY <1>3 DEF SenderChunk
  <2>2. /\ snd'.pc \in {"failed", "stream"}
        /\ toR' = toR \/ toR' = Sent(toR, <<m>>)
    <3>1. CASE cells = << >>
      BY <1>3, <3>1 DEF SenderChunk, SenderStops, FreshSender
    <3>2. CASE cells # << >>
      BY <1>0, <1>3, <3>2 DEF SenderChunk, TypeOK, SenderSession
    <3> QED
      BY <3>1, <3>2
  <2>3. snd.cur + want \in Nat /\ snd.cur \in Nat
    BY <1>0, <1>3, SessionFields, BytesAssumption DEF SenderChunk, Smaller, BufferLen
  <2>4. m \in ToReceiver /\ m.type = "chunk"
    BY <1>0, <2>3, SliceCells DEF ToReceiver, TypeOK
  <2> HIDE DEF m
  <2>5. ASSUME NEW i \in DOMAIN toR', toR'[i].type \in {"start", "end"}
        PROVE  i \in DOMAIN toR /\ toR'[i] = toR[i]
    BY <1>0, <2>2, <2>4, <2>5, SentFrames
  <2>6. Turns' /\ Answers' /\ Settlements'
    BY <1>0, <2>1 DEF Turns, Answers, Settlements, Reading
  <2>7. StartsOnTime'
    BY <1>0, <2>1, <2>5 DEF StartsOnTime
  <2>8. EndsOnTime'
    BY <1>0, <2>1, <2>5 DEF EndsOnTime
  <2> QED
    BY <2>1, <2>6, <2>7, <2>8, SenderFrame
<1>4. CASE SenderNextRange
  <2>1. snd.pc = "stream" /\ snd'.pc = "stream"
    BY <1>0, <1>4 DEF SenderNextRange, TypeOK, SenderSession
  <2>2. UNCHANGED <<disk, entry, rcv, offered, toS, toR>>
    BY <1>4 DEF SenderNextRange
  <2>3. Turns' /\ Answers' /\ Settlements' /\ StartsOnTime' /\ EndsOnTime'
    BY <1>0, <2>1, <2>2
    DEF Turns, Answers, Settlements, StartsOnTime, EndsOnTime, Reading
  <2> QED
    BY <2>2, <2>3, SenderFrame
<1>5. CASE SenderEnd
  <2> DEFINE m == [type |-> "end", hash |-> snd.hash]
  <2>1. snd.pc = "stream" /\ snd'.pc = "verdict"
    BY <1>0, <1>5 DEF SenderEnd, TypeOK, SenderSession
  <2>2. /\ UNCHANGED <<disk, entry, rcv, toS>> /\ toR' = Sent(toR, <<m>>)
        /\ offered' = offered \cup {snd.hash}
    BY <1>5 DEF SenderEnd
  <2>3. m \in ToReceiver /\ m.type = "end" /\ m.hash = snd.hash
    BY <1>0, SessionFields DEF ToReceiver
  <2> HIDE DEF m
  <2>4. ASSUME NEW i \in DOMAIN toR'
        PROVE  \/ i \in DOMAIN toR /\ toR'[i] = toR[i]
               \/ i = Len(toR') /\ toR'[i] = m
    BY <1>0, <2>2, <2>3, <2>4, SentFrames
  <2>5. Turns' /\ Answers' /\ Settlements'
    BY <1>0, <2>1, <2>2 DEF Turns, Answers, Settlements, Reading
  <2>6. StartsOnTime'
    BY <1>0, <2>2, <2>3, <2>4 DEF StartsOnTime
  <2>7. EndsOnTime'
    BY <1>0, <2>1, <2>2, <2>3, <2>4 DEF EndsOnTime
  <2> QED
    BY <2>2, <2>5, <2>6, <2>7, SenderFrame
<1>6. CASE SenderResend
  <2> DEFINE m == StartFrame(0)
  <2>1. m \in ToReceiver /\ m.type = "start" /\ m.off = 0
    BY DEF StartFrame, ToReceiver
  <2>2. rcv.pc # "repair" /\ (rcv.pc = "start" => rcv.hash = << >>)
    BY <1>0, <1>6 DEF SenderResend, Hears, Answers
  <2>3. toR' = Sent(toR, <<m>>)
    BY <1>6 DEF SenderResend, Stream
  <2> HIDE DEF m
  <2> QED
    BY <1>6, <2>1, <2>2, <2>3, SenderReplies DEF SenderResend, Hears
<1>7. CASE SenderRepair
  <2>1. [type |-> "done"] \in ToReceiver
    BY DEF ToReceiver
  <2> QED
    BY <1>7, <2>1, SenderReplies DEF SenderRepair, Hears
<1>8. CASE SenderGivesUp
  <2>1. [type |-> "done"] \in ToReceiver
    BY DEF ToReceiver
  <2> QED
    BY <1>8, <2>1, SenderReplies DEF SenderGivesUp, SenderStops, Hears
<1>9. CASE SenderBroken
  <2>1. UNCHANGED <<disk, entry, rcv, offered, toS, toR>> /\ snd'.pc = "failed"
    BY <1>9 DEF SenderBroken, FreshSender
  <2>2. Turns' /\ Answers' /\ Settlements' /\ StartsOnTime' /\ EndsOnTime'
    BY <1>0, <2>1
    DEF Turns, Answers, Settlements, StartsOnTime, EndsOnTime, Reading
  <2> QED
    BY <2>1, <2>2, SenderFrame
<1> QED
  BY <1>1, <1>2, <1>3, <1>4, <1>5, <1>6, <1>7, <1>8, <1>9 DEF Sender

\* When the receiver reads a frame of a pass, it owes no answer to the sender;
\* a FileEnd is the last frame there is, and announced.
LEMMA PassFrame ==
  ASSUME IInv, rcv.pc \in Reading, toR # << >>, toR' = Tail(toR)
  PROVE  /\ toS = << >>
         /\ rcv.pc # "start" => Head(toR).type # "start"
         /\ rcv.pc = "start" /\ Head(toR).type = "start" =>
              Head(toR).off = Len(rcv.hash)
         /\ \A i \in DOMAIN toR' : toR'[i].type # "start"
         /\ Head(toR).type = "end" =>
              toR' = << >> /\ snd.pc # "stream" /\ Head(toR).hash \in offered
         /\ \A i \in DOMAIN toR' : toR'[i].type = "end" =>
              i = Len(toR') /\ snd.pc # "stream" /\ toR'[i].hash \in offered
<1> USE DEF IInv, PassesInStep
<1>1. toS = << >>
  BY DEF Turns
<1>2. /\ 1 \in DOMAIN toR /\ toR[1] = Head(toR)
      /\ Len(toR') = Len(toR) - 1 /\ Len(toR) \in Nat
      /\ \A i \in DOMAIN toR' :
           i \in Nat /\ i >= 1 /\ i + 1 \in DOMAIN toR /\ toR'[i] = toR[i + 1]
  BY TailFrames
<1>3. rcv.pc \notin ReceiverResting \cup {"drain"}
  BY DEF Reading, ReceiverResting
<1>4. toR' \in Seq(ToReceiver)
  BY TailType DEF TypeOK
<1>5. Head(toR).type = "start" => rcv.pc = "start" /\ Head(toR).off = Len(rcv.hash)
  BY <1>2, <1>3 DEF StartsOnTime
<1>6. ASSUME NEW i \in DOMAIN toR' PROVE toR'[i].type # "start"
  <2>1. i + 1 \in DOMAIN toR /\ i + 1 # 1 /\ toR'[i] = toR[i + 1]
    BY <1>2
  <2> QED
    BY <1>3, <2>1 DEF StartsOnTime
<1>7. Head(toR).type = "end" =>
        Len(toR) = 1 /\ snd.pc # "stream" /\ Head(toR).hash \in offered
  BY <1>2 DEF EndsOnTime
<1>8. Head(toR).type = "end" => toR' = << >>
  BY <1>2, <1>4, <1>7
<1>9. ASSUME NEW i \in DOMAIN toR', toR'[i].type = "end"
      PROVE  i = Len(toR') /\ snd.pc # "stream" /\ toR'[i].hash \in offered
  <2>1. i + 1 \in DOMAIN toR /\ toR'[i] = toR[i + 1] /\ i \in Nat
    BY <1>2
  <2>2. i + 1 = Len(toR) /\ snd.pc # "stream" /\ toR[i + 1].hash \in offered
    BY <1>9, <2>1 DEF EndsOnTime
  <2> QED
    BY <1>2, <2>1, <2>2
<1> QED
  BY <1>1, <1>5, <1>6, <1>7, <1>8, <1>9

\* A destination as long as what the hasher has seen is what it has seen.
LEMMA HashedIsOnDisk ==
  ASSUME IInv, rcv.pc = "chunks", rcv.cur >= Len(entry)
  PROVE  rcv.hash = disk
<1>1. /\ rcv.hash \in Seq(Cell) /\ disk \in Seq(Cell)
      /\ Len(entry) \in Nat /\ rcv.cur \in Nat
  BY SessionFields DEF IInv, PassesInStep, HasherCoversDisk, TypeOK, Content
<1>2. /\ Len(rcv.hash) = rcv.cur /\ Len(rcv.hash) <= Len(disk)
      /\ Len(disk) \in {rcv.cur, Len(entry)}
      /\ \A i \in DOMAIN rcv.hash : disk[i] = rcv.hash[i]
  BY DEF IInv, PassesInStep, HasherCoversDisk, Begins
<1>3. Len(rcv.hash) = Len(disk)
  BY <1>1, <1>2
<1> QED
  BY <1>1, <1>2, <1>3, SeqEqual

\* Opening the destination at the offset of FileStart keeps the prefix that was
\* hashed, and brings the file to the size of the entry.
LEMMA OpenKeepsPrefix ==
  ASSUME NEW size \in Nat, NEW d \in {NoFile} \cup Content, NEW h \in Content,
         Begins(OnDisk(d), h), Len(h) <= size,
         NEW opened, opened = OpenForResume(d, Len(h), size)
  PROVE  opened \in Content /\ Begins(opened, h) /\ Len(opened) \in {Len(h), size}
<1>1. Len(h) \in Nat /\ DOMAIN h = 1..Len(h) /\ << >> \in Content
  BY DEF Content
<1>2. CASE Len(h) = 0
  <2>1. opened = << >>
    BY <1>2 DEF OpenForResume
  <2> QED
    BY <1>1, <1>2, <2>1 DEF Begins
<1>3. CASE Len(h) # 0
  <2> DEFINE b == OnDisk(d)
  <2>1. opened = SetLen(b, size) /\ b \in Content
    BY <1>1, <1>3 DEF OpenForResume, OnDisk
  <2>2. /\ opened \in Content /\ Len(opened) = size
        /\ \A i \in 1..size : i <= Len(b) => opened[i] = b[i]
    <3> HIDE DEF b
    <3>1. /\ SetLen(b, size) \in Content
          /\ Len(SetLen(b, size)) = size
          /\ \A i \in 1..size : i <= Len(b) => SetLen(b, size)[i] = b[i]
      BY <2>1, SetLenCells
    <3> QED
      BY <2>1, <3>1, Zenon
  <2>3. ASSUME NEW i \in DOMAIN h PROVE opened[i] = h[i]
    <3>1. i \in 1..size /\ i <= Len(OnDisk(d)) /\ OnDisk(d)[i] = h[i]
      BY <1>1, <2>1 DEF Begins, Content
    <3> QED
      BY <2>2, <3>1
  <2> QED
    BY <1>1, <2>1, <2>2, <2>3 DEF Begins
<1> QED
  BY <1>2, <1>3

\* What a step of the receiver has to keep while it reads frames of a pass and
\* none but FileEnd ends it.
LEMMA PassesKept ==
  ASSUME IInv, UNCHANGED <<snd, entry, offered>>,
         rcv.pc \in Reading, toR # << >>, toR' = Tail(toR), UNCHANGED toS,
         rcv'.pc \in {"chunks", "repair"}, rcv'.outcome = "none",
         rcv'.attempts <= MaxRetries \/ rcv'.pc = "repair",
         HasherCoversDisk'
  PROVE  (PassesInStep /\ VerifiedIsOffered)'
<1>1. toS' = << >>
  BY PassFrame
<1>2. Turns' /\ Answers' /\ Settlements' /\ OutcomeIsFinal' /\ VerifiedIsOffered'
  BY <1>1 DEF Turns, Answers, Settlements, OutcomeIsFinal, VerifiedIsOffered, Reading
<1>3. StartsOnTime'
  BY PassFrame DEF StartsOnTime
<1>4. EndsOnTime'
  BY PassFrame DEF EndsOnTime
<1> QED
  BY <1>2, <1>3, <1>4 DEF PassesInStep

\* FileEnd has been read and the receiver answers it: nothing else is in
\* flight.
LEMMA PassAnswered ==
  ASSUME IInv, UNCHANGED <<snd, entry, disk, offered>>,
         rcv.pc \in {"chunks", "repair"},
         toR # << >>, Head(toR).type = "end", toR' = Tail(toR),
         NEW m \in ToSender, toS' = toS \/ toS' = Sent(toS, <<m>>),
         \/ rcv'.pc = "drain"
         \/ /\ rcv'.pc = "start" /\ rcv'.hash = << >> /\ m.type = "verdict"
            /\ rcv'.attempts <= MaxRetries /\ rcv'.outcome = "none"
         \/ /\ rcv'.pc = "repair" /\ m.type = "request" /\ rcv'.outcome = "none",
         m.type = "verdict" /\ m.ok => rcv'.outcome = "verified",
         m.type # "ack",
         rcv'.outcome = "verified" => disk \in offered
  PROVE  (PassesInStep /\ VerifiedIsOffered)'
<1>1. toS = << >> /\ toR' = << >> /\ snd.pc # "stream"
  BY PassFrame DEF Reading
<1>2. toS' = << >> \/ (toS' # << >> /\ Len(toS') = 1 /\ Head(toS') = m)
  BY <1>1 DEF Sent
<1>3. Turns' /\ Answers' /\ Settlements'
  <2>1. toS' # << >> => Len(toS') = 1
    BY <1>2
  <2>2. rcv'.pc \in {"drain", "start", "repair"} /\ snd'.pc # "stream"
    BY <1>1
  <2>3. Turns'
    BY <1>1, <2>1, <2>2 DEF Turns
  <2>4. Answers'
    BY <1>2 DEF Answers
  <2>5. Settlements'
    BY <1>2 DEF Settlements
  <2> QED
    BY <2>3, <2>4, <2>5
<1>4. StartsOnTime' /\ EndsOnTime'
  BY <1>1 DEF StartsOnTime, EndsOnTime
<1>5. disk \in Content
  BY DEF IInv, PassesInStep, HasherCoversDisk
<1>6. HasherCoversDisk'
  <2>1. Len(entry) \in Nat /\ OnDisk(disk) \in Content
    BY <1>5 DEF IInv, TypeOK, OnDisk, Content
  <2>2. Begins(OnDisk(disk), << >>) /\ Len(<< >>) <= Len(entry)
    BY <2>1 DEF Begins, Content
  <2> QED
    BY <1>5, <2>2 DEF HasherCoversDisk
<1>7. OutcomeIsFinal' /\ VerifiedIsOffered'
  BY DEF OutcomeIsFinal, VerifiedIsOffered
<1> QED
  BY <1>3, <1>4, <1>6, <1>7 DEF PassesInStep

\* A receiver that is past the passes of its session takes part in nothing else.
LEMMA ReceiverRests ==
  ASSUME IInv, UNCHANGED <<snd, entry, disk, offered, toS>>,
         \/ toR' = toR
         \/ toR # << >> /\ toR' = Tail(toR),
         rcv'.pc \in ReceiverResting \cup {"drain"},
         rcv'.outcome = rcv.outcome,
         rcv'.outcome = "none" \/ rcv'.pc \in {"drain", "reported"}
  PROVE  (PassesInStep /\ VerifiedIsOffered)'
<1> USE DEF IInv, PassesInStep, ReceiverResting
<1>1. /\ Turns' /\ Answers' /\ Settlements' /\ StartsOnTime'
      /\ HasherCoversDisk' /\ OutcomeIsFinal'
  BY DEF Turns, Answers, Settlements, StartsOnTime, HasherCoversDisk,
         OutcomeIsFinal, Reading
<1>2. EndsOnTime'
  <2> SUFFICES ASSUME NEW i \in DOMAIN toR', toR'[i].type = "end"
               PROVE  toR'[i].hash \in offered
    BY DEF EndsOnTime, Reading
  <2>1. CASE toR' = toR
    BY <2>1 DEF EndsOnTime
  <2>2. CASE toR # << >> /\ toR' = Tail(toR)
    <3>1. i + 1 \in DOMAIN toR /\ toR'[i] = toR[i + 1]
      BY <2>2, TailFrames
    <3> QED
      BY <3>1 DEF EndsOnTime
  <2> QED
    BY <2>1, <2>2
<1>3. VerifiedIsOffered'
  BY DEF VerifiedIsOffered
<1> QED
  BY <1>1, <1>2, <1>3

\* Every step of the receiver keeps the passes in step, and it verifies only
\* what was announced.
LEMMA ReceiverKeeps == IInv /\ Receiver => (PassesInStep /\ VerifiedIsOffered)'
<1> SUFFICES ASSUME IInv, Receiver PROVE (PassesInStep /\ VerifiedIsOffered)'
  OBVIOUS
<1> USE DEF files, fixed, wire
<1>0. /\ TypeOK /\ Turns /\ Settlements /\ StartsOnTime /\ EndsOnTime /\ HasherCoversDisk
      /\ OutcomeIsFinal
      /\ rcv \in ReceiverSession /\ entry \in Content /\ Len(entry) \in Nat
      /\ disk \in {NoFile} \cup Content
  BY DEF IInv, PassesInStep, TypeOK, Content
<1>1. CASE ReceiverManifest
  <2> DEFINE point == PlannedPoint
             m == [type |-> "ack", accepted |-> TRUE, off |-> point.off]
  <2>1. /\ toS = << >> /\ snd.pc # "stream" /\ toR' = << >>
        /\ UNCHANGED <<snd, entry, disk, offered>>
        /\ rcv.outcome = "none" /\ rcv.attempts <= MaxRetries
    <3>1. rcv.pc = "manifest" /\ toR # << >> /\ toR' = Tail(toR)
          /\ UNCHANGED <<snd, entry, disk, offered>>
      BY <1>1 DEF ReceiverManifest, Gets
    <3>2. Len(toR) <= 1 /\ toS = << >> /\ snd.pc # "stream"
      BY <1>0, <3>1 DEF Turns
    <3>3. toR' = << >>
      BY <1>0, <3>1, <3>2 DEF TypeOK
    <3>4. rcv.outcome = "none" /\ rcv.attempts <= MaxRetries
      BY <1>0, <3>1 DEF OutcomeIsFinal
    <3> QED
      BY <3>1, <3>2, <3>3, <3>4
  <2>2. StartsOnTime' /\ EndsOnTime'
    BY <2>1 DEF StartsOnTime, EndsOnTime
  <2>3. CASE ReceiverStops /\ UNCHANGED toS
    <3>1. rcv'.pc = "failed" /\ rcv'.outcome = "none"
      BY <2>3 DEF ReceiverStops, FreshReceiver
    <3> QED
      BY <2>1, <2>2, <2>3, <3>1
      DEF PassesInStep, Turns, Answers, Settlements, HasherCoversDisk,
          OutcomeIsFinal, VerifiedIsOffered, Reading
  <2>4. CASE Ack(FALSE, 0) /\ rcv' = FreshReceiver("drain", "skipped")
    <3>1. rcv'.pc = "drain" /\ rcv'.outcome = "skipped"
      BY <2>4 DEF FreshReceiver
    <3>2. toS' # << >> => Len(toS') = 1 /\ Head(toS').type = "ack"
      BY <2>1, <2>4 DEF Ack, Sent
    <3>3. Settlements'
      BY <3>1, <3>2 DEF Settlements
    <3> QED
      BY <2>1, <2>2, <3>1, <3>2, <3>3
      DEF PassesInStep, Turns, Answers, HasherCoversDisk, OutcomeIsFinal,
          VerifiedIsOffered, Reading
  <2>5. CASE /\ Ack(TRUE, point.off)
             /\ rcv' = [rcv EXCEPT !.pc = "start", !.hash = point.hash]
    <3>1. /\ point.off = Len(point.hash) /\ point.off <= Len(entry)
          /\ Begins(OnDisk(disk), point.hash)
      BY <1>0, PlannedPointBegins
    <3>2. toS' = << >> \/ (toS' # << >> /\ Len(toS') = 1 /\ Head(toS') = m)
      BY <2>1, <2>5 DEF Ack, Sent
    <3> HIDE DEF point
    <3>3. /\ rcv'.pc = "start" /\ rcv'.hash = point.hash
          /\ rcv'.outcome = "none" /\ rcv'.attempts <= MaxRetries
      BY <1>0, <2>1, <2>5 DEF ReceiverSession
    <3>4. Turns'
      BY <2>1, <3>2, <3>3 DEF Turns
    <3>5. Answers' /\ Settlements'
      BY <3>1, <3>2, <3>3 DEF Answers, Settlements
    <3>6. HasherCoversDisk'
      BY <2>1, <3>1, <3>3 DEF HasherCoversDisk
    <3>7. OutcomeIsFinal' /\ VerifiedIsOffered'
      BY <3>3 DEF OutcomeIsFinal, VerifiedIsOffered
    <3> QED
      BY <2>2, <3>4, <3>5, <3>6, <3>7 DEF PassesInStep
  <2> QED
    BY <1>1, <2>3, <2>4, <2>5 DEF ReceiverManifest
<1>2. CASE ReceiverStart
  <2> DEFINE off == Head(toR).off
  <2>1. /\ rcv.pc = "start" /\ toR # << >> /\ Head(toR).type = "start"
        /\ toR' = Tail(toR) /\ UNCHANGED <<snd, entry, offered, toS>>
        /\ disk' = OpenForResume(disk, off, Len(entry))
        /\ rcv' = [rcv EXCEPT !.pc = "chunks", !.cur = off]
    BY <1>2 DEF ReceiverStart, Gets
  <2>2. off = Len(rcv.hash)
    BY <2>1, PassFrame DEF Reading
  <2> HIDE DEF off
  <2>3. /\ Begins(OnDisk(disk), rcv.hash) /\ Len(rcv.hash) <= Len(entry)
        /\ rcv.hash \in Content
    BY <1>0, <2>1, SessionFields DEF HasherCoversDisk
  <2>4. disk' \in Content /\ Begins(disk', rcv.hash) /\ Len(disk') \in {off, Len(entry)}
    BY <1>0, <2>1, <2>2, <2>3, OpenKeepsPrefix
  <2>5. /\ rcv'.pc = "chunks" /\ rcv'.cur = off /\ rcv'.hash = rcv.hash
        /\ rcv'.outcome = "none" /\ rcv'.attempts <= MaxRetries
    BY <1>0, <2>1 DEF ReceiverSession, OutcomeIsFinal
  <2>6. HasherCoversDisk'
    BY <2>1, <2>2, <2>4, <2>5 DEF HasherCoversDisk
  <2> QED
    BY <2>1, <2>5, <2>6, PassesKept DEF Reading
<1>3. CASE ReceiverChunk
  <2> DEFINE cells == Head(toR).cells
             h == rcv.hash \o cells
  <2>1. /\ rcv.pc = "chunks" /\ toR # << >> /\ Head(toR).type = "chunk"
        /\ rcv.cur < Len(entry)
        /\ toR' = Tail(toR) /\ UNCHANGED <<snd, entry, offered, toS>>
        /\ disk' = WriteAt(disk, rcv.cur, cells)
        /\ rcv' = [rcv EXCEPT !.cur = @ + Len(cells), !.hash = @ \o cells]
    BY <1>3 DEF ReceiverChunk, Gets
  <2>2. /\ cells \in Content /\ rcv.cur \in Nat /\ rcv.hash \in Content
        /\ disk \in Content
    BY <1>0, <2>1, SessionFields, TailType DEF ToReceiver, TypeOK, HasherCoversDisk
  <2> HIDE DEF cells
  <2>3. /\ rcv'.pc = "chunks" /\ rcv'.cur = rcv.cur + Len(cells) /\ rcv'.hash = h
        /\ rcv'.outcome = "none" /\ rcv'.attempts <= MaxRetries
    BY <1>0, <2>1 DEF ReceiverSession, OutcomeIsFinal
  <2>4. /\ Begins(disk, rcv.hash) /\ Len(rcv.hash) = rcv.cur
        /\ Len(disk) \in {rcv.cur, Len(entry)}
    BY <1>0, <2>1 DEF HasherCoversDisk
  <2>5. /\ disk' \in Content
        /\ Len(disk') = Larger(Len(disk), rcv.cur + Len(cells))
        /\ \A i \in 1..rcv.cur : i <= Len(disk) => disk'[i] = disk[i]
        /\ \A i \in DOMAIN cells : disk'[rcv.cur + i] = cells[i]
    BY <2>1, <2>2, WriteAtCells
  <2>6. /\ Len(cells) \in Nat /\ Len(disk) \in Nat /\ DOMAIN cells = 1..Len(cells)
        /\ DOMAIN rcv.hash = 1..rcv.cur /\ rcv.cur <= Len(disk)
        /\ h \in Content /\ Len(h) = rcv.cur + Len(cells) /\ DOMAIN h = 1..Len(h)
    BY <2>2, <2>4 DEF Content, Begins
  <2>7. Len(disk') \in {rcv.cur + Len(cells), Len(entry)} /\ Len(h) <= Len(disk')
    BY <1>0, <2>1, <2>2, <2>4, <2>5, <2>6 DEF Larger
  <2>8. ASSUME NEW i \in DOMAIN h PROVE disk'[i] = h[i]
    <3>1. CASE i <= rcv.cur
      <4>1. h[i] = rcv.hash[i] /\ i \in 1..rcv.cur /\ i <= Len(disk)
        BY <2>2, <2>4, <2>6, <3>1 DEF Content
      <4> QED
        BY <2>4, <2>5, <2>6, <4>1 DEF Begins
    <3>2. CASE ~ (i <= rcv.cur)
      <4>1. i - rcv.cur \in DOMAIN cells /\ h[i] = cells[i - rcv.cur]
            /\ rcv.cur + (i - rcv.cur) = i
        BY <2>2, <2>4, <2>6, <3>2 DEF Content
      <4> QED
        BY <2>5, <4>1
    <3> QED
      BY <3>1, <3>2
  <2> HIDE DEF h
  <2>9. HasherCoversDisk'
    BY <2>1, <2>3, <2>5, <2>6, <2>7, <2>8 DEF HasherCoversDisk, Begins
  <2> QED
    BY <2>1, <2>3, <2>9, PassesKept DEF Reading
<1>4. CASE ReceiverRepairChunk
  <2> DEFINE m == Head(toR)
  <2>1. /\ rcv.pc = "repair" /\ toR # << >>
        /\ toR' = Tail(toR) /\ UNCHANGED <<snd, entry, offered, toS>>
        /\ disk' = WriteAt(disk, m.off, m.cells)
        /\ rcv' = [rcv EXCEPT !.need = @ \ {m.off}]
    BY <1>4 DEF ReceiverRepairChunk, Gets
  <2>2. disk \in Content /\ m.off \in Nat /\ m.cells \in Content
    BY <1>0, <1>4, <2>1, TailType
    DEF ReceiverRepairChunk, Gets, ToReceiver, TypeOK, HasherCoversDisk
  <2> HIDE DEF m
  <2>3. disk' \in Content
    BY <2>1, <2>2, WriteAtCells
  <2>4. rcv'.pc = "repair" /\ rcv'.outcome = "none"
    BY <1>0, <2>1 DEF ReceiverSession, OutcomeIsFinal
  <2>5. HasherCoversDisk'
    BY <2>3, <2>4 DEF HasherCoversDisk
  <2> QED
    BY <2>1, <2>4, <2>5, PassesKept DEF Reading
<1>5. CASE ReceiverVerified
  <2> DEFINE m == [type |-> "verdict", ok |-> TRUE]
  <2>1. /\ rcv.pc \in {"chunks", "repair"} /\ toR # << >>
        /\ Head(toR).type = "end" /\ toR' = Tail(toR)
        /\ LocalHash = Head(toR).hash
        /\ UNCHANGED <<snd, entry, disk, offered>>
        /\ toS' = Sent(toS, <<m>>)
        /\ rcv' = FreshReceiver("drain", "verified")
    BY <1>5 DEF ReceiverVerified, PassEnds, Gets, Verdict
  <2>2. /\ m \in ToSender /\ m.type = "verdict"
        /\ rcv'.pc = "drain" /\ rcv'.outcome = "verified"
    BY <2>1 DEF ToSender, FreshReceiver
  <2>3. LocalHash \in offered
    BY <2>1, PassFrame DEF Reading
  <2>4. LocalHash = disk
    <3>1. CASE rcv.pc = "repair"
      BY <3>1 DEF LocalHash
    <3>2. CASE rcv.pc = "chunks"
      BY <1>5, <3>2, HashedIsOnDisk DEF LocalHash, ReceiverVerified, PassEnds
    <3> QED
      BY <2>1, <3>1, <3>2
  <2> HIDE DEF m
  <2> QED
    BY <2>1, <2>2, <2>3, <2>4, PassAnswered
<1>6. CASE ReceiverMismatch
  <2> DEFINE bad == BadStarts(entry, disk)
             ask == [type |-> "request", starts |-> bad]
             no == [type |-> "verdict", ok |-> FALSE]
  <2>1. /\ rcv.pc = "chunks" /\ toR # << >>
        /\ Head(toR).type = "end" /\ toR' = Tail(toR)
        /\ UNCHANGED <<snd, entry, disk, offered>>
    BY <1>6 DEF ReceiverMismatch, PassEnds, Gets
  <2>2. ask \in ToSender /\ no \in ToSender
    BY <1>0, BadStartsType DEF ToSender
  <2>3. rcv.outcome = "none" /\ rcv.attempts \in Nat
    BY <1>0, <2>1, SessionFields DEF OutcomeIsFinal
  <2>4. CASE /\ toS' = Sent(toS, <<ask>>)
             /\ rcv' = [rcv EXCEPT !.pc = "repair", !.need = bad, !.attempts = @ + 1]
    <3>1. rcv'.pc = "repair" /\ rcv'.outcome = "none" /\ ask.type = "request"
      BY <1>0, <2>3, <2>4 DEF ReceiverSession
    <3> HIDE DEF ask
    <3> QED
      BY <2>1, <2>2, <2>4, <3>1, PassAnswered
  <2>5. CASE /\ Verdict(FALSE)
             /\ rcv' = IF Exhausted(rcv.attempts + 1)
                       THEN FreshReceiver("drain", "failed")
                       ELSE [ExpectResend EXCEPT !.attempts = @ + 1]
    <3>1. toS' = Sent(toS, <<no>>) /\ no.type = "verdict" /\ ~no.ok
      BY <2>5 DEF Verdict
    <3>2. CASE Exhausted(rcv.attempts + 1)
      <4>1. rcv'.pc = "drain" /\ rcv'.outcome = "failed"
        BY <2>5, <3>2 DEF FreshReceiver
      <4> HIDE DEF no
      <4> QED
        BY <2>1, <2>2, <3>1, <4>1, PassAnswered
    <3>3. CASE ~ Exhausted(rcv.attempts + 1)
      <4>1. /\ rcv'.pc = "start" /\ rcv'.hash = << >> /\ rcv'.outcome = "none"
            /\ rcv'.attempts = rcv.attempts + 1
        BY <1>0, <2>3, <2>5, <3>3 DEF ExpectResend, ReceiverSession
      <4>2. rcv'.attempts <= MaxRetries
        BY <2>3, <3>3, <4>1, TransferAssumption DEF Exhausted
      <4> HIDE DEF no
      <4> QED
        BY <2>1, <2>2, <3>1, <4>1, <4>2, PassAnswered
    <3> QED
      BY <3>2, <3>3
  <2> QED
    BY <1>6, <2>4, <2>5 DEF ReceiverMismatch
<1>7. CASE ReceiverUnrepaired
  <2> DEFINE no == [type |-> "verdict", ok |-> FALSE]
  <2>1. /\ rcv.pc = "repair" /\ toR # << >>
        /\ Head(toR).type = "end" /\ toR' = Tail(toR)
        /\ UNCHANGED <<snd, entry, disk, offered>>
    BY <1>7 DEF ReceiverUnrepaired, PassEnds, Gets
  <2>2. no \in ToSender /\ no.type = "verdict" /\ ~no.ok
    BY DEF ToSender
  <2>3. rcv.outcome = "none" /\ rcv.attempts \in Nat
    BY <1>0, <2>1, SessionFields DEF OutcomeIsFinal
  <2>4. CASE Exhausted(rcv.attempts)
    <3>1. toS' = toS /\ rcv'.pc = "drain" /\ rcv'.outcome = "failed"
      BY <1>7, <2>4 DEF ReceiverUnrepaired, FreshReceiver
    <3> HIDE DEF no
    <3> QED
      BY <2>1, <2>2, <3>1, PassAnswered
  <2>5. CASE ~ Exhausted(rcv.attempts)
    <3>1. toS' = Sent(toS, <<no>>) /\ rcv' = ExpectResend
      BY <1>7, <2>5 DEF ReceiverUnrepaired, Verdict
    <3>2. /\ rcv'.pc = "start" /\ rcv'.hash = << >> /\ rcv'.outcome = "none"
          /\ rcv'.attempts = rcv.attempts
      BY <1>0, <2>3, <3>1 DEF ExpectResend, ReceiverSession
    <3>3. rcv'.attempts <= MaxRetries
      BY <2>3, <2>5, <3>2, TransferAssumption DEF Exhausted
    <3> HIDE DEF no
    <3> QED
      BY <2>1, <2>2, <3>1, <3>2, <3>3, PassAnswered
  <2> QED
    BY <2>4, <2>5
<1>8. CASE ReceiverDrain
  <2>1. UNCHANGED <<snd, entry, disk, offered, toS>>
    BY <1>8 DEF ReceiverDrain
  <2>2. /\ toR' = toR \/ (toR # << >> /\ toR' = Tail(toR))
        /\ rcv'.pc \in {"drain", "reported"} /\ rcv'.outcome = rcv.outcome
    BY <1>0, <1>8 DEF ReceiverDrain, ReceiverSession
  <2> QED
    BY <2>1, <2>2, ReceiverRests DEF ReceiverResting
<1>9. CASE ReceiverRefuses
  <2>1. /\ UNCHANGED <<snd, entry, disk, offered, toS>>
        /\ toR # << >> /\ toR' = Tail(toR)
        /\ rcv'.pc = "failed" /\ rcv'.outcome = "none"
    BY <1>9 DEF ReceiverRefuses, ReceiverStops, FreshReceiver
  <2>2. rcv.pc \notin ReceiverResting \cup {"drain"}
    BY <1>9 DEF ReceiverRefuses, Acceptable
  <2>3. rcv.outcome = "none"
    BY <1>0, <2>2 DEF OutcomeIsFinal, ReceiverResting
  <2> QED
    BY <2>1, <2>3, ReceiverRests DEF ReceiverResting
<1>10. CASE ReceiverBroken
  <2>1. /\ UNCHANGED <<snd, entry, disk, offered, toS, toR>>
        /\ rcv'.pc = "failed" /\ rcv'.outcome = "none"
    BY <1>10 DEF ReceiverBroken, FreshReceiver
  <2>2. rcv.outcome = "none"
    BY <1>0, <1>10 DEF ReceiverBroken, OutcomeIsFinal, ReceiverResting
  <2> QED
    BY <2>1, <2>2, ReceiverRests DEF ReceiverResting
<1> QED
  BY <1>1, <1>2, <1>3, <1>4, <1>5, <1>6, <1>7, <1>8, <1>9, <1>10 DEF Receiver

\* A session starts with a clean slate.
LEMMA ConnectKeeps == IInv /\ Connect => (PassesInStep /\ VerifiedIsOffered)'
<1> SUFFICES ASSUME IInv, Connect PROVE (PassesInStep /\ VerifiedIsOffered)'
  OBVIOUS
<1> DEFINE m == [type |-> "manifest", entry |-> entry]
<1>1. /\ toR' = <<m>> /\ toS' = << >>
      /\ snd'.pc = "ack" /\ rcv'.pc = "manifest" /\ rcv'.outcome = "none"
      /\ rcv'.attempts = 0
  BY DEF Connect, FreshSender, FreshReceiver
<1>2. m.type = "manifest" /\ Len(<<m>>) = 1 /\ \A i \in DOMAIN <<m>> : <<m>>[i] = m
  OBVIOUS
<1> HIDE DEF m
<1>3. Turns' /\ Answers' /\ Settlements'
  BY <1>1, <1>2 DEF Turns, Answers, Settlements, Reading
<1>4. StartsOnTime' /\ EndsOnTime'
  BY <1>1, <1>2 DEF StartsOnTime, EndsOnTime
<1>5. HasherCoversDisk' /\ OutcomeIsFinal' /\ VerifiedIsOffered'
  BY <1>1, TransferAssumption DEF HasherCoversDisk, OutcomeIsFinal, VerifiedIsOffered
<1> QED
  BY <1>3, <1>4, <1>5 DEF PassesInStep

\* The environment reaches the files only where no pass depends on them.
LEMMA EnvironmentKeeps ==
  IInv /\ Environment => (PassesInStep /\ VerifiedIsOffered)'
<1> SUFFICES ASSUME IInv, Environment PROVE (PassesInStep /\ VerifiedIsOffered)'
  OBVIOUS
<1>1. UNCHANGED <<toR, toS, snd, rcv, offered>>
  BY DEF Environment, Drop, EditSource, RebuildManifest, TouchDisk, files, wire, fixed
<1>2. \/ UNCHANGED <<disk, entry>>
      \/ rcv.pc \in ReceiverResting /\ UNCHANGED disk
      \/ rcv.pc \in {"idle", "failed"}
  BY DEF Environment, Drop, EditSource, RebuildManifest, TouchDisk, files, wire, fixed
<1>3. /\ Turns' /\ Answers' /\ Settlements' /\ StartsOnTime' /\ EndsOnTime'
      /\ OutcomeIsFinal'
  BY <1>1 DEF IInv, PassesInStep, Turns, Answers, Settlements, StartsOnTime,
              EndsOnTime, OutcomeIsFinal
<1>4. HasherCoversDisk'
  BY <1>1, <1>2 DEF IInv, PassesInStep, HasherCoversDisk, ReceiverResting
<1>5. VerifiedIsOffered'
  BY <1>1, <1>2 DEF IInv, PassesInStep, OutcomeIsFinal, VerifiedIsOffered
<1> QED
  BY <1>3, <1>4, <1>5 DEF PassesInStep

\* Nothing has happened yet.
LEMMA InitIInv == Init => IInv
<1> SUFFICES ASSUME Init PROVE IInv
  OBVIOUS
<1>1. toR = << >> /\ toS = << >> /\ rcv.pc = "idle" /\ rcv.outcome = "none"
  BY DEF Init, FreshReceiver
<1>2. PassesInStep
  BY <1>1 DEF PassesInStep, Turns, Answers, Settlements, StartsOnTime, EndsOnTime,
              HasherCoversDisk, OutcomeIsFinal, Reading
<1> QED
  BY <1>1, <1>2, TypeInit DEF IInv, VerifiedIsOffered

\* The strengthening is preserved by every step.
LEMMA NextIInv == IInv /\ [Next]_vars => IInv'
<1> SUFFICES ASSUME IInv, [Next]_vars PROVE IInv'
  OBVIOUS
<1>1. CASE Connect
  BY <1>1, TypeConnect, ConnectKeeps DEF IInv
<1>2. CASE Sender
  BY <1>2, TypeSender, SenderKeeps DEF IInv
<1>3. CASE Receiver
  <2>1. TypeOK'
    BY <1>3, TypeReceiver DEF IInv, PassesInStep
  <2> QED
    BY <1>3, <2>1, ReceiverKeeps DEF IInv
<1>4. CASE Environment
  BY <1>4, TypeEnvironment, EnvironmentKeeps DEF IInv
<1>5. CASE UNCHANGED vars
  BY <1>5 DEF vars, IInv, TypeOK, PassesInStep, VerifiedIsOffered, Turns, Answers,
              Settlements, StartsOnTime, EndsOnTime, HasherCoversDisk, OutcomeIsFinal
<1> QED
  BY <1>1, <1>2, <1>3, <1>4, <1>5 DEF Next, Finished

-----------------------------------------------------------------------------
(* The promise of Delivery.                                                *)

\* A step that leaves the outcome and the sender's success as they are, and a
\* settled destination alone, is one of Delivery's.
LEMMA QuietStep ==
  ASSUME UNCHANGED rcv.outcome, UNCHANGED (snd.pc = "done"),
         \/ UNCHANGED offered /\ (rcv.outcome = "none" \/ UNCHANGED disk)
         \/ offered \subseteq offered' /\ UNCHANGED disk
  PROVE  [Promise!Next]_(Promise!vars)
BY DEF Promise!Next, Promise!vars, Promise!Write, Promise!Announce, Promise!Settled

\* What the sender does is an announcement, a confirmation of a file the
\* receiver has, or nothing that the promise speaks of.
LEMMA SenderPromise == IInv /\ Sender => [Promise!Next]_(Promise!vars)
<1> SUFFICES ASSUME IInv, Sender PROVE [Promise!Next]_(Promise!vars)
  OBVIOUS
<1> USE DEF files, fixed, wire
<1>0. UNCHANGED <<disk, rcv>> /\ snd \in SenderSession
  BY DEF IInv, TypeOK, Sender, SenderAck, SenderDone, SenderChunk, SenderNextRange,
         SenderEnd, SenderResend, SenderRepair, SenderGivesUp, SenderBroken
<1>1. CASE SenderDone
  <2>1. rcv.outcome \in {"verified", "skipped"}
    BY <1>1 DEF IInv, PassesInStep, Settlements, SenderDone, Hears
  <2>2. snd'.pc = "done" /\ UNCHANGED <<rcv, disk, offered>>
    BY <1>1 DEF SenderDone, FreshSender
  <2>3. Promise!Confirm
    BY <2>1, <2>2 DEF Promise!Confirm
  <2> QED
    BY <2>3 DEF Promise!Next
<1>2. CASE SenderEnd
  <2>1. snd.pc # "done" /\ snd'.pc # "done" /\ offered \subseteq offered'
    BY <1>0, <1>2 DEF SenderEnd, SenderSession
  <2> QED
    BY <1>0, <2>1, QuietStep
<1>3. CASE ~ SenderDone /\ ~ SenderEnd
  <2>1. UNCHANGED offered
    BY <1>3 DEF Sender, SenderAck, SenderChunk, SenderNextRange,
           SenderResend, SenderRepair, SenderGivesUp, SenderBroken
  <2>2. snd.pc # "done"
    BY <1>3 DEF Sender, SenderAck, SenderChunk, SenderNextRange, SenderResend,
           SenderRepair, SenderGivesUp, SenderBroken, SenderResting
  <2>3. snd'.pc # "done"
    <3>0. \A off, hash, attempts, frames :
            Stream(off, hash, attempts, frames) => snd'.pc = "stream"
      BY <1>0 DEF Stream, SenderSession
    <3>1. CASE SenderAck \/ SenderResend
      BY <3>0, <3>1, Zenon DEF SenderAck, SenderResend
    <3>4. CASE SenderRepair \/ SenderNextRange
      BY <1>0, <2>2, <3>4 DEF SenderRepair, SenderNextRange, SenderSession
    <3>2. CASE SenderChunk
      <4>1. CASE SenderStops("failed")
        BY <4>1 DEF SenderStops, FreshSender
      <4>2. CASE ~ SenderStops("failed")
        <5>1. snd'.pc = snd.pc
          BY <1>0, <3>2, <4>2 DEF SenderChunk, SenderSession
        <5> QED
          BY <2>2, <5>1
      <4> QED
        BY <4>1, <4>2
    <3>3. CASE SenderGivesUp \/ SenderBroken
      BY <3>3 DEF SenderGivesUp, SenderBroken, SenderStops, FreshSender
    <3> QED
      BY <1>3, <3>1, <3>2, <3>3, <3>4 DEF Sender
  <2> QED
    BY <1>0, <2>1, <2>2, <2>3, QuietStep
<1> QED
  BY <1>1, <1>2, <1>3

\* What the receiver does writes to a destination that is not settled, settles
\* it, or leaves it alone.
LEMMA ReceiverPromise == IInv /\ Receiver => [Promise!Next]_(Promise!vars)
<1> SUFFICES ASSUME IInv, Receiver PROVE [Promise!Next]_(Promise!vars)
  OBVIOUS
<1> USE DEF files, fixed, wire
<1>0. /\ UNCHANGED <<snd, offered>> /\ rcv \in ReceiverSession
      /\ rcv.outcome # "none" => rcv.pc \in {"drain", "reported"}
  BY DEF IInv, PassesInStep, OutcomeIsFinal, TypeOK, Receiver, ReceiverManifest,
         ReceiverStart, ReceiverChunk, ReceiverRepairChunk, ReceiverVerified,
         ReceiverMismatch, ReceiverUnrepaired, ReceiverDrain, ReceiverRefuses,
         ReceiverBroken
<1>1. CASE rcv.pc \in {"drain", "reported"}
  <2>1. ReceiverDrain
    BY <1>1 DEF Receiver, ReceiverManifest, ReceiverStart, ReceiverChunk,
           ReceiverRepairChunk, ReceiverVerified, ReceiverMismatch,
           ReceiverUnrepaired, ReceiverRefuses, ReceiverBroken, PassEnds,
           Acceptable, ReceiverResting
  <2>2. UNCHANGED <<rcv.outcome, disk>>
    BY <1>0, <2>1 DEF ReceiverDrain, ReceiverSession
  <2> QED
    BY <1>0, <2>2, QuietStep
<1>2. CASE rcv.pc \notin {"drain", "reported"}
  <2>1. rcv.outcome = "none"
    BY <1>0, <1>2
  <2>2. CASE rcv'.outcome = "none"
    BY <1>0, <2>1, <2>2, QuietStep
  <2>3. CASE rcv'.outcome # "none"
    <3>1. rcv' \in ReceiverSession
      BY TypeReceiver DEF IInv, PassesInStep, TypeOK
    <3>2. rcv'.outcome \in {"verified", "failed", "skipped"}
      BY <2>3, <3>1 DEF ReceiverSession, Outcomes
    <3>3. UNCHANGED disk
      <4>1. ~ ReceiverStart /\ ~ ReceiverChunk /\ ~ ReceiverRepairChunk
        BY <1>0, <2>1, <2>3
        DEF ReceiverStart, ReceiverChunk, ReceiverRepairChunk, ReceiverSession
      <4> QED
        BY <4>1 DEF Receiver, ReceiverManifest, ReceiverVerified, ReceiverMismatch,
               ReceiverUnrepaired, ReceiverDrain, ReceiverRefuses, ReceiverBroken
    <3>4. rcv'.outcome = "verified" => disk \in offered
      BY <1>0, <3>3, ReceiverKeeps DEF VerifiedIsOffered
    <3>5. Promise!Settle
      BY <1>0, <2>1, <3>2, <3>3, <3>4 DEF Promise!Settle, Promise!Settled
    <3> QED
      BY <3>5 DEF Promise!Next
  <2> QED
    BY <2>2, <2>3
<1> QED
  BY <1>1, <1>2

\* A new session, like another program, finds the transfer not settled.
LEMMA OutsidePromise ==
  IInv /\ (Connect \/ Environment \/ UNCHANGED vars) => [Promise!Next]_(Promise!vars)
<1> SUFFICES ASSUME IInv, Connect \/ Environment \/ UNCHANGED vars
             PROVE  [Promise!Next]_(Promise!vars)
  OBVIOUS
<1> USE DEF files, fixed, wire
<1>1. rcv.pc \in {"idle", "failed"} => rcv.outcome = "none"
  BY DEF IInv, PassesInStep, OutcomeIsFinal
<1>2. CASE Connect
  <2>1. /\ rcv.outcome = "none" /\ rcv'.outcome = "none"
        /\ snd.pc # "done" /\ snd'.pc # "done" /\ UNCHANGED <<offered, disk>>
    BY <1>1, <1>2 DEF Connect, FreshReceiver, FreshSender
  <2> QED
    BY <2>1, QuietStep
<1>3. CASE Environment
  <2>1. UNCHANGED <<rcv, snd, offered>> /\ (rcv.outcome = "none" \/ UNCHANGED disk)
    BY <1>1, <1>3 DEF Environment, Drop, EditSource, RebuildManifest, TouchDisk
  <2> QED
    BY <2>1, QuietStep
<1>4. CASE UNCHANGED vars
  BY <1>4, QuietStep DEF vars
<1> QED
  BY <1>2, <1>3, <1>4

-----------------------------------------------------------------------------
(* The theorems.                                                           *)

\* The strengthening holds in every reachable state.
THEOREM Invariance == Spec => []IInv
<1>1. Init => IInv
  BY InitIInv
<1>2. IInv /\ [Next]_vars => IInv'
  BY NextIInv
<1> QED
  BY <1>1, <1>2, PTL DEF Spec

\* Every variable keeps its type, and no side retries past its limit, whatever
\* the files, the retry limit and the faults.
THEOREM TypeCorrect == Spec => []TypeOK
<1>1. IInv => TypeOK
  BY DEF IInv
<1> QED
  BY <1>1, Invariance, PTL

\* The two sides never lose step: the frame that starts or ends a pass finds the
\* receiver in that pass, with a hasher that covers the destination.
THEOREM PassesAgree == Spec => []PassesInStep
<1>1. IInv => PassesInStep
  BY DEF IInv
<1> QED
  BY <1>1, Invariance, PTL

\* A file that recv_file reports verified is, cell for cell, one whose hash the
\* sender announced in a FileEnd, through resumes, resends, repairs, lost
\* connections, edits of the source and of the destination.
THEOREM VerifiedIsAnnounced == Spec => []VerifiedIsOffered
<1>1. IInv => VerifiedIsOffered
  BY DEF IInv
<1> QED
  BY <1>1, Invariance, PTL

\* The protocol implements Delivery: a file settles once, verified only with
\* announced content, is not written to afterwards, and the sender is done only
\* with a file the receiver has settled on having.
THEOREM PromiseIsKept == Spec => PromiseKept
<1>1. Init => Promise!Init
  BY DEF Init, FreshReceiver, FreshSender, Promise!Init, Promise!Settled
<1>2. IInv /\ [Next]_vars => [Promise!Next]_(Promise!vars)
  BY SenderPromise, ReceiverPromise, OutsidePromise DEF Next, Finished
<1> QED
  BY <1>1, <1>2, Invariance, PTL DEF Spec, PromiseKept, Promise!Spec

-----------------------------------------------------------------------------
(* The other safety invariants: existing files are left alone, what is     *)
(* verified is the source, no two sides wait for each other, and, as long  *)
(* as nothing but the network fails, nothing is skipped, claimed or kept   *)
(* that is not the manifest's.                                             *)

\* Both sides are in one of their states.
LEMMA PcTypes ==
  ASSUME TypeOK
  PROVE  snd.pc \in SenderStates /\ rcv.pc \in ReceiverStates
BY DEF TypeOK, SenderSession, ReceiverSession

\* Only the pc of a session changes, or only what is named.
LEMMA SenderMoves ==
  ASSUME TypeOK, Sender
  PROVE  UNCHANGED <<policy, source, entry, disk, sidecar, rcv, faults, found>>
BY DEF Sender, SenderAck, SenderDone, SenderChunk, SenderNextRange, SenderEnd,
       SenderResend, SenderRepair, SenderGivesUp, SenderBroken, files, fixed, wire

\* The receiver leaves the source and the environment's record alone.
LEMMA ReceiverMoves ==
  ASSUME Receiver
  PROVE  UNCHANGED <<policy, source, entry, snd, faults, offered, found>>
BY DEF Receiver, ReceiverManifest, ReceiverStart, ReceiverChunk, ReceiverRepairChunk,
       ReceiverVerified, ReceiverMismatch, ReceiverUnrepaired, ReceiverDrain,
       ReceiverRefuses, ReceiverBroken, files, fixed, wire

-----------------------------------------------------------------------------
(* Existing files are left alone.                                          *)

\* A receiver that keeps existing files reads no pass over one.
KeepsExisting ==
  policy \in {"skip", "fail"} /\ found # NoFile => disk = found /\ rcv.pc \notin Reading

\* Outside a pass the destination is not written to.
LEMMA ReceiverWrites ==
  ASSUME TypeOK, Receiver, rcv.pc \notin Reading
  PROVE  /\ UNCHANGED disk
         /\ rcv'.pc \in Reading =>
              /\ rcv.pc = "manifest"
              /\ ~Conflicts /\ ~Skips(PlannedPoint)
<1> USE DEF Reading, files, fixed, wire
<1>1. CASE ReceiverManifest
  <2>1. rcv.pc = "manifest" /\ UNCHANGED disk
    BY <1>1 DEF ReceiverManifest
  <2>2. \/ rcv' = FreshReceiver("failed", "none")
        \/ rcv' = FreshReceiver("drain", "skipped")
        \/ ~Conflicts /\ ~Skips(PlannedPoint)
    BY <1>1 DEF ReceiverManifest, ReceiverStops
  <2> QED
    BY <2>1, <2>2 DEF FreshReceiver
<1>2. CASE ReceiverDrain
  BY <1>2, PcTypes DEF ReceiverDrain, TypeOK, ReceiverSession
<1>3. CASE ReceiverRefuses \/ ReceiverBroken
  BY <1>3 DEF ReceiverRefuses, ReceiverBroken, ReceiverStops, FreshReceiver
<1>4. ~ReceiverStart /\ ~ReceiverChunk /\ ~ReceiverRepairChunk
      /\ ~ReceiverVerified /\ ~ReceiverMismatch /\ ~ReceiverUnrepaired
  BY DEF ReceiverStart, ReceiverChunk, ReceiverRepairChunk, ReceiverVerified,
         ReceiverMismatch, ReceiverUnrepaired, PassEnds
<1> QED
  BY <1>1, <1>2, <1>3, <1>4 DEF Receiver

\* Every step keeps them so.
LEMMA KeepsExistingStep ==
  TypeOK /\ KeepsExisting /\ [Next]_vars => KeepsExisting'
<1> SUFFICES ASSUME TypeOK, KeepsExisting, [Next]_vars,
                    policy' \in {"skip", "fail"}, found' # NoFile
             PROVE  disk' = found' /\ rcv'.pc \notin Reading
  BY DEF KeepsExisting
<1> USE DEF KeepsExisting
<1>1. CASE Connect
  BY <1>1 DEF Connect, FreshReceiver, Reading, files, fixed
<1>2. CASE Sender
  BY <1>2, SenderMoves
<1>3. CASE Receiver
  <2>1. /\ UNCHANGED <<policy, found>> /\ disk = found /\ rcv.pc \notin Reading
    BY <1>3, ReceiverMoves
  <2>2. Conflicts \/ Skips(PlannedPoint)
    BY <2>1 DEF Conflicts, Skips
  <2> QED
    BY <1>3, <2>1, <2>2, ReceiverWrites
<1>4. CASE Environment
  <2>1. CASE TouchDisk
    BY <2>1 DEF TouchDisk, Reading
  <2>2. CASE Drop \/ EditSource \/ RebuildManifest
    BY <2>2 DEF Drop, EditSource, RebuildManifest, files, fixed
  <2> QED
    BY <1>4, <2>1, <2>2 DEF Environment
<1>5. CASE UNCHANGED vars
  BY <1>5 DEF vars
<1> QED
  BY <1>1, <1>2, <1>3, <1>4, <1>5 DEF Next, Finished

\* Under the policies that keep existing files, what another program left at the
\* destination is never written to.
THEOREM ExistingKept == Spec => []ExistingUntouched
<1>1. Init => KeepsExisting
  BY DEF Init, KeepsExisting, FreshReceiver, Reading
<1>2. KeepsExisting => ExistingUntouched
  BY DEF KeepsExisting, ExistingUntouched
<1> QED
  BY <1>1, <1>2, KeepsExistingStep, TypeCorrect, PTL DEF Spec

-----------------------------------------------------------------------------
(* What is verified is the source.                                         *)

\* A frame in flight after a step of the sender was in flight before it, or is
\* the one written.
LEMMA SentOrNew ==
  ASSUME TypeOK, NEW m \in ToReceiver, toR' = toR \/ toR' = Sent(toR, <<m>>)
  PROVE  \A i \in DOMAIN toR' : (i \in DOMAIN toR /\ toR'[i] = toR[i]) \/ toR'[i] = m
BY SentFrames

\* A frame in flight after a read was in flight before it.
LEMMA ReadOrOld ==
  ASSUME TypeOK, toR' = toR \/ (toR # << >> /\ toR' = Tail(toR))
  PROVE  \A i \in DOMAIN toR' : \E j \in DOMAIN toR : toR'[i] = toR[j]
<1>1. CASE toR # << >> /\ toR' = Tail(toR)
  BY <1>1, TailFrames
<1> QED
  BY <1>1

\* What a step of the sender has to keep.
LEMMA SenderHashesKept ==
  ASSUME IInv, PassesHashSource, UNCHANGED <<source, entry, disk, rcv, faults>>,
         NEW m \in ToReceiver, toR' = toR \/ toR' = Sent(toR, <<m>>),
         snd'.pc = "stream" => snd'.end <= Len(entry),
         m.type = "chunk" => m.off + Len(m.cells) <= Len(entry),
         faults.edits = 0 /\ rcv.pc \in Reading =>
           /\ snd'.pc = "stream" => FullPass' \/ Begins(snd'.hash, source)
           /\ snd'.pc = "verdict" => Begins(snd'.hash, source)
           /\ m.type = "end" => Begins(m.hash, source)
  PROVE  PassesHashSource'
<1>1. \A i \in DOMAIN toR' : (i \in DOMAIN toR /\ toR'[i] = toR[i]) \/ toR'[i] = m
  BY SentOrNew DEF IInv
<1>2. InBounds'
  BY <1>1 DEF PassesHashSource, InBounds
<1>3. HashesSource'
  BY <1>1 DEF PassesHashSource, HashesSource
<1> QED
  BY <1>2, <1>3 DEF PassesHashSource

\* A sender that reads an answer while the receiver is in a pass streams from
\* inside the file.
LEMMA AskedInside ==
  ASSUME IInv, toS # << >>, rcv.pc \in Reading
  PROVE  Head(toS).type = "ack" =>
           rcv.pc = "start" /\ Head(toS).off = Len(rcv.hash) /\ Len(rcv.hash) <= Len(entry)
BY DEF IInv, PassesInStep, Turns, Answers, HasherCoversDisk, Reading

\* What the sender reads next in a range is as long as it wants, where the file
\* is that long.
LEMMA NextCells ==
  ASSUME TypeOK, snd.cur < snd.end, NEW want, NEW cells,
         want = Smaller(BufferLen, snd.end - snd.cur),
         cells = Slice(source, snd.cur, snd.cur + want)
  PROVE  /\ want \in Nat /\ want > 0 /\ want <= snd.end - snd.cur
         /\ cells \in Content /\ Len(cells) <= want
         /\ snd.end <= Len(source) => Len(cells) = want
         /\ \A j \in DOMAIN cells :
              snd.cur + j \in 1..Len(source) /\ cells[j] = source[snd.cur + j]
<1>1. snd.cur \in Nat /\ snd.end \in Nat /\ source \in Seq(Cell) /\ Len(source) \in Nat
  BY SessionFields DEF TypeOK, Content
<1>2. want \in Nat /\ want > 0 /\ want <= snd.end - snd.cur
  BY <1>1, BytesAssumption DEF Smaller, BufferLen
<1> DEFINE to == Smaller(snd.cur + want, Len(source))
<1>3. /\ to \in Nat /\ to <= Len(source) /\ to <= snd.cur + want
      /\ snd.cur + want <= Len(source) => to = snd.cur + want
      /\ cells \in Content /\ DOMAIN cells = 1..Len(cells)
      /\ Len(cells) = IF snd.cur < to THEN to - snd.cur ELSE 0
      /\ \A j \in 1..(to - snd.cur) : cells[j] = source[snd.cur + j]
  <2>1. source \in Content /\ snd.cur + want \in Nat
    BY <1>1, <1>2 DEF Content
  <2> QED
    BY <1>1, <2>1, SliceRange
<1> HIDE DEF to
<1>4. Len(cells) <= want /\ (snd.end <= Len(source) => Len(cells) = want)
  BY <1>1, <1>2, <1>3
<1>5. ASSUME NEW j \in DOMAIN cells
      PROVE  snd.cur + j \in 1..Len(source) /\ cells[j] = source[snd.cur + j]
  <2>1. j \in Nat /\ j >= 1 /\ j <= to - snd.cur /\ j \in 1..(to - snd.cur)
    BY <1>1, <1>3
  <2> QED
    BY <1>1, <1>3, <2>1
<1> QED
  BY <1>2, <1>3, <1>4, <1>5

\* A turn of send_chunks ends the session, or writes the next cells of the source
\* and hashes them.
LEMMA ChunkWritten ==
  ASSUME TypeOK, SenderChunk
  PROVE  /\ snd.pc = "stream" /\ UNCHANGED toS
         /\ \/ snd'.pc = "failed" /\ up' = FALSE /\ UNCHANGED toR
            \/ \E cells \in Content :
                 /\ toR' = Sent(toR, <<[type |-> "chunk", off |-> snd.cur,
                                        cells |-> cells]>>)
                 /\ snd'.pc = "stream" /\ snd'.cur = snd.cur + Len(cells)
                 /\ snd'.hash = snd.hash \o cells /\ UNCHANGED up
                 /\ snd'.end = snd.end /\ snd'.todo = snd.todo
                 /\ snd'.attempts = snd.attempts
                 /\ Len(cells) \in Nat /\ snd.cur + Len(cells) <= snd.end
                 /\ \A j \in DOMAIN cells :
                      snd.cur + j \in 1..Len(source) /\ cells[j] = source[snd.cur + j]
<1> DEFINE want == Smaller(BufferLen, snd.end - snd.cur)
           cells == Slice(source, snd.cur, snd.cur + want)
           m == [type |-> "chunk", off |-> snd.cur, cells |-> cells]
<1>1. snd.pc = "stream" /\ snd.cur < snd.end /\ UNCHANGED toS
  BY DEF SenderChunk
<1>2. /\ want \in Nat /\ want <= snd.end - snd.cur
      /\ cells \in Content /\ Len(cells) <= want
      /\ \A j \in DOMAIN cells :
           snd.cur + j \in 1..Len(source) /\ cells[j] = source[snd.cur + j]
  BY <1>1, NextCells
<1>3. CASE cells = << >>
  <2>1. SenderStops("failed")
    BY <1>3 DEF SenderChunk
  <2> QED
    BY <1>1, <2>1 DEF SenderStops, FreshSender
<1>4. CASE cells # << >>
  <2>1. /\ toR' = Sent(toR, <<m>>) /\ UNCHANGED up
        /\ snd' = [snd EXCEPT !.cur = @ + Len(cells), !.hash = @ \o cells]
    BY <1>4 DEF SenderChunk
  <2>2. snd \in SenderSession /\ snd.cur \in Nat /\ snd.end \in Nat
    BY SessionFields DEF TypeOK
  <2> HIDE DEF want, cells
  <2>3. Len(cells) \in Nat /\ snd.cur + Len(cells) <= snd.end
    BY <1>2, <2>2 DEF Content
  <2>4. /\ snd'.pc = snd.pc /\ snd'.cur = snd.cur + Len(cells)
        /\ snd'.hash = snd.hash \o cells
        /\ snd'.end = snd.end /\ snd'.todo = snd.todo /\ snd'.attempts = snd.attempts
    BY <2>1, <2>2 DEF SenderSession
  <2> QED
    BY <1>1, <1>2, <2>1, <2>3, <2>4
<1> QED
  BY <1>3, <1>4

\* A full pass that the sender goes on with is a full pass.
LEMMA FullPassOn ==
  ASSUME TypeOK, source = entry, FullPass, UNCHANGED <<source, entry>>,
         NEW cells \in Content, Len(cells) \in Nat,
         snd'.cur = snd.cur + Len(cells), snd'.hash = snd.hash \o cells,
         snd'.end = snd.end, snd'.todo = snd.todo, snd.cur + Len(cells) <= snd.end,
         \A j \in DOMAIN cells :
           snd.cur + j \in 1..Len(source) /\ cells[j] = source[snd.cur + j]
  PROVE  FullPass'
<1> DEFINE h == snd.hash \o cells
<1>1. /\ snd.todo = {} /\ snd.end = Len(entry)
      /\ Len(snd.hash) = snd.cur /\ Begins(source, snd.hash)
  BY DEF FullPass
<1>2. snd.hash \in Content /\ source \in Content
  BY SessionFields DEF TypeOK
<1>3. \A j \in DOMAIN cells :
        /\ Len(snd.hash) + j \in 1..Len(source)
        /\ cells[j] = source[Len(snd.hash) + j]
  BY <1>1
<1>4. Len(h) = Len(snd.hash) + Len(cells) /\ Begins(source, h)
  BY <1>1, <1>2, <1>3, BeginsLonger
<1>5. snd'.hash = h
  OBVIOUS
<1> HIDE DEF h
<1> QED
  BY <1>1, <1>4, <1>5 DEF FullPass

\* When it is over, the sender has hashed the source.
LEMMA FullPassOver ==
  ASSUME TypeOK, source = entry, FullPass, snd.cur = snd.end
  PROVE  snd.hash = source
<1>1. snd.hash \in Content /\ source \in Content /\ Len(source) \in Nat
  BY SessionFields DEF TypeOK, Content
<1> QED
  BY <1>1, BeginsWhole DEF FullPass

\* The first pass of a session, asked for by the acknowledgement, is a full one.
LEMMA AckStartsFullPass ==
  ASSUME IInv, SenderAck, source = entry, rcv.pc \in Reading
  PROVE  FullPass'
<1> DEFINE off == Head(toS).off
<1>1. /\ toS # << >> /\ Head(toS).type = "ack" /\ UNCHANGED <<source, entry>>
      /\ snd' = [snd EXCEPT !.pc = "stream", !.cur = off, !.end = Len(entry),
                            !.todo = {}, !.hash = HashedPrefix(source, off),
                            !.attempts = 0]
  BY DEF SenderAck, Hears, Stream, files
<1>2. off = Len(rcv.hash) /\ Len(rcv.hash) <= Len(entry)
  BY <1>1, AskedInside
<1>3. off \in Nat /\ Len(source) \in Nat /\ source \in Content /\ snd \in SenderSession
  BY <1>2, SessionFields DEF IInv, TypeOK, Content
<1> HIDE DEF off
<1>4. /\ Len(HashedPrefix(source, off)) = Smaller(off, Len(source))
      /\ Begins(source, HashedPrefix(source, off))
  BY <1>3, SliceCells DEF HashedPrefix
<1>5. Smaller(off, Len(source)) = off
  BY <1>2, <1>3 DEF Smaller
<1> DEFINE h == HashedPrefix(source, off)
<1>6. Len(h) = off /\ Begins(source, h)
  BY <1>4, <1>5
<1> HIDE DEF h
<1>7. snd' = [snd EXCEPT !.pc = "stream", !.cur = off, !.end = Len(entry),
                         !.todo = {}, !.hash = h, !.attempts = 0]
  BY <1>1 DEF h
<1>8. /\ snd'.todo = {} /\ snd'.end = Len(entry) /\ snd'.cur = off /\ snd'.hash = h
  BY <1>3, <1>7 DEF SenderSession
<1> QED
  BY <1>1, <1>2, <1>3, <1>6, <1>8 DEF FullPass

\* No step of the sender announces what does not begin with the source.
LEMMA SenderHashes == IInv /\ PassesHashSource /\ Sender => PassesHashSource'
<1> SUFFICES ASSUME IInv, PassesHashSource, Sender PROVE PassesHashSource'
  OBVIOUS
<1> DEFINE done == [type |-> "done"]
<1>0. /\ TypeOK /\ UNCHANGED <<source, entry, disk, rcv, faults>>
      /\ done \in ToReceiver /\ done.type = "done"
      /\ source \in Content /\ entry \in Content /\ Len(entry) \in Nat
      /\ snd \in SenderSession
  BY SenderMoves DEF IInv, ToReceiver, TypeOK, Content
<1> HIDE DEF done
<1>1. CASE SenderAck
  <2> DEFINE off == Head(toS).off
             m == StartFrame(off)
  <2>1. /\ toR' = Sent(toR, <<m>>) /\ toS # << >> /\ Head(toS).type = "ack"
        /\ snd'.pc = "stream" /\ snd'.end = Len(entry)
    BY <1>0, <1>1 DEF SenderAck, Hears, Stream, SenderSession
  <2>2. m \in ToReceiver /\ m.type = "start"
    BY <1>0, <2>1, TailType DEF ToSender, ToReceiver, StartFrame, TypeOK
  <2>3. faults.edits = 0 /\ rcv.pc \in Reading => FullPass'
    BY <1>1, AckStartsFullPass DEF PassesHashSource, HashesSource
  <2> HIDE DEF m
  <2>4. snd'.end <= Len(entry)
    BY <1>0, <2>1
  <2> QED
    BY <1>0, <2>1, <2>2, <2>3, <2>4, SenderHashesKept
<1>2. CASE SenderDone
  BY <1>0, <1>2, SenderHashesKept DEF SenderDone, FreshSender, done
<1>3. CASE SenderChunk
  <2>1. snd.pc = "stream"
    BY <1>0, <1>3, ChunkWritten
  <2>2. CASE snd'.pc = "failed" /\ UNCHANGED toR
    BY <1>0, <2>2, SenderHashesKept
  <2>3. CASE ~(snd'.pc = "failed" /\ UNCHANGED toR)
    <3>1. PICK cells \in Content :
            /\ toR' = Sent(toR, <<[type |-> "chunk", off |-> snd.cur, cells |-> cells]>>)
            /\ snd'.pc = "stream" /\ snd'.cur = snd.cur + Len(cells)
            /\ snd'.hash = snd.hash \o cells
            /\ snd'.end = snd.end /\ snd'.todo = snd.todo
            /\ Len(cells) \in Nat /\ snd.cur + Len(cells) <= snd.end
            /\ \A j \in DOMAIN cells :
                 snd.cur + j \in 1..Len(source) /\ cells[j] = source[snd.cur + j]
      BY <1>0, <1>3, <2>3, ChunkWritten
    <3> DEFINE m == [type |-> "chunk", off |-> snd.cur, cells |-> cells]
    <3>2. snd.cur \in Nat /\ snd.end \in Nat /\ snd.hash \in Content
      BY <1>0, SessionFields
    <3>3. /\ m \in ToReceiver /\ m.type = "chunk" /\ m.off = snd.cur /\ m.cells = cells
          /\ toR' = Sent(toR, <<m>>)
      BY <3>1, <3>2 DEF ToReceiver
    <3>4. snd.end <= Len(entry)
      BY <2>1 DEF PassesHashSource, InBounds
    <3> HIDE DEF m
    <3>5. m.off + Len(m.cells) <= Len(entry)
      BY <1>0, <3>1, <3>2, <3>3, <3>4
    <3>6. ASSUME faults.edits = 0, rcv.pc \in Reading
          PROVE  FullPass' \/ Begins(snd'.hash, source)
      <4>1. source = entry /\ (FullPass \/ Begins(snd.hash, source))
        BY <2>1, <3>6 DEF PassesHashSource, HashesSource
      <4>2. CASE FullPass
        BY <1>0, <3>1, <4>1, <4>2, FullPassOn
      <4>3. CASE Begins(snd.hash, source)
        BY <1>0, <3>1, <3>2, <4>3, BeginsAppended
      <4> QED
        BY <4>1, <4>2, <4>3
    <3> QED
      BY <1>0, <3>1, <3>3, <3>4, <3>5, <3>6, SenderHashesKept
  <2> QED
    BY <2>2, <2>3
<1>4. CASE SenderNextRange
  <2>1. snd.pc = "stream" /\ toR' = toR /\ snd'.pc = "stream" /\ snd'.hash = snd.hash
        /\ snd'.end = ChunkEnd(Len(entry), Min(snd.todo)) /\ snd.todo # {}
    BY <1>0, <1>4 DEF SenderNextRange, SenderSession, wire
  <2>2. snd'.end <= Len(entry)
    <3>1. Min(snd.todo) \in Nat
      BY <1>0, <2>1, SessionFields, LeastElement
    <3> QED
      BY <1>0, <2>1, <3>1, ChunkEndType
  <2>3. ~FullPass
    BY <2>1 DEF FullPass
  <2> QED
    BY <1>0, <2>1, <2>2, <2>3, SenderHashesKept DEF PassesHashSource, HashesSource
<1>5. CASE SenderEnd
  <2> DEFINE m == [type |-> "end", hash |-> snd.hash]
  <2>1. /\ snd.pc = "stream" /\ snd.cur = snd.end /\ toR' = Sent(toR, <<m>>)
        /\ snd'.pc = "verdict" /\ snd'.hash = snd.hash
    BY <1>0, <1>5 DEF SenderEnd, SenderSession
  <2>2. m \in ToReceiver /\ m.type = "end" /\ m.hash = snd.hash /\ snd.hash \in Content
    BY <1>0, SessionFields DEF ToReceiver
  <2> HIDE DEF m
  <2>3. ASSUME faults.edits = 0, rcv.pc \in Reading PROVE Begins(snd.hash, source)
    <3>1. source = entry /\ (FullPass \/ Begins(snd.hash, source))
      BY <2>1, <2>3 DEF PassesHashSource, HashesSource
    <3>2. CASE FullPass
      BY <1>0, <2>1, <3>1, <3>2, FullPassOver DEF Begins
    <3> QED
      BY <3>1, <3>2
  <2> QED
    BY <1>0, <2>1, <2>2, <2>3, SenderHashesKept
<1>6. CASE SenderResend
  <2> DEFINE m == StartFrame(0)
  <2>1. /\ toR' = Sent(toR, <<m>>)
        /\ snd'.pc = "stream" /\ snd'.cur = 0 /\ snd'.end = Len(entry)
        /\ snd'.todo = {} /\ snd'.hash = << >>
    BY <1>0, <1>6 DEF SenderResend, Stream, SenderSession
  <2>2. m \in ToReceiver /\ m.type = "start"
    BY DEF ToReceiver, StartFrame
  <2>3. FullPass' /\ snd'.end <= Len(entry)
    BY <1>0, <2>1 DEF FullPass, Begins, Content
  <2> HIDE DEF m
  <2> QED
    BY <1>0, <2>1, <2>2, <2>3, SenderHashesKept
<1>7. CASE SenderRepair
  <2>1. /\ snd.pc = "verdict" /\ toR' = toR /\ snd'.hash = snd.hash
        /\ snd'.pc = "stream" /\ snd'.end = 0
    BY <1>0, <1>7 DEF SenderRepair, SenderSession
  <2> QED
    BY <1>0, <2>1, SenderHashesKept DEF PassesHashSource, HashesSource
<1>8. CASE SenderGivesUp
  BY <1>0, <1>8, SenderHashesKept DEF SenderGivesUp, SenderStops, FreshSender
<1>9. CASE SenderBroken
  BY <1>0, <1>9, SenderHashesKept DEF SenderBroken, FreshSender, wire
<1> QED
  BY <1>1, <1>2, <1>3, <1>4, <1>5, <1>6, <1>7, <1>8, <1>9 DEF Sender

\* The manifest read, nothing else is in flight and the sender waits.
LEMMA ManifestRead ==
  ASSUME IInv, ReceiverManifest
  PROVE  /\ rcv.pc = "manifest" /\ toS = << >> /\ snd.pc \in {"ack", "failed"}
         /\ toR # << >> /\ toR' = << >>
         /\ UNCHANGED <<source, entry, disk, snd, faults, policy>>
<1>1. /\ rcv.pc = "manifest" /\ toR # << >> /\ toR' = Tail(toR)
      /\ UNCHANGED <<source, entry, disk, snd, faults, policy>>
  BY DEF ReceiverManifest, Gets, fixed
<1>2. toS = << >> /\ Len(toR) <= 1 /\ snd.pc \in {"ack", "failed"} /\ toR \in Seq(ToReceiver)
  BY <1>1 DEF IInv, PassesInStep, Turns, TypeOK
<1>3. toR' = << >>
  BY <1>1, <1>2
<1> QED
  BY <1>1, <1>2, <1>3

\* The receiver then stops, drains or starts.
LEMMA ManifestOutcome ==
  ASSUME TypeOK, ReceiverManifest
  PROVE  \/ rcv'.pc = "failed" /\ rcv'.outcome = "none"
         \/ rcv'.pc = "drain" /\ rcv'.outcome = "skipped"
         \/ /\ rcv'.pc = "start" /\ rcv'.outcome = rcv.outcome
            /\ rcv'.hash = PlannedPoint.hash /\ rcv'.attempts = rcv.attempts
<1> DEFINE h == PlannedPoint.hash
<1>1. \/ rcv' = FreshReceiver("failed", "none")
      \/ rcv' = FreshReceiver("drain", "skipped")
      \/ rcv' = [rcv EXCEPT !.pc = "start", !.hash = h]
  BY DEF ReceiverManifest, ReceiverStops
<1>2. rcv \in ReceiverSession
  BY DEF TypeOK
<1> HIDE DEF h
<1>3. CASE rcv' = [rcv EXCEPT !.pc = "start", !.hash = h]
  BY <1>2, <1>3 DEF ReceiverSession, h
<1> QED
  BY <1>1, <1>3 DEF FreshReceiver

\* What a step of the receiver has to keep.
LEMMA ReceiverHashesKept ==
  ASSUME IInv, PassesHashSource, UNCHANGED <<source, entry, snd, faults>>,
         toR' = toR \/ (toR # << >> /\ toR' = Tail(toR)),
         rcv'.pc \in Reading =>
           rcv.pc \in Reading \/ (toR' = << >> /\ snd.pc \in {"ack", "failed"}),
         rcv'.pc \in {"chunks", "repair"} => Len(disk') <= Len(entry)
  PROVE  PassesHashSource'
<1>1. \A i \in DOMAIN toR' : \E j \in DOMAIN toR : toR'[i] = toR[j]
  BY ReadOrOld DEF IInv
<1>2. InBounds'
  BY <1>1 DEF PassesHashSource, InBounds
<1>3. HashesSource'
  <2> SUFFICES ASSUME faults.edits = 0
               PROVE  /\ source = entry
                      /\ rcv'.pc \in Reading =>
                           /\ snd.pc = "stream" => FullPass \/ Begins(snd.hash, source)
                           /\ snd.pc = "verdict" => Begins(snd.hash, source)
                           /\ \A i \in DOMAIN toR' :
                                toR'[i].type = "end" => Begins(toR'[i].hash, source)
    BY DEF HashesSource, FullPass
  <2> QED
    BY <1>1 DEF PassesHashSource, HashesSource
<1> QED
  BY <1>2, <1>3 DEF PassesHashSource

\* A chunk the receiver reads in a pass ends inside the file.
LEMMA ChunkInside ==
  ASSUME TypeOK, InBounds, rcv.pc \in Reading, toR # << >>, Head(toR).type = "chunk"
  PROVE  /\ Head(toR).off \in Nat /\ Head(toR).cells \in Content
         /\ Head(toR).off + Len(Head(toR).cells) <= Len(entry)
<1>1. 1 \in DOMAIN toR /\ toR[1] = Head(toR) /\ Head(toR) \in ToReceiver
  BY TailType DEF TypeOK
<1> QED
  BY <1>1 DEF InBounds, ToReceiver

\* No step of the receiver makes the destination longer than the file.
LEMMA ReceiverHashes == IInv /\ PassesHashSource /\ Receiver => PassesHashSource'
<1> SUFFICES ASSUME IInv, PassesHashSource, Receiver PROVE PassesHashSource'
  OBVIOUS
<1>0. /\ TypeOK /\ UNCHANGED <<source, entry, snd, faults>> /\ InBounds
      /\ Len(entry) \in Nat /\ rcv \in ReceiverSession /\ HasherCoversDisk
  BY ReceiverMoves DEF IInv, PassesInStep, PassesHashSource, TypeOK, Content
<1>1. CASE ReceiverManifest
  <2>1. rcv'.pc \in {"failed", "drain", "start"}
    BY <1>0, <1>1, ManifestOutcome
  <2>2. /\ toR # << >> /\ toR' = Tail(toR) /\ toR' = << >>
        /\ snd.pc \in {"ack", "failed"}
    BY <1>1, ManifestRead DEF ReceiverManifest
  <2> QED
    BY <1>0, <2>1, <2>2, ReceiverHashesKept
<1>2. CASE ReceiverStart
  <2>1. /\ rcv.pc = "start" /\ toR # << >> /\ Head(toR).type = "start"
        /\ toR' = Tail(toR) /\ rcv'.pc = "chunks"
        /\ disk' = OpenForResume(disk, Head(toR).off, Len(entry))
    BY <1>0, <1>2 DEF ReceiverStart, Gets, ReceiverSession
  <2>2. Head(toR).off = Len(rcv.hash)
    BY <2>1, PassFrame DEF Reading
  <2>3. /\ Begins(OnDisk(disk), rcv.hash) /\ Len(rcv.hash) <= Len(entry)
        /\ rcv.hash \in Content /\ disk \in {NoFile} \cup Content
    BY <1>0, <2>1, SessionFields DEF HasherCoversDisk, TypeOK
  <2>4. Len(disk') \in {Len(rcv.hash), Len(entry)}
    BY <1>0, <2>1, <2>2, <2>3, OpenKeepsPrefix
  <2>5. Len(disk') <= Len(entry)
    BY <1>0, <2>3, <2>4
  <2> QED
    BY <1>0, <2>1, <2>5, ReceiverHashesKept DEF Reading
<1>3. CASE ReceiverChunk
  <2> DEFINE cells == Head(toR).cells
  <2>1. /\ rcv.pc = "chunks" /\ toR # << >> /\ Head(toR).type = "chunk"
        /\ Head(toR).off = rcv.cur /\ toR' = Tail(toR) /\ rcv'.pc = "chunks"
        /\ disk' = WriteAt(disk, rcv.cur, cells)
    BY <1>0, <1>3 DEF ReceiverChunk, Gets, NextInOrder, ReceiverSession
  <2>2. /\ rcv.cur \in Nat /\ cells \in Content
        /\ rcv.cur + Len(cells) <= Len(entry)
    BY <1>0, <2>1, ChunkInside DEF Reading
  <2>3. disk \in Content /\ Len(disk) <= Len(entry)
    BY <1>0, <2>1 DEF HasherCoversDisk, InBounds
  <2> HIDE DEF cells
  <2>4. Len(disk') = Larger(Len(disk), rcv.cur + Len(cells))
    BY <2>1, <2>2, <2>3, WriteAtCells
  <2>5. Len(disk') <= Len(entry)
    BY <2>2, <2>3, <2>4 DEF Larger
  <2> QED
    BY <1>0, <2>1, <2>5, ReceiverHashesKept DEF Reading
<1>4. CASE ReceiverRepairChunk
  <2> DEFINE m == Head(toR)
  <2>1. /\ rcv.pc = "repair" /\ toR # << >> /\ m.type = "chunk"
        /\ toR' = Tail(toR) /\ rcv'.pc = "repair"
        /\ disk' = WriteAt(disk, m.off, m.cells)
    BY <1>0, <1>4 DEF ReceiverRepairChunk, Gets, ReceiverSession
  <2>2. /\ m.off \in Nat /\ m.cells \in Content
        /\ m.off + Len(m.cells) <= Len(entry)
    BY <1>0, <2>1, ChunkInside DEF Reading
  <2>3. disk \in Content /\ Len(disk) <= Len(entry)
    BY <1>0, <2>1 DEF HasherCoversDisk, InBounds
  <2> HIDE DEF m
  <2>4. Len(disk') = Larger(Len(disk), m.off + Len(m.cells))
    BY <2>1, <2>2, <2>3, WriteAtCells
  <2>5. Len(disk') <= Len(entry)
    BY <2>2, <2>3, <2>4 DEF Larger
  <2> QED
    BY <1>0, <2>1, <2>5, ReceiverHashesKept DEF Reading, m
<1>5. CASE ReceiverVerified \/ ReceiverMismatch \/ ReceiverUnrepaired
  <2>1. /\ toR # << >> /\ toR' = Tail(toR) /\ UNCHANGED disk
        /\ rcv.pc \in {"chunks", "repair"}
    BY <1>5 DEF ReceiverVerified, ReceiverMismatch, ReceiverUnrepaired, PassEnds, Gets
  <2>2. Len(disk) <= Len(entry)
    BY <2>1, <1>0 DEF InBounds
  <2> QED
    BY <1>0, <2>1, <2>2, ReceiverHashesKept DEF Reading
<1>6. CASE ReceiverDrain
  <2>1. /\ toR' = toR \/ (toR # << >> /\ toR' = Tail(toR))
        /\ rcv'.pc \in {"drain", "reported"}
    BY <1>0, <1>6 DEF ReceiverDrain, ReceiverSession
  <2> QED
    BY <1>0, <2>1, ReceiverHashesKept DEF Reading
<1>7. CASE ReceiverRefuses \/ ReceiverBroken
  <2>1. /\ toR' = toR \/ (toR # << >> /\ toR' = Tail(toR))
        /\ rcv'.pc = "failed"
    BY <1>7 DEF ReceiverRefuses, ReceiverBroken, ReceiverStops, FreshReceiver, wire
  <2> QED
    BY <1>0, <2>1, ReceiverHashesKept DEF Reading
<1> QED
  BY <1>1, <1>2, <1>3, <1>4, <1>5, <1>6, <1>7 DEF Receiver

\* Nor do a new session and the environment.
LEMMA OutsideHashes ==
  IInv /\ PassesHashSource /\ (Connect \/ Environment \/ UNCHANGED vars) => PassesHashSource'
<1> SUFFICES ASSUME IInv, PassesHashSource, Connect \/ Environment \/ UNCHANGED vars
             PROVE  PassesHashSource'
  OBVIOUS
<1> USE DEF PassesHashSource, InBounds, HashesSource
<1>1. CASE Connect
  BY <1>1 DEF Connect, FreshSender, FreshReceiver, Reading, files, fixed
<1>2. CASE Drop \/ UNCHANGED vars
  <2>1. UNCHANGED <<source, entry, disk, toR, snd, rcv, faults.edits>>
    BY <1>2 DEF Drop, vars, files, IInv, TypeOK
  <2> QED
    BY <2>1 DEF FullPass
<1>3. CASE EditSource
  <2>1. faults'.edits # 0 /\ UNCHANGED <<entry, disk, toR, snd, rcv>>
    BY <1>3 DEF EditSource, IInv, TypeOK, wire
  <2> QED
    BY <2>1
<1>4. CASE RebuildManifest
  <2>1. /\ snd.pc # "stream" /\ rcv.pc \in ReceiverResting /\ entry' = source
        /\ UNCHANGED <<source, disk, toR, snd, rcv, faults>>
    BY <1>4 DEF RebuildManifest, fixed, wire
  <2> QED
    BY <2>1 DEF Reading, ReceiverResting
<1>5. CASE TouchDisk
  <2>1. rcv.pc \in {"idle", "failed"} /\ faults'.edits = faults.edits
        /\ UNCHANGED <<source, entry, toR, snd, rcv>>
    BY <1>5 DEF TouchDisk, IInv, TypeOK, wire
  <2> QED
    BY <2>1 DEF Reading
<1> QED
  BY <1>1, <1>2, <1>3, <1>4, <1>5 DEF Environment

\* Only the answer to the manifest and the one to FileEnd settle a session well.
LEMMA OutcomeStays ==
  ASSUME TypeOK, OutcomeIsFinal, Receiver, ~ReceiverVerified, ~ReceiverManifest,
         rcv'.outcome \in {"verified", "skipped"}
  PROVE  rcv.outcome = rcv'.outcome /\ UNCHANGED disk
<1>0. /\ rcv \in ReceiverSession
      /\ rcv.outcome # "none" => rcv.pc \in {"drain", "reported"}
  BY DEF TypeOK, OutcomeIsFinal
<1>1. CASE ReceiverDrain
  BY <1>0, <1>1 DEF ReceiverDrain, ReceiverSession, files
<1>2. CASE ReceiverStart \/ ReceiverChunk \/ ReceiverRepairChunk
  BY <1>0, <1>2 DEF ReceiverStart, ReceiverChunk, ReceiverRepairChunk, ReceiverSession
<1>3. CASE ReceiverMismatch \/ ReceiverUnrepaired
  <2>1. rcv.pc \in {"chunks", "repair"}
    BY <1>3 DEF ReceiverMismatch, ReceiverUnrepaired
  <2>2. \/ rcv' = FreshReceiver("drain", "failed")
        \/ rcv'.outcome = rcv.outcome
    BY <1>0, <1>3
    DEF ReceiverMismatch, ReceiverUnrepaired, ExpectResend, ReceiverSession
  <2> QED
    BY <1>0, <2>1, <2>2 DEF FreshReceiver
<1>4. CASE ReceiverRefuses \/ ReceiverBroken
  BY <1>4 DEF ReceiverRefuses, ReceiverBroken, ReceiverStops, FreshReceiver
<1> QED
  BY <1>1, <1>2, <1>3, <1>4 DEF Receiver

\* What the receiver verifies is the source, as long as nobody has edited it.
LEMMA VerifiedStep ==
  IInv /\ PassesHashSource /\ VerifiedIsSource /\ [Next]_vars => VerifiedIsSource'
<1> SUFFICES ASSUME IInv, PassesHashSource, VerifiedIsSource, [Next]_vars,
                    rcv'.outcome = "verified", faults'.edits = 0
             PROVE  disk' = source'
  BY DEF VerifiedIsSource
<1>0. TypeOK /\ HasherCoversDisk /\ OutcomeIsFinal /\ rcv \in ReceiverSession
      /\ source \in Content /\ entry \in Content
  BY DEF IInv, PassesInStep, TypeOK
<1>1. CASE Connect
  BY <1>1 DEF Connect, FreshReceiver
<1>2. CASE Sender
  BY <1>0, <1>2, SenderMoves DEF VerifiedIsSource
<1>3. CASE Receiver
  <2>1. UNCHANGED <<source, entry, faults>>
    BY <1>3, ReceiverMoves
  <2>2. CASE ReceiverVerified
    <3>1. /\ rcv.pc \in {"chunks", "repair"} /\ toR # << >>
          /\ Head(toR).type = "end" /\ LocalHash = Head(toR).hash /\ disk' = disk
      BY <2>2 DEF ReceiverVerified, PassEnds, Gets
    <3>2. LocalHash = disk
      <4>1. CASE rcv.pc = "repair"
        BY <4>1 DEF LocalHash
      <4>2. CASE rcv.pc = "chunks"
        BY <2>2, <4>2, HashedIsOnDisk DEF LocalHash, ReceiverVerified, PassEnds
      <4> QED
        BY <3>1, <4>1, <4>2
    <3>3. source = entry /\ Begins(Head(toR).hash, source)
      <4>1. 1 \in DOMAIN toR /\ toR[1] = Head(toR)
        BY <1>0, <3>1 DEF TypeOK
      <4> QED
        BY <2>1, <3>1, <4>1 DEF PassesHashSource, HashesSource, Reading
    <3>4. disk \in Content /\ Len(disk) <= Len(entry)
      BY <1>0, <3>1 DEF HasherCoversDisk, PassesHashSource, InBounds
    <3>5. source = disk
      BY <1>0, <3>1, <3>2, <3>3, <3>4, BeginsWhole
    <3> QED
      BY <2>1, <3>1, <3>5
  <2>3. CASE ~ReceiverVerified
    <3>1. rcv.outcome = "verified" /\ UNCHANGED disk
      <4>1. CASE ReceiverManifest
        <5>1. rcv.pc = "manifest"
          BY <4>1 DEF ReceiverManifest
        <5>2. rcv'.outcome # "verified"
          BY <1>0, <4>1, <5>1, ManifestOutcome DEF OutcomeIsFinal
        <5> QED
          BY <5>2
      <4>2. CASE ~ReceiverManifest
        BY <1>0, <1>3, <2>3, <4>2, OutcomeStays
      <4> QED
        BY <4>1, <4>2
    <3> QED
      BY <2>1, <3>1 DEF VerifiedIsSource
  <2> QED
    BY <2>2, <2>3
<1>4. CASE Environment
  <2>1. UNCHANGED <<rcv>> /\ rcv.pc \in {"drain", "reported"}
    BY <1>0, <1>4 DEF Environment, Drop, EditSource, RebuildManifest, TouchDisk,
                      files, wire, fixed, OutcomeIsFinal
  <2>2. faults \in [drops: 0..MaxDrops, edits: 0..MaxEdits, touches: 0..MaxTouches]
        /\ MaxEdits \in Nat
    BY <1>0, TransferAssumption DEF TypeOK
  <2>3. ~EditSource
    BY <2>2 DEF EditSource
  <2>4. faults'.edits = faults.edits /\ UNCHANGED <<source, disk>>
    BY <1>4, <2>1, <2>2, <2>3
    DEF Environment, Drop, RebuildManifest, TouchDisk, files, fixed
  <2> QED
    BY <2>1, <2>4 DEF VerifiedIsSource
<1>5. CASE UNCHANGED vars
  BY <1>5 DEF vars, VerifiedIsSource
<1> QED
  BY <1>1, <1>2, <1>3, <1>4, <1>5 DEF Next, Finished

\* What the sender announces begins with the source, and no destination is
\* longer, as long as nobody has edited the source.
THEOREM PassesHashTheSource == Spec => []PassesHashSource
<1>1. Init => PassesHashSource
  BY DEF Init, FreshSender, FreshReceiver, PassesHashSource, InBounds, HashesSource, Reading
<1>2. IInv /\ PassesHashSource /\ [Next]_vars => PassesHashSource'
  BY SenderHashes, ReceiverHashes, OutsideHashes DEF Next, Finished
<1> QED
  BY <1>1, <1>2, Invariance, PTL DEF Spec

\* A file the receiver reports verified is the source.
THEOREM VerifiedIsTheSource == Spec => []VerifiedIsSource
<1>1. Init => VerifiedIsSource
  BY DEF Init, FreshReceiver, VerifiedIsSource
<1> QED
  BY <1>1, VerifiedStep, Invariance, PassesHashTheSource, PTL DEF Spec

-----------------------------------------------------------------------------
(* No two sides wait for each other.                                       *)

\* What the definitions of AnswerOwed say of a state.
Owes == FramesOwed /\ AnswersFit /\ AttemptsAgree

\* A step of the sender that reads no answer leaves it owed.
LEMMA SenderOwesOn ==
  ASSUME AnswerOwed, UNCHANGED <<up, rcv, toS>>,
         snd.pc = "stream", snd'.attempts = snd.attempts,
         \/ snd'.pc = "stream"
         \/ snd'.pc = "verdict" /\ (up => toR' # << >> /\ toR'[Len(toR')].type = "end")
  PROVE  AnswerOwed'
<1> SUFFICES ASSUME up PROVE Owes'
  BY DEF AnswerOwed, Owes
<1> USE DEF AnswerOwed, FramesOwed, AnswersFit, AttemptsAgree
<1>1. toS = << >> /\ toS' = << >> /\ rcv.pc \in Reading
  OBVIOUS
<1>2. FramesOwed'
  BY <1>1 DEF SenderResting, Reading, ReceiverResting
<1>3. AnswersFit' /\ AttemptsAgree'
  BY <1>1 DEF Reading
<1> QED
  BY <1>2, <1>3 DEF Owes

\* So does one that reads an answer and starts to stream, or is done.
LEMMA SenderOwesNext ==
  ASSUME IInv, AnswerOwed, UNCHANGED <<up, rcv>>, toS # << >>, toS' = Tail(toS),
         up => \/ /\ snd'.pc = "stream" /\ rcv.pc \in Reading
                  /\ snd'.attempts \in Nat /\ rcv.attempts <= snd'.attempts
               \/ snd'.pc = "done" /\ rcv.pc = "drain"
  PROVE  AnswerOwed'
<1> SUFFICES ASSUME up PROVE Owes'
  BY DEF AnswerOwed, Owes
<1>1. toS' = << >> /\ rcv.attempts \in Nat
  BY AnswerRead, SessionFields DEF IInv, PassesInStep
<1>2. FramesOwed'
  BY <1>1 DEF FramesOwed, SenderResting, Reading, ReceiverResting
<1>3. AnswersFit'
  BY <1>1 DEF AnswersFit
<1>4. AttemptsAgree'
  BY <1>1 DEF AttemptsAgree, Reading
<1> QED
  BY <1>2, <1>3, <1>4 DEF Owes

\* Every step of the sender keeps what is owed.
LEMMA SenderOwes == IInv /\ AnswerOwed /\ Sender => AnswerOwed'
<1> SUFFICES ASSUME IInv, AnswerOwed, Sender PROVE AnswerOwed'
  OBVIOUS
<1>0. /\ TypeOK /\ UNCHANGED rcv /\ snd \in SenderSession
      /\ Settlements /\ OutcomeIsFinal /\ rcv.attempts \in Nat
      /\ snd.attempts \in Nat
  BY SenderMoves, SessionFields DEF IInv, PassesInStep, TypeOK
<1>1. CASE SenderAck
  <2>1. /\ toS # << >> /\ Head(toS).type = "ack" /\ Head(toS).accepted
        /\ toS' = Tail(toS) /\ UNCHANGED up
        /\ snd'.pc = "stream" /\ snd'.attempts = 0
    BY <1>0, <1>1 DEF SenderAck, Hears, Stream, SenderSession
  <2>2. up => rcv.pc = "start" /\ rcv.attempts = 0
    BY <2>1 DEF AnswerOwed, AnswersFit, AttemptsAgree
  <2> QED
    BY <1>0, <2>1, <2>2, SenderOwesNext DEF Reading
<1>2. CASE SenderDone
  <2>1. /\ toS # << >> /\ toS' = Tail(toS) /\ UNCHANGED up /\ snd'.pc = "done"
        /\ \/ Head(toS).type = "ack" /\ ~Head(toS).accepted
           \/ Head(toS).type = "verdict" /\ Head(toS).ok
    BY <1>2 DEF SenderDone, Hears, FreshSender
  <2>2. up => rcv.pc = "drain"
    BY <1>0, <2>1 DEF AnswerOwed, AnswersFit, Settlements, OutcomeIsFinal
  <2> QED
    BY <1>0, <2>1, <2>2, SenderOwesNext
<1>3. CASE SenderChunk
  <2>1. CASE ~up'
    BY <2>1 DEF AnswerOwed
  <2> QED
    BY <1>0, <1>3, <2>1, ChunkWritten, SenderOwesOn
<1>4. CASE SenderNextRange
  <2>1. /\ snd.pc = "stream" /\ snd'.pc = "stream" /\ snd'.attempts = snd.attempts
        /\ UNCHANGED <<up, toS>>
    BY <1>0, <1>4 DEF SenderNextRange, SenderSession, wire
  <2> QED
    BY <1>0, <2>1, SenderOwesOn
<1>5. CASE SenderEnd
  <2> DEFINE m == [type |-> "end", hash |-> snd.hash]
  <2>1. /\ snd.pc = "stream" /\ snd'.pc = "verdict" /\ snd'.attempts = snd.attempts
        /\ UNCHANGED <<up, toS>> /\ toR' = Sent(toR, <<m>>)
    BY <1>0, <1>5 DEF SenderEnd, SenderSession
  <2>2. up => toR' # << >> /\ toR'[Len(toR')] = m
    <3>1. toR \in Seq(ToReceiver)
      BY <1>0 DEF TypeOK
    <3> HIDE DEF m
    <3> QED
      BY <2>1, <3>1 DEF Sent
  <2> QED
    BY <1>0, <2>1, <2>2, SenderOwesOn
<1>6. CASE SenderResend
  <2>1. /\ toS # << >> /\ Head(toS).type = "verdict" /\ ~Head(toS).ok /\ MayRetry
        /\ toS' = Tail(toS) /\ UNCHANGED up
        /\ snd'.pc = "stream" /\ snd'.attempts = snd.attempts + 1
    BY <1>0, <1>6 DEF SenderResend, Hears, Stream, SenderSession
  <2>2. up => rcv.pc = "start" /\ rcv.attempts <= snd.attempts + 1
    BY <2>1 DEF AnswerOwed, AnswersFit, AttemptsAgree, Reading
  <2> QED
    BY <1>0, <2>1, <2>2, SenderOwesNext DEF Reading
<1>7. CASE SenderRepair
  <2>1. /\ toS # << >> /\ Head(toS).type = "request"
        /\ toS' = Tail(toS) /\ UNCHANGED up
        /\ snd'.pc = "stream" /\ snd'.attempts = snd.attempts + 1
    BY <1>0, <1>7 DEF SenderRepair, Hears, SenderSession
  <2>2. up => rcv.pc = "repair" /\ rcv.attempts <= snd.attempts + 1
    BY <2>1 DEF AnswerOwed, AnswersFit, AttemptsAgree, Reading
  <2> QED
    BY <1>0, <2>1, <2>2, SenderOwesNext DEF Reading
<1>8. CASE SenderGivesUp
  BY <1>8 DEF SenderGivesUp, SenderStops, AnswerOwed
<1>9. CASE SenderBroken
  BY <1>9 DEF SenderBroken, wire, AnswerOwed
<1> QED
  BY <1>1, <1>2, <1>3, <1>4, <1>5, <1>6, <1>7, <1>8, <1>9 DEF Sender

\* The last frame in flight stays there when one before it is read.
LEMMA LastFrameStays ==
  ASSUME TypeOK, toR # << >>, toR' = Tail(toR), toR[Len(toR)].type = "end",
         Head(toR).type # "end"
  PROVE  toR' # << >> /\ toR'[Len(toR')].type = "end"
<1>1. toR \in Seq(ToReceiver) /\ Len(toR) \in Nat /\ Len(toR) > 0 /\ Head(toR) = toR[1]
  BY DEF TypeOK
<1>2. Len(toR) > 1
  BY <1>1
<1>3. Len(toR') = Len(toR) - 1 /\ toR'[Len(toR) - 1] = toR[Len(toR)]
  BY <1>1, <1>2
<1>4. toR'[Len(toR')].type = "end" /\ Len(toR') # 0
  BY <1>1, <1>2, <1>3
<1>5. toR' # << >>
  BY <1>4
<1> QED
  BY <1>4, <1>5

\* A receiver that goes on with its pass leaves what is owed.
LEMMA ReaderOwesOn ==
  ASSUME IInv, AnswerOwed, UNCHANGED <<up, snd, toS>>,
         rcv.pc \in Reading, rcv'.pc \in Reading, rcv'.attempts = rcv.attempts,
         toR # << >>, toR' = Tail(toR), Head(toR).type # "end"
  PROVE  AnswerOwed'
<1> SUFFICES ASSUME up PROVE Owes'
  BY DEF AnswerOwed, Owes
<1>1. toS = << >> /\ toS' = << >>
  BY PassFrame
<1>2. FramesOwed /\ AttemptsAgree
  BY DEF AnswerOwed
<1>3. snd.pc = "verdict" => toR' # << >> /\ toR'[Len(toR')].type = "end"
  BY <1>1, <1>2, LastFrameStays DEF FramesOwed, IInv
<1>4. FramesOwed'
  BY <1>1, <1>2, <1>3 DEF FramesOwed, Reading, ReceiverResting
<1>5. AnswersFit' /\ AttemptsAgree'
  BY <1>1, <1>2 DEF AnswersFit, AttemptsAgree, Reading
<1> QED
  BY <1>4, <1>5 DEF Owes

\* When FileEnd is read over a connection that is up, the sender waits for the
\* verdict, and the attempts of the two agree.
LEMMA EndHeard ==
  ASSUME IInv, AnswerOwed, up, rcv.pc \in {"chunks", "repair"},
         toR # << >>, toR' = Tail(toR), Head(toR).type = "end"
  PROVE  /\ toS = << >> /\ toR' = << >> /\ snd.pc = "verdict"
         /\ rcv.attempts <= snd.attempts /\ rcv.attempts \in Nat
         /\ snd.attempts \in Nat /\ snd.attempts <= MaxRetries
<1>1. toS = << >> /\ toR' = << >> /\ snd.pc # "stream"
  BY PassFrame DEF Reading
<1>2. FramesOwed /\ AttemptsAgree
  BY DEF AnswerOwed
<1>3. snd.pc \in SenderStates /\ rcv.attempts \in Nat /\ snd.attempts \in Nat
      /\ snd.attempts <= MaxRetries
  BY PcTypes, SessionFields, TransferAssumption DEF IInv, TypeOK, SenderSession
<1>4. snd.pc = "verdict"
  BY <1>1, <1>2, <1>3 DEF FramesOwed, Reading, SenderStates
<1>5. rcv.attempts <= snd.attempts
  BY <1>1, <1>2, <1>3 DEF AttemptsAgree, Reading
<1> QED
  BY <1>1, <1>3, <1>4, <1>5

\* A frame written to a connection that is up and idle is the only one on it.
LEMMA SentAlone ==
  ASSUME up, NEW m PROVE Sent(<< >>, <<m>>) = <<m>>
<1>1. <<m>> \in Seq({m})
  OBVIOUS
<1>2. << >> \o <<m>> = <<m>>
  BY <1>1, ConcatEmptySeq
<1> QED
  BY <1>2 DEF Sent

\* An answer to FileEnd is one the sender waits for.
LEMMA AnswerGiven ==
  ASSUME UNCHANGED snd, snd.pc = "verdict", NEW m, toS' = <<m>>,
         \/ m.type = "request" /\ rcv'.pc = "repair"
         \/ m.type = "verdict" /\ rcv'.pc = "start"
         \/ m.type = "verdict" /\ rcv'.pc = "drain" /\ (m.ok \/ ~MayRetry),
         rcv'.pc \in Reading => rcv'.attempts <= snd.attempts + 1
  PROVE  AnswerOwed'
<1>1. toS' # << >> /\ Head(toS') = m
  OBVIOUS
<1>2. FramesOwed'
  BY <1>1 DEF FramesOwed, Reading, ReceiverResting, SenderResting
<1>3. AnswersFit'
  BY <1>1 DEF AnswersFit, MayRetry
<1>4. AttemptsAgree'
  BY <1>1 DEF AttemptsAgree, Reading
<1> QED
  BY <1>2, <1>3, <1>4 DEF AnswerOwed

\* Every step of the receiver keeps what is owed.
LEMMA ReceiverOwes == IInv /\ AnswerOwed /\ Receiver => AnswerOwed'
<1> SUFFICES ASSUME IInv, AnswerOwed, Receiver, up, up' PROVE AnswerOwed'
  <2>1. CASE ~up
    BY <2>1 DEF Receiver, ReceiverManifest, ReceiverStart, ReceiverChunk,
                ReceiverRepairChunk, ReceiverVerified, ReceiverMismatch,
                ReceiverUnrepaired, ReceiverDrain, ReceiverRefuses, ReceiverBroken,
                ReceiverStops, AnswerOwed, wire
  <2>2. CASE ~up'
    BY <2>2 DEF AnswerOwed
  <2> QED
    BY <2>1, <2>2
<1>0. /\ TypeOK /\ snd' = snd /\ rcv \in ReceiverSession /\ OutcomeIsFinal
      /\ Owes /\ MaxRetries \in Nat
  BY ReceiverMoves, TransferAssumption DEF IInv, PassesInStep, TypeOK, AnswerOwed, Owes
<1>1. CASE ReceiverManifest
  <2>1. rcv.pc = "manifest" /\ toS = << >> /\ snd.pc = "ack" /\ rcv.attempts = 0
    BY <1>0, <1>1, ManifestRead
    DEF Owes, FramesOwed, SenderResting, AttemptsAgree, Reading
  <2>2. \E accepted \in BOOLEAN, off \in {0, PlannedPoint.off} :
          /\ toS' = <<[type |-> "ack", accepted |-> accepted, off |-> off]>>
          /\ rcv'.pc = IF accepted THEN "start" ELSE "drain"
          /\ rcv'.attempts = 0
    <3> DEFINE h == PlannedPoint.hash
    <3>1. \/ rcv' = FreshReceiver("drain", "skipped") /\ Ack(FALSE, 0)
          \/ /\ rcv' = [rcv EXCEPT !.pc = "start", !.hash = h]
             /\ Ack(TRUE, PlannedPoint.off)
      BY <1>1 DEF ReceiverManifest, ReceiverStops
    <3> HIDE DEF h
    <3>2. \A accepted, off :
            Ack(accepted, off) =>
              toS' = <<[type |-> "ack", accepted |-> accepted, off |-> off]>>
      BY <2>1, SentAlone DEF Ack
    <3>3. CASE rcv' = FreshReceiver("drain", "skipped") /\ Ack(FALSE, 0)
      <4>1. rcv'.pc = "drain" /\ rcv'.attempts = 0
        BY <3>3 DEF FreshReceiver
      <4> QED
        BY <3>2, <3>3, <4>1
    <3>4. CASE /\ rcv' = [rcv EXCEPT !.pc = "start", !.hash = h]
               /\ Ack(TRUE, PlannedPoint.off)
      <4>1. rcv'.pc = "start" /\ rcv'.attempts = 0
        BY <1>0, <2>1, <3>4 DEF ReceiverSession
      <4> QED
        BY <3>2, <3>4, <4>1
    <3> QED
      BY <3>1, <3>3, <3>4
  <2>3. PICK accepted \in BOOLEAN, off \in {0, PlannedPoint.off} :
          /\ toS' = <<[type |-> "ack", accepted |-> accepted, off |-> off]>>
          /\ rcv'.pc = IF accepted THEN "start" ELSE "drain"
          /\ rcv'.attempts = 0
    BY <2>2
  <2> DEFINE m == [type |-> "ack", accepted |-> accepted, off |-> off]
  <2>4. /\ toS' # << >> /\ Head(toS') = m /\ m.type = "ack"
        /\ m.accepted = accepted
    BY <2>3
  <2> HIDE DEF m
  <2>5. FramesOwed'
    BY <1>0, <2>1, <2>3, <2>4 DEF FramesOwed, Reading, ReceiverResting, SenderResting
  <2>6. AnswersFit'
    BY <1>0, <2>1, <2>3, <2>4 DEF AnswersFit
  <2>7. AttemptsAgree'
    <3>1. snd.attempts \in Nat
      BY <1>0, SessionFields
    <3> QED
      BY <1>0, <2>3, <2>4, <3>1 DEF AttemptsAgree, Reading
  <2> QED
    BY <2>5, <2>6, <2>7 DEF AnswerOwed
<1>2. CASE ReceiverStart
  <2>1. /\ rcv.pc = "start" /\ toR # << >> /\ Head(toR).type = "start"
        /\ toR' = Tail(toR) /\ UNCHANGED <<up, toS>>
        /\ rcv'.pc = "chunks" /\ rcv'.attempts = rcv.attempts
    BY <1>0, <1>2 DEF ReceiverStart, Gets, ReceiverSession
  <2> QED
    BY <1>0, <2>1, ReaderOwesOn DEF Reading
<1>3. CASE ReceiverChunk
  <2>1. /\ rcv.pc = "chunks" /\ toR # << >> /\ Head(toR).type = "chunk"
        /\ toR' = Tail(toR) /\ UNCHANGED <<up, toS>>
        /\ rcv'.pc = "chunks" /\ rcv'.attempts = rcv.attempts
    BY <1>0, <1>3 DEF ReceiverChunk, Gets, ReceiverSession
  <2> QED
    BY <1>0, <2>1, ReaderOwesOn DEF Reading
<1>4. CASE ReceiverRepairChunk
  <2>1. /\ rcv.pc = "repair" /\ toR # << >> /\ Head(toR).type = "chunk"
        /\ toR' = Tail(toR) /\ UNCHANGED <<up, toS>>
        /\ rcv'.pc = "repair" /\ rcv'.attempts = rcv.attempts
    BY <1>0, <1>4 DEF ReceiverRepairChunk, Gets, ReceiverSession
  <2> QED
    BY <1>0, <2>1, ReaderOwesOn DEF Reading
<1>5. CASE ReceiverVerified
  <2> DEFINE m == [type |-> "verdict", ok |-> TRUE]
  <2>1. /\ rcv.pc \in {"chunks", "repair"} /\ toR # << >> /\ Head(toR).type = "end"
        /\ toR' = Tail(toR) /\ toS' = Sent(toS, <<m>>) /\ rcv'.pc = "drain"
    BY <1>5 DEF ReceiverVerified, PassEnds, Gets, Verdict, FreshReceiver
  <2>2. toS = << >> /\ snd.pc = "verdict"
    BY <2>1, EndHeard
  <2>3. toS' = <<m>> /\ m.type = "verdict" /\ m.ok
    BY <2>1, <2>2, SentAlone
  <2> HIDE DEF m
  <2> QED
    BY <1>0, <2>1, <2>2, <2>3, AnswerGiven DEF Reading
<1>6. CASE ReceiverMismatch
  <2> DEFINE bad == BadStarts(entry, disk)
             ask == [type |-> "request", starts |-> bad]
             no == [type |-> "verdict", ok |-> FALSE]
  <2>1. /\ rcv.pc = "chunks" /\ toR # << >> /\ Head(toR).type = "end"
        /\ toR' = Tail(toR)
    BY <1>6 DEF ReceiverMismatch, PassEnds, Gets
  <2>2. /\ toS = << >> /\ snd.pc = "verdict" /\ rcv.attempts <= snd.attempts
        /\ rcv.attempts \in Nat /\ snd.attempts \in Nat
    BY <2>1, EndHeard
  <2>3. CASE /\ toS' = Sent(toS, <<ask>>)
             /\ rcv' = [rcv EXCEPT !.pc = "repair", !.need = bad, !.attempts = @ + 1]
    <3>1. toS' = <<ask>> /\ ask.type = "request"
      BY <2>2, <2>3, SentAlone
    <3> HIDE DEF bad, ask
    <3>2. rcv'.pc = "repair" /\ rcv'.attempts = rcv.attempts + 1
      BY <1>0, <2>3 DEF ReceiverSession
    <3>3. rcv'.attempts <= snd.attempts + 1
      BY <2>2, <3>2
    <3> QED
      BY <1>0, <2>2, <3>1, <3>2, <3>3, AnswerGiven
  <2>4. CASE /\ Verdict(FALSE)
             /\ rcv' = IF Exhausted(rcv.attempts + 1)
                       THEN FreshReceiver("drain", "failed")
                       ELSE [ExpectResend EXCEPT !.attempts = @ + 1]
    <3>1. toS' = <<no>> /\ no.type = "verdict"
      BY <2>2, <2>4, SentAlone DEF Verdict
    <3> HIDE DEF no
    <3>2. CASE Exhausted(rcv.attempts + 1)
      <4>1. rcv'.pc = "drain"
        BY <2>4, <3>2 DEF FreshReceiver
      <4>2. ~MayRetry
        BY <1>0, <2>2, <3>2 DEF Exhausted, MayRetry
      <4> QED
        BY <1>0, <2>2, <3>1, <4>1, <4>2, AnswerGiven DEF Reading
    <3>3. CASE ~Exhausted(rcv.attempts + 1)
      <4>1. rcv'.pc = "start" /\ rcv'.attempts = rcv.attempts + 1
        BY <1>0, <2>4, <3>3 DEF ExpectResend, ReceiverSession
      <4>2. rcv'.attempts <= snd.attempts + 1
        BY <2>2, <4>1
      <4> QED
        BY <1>0, <2>2, <3>1, <4>1, <4>2, AnswerGiven
    <3> QED
      BY <3>2, <3>3
  <2> QED
    BY <1>6, <2>3, <2>4 DEF ReceiverMismatch
<1>7. CASE ReceiverUnrepaired
  <2> DEFINE no == [type |-> "verdict", ok |-> FALSE]
  <2>1. /\ rcv.pc = "repair" /\ toR # << >> /\ Head(toR).type = "end"
        /\ toR' = Tail(toR)
    BY <1>7 DEF ReceiverUnrepaired, PassEnds, Gets
  <2>2. /\ toS = << >> /\ snd.pc = "verdict" /\ rcv.attempts <= snd.attempts
        /\ rcv.attempts \in Nat /\ snd.attempts \in Nat /\ snd.attempts <= MaxRetries
    BY <2>1, EndHeard
  <2>3. ~Exhausted(rcv.attempts)
    BY <1>0, <2>2 DEF Exhausted
  <2>4. Verdict(FALSE) /\ rcv' = ExpectResend
    BY <1>7, <2>3 DEF ReceiverUnrepaired
  <2>5. toS' = <<no>> /\ no.type = "verdict"
    BY <2>2, <2>4, SentAlone DEF Verdict
  <2> HIDE DEF no
  <2>6. rcv'.pc = "start" /\ rcv'.attempts = rcv.attempts
    BY <1>0, <2>4 DEF ExpectResend, ReceiverSession
  <2>7. rcv'.attempts <= snd.attempts + 1
    BY <2>2, <2>6
  <2> QED
    BY <1>0, <2>2, <2>5, <2>6, <2>7, AnswerGiven
<1>8. CASE ReceiverDrain
  <2>1. rcv.pc = "drain" /\ rcv'.pc # "reported" /\ UNCHANGED toS
    BY <1>8 DEF ReceiverDrain
  <2>2. rcv' = rcv
    BY <1>0, <1>8, <2>1 DEF ReceiverDrain, ReceiverSession
  <2>3. FramesOwed'
    BY <1>0, <2>1, <2>2 DEF Owes, FramesOwed, Reading, ReceiverResting
  <2>4. AnswersFit' /\ AttemptsAgree'
    BY <1>0, <2>1, <2>2 DEF Owes, AnswersFit, AttemptsAgree, MayRetry
  <2> QED
    BY <2>3, <2>4 DEF AnswerOwed
<1>9. ~ReceiverRefuses /\ ~ReceiverBroken
  BY DEF ReceiverRefuses, ReceiverBroken, ReceiverStops
<1> QED
  BY <1>1, <1>2, <1>3, <1>4, <1>5, <1>6, <1>7, <1>8, <1>9 DEF Receiver

\* A new session owes the manifest's answer; nothing else brings a connection up.
LEMMA OutsideOwes ==
  IInv /\ AnswerOwed /\ (Connect \/ Environment \/ UNCHANGED vars) => AnswerOwed'
<1> SUFFICES ASSUME IInv, AnswerOwed, Connect \/ Environment \/ UNCHANGED vars, up'
             PROVE  Owes'
  BY DEF AnswerOwed, Owes
<1>1. CASE Connect
  <2>1. /\ toR' # << >> /\ toS' = << >>
        /\ snd'.pc = "ack" /\ rcv'.pc = "manifest" /\ rcv'.attempts = 0
    BY <1>1 DEF Connect, FreshSender, FreshReceiver
  <2> QED
    BY <2>1 DEF Owes, FramesOwed, AnswersFit, AttemptsAgree, Reading, ReceiverResting,
                SenderResting
<1>2. CASE ~Connect
  <2>1. UNCHANGED <<up, toR, toS, snd, rcv>>
    BY <1>2 DEF Environment, Drop, EditSource, RebuildManifest, TouchDisk, vars, wire
  <2> QED
    BY <2>1 DEF AnswerOwed, Owes, FramesOwed, AnswersFit, AttemptsAgree, MayRetry
<1> QED
  BY <1>1, <1>2

\* While the connection is up, whichever side waits is owed a frame, the sender
\* hears what it waits for, and the attempts of the two agree.
THEOREM AnswersAreOwed == Spec => []AnswerOwed
<1>1. Init => AnswerOwed
  BY DEF Init, AnswerOwed
<1>2. IInv /\ AnswerOwed /\ [Next]_vars => AnswerOwed'
  BY SenderOwes, ReceiverOwes, OutsideOwes DEF Next, Finished
<1> QED
  BY <1>1, <1>2, Invariance, PTL DEF Spec

\* Never do both ends read with nothing left to read.
THEOREM NobodyWaitsForNothing == Spec => []NoMutualWait
<1>1. TypeOK /\ AnswerOwed => NoMutualWait
  <2> SUFFICES ASSUME TypeOK, FramesOwed, WaitsForFrame(snd.pc)
               PROVE  toR # << >> \/ toS # << >>
    BY DEF AnswerOwed, NoMutualWait
  <2>1. snd.pc \in {"ack", "verdict"}
    BY PcTypes DEF WaitsForFrame, SenderStates, SenderResting
  <2> QED
    BY <2>1 DEF FramesOwed
<1> QED
  BY <1>1, TypeCorrect, AnswersAreOwed, PTL

-----------------------------------------------------------------------------
(* As long as nothing but the network fails, the first pass of a session   *)
(* verifies.                                                               *)

\* Nothing of the invariant but the pass depends on what the sender does.
LEMMA SenderFirstKept ==
  ASSUME IInv, FirstPassVerifies,
         UNCHANGED <<policy, source, entry, disk, sidecar, rcv, faults>>,
         toS' = toS \/ (toS # << >> /\ toS' = Tail(toS)),
         NEW m \in ToReceiver, toR' = toR \/ toR' = Sent(toR, <<m>>),
         Undisturbed /\ rcv.pc \in Reading =>
           /\ snd'.pc = "stream" => FullPass'
           /\ snd'.pc = "verdict" => snd'.hash = source
           /\ m.type = "end" => m.hash = source
           /\ m.type = "chunk" =>
                \A j \in DOMAIN m.cells : m.cells[j] = entry[m.off + j]
  PROVE  FirstPassVerifies'
<1>1. ClaimCovered'
  BY DEF FirstPassVerifies, ClaimCovered
<1> SUFFICES ASSUME Undisturbed
             PROVE  ClaimHolds' /\ (rcv.pc \in Reading => FirstPass' /\ StartsOverOnNothing')
  BY <1>1 DEF FirstPassVerifies, Undisturbed
<1>2. ClaimHolds'
  BY DEF FirstPassVerifies, ClaimHolds
<1>3. ASSUME rcv.pc \in Reading PROVE FirstPass' /\ StartsOverOnNothing'
  <2>1. FirstPass /\ StartsOverOnNothing
    BY <1>3 DEF FirstPassVerifies
  <2>2. StartsOverOnNothing'
    BY <2>1 DEF StartsOverOnNothing
  <2>3. \A i \in DOMAIN toR' : (i \in DOMAIN toR /\ toR'[i] = toR[i]) \/ toR'[i] = m
    BY SentOrNew DEF IInv
  <2>4. toS' # << >> => Head(toS').type = "ack"
    <3>1. TypeOK /\ Turns
      BY DEF IInv, PassesInStep
    <3>2. toS' = toS \/ toS' = << >>
      BY <3>1, AnswerRead
    <3> QED
      BY <2>1, <3>2 DEF FirstPass
  <2>5. ASSUME NEW i \in DOMAIN toR'
        PROVE  /\ toR'[i].type = "end" => toR'[i].hash = source
               /\ toR'[i].type = "chunk" =>
                    \A j \in DOMAIN toR'[i].cells :
                      toR'[i].cells[j] = entry[toR'[i].off + j]
    <3>1. CASE i \in DOMAIN toR /\ toR'[i] = toR[i]
      BY <2>1, <3>1 DEF FirstPass
    <3>2. CASE toR'[i] = m
      BY <1>3, <3>2
    <3> QED
      BY <2>3, <3>1, <3>2
  <2>6. FirstPass'
    <3>1. /\ snd'.pc = "stream" => FullPass'
          /\ snd'.pc = "verdict" => snd'.hash = source
      BY <1>3
    <3> QED
      BY <2>1, <2>4, <2>5, <3>1 DEF FirstPass
  <2> QED
    BY <2>2, <2>6
<1> QED
  BY <1>2, <1>3

\* Every pass the sender begins and ends is a full one.
LEMMA SenderFirst ==
  IInv /\ PassesHashSource /\ FirstPassVerifies /\ Sender => FirstPassVerifies'
<1> SUFFICES ASSUME IInv, PassesHashSource, FirstPassVerifies, Sender
             PROVE  FirstPassVerifies'
  OBVIOUS
<1> DEFINE done == [type |-> "done"]
           Clean == Undisturbed /\ rcv.pc \in Reading
<1>0. /\ TypeOK /\ UNCHANGED <<policy, source, entry, disk, sidecar, rcv, faults>>
      /\ done \in ToReceiver /\ done.type = "done" /\ snd \in SenderSession
  BY SenderMoves DEF IInv, ToReceiver, TypeOK
<1> HIDE DEF done
<1>00. Clean => FirstPass /\ source = entry
  BY DEF FirstPassVerifies, PassesHashSource, HashesSource, Undisturbed
<1>1. CASE SenderAck
  <2> DEFINE m == StartFrame(Head(toS).off)
  <2>1. /\ toR' = Sent(toR, <<m>>) /\ toS # << >> /\ Head(toS).type = "ack"
        /\ toS' = Tail(toS) /\ snd'.pc = "stream"
    BY <1>0, <1>1 DEF SenderAck, Hears, Stream, SenderSession
  <2>2. m \in ToReceiver /\ m.type = "start"
    BY <1>0, <2>1, TailType DEF ToSender, ToReceiver, StartFrame, TypeOK
  <2>3. Clean => FullPass'
    BY <1>00, <1>1, AckStartsFullPass
  <2> HIDE DEF m
  <2> QED
    BY <1>0, <2>1, <2>2, <2>3, SenderFirstKept
<1>2. CASE SenderDone
  BY <1>0, <1>2, SenderFirstKept DEF SenderDone, Hears, FreshSender, done
<1>3. CASE SenderChunk
  <2>1. snd.pc = "stream" /\ UNCHANGED toS
    BY <1>0, <1>3, ChunkWritten
  <2>2. CASE snd'.pc = "failed" /\ UNCHANGED toR
    BY <1>0, <2>1, <2>2, SenderFirstKept
  <2>3. CASE ~(snd'.pc = "failed" /\ UNCHANGED toR)
    <3>1. PICK cells \in Content :
            /\ toR' = Sent(toR, <<[type |-> "chunk", off |-> snd.cur, cells |-> cells]>>)
            /\ snd'.pc = "stream" /\ snd'.cur = snd.cur + Len(cells)
            /\ snd'.hash = snd.hash \o cells
            /\ snd'.end = snd.end /\ snd'.todo = snd.todo
            /\ Len(cells) \in Nat /\ snd.cur + Len(cells) <= snd.end
            /\ \A j \in DOMAIN cells :
                 snd.cur + j \in 1..Len(source) /\ cells[j] = source[snd.cur + j]
      BY <1>0, <1>3, <2>3, ChunkWritten
    <3> DEFINE m == [type |-> "chunk", off |-> snd.cur, cells |-> cells]
    <3>2. snd.cur \in Nat
      BY <1>0, SessionFields
    <3>3. /\ m \in ToReceiver /\ m.type = "chunk" /\ m.off = snd.cur /\ m.cells = cells
          /\ toR' = Sent(toR, <<m>>)
      BY <3>1, <3>2 DEF ToReceiver
    <3> HIDE DEF m
    <3>4. ASSUME Clean
          PROVE  FullPass' /\ \A j \in DOMAIN cells : cells[j] = entry[snd.cur + j]
      <4>1. FullPass /\ source = entry
        BY <1>00, <2>1, <3>4 DEF FirstPass
      <4> QED
        BY <1>0, <3>1, <4>1, FullPassOn
    <3> QED
      BY <1>0, <2>1, <3>1, <3>3, <3>4, SenderFirstKept
  <2> QED
    BY <2>2, <2>3
<1>4. CASE SenderNextRange
  <2>1. snd.pc = "stream" /\ snd.todo # {} /\ UNCHANGED <<toR, toS>>
    BY <1>4 DEF SenderNextRange, wire
  <2>2. ~Clean
    BY <1>00, <2>1 DEF FirstPass, FullPass
  <2> QED
    BY <1>0, <2>1, <2>2, SenderFirstKept
<1>5. CASE SenderEnd
  <2> DEFINE m == [type |-> "end", hash |-> snd.hash]
  <2>1. /\ snd.pc = "stream" /\ snd.cur = snd.end /\ toR' = Sent(toR, <<m>>)
        /\ UNCHANGED toS /\ snd'.pc = "verdict" /\ snd'.hash = snd.hash
    BY <1>0, <1>5 DEF SenderEnd, SenderSession
  <2>2. m \in ToReceiver /\ m.type = "end" /\ m.hash = snd.hash
    BY <1>0, SessionFields DEF ToReceiver
  <2> HIDE DEF m
  <2>3. Clean => snd.hash = source
    BY <1>0, <1>00, <2>1, FullPassOver DEF FirstPass
  <2> QED
    BY <1>0, <2>1, <2>2, <2>3, SenderFirstKept
<1>6. CASE SenderResend
  <2> DEFINE m == StartFrame(0)
  <2>1. /\ toR' = Sent(toR, <<m>>) /\ toS # << >> /\ Head(toS).type = "verdict"
        /\ toS' = Tail(toS)
    BY <1>6 DEF SenderResend, Hears, Stream
  <2>2. m \in ToReceiver
    BY DEF ToReceiver, StartFrame
  <2>3. ~Clean
    BY <1>00, <2>1 DEF FirstPass
  <2> HIDE DEF m
  <2> QED
    BY <1>0, <2>1, <2>2, <2>3, SenderFirstKept
<1>7. CASE SenderRepair
  <2>1. /\ UNCHANGED toR /\ toS # << >> /\ Head(toS).type = "request"
        /\ toS' = Tail(toS)
    BY <1>7 DEF SenderRepair, Hears
  <2>2. ~Clean
    BY <1>00, <2>1 DEF FirstPass
  <2> QED
    BY <1>0, <2>1, <2>2, SenderFirstKept
<1>8. CASE SenderGivesUp
  BY <1>0, <1>8, SenderFirstKept DEF SenderGivesUp, Hears, SenderStops, FreshSender
<1>9. CASE SenderBroken
  BY <1>0, <1>9, SenderFirstKept DEF SenderBroken, FreshSender, wire
<1> QED
  BY <1>1, <1>2, <1>3, <1>4, <1>5, <1>6, <1>7, <1>8, <1>9 DEF Sender

\* The plan keeps cells that match the manifest, no fewer than a chunk where the
\* file has one, and starts over only where no chunk can be kept.
LEMMA PlannedPointMatches ==
  ASSUME TypeOK, NEW h, h = PlannedPoint.hash
  PROVE  /\ h = << >> \/ Len(h) = Len(entry) \/ Len(h) >= ChunkSize
         /\ ClaimHolds => Begins(entry, h)
         /\ ClaimHolds /\ policy = "resume" /\ h = << >>
              /\ (sidecar # NoSidecar => sidecar.chunks > 0) =>
                VerifiedPrefix(entry, OnDisk(disk)) = 0
<1> DEFINE point == ResumePoint(entry, disk, sidecar)
           p == point.hash
<1>1. /\ entry \in Content /\ disk \in {NoFile} \cup Content
      /\ sidecar \in {NoSidecar} \cup [size: Nat, chunks: Nat]
  BY DEF TypeOK
<1>2. Len(p) = 0 \/ Len(p) = Len(entry) \/ Len(p) >= ChunkSize
  BY <1>1, ResumePointWhole
<1>3. p \in Content /\ point \in [off: Nat, complete: BOOLEAN, hash: Content]
  BY <1>1, ResumePointBegins
<1>4. ASSUME ClaimHolds
      PROVE  /\ Begins(entry, p)
             /\ p = << >> /\ (sidecar # NoSidecar => sidecar.chunks > 0) =>
                  VerifiedPrefix(entry, OnDisk(disk)) = 0
  <2>1. sidecar # NoSidecar /\ disk # NoFile /\ sidecar.size = Len(entry) =>
          \A i \in 1..Smaller(ClaimedPrefix(sidecar), Len(entry)) :
            i <= Len(disk) => disk[i] = entry[i]
    BY <1>4 DEF ClaimHolds
  <2> QED
    BY <1>1, <2>1, ResumePointMatches
<1>5. PlannedPoint = IF policy = "overwrite"
                     THEN [point EXCEPT !.off = 0, !.hash = << >>] ELSE point
  BY DEF PlannedPoint
<1> HIDE DEF point
<1>6. CASE policy = "overwrite"
  <2>1. h = << >>
    BY <1>3, <1>5, <1>6
  <2>2. Begins(entry, << >>)
    BY <1>1 DEF Begins, Content
  <2> QED
    BY <1>6, <2>1, <2>2
<1>7. CASE policy # "overwrite"
  <2>1. h = p
    BY <1>5, <1>7
  <2>2. Len(p) = 0 => p = << >>
    BY <1>3 DEF Content
  <2> QED
    BY <1>2, <1>4, <2>1, <2>2
<1> QED
  BY <1>6, <1>7

\* Chunks counted in a prefix lie in it.
LEMMA CountedChunks ==
  ASSUME NEW n \in Nat, NEW c, c = n \div ChunkSize
  PROVE  c \in Nat /\ c * ChunkSize <= n /\ (c = 0 => n < ChunkSize)
<1>1. ChunkSize \in Nat /\ ChunkSize > 0
  BY BytesAssumption
<1> DEFINE q == n \div ChunkSize
           r == n % ChunkSize
<1>2. q \in Nat /\ n = ChunkSize * q + r /\ r \in 0..(ChunkSize - 1)
  BY <1>1
<1>3. c \in Nat /\ n = ChunkSize * c + r
  BY <1>2
<1> HIDE DEF q, r
<1>4. ChunkSize * c = c * ChunkSize /\ ChunkSize * c \in Nat
  BY <1>1, <1>3, MultipleOfChunk
<1>5. c = 0 => ChunkSize * c = 0
  <2>1. ChunkSize * 0 = 0
    BY <1>1
  <2> QED
    BY <2>1
<1> QED
  BY <1>1, <1>2, <1>3, <1>4, <1>5

\* What a step of the receiver has to keep.
LEMMA ReceiverFirstKept ==
  ASSUME IInv, FirstPassVerifies, UNCHANGED <<policy, source, entry, snd, faults>>,
         toR' = toR \/ (toR # << >> /\ toR' = Tail(toR)),
         ClaimCovered',
         Undisturbed =>
           /\ ClaimHolds'
           /\ rcv'.pc \in Reading =>
                /\ \/ rcv.pc \in Reading /\ UNCHANGED toS
                   \/ /\ toR' = << >> /\ snd.pc \in {"ack", "failed"}
                      /\ toS' # << >> => Head(toS').type = "ack"
                /\ rcv'.pc # "repair" /\ Begins(entry, rcv'.hash)
                /\ StartsOverOnNothing'
  PROVE  FirstPassVerifies'
<1> SUFFICES ASSUME Undisturbed, rcv'.pc \in Reading PROVE FirstPass'
  BY DEF FirstPassVerifies, Undisturbed
<1>1. CASE rcv.pc \in Reading /\ UNCHANGED toS
  <2>1. FirstPass
    BY <1>1 DEF FirstPassVerifies
  <2>2. \A i \in DOMAIN toR' : \E j \in DOMAIN toR : toR'[i] = toR[j]
    BY ReadOrOld DEF IInv
  <2> QED
    BY <1>1, <2>1, <2>2 DEF FirstPass, FullPass
<1>2. CASE /\ toR' = << >> /\ snd.pc \in {"ack", "failed"}
           /\ toS' # << >> => Head(toS').type = "ack"
  BY <1>2 DEF FirstPass
<1> QED
  BY <1>1, <1>2

\* So does the manifest's answer, with what it notes in the sidecar.
LEMMA ManifestFirst ==
  IInv /\ FirstPassVerifies /\ ReceiverManifest => FirstPassVerifies'
<1> SUFFICES ASSUME IInv, FirstPassVerifies, ReceiverManifest PROVE FirstPassVerifies'
  OBVIOUS
<1> DEFINE h == PlannedPoint.hash
           k == VerifiedChunks(PlannedPoint)
<1>0. /\ TypeOK /\ UNCHANGED <<policy, source, entry, disk, snd, faults>>
      /\ toR # << >> /\ toR' = Tail(toR) /\ toR' = << >> /\ toS = << >>
      /\ snd.pc \in {"ack", "failed"}
      /\ sidecar \in {NoSidecar} \cup [size: Nat, chunks: Nat]
      /\ entry \in Content /\ Len(entry) \in Nat
  <2>1. toR' = Tail(toR)
    BY DEF ReceiverManifest
  <2>2. /\ sidecar \in {NoSidecar} \cup [size: Nat, chunks: Nat]
        /\ entry \in Content /\ Len(entry) \in Nat /\ TypeOK
    BY DEF IInv, TypeOK, Content
  <2> QED
    BY <2>1, <2>2, ManifestRead
<1>1. CASE rcv'.pc = "failed" /\ UNCHANGED sidecar
  <2>1. ClaimCovered' /\ (Undisturbed => ClaimHolds')
    BY <1>0, <1>1 DEF FirstPassVerifies, ClaimCovered, ClaimHolds
  <2> QED
    BY <1>0, <1>1, <2>1, ReceiverFirstKept DEF Reading
<1>2. CASE rcv'.pc = "drain" /\ sidecar' = NoSidecar
  <2>1. ClaimCovered' /\ ClaimHolds'
    BY <1>2 DEF ClaimCovered, ClaimHolds
  <2> QED
    BY <1>0, <1>2, <2>1, ReceiverFirstKept DEF Reading
<1>3. CASE /\ Ack(TRUE, PlannedPoint.off)
           /\ sidecar' = IF k = 0 THEN sidecar ELSE [size |-> Len(entry), chunks |-> k]
           /\ rcv' = [rcv EXCEPT !.pc = "start", !.hash = h]
  <2>1. /\ h \in Content /\ Begins(OnDisk(disk), h) /\ Len(h) \in Nat
        /\ k = Len(h) \div ChunkSize
    BY <1>0, PlannedPointBegins DEF VerifiedChunks, Content
  <2>2. /\ h = << >> \/ Len(h) = Len(entry) \/ Len(h) >= ChunkSize
        /\ ClaimHolds => Begins(entry, h)
        /\ ClaimHolds /\ policy = "resume" /\ h = << >>
             /\ (sidecar # NoSidecar => sidecar.chunks > 0) =>
               VerifiedPrefix(entry, OnDisk(disk)) = 0
    BY <1>0, PlannedPointMatches
  <2>3. k \in Nat /\ k * ChunkSize <= Len(h) /\ (k = 0 => Len(h) < ChunkSize)
    BY <2>1, CountedChunks
  <2>4. toS' # << >> => Head(toS').type = "ack"
    <3> DEFINE m == [type |-> "ack", accepted |-> TRUE, off |-> PlannedPoint.off]
    <3>1. m.type = "ack" /\ toS' = Sent(<< >>, <<m>>)
      BY <1>0, <1>3 DEF Ack
    <3> HIDE DEF m
    <3>2. up => toS' = <<m>>
      BY <3>1, SentAlone
    <3>3. ~up => toS' = << >>
      BY <3>1 DEF Sent
    <3> QED
      BY <3>1, <3>2, <3>3
  <2> HIDE DEF h, k
  <2>5. rcv'.pc = "start" /\ rcv'.hash = h
    BY <1>0, <1>3 DEF TypeOK, ReceiverSession
  <2>6. sidecar' = sidecar \/ (sidecar' = [size |-> Len(entry), chunks |-> k] /\ k > 0)
    <3>1. k # 0 => k > 0
      BY <2>3
    <3> QED
      BY <1>3, <3>1
  <2>7. ClaimCovered'
    <3>1. sidecar' # NoSidecar => sidecar'.chunks > 0
      BY <2>6 DEF FirstPassVerifies, ClaimCovered
    <3>2. ASSUME h # << >>, sidecar' # NoSidecar, sidecar'.size = Len(entry)
          PROVE  Smaller(ClaimedPrefix(sidecar'), Len(entry)) <= Len(h)
      <4>1. CASE k = 0
        <5>1. Len(h) = Len(entry)
          BY <2>1, <2>2, <2>3, <3>2, <4>1, BytesAssumption
        <5>2. sidecar' \in {NoSidecar} \cup [size: Nat, chunks: Nat]
          BY <1>0, <1>3, <4>1
        <5>3. ClaimedPrefix(sidecar') \in Nat
          BY <3>2, <5>2, MultipleOfChunk, BytesAssumption DEF ClaimedPrefix
        <5> QED
          BY <1>0, <5>1, <5>3 DEF Smaller
      <4>2. CASE k # 0
        <5>1. ClaimedPrefix(sidecar') = k * ChunkSize
          BY <1>3, <4>2 DEF ClaimedPrefix
        <5>2. k * ChunkSize \in Nat
          BY <2>3, BytesAssumption, MultipleOfChunk
        <5> QED
          BY <1>0, <2>1, <2>3, <5>1, <5>2 DEF Smaller
      <4> QED
        BY <4>1, <4>2
    <3> QED
      BY <1>0, <2>5, <3>1, <3>2 DEF ClaimCovered
  <2>8. ASSUME Undisturbed
        PROVE  ClaimHolds' /\ Begins(entry, h) /\ StartsOverOnNothing'
    <3>1. ClaimHolds /\ ClaimCovered
      BY <2>8 DEF FirstPassVerifies
    <3>2. Begins(entry, h)
      BY <2>2, <3>1
    <3>3. StartsOverOnNothing'
      BY <1>0, <2>2, <2>5, <3>1 DEF StartsOverOnNothing, ClaimCovered
    <3>4. ClaimHolds'
      <4>1. CASE sidecar' = sidecar
        BY <1>0, <3>1, <4>1 DEF ClaimHolds
      <4>2. CASE sidecar' = [size |-> Len(entry), chunks |-> k] /\ k > 0
        <5>1. SUFFICES ASSUME disk # NoFile,
                              NEW i \in 1..Smaller(ClaimedPrefix(sidecar'), Len(entry))
                       PROVE  disk[i] = entry[i]
          BY <1>0 DEF ClaimHolds
        <5>2. ClaimedPrefix(sidecar') = k * ChunkSize
          BY <4>2 DEF ClaimedPrefix
        <5>3. k * ChunkSize \in Nat
          BY <2>3, BytesAssumption, MultipleOfChunk
        <5>4. i \in 1..Len(h)
          BY <1>0, <2>1, <2>3, <5>1, <5>2, <5>3 DEF Smaller
        <5>5. i \in DOMAIN h
          BY <2>1, <5>4 DEF Content
        <5> QED
          BY <2>1, <3>2, <5>1, <5>5 DEF Begins, OnDisk
      <4> QED
        BY <2>6, <4>1, <4>2
    <3> QED
      BY <3>2, <3>3, <3>4
  <2> QED
    BY <1>0, <2>4, <2>5, <2>7, <2>8, ReceiverFirstKept
<1>4. \/ ReceiverStops /\ UNCHANGED sidecar
      \/ sidecar' = NoSidecar /\ rcv' = FreshReceiver("drain", "skipped")
      \/ /\ Ack(TRUE, PlannedPoint.off)
         /\ sidecar' = IF k = 0 THEN sidecar ELSE [size |-> Len(entry), chunks |-> k]
         /\ rcv' = [rcv EXCEPT !.pc = "start", !.hash = h]
  BY DEF ReceiverManifest
<1>5. CASE ReceiverStops /\ UNCHANGED sidecar
  <2>1. rcv'.pc = "failed"
    BY <1>5 DEF ReceiverStops, FreshReceiver
  <2> QED
    BY <1>1, <1>5, <2>1
<1>6. CASE sidecar' = NoSidecar /\ rcv' = FreshReceiver("drain", "skipped")
  <2>1. rcv'.pc = "drain"
    BY <1>6 DEF FreshReceiver
  <2> QED
    BY <1>2, <1>6, <2>1
<1> QED
  BY <1>3, <1>4, <1>5, <1>6

\* Opening keeps the hashed prefix, which covers what a sidecar claims.
LEMMA StartFirst ==
  IInv /\ FirstPassVerifies /\ ReceiverStart => FirstPassVerifies'
<1> SUFFICES ASSUME IInv, FirstPassVerifies, ReceiverStart PROVE FirstPassVerifies'
  OBVIOUS
<1>0. /\ rcv.pc = "start" /\ toR # << >> /\ toR' = Tail(toR) /\ Head(toR).type = "start"
      /\ disk' = OpenForResume(disk, Head(toR).off, Len(entry))
      /\ rcv' = [rcv EXCEPT !.pc = "chunks", !.cur = Head(toR).off]
      /\ UNCHANGED <<policy, source, entry, sidecar, toS, snd, faults>>
  BY DEF ReceiverStart, Gets, fixed
<1>1. /\ entry \in Content /\ Len(entry) \in Nat /\ disk \in {NoFile} \cup Content
      /\ rcv.hash \in Content /\ Head(toR).off = Len(rcv.hash)
      /\ Begins(OnDisk(disk), rcv.hash) /\ Len(rcv.hash) <= Len(entry)
  BY <1>0, SessionFields, PassFrame
     DEF IInv, PassesInStep, TypeOK, HasherCoversDisk, Reading, Content
<1>2. rcv'.pc = "chunks" /\ rcv'.hash = rcv.hash
  BY <1>0 DEF IInv, TypeOK, ReceiverSession
<1>3. disk' \in Content /\ Begins(disk', rcv.hash)
  BY <1>0, <1>1, OpenKeepsPrefix
<1>4. ClaimCovered'
  BY <1>0, <1>2 DEF FirstPassVerifies, ClaimCovered
<1>5. ASSUME Undisturbed PROVE ClaimHolds' /\ Begins(entry, rcv.hash)
  <2>1. ClaimCovered /\ Begins(entry, rcv.hash)
    BY <1>0, <1>5 DEF FirstPassVerifies, FirstPass, Reading
  <2>2. CASE rcv.hash = << >>
    <3>1. disk' = << >>
      BY <1>0, <1>1, <2>2 DEF OpenForResume
    <3>2. \A i \in 1..Smaller(ClaimedPrefix(sidecar), Len(entry)) : ~(i <= Len(disk'))
      BY <3>1
    <3> QED
      BY <1>0, <2>1, <3>2 DEF ClaimHolds
  <2>3. CASE rcv.hash # << >>
    <3> DEFINE n == Smaller(ClaimedPrefix(sidecar), Len(entry))
    <3>1. SUFFICES ASSUME sidecar # NoSidecar, sidecar.size = Len(entry), NEW i \in 1..n
                   PROVE  disk'[i] = entry[i]
      BY <1>0, <2>1 DEF ClaimHolds
    <3>2. n <= Len(rcv.hash)
      BY <1>0, <2>1, <2>3, <3>1 DEF ClaimCovered
    <3>3. n \in Nat
      <4>1. ClaimedPrefix(sidecar) \in Nat
        <5>1. sidecar \in {NoSidecar} \cup [size: Nat, chunks: Nat]
          BY DEF IInv, TypeOK
        <5> QED
          BY <3>1, <5>1, MultipleOfChunk, BytesAssumption DEF ClaimedPrefix
      <4> QED
        BY <1>1, <4>1 DEF Smaller
    <3> HIDE DEF n
    <3>4. i \in 1..Len(rcv.hash) /\ Len(rcv.hash) \in Nat
      BY <1>1, <3>1, <3>2, <3>3 DEF Content
    <3>5. i \in DOMAIN rcv.hash
      BY <1>1, <3>4 DEF Content
    <3> QED
      BY <1>3, <2>1, <3>5 DEF Begins
  <2> QED
    BY <2>1, <2>2, <2>3
<1>6. StartsOverOnNothing'
  BY <1>2 DEF StartsOverOnNothing
<1> QED
  BY <1>0, <1>2, <1>4, <1>5, <1>6, ReceiverFirstKept DEF Reading

\* A chunk of the first pass brings cells of the file.
LEMMA ChunkFirst ==
  IInv /\ PassesHashSource /\ FirstPassVerifies /\ ReceiverChunk => FirstPassVerifies'
<1> SUFFICES ASSUME IInv, PassesHashSource, FirstPassVerifies, ReceiverChunk
             PROVE  FirstPassVerifies'
  OBVIOUS
<1> DEFINE cells == Head(toR).cells
           n == Smaller(ClaimedPrefix(sidecar), Len(entry))
<1>0. /\ rcv.pc = "chunks" /\ toR # << >> /\ toR' = Tail(toR) /\ Head(toR).type = "chunk"
      /\ Head(toR).off = rcv.cur /\ disk' = WriteAt(disk, rcv.cur, cells)
      /\ rcv' = [rcv EXCEPT !.cur = @ + Len(cells), !.hash = @ \o cells]
      /\ UNCHANGED <<policy, source, entry, sidecar, toS, snd, faults>>
  BY DEF ReceiverChunk, Gets, NextInOrder, fixed
<1>1. TypeOK /\ HasherCoversDisk /\ InBounds /\ rcv \in ReceiverSession
  BY DEF IInv, PassesInStep, PassesHashSource, TypeOK
<1>2. cells \in Content /\ rcv.cur \in Nat /\ rcv.cur + Len(cells) <= Len(entry)
  BY <1>0, <1>1, ChunkInside DEF Reading
<1>3. /\ rcv.hash \in Content /\ Len(rcv.hash) = rcv.cur
      /\ disk \in Content /\ rcv.cur <= Len(disk)
      /\ entry \in Content /\ Len(entry) \in Nat
      /\ Len(cells) \in Nat /\ DOMAIN cells = 1..Len(cells)
  <2>1. /\ rcv.hash \in Content /\ entry \in Content /\ disk \in Content
        /\ Begins(disk, rcv.hash) /\ Len(rcv.hash) = rcv.cur
    BY <1>0, <1>1, SessionFields DEF HasherCoversDisk, TypeOK
  <2> HIDE DEF cells
  <2>2. Len(entry) \in Nat /\ Len(cells) \in Nat /\ DOMAIN cells = 1..Len(cells)
    BY <1>2, <2>1 DEF Content
  <2> QED
    BY <2>1, <2>2 DEF Begins
<1> HIDE DEF cells
<1>4. rcv'.pc = "chunks" /\ rcv'.hash = rcv.hash \o cells
  <2> DEFINE c == rcv.cur + Len(cells)
             g == rcv.hash \o cells
  <2>1. rcv' = [rcv EXCEPT !.cur = c, !.hash = g]
    BY <1>0
  <2> HIDE DEF c, g
  <2>2. rcv'.pc = rcv.pc /\ rcv'.hash = g
    BY <1>1, <2>1 DEF ReceiverSession
  <2> QED
    BY <1>0, <2>2 DEF g
<1>5. ClaimCovered'
  BY <1>0, <1>4 DEF FirstPassVerifies, ClaimCovered
<1>6. ASSUME Undisturbed PROVE ClaimHolds' /\ Begins(entry, rcv'.hash)
  <2>1. ClaimHolds /\ FirstPass
    BY <1>0, <1>6 DEF FirstPassVerifies, Reading
  <2>2. \A j \in DOMAIN cells : cells[j] = entry[rcv.cur + j]
    <3>1. 1 \in DOMAIN toR /\ toR[1] = Head(toR)
      BY <1>0, <1>1, TailFrames
    <3> QED
      BY <1>0, <2>1, <3>1 DEF FirstPass, cells
  <2>3. Begins(entry, rcv'.hash)
    <3>1. \A j \in DOMAIN cells :
            Len(rcv.hash) + j \in 1..Len(entry) /\ cells[j] = entry[Len(rcv.hash) + j]
      BY <1>2, <1>3, <2>2
    <3>2. Begins(entry, rcv.hash)
      BY <2>1 DEF FirstPass
    <3>3. Begins(entry, rcv.hash \o cells)
      BY <1>2, <1>3, <3>1, <3>2, BeginsLonger
    <3> QED
      BY <1>4, <3>3
  <2>4. ClaimHolds'
    <3>1. SUFFICES ASSUME sidecar # NoSidecar, sidecar.size = Len(entry),
                          NEW i \in 1..n, i <= Len(disk')
                   PROVE  disk'[i] = entry[i]
      BY <1>0 DEF ClaimHolds
    <3>2. n \in Nat
      <4>1. ClaimedPrefix(sidecar) \in Nat
        <5>1. sidecar \in {NoSidecar} \cup [size: Nat, chunks: Nat]
          BY <1>1 DEF TypeOK
        <5> QED
          BY <3>1, <5>1, MultipleOfChunk, BytesAssumption DEF ClaimedPrefix
      <4> QED
        BY <1>3, <4>1 DEF Smaller
    <3>3. disk # NoFile => \A k \in 1..n : k <= Len(disk) => disk[k] = entry[k]
      BY <2>1, <3>1 DEF ClaimHolds
    <3> HIDE DEF n
    <3>4. MatchesUpTo(disk, entry, n)
      BY <1>3, <3>3, BytesAssumption DEF Content, MatchesUpTo
    <3>5. CellsFrom(cells, entry, rcv.cur)
      BY <2>2 DEF CellsFrom
    <3>6. MatchesUpTo(WriteAt(disk, rcv.cur, cells), entry, n)
      BY <1>2, <1>3, <3>2, <3>4, <3>5, WriteMatches
    <3> QED
      BY <1>0, <3>1, <3>6 DEF MatchesUpTo
  <2> QED
    BY <2>3, <2>4
<1>7. StartsOverOnNothing'
  BY <1>4 DEF StartsOverOnNothing
<1> QED
  BY <1>0, <1>4, <1>5, <1>6, <1>7, ReceiverFirstKept DEF Reading

\* A pass that does not verify, or is a repair, is not the first of a session.
LEMMA NoSecondPass ==
  ASSUME IInv, PassesHashSource, FirstPassVerifies, Undisturbed
  PROVE  ~ReceiverRepairChunk /\ ~ReceiverMismatch /\ ~ReceiverUnrepaired
<1>1. rcv.pc \in Reading => FirstPass /\ source = entry
  BY DEF FirstPassVerifies, PassesHashSource, HashesSource, Undisturbed
<1>2. rcv.pc # "repair"
  BY <1>1 DEF FirstPass, Reading
<1>3. SUFFICES ASSUME ReceiverMismatch PROVE FALSE
  BY <1>2 DEF ReceiverRepairChunk, ReceiverUnrepaired
<1>4. /\ rcv.pc = "chunks" /\ rcv.cur >= Len(entry)
      /\ toR # << >> /\ Head(toR).type = "end" /\ rcv.hash # Head(toR).hash
  BY <1>3 DEF ReceiverMismatch, PassEnds, Gets, LocalHash
<1>5. FirstPass /\ source = entry
  BY <1>1, <1>4 DEF Reading
<1>6. Head(toR).hash = entry
  <2>1. 1 \in DOMAIN toR /\ toR[1] = Head(toR)
    BY <1>4 DEF IInv, TypeOK
  <2> QED
    BY <1>4, <1>5, <2>1 DEF FirstPass
<1>7. rcv.hash = entry
  <2>1. rcv.hash \in Content /\ entry \in Content /\ Len(rcv.hash) = rcv.cur
    BY <1>4, SessionFields DEF IInv, PassesInStep, HasherCoversDisk, TypeOK
  <2> QED
    BY <1>4, <1>5, <2>1, BeginsWhole DEF FirstPass
<1> QED
  BY <1>4, <1>6, <1>7

\* Every pass the receiver reads is the first of its session, and stays so.
LEMMA ReceiverFirst ==
  IInv /\ PassesHashSource /\ FirstPassVerifies /\ Receiver => FirstPassVerifies'
<1> SUFFICES ASSUME IInv, PassesHashSource, FirstPassVerifies, Receiver
             PROVE  FirstPassVerifies'
  OBVIOUS
<1>0. UNCHANGED <<policy, source, entry, snd, faults>>
  BY ReceiverMoves
<1>1. CASE ReceiverManifest
  BY <1>1, ManifestFirst
<1>2. CASE ReceiverStart
  BY <1>2, StartFirst
<1>3. CASE ReceiverChunk
  BY <1>3, ChunkFirst
<1>4. CASE ReceiverVerified
  <2>1. /\ toR # << >> /\ toR' = Tail(toR) /\ sidecar' = NoSidecar /\ rcv'.pc = "drain"
    BY <1>4 DEF ReceiverVerified, PassEnds, Gets, FreshReceiver
  <2>2. ClaimCovered' /\ ClaimHolds'
    BY <2>1 DEF ClaimCovered, ClaimHolds
  <2> QED
    BY <1>0, <2>1, <2>2, ReceiverFirstKept DEF Reading
<1>5. CASE ReceiverRepairChunk \/ ReceiverMismatch \/ ReceiverUnrepaired
  <2>1. ~Undisturbed
    BY <1>5, NoSecondPass
  <2>2. /\ toR # << >> /\ toR' = Tail(toR) /\ UNCHANGED sidecar
        /\ rcv'.pc = "start" => rcv'.hash = << >>
    <3>1. toR # << >> /\ toR' = Tail(toR) /\ UNCHANGED sidecar
      BY <1>5 DEF ReceiverRepairChunk, ReceiverMismatch, ReceiverUnrepaired, PassEnds, Gets
    <3>2. rcv \in ReceiverSession
      BY DEF IInv, TypeOK
    <3>3. CASE ReceiverRepairChunk
      BY <3>1, <3>2, <3>3 DEF ReceiverRepairChunk, ReceiverSession
    <3>4. CASE ReceiverMismatch \/ ReceiverUnrepaired
      <4> DEFINE bad == BadStarts(entry, disk)
                 k == rcv.attempts + 1
      <4>1. \/ rcv' = [rcv EXCEPT !.pc = "repair", !.need = bad, !.attempts = k]
            \/ rcv' = FreshReceiver("drain", "failed")
            \/ rcv' = [ExpectResend EXCEPT !.attempts = k]
            \/ rcv' = ExpectResend
        <5>1. ExpectResend.attempts = rcv.attempts
          BY <3>2 DEF ExpectResend, ReceiverSession
        <5> QED
          BY <3>4, <5>1 DEF ReceiverMismatch, ReceiverUnrepaired
      <4> HIDE DEF bad, k
      <4>2. ExpectResend \in ReceiverSession /\ ExpectResend.hash = << >>
        <5> DEFINE none == << >>
        <5>1. none \in Content /\ ExpectResend = [rcv EXCEPT !.pc = "start", !.hash = none]
          BY DEF ExpectResend, Content
        <5> HIDE DEF none
        <5>2. ExpectResend \in ReceiverSession /\ ExpectResend.hash = none
          BY <3>2, <5>1 DEF ReceiverSession, ReceiverStates
        <5> QED
          BY <5>2 DEF none
      <4>3. \/ rcv'.pc \in {"repair", "drain"}
            \/ rcv'.hash = ExpectResend.hash
        <5>1. FreshReceiver("drain", "failed").pc = "drain"
          BY DEF FreshReceiver
        <5> DEFINE again == ExpectResend
        <5>2. again \in ReceiverSession
          BY <4>2
        <5>3. [rcv EXCEPT !.pc = "repair", !.need = bad, !.attempts = k].pc = "repair"
          BY <3>2 DEF ReceiverSession
        <5> HIDE DEF again
        <5>4. [again EXCEPT !.attempts = k].hash = again.hash
          BY <5>2 DEF ReceiverSession
        <5> QED
          BY <4>1, <5>1, <5>3, <5>4 DEF again
      <4> QED
        BY <3>1, <4>2, <4>3
    <3> QED
      BY <1>5, <3>1, <3>3, <3>4
  <2>3. ClaimCovered'
    BY <1>0, <2>2 DEF FirstPassVerifies, ClaimCovered
  <2> QED
    BY <1>0, <2>1, <2>2, <2>3, ReceiverFirstKept
<1>6. CASE ReceiverDrain \/ ReceiverRefuses \/ ReceiverBroken
  <2>1. /\ toR' = toR \/ (toR # << >> /\ toR' = Tail(toR))
        /\ UNCHANGED <<disk, sidecar>>
        /\ rcv'.pc \notin Reading
    BY <1>6 DEF ReceiverDrain, ReceiverRefuses, ReceiverBroken, ReceiverStops,
                FreshReceiver, Reading, files, wire, IInv, TypeOK, ReceiverSession
  <2>2. ClaimCovered' /\ (Undisturbed => ClaimHolds')
    BY <1>0, <2>1 DEF FirstPassVerifies, ClaimCovered, ClaimHolds, Reading
  <2> QED
    BY <1>0, <2>1, <2>2, ReceiverFirstKept
<1> QED
  BY <1>1, <1>2, <1>3, <1>4, <1>5, <1>6 DEF Receiver

\* What the environment may do to the files is counted.
LEMMA FaultsCounted ==
  ASSUME TypeOK, Environment, Undisturbed'
  PROVE  /\ Undisturbed /\ (Drop \/ RebuildManifest)
         /\ UNCHANGED <<policy, source, disk, sidecar, toR, toS, snd, rcv>>
<1>1. faults \in [drops: 0..MaxDrops, edits: 0..MaxEdits, touches: 0..MaxTouches]
      /\ MaxEdits \in Nat /\ MaxTouches \in Nat
  BY TransferAssumption DEF TypeOK
<1>2. ~EditSource /\ ~TouchDisk
  BY <1>1 DEF EditSource, TouchDisk, Undisturbed
<1>3. Drop \/ RebuildManifest
  BY <1>2 DEF Environment
<1> QED
  BY <1>1, <1>3 DEF Drop, RebuildManifest, Undisturbed, files, fixed, wire

\* A new session reads no pass yet, and faults only end what is promised.
LEMMA OutsideFirst ==
  IInv /\ PassesHashSource /\ FirstPassVerifies /\ (Connect \/ Environment \/ UNCHANGED vars)
    => FirstPassVerifies'
<1> SUFFICES ASSUME IInv, PassesHashSource, FirstPassVerifies,
                    Connect \/ Environment \/ UNCHANGED vars
             PROVE  FirstPassVerifies'
  OBVIOUS
<1> USE DEF FirstPassVerifies
<1>1. CASE Connect
  <2>1. UNCHANGED <<files, fixed>> /\ rcv'.pc = "manifest"
    BY <1>1 DEF Connect, FreshReceiver
  <2> QED
    BY <2>1 DEF files, fixed, ClaimCovered, ClaimHolds, Undisturbed, Reading
<1>2. CASE Environment
  <2>1. ClaimCovered'
    <3>1. /\ UNCHANGED <<sidecar, rcv>>
          /\ UNCHANGED entry \/ rcv.pc \in ReceiverResting
      BY <1>2 DEF Environment, Drop, EditSource, RebuildManifest, TouchDisk, files, fixed
    <3> QED
      BY <3>1 DEF ClaimCovered, ReceiverResting
  <2>2. ASSUME Undisturbed'
        PROVE  ClaimHolds' /\ (rcv'.pc \in Reading => FirstPass' /\ StartsOverOnNothing')
    <3>1. /\ Undisturbed /\ (Drop \/ RebuildManifest)
          /\ UNCHANGED <<policy, source, disk, sidecar, toR, toS, snd, rcv>>
      BY <1>2, <2>2, FaultsCounted DEF IInv
    <3>2. UNCHANGED entry
      <4>1. source = entry
        BY <3>1 DEF PassesHashSource, HashesSource, Undisturbed
      <4> QED
        BY <3>1, <4>1 DEF Drop, RebuildManifest, files
    <3> QED
      BY <3>1, <3>2 DEF ClaimHolds, FirstPass, FullPass, StartsOverOnNothing
  <2> QED
    BY <2>1, <2>2
<1>3. CASE UNCHANGED vars
  BY <1>3 DEF vars, ClaimCovered, ClaimHolds, FirstPass, FullPass, StartsOverOnNothing,
              Undisturbed
<1> QED
  BY <1>1, <1>2, <1>3

\* As long as nothing but the network fails, every session's first pass verifies:
\* there is no repair and no resend, and what the sidecar claims is so.
THEOREM FirstPassesVerify == Spec => []FirstPassVerifies
<1>1. Init => FirstPassVerifies
  BY DEF Init, FreshReceiver, FirstPassVerifies, ClaimCovered, ClaimHolds, Reading
<1>2. IInv /\ PassesHashSource /\ FirstPassVerifies /\ [Next]_vars => FirstPassVerifies'
  BY SenderFirst, ReceiverFirst, OutsideFirst DEF Next, Finished
<1> QED
  BY <1>1, <1>2, Invariance, PassesHashTheSource, PTL DEF Spec

\* A sidecar that would be trusted vouches for cells that match the manifest.
THEOREM SidecarsAreHonest == Spec => []SidecarIsHonest
<1>1. TypeOK /\ FirstPassVerifies => SidecarIsHonest
  <2> SUFFICES ASSUME TypeOK, FirstPassVerifies, Undisturbed,
                      SidecarValid(sidecar, entry, disk)
               PROVE  LET n == Smaller(ClaimedPrefix(sidecar), Len(entry))
                      IN  Slice(disk, 0, n) = Slice(entry, 0, n)
    BY DEF SidecarIsHonest
  <2> DEFINE n == Smaller(ClaimedPrefix(sidecar), Len(entry))
  <2>1. /\ sidecar # NoSidecar /\ disk # NoFile /\ sidecar.size = Len(entry)
        /\ Len(disk) >= n
    BY DEF SidecarValid
  <2>2. entry \in Content /\ disk \in Content /\ Len(entry) \in Nat /\ Len(disk) \in Nat
    BY <2>1 DEF TypeOK, Content
  <2>3. n \in Nat /\ n <= Len(entry)
    <3>1. ClaimedPrefix(sidecar) \in Nat
      <4>1. sidecar \in {NoSidecar} \cup [size: Nat, chunks: Nat]
        BY DEF TypeOK
      <4> QED
        BY <2>1, <4>1, MultipleOfChunk, BytesAssumption DEF ClaimedPrefix
    <3> QED
      BY <2>2, <3>1 DEF Smaller
  <2>4. \A i \in 1..n : i <= Len(disk) => disk[i] = entry[i]
    BY <2>1 DEF FirstPassVerifies, ClaimHolds
  <2> HIDE DEF n
  <2>5. \A i \in 1..n : disk[i] = entry[i]
    BY <2>1, <2>2, <2>3, <2>4
  <2>6. Slice(disk, 0, n) = Slice(entry, 0, n)
    BY <2>1, <2>2, <2>3, <2>5, SlicesAgree
  <2> QED
    BY <2>6 DEF n
<1> QED
  BY <1>1, TypeCorrect, FirstPassesVerify, PTL

\* What a step makes of a receiver that has skipped the file.
LEMMA SkippedStep ==
  IInv /\ PassesHashSource /\ FirstPassVerifies /\ SkippedMatches /\ [Next]_vars
    => SkippedMatches'
<1> SUFFICES ASSUME IInv, PassesHashSource, FirstPassVerifies, SkippedMatches, [Next]_vars,
                    policy' = "resume", rcv'.outcome = "skipped", Undisturbed'
             PROVE  disk' = entry'
  BY DEF SkippedMatches
<1>0. TypeOK /\ OutcomeIsFinal /\ rcv \in ReceiverSession
  BY DEF IInv, PassesInStep, TypeOK
<1>1. CASE Connect
  BY <1>1 DEF Connect, FreshReceiver
<1>2. CASE Sender
  BY <1>0, <1>2, SenderMoves DEF SkippedMatches, Undisturbed
<1>3. CASE Receiver
  <2>1. UNCHANGED <<policy, entry, faults>> /\ Undisturbed
    BY <1>3, ReceiverMoves DEF Undisturbed
  <2>2. CASE ReceiverManifest
    <3>1. rcv.pc = "manifest" /\ UNCHANGED disk
      BY <2>2 DEF ReceiverManifest
    <3>2. rcv.outcome # "skipped"
      BY <1>0, <3>1 DEF OutcomeIsFinal
    <3>3. Skips(PlannedPoint)
      <4> DEFINE h == PlannedPoint.hash
      <4>1. \/ Skips(PlannedPoint)
            \/ rcv' = FreshReceiver("failed", "none")
            \/ rcv' = [rcv EXCEPT !.pc = "start", !.hash = h]
        BY <2>2 DEF ReceiverManifest, ReceiverStops
      <4> HIDE DEF h
      <4>2. rcv' # FreshReceiver("failed", "none")
        BY DEF FreshReceiver
      <4>3. rcv' # [rcv EXCEPT !.pc = "start", !.hash = h]
        BY <1>0, <3>2 DEF ReceiverSession
      <4> QED
        BY <4>1, <4>2, <4>3
    <3>4. ResumePoint(entry, disk, sidecar).complete
      BY <2>1, <3>3 DEF Skips, PlannedPoint
    <3>5. /\ entry \in Content /\ disk \in {NoFile} \cup Content
          /\ sidecar \in {NoSidecar} \cup [size: Nat, chunks: Nat]
      BY <1>0 DEF TypeOK
    <3>6. sidecar # NoSidecar /\ disk # NoFile /\ sidecar.size = Len(entry) =>
            \A i \in 1..Smaller(ClaimedPrefix(sidecar), Len(entry)) :
              i <= Len(disk) => disk[i] = entry[i]
      BY <2>1 DEF FirstPassVerifies, ClaimHolds
    <3>7. disk = entry
      BY <3>4, <3>5, <3>6, ResumePointMatches
    <3> QED
      BY <2>1, <3>1, <3>7
  <2>3. CASE ~ReceiverManifest
    <3>1. ~ReceiverVerified
      <4>1. ReceiverVerified => rcv'.outcome = "verified"
        BY DEF ReceiverVerified, FreshReceiver
      <4> QED
        BY <4>1
    <3>2. rcv.outcome = "skipped" /\ UNCHANGED disk
      BY <1>0, <1>3, <2>3, <3>1, OutcomeStays
    <3> QED
      BY <2>1, <3>2 DEF SkippedMatches
  <2> QED
    BY <2>2, <2>3
<1>4. CASE Environment
  <2>1. /\ Undisturbed /\ (Drop \/ RebuildManifest)
        /\ UNCHANGED <<policy, source, disk, rcv>>
    BY <1>0, <1>4, FaultsCounted
  <2>2. source = entry
    BY <2>1 DEF PassesHashSource, HashesSource, Undisturbed
  <2>3. UNCHANGED entry
    BY <2>1, <2>2 DEF Drop, RebuildManifest, files
  <2> QED
    BY <2>1, <2>3 DEF SkippedMatches
<1>5. CASE UNCHANGED vars
  BY <1>5 DEF vars, SkippedMatches, Undisturbed
<1> QED
  BY <1>1, <1>2, <1>3, <1>4, <1>5 DEF Next, Finished

\* A file is reported complete, with nothing sent, only when it matches the
\* manifest.
THEOREM SkippedIsComplete == Spec => []SkippedMatches
<1>1. Init => SkippedMatches
  BY DEF Init, FreshReceiver, SkippedMatches
<1> QED
  BY <1>1, SkippedStep, Invariance, PassesHashTheSource, FirstPassesVerify, PTL DEF Spec

\* Under resume, opening the destination keeps the chunks that match, or there
\* are none.
LEMMA StartKeepsPrefix ==
  ASSUME IInv, FirstPassVerifies, Undisturbed, policy = "resume", ReceiverStart
  PROVE  VerifiedPrefix(entry, OnDisk(disk)) <= VerifiedPrefix(entry, OnDisk(disk'))
<1> DEFINE old == OnDisk(disk)
           new == OnDisk(disk')
           n == VerifiedPrefix(entry, old)
<1>1. /\ rcv.pc = "start" /\ toR # << >> /\ toR' = Tail(toR) /\ Head(toR).type = "start"
      /\ disk' = OpenForResume(disk, Head(toR).off, Len(entry))
  BY DEF ReceiverStart, Gets
<1>2. /\ entry \in Content /\ Len(entry) \in Nat /\ disk \in {NoFile} \cup Content
      /\ rcv.hash \in Content /\ Head(toR).off = Len(rcv.hash)
      /\ Begins(old, rcv.hash) /\ Len(rcv.hash) <= Len(entry)
  BY <1>1, SessionFields, PassFrame
     DEF IInv, PassesInStep, TypeOK, HasherCoversDisk, Reading, Content
<1>3. old \in Content /\ Len(old) \in Nat
  BY <1>2 DEF OnDisk, Content
<1>4. disk' \in Content
  BY <1>1, <1>2, OpenKeepsPrefix
<1>5. new \in Content /\ new = disk'
  BY <1>4, BytesAssumption DEF OnDisk, Content
<1>6. n \in Nat /\ n <= Len(entry) /\ n <= Len(old)
  BY <1>2, <1>3, VerifiedPrefixWithin
<1> HIDE DEF new
<1>7. VerifiedPrefix(entry, new) \in Nat
  BY <1>2, <1>5, VerifiedPrefixWithin
<1>8. CASE rcv.hash = << >>
  <2>1. n = 0
    BY <1>1, <1>8 DEF FirstPassVerifies, StartsOverOnNothing, Reading
  <2> QED
    BY <1>7, <2>1 DEF new
<1>9. CASE rcv.hash # << >>
  <2>1. Len(rcv.hash) # 0
    BY <1>2, <1>9 DEF Content
  <2>2. new = SetLen(old, Len(entry))
    BY <1>1, <1>2, <1>5, <2>1 DEF OpenForResume
  <2>3. /\ Len(new) = Len(entry)
        /\ \A i \in 1..Len(entry) : i <= Len(old) => new[i] = old[i]
    BY <1>2, <1>3, <2>2, SetLenCells
  <2>4. \A i \in 1..n : old[i] = entry[i]
    BY <1>2, <1>3, VerifiedPrefixMatches
  <2> HIDE DEF n, old
  <2>5. \A i \in 1..n : i <= Len(new) /\ new[i] = entry[i]
    BY <1>2, <1>3, <1>6, <2>3, <2>4
  <2>6. VerifiedPrefix(entry, old) <= VerifiedPrefix(entry, new)
    BY <1>2, <1>3, <1>5, <2>5, VerifiedPrefixGrows DEF n
  <2> QED
    BY <2>6 DEF old, new
<1> QED
  BY <1>8, <1>9

\* So does a chunk of the first pass.
LEMMA ChunkKeepsPrefix ==
  ASSUME IInv, PassesHashSource, FirstPassVerifies, Undisturbed, ReceiverChunk
  PROVE  VerifiedPrefix(entry, OnDisk(disk)) <= VerifiedPrefix(entry, OnDisk(disk'))
<1> DEFINE cells == Head(toR).cells
           new == WriteAt(disk, rcv.cur, cells)
           n == VerifiedPrefix(entry, disk)
<1>1. /\ rcv.pc = "chunks" /\ toR # << >> /\ toR' = Tail(toR) /\ Head(toR).type = "chunk"
      /\ Head(toR).off = rcv.cur /\ disk' = new
  BY DEF ReceiverChunk, Gets, NextInOrder
<1>2. TypeOK /\ HasherCoversDisk /\ InBounds /\ FirstPass
  BY <1>1 DEF IInv, PassesInStep, PassesHashSource, FirstPassVerifies, Reading
<1>3. /\ cells \in Content /\ rcv.cur \in Nat /\ entry \in Content /\ disk \in Content
      /\ Begins(disk, rcv.hash) /\ Len(rcv.hash) = rcv.cur
  BY <1>1, <1>2, ChunkInside, SessionFields DEF HasherCoversDisk, TypeOK, Reading
<1>4. rcv.cur <= Len(disk) /\ Len(disk) \in Nat /\ Len(cells) \in Nat
  BY <1>3 DEF Begins, Content
<1>5. CellsFrom(cells, entry, rcv.cur)
  <2>1. 1 \in DOMAIN toR /\ toR[1] = Head(toR)
    BY <1>1, <1>2, TailFrames
  <2> QED
    BY <1>1, <1>2, <2>1 DEF FirstPass, CellsFrom
<1>6. n \in Nat /\ n <= Len(disk)
  BY <1>3, VerifiedPrefixWithin
<1>7. MatchesUpTo(disk, entry, n)
  BY <1>3, VerifiedPrefixMatches DEF MatchesUpTo
<1> HIDE DEF cells, n
<1>8. new \in Content /\ Len(new) = Larger(Len(disk), rcv.cur + Len(cells))
  BY <1>3, WriteAtCells
<1>9. MatchesUpTo(new, entry, n)
  BY <1>3, <1>4, <1>5, <1>6, <1>7, WriteMatches
<1>10. \A i \in 1..n : i <= Len(new) /\ new[i] = entry[i]
  <2>1. Len(new) \in Nat /\ Len(disk) <= Len(new)
    BY <1>3, <1>4, <1>8 DEF Larger
  <2> HIDE DEF new
  <2> QED
    BY <1>4, <1>6, <1>9, <2>1 DEF MatchesUpTo
<1> HIDE DEF new
<1>11. VerifiedPrefix(entry, disk) <= VerifiedPrefix(entry, new)
  BY <1>3, <1>8, <1>10, VerifiedPrefixGrows DEF n
<1>12. OnDisk(disk) = disk /\ OnDisk(disk') = new
  BY <1>1, <1>3, <1>8, BytesAssumption DEF OnDisk, Content
<1> QED
  BY <1>11, <1>12

\* Under resume, a prefix found to match the manifest is never lost again to
\* drops and retries.
THEOREM PrefixIsKept == Spec => VerifiedPrefixKept
<1>1. IInv /\ PassesHashSource /\ FirstPassVerifies /\ [Next]_vars =>
        [policy = "resume" /\ Undisturbed' =>
           VerifiedPrefix(entry, OnDisk(disk)) <= VerifiedPrefix(entry, OnDisk(disk'))]_disk
  <2> SUFFICES ASSUME IInv, PassesHashSource, FirstPassVerifies, [Next]_vars,
                      policy = "resume", Undisturbed', disk' # disk
               PROVE  VerifiedPrefix(entry, OnDisk(disk)) <= VerifiedPrefix(entry, OnDisk(disk'))
    OBVIOUS
  <2>1. ~Connect /\ ~Sender /\ ~UNCHANGED vars
    BY SenderMoves DEF Connect, files, vars, IInv
  <2>2. ~Environment
    BY FaultsCounted DEF IInv
  <2>3. Receiver /\ Undisturbed
    <3>1. Receiver
      BY <2>1, <2>2 DEF Next, Finished
    <3> QED
      BY <3>1, ReceiverMoves DEF Undisturbed
  <2>4. ~ReceiverRepairChunk /\ ~ReceiverMismatch /\ ~ReceiverUnrepaired
    BY <2>3, NoSecondPass
  <2>5. ReceiverStart \/ ReceiverChunk
    BY <2>3, <2>4 DEF Receiver, ReceiverManifest, ReceiverVerified, ReceiverDrain,
                      ReceiverRefuses, ReceiverBroken, files
  <2> QED
    BY <2>3, <2>5, StartKeepsPrefix, ChunkKeepsPrefix
<1> QED
  BY <1>1, Invariance, PassesHashTheSource, FirstPassesVerify, PTL
     DEF Spec, VerifiedPrefixKept

-----------------------------------------------------------------------------
(* The frames in flight are those of the pass, in its order.               *)

\* Any version of the source is one of its contents.
SourcesKept == source \in Sources /\ entry \in Sources

\* A frame written to a connection that is up comes last.
LEMMA NewFrame ==
  ASSUME TypeOK, up, NEW m \in ToReceiver, toR' = Sent(toR, <<m>>)
  PROVE  /\ Len(toR) \in Nat /\ Len(toR') = Len(toR) + 1
         /\ DOMAIN toR = 1..Len(toR) /\ DOMAIN toR' = 1..(Len(toR) + 1)
         /\ toR'[Len(toR) + 1] = m /\ \A i \in DOMAIN toR : toR'[i] = toR[i]
         /\ toR' # << >> /\ (toR = << >> <=> Len(toR) = 0)
<1>1. toR \in Seq(ToReceiver) /\ toR' = toR \o <<m>>
  BY DEF TypeOK, Sent
<1> QED
  BY <1>1

\* Nothing is in order, or not, between passes; and a connection that goes down
\* leaves the frames in flight.
LEMMA OrderIdle ==
  ASSUME rcv'.pc \notin Reading \cup {"manifest"}
  PROVE  FramesInOrder'
BY DEF FramesInOrder, PassInOrder, RepairInOrder, Reading

LEMMA OrderDown ==
  ASSUME FramesInOrder, ~up', UNCHANGED <<toR, rcv, entry>>
  PROVE  FramesInOrder'
<1>1. PassInOrder'
  BY DEF FramesInOrder, PassInOrder, Follows, Reach
<1>2. RepairInOrder'
  BY DEF FramesInOrder, RepairInOrder, InFlight, Requested
<1> QED
  BY <1>1, <1>2 DEF FramesInOrder

LEMMA OrderStutters ==
  ASSUME FramesInOrder, UNCHANGED <<up, toR, toS, rcv, snd, entry>>
  PROVE  FramesInOrder'
<1>1. PassInOrder'
  BY DEF FramesInOrder, PassInOrder, Follows, Reach
<1>2. RepairInOrder'
  BY DEF FramesInOrder, RepairInOrder, InFlight, Requested, Ahead
<1> QED
  BY <1>1, <1>2 DEF FramesInOrder

\* A sender that starts a full pass in answer to the receiver opens it.
LEMMA OrderOpens ==
  ASSUME TypeOK, up, rcv.pc = "start", toR = << >>, NEW off \in Nat,
         toR' = Sent(toR, <<StartFrame(off)>>), UNCHANGED <<rcv, entry>>,
         snd'.todo = {}, snd'.end = Len(entry), snd'.cur = off
  PROVE  FramesInOrder'
<1> DEFINE m == StartFrame(off)
<1>1. m \in ToReceiver /\ m.type = "start" /\ Reach(m) = off
  BY DEF StartFrame, ToReceiver, Reach
<1>2. Len(toR) = 0 /\ toR' = Sent(toR, <<m>>)
  OBVIOUS
<1> HIDE DEF m
<1>3. DOMAIN toR' = {1} /\ toR'[1] = m /\ Len(toR') = 1 /\ toR' # << >>
  BY <1>1, <1>2, NewFrame
<1>4. PassInOrder'
  BY <1>1, <1>3 DEF PassInOrder
<1>5. RepairInOrder'
  BY DEF RepairInOrder
<1> QED
  BY <1>4, <1>5 DEF FramesInOrder

\* The next frame of a full pass comes where the one before it ends.
LEMMA PassGrows ==
  ASSUME TypeOK, PassInOrder, up, rcv.pc \in {"start", "chunks"}, snd.pc = "stream",
         NEW m \in ToReceiver, toR' = Sent(toR, <<m>>), Follows(m, snd.cur),
         UNCHANGED <<rcv, entry>>,
         snd'.pc = "stream" => /\ snd'.todo = {} /\ snd'.end = Len(entry)
                               /\ snd'.cur = Reach(m)
  PROVE  PassInOrder'
<1> DEFINE n == Len(toR)
<1>1. /\ n \in Nat /\ Len(toR') = n + 1
      /\ DOMAIN toR = 1..n /\ DOMAIN toR' = 1..(n + 1)
      /\ toR'[n + 1] = m /\ \A i \in DOMAIN toR : toR'[i] = toR[i]
      /\ toR' # << >> /\ (toR = << >> <=> n = 0)
  BY NewFrame
<1>2. /\ n # 0 => snd.cur = Reach(toR[n])
      /\ n = 0 => rcv.pc = "chunks" /\ snd.cur = rcv.cur
  BY <1>1 DEF PassInOrder
<1> HIDE DEF n
<1>3. ASSUME NEW i \in DOMAIN toR', i > 1
      PROVE  Follows(toR'[i], Reach(toR'[i - 1]))
  <2>1. i - 1 \in DOMAIN toR /\ toR'[i - 1] = toR[i - 1]
    BY <1>1, <1>3
  <2>2. CASE i = n + 1
    BY <1>1, <1>2, <1>3, <2>1, <2>2
  <2>3. CASE i # n + 1
    <3>1. i \in DOMAIN toR
      BY <1>1, <1>3, <2>3
    <3> QED
      BY <1>1, <1>3, <2>1, <3>1 DEF PassInOrder
  <2> QED
    BY <2>2, <2>3
<1>4. IF rcv.pc = "start" THEN toR'[1].type = "start" ELSE Follows(toR'[1], rcv.cur)
  <2>1. CASE n = 0
    BY <1>1, <1>2, <2>1
  <2>2. CASE n # 0
    BY <1>1, <2>2 DEF PassInOrder
  <2> QED
    BY <2>1, <2>2
<1> QED
  BY <1>1, <1>3, <1>4 DEF PassInOrder, Follows, Reach

\* A chunk of a repair that the sender has ahead goes into flight.
LEMMA RepairGrows ==
  ASSUME TypeOK, RepairInOrder, up, rcv.pc = "repair", snd.pc = "stream", toS = << >>,
         toS' = toS, snd.cur < snd.end, NEW m \in ToReceiver, toR' = Sent(toR, <<m>>),
         m.type = "chunk", m.off = snd.cur, snd.cur + Len(m.cells) = snd.end,
         UNCHANGED <<rcv, entry>>,
         snd'.cur = snd.end, snd'.end = snd.end, snd'.todo = snd.todo
  PROVE  RepairInOrder'
<1>0. PICK c \in Nat : c = snd.cur
  BY SessionFields
<1> DEFINE n == Len(toR)
<1>1. /\ n \in Nat /\ DOMAIN toR = 1..n /\ DOMAIN toR' = 1..(n + 1)
      /\ toR'[n + 1] = m /\ \A i \in DOMAIN toR : toR'[i] = toR[i]
  BY NewFrame
<1> HIDE DEF n
<1>2. /\ c \in rcv.need /\ ~InFlight(c) /\ c \notin snd.todo
      /\ snd.end = ChunkEnd(Len(entry), c)
  BY <1>0 DEF RepairInOrder, Ahead
<1>3. Requested(m)
  <2>1. Len(m.cells) \in Nat /\ c \in Nat
    BY SessionFields DEF ToReceiver, Content
  <2> QED
    BY <1>0, <1>2, <2>1 DEF Requested
<1>4. \A o : InFlight(o) => InFlight(o)'
  <2>1. DOMAIN toR \subseteq DOMAIN toR'
    BY <1>1
  <2> QED
    BY <1>1, <2>1 DEF InFlight
<1>5. InFlight(c)' 
  <2>1. n + 1 \in DOMAIN toR'
    BY <1>1
  <2> QED
    BY <1>0, <1>1, <2>1 DEF InFlight
<1>6. \A o : InFlight(o)' => InFlight(o) \/ o = c
  BY <1>0, <1>1 DEF InFlight
<1>7. ASSUME NEW i \in DOMAIN toR'
      PROVE  \/ /\ toR'[i].type = "chunk" /\ Requested(toR'[i])
                /\ \A j \in DOMAIN toR' :
                     toR'[j].type = "chunk" /\ toR'[j].off = toR'[i].off => j = i
             \/ toR'[i].type = "end" /\ \A o \in rcv.need : InFlight(o)'
  <2>1. \A j \in DOMAIN toR : toR[j].type = "chunk" => toR[j].off # c
    BY <1>2 DEF InFlight
  <2>2. CASE i = n + 1
    <3>1. \A j \in DOMAIN toR' : j # n + 1 => j \in DOMAIN toR /\ toR'[j] = toR[j]
      BY <1>1
    <3>2. toR'[i] = m /\ m.off = c
      BY <1>0, <1>1, <2>2
    <3> QED
      BY <1>3, <2>1, <2>2, <3>1, <3>2
  <2>3. CASE i # n + 1
    <3>1. i \in DOMAIN toR /\ toR'[i] = toR[i]
      BY <1>1, <2>3
    <3>2. CASE toR[i].type = "chunk" /\ Requested(toR[i])
      <4>1. \A j \in DOMAIN toR :
              toR[j].type = "chunk" /\ toR[j].off = toR[i].off => j = i
        BY <3>1, <3>2 DEF RepairInOrder
      <4>2. toR[i].off # c
        BY <2>1, <3>1, <3>2
      <4>3. ASSUME NEW j \in DOMAIN toR', toR'[j].type = "chunk", toR'[j].off = toR'[i].off
            PROVE  j = i
        <5>1. j \in DOMAIN toR /\ toR'[j] = toR[j]
          BY <1>0, <1>1, <3>1, <4>2, <4>3
        <5> QED
          BY <3>1, <4>1, <4>3, <5>1
      <4> QED
        BY <3>1, <3>2, <4>3
    <3>3. CASE toR[i].type = "end" /\ \A o \in rcv.need : InFlight(o)
      BY <1>4, <3>1, <3>3
    <3> QED
      BY <3>1, <3>2, <3>3 DEF RepairInOrder
  <2> QED
    BY <2>2, <2>3
<1>8. ~(snd'.cur < snd'.end)
  BY SessionFields
<1>9. \A o : Ahead(o)' <=> o \in snd.todo
  BY <1>8 DEF Ahead
<1>10. \A o \in rcv.need : InFlight(o)' \/ Ahead(o)'
  <2>1. \A o \in rcv.need : InFlight(o) \/ o \in snd.todo \/ o = c
    BY <1>0 DEF RepairInOrder, Ahead
  <2> QED
    BY <1>4, <1>5, <1>9, <2>1
<1>11. \A o \in snd.todo : o \in rcv.need /\ ~InFlight(o)'
  <2>1. \A o \in snd.todo : o \in rcv.need /\ ~InFlight(o) /\ o # c
    BY <1>0, <1>2 DEF RepairInOrder, Ahead
  <2> QED
    BY <1>6, <2>1
<1>12. rcv.need \subseteq ChunkStarts(Len(entry))
  BY DEF RepairInOrder
<1>13. rcv' = rcv /\ entry' = entry /\ toS' = << >>
  OBVIOUS
<1>14. \A x : Requested(x)' <=> Requested(x)
  BY <1>13 DEF Requested
<1>15. \A i \in DOMAIN toR' :
         \/ /\ toR'[i].type = "chunk" /\ Requested(toR[i])'
            /\ \A j \in DOMAIN toR' :
                 toR'[j].type = "chunk" /\ toR'[j].off = toR'[i].off => j = i
         \/ toR'[i].type = "end" /\ \A o \in rcv'.need : InFlight(o)'
  BY <1>7, <1>13, <1>14
<1>16. \A o \in snd'.todo \cup {snd'.cur} : Ahead(o)' => o \in rcv'.need /\ ~InFlight(o)'
  BY <1>9, <1>11, <1>13
<1> QED
  BY <1>8, <1>10, <1>12, <1>13, <1>15, <1>16 DEF RepairInOrder

\* FileEnd closes a repair once everything that was asked for is in flight.
LEMMA RepairCloses ==
  ASSUME TypeOK, RepairInOrder, up, rcv.pc = "repair", snd.pc = "stream", toS = << >>,
         toS' = toS, snd.cur = snd.end, snd.todo = {},
         NEW m \in ToReceiver, toR' = Sent(toR, <<m>>), m.type = "end",
         UNCHANGED <<rcv, entry>>, snd'.pc = "verdict"
  PROVE  RepairInOrder'
<1> DEFINE n == Len(toR)
<1>1. /\ n \in Nat /\ DOMAIN toR = 1..n /\ DOMAIN toR' = 1..(n + 1)
      /\ toR'[n + 1] = m /\ \A i \in DOMAIN toR : toR'[i] = toR[i]
  BY NewFrame
<1> HIDE DEF n
<1>2. \A o : InFlight(o) => InFlight(o)'
  <2>1. DOMAIN toR \subseteq DOMAIN toR'
    BY <1>1
  <2> QED
    BY <1>1, <2>1 DEF InFlight
<1>3. \A o \in rcv.need : InFlight(o)'
  <2>1. ~(snd.cur < snd.end)
    BY SessionFields
  <2>2. \A o \in rcv.need : InFlight(o)
    BY <2>1 DEF RepairInOrder, Ahead
  <2> QED
    BY <1>2, <2>2
<1>4. rcv' = rcv /\ entry' = entry /\ toS' = << >>
  OBVIOUS
<1>5. \A x : Requested(x)' <=> Requested(x)
  BY <1>4 DEF Requested
<1>6. ASSUME NEW i \in DOMAIN toR'
      PROVE  \/ /\ toR'[i].type = "chunk" /\ Requested(toR[i])'
                /\ \A j \in DOMAIN toR' :
                     toR'[j].type = "chunk" /\ toR'[j].off = toR'[i].off => j = i
             \/ toR'[i].type = "end"
  <2>1. CASE i = n + 1
    BY <1>1, <2>1
  <2>2. CASE i # n + 1
    <3>1. i \in DOMAIN toR /\ toR'[i] = toR[i]
      BY <1>1, <2>2
    <3>2. \A j \in DOMAIN toR' : toR'[j].type = "chunk" => j \in DOMAIN toR /\ toR'[j] = toR[j]
      BY <1>1
    <3>3. CASE toR[i].type = "chunk" /\ Requested(toR[i])
      <4>1. \A j \in DOMAIN toR :
              toR[j].type = "chunk" /\ toR[j].off = toR[i].off => j = i
        BY <3>1, <3>3 DEF RepairInOrder
      <4>2. Requested(toR[i])'
        BY <1>5, <3>1, <3>3
      <4> QED
        BY <3>1, <3>2, <3>3, <4>1, <4>2
    <3> QED
      BY <3>1, <3>3 DEF RepairInOrder
  <2> QED
    BY <2>1, <2>2
<1>7. rcv.need \subseteq ChunkStarts(Len(entry))
  BY DEF RepairInOrder
<1> QED
  BY <1>3, <1>4, <1>6, <1>7 DEF RepairInOrder

\* If repairs fit, the sender reads as much as is left of the range, up to a chunk.
LEMMA ChunkInFull ==
  ASSUME RepairsFit, TypeOK, InBounds, SourcesKept, SenderChunk
  PROVE  \E cells \in Content :
           /\ toR' = Sent(toR, <<[type |-> "chunk", off |-> snd.cur, cells |-> cells]>>)
           /\ Len(cells) \in 1..ChunkSize /\ Len(cells) <= snd.end - snd.cur
           /\ snd.end - snd.cur <= ChunkSize => Len(cells) = snd.end - snd.cur
           /\ snd'.pc = "stream" /\ snd'.cur = snd.cur + Len(cells)
           /\ snd'.end = snd.end /\ snd'.todo = snd.todo
           /\ UNCHANGED <<up, toS>>
<1> DEFINE want == Smaller(BufferLen, snd.end - snd.cur)
           cells == Slice(source, snd.cur, snd.cur + want)
           m == [type |-> "chunk", off |-> snd.cur, cells |-> cells]
<1>1. snd.pc = "stream" /\ snd.cur < snd.end /\ UNCHANGED toS
  BY DEF SenderChunk
<1>2. /\ snd \in SenderSession /\ snd.cur \in Nat /\ snd.end \in Nat
      /\ ChunkSize \in Nat \ {0} /\ BufSize \in Nat /\ BufSize >= ChunkSize
  BY SessionFields, BytesAssumption DEF TypeOK, RepairsFit
<1>3. BufferLen = ChunkSize
  BY <1>2 DEF BufferLen, Smaller
<1>4. want \in 1..ChunkSize /\ want <= snd.end - snd.cur
      /\ (snd.end - snd.cur <= ChunkSize => want = snd.end - snd.cur)
  BY <1>1, <1>2, <1>3 DEF Smaller
<1>5. snd.end <= Len(source)
  <2>1. Len(source) = Len(entry)
    BY DEF RepairsFit, SourcesKept
  <2> QED
    BY <1>1, <2>1 DEF InBounds
<1>6. cells \in Content /\ Len(cells) = want
  BY <1>1, <1>5, NextCells
<1> HIDE DEF want
<1>7. cells # << >>
  BY <1>4, <1>6 DEF Content
<1>8. /\ toR' = Sent(toR, <<m>>) /\ UNCHANGED up
      /\ snd' = [snd EXCEPT !.cur = @ + Len(cells), !.hash = @ \o cells]
  BY <1>7 DEF SenderChunk, want
<1> HIDE DEF cells
<1>9. /\ snd'.pc = snd.pc /\ snd'.cur = snd.cur + Len(cells)
      /\ snd'.end = snd.end /\ snd'.todo = snd.todo
  BY <1>2, <1>8 DEF SenderSession
<1> QED
  BY <1>1, <1>4, <1>6, <1>8, <1>9

\* The sender goes to the next range that was asked for.
LEMMA RangeBegins ==
  ASSUME TypeOK, RepairInOrder, up, rcv.pc = "repair", toS = << >>, SenderNextRange
  PROVE  RepairInOrder'
<1>1. /\ snd.pc = "stream" /\ snd.cur = snd.end /\ snd.todo # {}
      /\ UNCHANGED <<toR, toS, rcv, entry, up>>
      /\ snd.cur \in Nat /\ snd.end \in Nat /\ snd.todo \in SUBSET Nat
  BY SessionFields DEF SenderNextRange, files, wire
<1>2. PICK o \in snd.todo : o = Min(snd.todo)
  BY <1>1, LeastElement
<1>3. snd' = [snd EXCEPT !.cur = o, !.end = ChunkEnd(Len(entry), o), !.todo = @ \ {o}]
  BY <1>2 DEF SenderNextRange
<1>4. /\ snd'.pc = "stream" /\ snd'.cur = o /\ snd'.end = ChunkEnd(Len(entry), o)
      /\ snd'.todo = snd.todo \ {o}
  BY <1>1, <1>3 DEF TypeOK, SenderSession
<1>5. o \in rcv.need /\ rcv.need \subseteq ChunkStarts(Len(entry))
  BY <1>1, <1>2 DEF RepairInOrder, Ahead
<1>6. o < ChunkEnd(Len(entry), o)
  <2>1. Len(entry) \in Nat /\ ChunkSize \in Nat \ {0}
    BY BytesAssumption DEF TypeOK, Content
  <2>2. o \in ChunkStarts(Len(entry))
    BY <1>5
  <2> QED
    BY <2>1, <2>2 DEF ChunkStarts, ChunkEnd, Smaller
<1>7. \A p : Ahead(p)' <=> p \in snd.todo
  BY <1>2, <1>4, <1>6 DEF Ahead
<1>8. \A p : Ahead(p) <=> p \in snd.todo
  BY <1>1 DEF Ahead
<1>9. \A p : InFlight(p)' <=> InFlight(p)
  BY <1>1 DEF InFlight
<1>10. /\ \A p \in rcv.need : InFlight(p) \/ p \in snd.todo
       /\ \A p \in snd.todo : p \in rcv.need /\ ~InFlight(p)
  BY <1>1, <1>8 DEF RepairInOrder
<1>11. /\ \A p \in rcv'.need : InFlight(p)' \/ Ahead(p)'
       /\ \A p \in snd'.todo \cup {snd'.cur} : Ahead(p)' => p \in rcv'.need /\ ~InFlight(p)'
  BY <1>1, <1>7, <1>9, <1>10
<1>12. snd'.cur \notin snd'.todo /\ snd'.end = ChunkEnd(Len(entry'), snd'.cur)
  BY <1>1, <1>4
<1>13. \A i \in DOMAIN toR' :
         \/ /\ toR'[i].type = "chunk" /\ Requested(toR[i])'
            /\ \A j \in DOMAIN toR' :
                 toR'[j].type = "chunk" /\ toR'[j].off = toR'[i].off => j = i
         \/ toR'[i].type = "end" /\ \A p \in rcv'.need : InFlight(p)'
  <2>1. \A x : Requested(x)' <=> Requested(x)
    BY <1>1 DEF Requested
  <2>2. \A i \in DOMAIN toR :
         \/ /\ toR[i].type = "chunk" /\ Requested(toR[i])
            /\ \A j \in DOMAIN toR :
                 toR[j].type = "chunk" /\ toR[j].off = toR[i].off => j = i
         \/ toR[i].type = "end" /\ \A p \in rcv.need : InFlight(p)
    BY DEF RepairInOrder
  <2> QED
    BY <1>1, <1>9, <2>1, <2>2
<1> QED
  BY <1>1, <1>5, <1>11, <1>12, <1>13 DEF RepairInOrder

\* It starts on the ranges the receiver needs, with nothing in flight.
LEMMA RepairBegins ==
  ASSUME TypeOK, RepairInOrder, up, rcv.pc = "repair", Turns, SenderRepair
  PROVE  RepairInOrder'
<1>1. /\ toS # << >> /\ toS' = Tail(toS) /\ UNCHANGED <<toR, rcv, entry>>
      /\ snd' = [snd EXCEPT !.pc = "stream", !.cur = 0, !.end = 0,
                            !.todo = Head(toS).starts, !.attempts = @ + 1]
  BY DEF SenderRepair, Hears, files
<1>2. toS' = << >> /\ toR = << >> /\ Head(toS).starts = rcv.need
      /\ rcv.need \subseteq ChunkStarts(Len(entry))
  BY <1>1, AnswerRead DEF Turns, Reading, RepairInOrder
<1>3. snd'.cur = 0 /\ snd'.end = 0 /\ snd'.todo = rcv.need
  BY <1>1, <1>2 DEF TypeOK, SenderSession
<1>4. \A o : ~InFlight(o)'
  BY <1>1, <1>2 DEF InFlight
<1>5. \A o : Ahead(o)' <=> o \in rcv.need
  BY <1>3 DEF Ahead
<1> QED
  BY <1>1, <1>2, <1>3, <1>4, <1>5 DEF RepairInOrder

\* No step of the sender puts a frame in flight out of order.
LEMMA SenderOrder ==
  ASSUME RepairsFit, IInv, InBounds, AnswerOwed, SourcesKept, FramesInOrder, Sender
  PROVE  FramesInOrder'
<1>0. /\ TypeOK /\ Turns /\ PassInOrder /\ RepairInOrder /\ UNCHANGED <<entry, rcv>>
      /\ entry \in Content /\ Len(entry) \in Nat /\ snd \in SenderSession
      /\ snd.cur \in Nat /\ snd.end \in Nat
  BY SenderMoves, SessionFields DEF IInv, PassesInStep, FramesInOrder, TypeOK, Content
<1>1. CASE ~up \/ ~up'
  <2>1. UNCHANGED toR /\ ~up'
    BY <1>1 DEF Sender, SenderAck, SenderDone, SenderChunk, SenderNextRange, SenderEnd,
                SenderResend, SenderRepair, SenderGivesUp, SenderBroken, SenderStops,
                Stream, Sent, wire
  <2> QED
    BY <1>0, <2>1, OrderDown
<1>2. CASE up /\ up'
  <2>0. FramesOwed /\ AnswersFit
    BY <1>2 DEF AnswerOwed
  <2>1. CASE SenderAck
    <3> DEFINE off == Head(toS).off
    <3>1. /\ toS # << >> /\ Head(toS).type = "ack" /\ Head(toS).accepted
          /\ Stream(off, HashedPrefix(source, off), 0, <<StartFrame(off)>>)
      BY <2>1 DEF SenderAck, Hears
    <3>2. off \in Nat
      BY <1>0, <3>1, TailType DEF ToSender, TypeOK
    <3> HIDE DEF off
    <3>3. /\ toR' = Sent(toR, <<StartFrame(off)>>)
          /\ snd'.todo = {} /\ snd'.end = Len(entry) /\ snd'.cur = off
      BY <1>0, <3>1 DEF Stream, SenderSession
    <3>4. rcv.pc = "start" /\ toR = << >>
      BY <1>0, <2>0, <3>1 DEF AnswersFit, Turns, Reading
    <3> QED
      BY <1>0, <1>2, <3>2, <3>3, <3>4, OrderOpens
  <2>2. CASE SenderResend
    <3>1. /\ toS # << >> /\ Head(toS).type = "verdict"
          /\ toR' = Sent(toR, <<StartFrame(0)>>)
          /\ snd'.todo = {} /\ snd'.end = Len(entry) /\ snd'.cur = 0
      BY <1>0, <2>2 DEF SenderResend, Hears, Stream, SenderSession
    <3>2. rcv.pc \in {"start", "drain"}
      BY <2>0, <3>1 DEF AnswersFit
    <3>3. CASE rcv.pc = "start"
      <4>1. toR = << >>
        BY <1>0, <3>1, <3>3 DEF Turns, Reading
      <4> QED
        BY <1>0, <1>2, <3>1, <3>3, <4>1, OrderOpens
    <3>4. CASE rcv.pc = "drain"
      BY <1>0, <3>4, OrderIdle DEF Reading
    <3> QED
      BY <3>2, <3>3, <3>4
  <2>3. CASE SenderDone
    <3>1. /\ toS # << >>
          /\ \/ Head(toS).type = "ack" /\ ~Head(toS).accepted
             \/ Head(toS).type = "verdict" /\ Head(toS).ok
      BY <2>3 DEF SenderDone, Hears
    <3>2. rcv.outcome # "none"
      BY <3>1 DEF IInv, PassesInStep, Settlements
    <3>3. rcv.pc \in {"drain", "reported"}
      BY <3>2 DEF IInv, PassesInStep, OutcomeIsFinal
    <3> QED
      BY <1>0, <3>3, OrderIdle DEF Reading
  <2>4. CASE SenderChunk
    <3>1. PICK cells \in Content :
            /\ toR' = Sent(toR, <<[type |-> "chunk", off |-> snd.cur, cells |-> cells]>>)
            /\ Len(cells) \in 1..ChunkSize /\ Len(cells) <= snd.end - snd.cur
            /\ snd.end - snd.cur <= ChunkSize => Len(cells) = snd.end - snd.cur
            /\ snd'.pc = "stream" /\ snd'.cur = snd.cur + Len(cells)
            /\ snd'.end = snd.end /\ snd'.todo = snd.todo
            /\ UNCHANGED <<up, toS>>
      BY <1>0, <2>4, ChunkInFull
    <3> DEFINE m == [type |-> "chunk", off |-> snd.cur, cells |-> cells]
    <3>2. /\ m \in ToReceiver /\ m.type = "chunk" /\ m.off = snd.cur /\ m.cells = cells
          /\ toR' = Sent(toR, <<m>>)
      BY <1>0, <3>1 DEF ToReceiver
    <3> HIDE DEF m
    <3>3. Reach(m) = snd.cur + Len(cells) /\ Follows(m, snd.cur)
      BY <3>1, <3>2 DEF Reach, Follows
    <3>4. /\ snd.pc = "stream" /\ snd.cur < snd.end /\ toS = << >>
          /\ rcv.pc \in Reading
      BY <2>0, <2>4 DEF SenderChunk, FramesOwed
    <3>5. CASE rcv.pc \in {"start", "chunks"}
      <4>1. snd.todo = {} /\ snd.end = Len(entry)
        BY <1>0, <1>2, <3>4, <3>5 DEF PassInOrder
      <4>2. PassInOrder'
        BY <1>0, <1>2, <3>1, <3>2, <3>3, <3>4, <3>5, <4>1, PassGrows
      <4> QED
        BY <1>0, <3>5, <4>2 DEF FramesInOrder, RepairInOrder
    <3>6. CASE rcv.pc = "repair"
      <4>1. snd.end = ChunkEnd(Len(entry), snd.cur)
        BY <1>0, <1>2, <3>4, <3>6 DEF RepairInOrder
      <4>2. snd.end - snd.cur <= ChunkSize
        BY <1>0, <4>1, BytesAssumption DEF ChunkEnd, Smaller
      <4>3. snd.cur + Len(cells) = snd.end
        BY <1>0, <3>1, <4>2
      <4>4. snd'.cur = snd.end
        BY <3>1, <4>3
      <4>5. RepairInOrder'
        BY <1>0, <1>2, <3>1, <3>2, <3>4, <3>6, <4>3, <4>4, RepairGrows
      <4> QED
        BY <1>0, <3>6, <4>5 DEF FramesInOrder, PassInOrder
    <3> QED
      BY <3>4, <3>5, <3>6 DEF Reading
  <2>5. CASE SenderNextRange
    <3>1. snd.pc = "stream" /\ snd.todo # {}
      BY <2>5 DEF SenderNextRange
    <3>2. rcv.pc = "repair" /\ toS = << >>
      BY <1>0, <1>2, <2>0, <3>1 DEF FramesOwed, PassInOrder, Reading
    <3>3. RepairInOrder'
      BY <1>0, <1>2, <2>5, <3>2, RangeBegins
    <3> QED
      BY <1>0, <3>2, <3>3 DEF FramesInOrder, PassInOrder
  <2>6. CASE SenderEnd
    <3> DEFINE m == [type |-> "end", hash |-> snd.hash]
    <3>1. /\ snd.pc = "stream" /\ snd.cur = snd.end /\ snd.todo = {}
          /\ toR' = Sent(toR, <<m>>) /\ UNCHANGED toS /\ snd'.pc = "verdict"
      BY <1>0, <2>6 DEF SenderEnd, SenderSession
    <3>2. m \in ToReceiver /\ m.type = "end"
      BY <1>0, SessionFields DEF ToReceiver
    <3> HIDE DEF m
    <3>3. rcv.pc \in Reading /\ toS = << >>
      BY <2>0, <3>1 DEF FramesOwed
    <3>4. CASE rcv.pc \in {"start", "chunks"}
      <4>1. Follows(m, snd.cur)
        BY <1>0, <1>2, <3>1, <3>2, <3>4 DEF PassInOrder, Follows
      <4>2. PassInOrder'
        BY <1>0, <1>2, <3>1, <3>2, <3>4, <4>1, PassGrows
      <4> QED
        BY <1>0, <3>4, <4>2 DEF FramesInOrder, RepairInOrder
    <3>5. CASE rcv.pc = "repair"
      <4>1. RepairInOrder'
        BY <1>0, <1>2, <3>1, <3>2, <3>3, <3>5, RepairCloses
      <4> QED
        BY <1>0, <3>5, <4>1 DEF FramesInOrder, PassInOrder
    <3> QED
      BY <3>3, <3>4, <3>5 DEF Reading
  <2>7. CASE SenderRepair
    <3>1. toS # << >> /\ Head(toS).type = "request"
      BY <2>7 DEF SenderRepair, Hears
    <3>2. rcv.pc = "repair"
      BY <2>0, <3>1 DEF AnswersFit
    <3>3. RepairInOrder'
      BY <1>0, <1>2, <2>7, <3>2, RepairBegins
    <3> QED
      BY <1>0, <3>2, <3>3 DEF FramesInOrder, PassInOrder
  <2>8. ~SenderGivesUp /\ ~SenderBroken
    BY <1>2 DEF SenderGivesUp, SenderStops, SenderBroken
  <2> QED
    BY <2>1, <2>2, <2>3, <2>4, <2>5, <2>6, <2>7, <2>8 DEF Sender
<1> QED
  BY <1>0, <1>1, <1>2 DEF TypeOK

\* Nothing is in flight, and nothing is being sent, where a full pass is awaited.
LEMMA OrderAwaits ==
  ASSUME toR' = << >>, snd'.pc # "stream", rcv'.pc = "start"
  PROVE  FramesInOrder'
BY DEF FramesInOrder, PassInOrder, RepairInOrder

\* A frame of a full pass takes the receiver where the next one begins.
LEMMA PassShrinks ==
  ASSUME TypeOK, PassInOrder, rcv.pc \in {"start", "chunks"},
         toR # << >>, toR' = Tail(toR), UNCHANGED <<entry, snd, up>>,
         rcv'.pc = "chunks", rcv'.cur = Reach(Head(toR))
  PROVE  PassInOrder'
<1> DEFINE n == Len(toR)
<1>1. /\ 1 \in DOMAIN toR /\ toR[1] = Head(toR) /\ Len(toR') = n - 1 /\ n \in Nat
      /\ DOMAIN toR = 1..n /\ DOMAIN toR' = 1..(n - 1)
      /\ \A i \in DOMAIN toR' :
           i \in Nat /\ i >= 1 /\ i + 1 \in DOMAIN toR /\ toR'[i] = toR[i + 1]
      /\ toR' # << >> <=> n > 1
  <2>1. toR \in Seq(ToReceiver) /\ toR' \in Seq(ToReceiver)
    BY TailType DEF TypeOK
  <2>2. /\ 1 \in DOMAIN toR /\ toR[1] = Head(toR) /\ Len(toR') = n - 1 /\ n \in Nat
        /\ \A i \in DOMAIN toR' :
             i \in Nat /\ i >= 1 /\ i + 1 \in DOMAIN toR /\ toR'[i] = toR[i + 1]
    BY TailFrames
  <2>3. DOMAIN toR = 1..n /\ DOMAIN toR' = 1..Len(toR')
    BY <2>1
  <2>4. toR' # << >> <=> Len(toR') # 0
    <3>1. \A q \in Seq(ToReceiver) : q # << >> <=> Len(q) # 0
      OBVIOUS
    <3> QED
      BY <2>1, <3>1
  <2> HIDE DEF n
  <2> QED
    BY <2>2, <2>3, <2>4
<1> HIDE DEF n
<1>2. \A i \in DOMAIN toR : i > 1 => Follows(toR[i], Reach(toR[i - 1]))
  BY DEF PassInOrder
<1>3. toR' # << >> => Follows(toR'[1], rcv'.cur)
  <2> SUFFICES ASSUME n > 1 PROVE Follows(toR'[1], rcv'.cur)
    BY <1>1
  <2>1. 1 \in DOMAIN toR' /\ toR'[1] = toR[2] /\ 2 \in DOMAIN toR
    BY <1>1
  <2>2. Follows(toR[2], Reach(toR[2 - 1]))
    BY <1>2, <2>1
  <2>3. Reach(toR[2 - 1]) = rcv'.cur
    BY <1>1
  <2> QED
    BY <2>1, <2>2, <2>3
<1>4. ASSUME NEW i \in DOMAIN toR', i > 1
      PROVE  Follows(toR'[i], Reach(toR'[i - 1]))
  <2>1. /\ i + 1 \in DOMAIN toR /\ i + 1 > 1 /\ toR'[i] = toR[i + 1]
        /\ i - 1 \in DOMAIN toR' /\ toR'[i - 1] = toR[(i + 1) - 1]
    BY <1>1, <1>4
  <2> QED
    BY <1>2, <2>1
<1>5. toR' # << >> => Reach(toR'[Len(toR')]) = Reach(toR[n])
  <2> SUFFICES ASSUME n > 1 PROVE Reach(toR'[Len(toR')]) = Reach(toR[n])
    BY <1>1
  <2>1. n - 1 \in DOMAIN toR' /\ toR'[n - 1] = toR[n]
    BY <1>1
  <2> QED
    BY <1>1, <2>1
<1>6. toR' = << >> => n = 1 /\ Reach(toR[n]) = rcv'.cur
  BY <1>1
<1>7. up /\ snd.pc = "stream" =>
        snd.todo = {} /\ snd.end = Len(entry) /\ snd.cur = Reach(toR[n])
  BY DEF PassInOrder, n
<1>8. \A m, at : Follows(m, at)' <=> Follows(m, at)
  BY DEF Follows
<1>9. toR' # << >> => Follows(toR[2], rcv'.cur)
  BY <1>1, <1>3
<1> QED
  BY <1>3, <1>4, <1>5, <1>6, <1>7 DEF PassInOrder, Follows, Reach

\* A chunk of a repair that has been written is neither needed nor in flight.
LEMMA RepairShrinks ==
  ASSUME IInv, RepairInOrder, ReceiverRepairChunk
  PROVE  RepairInOrder'
<1>0. TypeOK /\ rcv \in ReceiverSession
  BY DEF IInv, TypeOK
<1>1. /\ rcv.pc = "repair" /\ toR # << >> /\ toR' = Tail(toR)
      /\ Head(toR).type = "chunk" /\ Requested(Head(toR))
      /\ UNCHANGED <<entry, snd, up, toS>>
  BY DEF ReceiverRepairChunk, Gets
<1> DEFINE off == Head(toR).off
<1>2. rcv' = [rcv EXCEPT !.need = @ \ {off}]
  BY DEF ReceiverRepairChunk
<1>3. /\ 1 \in DOMAIN toR /\ toR[1] = Head(toR) /\ Len(toR') = Len(toR) - 1
      /\ DOMAIN toR = 1..Len(toR) /\ DOMAIN toR' = 1..(Len(toR) - 1) /\ Len(toR) \in Nat
      /\ \A i \in DOMAIN toR' :
           i \in Nat /\ i >= 1 /\ i + 1 \in DOMAIN toR /\ toR'[i] = toR[i + 1]
  <2>1. toR \in Seq(ToReceiver) /\ toR' \in Seq(ToReceiver)
    BY <1>0, <1>1, TailType DEF TypeOK
  <2> QED
    BY <1>0, <1>1, <2>1, TailFrames
<1> HIDE DEF off
<1>4. rcv'.pc = "repair" /\ rcv'.need = rcv.need \ {off}
  BY <1>0, <1>1, <1>2 DEF ReceiverSession
<1>5. toS = << >>
  BY <1>1, PassFrame DEF Reading
<1>6. /\ \A i \in DOMAIN toR : i # 1 /\ toR[i].type = "chunk" => toR[i].off # off
      /\ toR[1].type = "chunk" /\ toR[1].off = off
  BY <1>1, <1>3 DEF RepairInOrder, off
<1>7. \A o : InFlight(o)' => InFlight(o)
  BY <1>3 DEF InFlight
<1>8. InFlight(off)
  BY <1>3, <1>6 DEF InFlight
<1>9. ASSUME NEW o, InFlight(o), o # off PROVE InFlight(o)'
  <2>1. PICK j \in DOMAIN toR : toR[j].type = "chunk" /\ toR[j].off = o
    BY <1>9 DEF InFlight
  <2>2. j - 1 \in DOMAIN toR' /\ (j - 1) + 1 = j
    BY <1>3, <1>6, <1>9, <2>1
  <2>3. toR'[j - 1] = toR[j]
    BY <1>3, <2>2
  <2> QED
    BY <2>1, <2>2, <2>3 DEF InFlight
<1>10. \A m : Requested(m)' <=> Requested(m) /\ m.off # off
  BY <1>1, <1>4 DEF Requested
<1>11. ASSUME NEW i \in DOMAIN toR'
       PROVE  \/ /\ toR'[i].type = "chunk" /\ Requested(toR[i])'
                 /\ \A j \in DOMAIN toR' :
                      toR'[j].type = "chunk" /\ toR'[j].off = toR'[i].off => j = i
              \/ toR'[i].type = "end" /\ \A o \in rcv'.need : InFlight(o)'
  <2>1. i + 1 \in DOMAIN toR /\ i + 1 # 1 /\ toR'[i] = toR[i + 1] /\ i \in Nat
    BY <1>3
  <2>2. CASE toR[i + 1].type = "chunk" /\ Requested(toR[i + 1])
    <3>1. \A j \in DOMAIN toR :
            toR[j].type = "chunk" /\ toR[j].off = toR[i + 1].off => j = i + 1
      BY <1>1, <2>1, <2>2 DEF RepairInOrder
    <3>2. Requested(toR[i])'
      BY <1>3, <1>6, <1>10, <2>1, <2>2
    <3>3. ASSUME NEW j \in DOMAIN toR', toR'[j].type = "chunk", toR'[j].off = toR'[i].off
          PROVE  j = i
      <4>1. j + 1 \in DOMAIN toR /\ toR'[j] = toR[j + 1] /\ j \in Nat
        BY <1>3
      <4>2. j + 1 = i + 1
        BY <2>1, <3>1, <3>3, <4>1
      <4> QED
        BY <2>1, <4>1, <4>2
    <3> QED
      BY <2>1, <2>2, <3>2, <3>3
  <2>3. CASE toR[i + 1].type = "end" /\ \A o \in rcv.need : InFlight(o)
    BY <1>4, <1>9, <2>1, <2>3
  <2> QED
    BY <1>1, <2>1, <2>2, <2>3 DEF RepairInOrder
<1>12. ASSUME NEW i \in DOMAIN toR'
       PROVE  \/ /\ toR'[i].type = "chunk" /\ toR'[i].off \in rcv'.need
                 /\ Len(toR'[i].cells) = ChunkEnd(Len(entry'), toR'[i].off) - toR'[i].off
                 /\ \A j \in DOMAIN toR' :
                      toR'[j].type = "chunk" /\ toR'[j].off = toR'[i].off => j = i
              \/ toR'[i].type = "end" /\ \A o \in rcv'.need : InFlight(o)'
  BY <1>3, <1>11 DEF Requested
<1>13. \A o : Ahead(o)' <=> Ahead(o)
  BY <1>1 DEF Ahead
<1>14. up /\ snd.pc = "stream" =>
         /\ \A o \in rcv'.need : InFlight(o)' \/ Ahead(o)'
         /\ \A o \in snd.todo \cup {snd.cur} : Ahead(o)' => o \in rcv'.need /\ ~InFlight(o)'
         /\ snd.cur < snd.end =>
              snd.cur \notin snd.todo /\ snd.end = ChunkEnd(Len(entry), snd.cur)
  <2> SUFFICES ASSUME up, snd.pc = "stream"
               PROVE  /\ \A o \in rcv'.need : InFlight(o)' \/ Ahead(o)'
                      /\ \A o \in snd.todo \cup {snd.cur} :
                           Ahead(o)' => o \in rcv'.need /\ ~InFlight(o)'
                      /\ snd.cur < snd.end =>
                           snd.cur \notin snd.todo /\ snd.end = ChunkEnd(Len(entry), snd.cur)
    OBVIOUS
  <2>1. /\ \A o \in rcv.need : InFlight(o) \/ Ahead(o)
        /\ \A o \in snd.todo \cup {snd.cur} : Ahead(o) => o \in rcv.need /\ ~InFlight(o)
        /\ snd.cur < snd.end =>
             snd.cur \notin snd.todo /\ snd.end = ChunkEnd(Len(entry), snd.cur)
    BY <1>1 DEF RepairInOrder
  <2> QED
    BY <1>4, <1>7, <1>8, <1>9, <1>13, <2>1
<1>15. rcv'.need \subseteq ChunkStarts(Len(entry))
  BY <1>1, <1>4 DEF RepairInOrder
<1> QED
  BY <1>1, <1>5, <1>12, <1>14, <1>15 DEF RepairInOrder, Requested

\* No step of the receiver puts the frames left in flight out of order.
LEMMA ReceiverOrder ==
  ASSUME IInv, FramesInOrder, Receiver
  PROVE  FramesInOrder'
<1>0. /\ TypeOK /\ Turns /\ PassInOrder /\ RepairInOrder /\ UNCHANGED <<entry, snd>>
      /\ entry \in Content /\ rcv \in ReceiverSession
      /\ toR \in Seq(ToReceiver) /\ toS \in Seq(ToSender)
  BY ReceiverMoves DEF IInv, PassesInStep, FramesInOrder, TypeOK
<1>10. \A pc, outcome : FreshReceiver(pc, outcome).pc = pc
  BY DEF FreshReceiver
<1>11. ExpectResend.pc = "start" /\ [ExpectResend EXCEPT !.attempts = @ + 1].pc = "start"
  BY <1>0 DEF ExpectResend, ReceiverSession
<1>1. CASE ReceiverManifest
  <2> DEFINE h == PlannedPoint.hash
  <2>1. /\ rcv.pc = "manifest" /\ toR # << >> /\ toR' = Tail(toR)
        /\ \/ rcv' = FreshReceiver("failed", "none")
           \/ rcv' = FreshReceiver("drain", "skipped")
           \/ rcv' = [rcv EXCEPT !.pc = "start", !.hash = h]
    BY <1>1 DEF ReceiverManifest, Gets, ReceiverStops
  <2> HIDE DEF h
  <2>2. rcv'.pc \in {"failed", "drain", "start"}
    BY <1>0, <1>10, <2>1 DEF ReceiverSession
  <2>3. Len(toR) <= 1 /\ snd.pc # "stream"
    BY <1>0, <2>1 DEF Turns
  <2>4. toR' = << >>
    BY <1>0, <2>1, <2>3
  <2> QED
    BY <1>0, <2>2, <2>3, <2>4, OrderAwaits, OrderIdle DEF Reading
<1>2. CASE ReceiverStart
  <2>1. /\ rcv.pc = "start" /\ toR # << >> /\ Head(toR).type = "start" /\ toR' = Tail(toR)
        /\ rcv'.pc = "chunks" /\ rcv'.cur = Head(toR).off /\ UNCHANGED up
    BY <1>0, <1>2 DEF ReceiverStart, Gets, ReceiverSession
  <2>2. rcv'.cur = Reach(Head(toR))
    BY <2>1 DEF Reach
  <2>3. PassInOrder'
    BY <1>0, <2>1, <2>2, PassShrinks
  <2> QED
    BY <2>1, <2>3 DEF FramesInOrder, RepairInOrder
<1>3. CASE ReceiverChunk
  <2>1. /\ rcv.pc = "chunks" /\ toR # << >> /\ Head(toR).type = "chunk" /\ toR' = Tail(toR)
        /\ rcv'.pc = "chunks" /\ rcv'.cur = rcv.cur + Len(Head(toR).cells)
        /\ Head(toR).off = rcv.cur /\ UNCHANGED up
    BY <1>0, <1>3 DEF ReceiverChunk, Gets, NextInOrder, ReceiverSession
  <2>2. rcv'.cur = Reach(Head(toR))
    BY <2>1 DEF Reach
  <2>3. PassInOrder'
    BY <1>0, <2>1, <2>2, PassShrinks
  <2> QED
    BY <2>1, <2>3 DEF FramesInOrder, RepairInOrder
<1>4. CASE ReceiverRepairChunk
  <2>1. rcv'.pc = "repair"
    BY <1>0, <1>4 DEF ReceiverRepairChunk, ReceiverSession
  <2>2. RepairInOrder'
    BY <1>0, <1>4, RepairShrinks
  <2> QED
    BY <2>1, <2>2 DEF FramesInOrder, PassInOrder
<1>5. ASSUME rcv.pc \in {"chunks", "repair"}, PassEnds, toR' = Tail(toR)
      PROVE  toS = << >> /\ toR' = << >> /\ snd.pc # "stream"
  <2>1. toR # << >> /\ Head(toR).type = "end"
    BY <1>5 DEF PassEnds, Gets
  <2> QED
    BY <1>5, <2>1, PassFrame DEF Reading
<1>6. CASE ReceiverMismatch
  <2> DEFINE bad == BadStarts(entry, disk)
             ask == [type |-> "request", starts |-> bad]
  <2>1. rcv.pc = "chunks" /\ PassEnds /\ toR' = Tail(toR) /\ UNCHANGED up
    BY <1>6 DEF ReceiverMismatch
  <2>2. toS = << >> /\ toR' = << >> /\ snd.pc # "stream"
    BY <1>5, <2>1
  <2>3. CASE /\ toS' = Sent(toS, <<ask>>)
             /\ rcv' = [rcv EXCEPT !.pc = "repair", !.need = bad, !.attempts = @ + 1]
    <3>1. bad \subseteq ChunkStarts(Len(entry))
      BY DEF BadStarts, MismatchedStarts
    <3>2. up => toS' # << >> /\ Head(toS').starts = bad
      <4> SUFFICES ASSUME up PROVE toS' # << >> /\ Head(toS').starts = bad
        OBVIOUS
      <4>1. toS' = <<ask>> /\ ask.starts = bad
        BY <2>2, <2>3, SentAlone
      <4> HIDE DEF ask, bad
      <4> QED
        BY <4>1
    <3> HIDE DEF bad, ask
    <3>3. rcv'.pc = "repair" /\ rcv'.need = bad
      BY <1>0, <2>3 DEF ReceiverSession
    <3>4. RepairInOrder'
      BY <1>0, <2>1, <2>2, <3>1, <3>2, <3>3 DEF RepairInOrder
    <3> QED
      BY <3>3, <3>4 DEF FramesInOrder, PassInOrder
  <2>4. CASE rcv' = IF Exhausted(rcv.attempts + 1)
                    THEN FreshReceiver("drain", "failed")
                    ELSE [ExpectResend EXCEPT !.attempts = @ + 1]
    <3>1. rcv'.pc \in {"drain", "start"}
      BY <1>10, <1>11, <2>4
    <3> QED
      BY <1>0, <2>2, <3>1, OrderAwaits, OrderIdle DEF Reading
  <2> QED
    BY <1>6, <2>3, <2>4 DEF ReceiverMismatch
<1>7. CASE ReceiverUnrepaired
  <2>1. rcv.pc = "repair" /\ PassEnds /\ toR' = Tail(toR)
    BY <1>7 DEF ReceiverUnrepaired
  <2>2. toR' = << >> /\ snd.pc # "stream"
    BY <1>5, <2>1
  <2>3. rcv'.pc \in {"drain", "start"}
    BY <1>7, <1>10, <1>11 DEF ReceiverUnrepaired
  <2> QED
    BY <1>0, <2>2, <2>3, OrderAwaits, OrderIdle DEF Reading
<1>8. CASE ReceiverVerified \/ ReceiverRefuses \/ ReceiverBroken
  <2>1. rcv'.pc \in {"drain", "failed"}
    BY <1>8, <1>10 DEF ReceiverVerified, ReceiverRefuses, ReceiverBroken, ReceiverStops
  <2> QED
    BY <2>1, OrderIdle DEF Reading
<1>9. CASE ReceiverDrain
  <2>1. rcv'.pc \in {"drain", "reported"}
    BY <1>0, <1>9 DEF ReceiverDrain, ReceiverSession
  <2> QED
    BY <2>1, OrderIdle DEF Reading
<1> QED
  BY <1>1, <1>2, <1>3, <1>4, <1>6, <1>7, <1>8, <1>9 DEF Receiver

\* A new session has its manifest in flight; nothing else brings a frame.
LEMMA OutsideOrder ==
  ASSUME IInv, FramesInOrder, Connect \/ Environment \/ UNCHANGED vars
  PROVE  FramesInOrder'
<1>1. CASE Connect
  <2> DEFINE m == [type |-> "manifest", entry |-> entry]
  <2>1. toR' = <<m>> /\ m.type = "manifest" /\ rcv'.pc = "manifest"
    BY <1>1 DEF Connect, FreshReceiver
  <2> HIDE DEF m
  <2> QED
    BY <2>1 DEF FramesInOrder, PassInOrder, RepairInOrder
<1>2. CASE Drop
  BY <1>2, OrderDown DEF Drop, files
<1>3. CASE EditSource \/ TouchDisk \/ UNCHANGED vars
  <2>1. UNCHANGED <<up, toR, toS, rcv, snd, entry>>
    BY <1>3 DEF EditSource, TouchDisk, vars, wire
  <2> QED
    BY <2>1, OrderStutters
<1>4. CASE RebuildManifest
  <2>1. rcv'.pc \in ReceiverResting
    BY <1>4 DEF RebuildManifest
  <2> QED
    BY <2>1, OrderIdle DEF Reading, ReceiverResting
<1> QED
  BY <1>1, <1>2, <1>3, <1>4 DEF Environment

\* Frames in order are those the receiver waits for.
LEMMA OrderedIsInStep ==
  ASSUME IInv, InBounds, FramesInOrder
  PROVE  InStep
<1> SUFFICES ASSUME rcv.pc \notin ReceiverResting, toR # << >>
             PROVE  Acceptable(Head(toR))
  BY DEF InStep
<1> DEFINE m == Head(toR)
<1>1. /\ 1 \in DOMAIN toR /\ m = toR[1] /\ m \in ToReceiver
      /\ Len(toR) \in Nat /\ DOMAIN toR = 1..Len(toR)
      /\ rcv \in ReceiverSession /\ rcv.cur \in Nat /\ Len(entry) \in Nat
  BY SessionFields DEF IInv, TypeOK, Content
<1>2. PassInOrder /\ RepairInOrder /\ EndsOnTime
  BY DEF FramesInOrder, IInv, PassesInStep
<1> HIDE DEF m
<1>3. CASE rcv.pc = "manifest"
  BY <1>1, <1>3 DEF FramesInOrder, Acceptable, m
<1>4. CASE rcv.pc = "start"
  BY <1>1, <1>2, <1>4 DEF PassInOrder, Acceptable, m
<1>5. CASE rcv.pc = "chunks"
  <2>1. Follows(m, rcv.cur)
    BY <1>1, <1>2, <1>5 DEF PassInOrder
  <2>2. CASE rcv.cur < Len(entry)
    <3>1. m.type = "chunk" /\ m.off = rcv.cur /\ Len(m.cells) <= ChunkSize
      BY <1>1, <2>1, <2>2, BytesAssumption DEF Follows
    <3> QED
      BY <1>5, <2>2, <3>1 DEF Acceptable, NextInOrder, m
  <2>3. CASE ~(rcv.cur < Len(entry))
    <3>1. m.type = "chunk" => m.off + Len(m.cells) <= Len(entry)
      BY <1>1, <1>5 DEF InBounds, Reading
    <3>2. m.type = "end"
      BY <1>1, <2>1, <2>3, <3>1, BytesAssumption DEF Follows
    <3> QED
      BY <1>5, <2>3, <3>2 DEF Acceptable, m
  <2> QED
    BY <2>2, <2>3
<1>6. CASE rcv.pc = "repair"
  <2>1. \/ m.type = "chunk" /\ Requested(m)
        \/ m.type = "end" /\ \A o \in rcv.need : InFlight(o)
    BY <1>1, <1>2, <1>6 DEF RepairInOrder
  <2>2. CASE rcv.need # {}
    <3>1. ASSUME m.type = "end", \A o \in rcv.need : InFlight(o) PROVE FALSE
      <4>1. Len(toR) = 1
        BY <1>1, <1>2, <1>6, <3>1 DEF EndsOnTime, Reading
      <4>2. \A o : ~InFlight(o)
        BY <1>1, <3>1, <4>1 DEF InFlight
      <4> QED
        BY <2>2, <3>1, <4>2
    <3> QED
      BY <1>6, <2>1, <2>2, <3>1 DEF Acceptable, m
  <2>3. CASE rcv.need = {}
    BY <1>6, <2>1, <2>3 DEF Acceptable, Requested, m
  <2> QED
    BY <2>2, <2>3
<1>7. CASE rcv.pc \notin {"manifest", "start", "chunks", "repair"}
  BY <1>7 DEF Acceptable
<1> QED
  BY <1>3, <1>4, <1>5, <1>6, <1>7

\* The source is only ever exchanged for another of its contents.
LEMMA SourcesStay == SourcesKept /\ TypeOK /\ [Next]_vars => SourcesKept'
<1> SUFFICES ASSUME SourcesKept, TypeOK, [Next]_vars PROVE SourcesKept'
  OBVIOUS
<1> USE DEF SourcesKept
<1>1. CASE Connect
  BY <1>1 DEF Connect, files
<1>2. CASE Sender
  BY <1>2, SenderMoves
<1>3. CASE Receiver
  BY <1>3, ReceiverMoves
<1>4. CASE Environment
  BY <1>4 DEF Environment, Drop, EditSource, RebuildManifest, TouchDisk, files
<1>5. CASE UNCHANGED vars
  BY <1>5 DEF vars
<1> QED
  BY <1>1, <1>2, <1>3, <1>4, <1>5 DEF Next, Finished

\* If repairs fit, the receiver is never sent a frame other than the one it waits
\* for, because the frames in flight are those of its pass, in its order.
THEOREM FramesFitIn == RepairsFit => (Spec => []FramesInStep)
<1> SUFFICES ASSUME RepairsFit PROVE Spec => []FramesInStep
  OBVIOUS
<1>1. Init => SourcesKept /\ FramesInOrder
  BY DEF Init, SourcesKept, FramesInOrder, PassInOrder, RepairInOrder, FreshReceiver
<1>2. IInv /\ PassesHashSource /\ AnswerOwed /\ SourcesKept /\ FramesInOrder /\ [Next]_vars =>
        FramesInOrder'
  <2> SUFFICES ASSUME IInv, PassesHashSource, AnswerOwed, SourcesKept, FramesInOrder,
                      [Next]_vars
               PROVE  FramesInOrder'
    OBVIOUS
  <2>1. CASE Sender
    BY <2>1, SenderOrder DEF PassesHashSource
  <2>2. CASE Receiver
    BY <2>2, ReceiverOrder
  <2>3. CASE Connect \/ Environment \/ UNCHANGED vars
    BY <2>3, OutsideOrder
  <2> QED
    BY <2>1, <2>2, <2>3 DEF Next, Finished
<1>3. IInv => TypeOK
  BY DEF IInv
<1>4. IInv /\ PassesHashSource /\ FramesInOrder => FramesInStep
  BY OrderedIsInStep DEF PassesHashSource, FramesInStep
<1> QED
  BY <1>1, <1>2, <1>3, <1>4, SourcesStay, Invariance, PassesHashTheSource, AnswersAreOwed,
     PTL DEF Spec

\* The two sides agree on the pass, what is announced begins with the source,
\* whichever waits is owed a frame, and the first pass verifies.
THEOREM SessionsAreSound == Spec => []SessionSound
<1>1. PassesInStep /\ PassesHashSource /\ AnswerOwed /\ FirstPassVerifies => SessionSound
  BY DEF SessionSound
<1> QED
  BY <1>1, PassesAgree, PassesHashTheSource, AnswersAreOwed, FirstPassesVerify, PTL
=============================================================================
