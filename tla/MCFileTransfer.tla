--------------------------- MODULE MCFileTransfer ---------------------------
(***************************************************************************)
(* Small instances of FileTransfer.  Chunks are two cells long; the file   *)
(* is two full chunks, or one and a half, and its versions differ in the   *)
(* first chunk, in the last one, or in length.                             *)
(***************************************************************************)
EXTENDS FileTransfer

CONSTANTS a, b, z   \* cells; z is the zero a hole reads as

Full == <<a, a, a, a>>
EditedFirst == <<b, a, a, a>>
EditedLast == <<a, a, a, b>>
Ragged == <<a, a, a>>
Shrunk == <<a>>

SameLength == {Full, EditedFirst, EditedLast}
AnyLength == {Full, EditedFirst, Ragged, Shrunk}

\* Absent, partial at and inside a chunk, damaged, longer than the source.
AllDisks ==
  {NoFile, << >>, <<a, a>>, <<a, a, a>>, <<b, a, a>>, <<a, a, a, a, b>>}
FewDisks == {NoFile, <<a, a>>, <<b, a, a, a>>}
=============================================================================
