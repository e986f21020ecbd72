-------------------------- MODULE MCManifestCache ---------------------------
(* Values for TLC: two sends of the same two files, one of which is of two *)
(* chunks or one, and the other of one chunk and always of one length.     *)
EXTENDS ManifestCache, TLC

CONSTANTS f1, f2, s1, s2, a, b

SameFiles == [s \in {s1, s2} |-> {f1, f2}]

Contents == [f \in {f1, f2} |-> IF f = f1 THEN {<<a, a, a>>, <<b>>} ELSE {<<a>>, <<b>>}]

\* The two sends are alike.
Alike == Permutations(Send)

=============================================================================
