---------------------------- MODULE Destinations ----------------------------
(***************************************************************************)
(* Where a receiver puts the files of a manifest: destinations.rs.  Paths  *)
(* and manifests are Manifest's.                                           *)
(*                                                                         *)
(* A disk maps the paths that exist to what is there, a record whose kind  *)
(* is "dir" for a directory; the receiver's own directory is the empty     *)
(* path.  Lengths are left out: nothing here is too long.                  *)
(***************************************************************************)
EXTENDS Manifest, FiniteSetsExt

CONSTANT
  CaseBlind  \* the receiver's file system knows no case

\* The key a path has on the receiver's disk.
Place(path) == IF CaseBlind THEN Folded(path) ELSE path

Exists(disk, path) == Place(path) \in DOMAIN disk
IsDir(disk, path) == Exists(disk, path) /\ disk[Place(path)].kind = "dir"

\* Several files do not fit into an `--out` that is a file.
OutIsFile(disk, rels, out) ==
  Len(rels) > 1 /\ Exists(disk, out) /\ ~IsDir(disk, out)

\* A single file may get the name `--out` says; `out/` names a directory, even
\* where `out` is a file.
OutIsName(disk, rels, out, slash) == Len(rels) = 1 /\ ~slash /\ ~IsDir(disk, out)

\* destination_paths.
DestinationPaths(disk, rels, out, slash) ==
  [k \in DOMAIN rels |->
    IF OutIsName(disk, rels, out, slash) THEN out ELSE out \o rels[k]]

\* The directories create_dir_all makes sure of: every parent.
Parents(path) == {SubSeq(path, 1, n) : n \in 0 .. Len(path) - 1}
NeededDirs(dests) == UNION {Parents(dests[k]) : k \in DOMAIN dests}

\* A file is in the way of a directory.
Blocked(disk, dirs) == \E dir \in dirs : Exists(disk, dir) /\ ~IsDir(disk, dir)

\* preview_conflicts: how many destinations there are already; what cannot be
\* looked up counts as well.
ExistingConflicts(disk, rels, out, slash) ==
  LET dests == DestinationPaths(disk, rels, out, slash)
  IN  Cardinality({k \in DOMAIN dests :
                     Exists(disk, dests[k]) \/ Blocked(disk, Parents(dests[k]))})

\* resolve_destinations does not fail.
Resolvable(disk, rels, out, slash) ==
  /\ rels # NoManifest /\ ValidManifest(rels)
  /\ ~OutIsFile(disk, rels, out)
  /\ ~Blocked(disk, NeededDirs(DestinationPaths(disk, rels, out, slash)))

\* The disk once the parents are there.
WithDirs(disk, dests) ==
  LET dirs == {Place(dir) : dir \in NeededDirs(dests)}
  IN  [path \in DOMAIN disk \cup dirs |->
        IF path \in DOMAIN disk THEN disk[path] ELSE [kind |-> "dir", of |-> 0]]

\* photo.jpg -> photo.1.jpg
Sibling(path, n) == Append(Front(path), Append(Last(path), n))

\* Defect: the numbered name is not looked up in turn.
FirstSibling(disk, path) ==
  IF ~Exists(disk, path) THEN path ELSE Sibling(path, 1)

\* next_available_path.
NextAvailable(disk, path) ==
  IF ~Exists(disk, path) THEN path
  ELSE Sibling(path, Min({n \in 1 .. Cardinality(DOMAIN disk) + 1 :
                            ~Exists(disk, Sibling(path, n))}))

\* resolve_destinations_with_policy: free names are looked up on the disk alone,
\* once the directories are there.
Destinations(disk, rels, out, slash, policy) ==
  LET dests == DestinationPaths(disk, rels, out, slash)
      made  == WithDirs(disk, dests)
  IN  IF policy = "rename"
      THEN [k \in DOMAIN dests |-> NextAvailable(made, dests[k])]
      ELSE dests

=============================================================================
