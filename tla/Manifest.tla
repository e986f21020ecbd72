------------------------------ MODULE Manifest ------------------------------
(***************************************************************************)
(* How a sender turns what the user names into a manifest: manifest.rs     *)
(* without the hashes, which are FileBytes' subject, and without the       *)
(* cache, which is ManifestCache's.                                        *)
(*                                                                         *)
(* A name is a sequence: its base, then the number of every numbered       *)
(* sibling it is (photo.1.jpg is <<"photo", 1>>).  A path is a sequence of *)
(* names from the root of the file system, a rel_path one from the root of *)
(* the transfer.  A tree maps paths to nodes; nothing lies below a link.   *)
(* An input is the path the user gives, and whether it is spelled with a   *)
(* name (`dir`) or without one (`.`, `sub/..`).                            *)
(*                                                                         *)
(* A manifest is the sequence of its rel_paths.  An entry's ID is its      *)
(* position; the code counts from 0.  The empty sequence stands for every  *)
(* error, since an empty manifest is one (ManifestError::Empty).           *)
(***************************************************************************)
EXTENDS Naturals, FiniteSets, SequencesExt

CONSTANTS
  Hidden,    \* bases that start with a dot
  Portable,  \* bases that every receiver's file system can have
  Fold       \* base -> its lower case, in a decomposed form

NoManifest == <<>>

Base(name) == name[1]

\* What names and paths are.
IsName(name) ==
  /\ Base(name) \in DOMAIN Fold /\ Tail(name) \in Seq(Nat)
  /\ name = <<Base(name)>> \o Tail(name)

IsPath(path) ==
  path \in Seq(ToSet(path)) /\ \A k \in DOMAIN path : IsName(path[k])

-----------------------------------------------------------------------------
(* What a rel_path may be.                                                 *)

\* validate_rel_path: no empty path, no component a receiver cannot have.
ValidRel(rel) ==
  rel # <<>> /\ \A k \in DOMAIN rel : Base(rel[k]) \in Portable

\* What a file system that knows no case makes of a path.
Folded(path) ==
  [k \in DOMAIN path |-> <<Fold[Base(path[k])]>> \o Tail(path[k])]

\* Defect: only the exact spelling is compared.
NoDuplicates(rels) == \A i, j \in DOMAIN rels : i # j => rels[i] # rels[j]

\* check_no_collisions, over any family of rel_paths.
NoCollisions(rels) ==
  \A i, j \in DOMAIN rels : i # j => Folded(rels[i]) # Folded(rels[j])

\* validate_manifest_paths, the receiver's check of what the wire brings; the
\* check of the IDs holds of every sequence.
ValidManifest(rels) ==
  NoCollisions(rels) /\ \A k \in DOMAIN rels : ValidRel(rels[k])

-----------------------------------------------------------------------------
(* From inputs to rel_paths.                                               *)

\* canonicalize_input.
Canonical(tree, path) ==
  IF tree[path].kind = "link" THEN tree[path].target ELSE path

\* One input, spelled with its name: the name is the root of the transfer.
SingleInput(inputs) == Len(inputs) = 1 /\ inputs[1].named

\* compute_common_root, or the parent of a single input.
SourceRoot(tree, inputs) ==
  IF SingleInput(inputs) THEN Front(inputs[1].at)
  ELSE LongestCommonPrefix({Canonical(tree, inputs[k].at) : k \in DOMAIN inputs})

\* walk_dir_inner and collect_files: the regular files of an input, its links
\* and special files skipped.
Walk(tree, at) ==
  {path \in DOMAIN tree : tree[path].kind = "file" /\ IsPrefix(at, path)}

\* Every file with the input it was found under: two inputs may overlap.
Sources(tree, inputs) ==
  UNION {{<<k, path>> : path \in Walk(tree, inputs[k].at)} : k \in DOMAIN inputs}

\* rel_from, and the prefix walk_dir_with_prefix carries along.
RelFrom(root, path) == SubSeq(path, Len(root) + 1, Len(path))

\* The inputs that end a build before anything is walked.
Refused(tree, inputs) ==
  \/ inputs = <<>>
  \/ \E k \in DOMAIN inputs : inputs[k].at \notin DOMAIN tree
  \/ \E k \in DOMAIN inputs : inputs[k].at = <<>>
  \/ SingleInput(inputs) /\ tree[inputs[1].at].kind = "link"
  \/ \E k \in DOMAIN inputs : Canonical(tree, inputs[k].at) \notin DOMAIN tree

\* build: the files are sorted by rel_path; any order that is the same in every
\* build will do.
Build(tree, inputs) ==
  IF Refused(tree, inputs) THEN NoManifest
  ELSE LET root == SourceRoot(tree, inputs)
           rels == [s \in Sources(tree, inputs) |-> RelFrom(root, s[2])]
       IN  IF ValidManifest(rels) THEN SetToSeq({rels[s] : s \in DOMAIN rels})
           ELSE NoManifest

-----------------------------------------------------------------------------
(* Filters.                                                                *)

\* matches_filter: a glob over the whole path, a glob of one component (no `/`),
\* or everything below a path that may begin at any depth (`dir/**`).
Matches(pattern, rel) ==
  \/ rel \in pattern.paths
  \/ \E k \in DOMAIN rel : rel[k] \in pattern.names
  \/ /\ pattern.below # <<>>
     /\ \E k \in DOMAIN rel : IsPrefix(pattern.below, SubSeq(rel, k, Len(rel)))

\* The first component is not looked at: it is taken for the root's name.
HiddenPart(rel) == \E k \in DOMAIN rel : k > 1 /\ Base(rel[k]) \in Hidden

\* apply_filters, for one entry.
Kept(filters, rel) ==
  /\ filters.hidden \/ ~HiddenPart(rel)
  /\ \A pattern \in filters.exclude : ~Matches(pattern, rel)
  /\ filters.include = {} \/ \E pattern \in filters.include : Matches(pattern, rel)

\* build_with_filters; leaving entries out numbers the others again, and the
\* order is as free as build's.
BuildWithFilters(tree, inputs, filters) ==
  SetToSeq({rel \in ToSet(Build(tree, inputs)) : Kept(filters, rel)})

\* Defect: the prefix of the inputs, computed once more.
SourceByPrefix(tree, inputs, rel) ==
  LongestCommonPrefix({inputs[k].at : k \in DOMAIN inputs}) \o rel

\* The file an entry stands for, as the send command finds it again.
SourceOf(tree, inputs, rel) == SourceRoot(tree, inputs) \o rel

=============================================================================
