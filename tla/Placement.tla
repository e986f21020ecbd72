----------------------------- MODULE Placement ------------------------------
(***************************************************************************)
(* From the sender's tree to the receiver's: what the user names becomes a *)
(* manifest (Manifest), and the parallel connections of every attempt find *)
(* a place for each of its files (Destinations) and write it there.  What  *)
(* is on the receiver's disk before is "old"; a file that is received is   *)
(* in part, then whole, and knows the entry it is of.                      *)
(*                                                                         *)
(* The bytes are FileTransfer's subject, the making and unmaking of        *)
(* connections ParallelSession's: here an attempt fails at any time.       *)
(***************************************************************************)
EXTENDS Destinations

CONSTANTS
  Sends,        \* what a user may send: [tree, inputs, filters]
  Outs,         \* what `--out` may be: [path, slash]
  Founds,       \* the files that may be on the receiver's disk, as sets
  Policies,     \* overwrite policies
  Parallel,     \* connections of an attempt
  MaxAttempts   \* bound: attempts

\* A tree is finite, and nothing lies below a link.
IsTree(tree) ==
  /\ IsFiniteSet(DOMAIN tree) /\ \A path \in DOMAIN tree : IsPath(path)
  /\ \A link \in {path \in DOMAIN tree : tree[path].kind = "link"} :
       /\ IsPath(tree[link].target)
       /\ \A path \in DOMAIN tree : IsPrefix(link, path) => path = link

AreInputs(inputs) ==
  /\ inputs \in Seq(ToSet(inputs))
  /\ \A k \in DOMAIN inputs : IsPath(inputs[k].at) /\ inputs[k].named \in BOOLEAN

\* The files of a disk: none is the receiver's own directory, none is where
\* another one has a parent.
AreFiles(files) ==
  /\ IsFiniteSet(files) /\ \A file \in files : IsPath(file) /\ file # <<>>
  /\ \A file, other \in files : \A dir \in Parents(other) : Place(file) # Place(dir)

ASSUME PlacementAssumption ==
  /\ Parallel \in Nat \ {0} /\ MaxAttempts \in Nat \ {0}
  /\ Policies \subseteq {"resume", "overwrite", "skip", "rename", "fail"}
  /\ \A s \in Sends : IsTree(s.tree) /\ AreInputs(s.inputs)
  /\ \A o \in Outs : IsPath(o.path) /\ o.slash \in BOOLEAN
  /\ \A files \in Founds : AreFiles(files)

VARIABLES
  send, out, policy,  \* the two command lines
  found,     \* the files that were on the receiver's disk at the start
  manifest,  \* NoManifest before it is built
  disk,      \* the receiver's
  conn,      \* each connection: its destinations, and the entries it has to write
  attempt,
  outcome    \* of the transfer

given == <<send, out, policy, found>>
vars == <<given, manifest, disk, conn, attempt, outcome>>

Conn == 0 .. Parallel - 1
Idle == [pc |-> "resolve", dests |-> <<>>, left |-> {}]

FirstDisk ==
  LET dirs == {<<>>} \cup UNION {{Place(dir) : dir \in Parents(path)} : path \in found}
  IN  [path \in {Place(file) : file \in found} \cup dirs |->
        [kind |-> IF path \in dirs THEN "dir" ELSE "old", of |-> 0]]

Init ==
  /\ send \in Sends /\ out \in Outs /\ policy \in Policies /\ found \in Founds
  /\ manifest = NoManifest
  /\ disk = FirstDisk
  /\ conn = [c \in Conn |-> Idle]
  /\ attempt = 1
  /\ outcome = "building"

\* The sender builds its manifest, the receiver checks it and agrees.
Builds ==
  /\ outcome = "building"
  /\ manifest' = BuildWithFilters(send.tree, send.inputs, send.filters)
  /\ outcome' = IF manifest' = NoManifest THEN "refused" ELSE "running"
  /\ UNCHANGED <<given, disk, conn, attempt>>

\* The entries of a connection.
Shard(c) == {k \in DOMAIN manifest : (k - 1) % Parallel = c}

\* An attempt that fails takes every connection with it.
Fails ==
  /\ conn' = [c \in Conn |-> Idle]
  /\ IF attempt < MaxAttempts
     THEN attempt' = attempt + 1 /\ UNCHANGED outcome
     ELSE outcome' = "failed" /\ UNCHANGED attempt
  /\ UNCHANGED <<given, manifest, disk>>

Conflict ==
  policy = "fail" /\ ExistingConflicts(disk, manifest, out.path, out.slash) > 0

CanResolve == ~Conflict /\ Resolvable(disk, manifest, out.path, out.slash)

\* Under `skip` what exists is left alone, under `resume` what is whole; both
\* are looked up once the directories are there.
Skipped(dests) ==
  LET made == WithDirs(disk, dests)
  IN  {k \in DOMAIN dests :
         /\ Exists(made, dests[k])
         /\ \/ policy = "skip"
            \/ policy # "overwrite" /\ made[Place(dests[k])] = [kind |-> "whole", of |-> k]}

\* A connection finds a place for every file of the manifest, and makes the
\* directories.
Resolves(c) ==
  /\ outcome = "running" /\ conn[c].pc = "resolve" /\ CanResolve
  /\ LET dests == Destinations(disk, manifest, out.path, out.slash, policy)
     IN  /\ conn' = [conn EXCEPT ![c] = [pc |-> "write", dests |-> dests,
                                         left |-> Shard(c) \ Skipped(dests)]]
         /\ disk' = WithDirs(disk, dests)
  /\ UNCHANGED <<given, manifest, attempt, outcome>>

ResolveFails(c) ==
  /\ outcome = "running" /\ conn[c].pc = "resolve" /\ ~CanResolve
  /\ Fails

Target(c) == Place(conn[c].dests[Min(conn[c].left)])

Puts(c, kind) ==
  disk' = [path \in DOMAIN disk \cup {Target(c)} |->
            IF path = Target(c) THEN [kind |-> kind, of |-> Min(conn[c].left)]
            ELSE disk[path]]

\* The next file is opened where it belongs: it is there, in part.
Opens(c) ==
  /\ outcome = "running" /\ conn[c].pc = "write" /\ conn[c].left # {}
  /\ Target(c) \in DOMAIN disk => disk[Target(c)].kind # "dir"
  /\ Puts(c, "part")
  /\ conn' = [conn EXCEPT ![c].pc = "open"]
  /\ UNCHANGED <<given, manifest, attempt, outcome>>

OpenFails(c) ==
  /\ outcome = "running" /\ conn[c].pc = "write" /\ conn[c].left # {}
  /\ Target(c) \in DOMAIN disk /\ disk[Target(c)].kind = "dir"
  /\ Fails

\* Its last byte is written and its hash agrees.
Verifies(c) ==
  /\ outcome = "running" /\ conn[c].pc = "open"
  /\ Puts(c, "whole")
  /\ conn' = [conn EXCEPT ![c].pc = "write", ![c].left = @ \ {Min(@)}]
  /\ UNCHANGED <<given, manifest, attempt, outcome>>

\* A connection is lost.
Cut ==
  /\ outcome = "running" /\ attempt < MaxAttempts
  /\ \E c \in Conn : conn[c].pc # "resolve"
  /\ Fails

\* Every connection has done its share.
Completes ==
  /\ outcome = "running"
  /\ \A c \in Conn : conn[c].pc = "write" /\ conn[c].left = {}
  /\ outcome' = "done"
  /\ UNCHANGED <<given, manifest, disk, conn, attempt>>

Ended == outcome \in {"refused", "failed", "done"} /\ UNCHANGED vars

Next ==
  \/ Builds \/ Cut \/ Completes \/ Ended
  \/ \E c \in Conn :
       Resolves(c) \/ ResolveFails(c) \/ Opens(c) \/ OpenFails(c) \/ Verifies(c)

Spec == Init /\ [][Next]_vars

-----------------------------------------------------------------------------
(* Properties.                                                             *)

Files(input) == Walk(send.tree, input.at)

\* The regular files below the inputs that the filters let pass.
Meant ==
  {path \in UNION {Files(send.inputs[k]) : k \in DOMAIN send.inputs} :
     Kept(send.filters, RelFrom(SourceRoot(send.tree, send.inputs), path))}

Built == outcome \in {"running", "failed", "done"}

\* The manifest and the send command's own reconstruction of the source paths
\* together name every file that is meant, each once, and no other.
SourcesAreMeant ==
  Built => /\ {SourceOf(send.tree, send.inputs, manifest[k]) : k \in DOMAIN manifest}
                = Meant
           /\ Len(manifest) = Cardinality(Meant)

\* What was on the disk stays as it was, except at a destination under the two
\* policies that replace files.
OldKept ==
  \A file \in found :
    \/ disk[Place(file)].kind = "old"
    \/ /\ policy \in {"resume", "overwrite"}
       /\ \E k \in DOMAIN manifest :
            Place(DestinationPaths(FirstDisk, manifest, out.path, out.slash)[k])
              = Place(file)

\* An entry of the manifest has the name of a numbered sibling of another one,
\* or one that the receiver takes for it.
SiblingNamed ==
  \E i, j \in DOMAIN manifest :
    /\ Place(Front(manifest[i])) = Place(Front(manifest[j]))
    /\ Len(Last(manifest[i])) > Len(Last(manifest[j]))

\* Every file has a name that no other one needs for a directory.
Coexisting ==
  \A i, j \in DOMAIN manifest :
    \A dir \in Parents(manifest[j]) : Place(manifest[i]) # Place(dir)

Whole(k) == [kind |-> "whole", of |-> k]

\* Where an entry is to be found.  Under `rename` it may be anywhere.
Arrived(k) ==
  LET place == Place(DestinationPaths(FirstDisk, manifest, out.path, out.slash)[k])
  IN  IF policy = "rename" THEN \E path \in DOMAIN disk : disk[path] = Whole(k)
      ELSE \/ place \in DOMAIN disk /\ disk[place] = Whole(k)
           \/ policy = "skip" /\ place \in DOMAIN FirstDisk

\* A transfer that reports success has put every file where the command line
\* said at the start, whatever the attempts before the last have left behind.
\* Left out are the name clashes that are reported below, and retries under
\* `skip`.
AllArrived ==
  /\ outcome = "done" /\ Coexisting
  /\ ~(policy = "rename" /\ SiblingNamed) /\ ~(policy = "skip" /\ attempt > 1)
  => \A k \in DOMAIN manifest : Arrived(k)

\* "case-insensitive collisions [...] abort the whole send": of a manifest that
\* is sent, a receiver that knows no case can have every file.
ClashesAbort == Built /\ CaseBlind => Coexisting

\* "every destination that already exists is remapped to the first unused
\* numbered sibling": unused by the other files of the transfer, too.
RenamedApart ==
  outcome = "done" /\ policy = "rename" => \A k \in DOMAIN manifest : Arrived(k)

\* "Hidden files and directories are excluded by default": no file of the
\* manifest is hidden below what the user named.
HiddenExcluded ==
  Built /\ ~send.filters.hidden =>
    \A rel \in {manifest[k] : k \in DOMAIN manifest} :
      \E i \in DOMAIN send.inputs :
        LET at == send.inputs[i].at
            path == SourceOf(send.tree, send.inputs, rel)
        IN  /\ IsPrefix(at, path)
            /\ \A n \in Len(at) + 1 .. Len(path) : Base(path[n]) \notin Hidden

=============================================================================
