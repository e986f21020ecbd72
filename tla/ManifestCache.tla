--------------------------- MODULE ManifestCache ----------------------------
(***************************************************************************)
(* The manifest cache, `.lanx/manifest-cache.json` in the directory a send *)
(* is started from, shared by every send started there, while the files    *)
(* that are sent may be edited.                                            *)
(*                                                                         *)
(* A file has a content and a stamp, its length and modification time.  A  *)
(* fingerprint is the stamps of the inputs; a manifest has their lengths   *)
(* and their chunk hashes, a hash being the chunk that was hashed.  Length *)
(* and chunks are read one after the other, and nothing is looked at       *)
(* again, so an entry may be put together from several contents.  Filters  *)
(* are Manifest's subject; here every send keeps all of its files.  Names  *)
(* lead to inodes: a writer that has opened the temporary file goes on     *)
(* writing to it after another one has renamed it, and a reader goes on    *)
(* reading a file that another one has replaced.                           *)
(***************************************************************************)
EXTENDS Naturals, Sequences, FiniteSets

CONSTANTS
  File, Send,   \* files, and the sends that may run at a time
  InputsOf,     \* send -> the files it is given
  Cell,         \* what files are made of
  ContentOf,    \* file -> the contents it may have
  ChunkSize,    \* cells per chunk
  MaxEdits,     \* bound: edits of the files
  MaxSends      \* bound: sends

ASSUME CacheAssumption ==
  /\ InputsOf \in [Send -> (SUBSET File) \ {{}}]
  /\ ContentOf \in [File -> SUBSET Seq(Cell)]
  /\ ChunkSize \in Nat \ {0}
  /\ MaxEdits \in Nat /\ MaxSends \in Nat

VARIABLES
  file,    \* each file's content and stamp
  had,     \* history: the stamps each file has had
  reused,  \* history: the files that got a stamp they had had before
  tmp, cache,  \* the inodes the two names lead to, 0 for none
  inode,   \* what the inodes hold
  send,    \* each send: where it is, and what it knows
  seen,    \* history: what each send's files were at any time while it ran
  edits, sends   \* how many there were

vars == <<file, had, reused, tmp, cache, inode, send, seen, edits, sends>>
disk == <<file, had, reused, edits>>
names == <<tmp, cache, inode>>

Empty == [is |-> "empty"]
Torn == [is |-> "torn"]
Cached(print, manifest) == [is |-> "cache", print |-> print, manifest |-> manifest]

Stamp(content, time) == [size |-> Len(content), time |-> time]

None == [f \in {} |-> 0]

\* A send at rest.  `open` is the file it hashes, if any, and `kept` what that
\* file was when another one replaced it; `handle` is the inode it writes.
Rest == [pc |-> "idle", print |-> None, manifest |-> None, open |-> {}, kept |-> {},
         handle |-> 0]

Init ==
  /\ \E first \in [File -> UNION {ContentOf[f] : f \in File}] :
       /\ \A f \in File : first[f] \in ContentOf[f]
       /\ file = [f \in File |-> [content |-> first[f], stamp |-> Stamp(first[f], 0)]]
  /\ had = [f \in File |-> {file[f].stamp}] /\ reused = {}
  /\ tmp = 0 /\ cache = 0 /\ inode = <<>>
  /\ send = [s \in Send |-> Rest]
  /\ seen = [s \in Send |-> [f \in File |-> {}]]
  /\ edits = 0 /\ sends = 0

With(known, f, value) ==
  [g \in DOMAIN known \cup {f} |-> IF g = f THEN value ELSE known[g]]

Goes(s, pc) == send' = [send EXCEPT ![s].pc = pc]

\* The send has its manifest.
Sent(s, manifest) ==
  send' = [send EXCEPT ![s] = [Rest EXCEPT !.pc = "sent", !.manifest = manifest,
                                           !.handle = send[s].handle]]

Active(s) == send[s].pc \notin {"idle", "sent"}

-----------------------------------------------------------------------------
(* build_with_filters_cached.                                              *)

Begins(s) ==
  /\ ~Active(s) /\ sends < MaxSends
  /\ send' = [send EXCEPT ![s] = [Rest EXCEPT !.pc = "print"]]
  /\ seen' = [seen EXCEPT ![s] = [f \in File |-> {file[f].content}]]
  /\ sends' = sends + 1
  /\ UNCHANGED <<disk, names>>

\* input_fingerprint looks at one file after the other.
Prints(s, f) ==
  /\ send[s].pc = "print" /\ f \in InputsOf[s] \ DOMAIN send[s].print
  /\ send' = [send EXCEPT ![s].print = With(@, f, file[f].stamp)]
  /\ UNCHANGED <<disk, names, seen, sends>>

\* The cache is read; it is taken when it decodes and its fingerprint agrees.
Hit(s) ==
  /\ cache # 0 /\ inode[cache].is = "cache"
  /\ inode[cache].print = send[s].print

Loads(s) ==
  /\ send[s].pc = "print" /\ DOMAIN send[s].print = InputsOf[s]
  /\ IF Hit(s)
     THEN Sent(s, inode[cache].manifest)
     ELSE Goes(s, "build")
  /\ UNCHANGED <<disk, names, seen, sends>>

\* build asks for the length of the next file; an empty one has no chunks.
Looks(s, f) ==
  /\ send[s].pc = "build" /\ send[s].open = {}
  /\ f \in InputsOf[s] \ DOMAIN send[s].manifest
  /\ LET size == Len(file[f].content)
     IN  send' = [send EXCEPT ![s].manifest = With(@, f, [size |-> size, hashes |-> <<>>]),
                              ![s].open = IF size = 0 THEN {} ELSE {f}]
  /\ UNCHANGED <<disk, names, seen, sends>>

\* The chunk after the first n ones, empty at the end.
ChunkAt(content, n) ==
  LET from == n * ChunkSize
  IN  SubSeq(content, from + 1,
             IF from + ChunkSize <= Len(content) THEN from + ChunkSize ELSE Len(content))

\* What a send reads the file it has open from.
Under(s, f) == IF send[s].kept = {} THEN {file[f].content} ELSE send[s].kept

\* chunk_hashes: one read, until one is short.  The file is opened with the first.
Hashes(s, f) ==
  /\ send[s].pc = "build" /\ f \in send[s].open
  /\ \E content \in Under(s, f) :
       LET entry == send[s].manifest[f]
           chunk == ChunkAt(content, Len(entry.hashes))
           more  == IF chunk = <<>> THEN entry
                    ELSE [entry EXCEPT !.hashes = Append(@, chunk)]
           short == Len(chunk) < ChunkSize
       IN  send' = [send EXCEPT ![s].manifest = With(@, f, more),
                                ![s].open = IF short THEN {} ELSE @,
                                ![s].kept = IF short THEN {} ELSE @]
  /\ UNCHANGED <<disk, names, seen, sends>>

\* Defect: the fingerprint is taken after the build.
LateEntry(s) == Cached([f \in InputsOf[s] |-> file[f].stamp], send[s].manifest)

\* The fingerprint that is stored is the one taken before the build.
Entry(s) == Cached(send[s].print, send[s].manifest)

\* The temporary file is opened and truncated, and written; all sends use the
\* same name.
Creates(s) ==
  /\ send[s].pc = "build" /\ send[s].open = {}
  /\ DOMAIN send[s].manifest = InputsOf[s]
  /\ IF tmp = 0 THEN inode' = Append(inode, Empty) /\ tmp' = Len(inode')
     ELSE inode' = [inode EXCEPT ![tmp] = Empty] /\ UNCHANGED tmp
  /\ send' = [send EXCEPT ![s].pc = "write", ![s].handle = tmp']
  /\ UNCHANGED <<disk, cache, seen, sends>>

\* One write from the start of the file: the end of a longer one stays.
Writes(s) ==
  /\ send[s].pc = "write"
  /\ \/ inode' = [inode EXCEPT ![send[s].handle] = Entry(s)]
     \/ /\ inode[send[s].handle] \notin {Empty, Entry(s)}
        /\ inode' = [inode EXCEPT ![send[s].handle] = Torn]
  /\ Goes(s, "rename")
  /\ UNCHANGED <<disk, tmp, cache, seen, sends>>

\* The rename fails where another send's has already moved the file.
Renames(s) ==
  /\ send[s].pc = "rename"
  /\ IF tmp = 0 THEN UNCHANGED cache ELSE cache' = tmp
  /\ tmp' = 0
  /\ Sent(s, send[s].manifest)
  /\ UNCHANGED <<disk, inode, seen, sends>>

\* A send may be killed, or end with an error, anywhere.
Killed(s) ==
  /\ Active(s)
  /\ send' = [send EXCEPT ![s] = Rest]
  /\ seen' = [seen EXCEPT ![s] = [f \in File |-> {}]]
  /\ UNCHANGED <<disk, names, sends>>

-----------------------------------------------------------------------------
(* The files.                                                              *)

\* A send goes on reading a file that is replaced.
Keeps(s, f) ==
  f \in send[s].open /\ send[s].kept = {} /\ send[s].manifest[f].hashes # <<>>

\* A file is edited in place, or another one takes its name.  Its stamp is a new
\* one, or one of that length which the file had before, its last one included: an
\* edit may come within one tick of the clock, and times can be set.
Edits(f) ==
  /\ edits < MaxEdits /\ edits' = edits + 1
  /\ \E content \in ContentOf[f] \ {file[f].content}, replaced \in BOOLEAN :
     \E stamp \in {Stamp(content, edits')} \cup {old \in had[f] : old.size = Len(content)} :
       /\ file' = [file EXCEPT ![f] = [content |-> content, stamp |-> stamp]]
       /\ had' = [had EXCEPT ![f] = @ \cup {stamp}]
       /\ reused' = IF stamp \in had[f] THEN reused \cup {f} ELSE reused
       /\ seen' = [s \in Send |->
                    IF Active(s) THEN [seen[s] EXCEPT ![f] = @ \cup {content}] ELSE seen[s]]
       /\ send' = [s \in Send |->
                    IF replaced /\ Keeps(s, f)
                    THEN [send[s] EXCEPT !.kept = {file[f].content}] ELSE send[s]]
  /\ UNCHANGED <<names, sends>>

-----------------------------------------------------------------------------
\* The last send is over.
Ended ==
  /\ sends = MaxSends /\ \A s \in Send : ~Active(s)
  /\ UNCHANGED vars

Next ==
  \/ \E s \in Send :
       \/ Begins(s) \/ Loads(s) \/ Creates(s) \/ Writes(s) \/ Renames(s) \/ Killed(s)
       \/ \E f \in File : Prints(s, f) \/ Looks(s, f) \/ Hashes(s, f)
  \/ \E f \in File : Edits(f)
  \/ Ended

Spec == Init /\ [][Next]_vars

-----------------------------------------------------------------------------
(* Properties.                                                             *)

\* Length and hashes of an entry are each of one of these contents.
Parts(entry, contents) ==
  /\ \E content \in contents : entry.size = Len(content)
  /\ \A k \in DOMAIN entry.hashes :
       \E content \in contents : entry.hashes[k] = ChunkAt(content, k - 1)

\* One of them ends where the entry's hashes do.
Ends(entry, contents) ==
  \E content \in contents : ChunkAt(content, Len(entry.hashes)) = <<>>

Fresh(s, f) ==
  /\ Parts(send[s].manifest[f], seen[s][f])
  /\ Ends(send[s].manifest[f], seen[s][f])

\* The manifest of a send that is over was built by it, not taken from the cache.
IsBuilt(s) == send[s].handle # 0

\* Nothing in the manifest of a send is older than the send: it is about the files
\* the send was given, and each length, each hash and each end is of what the file
\* was at some time between the send's start and its manifest, whether it has hashed
\* the file itself, next to edits, or taken another send's manifest from the cache.
\* A cached manifest may be older where a file got a stamp it had had before.
ManifestIsFresh ==
  \A s \in Send : send[s].pc = "sent" =>
    /\ DOMAIN send[s].manifest = InputsOf[s]
    /\ \A f \in InputsOf[s] : IsBuilt(s) \/ f \notin reused => Fresh(s, f)

\* "... stale ... cache data falls back to a normal build", whatever is done to
\* the files.
StaleFallsBack ==
  \A s \in Send : send[s].pc = "sent" => \A f \in InputsOf[s] : Fresh(s, f)

\* The manifest describes each file as it was at one time.
OneContent ==
  \A s \in Send : send[s].pc = "sent" => \A f \in InputsOf[s] :
    \E content \in ContentOf[f] :
      /\ Parts(send[s].manifest[f], {content})
      /\ Ends(send[s].manifest[f], {content})

=============================================================================
