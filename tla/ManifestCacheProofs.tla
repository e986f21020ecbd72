------------------------ MODULE ManifestCacheProofs -------------------------
(***************************************************************************)
(* ManifestIsFresh, for any files, sends, contents and chunk size.  What   *)
(* carries it is Tells: a stamp that still agrees with a file, or with     *)
(* what a send has just looked at, vouches for the entry stored with it.   *)
(***************************************************************************)
EXTENDS ManifestCache, SequenceTheorems, TLAPS

-----------------------------------------------------------------------------
(* The inductive invariant.                                                *)

Partial(S) == UNION {[D -> S] : D \in SUBSET File}

Data == Seq(Cell)
StampType == [size : Nat, time : Nat]
Node == [content : Data, stamp : StampType]
EntryType == [size : Nat, hashes : Seq(Data)]
Pc == {"idle", "print", "build", "write", "rename", "sent"}

InodeType ==
  {Empty, Torn}
    \cup [is : {"cache"}, print : Partial(StampType), manifest : Partial(EntryType)]

SendType ==
  [pc : Pc, print : Partial(StampType), manifest : Partial(EntryType),
   open : SUBSET File, kept : SUBSET Data, handle : Nat]

Types ==
  /\ file \in [File -> Node] /\ had \in [File -> SUBSET StampType]
  /\ reused \subseteq File
  /\ inode \in Seq(InodeType)
  /\ tmp \in 0 .. Len(inode) /\ cache \in 0 .. Len(inode)
  /\ send \in [Send -> SendType]
  /\ seen \in [Send -> [File -> SUBSET Data]]
  /\ edits \in Nat /\ sends \in Nat

\* The stamp a file has is one that it has had.
Stamps == \A f \in File : file[f].stamp \in had[f]

\* A send has seen its files as they are now.
Present == \A s \in Send : Active(s) => \A f \in File : file[f].content \in seen[s][f]

\* An entry, as far as it is built, is put together from these contents.
Describes(entry, contents, f, open) ==
  Parts(entry, contents) /\ (f \in open \/ Ends(entry, contents))

Agrees(s, f, stamp) ==
  send[s].pc = "print" /\ f \in DOMAIN send[s].print /\ send[s].print[f] = stamp

\* What a file was while those that look at it find this stamp: what a send that
\* is taking its fingerprint has seen, and what the file is now.
Witnesses(f, stamp) ==
  {seen[s][f] : s \in {t \in Send : Agrees(t, f, stamp)}}
    \cup {contents \in {{file[f].content}} : file[f].stamp = stamp}

\* The files a fingerprint and a manifest both have, and no stamp came back to.
Common(print, manifest) == (DOMAIN print \cap DOMAIN manifest) \ reused

\* A stamp that agrees vouches for the entry stored with it.
Tells(print, manifest, open) ==
  \A f \in Common(print, manifest) :
    /\ print[f] \in had[f]
    /\ \A contents \in Witnesses(f, print[f]) : Describes(manifest[f], contents, f, open)

InodesTell ==
  \A i \in DOMAIN inode : inode[i].is = "cache" =>
    /\ DOMAIN inode[i].print = DOMAIN inode[i].manifest
    /\ Tells(inode[i].print, inode[i].manifest, {})

\* Which files a send knows by now, which one it has open, and where it writes.
Progress(s) ==
  LET me == send[s] IN
  /\ Active(s) =>
       DOMAIN me.print \subseteq InputsOf[s] /\ DOMAIN me.manifest \subseteq InputsOf[s]
  /\ me.pc = "print" => me.manifest = None
  /\ me.pc \in {"build", "write", "rename"} => DOMAIN me.print = InputsOf[s]
  /\ me.pc \in {"write", "rename", "sent"} => DOMAIN me.manifest = InputsOf[s]
  /\ me.pc # "build" => me.open = {}
  /\ me.open = {} => me.kept = {}
  /\ me.open \subseteq DOMAIN me.manifest /\ \A f, g \in me.open : f = g
  /\ me.pc \in {"print", "build"} => me.handle = 0
  /\ me.pc \in {"write", "rename"} => me.handle \in 1 .. Len(inode)

\* Its fingerprint is of stamps there were.
PrintHad(s) == \A f \in DOMAIN send[s].print : send[s].print[f] \in had[f]

\* What it reads next is what it has seen, and what its stamp vouches for.
Reads(s) ==
  \A f \in send[s].open :
    /\ Under(s, f) \subseteq seen[s][f]
    /\ f \notin reused =>
         \A contents \in Witnesses(f, send[s].print[f]) : Under(s, f) \subseteq contents

\* Its manifest is put together from what it has seen.
Built(s) ==
  send[s].pc \in {"build", "write", "rename", "sent"} =>
    \A f \in DOMAIN send[s].manifest :
      send[s].pc # "sent" \/ IsBuilt(s) \/ f \notin reused =>
        Describes(send[s].manifest[f], seen[s][f], f, send[s].open)

Knowledge(s) ==
  /\ PrintHad(s) /\ Reads(s) /\ Built(s)
  /\ Active(s) => Tells(send[s].print, send[s].manifest, send[s].open)

IInv ==
  /\ Types /\ Stamps /\ Present /\ InodesTell
  /\ \A s \in Send : Progress(s) /\ Knowledge(s)

-----------------------------------------------------------------------------
(* Chunks and entries.                                                     *)

\* A chunk is cut out of the content, and nothing follows a short one.
LEMMA Chunks ==
  ASSUME NEW content \in Data, NEW n \in Nat
  PROVE  /\ ChunkAt(content, n) \in Data
         /\ Len(ChunkAt(content, n)) < ChunkSize => ChunkAt(content, n + 1) = <<>>
<1> DEFINE from == n * ChunkSize
           to(k) == IF k + ChunkSize <= Len(content) THEN k + ChunkSize ELSE Len(content)
<1>1. ChunkSize \in Nat \ {0} /\ Len(content) \in Nat
  BY CacheAssumption DEF Data
<1>2. from \in Nat /\ (n + 1) * ChunkSize = from + ChunkSize
  BY <1>1
<1>3. ChunkAt(content, n) = SubSeq(content, from + 1, to(from))
        /\ ChunkAt(content, n + 1) = SubSeq(content, from + ChunkSize + 1, to(from + ChunkSize))
  BY <1>2 DEF ChunkAt
<1> HIDE DEF from
<1>4. to(from) \in 0 .. Len(content) /\ to(from + ChunkSize) \in 0 .. Len(content)
  BY <1>1, <1>2
<1>5. ChunkAt(content, n) \in Data
  <2>1. \A i \in from + 1 .. to(from) : content[i] \in Cell
    BY <1>1, <1>2, <1>4 DEF Data
  <2> QED BY <1>1, <1>2, <1>3, <1>4, <2>1, SubSeqProperties DEF Data
<1>6. ASSUME Len(ChunkAt(content, n)) < ChunkSize
      PROVE  ChunkAt(content, n + 1) = <<>>
  <2>1. from + ChunkSize > Len(content)
    <3>1. SUFFICES ASSUME from + ChunkSize <= Len(content) PROVE FALSE
      BY <1>1, <1>2
    <3>2. to(from) = from + ChunkSize
      BY <3>1
    <3>3. Len(SubSeq(content, from + 1, from + ChunkSize)) = ChunkSize
      BY <1>1, <1>2, <3>1, SubSeqProperties DEF Data
    <3>4. ChunkAt(content, n) = SubSeq(content, from + 1, from + ChunkSize)
      BY <1>3, <3>2
    <3>5. ChunkSize < ChunkSize
      BY <1>6, <3>3, <3>4, Zenon
    <3> QED BY <1>1, <3>5
  <2>2. to(from + ChunkSize) < from + ChunkSize + 1
    BY <1>1, <1>2, <2>1
  <2>3. ChunkAt(content, n + 1) \in Seq(Cell) /\ Len(ChunkAt(content, n + 1)) = 0
    BY <1>1, <1>2, <1>3, <1>4, <2>2, SubSeqProperties DEF Data
  <2> QED BY <2>3, EmptySeq
<1> QED BY <1>5, <1>6

\* What is put together from some contents is so from more of them.
LEMMA Monotone ==
  ASSUME NEW entry, NEW f, NEW open, NEW fewer, NEW contents,
         Describes(entry, fewer, f, open), fewer \subseteq contents
  PROVE  Describes(entry, contents, f, open)
BY DEF Describes, Parts, Ends

\* A length has been looked up (manifest.rs:736).
LEMMA Looked ==
  ASSUME NEW content \in Data, NEW f, NEW open, Len(content) # 0 => f \in open,
         NEW contents, content \in contents
  PROVE  Describes([size |-> Len(content), hashes |-> <<>>], contents, f, open)
<1> DEFINE entry == [size |-> Len(content), hashes |-> <<>>]
<1>1. entry.size = Len(content) /\ entry.hashes = <<>> /\ DOMAIN entry.hashes = {}
  OBVIOUS
<1>2. ASSUME Len(content) = 0 PROVE ChunkAt(content, 0) = <<>>
  <2>1. content = <<>>
    BY <1>2 DEF Data
  <2>2. ChunkSize \in Nat \ {0}
    BY CacheAssumption
  <2>3. ChunkAt(<<>>, 0) = SubSeq(<<>>, 1, 0)
    <3>1. 0 * ChunkSize = 0 /\ ~(0 + ChunkSize <= Len(<<>>)) /\ Len(<<>>) = 0
      BY <2>2
    <3> QED BY <3>1 DEF ChunkAt
  <2> QED BY <2>1, <2>3
<1>3. Len(entry.hashes) = 0
  BY <1>1
<1> HIDE DEF entry
<1>4. Describes(entry, contents, f, open)
  BY <1>1, <1>2, <1>3 DEF Describes, Parts, Ends
<1> QED BY <1>4 DEF entry

\* A chunk of one of the contents has been hashed, the last one if it is short.
LEMMA Hashed ==
  ASSUME NEW entry \in EntryType, NEW f, NEW open, NEW contents,
         NEW content \in contents, content \in Data, Describes(entry, contents, f, open)
  PROVE  LET chunk == ChunkAt(content, Len(entry.hashes))
             more  == IF chunk = <<>> THEN entry
                      ELSE [entry EXCEPT !.hashes = Append(@, chunk)]
         IN  /\ more \in EntryType
             /\ Describes(more, contents, f,
                          IF Len(chunk) < ChunkSize THEN {} ELSE open \cup {f})
<1> DEFINE n == Len(entry.hashes)
           chunk == ChunkAt(content, n)
           more == IF chunk = <<>> THEN entry
                   ELSE [entry EXCEPT !.hashes = Append(@, chunk)]
<1>1. n \in Nat /\ entry.hashes \in Seq(Data) /\ DOMAIN entry.hashes = 1 .. n
  BY DEF EntryType
<1>2. chunk \in Data /\ (Len(chunk) < ChunkSize => ChunkAt(content, n + 1) = <<>>)
  BY <1>1, Chunks
<1>3. Parts(entry, contents)
  BY DEF Describes
<1>4. CASE chunk = <<>>
  BY <1>3, <1>4 DEF Describes, Ends
<1>5. CASE chunk # <<>>
  <2>1. more = [entry EXCEPT !.hashes = Append(entry.hashes, chunk)]
    BY <1>5
  <2>2. /\ more.size = entry.size /\ more.hashes = Append(entry.hashes, chunk)
        /\ more \in EntryType
    <3>1. Append(entry.hashes, chunk) \in Seq(Data)
      BY <1>1, <1>2
    <3> HIDE DEF chunk, more
    <3> QED BY <2>1, <3>1 DEF EntryType
  <2> HIDE DEF chunk, more
  <2>3. /\ Len(more.hashes) = n + 1 /\ DOMAIN more.hashes = 1 .. n + 1
        /\ more.hashes[n + 1] = chunk
        /\ \A k \in 1 .. n : more.hashes[k] = entry.hashes[k]
    BY <1>1, <1>2, <2>2
  <2>4. Parts(more, contents)
    <3>1. ASSUME NEW k \in 1 .. n + 1
          PROVE  \E c \in contents : more.hashes[k] = ChunkAt(c, k - 1)
      <4>1. CASE k = n + 1
        BY <1>1, <2>3, <4>1 DEF chunk
      <4>2. CASE k \in 1 .. n
        BY <1>1, <1>3, <2>3, <4>2 DEF Parts
      <4> QED BY <1>1, <4>1, <4>2
    <3> QED BY <1>3, <2>2, <2>3, <3>1 DEF Parts
  <2>5. Len(chunk) < ChunkSize => Ends(more, contents)
    BY <1>2, <2>3 DEF Ends
  <2>6. Describes(more, contents, f, IF Len(chunk) < ChunkSize THEN {} ELSE open \cup {f})
    BY <2>4, <2>5 DEF Describes
  <2> QED BY <2>2, <2>6 DEF chunk, more
<1> QED BY <1>4, <1>5

-----------------------------------------------------------------------------
(* Partial functions.                                                      *)

LEMMA NoneIsPartial == \A S : None \in Partial(S) /\ DOMAIN None = {}
BY DEF None, Partial

\* A value is set.
LEMMA OneMore ==
  ASSUME NEW S, NEW known \in Partial(S), NEW f \in File, NEW value \in S
  PROVE  With(known, f, value) \in Partial(S)
<1> DEFINE D == DOMAIN known \cup {f}
           new == With(known, f, value)
<1>1. PICK E \in SUBSET File : known \in [E -> S]
  BY DEF Partial
<1>2. D \in SUBSET File /\ new \in [D -> S]
  BY <1>1 DEF With
<1> QED BY <1>2 DEF Partial

-----------------------------------------------------------------------------
(* What every step does to the files, to the sends, and to the witnesses.  *)

\* The actions of a send.
Sends(s) ==
  \/ Begins(s) \/ Loads(s) \/ Creates(s) \/ Writes(s) \/ Renames(s) \/ Killed(s)
  \/ \E f \in File : Prints(s, f) \/ Looks(s, f) \/ Hashes(s, f)

\* A send leaves the files alone, and the other sends.
LEMMA Frame ==
  ASSUME IInv, NEW t \in Send, Sends(t)
  PROVE  /\ UNCHANGED <<file, had, reused, edits>>
         /\ \A s \in Send \ {t} : send'[s] = send[s] /\ seen'[s] = seen[s]
<1>1. UNCHANGED <<file, had, reused, edits>>
  BY DEF Sends, Begins, Loads, Creates, Writes, Renames, Killed, Prints, Looks, Hashes, disk
<1>2. send \in [Send -> SendType] /\ seen \in [Send -> [File -> SUBSET Data]]
  BY DEF IInv, Types
<1>3. \A s \in Send \ {t} : send'[s] = send[s]
  BY <1>2 DEF Sends, Begins, Loads, Creates, Writes, Renames, Killed, Prints, Looks, Hashes,
              Goes, Sent
<1>4. \A s \in Send \ {t} : seen'[s] = seen[s]
  BY <1>2 DEF Sends, Begins, Loads, Creates, Writes, Renames, Killed, Prints, Looks, Hashes
<1> QED BY <1>1, <1>3, <1>4

\* What an edit does: the file gets a stamp it has not had, or one comes back to
\* it; its old content is kept by those that read a file that is replaced.
LEMMA EditFrame ==
  ASSUME IInv, NEW f \in File, Edits(f)
  PROVE  \E content \in Data, stamp \in StampType :
           /\ file' = [file EXCEPT ![f] = [content |-> content, stamp |-> stamp]]
           /\ had' = [had EXCEPT ![f] = @ \cup {stamp}]
           /\ reused \subseteq reused' /\ reused' \subseteq reused \cup {f}
           /\ stamp \in had[f] => f \in reused'
           /\ seen' = [s \in Send |->
                        IF Active(s) THEN [seen[s] EXCEPT ![f] = @ \cup {content}]
                        ELSE seen[s]]
           /\ edits' = edits + 1
           /\ UNCHANGED <<tmp, cache, inode, sends>>
<1>1. PICK content \in ContentOf[f] \ {file[f].content}, replaced \in BOOLEAN :
      \E stamp \in {Stamp(content, edits')} \cup {old \in had[f] : old.size = Len(content)} :
        /\ file' = [file EXCEPT ![f] = [content |-> content, stamp |-> stamp]]
        /\ had' = [had EXCEPT ![f] = @ \cup {stamp}]
        /\ reused' = IF stamp \in had[f] THEN reused \cup {f} ELSE reused
        /\ seen' = [s \in Send |->
                     IF Active(s) THEN [seen[s] EXCEPT ![f] = @ \cup {content}] ELSE seen[s]]
  BY DEF Edits
<1>2. PICK stamp \in {Stamp(content, edits')} \cup {old \in had[f] : old.size = Len(content)} :
        /\ file' = [file EXCEPT ![f] = [content |-> content, stamp |-> stamp]]
        /\ had' = [had EXCEPT ![f] = @ \cup {stamp}]
        /\ reused' = IF stamp \in had[f] THEN reused \cup {f} ELSE reused
        /\ seen' = [s \in Send |->
                     IF Active(s) THEN [seen[s] EXCEPT ![f] = @ \cup {content}] ELSE seen[s]]
  BY <1>1
<1>3. content \in Data
  BY CacheAssumption DEF Data
<1>4. edits' = edits + 1 /\ edits \in Nat /\ UNCHANGED <<tmp, cache, inode, sends>>
  BY DEF Edits, names, IInv, Types
<1>5. stamp \in StampType
  <2>1. Len(content) \in Nat
    BY <1>3 DEF Data
  <2>2. had[f] \subseteq StampType
    BY DEF IInv, Types
  <2>3. Stamp(content, edits') \in StampType
    BY <1>4, <2>1 DEF Stamp, StampType
  <2> QED BY <2>2, <2>3
<1> QED BY <1>2, <1>3, <1>4, <1>5

\* What an edit does to a send: it may keep the old content of the file it reads.
LEMMA EditSends ==
  ASSUME IInv, NEW f \in File, Edits(f), NEW s \in Send
  PROVE  /\ send'[s] \in SendType
         /\ send'[s].pc = send[s].pc /\ send'[s].print = send[s].print
         /\ send'[s].manifest = send[s].manifest /\ send'[s].open = send[s].open
         /\ send'[s].handle = send[s].handle
         /\ \/ send'[s].kept = send[s].kept
            \/ /\ send'[s].kept = {file[f].content}
               /\ f \in send[s].open /\ send[s].kept = {}
<1>1. PICK replaced \in BOOLEAN :
        send' = [t \in Send |-> IF replaced /\ Keeps(t, f)
                                THEN [send[t] EXCEPT !.kept = {file[f].content}] ELSE send[t]]
  BY DEF Edits
<1>2. send[s] \in SendType /\ file[f].content \in Data
  BY DEF IInv, Types, Node
<1>3. CASE replaced /\ Keeps(s, f)
  <2>1. send'[s] = [send[s] EXCEPT !.kept = {file[f].content}]
    BY <1>1, <1>3
  <2> QED BY <1>2, <1>3, <2>1 DEF SendType, Keeps
<1>4. CASE ~(replaced /\ Keeps(s, f))
  BY <1>1, <1>2, <1>4
<1> QED BY <1>3, <1>4

\* An edit may take a witness away; what the others saw, they have still seen.
LEMMA WitnessesThroughEdits ==
  ASSUME IInv, NEW g \in File, Edits(g), NEW f \in File, f \notin reused',
         NEW stamp \in had[f], NEW contents \in Witnesses(f, stamp)'
  PROVE  \E fewer \in Witnesses(f, stamp) : fewer \subseteq contents
<1>1. PICK content \in Data, new \in StampType :
        /\ file' = [file EXCEPT ![g] = [content |-> content, stamp |-> new]]
        /\ reused \subseteq reused' /\ (new \in had[g] => g \in reused')
        /\ seen' = [s \in Send |->
                     IF Active(s) THEN [seen[s] EXCEPT ![g] = @ \cup {content}] ELSE seen[s]]
  BY EditFrame
<1>2. CASE \E s \in Send : Agrees(s, f, stamp)' /\ contents = seen'[s][f]
  <2>1. PICK s \in Send : Agrees(s, f, stamp)' /\ contents = seen'[s][f]
    BY <1>2
  <2>2. Agrees(s, f, stamp)
    BY <2>1, EditSends DEF Agrees
  <2>3. seen[s][f] \subseteq seen'[s][f]
    BY <1>1 DEF IInv, Types
  <2> QED BY <2>1, <2>2, <2>3 DEF Witnesses
<1>3. CASE contents = {file'[f].content} /\ file'[f].stamp = stamp
  <2>1. f # g
    BY <1>1, <1>3 DEF IInv, Types
  <2>2. file'[f] = file[f]
    BY <1>1, <2>1 DEF IInv, Types
  <2> QED BY <1>3, <2>2 DEF Witnesses
<1> QED BY <1>2, <1>3 DEF Witnesses

\* A send that looks at a file finds what the file is now.
LEMMA WitnessesThroughSends ==
  ASSUME IInv, NEW t \in Send, Sends(t), NEW f \in File, NEW stamp,
         NEW contents \in Witnesses(f, stamp)'
  PROVE  \E fewer \in Witnesses(f, stamp) : fewer \subseteq contents
<1>1. file' = file /\ \A s \in Send \ {t} : send'[s] = send[s] /\ seen'[s] = seen[s]
  BY Frame
<1>2. send \in [Send -> SendType] /\ seen \in [Send -> [File -> SUBSET Data]]
  BY DEF IInv, Types
<1>3. CASE contents = {file'[f].content} /\ file'[f].stamp = stamp
  BY <1>1, <1>3 DEF Witnesses
<1>4. CASE \E s \in Send \ {t} : Agrees(s, f, stamp)' /\ contents = seen'[s][f]
  BY <1>1, <1>4 DEF Witnesses, Agrees
<1>5. CASE Agrees(t, f, stamp)' /\ contents = seen'[t][f]
  <2>1. CASE Begins(t)
    <3>1. send'[t].print = None
      BY <1>2, <2>1 DEF Begins, Rest
    <3> QED BY <1>5, <3>1, NoneIsPartial DEF Agrees
  <2>2. CASE \E g \in File : Prints(t, g)
    <3>1. PICK g \in File : Prints(t, g)
      BY <2>2
    <3>2. seen' = seen /\ send[t].pc = "print"
            /\ send'[t].print = With(send[t].print, g, file[g].stamp)
      BY <1>2, <3>1 DEF Prints
    <3>3. /\ DOMAIN send'[t].print = DOMAIN send[t].print \cup {g}
          /\ send'[t].print[g] = file[g].stamp
          /\ \A h \in DOMAIN send[t].print \ {g} : send'[t].print[h] = send[t].print[h]
      <4> DEFINE new == With(send[t].print, g, file[g].stamp)
      <4>1. /\ DOMAIN new = DOMAIN send[t].print \cup {g} /\ new[g] = file[g].stamp
            /\ \A h \in DOMAIN send[t].print \ {g} : new[h] = send[t].print[h]
        BY DEF With
      <4> HIDE DEF new
      <4>2. send'[t].print = new
        BY <3>2 DEF new
      <4> QED BY <4>1, <4>2
    <3>4. CASE f = g
      <4>1. file[f].stamp = stamp /\ {file[f].content} \in Witnesses(f, stamp)
        BY <1>5, <3>3, <3>4 DEF Agrees, Witnesses
      <4>2. file[f].content \in contents
        BY <1>5, <3>2 DEF IInv, Present, Active
      <4> QED BY <4>1, <4>2
    <3>5. CASE f # g
      <4>1. Agrees(t, f, stamp)
        BY <1>5, <3>2, <3>3, <3>5 DEF Agrees
      <4> QED BY <1>5, <3>2, <4>1 DEF Witnesses
    <3> QED BY <3>4, <3>5
  <2>3. CASE ~Begins(t) /\ ~(\E g \in File : Prints(t, g)) /\ ~Killed(t)
    <3>1. seen' = seen
      BY <2>3 DEF Sends, Loads, Creates, Writes, Renames, Looks, Hashes
    <3>2. send'[t].pc # "print"
      <4>1. send[t] \in SendType
        BY <1>2
      <4>2. CASE Loads(t)
        BY <1>2, <4>1, <4>2 DEF Loads, Goes, Sent, Rest, SendType
      <4>3. CASE Creates(t) \/ Writes(t) \/ Renames(t)
        <5>1. Creates(t) => send'[t].pc = "write"
          BY <1>2, <4>1 DEF Creates, SendType
        <5>2. Writes(t) => send'[t].pc = "rename"
          BY <1>2, <4>1 DEF Writes, Goes, SendType
        <5>3. Renames(t) => send'[t].pc = "sent"
          BY <1>2, <4>1 DEF Renames, Sent, Rest
        <5> QED BY <4>3, <5>1, <5>2, <5>3
      <4>4. CASE \E g \in File : Looks(t, g)
        BY <1>2, <4>1, <4>4 DEF Looks, SendType
      <4>5. CASE \E g \in File : Hashes(t, g)
        BY <1>2, <4>1, <4>5 DEF Hashes, SendType
      <4> QED BY <2>3, <4>2, <4>3, <4>4, <4>5 DEF Sends
    <3> QED BY <1>5, <3>2 DEF Agrees
  <2>4. CASE Killed(t)
    <3>1. send'[t].pc # "print"
      BY <1>2, <2>4 DEF Killed, Rest
    <3> QED BY <1>5, <3>1 DEF Agrees
  <2> QED BY <2>1, <2>2, <2>3, <2>4
<1> QED BY <1>3, <1>4, <1>5 DEF Witnesses

-----------------------------------------------------------------------------
(* Every step keeps what a stamp tells.                                    *)

LEMMA TellsThroughEdits ==
  ASSUME IInv, NEW g \in File, Edits(g), NEW print \in Partial(StampType),
         NEW manifest, NEW open, Tells(print, manifest, open)
  PROVE  Tells(print, manifest, open)'
<1>1. reused \subseteq reused' /\ \A f \in File : had[f] \subseteq had'[f]
  BY EditFrame DEF IInv, Types
<1> SUFFICES ASSUME NEW f \in Common(print, manifest)'
             PROVE  /\ print[f] \in had'[f]
                    /\ \A contents \in Witnesses(f, print[f])' :
                         Describes(manifest[f], contents, f, open)
  BY DEF Tells, Describes, Parts, Ends
<1>2. f \in File /\ f \notin reused' /\ f \in Common(print, manifest)
  BY <1>1 DEF Common, Partial
<1>3. print[f] \in had[f]
  BY <1>2 DEF Tells
<1>4. ASSUME NEW contents \in Witnesses(f, print[f])'
      PROVE  Describes(manifest[f], contents, f, open)
  <2>1. PICK fewer \in Witnesses(f, print[f]) : fewer \subseteq contents
    BY <1>2, <1>3, WitnessesThroughEdits
  <2>2. Describes(manifest[f], fewer, f, open)
    BY <1>2 DEF Tells
  <2> QED BY <2>1, <2>2, Monotone
<1> QED BY <1>1, <1>2, <1>3, <1>4

LEMMA TellsThroughSends ==
  ASSUME IInv, NEW t \in Send, Sends(t), NEW print \in Partial(StampType),
         NEW manifest, NEW open, Tells(print, manifest, open)
  PROVE  Tells(print, manifest, open)'
<1>1. UNCHANGED <<had, reused>>
  BY Frame
<1> SUFFICES ASSUME NEW f \in Common(print, manifest)
             PROVE  /\ print[f] \in had[f]
                    /\ \A contents \in Witnesses(f, print[f])' :
                         Describes(manifest[f], contents, f, open)
  BY <1>1 DEF Tells, Common, Describes, Parts, Ends
<1>2. f \in File /\ print[f] \in had[f]
  BY DEF Common, Partial, Tells
<1>3. ASSUME NEW contents \in Witnesses(f, print[f])'
      PROVE  Describes(manifest[f], contents, f, open)
  <2>1. PICK fewer \in Witnesses(f, print[f]) : fewer \subseteq contents
    BY <1>2, WitnessesThroughSends
  <2>2. Describes(manifest[f], fewer, f, open)
    BY DEF Tells
  <2> QED BY <2>1, <2>2, Monotone
<1> QED BY <1>2, <1>3

\* What a send reads next stays what it has seen, whatever another send does.
LEMMA ReadsThroughSends ==
  ASSUME IInv, NEW t \in Send, Sends(t), NEW s \in Send, Reads(s),
         seen'[s] = seen[s], send'[s] = send[s]
  PROVE  Reads(s)'
<1>0. PICK print : print = send[s].print
  OBVIOUS
<1>1. UNCHANGED <<file, had, reused>>
  BY Frame
<1> SUFFICES ASSUME NEW f \in send[s].open
             PROVE  /\ Under(s, f) \subseteq seen[s][f]
                    /\ f \notin reused =>
                         \A contents \in Witnesses(f, print[f])' :
                           Under(s, f) \subseteq contents
  BY <1>0, <1>1 DEF Reads, Under
<1>2. f \in File
  BY DEF IInv, Types, SendType
<1>3. ASSUME f \notin reused, NEW contents \in Witnesses(f, print[f])'
      PROVE  Under(s, f) \subseteq contents
  <2>1. PICK fewer \in Witnesses(f, print[f]) : fewer \subseteq contents
    BY <1>2, <1>3, WitnessesThroughSends
  <2> QED BY <1>0, <1>3, <2>1 DEF Reads
<1> QED BY <1>3 DEF Reads

\* A file that is edited in place is read as it is now, one that is replaced as it
\* was: a send has seen both, and the file's stamp is another one.
LEMMA ReadsThroughEdits ==
  ASSUME IInv, NEW g \in File, Edits(g), NEW s \in Send
  PROVE  Reads(s)'
<1>0. PICK print : print = send[s].print
  OBVIOUS
<1> SUFFICES ASSUME NEW f \in send'[s].open
             PROVE  /\ Under(s, f)' \subseteq seen'[s][f]
                    /\ f \notin reused' =>
                         \A contents \in Witnesses(f, print[f])' :
                           Under(s, f)' \subseteq contents
  <2>1. send'[s].print = print
    BY <1>0, EditSends
  <2> QED BY <2>1 DEF Reads
<1>1. /\ send'[s].pc = send[s].pc
      /\ send'[s].manifest = send[s].manifest /\ send'[s].open = send[s].open
      /\ \/ send'[s].kept = send[s].kept
         \/ /\ send'[s].kept = {file[g].content}
            /\ g \in send[s].open /\ send[s].kept = {}
  BY EditSends
<1>2. /\ f \in File /\ send[s].pc = "build" /\ Active(s) /\ f \in DOMAIN send[s].manifest
      /\ \A h \in send[s].open : h = f
  BY <1>1 DEF IInv, Types, SendType, Progress, Active
<1>3. print[f] \in had[f]
  BY <1>0, <1>2 DEF IInv, Progress, Knowledge, PrintHad
<1>4. PICK content \in Data, stamp \in StampType :
        /\ file' = [file EXCEPT ![g] = [content |-> content, stamp |-> stamp]]
        /\ reused \subseteq reused' /\ (stamp \in had[g] => g \in reused')
        /\ seen' = [t \in Send |->
                     IF Active(t) THEN [seen[t] EXCEPT ![g] = @ \cup {content}] ELSE seen[t]]
  BY EditFrame
<1>5. file \in [File -> Node] /\ seen \in [Send -> [File -> SUBSET Data]]
  BY DEF IInv, Types
<1>6. \A t \in Send : Active(t) =>
        seen[t][f] \cup {file[f].content} \cup {file'[f].content} \subseteq seen'[t][f]
  <2> SUFFICES ASSUME NEW t \in Send, Active(t)
               PROVE  seen[t][f] \cup {file[f].content} \cup {file'[f].content}
                        \subseteq seen'[t][f]
    OBVIOUS
  <2>1. file[f].content \in seen[t][f]
    BY <1>2 DEF IInv, Present
  <2>2. seen'[t] = [seen[t] EXCEPT ![g] = @ \cup {content}]
    BY <1>4
  <2>3. CASE f = g
    <3>1. file'[f].content = content /\ seen'[t][f] = seen[t][f] \cup {content}
      BY <1>2, <1>4, <1>5, <2>2, <2>3
    <3> QED BY <2>1, <3>1
  <2>4. CASE f # g
    <3>1. file'[f] = file[f] /\ seen'[t][f] = seen[t][f]
      BY <1>2, <1>4, <1>5, <2>2, <2>4
    <3> QED BY <2>1, <3>1
  <2> QED BY <2>3, <2>4
<1>7. Under(s, f)' \in {{file'[f].content}, {file[f].content}, Under(s, f)}
  BY <1>1, <1>2 DEF Under
<1>8. Under(s, f)' \subseteq seen'[s][f]
  <2>1. Under(s, f) \subseteq seen[s][f]
    BY <1>1 DEF IInv, Knowledge, Reads
  <2> QED BY <1>2, <1>6, <1>7, <2>1
<1>9. ASSUME f \notin reused', NEW contents \in Witnesses(f, print[f])'
      PROVE  Under(s, f)' \subseteq contents
  <2>1. PICK fewer \in Witnesses(f, print[f]) : fewer \subseteq contents
    BY <1>2, <1>3, <1>9, WitnessesThroughEdits
  <2>2. Under(s, f) \subseteq fewer
    BY <1>0, <1>1, <1>4, <1>9 DEF IInv, Knowledge, Reads
  <2>3. CASE \E t \in Send : Agrees(t, f, print[f])' /\ contents = seen'[t][f]
    <3>1. PICK t \in Send : Agrees(t, f, print[f])' /\ contents = seen'[t][f]
      BY <2>3
    <3>2. send[t].pc = "print"
      BY <3>1, EditSends DEF Agrees
    <3>3. {file[f].content} \cup {file'[f].content} \subseteq contents
      BY <1>6, <3>1, <3>2 DEF Active
    <3> QED BY <1>7, <2>1, <2>2, <3>3
  <2>4. CASE contents = {file'[f].content} /\ file'[f].stamp = print[f]
    <3>1. f # g
      BY <1>2, <1>3, <1>4, <1>5, <1>9, <2>4
    <3>2. file'[f] = file[f]
      BY <1>2, <1>4, <1>5, <3>1
    <3> QED BY <1>7, <2>1, <2>2, <2>4, <3>2
  <2> QED BY <1>9, <2>3, <2>4 DEF Witnesses
<1> QED BY <1>1, <1>8, <1>9

-----------------------------------------------------------------------------
(* The invariant is inductive.                                             *)

LEMMA Initially == Init => IInv
<1> SUFFICES ASSUME Init PROVE IInv
  OBVIOUS
<1> USE NoneIsPartial
<1>1. PICK first \in [File -> UNION {ContentOf[f] : f \in File}] :
        /\ \A f \in File : first[f] \in ContentOf[f]
        /\ file = [f \in File |-> [content |-> first[f], stamp |-> Stamp(first[f], 0)]]
  BY DEF Init
<1>2. \A f \in File : file[f] \in Node
  <2> SUFFICES ASSUME NEW f \in File PROVE file[f] \in Node
    OBVIOUS
  <2>1. first[f] \in Data
    BY <1>1, CacheAssumption DEF Data
  <2>2. Stamp(first[f], 0) \in StampType
    BY <2>1 DEF Stamp, StampType, Data
  <2> QED BY <1>1, <2>1, <2>2 DEF Node
<1>3. Types
  <2>1. file \in [File -> Node] /\ had \in [File -> SUBSET StampType]
    BY <1>1, <1>2 DEF Init, Node
  <2>2. Rest \in SendType
    BY DEF Rest, SendType, Pc
  <2>3. inode = <<>> /\ inode \in Seq(InodeType) /\ Len(inode) = 0
    BY DEF Init
  <2> QED BY <2>1, <2>2, <2>3 DEF Init, Types
<1>4. Stamps
  BY DEF Init, Stamps
<1>5. \A s \in Send : /\ send[s].pc = "idle" /\ DOMAIN send[s].print = {}
                      /\ DOMAIN send[s].manifest = {}
                      /\ send[s].open = {} /\ send[s].kept = {}
  BY DEF Init, Rest
<1>6. Present /\ \A s \in Send : Progress(s) /\ Knowledge(s)
  BY <1>5 DEF Progress, Present, Knowledge, PrintHad, Reads, Built, Active
<1>7. InodesTell
  BY DEF Init, InodesTell
<1> QED BY <1>3, <1>4, <1>6, <1>7 DEF IInv

\* What an inode holds is of its types.
LEMMA InodeTyped ==
  ASSUME IInv, NEW i \in DOMAIN inode, inode[i].is = "cache"
  PROVE  inode[i].print \in Partial(StampType) /\ inode[i].manifest \in Partial(EntryType)
<1>1. inode[i] \in InodeType
  BY DEF IInv, Types
<1> QED BY <1>1 DEF InodeType, Empty, Torn

\* A file is edited.
LEMMA EditKeeps ==
  ASSUME IInv, NEW f \in File, Edits(f)
  PROVE  IInv'
<1>1. PICK content \in Data, stamp \in StampType :
        /\ file' = [file EXCEPT ![f] = [content |-> content, stamp |-> stamp]]
        /\ had' = [had EXCEPT ![f] = @ \cup {stamp}]
        /\ reused \subseteq reused' /\ reused' \subseteq reused \cup {f}
        /\ seen' = [s \in Send |->
                     IF Active(s) THEN [seen[s] EXCEPT ![f] = @ \cup {content}] ELSE seen[s]]
        /\ edits' = edits + 1
        /\ UNCHANGED <<tmp, cache, inode, sends>>
  BY EditFrame
<1>2. /\ file \in [File -> Node] /\ had \in [File -> SUBSET StampType]
      /\ seen \in [Send -> [File -> SUBSET Data]] /\ reused \subseteq File /\ edits \in Nat
  BY DEF IInv, Types
<1>3. Types'
  <2>1. file' \in [File -> Node] /\ had' \in [File -> SUBSET StampType]
    BY <1>1, <1>2 DEF Node
  <2>2. seen' \in [Send -> [File -> SUBSET Data]]
    BY <1>1, <1>2
  <2>3. send' \in [Send -> SendType]
    <3>1. send' = [s \in Send |-> send'[s]]
      BY DEF Edits
    <3> QED BY <3>1, EditSends
  <2> QED BY <1>1, <1>2, <2>1, <2>2, <2>3 DEF IInv, Types
<1>4. Stamps'
  BY <1>1, <1>2 DEF IInv, Stamps
<1>5. \A s \in Send : Active(s)' = Active(s)
  BY EditSends DEF Active
<1>6. Present'
  BY <1>1, <1>2, <1>5 DEF IInv, Present
<1>7. InodesTell'
  <2> SUFFICES ASSUME NEW i \in DOMAIN inode, inode[i].is = "cache"
               PROVE  /\ DOMAIN inode[i].print = DOMAIN inode[i].manifest
                      /\ Tells(inode[i].print, inode[i].manifest, {})'
    BY <1>1 DEF InodesTell
  <2> DEFINE print == inode[i].print
             manifest == inode[i].manifest
  <2>1. print \in Partial(StampType) /\ Tells(print, manifest, {})
          /\ DOMAIN print = DOMAIN manifest
    BY InodeTyped DEF IInv, InodesTell
  <2>2. PICK p, m : p = print /\ m = manifest
    OBVIOUS
  <2>3. Tells(p, m, {})'
    BY <2>1, <2>2, TellsThroughEdits
  <2> QED BY <1>1, <2>1, <2>2, <2>3
<1>8. ASSUME NEW s \in Send
      PROVE  Progress(s)' /\ Knowledge(s)'
  <2>1. /\ send'[s].pc = send[s].pc /\ send'[s].print = send[s].print
        /\ send'[s].manifest = send[s].manifest /\ send'[s].open = send[s].open
        /\ send'[s].handle = send[s].handle
        /\ send[s].open = {} => send'[s].kept = send[s].kept
    BY EditSends
  <2>2. Progress(s) /\ PrintHad(s) /\ Built(s)
          /\ (Active(s) => Tells(send[s].print, send[s].manifest, send[s].open))
    BY DEF IInv, Knowledge
  <2>3. send[s].print \in Partial(StampType) /\ send[s].manifest \in Partial(EntryType)
    BY DEF IInv, Types, SendType
  <2>4. Progress(s)'
    BY <1>1, <1>5, <2>1, <2>2 DEF Progress
  <2>5. PrintHad(s)'
    <3>1. DOMAIN send[s].print \subseteq File
      BY <2>3 DEF Partial
    <3> QED BY <1>1, <1>2, <2>1, <2>2, <3>1 DEF PrintHad
  <2>6. Built(s)'
    <3> SUFFICES ASSUME send[s].pc \in {"build", "write", "rename", "sent"},
                        NEW g \in DOMAIN send[s].manifest,
                        send[s].pc # "sent" \/ IsBuilt(s) \/ g \notin reused'
                 PROVE  Describes(send[s].manifest[g], seen'[s][g], g, send[s].open)
      BY <2>1 DEF Built, IsBuilt, Describes, Parts, Ends
    <3>1. g \in File
      BY <2>3 DEF Partial
    <3>2. Describes(send[s].manifest[g], seen[s][g], g, send[s].open)
      BY <1>1, <2>2 DEF Built
    <3>3. seen[s][g] \subseteq seen'[s][g]
      BY <1>1, <1>2, <3>1
    <3> QED BY <3>2, <3>3, Monotone
  <2>7. ASSUME Active(s)'
        PROVE  Tells(send[s].print, send[s].manifest, send[s].open)'
    <3>1. PICK print, manifest, open :
            print = send[s].print /\ manifest = send[s].manifest /\ open = send[s].open
      OBVIOUS
    <3>2. Tells(print, manifest, open)'
      BY <1>5, <2>2, <2>3, <2>7, <3>1, TellsThroughEdits
    <3> QED BY <2>1, <3>1, <3>2
  <2>8. Reads(s)'
    BY ReadsThroughEdits
  <2> QED BY <2>4, <2>5, <2>6, <2>7, <2>8 DEF Knowledge
<1> QED BY <1>3, <1>4, <1>6, <1>7, <1>8 DEF IInv

\* What the inodes tell, they still tell, but for what is new in them.
LEMMA InodesReplaced ==
  ASSUME IInv, NEW t \in Send, Sends(t), NEW new,
         new.is = "cache" => /\ DOMAIN new.print = DOMAIN new.manifest
                             /\ Tells(new.print, new.manifest, {})',
         \A i \in DOMAIN inode' :
           inode'[i] = new \/ (i \in DOMAIN inode /\ inode'[i] = inode[i])
  PROVE  InodesTell'
<1> SUFFICES ASSUME NEW i \in DOMAIN inode', inode'[i].is = "cache"
             PROVE  /\ DOMAIN inode'[i].print = DOMAIN inode'[i].manifest
                    /\ Tells(inode[i].print, inode[i].manifest, {})'
  BY DEF InodesTell
<1>0. PICK print, manifest : print = inode'[i].print /\ manifest = inode'[i].manifest
  OBVIOUS
<1>1. CASE inode'[i] = new
  BY <1>1
<1>2. CASE i \in DOMAIN inode /\ inode'[i] = inode[i]
  <2>1. print \in Partial(StampType) /\ DOMAIN print = DOMAIN manifest
          /\ Tells(print, manifest, {})
    BY <1>0, <1>2, InodeTyped DEF IInv, InodesTell
  <2>2. Tells(print, manifest, {})'
    BY <2>1, TellsThroughSends
  <2> QED BY <1>0, <2>1, <2>2
<1> QED BY <1>1, <1>2

\* Once a send's own part is seen to, only the types and the inodes are left.
LEMMA Rely ==
  ASSUME IInv, NEW t \in Send, Sends(t), Types', InodesTell',
         Progress(t)', Knowledge(t)', Len(inode) <= Len(inode'),
         Active(t)' => \A f \in File : file[f].content \in seen'[t][f]
  PROVE  IInv'
<1>1. UNCHANGED <<file, had, reused, edits>>
        /\ \A s \in Send \ {t} : send'[s] = send[s] /\ seen'[s] = seen[s]
  BY Frame
<1>2. Stamps'
  BY <1>1 DEF IInv, Stamps
<1>3. Present'
  BY <1>1 DEF IInv, Present, Active
<1>4. ASSUME NEW s \in Send \ {t}
      PROVE  Progress(s)' /\ Knowledge(s)'
  <2>1. Progress(s) /\ Knowledge(s) /\ send'[s] = send[s] /\ seen'[s] = seen[s]
    BY <1>1 DEF IInv
  <2>2. Progress(s)'
    <3>1. Len(inode) \in Nat /\ Len(inode') \in Nat /\ send[s].handle \in Nat
      BY DEF IInv, Types, SendType
    <3> QED BY <2>1, <3>1 DEF Progress, Active
  <2>3. ASSUME Active(s)'
        PROVE  Tells(send[s].print, send[s].manifest, send[s].open)'
    <3>1. PICK print, manifest, open :
            print = send[s].print /\ manifest = send[s].manifest /\ open = send[s].open
      OBVIOUS
    <3>2. print \in Partial(StampType) /\ Tells(print, manifest, open)
      BY <2>1, <2>3, <3>1 DEF Knowledge, Active, IInv, Types, SendType
    <3>3. Tells(print, manifest, open)'
      BY <3>2, TellsThroughSends
    <3> QED BY <2>1, <3>1, <3>3
  <2>4. Reads(s)'
    BY <2>1, ReadsThroughSends DEF Knowledge
  <2>5. PrintHad(s)' /\ Built(s)'
    BY <1>1, <2>1 DEF Knowledge, PrintHad, Built, IsBuilt, Describes, Parts, Ends
  <2> QED BY <2>2, <2>3, <2>4, <2>5 DEF Knowledge
<1> QED BY <1>2, <1>3, <1>4 DEF IInv

\* The last step of the lemmas below, for a send that has begun.
LEMMA GoesOn ==
  ASSUME IInv, NEW t \in Send, Sends(t), Active(t), UNCHANGED <<inode, seen>>,
         Types', Progress(t)', Knowledge(t)'
  PROVE  IInv'
<1>1. \A f \in File : file[f].content \in seen'[t][f]
  BY DEF IInv, Present
<1>2. Len(inode') = Len(inode) /\ Len(inode) \in Nat
  BY DEF IInv, Types
<1>3. InodesTell'
  BY InodesReplaced, Torn.is # "cache" DEF Torn
<1> QED BY <1>1, <1>2, <1>3, Rely

LEMMA BeginsKeeps ==
  ASSUME IInv, NEW t \in Send, Begins(t)
  PROVE  IInv'
<1>1. Sends(t) /\ UNCHANGED <<tmp, cache, inode>> /\ UNCHANGED <<file, had, reused, edits>>
  BY Frame DEF Sends, Begins, names
<1>2. PICK new : new = [Rest EXCEPT !.pc = "print"]
  OBVIOUS
<1>3. /\ new.pc = "print" /\ new.print = None /\ new.manifest = None
      /\ new.open = {} /\ new.kept = {} /\ new.handle = 0
  BY <1>2 DEF Rest
<1>4. send' = [send EXCEPT ![t] = new] /\ send'[t] = new
  BY <1>2 DEF Begins, IInv, Types
<1>5. seen' = [seen EXCEPT ![t] = [f \in File |-> {file[f].content}]]
        /\ seen'[t] = [f \in File |-> {file[f].content}]
  BY DEF Begins, IInv, Types
<1>6. Types'
  <2>1. new \in SendType
    BY <1>2, NoneIsPartial DEF Rest, SendType, Pc
  <2>2. send' \in [Send -> SendType]
    BY <1>4, <2>1 DEF IInv, Types
  <2>3. [f \in File |-> {file[f].content}] \in [File -> SUBSET Data]
    BY DEF IInv, Types, Node
  <2>4. seen' \in [Send -> [File -> SUBSET Data]] /\ sends' \in Nat
    BY <1>5, <2>3 DEF Begins, IInv, Types
  <2> QED BY <1>1, <2>2, <2>4 DEF IInv, Types
<1>7. Progress(t)'
  BY <1>3, <1>4, NoneIsPartial DEF Progress, Active
<1>8. Knowledge(t)'
  BY <1>3, <1>4, NoneIsPartial DEF Knowledge, PrintHad, Reads, Built, Tells, Common
<1>9. InodesTell'
  BY <1>1, InodesReplaced, Torn.is # "cache" DEF Torn
<1> QED
  <2>1. \A f \in File : file[f].content \in seen'[t][f]
    BY <1>5
  <2>2. Len(inode') = Len(inode) /\ Len(inode) \in Nat
    BY <1>1 DEF IInv, Types
  <2> QED BY <1>1, <1>6, <1>7, <1>8, <1>9, <2>1, <2>2, Rely

LEMMA KilledKeeps ==
  ASSUME IInv, NEW t \in Send, Killed(t)
  PROVE  IInv'
<1>1. Sends(t) /\ UNCHANGED <<tmp, cache, inode, sends>>
        /\ UNCHANGED <<file, had, reused, edits>>
  BY Frame DEF Sends, Killed, names
<1>2. /\ Rest.pc = "idle" /\ Rest.print = None /\ Rest.manifest = None
      /\ Rest.open = {} /\ Rest.kept = {} /\ Rest.handle = 0
  BY DEF Rest
<1>3. send' = [send EXCEPT ![t] = Rest] /\ send'[t] = Rest
  BY DEF Killed, IInv, Types
<1>4. Types'
  <2>1. Rest \in SendType
    BY NoneIsPartial DEF Rest, SendType, Pc
  <2>2. seen' \in [Send -> [File -> SUBSET Data]]
    BY DEF Killed, IInv, Types
  <2> QED BY <1>1, <1>3, <2>1, <2>2 DEF IInv, Types
<1>5. Progress(t)'
  BY <1>2, <1>3, NoneIsPartial DEF Progress, Active
<1>6. Knowledge(t)'
  BY <1>2, <1>3, NoneIsPartial DEF Knowledge, PrintHad, Reads, Built, Active
<1>7. InodesTell'
  BY <1>1, InodesReplaced, Torn.is # "cache" DEF Torn
<1> QED
  <2>1. ~Active(t)'
    BY <1>2, <1>3 DEF Active
  <2>2. Len(inode') = Len(inode) /\ Len(inode) \in Nat
    BY <1>1 DEF IInv, Types
  <2> QED BY <1>1, <1>4, <1>5, <1>6, <1>7, <2>1, <2>2, Rely

\* A fingerprint has one more stamp, what the file has now.
LEMMA PrintsKeeps ==
  ASSUME IInv, NEW t \in Send, NEW f \in File, Prints(t, f)
  PROVE  IInv'
<1>1. Sends(t) /\ UNCHANGED <<tmp, cache, inode, seen, sends>> /\ send[t].pc = "print"
        /\ f \in InputsOf[t] /\ UNCHANGED <<file, had, reused, edits>>
  BY Frame DEF Sends, Prints, names
<1>2. PICK old, new : old = send[t].print /\ new = With(old, f, file[f].stamp)
  OBVIOUS
<1>3. old \in Partial(StampType) /\ file[f].stamp \in StampType
  BY <1>2 DEF IInv, Types, SendType, Node
<1>4. /\ new \in Partial(StampType)
      /\ DOMAIN new = DOMAIN old \cup {f} /\ new[f] = file[f].stamp
      /\ \A g \in DOMAIN old \ {f} : new[g] = old[g]
  <2>1. With(old, f, file[f].stamp) \in Partial(StampType)
    BY <1>3, OneMore, Zenon
  <2> QED BY <1>2, <2>1 DEF With
<1>5. send' = [send EXCEPT ![t].print = new]
  BY <1>2 DEF Prints
<1>6. send[t] \in SendType
  BY DEF IInv, Types
<1>7. /\ send'[t] \in SendType
      /\ send'[t].pc = "print" /\ send'[t].print = new /\ send'[t].manifest = send[t].manifest
      /\ send'[t].open = send[t].open /\ send'[t].kept = send[t].kept
      /\ send'[t].handle = send[t].handle
  BY <1>1, <1>4, <1>5, <1>6 DEF IInv, Types, SendType
<1>8. Types'
  BY <1>1, <1>5, <1>7 DEF IInv, Types
<1>9. /\ send[t].manifest = None /\ DOMAIN old \subseteq InputsOf[t] /\ send[t].open = {}
      /\ send[t].kept = {} /\ send[t].handle = 0
      /\ \A g \in DOMAIN old : old[g] \in had[g]
  BY <1>1, <1>2 DEF IInv, Progress, Active, Knowledge, PrintHad
<1>10. Progress(t)'
  BY <1>1, <1>4, <1>7, <1>9, NoneIsPartial DEF Progress, Active
<1>11. Knowledge(t)'
  <2>1. \A g \in DOMAIN new : new[g] \in had[g]
    BY <1>4, <1>9 DEF IInv, Stamps
  <2> QED BY <1>1, <1>7, <1>9, <2>1, NoneIsPartial
          DEF Knowledge, PrintHad, Reads, Built, Tells, Common
<1> QED BY <1>1, <1>8, <1>10, <1>11, GoesOn DEF Active

\* What an edit has not come between: the file a send looks at or reads now.
LEMMA Reading ==
  ASSUME IInv, NEW t \in Send, Active(t), NEW f \in File, NEW stamp
  PROVE  /\ file[f].content \in seen[t][f]
         /\ \A contents \in Witnesses(f, stamp) : file[f].content \in contents
BY DEF IInv, Present, Witnesses, Agrees, Active

\* While a send builds its manifest, no fingerprint and no witness changes.
LEMMA WitnessesWhileBuilding ==
  ASSUME IInv, NEW t \in Send, send[t].pc = "build", send'[t].pc = "build",
         \A s \in Send \ {t} : send'[s] = send[s], UNCHANGED <<file, seen>>,
         NEW f, NEW stamp
  PROVE  Witnesses(f, stamp)' = Witnesses(f, stamp)
<1>1. \A s \in Send : Agrees(s, f, stamp)' = Agrees(s, f, stamp)
  BY DEF Agrees
<1> QED BY <1>1 DEF Witnesses

\* What the entry of a file has to be put together from while it is built.
Sources(t, f) ==
  {seen[t][f]} \cup {contents \in Witnesses(f, send[t].print[f]) : f \notin reused}

\* One entry of the manifest is begun or goes on; the others are done with.
LEMMA BuildsKeeps ==
  ASSUME IInv, NEW t \in Send, NEW f \in InputsOf[t], Sends(t), send[t].pc = "build",
         UNCHANGED <<tmp, cache, inode, seen, sends>>,
         NEW me \in SendType, send' = [send EXCEPT ![t] = me],
         me.pc = "build", me.print = send[t].print, me.handle = send[t].handle,
         DOMAIN me.manifest = DOMAIN send[t].manifest \cup {f},
         \A g \in DOMAIN send[t].manifest \ {f} : me.manifest[g] = send[t].manifest[g],
         send[t].open \subseteq {f}, me.open \subseteq {f}, me.open = {} => me.kept = {},
         \A contents \in Sources(t, f) :
           /\ Describes(me.manifest[f], contents, f, me.open)
           /\ me.open # {} => Under(t, f)' \subseteq contents
  PROVE  IInv'
<1>1. /\ UNCHANGED <<file, had, reused, edits>> /\ send'[t] = me
      /\ \A s \in Send \ {t} : send'[s] = send[s]
  BY Frame DEF IInv, Types
<1>2. Types'
  BY <1>1 DEF IInv, Types
<1>3. /\ Progress(t) /\ PrintHad(t) /\ Built(t)
      /\ Tells(send[t].print, send[t].manifest, send[t].open)
  BY DEF IInv, Knowledge, Active
<1>4. Progress(t)'
  BY <1>1, <1>3 DEF Progress, Active
<1>5. \A g, stamp : Witnesses(g, stamp)' = Witnesses(g, stamp)
  BY <1>1, WitnessesWhileBuilding
<1>6. PrintHad(t)'
  BY <1>1, <1>3 DEF PrintHad
<1>7. Built(t)'
  <2> SUFFICES ASSUME NEW g \in DOMAIN me.manifest
               PROVE  Describes(me.manifest[g], seen[t][g], g, me.open)
    BY <1>1 DEF Built, Describes, Parts, Ends
  <2>1. CASE g # f
    BY <1>3, <2>1 DEF Built, Describes
  <2>2. CASE g = f
    BY <2>2 DEF Sources
  <2> QED BY <2>1, <2>2
<1>8. Tells(me.print, me.manifest, me.open)'
  <2> SUFFICES ASSUME NEW g \in Common(me.print, me.manifest)
               PROVE  /\ me.print[g] \in had[g]
                      /\ \A contents \in Witnesses(g, me.print[g]) :
                           Describes(me.manifest[g], contents, g, me.open)
    BY <1>1, <1>5 DEF Tells, Common, Describes, Parts, Ends
  <2>1. CASE g # f
    BY <1>3, <2>1 DEF Tells, Common, Describes
  <2>2. CASE g = f
    BY <1>3, <2>2 DEF Sources, Common, PrintHad
  <2> QED BY <2>1, <2>2
<1>9. Reads(t)'
  <2> SUFFICES ASSUME NEW g \in me.open
               PROVE  /\ Under(t, g)' \subseteq seen[t][g]
                      /\ g \notin reused =>
                           \A contents \in Witnesses(g, me.print[g]) :
                             Under(t, g)' \subseteq contents
    BY <1>1, <1>5 DEF Reads
  <2>1. g = f
    OBVIOUS
  <2> QED BY <2>1 DEF Sources
<1>10. Knowledge(t)'
  BY <1>1, <1>6, <1>7, <1>8, <1>9 DEF Knowledge
<1> QED BY <1>2, <1>4, <1>10, GoesOn DEF Active

\* An entry is begun with the length the file has now.
LEMMA LooksKeeps ==
  ASSUME IInv, NEW t \in Send, NEW f \in File, Looks(t, f)
  PROVE  IInv'
<1>1. /\ Sends(t) /\ UNCHANGED <<tmp, cache, inode, seen, sends>>
      /\ send[t].pc = "build" /\ send[t].open = {} /\ send[t].kept = {}
      /\ f \in InputsOf[t] /\ f \notin DOMAIN send[t].manifest
      /\ UNCHANGED <<file, had, reused, edits>>
  BY Frame DEF Sends, Looks, names, IInv, Progress
<1>2. PICK size, entry, new, open :
        /\ size = Len(file[f].content) /\ entry = [size |-> size, hashes |-> <<>>]
        /\ new = With(send[t].manifest, f, entry) /\ open = IF size = 0 THEN {} ELSE {f}
  OBVIOUS
<1>3. file[f].content \in Data /\ size \in Nat /\ entry \in EntryType
  BY <1>2 DEF IInv, Types, Node, Data, EntryType
<1>4. send[t] \in SendType /\ send[t].manifest \in Partial(EntryType)
  BY DEF IInv, Types, SendType
<1>5. new \in Partial(EntryType)
  BY <1>2, <1>3, <1>4, OneMore, Zenon
<1>6. /\ DOMAIN new = DOMAIN send[t].manifest \cup {f} /\ new[f] = entry
      /\ \A g \in DOMAIN send[t].manifest \ {f} : new[g] = send[t].manifest[g]
  BY <1>2 DEF With
<1>7. PICK me : me = [send[t] EXCEPT !.manifest = new, !.open = open]
  OBVIOUS
<1>8. send' = [send EXCEPT ![t] = me]
  BY <1>2, <1>7 DEF Looks, IInv, Types
<1>9. /\ me \in SendType /\ me.pc = "build" /\ me.print = send[t].print
      /\ me.manifest = new /\ me.open = open /\ me.kept = {} /\ me.handle = send[t].handle
  BY <1>1, <1>2, <1>4, <1>5, <1>7 DEF SendType
<1>10. Under(t, f)' = {file[f].content}
  BY <1>1, <1>8, <1>9 DEF Under, IInv, Types
<1>11. ASSUME NEW contents \in Sources(t, f)
       PROVE  /\ Describes(me.manifest[f], contents, f, me.open)
              /\ me.open # {} => Under(t, f)' \subseteq contents
  <2>1. file[f].content \in contents
    BY <1>1, Reading DEF Sources, Active
  <2>2. Describes(entry, contents, f, open)
    <3>1. Len(file[f].content) # 0 => f \in open
      BY <1>2
    <3>2. Describes([size |-> Len(file[f].content), hashes |-> <<>>], contents, f, open)
      BY <1>3, <2>1, <3>1, Looked, Zenon
    <3> QED BY <1>2, <3>2
  <2> QED BY <1>6, <1>9, <1>10, <2>1, <2>2
<1>12. me.open \subseteq {f}
  BY <1>2, <1>9
<1> QED BY <1>1, <1>6, <1>8, <1>9, <1>11, <1>12, BuildsKeeps

\* An entry goes on with a chunk of what the send reads.
LEMMA HashesKeeps ==
  ASSUME IInv, NEW t \in Send, NEW f \in File, Hashes(t, f)
  PROVE  IInv'
<1>1. /\ Sends(t) /\ UNCHANGED <<tmp, cache, inode, seen, sends>>
      /\ send[t].pc = "build" /\ f \in send[t].open
      /\ UNCHANGED <<file, had, reused, edits>>
  BY Frame DEF Sends, Hashes, names
<1>2. /\ f \in DOMAIN send[t].manifest /\ f \in InputsOf[t] /\ send[t].open = {f}
      /\ Knowledge(t)
  BY <1>1 DEF IInv, Progress, Active
<1>3. PICK entry : entry = send[t].manifest[f]
  OBVIOUS
<1>4. send[t] \in SendType /\ send[t].manifest \in Partial(EntryType)
  BY DEF IInv, Types, SendType
<1>5. entry \in EntryType
  BY <1>2, <1>3, <1>4 DEF Partial
<1>6. PICK content \in Under(t, f) :
        LET chunk == ChunkAt(content, Len(entry.hashes))
            more  == IF chunk = <<>> THEN entry
                     ELSE [entry EXCEPT !.hashes = Append(@, chunk)]
            short == Len(chunk) < ChunkSize
        IN  send' = [send EXCEPT ![t].manifest = With(@, f, more),
                                 ![t].open = IF short THEN {} ELSE @,
                                 ![t].kept = IF short THEN {} ELSE @]
  BY <1>3 DEF Hashes
<1>7. PICK chunk, more, new, open, kept :
        /\ chunk = ChunkAt(content, Len(entry.hashes))
        /\ more = IF chunk = <<>> THEN entry
                  ELSE [entry EXCEPT !.hashes = Append(@, chunk)]
        /\ new = With(send[t].manifest, f, more)
        /\ open = IF Len(chunk) < ChunkSize THEN {} ELSE {f}
        /\ kept = IF Len(chunk) < ChunkSize THEN {} ELSE send[t].kept
  OBVIOUS
<1>8. PICK me : me = [send[t] EXCEPT !.manifest = new, !.open = open, !.kept = kept]
  OBVIOUS
<1>9. send' = [send EXCEPT ![t] = me]
  BY <1>2, <1>6, <1>7, <1>8 DEF IInv, Types
<1>10. content \in Data
  BY <1>4 DEF Under, IInv, Types, Node, SendType
<1>11. ASSUME NEW contents \in Sources(t, f)
       PROVE  /\ Under(t, f) \subseteq contents /\ more \in EntryType
              /\ Describes(more, contents, f, open)
  <2>1. Under(t, f) \subseteq contents
    BY <1>1, <1>2 DEF Knowledge, Reads, Sources
  <2>2. Describes(entry, contents, f, {f})
    <3>1. contents = seen[t][f] => Describes(entry, contents, f, {f})
      BY <1>1, <1>2, <1>3 DEF Knowledge, Built
    <3>2. f \notin reused /\ contents \in Witnesses(f, send[t].print[f])
            => Describes(entry, contents, f, {f})
      <4>1. f \in DOMAIN send[t].print
        BY <1>1, <1>2 DEF IInv, Progress
      <4> QED BY <1>1, <1>2, <1>3, <4>1 DEF Knowledge, Tells, Common, Active
    <3> QED BY <3>1, <3>2 DEF Sources
  <2>3. content \in contents
    BY <2>1
  <2>4. LET ch == ChunkAt(content, Len(entry.hashes))
            mo == IF ch = <<>> THEN entry ELSE [entry EXCEPT !.hashes = Append(@, ch)]
        IN  /\ mo \in EntryType
            /\ Describes(mo, contents, f, IF Len(ch) < ChunkSize THEN {} ELSE {f} \cup {f})
    BY <1>5, <1>10, <2>2, <2>3, Hashed, Zenon
  <2> QED BY <1>7, <2>1, <2>4
<1>12. more \in EntryType
  BY <1>11 DEF Sources
<1>13. new \in Partial(EntryType)
  BY <1>4, <1>7, <1>12, OneMore, Zenon
<1>14. /\ DOMAIN new = DOMAIN send[t].manifest \cup {f} /\ new[f] = more
       /\ \A g \in DOMAIN send[t].manifest \ {f} : new[g] = send[t].manifest[g]
  BY <1>7 DEF With
<1>15. /\ me \in SendType /\ me.pc = "build" /\ me.print = send[t].print
       /\ me.manifest = new /\ me.open = open /\ me.kept = kept
       /\ me.handle = send[t].handle
  <2>1. open \subseteq File /\ kept \subseteq Data
    BY <1>4, <1>7 DEF SendType
  <2> QED BY <1>1, <1>4, <1>8, <1>13, <2>1 DEF SendType
<1>16. /\ open \subseteq {f} /\ (open = {} => kept = {})
       /\ (open # {} => kept = send[t].kept)
  BY <1>7
<1>17. open # {} => Under(t, f)' = Under(t, f)
  BY <1>1, <1>9, <1>15, <1>16 DEF Under, IInv, Types
<1>18. \A contents \in Sources(t, f) :
         /\ Describes(me.manifest[f], contents, f, me.open)
         /\ me.open # {} => Under(t, f)' \subseteq contents
  BY <1>11, <1>14, <1>15, <1>17
<1> QED BY <1>1, <1>2, <1>9, <1>14, <1>15, <1>16, <1>18, BuildsKeeps

\* A hit is vouched for by the fingerprint that was taken; a miss knows nothing yet.
LEMMA LoadsKeeps ==
  ASSUME IInv, NEW t \in Send, Loads(t)
  PROVE  IInv'
<1>1. /\ Sends(t) /\ UNCHANGED <<tmp, cache, inode, seen, sends>> /\ send[t].pc = "print"
      /\ DOMAIN send[t].print = InputsOf[t]
      /\ UNCHANGED <<file, had, reused, edits>>
  BY Frame DEF Sends, Loads, names
<1>2. /\ send[t].manifest = None /\ send[t].open = {} /\ send[t].kept = {}
      /\ send[t].handle = 0 /\ Knowledge(t)
  BY <1>1 DEF IInv, Progress
<1>3. send \in [Send -> SendType] /\ send[t] \in SendType
  BY DEF IInv, Types
<1>4. CASE Hit(t)
  <2>1. PICK manifest : manifest = inode[cache].manifest
    OBVIOUS
  <2>2. send'[t] = [Rest EXCEPT !.pc = "sent", !.manifest = manifest,
                                !.handle = send[t].handle]
          /\ send' = [send EXCEPT ![t] = send'[t]]
    BY <1>3, <1>4, <2>1 DEF Loads, Sent
  <2>3. cache \in DOMAIN inode /\ inode[cache].is = "cache"
    BY <1>4 DEF Hit, IInv, Types
  <2>4. manifest \in Partial(EntryType)
    BY <2>1, <2>3, InodeTyped
  <2>5. DOMAIN manifest = InputsOf[t] /\ Tells(send[t].print, manifest, {})
    BY <1>1, <1>4, <2>1, <2>3 DEF Hit, IInv, InodesTell
  <2>6. ASSUME NEW g \in DOMAIN manifest, g \notin reused
        PROVE  Describes(manifest[g], seen[t][g], g, {})
    <3>1. g \in DOMAIN send[t].print
      BY <1>1, <2>5
    <3>2. seen[t][g] \in Witnesses(g, send[t].print[g])
      BY <1>1, <3>1 DEF Witnesses, Agrees
    <3> QED BY <2>5, <2>6, <3>1, <3>2 DEF Tells, Common
  <2>7. /\ send'[t].pc = "sent" /\ send'[t].print = None /\ send'[t].manifest = manifest
        /\ send'[t].open = {} /\ send'[t].kept = {} /\ send'[t].handle = 0
        /\ send'[t] \in SendType
    <3>1. send'[t] = [pc |-> "sent", print |-> None, manifest |-> manifest,
                      open |-> {}, kept |-> {}, handle |-> 0]
      BY <1>2, <2>2 DEF Rest
    <3>2. None \in Partial(StampType)
      BY NoneIsPartial
    <3> QED BY <2>4, <3>1, <3>2 DEF SendType, Pc
  <2>8. Types'
    BY <1>1, <1>3, <2>2, <2>7 DEF IInv, Types
  <2>9. Progress(t)'
    BY <1>1, <2>5, <2>7 DEF Progress, Active
  <2>10. Built(t)'
    BY <1>1, <2>6, <2>7 DEF Built, IsBuilt, Describes, Parts, Ends
  <2>11. Knowledge(t)'
    BY <2>7, <2>10, NoneIsPartial DEF Knowledge, PrintHad, Reads, Active
  <2> QED BY <1>1, <2>8, <2>9, <2>11, GoesOn DEF Active
<1>5. CASE ~Hit(t)
  <2>1. send' = [send EXCEPT ![t].pc = "build"]
    BY <1>5 DEF Loads, Goes
  <2>2. /\ send'[t].pc = "build" /\ send'[t].print = send[t].print
        /\ send'[t].manifest = None /\ send'[t].open = {} /\ send'[t].kept = {}
        /\ send'[t].handle = 0 /\ send'[t] \in SendType
    BY <1>2, <1>3, <2>1 DEF SendType, Pc
  <2>3. Types'
    BY <1>1, <1>3, <2>1, <2>2 DEF IInv, Types
  <2>4. Progress(t)'
    BY <1>1, <2>2, NoneIsPartial DEF Progress, Active
  <2>5. Knowledge(t)'
    BY <1>1, <1>2, <2>2, NoneIsPartial
       DEF Knowledge, PrintHad, Reads, Built, Tells, Common
  <2> QED BY <1>1, <2>3, <2>4, <2>5, GoesOn DEF Active
<1> QED BY <1>4, <1>5

\* A send that has built its manifest goes on with what it knows.
LEMMA OnlyMoves ==
  ASSUME IInv, NEW t \in Send, Sends(t), UNCHANGED seen, NEW me, send'[t] = me,
         \/ send[t].pc = "write" /\ me.pc = "rename" /\ me.handle \in 1 .. Len(inode')
         \/ /\ send[t].pc = "build" /\ send[t].open = {} /\ me.pc = "write"
            /\ DOMAIN send[t].manifest = InputsOf[t] /\ me.handle \in 1 .. Len(inode'),
         me.print = send[t].print, me.manifest = send[t].manifest,
         me.open = send[t].open, me.kept = send[t].kept
  PROVE  Progress(t)' /\ Knowledge(t)'
<1>1. PICK print, manifest, open :
        print = send[t].print /\ manifest = send[t].manifest /\ open = send[t].open
  OBVIOUS
<1>2. print \in Partial(StampType) /\ Tells(print, manifest, open)
        /\ Progress(t) /\ PrintHad(t) /\ Built(t) /\ open = {}
  BY <1>1 DEF IInv, Types, SendType, Knowledge, Active, Progress
<1>3. Tells(print, manifest, open)'
  BY <1>2, TellsThroughSends
<1>4. UNCHANGED <<had, reused>>
  BY Frame
<1>5. Progress(t)'
  BY <1>1, <1>2 DEF Progress, Active
<1>6. PrintHad(t)' /\ Reads(t)'
  BY <1>1, <1>2, <1>4 DEF PrintHad, Reads
<1>7. Built(t)'
  BY <1>1, <1>2 DEF Built, Describes, Parts, Ends
<1>8. Tells(me.print, me.manifest, me.open)'
  BY <1>1, <1>3
<1> QED BY <1>5, <1>6, <1>7, <1>8 DEF Knowledge

LEMMA RenamesKeeps ==
  ASSUME IInv, NEW t \in Send, Renames(t)
  PROVE  IInv'
<1>1. /\ Sends(t) /\ UNCHANGED <<inode, seen, sends>> /\ send[t].pc = "rename"
      /\ UNCHANGED <<file, had, reused, edits>>
      /\ tmp' = 0 /\ cache' \in {tmp, cache}
  BY Frame DEF Sends, Renames
<1>2. send \in [Send -> SendType] /\ send[t] \in SendType
  BY DEF IInv, Types
<1>3. /\ send' = [send EXCEPT ![t] = send'[t]]
      /\ send'[t] = [Rest EXCEPT !.pc = "sent", !.manifest = send[t].manifest,
                                 !.handle = send[t].handle]
  BY <1>2 DEF Renames, Sent
<1>4. /\ send'[t].pc = "sent" /\ send'[t].print = None
      /\ send'[t].manifest = send[t].manifest /\ send'[t].open = {}
      /\ send'[t].kept = {} /\ send'[t].handle = send[t].handle /\ send'[t] \in SendType
  <2>1. send'[t] = [pc |-> "sent", print |-> None, manifest |-> send[t].manifest,
                    open |-> {}, kept |-> {}, handle |-> send[t].handle]
    BY <1>3 DEF Rest
  <2>2. None \in Partial(StampType)
    BY NoneIsPartial
  <2> QED BY <1>2, <2>1, <2>2 DEF SendType, Pc
<1>5. Types'
  <2>1. tmp' \in 0 .. Len(inode) /\ cache' \in 0 .. Len(inode)
    <3>1. Len(inode) \in Nat /\ tmp \in 0 .. Len(inode) /\ cache \in 0 .. Len(inode)
      BY DEF IInv, Types
    <3> QED BY <1>1, <3>1
  <2> QED BY <1>1, <1>2, <1>3, <1>4, <2>1 DEF IInv, Types
<1>6. Progress(t) /\ Built(t) /\ send[t].open = {}
  BY <1>1 DEF IInv, Progress, Knowledge
<1>7. Progress(t)'
  BY <1>1, <1>4, <1>6 DEF Progress, Active
<1>8. Built(t)'
  BY <1>1, <1>4, <1>6 DEF Built, Describes, Parts, Ends
<1>9. Knowledge(t)'
  BY <1>4, <1>8, NoneIsPartial DEF Knowledge, PrintHad, Reads, Active
<1> QED BY <1>1, <1>5, <1>7, <1>9, GoesOn DEF Active

LEMMA WritesKeeps ==
  ASSUME IInv, NEW t \in Send, Writes(t)
  PROVE  IInv'
<1>1. /\ Sends(t) /\ UNCHANGED <<tmp, cache, seen, sends>> /\ send[t].pc = "write"
      /\ UNCHANGED <<file, had, reused, edits>>
      /\ send' = [send EXCEPT ![t].pc = "rename"]
  BY Frame DEF Sends, Writes, Goes
<1>2. PICK print, manifest : print = send[t].print /\ manifest = send[t].manifest
  OBVIOUS
<1>3. send \in [Send -> SendType] /\ send[t] \in SendType
  BY DEF IInv, Types
<1>4. /\ print \in Partial(StampType) /\ manifest \in Partial(EntryType)
      /\ Tells(print, manifest, {}) /\ DOMAIN print = DOMAIN manifest
      /\ send[t].handle \in DOMAIN inode
  <2>1. print \in Partial(StampType) /\ manifest \in Partial(EntryType)
    BY <1>2, <1>3 DEF SendType
  <2>2. Progress(t) /\ Knowledge(t) /\ Active(t)
    BY <1>1 DEF IInv, Active
  <2>3. send[t].handle \in 1 .. Len(inode) /\ DOMAIN print = DOMAIN manifest
          /\ send[t].open = {}
    BY <1>1, <1>2, <2>2 DEF Progress
  <2>4. DOMAIN inode = 1 .. Len(inode)
    BY DEF IInv, Types
  <2>5. Tells(print, manifest, {})
    BY <1>2, <2>2, <2>3 DEF Knowledge
  <2> QED BY <2>1, <2>3, <2>4, <2>5
<1>5. PICK new \in {Torn, Cached(print, manifest)} :
        inode' = [inode EXCEPT ![send[t].handle] = new]
  BY <1>2 DEF Writes, Entry
<1>6. new \in InodeType
  BY <1>4 DEF InodeType, Cached
<1>7. inode' \in Seq(InodeType) /\ Len(inode') = Len(inode) /\ Len(inode) \in Nat
  BY <1>4, <1>5, <1>6 DEF IInv, Types
<1>8. /\ send'[t].pc = "rename" /\ send'[t].print = send[t].print
      /\ send'[t].manifest = send[t].manifest /\ send'[t].open = send[t].open
      /\ send'[t].kept = send[t].kept /\ send'[t].handle = send[t].handle
      /\ send'[t] \in SendType /\ send' = [send EXCEPT ![t] = send'[t]]
  BY <1>1, <1>3 DEF SendType, Pc
<1>9. Types'
  BY <1>1, <1>3, <1>7, <1>8 DEF IInv, Types
<1>10. InodesTell'
  <2>1. Tells(print, manifest, {})'
    BY <1>1, <1>4, TellsThroughSends
  <2>2. new.is = "cache" => new = Cached(print, manifest)
    BY DEF Torn
  <2>3. new.is = "cache" => /\ DOMAIN new.print = DOMAIN new.manifest
                            /\ Tells(new.print, new.manifest, {})'
    <3>1. Cached(print, manifest).print = print /\ Cached(print, manifest).manifest = manifest
      BY DEF Cached
    <3> QED BY <1>4, <2>1, <2>2, <3>1
  <2>4. \A i \in DOMAIN inode' : inode'[i] = new \/ (i \in DOMAIN inode /\ inode'[i] = inode[i])
    BY <1>5
  <2> QED BY <1>1, <2>3, <2>4, InodesReplaced
<1>11. Progress(t)' /\ Knowledge(t)'
  <2>1. send'[t].handle \in 1 .. Len(inode')
    BY <1>4, <1>7, <1>8 DEF IInv, Types
  <2> QED BY <1>1, <1>8, <2>1, OnlyMoves
<1> QED
  <2>1. \A f \in File : file[f].content \in seen'[t][f]
    BY <1>1 DEF IInv, Present, Active
  <2> QED BY <1>1, <1>7, <1>9, <1>10, <1>11, <2>1, Rely

LEMMA CreatesKeeps ==
  ASSUME IInv, NEW t \in Send, Creates(t)
  PROVE  IInv'
<1>1. /\ Sends(t) /\ UNCHANGED <<cache, seen, sends>> /\ send[t].pc = "build"
      /\ send[t].open = {} /\ DOMAIN send[t].manifest = InputsOf[t]
      /\ UNCHANGED <<file, had, reused, edits>>
      /\ send' = [send EXCEPT ![t].pc = "write", ![t].handle = tmp']
  BY Frame DEF Sends, Creates
<1>2. Empty \in InodeType /\ inode \in Seq(InodeType) /\ Len(inode) \in Nat
        /\ tmp \in 0 .. Len(inode) /\ cache \in 0 .. Len(inode)
  BY DEF IInv, Types, InodeType
<1>3. /\ inode' \in Seq(InodeType) /\ Len(inode) <= Len(inode')
      /\ tmp' \in 1 .. Len(inode')
      /\ \A i \in DOMAIN inode' :
           inode'[i] = Empty \/ (i \in DOMAIN inode /\ inode'[i] = inode[i])
  <2>1. CASE tmp = 0
    <3>1. inode' = Append(inode, Empty) /\ tmp' = Len(inode')
      BY <2>1 DEF Creates
    <3>2. inode' \in Seq(InodeType) /\ Len(inode') = Len(inode) + 1
      BY <1>2, <3>1
    <3>3. \A i \in 1 .. Len(inode) : inode'[i] = inode[i]
      BY <1>2, <3>1
    <3>4. inode'[Len(inode) + 1] = Empty
      BY <1>2, <3>1
    <3>5. DOMAIN inode' = 1 .. Len(inode) + 1 /\ DOMAIN inode = 1 .. Len(inode)
      BY <1>2, <3>2
    <3>6. tmp' \in 1 .. Len(inode') /\ Len(inode) <= Len(inode')
      BY <1>2, <3>1, <3>2
    <3>7. ASSUME NEW i \in DOMAIN inode'
          PROVE  inode'[i] = Empty \/ (i \in DOMAIN inode /\ inode'[i] = inode[i])
      <4>1. i = Len(inode) + 1 \/ i \in 1 .. Len(inode)
        BY <1>2, <3>5
      <4> QED BY <3>3, <3>4, <3>5, <4>1
    <3> QED BY <3>2, <3>6, <3>7
  <2>2. CASE tmp # 0
    <3>1. inode' = [inode EXCEPT ![tmp] = Empty] /\ tmp' = tmp
      BY <2>2 DEF Creates
    <3>2. DOMAIN inode = 1 .. Len(inode) /\ tmp \in DOMAIN inode
      BY <1>2, <2>2
    <3>3. inode' \in Seq(InodeType) /\ Len(inode') = Len(inode)
      BY <1>2, <3>1, <3>2
    <3>4. DOMAIN inode' = DOMAIN inode
      BY <3>1
    <3>5. tmp' \in 1 .. Len(inode') /\ Len(inode) <= Len(inode')
      BY <1>2, <3>1, <3>2, <3>3
    <3>6. ASSUME NEW i \in DOMAIN inode
          PROVE  inode'[i] = Empty \/ inode'[i] = inode[i]
      BY <3>1
    <3> QED BY <3>3, <3>4, <3>5, <3>6
  <2> QED BY <2>1, <2>2
<1>4. tmp' \in 0 .. Len(inode') /\ cache' \in 0 .. Len(inode') /\ tmp' \in Nat
  BY <1>1, <1>2, <1>3
<1>5. send \in [Send -> SendType] /\ send[t] \in SendType
  BY DEF IInv, Types
<1>6. PICK handle : handle = tmp'
  OBVIOUS
<1>7. send' = [send EXCEPT ![t].pc = "write", ![t].handle = handle]
  BY <1>1, <1>6
<1>8. /\ send'[t].pc = "write" /\ send'[t].print = send[t].print
      /\ send'[t].manifest = send[t].manifest /\ send'[t].open = send[t].open
      /\ send'[t].kept = send[t].kept /\ send'[t].handle = handle
      /\ send'[t] \in SendType /\ send' = [send EXCEPT ![t] = send'[t]]
  BY <1>4, <1>5, <1>6, <1>7 DEF SendType, Pc
<1>9. Types'
  BY <1>1, <1>3, <1>4, <1>5, <1>8 DEF IInv, Types
<1>10. InodesTell'
  BY <1>1, <1>3, InodesReplaced DEF Empty
<1>11. Progress(t)' /\ Knowledge(t)'
  <2>1. PICK me : me = send'[t]
    OBVIOUS
  <2>2. /\ me.pc = "write" /\ me.handle \in 1 .. Len(inode') /\ me.print = send[t].print
        /\ me.manifest = send[t].manifest /\ me.open = send[t].open
        /\ me.kept = send[t].kept
    BY <1>3, <1>6, <1>8, <2>1
  <2> QED BY <1>1, <2>1, <2>2, OnlyMoves
<1> QED
  <2>1. \A f \in File : file[f].content \in seen'[t][f]
    BY <1>1 DEF IInv, Present, Active
  <2> QED BY <1>1, <1>3, <1>9, <1>10, <1>11, <2>1, Rely

-----------------------------------------------------------------------------
(* The theorems.                                                           *)

\* Every step keeps the invariant.
LEMMA StepKeeps == IInv /\ [Next]_vars => IInv'
<1> SUFFICES ASSUME IInv, [Next]_vars PROVE IInv'
  OBVIOUS
<1>1. CASE UNCHANGED vars
  <2> USE <1>1 DEF vars
  <2>1. Types' /\ Stamps' /\ Present'
    BY DEF IInv, Types, Stamps, Present, Active
  <2>2. \A f, stamp : Witnesses(f, stamp)' = Witnesses(f, stamp)
    BY DEF Witnesses, Agrees
  <2>3. \A print, manifest, open :
          Tells(print, manifest, open)' <=> Tells(print, manifest, open)
    BY <2>2 DEF Tells, Common, Describes, Parts, Ends
  <2>4. InodesTell'
    BY <2>3 DEF IInv, InodesTell
  <2>5. ASSUME NEW s \in Send
        PROVE  Progress(s)' /\ Knowledge(s)'
    <3>1. Progress(s)' /\ PrintHad(s)' /\ Built(s)'
      BY DEF IInv, Progress, Knowledge, PrintHad, Built, IsBuilt, Active, Describes,
             Parts, Ends
    <3>2. Reads(s)'
      BY <2>2 DEF IInv, Knowledge, Reads, Under
    <3>3. Active(s)' => Tells(send[s].print, send[s].manifest, send[s].open)
      BY DEF IInv, Knowledge, Active
    <3> QED BY <2>3, <3>1, <3>2, <3>3 DEF Knowledge
  <2> QED BY <2>1, <2>4, <2>5 DEF IInv
<1>2. CASE \E f \in File : Edits(f)
  BY <1>2, EditKeeps
<1>3. ASSUME NEW s \in Send,
             \/ Begins(s) \/ Loads(s) \/ Creates(s) \/ Writes(s) \/ Renames(s)
             \/ Killed(s) \/ \E f \in File : Prints(s, f) \/ Looks(s, f) \/ Hashes(s, f)
      PROVE  IInv'
  BY <1>3, BeginsKeeps, LoadsKeeps, CreatesKeeps, WritesKeeps, RenamesKeeps,
     KilledKeeps, PrintsKeeps, LooksKeeps, HashesKeeps
<1> QED BY <1>1, <1>2, <1>3 DEF Next, Ended

THEOREM CacheInvariant == Spec => []IInv
BY Initially, StepKeeps, PTL DEF Spec

\* Whatever the sends overlap in, wherever they are killed, and however the files
\* are edited between two reads: each length, hash and end in a manifest, cached
\* or built, is of what the file was between the send's start and its manifest;
\* only a cached one may be older, of a file that got a stamp back
\* (build_with_filters_cached, build_inner, chunk_hashes).
THEOREM ManifestsAreFresh == Spec => []ManifestIsFresh
<1>1. IInv => ManifestIsFresh
  <2> SUFFICES ASSUME IInv, NEW s \in Send, send[s].pc = "sent"
               PROVE  /\ DOMAIN send[s].manifest = InputsOf[s]
                      /\ \A f \in InputsOf[s] : IsBuilt(s) \/ f \notin reused => Fresh(s, f)
    BY DEF ManifestIsFresh
  <2>1. DOMAIN send[s].manifest = InputsOf[s] /\ send[s].open = {} /\ Built(s)
    BY DEF IInv, Progress, Knowledge
  <2> QED BY <2>1 DEF Built, Describes, Fresh
<1> QED BY <1>1, CacheInvariant, PTL

=============================================================================
