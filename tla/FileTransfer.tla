---------------------------- MODULE FileTransfer ----------------------------
(***************************************************************************)
(* One file, one connection at a time: send_file on the sending side,      *)
(* recv_file on the receiving side, the resume plan that starts a session  *)
(* and the files both sides leave on disk between sessions.                *)
(*                                                                         *)
(* A session begins with Connect (the handshake is settled, the manifest   *)
(* is on its way) and ends when both sides rest.  A session that failed is *)
(* followed by another one: `lanx send` goes on listening, `lanx recv`     *)
(* retries.  Between and during sessions the source may be edited, the     *)
(* sender may be restarted and so rebuild its manifest, the destination    *)
(* may be touched by another program, and a connection may be lost.        *)
(***************************************************************************)
EXTENDS FileBytes

CONSTANTS
  Policies,     \* the overwrite policies the receiver may be run with
  MaxRetries,   \* max_retries of both sides
  Sources,      \* the contents the source file can have
  Disks,        \* the contents the destination can be found with
  MaxDrops,     \* bound on lost connections
  MaxEdits,     \* bound on edits of the source
  MaxTouches    \* bound on edits of the destination by other programs

ASSUME TransferAssumption ==
  /\ Policies \subseteq {"resume", "overwrite", "skip", "fail"}
  /\ MaxRetries \in Nat
  /\ Sources \subseteq Content
  /\ Disks \subseteq Content \cup {NoFile}
  /\ MaxDrops \in Nat /\ MaxEdits \in Nat /\ MaxTouches \in Nat

VARIABLES
  policy,   \* the receiver's OverwritePolicy
  source,   \* the file being sent
  entry,    \* what it was when the sender built its manifest
  disk,     \* the destination file
  sidecar,  \* the resume cache beside it
  up,       \* the connection carries messages
  toR, toS, \* messages in flight, to the receiver and to the sender
  snd,      \* the sender's session
  rcv,      \* the receiver's session
  faults,   \* what the environment has done so far, against its bounds
  offered,  \* history: the whole-file hashes announced in FileEnd
  found     \* history: the destination as some other program last left it

wire == <<up, toR, toS>>
files == <<source, entry, disk, sidecar>>
fixed == <<policy, faults, found>>
vars == <<policy, source, entry, disk, sidecar, up, toR, toS, snd, rcv, faults,
          offered, found>>

-----------------------------------------------------------------------------
(* States and messages.                                                    *)

SenderResting == {"idle", "failed", "gaveup", "done"}
SenderStates == SenderResting \cup {"ack", "stream", "verdict"}

ReceiverResting == {"idle", "failed", "reported"}
ReceiverStates ==
  ReceiverResting \cup {"manifest", "start", "chunks", "repair", "drain"}

Outcomes == {"none", "verified", "failed", "skipped"}

\* pc: where the side is; the sender's cur .. end is the range being read and
\* todo the ranges after it; the receiver's need is what it still waits for.
SenderSession ==
  [pc: SenderStates, cur: Nat, end: Nat, todo: SUBSET Nat,
   hash: Content, attempts: 0..MaxRetries]
ReceiverSession ==
  [pc: ReceiverStates, cur: Nat, need: SUBSET Nat,
   hash: Content, attempts: 0..(MaxRetries + 1), outcome: Outcomes]

ToReceiver ==
  [type: {"manifest"}, entry: Content]
    \cup [type: {"start"}, off: Nat]
    \cup [type: {"chunk"}, off: Nat, cells: Content]
    \cup [type: {"end"}, hash: Content]
    \cup [type: {"done"}]
ToSender ==
  [type: {"ack"}, accepted: BOOLEAN, off: Nat]
    \cup [type: {"verdict"}, ok: BOOLEAN]
    \cup [type: {"request"}, starts: SUBSET Nat]

FreshSender(pc) ==
  [pc |-> pc, cur |-> 0, end |-> 0, todo |-> {}, hash |-> << >>, attempts |-> 0]
FreshReceiver(pc, outcome) ==
  [pc |-> pc, cur |-> 0, need |-> {}, hash |-> << >>, attempts |-> 0,
   outcome |-> outcome]

\* A frame written to a dead connection is lost.
Sent(queue, msgs) == IF up THEN queue \o msgs ELSE queue

Init ==
  /\ policy \in Policies
  /\ source \in Sources
  /\ entry = source
  /\ disk \in Disks
  /\ sidecar = NoSidecar
  /\ up = FALSE
  /\ toR = << >> /\ toS = << >>
  /\ snd = FreshSender("idle")
  /\ rcv = FreshReceiver("idle", "none")
  /\ faults = [drops |-> 0, edits |-> 0, touches |-> 0]
  /\ offered = {}
  /\ found = disk

-----------------------------------------------------------------------------
(* The session's start.                                                    *)

\* A retry of the receiver meets a sender that is listening (again).  The
\* sender streams its manifest and waits for the acknowledgement.
Connect ==
  /\ snd.pc \in {"idle", "failed", "gaveup"}
  /\ rcv.pc \in {"idle", "failed"}
  /\ up' = TRUE
  /\ toR' = <<[type |-> "manifest", entry |-> entry]>>
  /\ toS' = << >>
  /\ snd' = FreshSender("ack")
  /\ rcv' = FreshReceiver("manifest", "none")
  /\ UNCHANGED <<files, fixed, offered>>

-----------------------------------------------------------------------------
(* The sender.                                                             *)

\* The next frame the sender reads is of this type.
Hears(type) == toS # << >> /\ Head(toS).type = type

\* Write FileStart and go on to stream from .. end of the file.
Stream(from, hash, attempts, frames) ==
  /\ toR' = Sent(toR, frames)
  /\ snd' = [snd EXCEPT !.pc = "stream", !.cur = from, !.end = Len(entry),
                        !.todo = {}, !.hash = hash, !.attempts = attempts]

StartFrame(off) == [type |-> "start", off |-> off]

SenderStops(pc) ==
  /\ snd' = FreshSender(pc)
  /\ up' = FALSE
  /\ UNCHANGED toR

\* ManifestAck: the file is wanted from an offset, whose prefix the sender
\* hashes first, or it is not and the session is over.
SenderAck ==
  /\ snd.pc = "ack" /\ Hears("ack") /\ Head(toS).accepted
  /\ LET off == Head(toS).off
     IN  Stream(off, HashedPrefix(source, off), 0, <<StartFrame(off)>>)
  /\ toS' = Tail(toS)
  /\ UNCHANGED <<files, up, rcv, fixed, offered>>

SenderDone ==
  /\ \/ snd.pc = "ack" /\ Hears("ack") /\ ~Head(toS).accepted
     \/ snd.pc = "verdict" /\ Hears("verdict") /\ Head(toS).ok
  /\ toS' = Tail(toS)
  /\ toR' = Sent(toR, <<[type |-> "done"]>>)
  /\ snd' = FreshSender("done")
  /\ UNCHANGED <<files, up, rcv, fixed, offered>>

\* The sender's buffer.  (Defect: not limited to a chunk.)
BufferUncapped == BufSize
BufferLen == Smaller(BufSize, ChunkSize)

\* send_chunks, one turn of its loop: read at most one buffer, hash, write.
SenderChunk ==
  /\ snd.pc = "stream" /\ snd.cur < snd.end
  /\ LET want  == Smaller(BufferLen, snd.end - snd.cur)
         cells == Slice(source, snd.cur, snd.cur + want)
     IN  IF cells = << >> THEN SenderStops("failed")  \* the source shrank
         ELSE /\ toR' = Sent(toR, <<[type |-> "chunk", off |-> snd.cur,
                                     cells |-> cells]>>)
              /\ snd' = [snd EXCEPT !.cur = @ + Len(cells), !.hash = @ \o cells]
              /\ UNCHANGED up
  /\ UNCHANGED <<files, toS, rcv, fixed, offered>>

\* send_requested_ranges goes to its next range.
SenderNextRange ==
  /\ snd.pc = "stream" /\ snd.cur = snd.end /\ snd.todo # {}
  /\ LET o == Min(snd.todo)
     IN  snd' = [snd EXCEPT !.cur = o, !.end = ChunkEnd(Len(entry), o),
                            !.todo = @ \ {o}]
  /\ UNCHANGED <<files, wire, rcv, fixed, offered>>

\* Everything asked for is sent: announce the hash of what was hashed.
SenderEnd ==
  /\ snd.pc = "stream" /\ snd.cur = snd.end /\ snd.todo = {}
  /\ toR' = Sent(toR, <<[type |-> "end", hash |-> snd.hash]>>)
  /\ offered' = offered \cup {snd.hash}
  /\ snd' = [snd EXCEPT !.pc = "verdict"]
  /\ UNCHANGED <<files, up, toS, rcv, fixed>>

\* The sender's retries are not used up.  (Defect: one retry more.)
MayRetryOnceMore == snd.attempts <= MaxRetries
MayRetry == snd.attempts < MaxRetries

\* FileVerified with ok = false: send all of the file again, with a new hasher.
SenderResend ==
  /\ snd.pc = "verdict" /\ Hears("verdict") /\ ~Head(toS).ok
  /\ MayRetry
  /\ Stream(0, << >>, snd.attempts + 1, <<StartFrame(0)>>)
  /\ toS' = Tail(toS)
  /\ UNCHANGED <<files, up, rcv, fixed, offered>>

\* FileChunkRequest: send the ranges, with the hasher of the last pass.
SenderRepair ==
  /\ snd.pc = "verdict" /\ Hears("request")
  /\ MayRetry
  /\ snd' = [snd EXCEPT !.pc = "stream", !.cur = 0, !.end = 0,
                        !.todo = Head(toS).starts, !.attempts = @ + 1]
  /\ toS' = Tail(toS)
  /\ UNCHANGED <<files, up, toR, rcv, fixed, offered>>

\* Either of the two when the retries are used up: MaxRetries.
SenderGivesUp ==
  /\ snd.pc = "verdict"
  /\ Hears("request") \/ (Hears("verdict") /\ ~Head(toS).ok)
  /\ ~MayRetry
  /\ SenderStops("gaveup")
  /\ toS' = Tail(toS)
  /\ UNCHANGED <<files, rcv, fixed, offered>>

\* The connection is gone and a read or a write says so.
SenderBroken ==
  /\ ~up /\ snd.pc \notin SenderResting
  /\ snd' = FreshSender("failed")
  /\ UNCHANGED <<files, wire, rcv, fixed, offered>>

-----------------------------------------------------------------------------
(* The receiver.                                                           *)

Gets(type) == toR # << >> /\ Head(toR).type = type

ReceiverStops ==
  /\ rcv' = FreshReceiver("failed", "none")
  /\ up' = FALSE

\* The Fail policy meets a destination that exists.
Conflicts == policy = "fail" /\ disk # NoFile

\* Nothing to fetch under the policy: the file is complete, or it exists and
\* existing files are left alone.  (Defect: the policy is not looked at.)
SkipsComplete(point) == point.complete
Skips(point) ==
  \/ policy # "overwrite" /\ point.complete
  \/ policy = "skip" /\ disk # NoFile

\* resume::plan and what the policy makes of it.
PlannedPoint ==
  LET point == ResumePoint(entry, disk, sidecar)
  IN  IF policy = "overwrite" THEN [point EXCEPT !.off = 0, !.hash = << >>]
      ELSE point

\* Chunks the sidecar vouches for.  (Defect: it counts the one to come.)
OneMoreChunk(point) == Len(point.hash) \div ChunkSize + 1
VerifiedChunks(point) == Len(point.hash) \div ChunkSize

Ack(accepted, off) ==
  toS' = Sent(toS, <<[type |-> "ack", accepted |-> accepted, off |-> off]>>)

\* The manifest is read and approved: refuse it, skip the file, whose sidecar
\* goes, or ask for it, after noting the prefix that is kept in the sidecar.
ReceiverManifest ==
  /\ rcv.pc = "manifest" /\ Gets("manifest")
  /\ toR' = Tail(toR)
  /\ LET point  == PlannedPoint
         chunks == VerifiedChunks(point)
     IN  \/ /\ Conflicts
            /\ ReceiverStops
            /\ UNCHANGED <<toS, sidecar>>
         \/ /\ ~Conflicts /\ Skips(point)
            /\ Ack(FALSE, 0)
            /\ sidecar' = NoSidecar
            /\ rcv' = FreshReceiver("drain", "skipped")
            /\ UNCHANGED up
         \/ /\ ~Conflicts /\ ~Skips(point)
            /\ Ack(TRUE, point.off)
            /\ sidecar' = IF chunks = 0 THEN sidecar
                          ELSE [size |-> Len(entry), chunks |-> chunks]
            /\ rcv' = [rcv EXCEPT !.pc = "start", !.hash = point.hash]
            /\ UNCHANGED up
  /\ UNCHANGED <<source, entry, disk, snd, fixed, offered>>

\* FileStart opens the destination at the offset the sender names.
ReceiverStart ==
  /\ rcv.pc = "start" /\ Gets("start")
  /\ LET off == Head(toR).off
     IN  /\ disk' = OpenForResume(disk, off, Len(entry))
         /\ rcv' = [rcv EXCEPT !.pc = "chunks", !.cur = off]
  /\ toR' = Tail(toR)
  /\ UNCHANGED <<source, entry, sidecar, up, toS, snd, fixed, offered>>

\* What the chunk loops of recv_full_file and of recv_chunk_repair accept.
NextInOrder(m) == m.off = rcv.cur /\ Len(m.cells) <= ChunkSize
Requested(m) ==
  /\ m.off \in rcv.need
  /\ Len(m.cells) = ChunkEnd(Len(entry), m.off) - m.off

\* A chunk of a full pass is hashed and appended.
ReceiverChunk ==
  /\ rcv.pc = "chunks" /\ rcv.cur < Len(entry)
  /\ Gets("chunk") /\ NextInOrder(Head(toR))
  /\ LET m == Head(toR)
     IN  /\ disk' = WriteAt(disk, rcv.cur, m.cells)
         /\ rcv' = [rcv EXCEPT !.cur = @ + Len(m.cells), !.hash = @ \o m.cells]
  /\ toR' = Tail(toR)
  /\ UNCHANGED <<source, entry, sidecar, up, toS, snd, fixed, offered>>

\* A chunk of a repair is written in place; the hasher is not told.
ReceiverRepairChunk ==
  /\ rcv.pc = "repair" /\ rcv.need # {}
  /\ Gets("chunk") /\ Requested(Head(toR))
  /\ LET m == Head(toR)
     IN  /\ disk' = WriteAt(disk, m.off, m.cells)
         /\ rcv' = [rcv EXCEPT !.need = @ \ {m.off}]
  /\ toR' = Tail(toR)
  /\ UNCHANGED <<source, entry, sidecar, up, toS, snd, fixed, offered>>

\* All chunks of the pass are in and FileEnd follows.
PassEnds ==
  /\ \/ rcv.pc = "chunks" /\ rcv.cur >= Len(entry)
     \/ rcv.pc = "repair" /\ rcv.need = {}
  /\ Gets("end")

\* What the receiver compares its hash with: the hasher that saw the pass, or after
\* a repair the whole file read back from disk.
LocalHash == IF rcv.pc = "repair" THEN disk ELSE rcv.hash

Verdict(ok) == toS' = Sent(toS, <<[type |-> "verdict", ok |-> ok]>>)

ReceiverVerified ==
  /\ PassEnds /\ LocalHash = Head(toR).hash
  /\ Verdict(TRUE)
  /\ sidecar' = NoSidecar
  /\ rcv' = FreshReceiver("drain", "verified")
  /\ toR' = Tail(toR)
  /\ UNCHANGED <<source, entry, disk, up, snd, fixed, offered>>

\* No further attempt is made.  (Defect: one attempt fewer.)
ExhaustedEarly(attempts) == attempts >= MaxRetries
Exhausted(attempts) == attempts >= MaxRetries + 1

\* Expect all of the file again, with a new hasher.  (Defect: the old one.)
ExpectResendKeepingHash == [rcv EXCEPT !.pc = "start"]
ExpectResend == [rcv EXCEPT !.pc = "start", !.hash = << >>]

\* A full pass does not verify: ask for the damaged chunks, or for the whole
\* file when none can be named.
ReceiverMismatch ==
  /\ rcv.pc = "chunks"
  /\ PassEnds /\ LocalHash # Head(toR).hash
  /\ LET bad == BadStarts(entry, disk)
     IN  \/ /\ bad # {}
            /\ toS' = Sent(toS, <<[type |-> "request", starts |-> bad]>>)
            /\ rcv' = [rcv EXCEPT !.pc = "repair", !.need = bad, !.attempts = @ + 1]
         \/ /\ bad = {}
            /\ Verdict(FALSE)
            /\ rcv' = IF Exhausted(rcv.attempts + 1)
                      THEN FreshReceiver("drain", "failed")
                      ELSE [ExpectResend EXCEPT !.attempts = @ + 1]
  /\ toR' = Tail(toR)
  /\ UNCHANGED <<source, entry, disk, sidecar, up, snd, fixed, offered>>

\* Nor does the repaired file: have all of it sent again.  A receiver whose
\* attempts are used up returns without a word to the sender.
ReceiverUnrepaired ==
  /\ rcv.pc = "repair"
  /\ PassEnds /\ LocalHash # Head(toR).hash
  /\ IF Exhausted(rcv.attempts)
     THEN /\ rcv' = FreshReceiver("drain", "failed")
          /\ UNCHANGED toS
     ELSE /\ Verdict(FALSE)
          /\ rcv' = ExpectResend
  /\ toR' = Tail(toR)
  /\ UNCHANGED <<source, entry, disk, sidecar, up, snd, fixed, offered>>

\* Done, or the connection closed by a sender that is finished, ends the
\* session; any other frame is passed over.
ReceiverDrain ==
  /\ rcv.pc = "drain"
  /\ \/ /\ toR # << >>
        /\ toR' = Tail(toR)
        /\ rcv' = IF Head(toR).type = "done" THEN [rcv EXCEPT !.pc = "reported"]
                  ELSE rcv
     \/ /\ toR = << >> /\ ~up
        /\ rcv' = [rcv EXCEPT !.pc = "reported"]
        /\ UNCHANGED toR
  /\ up' = (up /\ rcv'.pc # "reported")
  /\ UNCHANGED <<files, toS, snd, fixed, offered>>

\* What the receiver's next read_frame takes without an error.
Acceptable(m) ==
  CASE rcv.pc = "manifest" -> m.type = "manifest"
    [] rcv.pc = "start"    -> m.type = "start"
    [] rcv.pc = "chunks"   ->
         IF rcv.cur < Len(entry) THEN m.type = "chunk" /\ NextInOrder(m)
         ELSE m.type = "end"
    [] rcv.pc = "repair"   ->
         IF rcv.need # {} THEN m.type = "chunk" /\ Requested(m) ELSE m.type = "end"
    [] OTHER -> TRUE

\* A frame that is not the one due: ProtocolError::Unexpected.
ReceiverRefuses ==
  /\ rcv.pc \notin ReceiverResting
  /\ toR # << >> /\ ~Acceptable(Head(toR))
  /\ ReceiverStops
  /\ toR' = Tail(toR)
  /\ UNCHANGED <<files, toS, snd, fixed, offered>>

ReceiverBroken ==
  /\ ~up /\ rcv.pc \notin ReceiverResting \cup {"drain"}
  /\ rcv' = FreshReceiver("failed", "none")
  /\ UNCHANGED <<files, wire, snd, fixed, offered>>

-----------------------------------------------------------------------------
(* The environment.                                                        *)

Drop ==
  /\ up /\ faults.drops < MaxDrops
  /\ up' = FALSE
  /\ faults' = [faults EXCEPT !.drops = @ + 1]
  /\ UNCHANGED <<policy, files, toR, toS, snd, rcv, offered, found>>

\* The source is written to, at any time.
EditSource ==
  /\ faults.edits < MaxEdits
  /\ \E c \in Sources \ {source} : source' = c
  /\ faults' = [faults EXCEPT !.edits = @ + 1]
  /\ UNCHANGED <<policy, entry, disk, sidecar, wire, snd, rcv, offered, found>>

\* `lanx send` is started anew and builds its manifest.  The receiver keeps
\* the entry it was sent, so nothing is lost by letting it come to rest first.
RebuildManifest ==
  /\ snd.pc \in {"idle", "failed", "gaveup"} /\ rcv.pc \in ReceiverResting
  /\ entry # source
  /\ entry' = source
  /\ UNCHANGED <<source, disk, sidecar, wire, snd, rcv, fixed, offered>>

\* Another program writes the destination between two sessions.
TouchDisk ==
  /\ faults.touches < MaxTouches /\ rcv.pc \in {"idle", "failed"}
  /\ \E c \in Disks \ {disk} : disk' = c /\ found' = c
  /\ faults' = [faults EXCEPT !.touches = @ + 1]
  /\ UNCHANGED <<policy, source, entry, sidecar, wire, snd, rcv, offered>>

-----------------------------------------------------------------------------
Sender ==
  SenderAck \/ SenderDone \/ SenderChunk \/ SenderNextRange \/ SenderEnd
    \/ SenderResend \/ SenderRepair \/ SenderGivesUp \/ SenderBroken

Receiver ==
  ReceiverManifest \/ ReceiverStart \/ ReceiverChunk \/ ReceiverRepairChunk
    \/ ReceiverVerified \/ ReceiverMismatch \/ ReceiverUnrepaired
    \/ ReceiverDrain \/ ReceiverRefuses \/ ReceiverBroken

Environment == Drop \/ EditSource \/ RebuildManifest \/ TouchDisk

\* Both commands have exited.
Finished ==
  /\ snd.pc \in SenderResting /\ rcv.pc = "reported"
  /\ UNCHANGED vars

Next == Connect \/ Sender \/ Receiver \/ Environment \/ Finished

Spec == Init /\ [][Next]_vars

\* Both tasks run and a receiver whose session failed retries; nothing is
\* owed by the environment.
FairSpec == Spec /\ WF_vars(Sender) /\ WF_vars(Receiver) /\ WF_vars(Connect)

-----------------------------------------------------------------------------
(* Properties.                                                             *)

\* Every variable has the type its declaration says.
TypeOK ==
  /\ policy \in Policies
  /\ source \in Content /\ entry \in Content
  /\ disk \in {NoFile} \cup Content
  /\ sidecar \in {NoSidecar} \cup [size: Nat, chunks: Nat]
  /\ up \in BOOLEAN
  /\ toR \in Seq(ToReceiver) /\ toS \in Seq(ToSender)
  /\ snd \in SenderSession
  /\ rcv \in ReceiverSession
  /\ faults \in [drops: 0..MaxDrops, edits: 0..MaxEdits, touches: 0..MaxTouches]
  /\ offered \subseteq Content
  /\ found \in {NoFile} \cup Content

\* A file the receiver reports verified is, cell for cell, one whose hash the
\* sender announced: the hasher kept across a resume, a truncation, a resend or
\* a repair has not drifted from what is on disk.
VerifiedIsOffered == rcv.outcome = "verified" => disk \in offered

\* As long as nobody edits the source, it is the source.
VerifiedIsSource ==
  rcv.outcome = "verified" /\ faults.edits = 0 => disk = source

\* Nobody has changed the source or the destination behind the program's back.
Undisturbed == faults.edits = 0 /\ faults.touches = 0

\* A file is reported complete, with nothing sent, only when it matches the
\* manifest, as long as nothing but the network fails (compute_resume_point).
SkippedMatches ==
  policy = "resume" /\ rcv.outcome = "skipped" /\ Undisturbed => disk = entry

\* What a sidecar that would be trusted claims of the destination is so, as long
\* as nothing but the network fails.
SidecarIsHonest ==
  Undisturbed /\ SidecarValid(sidecar, entry, disk) =>
    LET n == Smaller(ClaimedPrefix(sidecar), Len(entry))
    IN  Slice(disk, 0, n) = Slice(entry, 0, n)

\* Never do both ends read with nothing left to read: some frame is on its
\* way to a side that waits, or the connection is known to be gone.
WaitsForFrame(pc) ==
  pc \in {"manifest", "start", "chunks", "repair", "drain", "ack", "verdict"}
NoMutualWait ==
  up /\ WaitsForFrame(snd.pc) /\ WaitsForFrame(rcv.pc) =>
    toR # << >> \/ toS # << >>

\* A read buffer holds a chunk and the source keeps its length, so a chunk that
\* is asked for comes in one piece.
RepairsFit == BufSize >= ChunkSize /\ \A c, d \in Sources : Len(c) = Len(d)

\* The receiver is not sent a frame other than the one it waits for.
InStep == rcv.pc \notin ReceiverResting /\ toR # << >> => Acceptable(Head(toR))

\* Under the policies that keep existing files, what another program left at the
\* destination is never written to: "Leave every existing destination
\* untouched" (README).
ExistingUntouched ==
  policy \in {"skip", "fail"} /\ found # NoFile => disk = found

\* Under `resume`, a prefix found to match the manifest is never lost again to
\* drops and retries.
VerifiedPrefixKept ==
  [][policy = "resume" /\ Undisturbed' =>
       VerifiedPrefix(entry, OnDisk(disk)) <= VerifiedPrefix(entry, OnDisk(disk'))]_disk

\* With faults bounded, retries end with the file delivered.
Delivered == rcv.pc = "reported" /\ rcv.outcome \in {"verified", "skipped"}
EventuallyDelivered == <>Delivered

\* The protocol keeps the promise of Delivery: a transfer settles once, on
\* content that was announced, the destination stays as it is from then on, and
\* the sender is done only with a file the receiver has.
Promise ==
  INSTANCE Delivery WITH status <- rcv.outcome, received <- disk,
                         announced <- offered, confirmed <- snd.pc = "done"
PromiseKept == Promise!Spec

-----------------------------------------------------------------------------
(* Why VerifiedIsOffered holds: the two sides speak in turns, so the frames *)
(* in flight belong to the pass the receiver is in, and the hasher of that  *)
(* pass covers what is on disk.                                             *)

Reading == {"start", "chunks", "repair"}

\* At most one answer is in flight, and none that the receiver's state has
\* left behind; while it is, the sender is not sending.
Turns ==
  /\ toS # << >> => Len(toS) = 1
  /\ rcv.pc = "manifest" =>
       toS = << >> /\ Len(toR) <= 1 /\ snd.pc \in {"ack", "failed"}
  /\ rcv.pc = "chunks" => toS = << >>
  /\ rcv.pc \in Reading /\ toS # << >> => toR = << >> /\ snd.pc # "stream"

\* An answer that makes the sender start a pass starts it where the
\* receiver's hasher stands.
Answers ==
  toS # << >> =>
    LET m == Head(toS)
    IN  /\ rcv.pc = "start" /\ m.type = "ack" => m.off = Len(rcv.hash)
        /\ rcv.pc = "start" /\ m.type = "verdict" => rcv.hash = << >>
        /\ rcv.pc = "repair" => m.type = "request"

\* An answer that ends the session comes from a receiver that has settled.
Settlements ==
  toS # << >> =>
    LET m == Head(toS)
    IN  /\ m.type = "ack" /\ ~m.accepted => rcv.outcome = "skipped"
        /\ m.type = "verdict" /\ m.ok => rcv.outcome = "verified"

\* FileStart opens the pass the receiver waits for, FileEnd closes it.
StartsOnTime ==
  \A i \in DOMAIN toR :
    toR[i].type = "start" /\ rcv.pc \notin ReceiverResting \cup {"drain"} =>
      rcv.pc = "start" /\ i = 1 /\ toR[i].off = Len(rcv.hash)
EndsOnTime ==
  \A i \in DOMAIN toR :
    toR[i].type = "end" =>
      /\ toR[i].hash \in offered
      /\ rcv.pc \in Reading => i = Len(toR) /\ snd.pc # "stream"

\* The receiver's hasher covers a prefix of the destination; past it there is
\* only what set_len kept.
HasherCoversDisk ==
  /\ rcv.pc = "start" =>
       Begins(OnDisk(disk), rcv.hash) /\ Len(rcv.hash) <= Len(entry)
  /\ rcv.pc \in {"chunks", "repair"} => disk \in Content
  /\ rcv.pc = "chunks" =>
       /\ Begins(disk, rcv.hash)
       /\ Len(rcv.hash) = rcv.cur
       /\ Len(disk) \in {rcv.cur, Len(entry)}

\* Only a session that is over has an outcome, and every pass has a retry left.
OutcomeIsFinal ==
  /\ rcv.outcome # "none" => rcv.pc \in {"drain", "reported"}
  /\ rcv.pc \in {"manifest", "start", "chunks"} => rcv.attempts <= MaxRetries

\* All of it: with TypeOK and VerifiedIsOffered, an inductive invariant.
PassesInStep ==
  /\ Turns /\ Answers /\ Settlements /\ StartsOnTime /\ EndsOnTime
  /\ HasherCoversDisk /\ OutcomeIsFinal

-----------------------------------------------------------------------------
(* Why the other invariants hold.                                           *)

\* The sender streams all of the file, and has hashed what it has read of it.
FullPass ==
  /\ snd.todo = {} /\ snd.end = Len(entry)
  /\ snd.cur <= snd.end /\ Len(snd.hash) = snd.cur
  /\ Begins(source, snd.hash)

\* No chunk reaches past the end of the manifest entry, and so no destination.
InBounds ==
  /\ snd.pc = "stream" => snd.end <= Len(entry)
  /\ rcv.pc \in Reading =>
       \A i \in DOMAIN toR :
         toR[i].type = "chunk" => toR[i].off + Len(toR[i].cells) <= Len(entry)
  /\ rcv.pc \in {"chunks", "repair"} => Len(disk) <= Len(entry)

\* As long as nobody edits the source, what the sender announces begins with it:
\* a full pass has hashed all of it, a repair has added to that.
HashesSource ==
  faults.edits = 0 =>
    /\ source = entry
    /\ rcv.pc \in Reading =>
         /\ snd.pc = "stream" => FullPass \/ Begins(snd.hash, source)
         /\ snd.pc = "verdict" => Begins(snd.hash, source)
         /\ \A i \in DOMAIN toR :
              toR[i].type = "end" => Begins(toR[i].hash, source)

\* With both, VerifiedIsSource is inductive.
PassesHashSource == InBounds /\ HashesSource

\* While the connection is up the receiver is in its session, the sender stays
\* in it as long as the receiver reads, and whichever waits is owed a frame.
FramesOwed ==
  /\ rcv.pc \notin ReceiverResting
  /\ rcv.pc \in Reading \cup {"manifest"} => snd.pc \notin SenderResting
  /\ snd.pc = "ack" => toS # << >> \/ (rcv.pc = "manifest" /\ toR # << >>)
  /\ snd.pc = "stream" => toS = << >> /\ rcv.pc \in Reading
  /\ snd.pc = "verdict" =>
       \/ toS # << >>
       \/ rcv.pc \in Reading /\ toR # << >> /\ toR[Len(toR)].type = "end"

\* The sender hears what it waits for, from a receiver that waits for what the
\* sender will do about it.
AnswersFit ==
  toS # << >> =>
    LET m == Head(toS)
    IN  /\ m.type = "ack" =>
             snd.pc = "ack" /\ rcv.pc = IF m.accepted THEN "start" ELSE "drain"
        /\ m.type = "request" => snd.pc = "verdict" /\ rcv.pc = "repair"
        /\ m.type = "verdict" =>
             /\ snd.pc = "verdict"
             /\ rcv.pc \in {"start", "drain"}
             /\ rcv.pc = "drain" => m.ok \/ ~MayRetry

\* The receiver has not counted more attempts than the sender has made, and the
\* one it is about to ask for.
AttemptsAgree ==
  /\ rcv.pc = "manifest" \/ (toS # << >> /\ Head(toS).type = "ack") =>
       rcv.attempts = 0
  /\ rcv.pc \in Reading =>
       rcv.attempts <= snd.attempts + (IF toS = << >> THEN 0 ELSE 1)

\* An inductive strengthening of NoMutualWait.
AnswerOwed == up => FramesOwed /\ AnswersFit /\ AttemptsAgree

\* Where a frame takes the pass, and the frame that is due there.
Reach(m) == IF m.type = "chunk" THEN m.off + Len(m.cells) ELSE m.off
Follows(m, at) ==
  \/ m.type = "chunk" /\ m.off = at /\ Len(m.cells) \in 1..ChunkSize
  \/ m.type = "end" /\ at = Len(entry)

\* The frames of a full pass come in order, from where the receiver is to where
\* the sender is.
PassInOrder ==
  rcv.pc \in {"start", "chunks"} =>
    /\ toR # << >> => IF rcv.pc = "start" THEN toR[1].type = "start"
                      ELSE Follows(toR[1], rcv.cur)
    /\ \A i \in DOMAIN toR : i > 1 => Follows(toR[i], Reach(toR[i - 1]))
    /\ up /\ snd.pc = "stream" =>
         /\ snd.todo = {} /\ snd.end = Len(entry)
         /\ snd.cur = IF toR # << >> THEN Reach(toR[Len(toR)]) ELSE rcv.cur
         /\ rcv.pc = "start" => toR # << >>

\* The chunks of a repair come once each, and all of them do: what the receiver
\* needs is in flight, or the sender has it before it.
InFlight(o) == \E i \in DOMAIN toR : toR[i].type = "chunk" /\ toR[i].off = o
Ahead(o) == o \in snd.todo \/ (o = snd.cur /\ snd.cur < snd.end)
RepairInOrder ==
  rcv.pc = "repair" =>
    /\ rcv.need \subseteq ChunkStarts(Len(entry))
    /\ \A i \in DOMAIN toR :
         \/ /\ toR[i].type = "chunk" /\ Requested(toR[i])
            /\ \A j \in DOMAIN toR :
                 toR[j].type = "chunk" /\ toR[j].off = toR[i].off => j = i
         \/ toR[i].type = "end" /\ \A o \in rcv.need : InFlight(o)
    /\ up /\ toS # << >> => Head(toS).starts = rcv.need
    /\ up /\ snd.pc = "stream" =>
         /\ \A o \in rcv.need : InFlight(o) \/ Ahead(o)
         /\ \A o \in snd.todo \cup {snd.cur} : Ahead(o) => o \in rcv.need /\ ~InFlight(o)
         /\ snd.cur < snd.end =>
              snd.cur \notin snd.todo /\ snd.end = ChunkEnd(Len(entry), snd.cur)

\* The frames in flight are those of the pass, in its order; nothing but the manifest
\* comes before the first.
FramesInOrder ==
  /\ rcv.pc = "manifest" => \A i \in DOMAIN toR : toR[i].type = "manifest"
  /\ PassInOrder /\ RepairInOrder

\* If RepairsFit, the receiver is never sent a frame other than the one it waits for,
\* because the frames in flight are those of its pass, in its order.
FramesInStep == FramesInOrder /\ InStep

\* What a sidecar of this entry claims of the destination is so, as far as the
\* destination goes.
ClaimHolds ==
  sidecar # NoSidecar /\ disk # NoFile /\ sidecar.size = Len(entry) =>
    \A i \in 1..Smaller(ClaimedPrefix(sidecar), Len(entry)) :
      i <= Len(disk) => disk[i] = entry[i]

\* A sidecar claims a chunk or more, and, once the plan is made, no more than the
\* hasher covers.
ClaimCovered ==
  /\ sidecar # NoSidecar => sidecar.chunks > 0
  /\ rcv.pc = "start" /\ rcv.hash # << >>
       /\ sidecar # NoSidecar /\ sidecar.size = Len(entry) =>
         Smaller(ClaimedPrefix(sidecar), Len(entry)) <= Len(rcv.hash)

\* The pass the receiver reads is the first of its session and carries the
\* manifest's cells: no repair, no second pass.
FirstPass ==
  /\ rcv.pc # "repair"
  /\ Begins(entry, rcv.hash)
  /\ snd.pc = "stream" => FullPass
  /\ snd.pc = "verdict" => snd.hash = source
  /\ toS # << >> => Head(toS).type = "ack"
  /\ \A i \in DOMAIN toR :
       /\ toR[i].type = "end" => toR[i].hash = source
       /\ toR[i].type = "chunk" =>
            \A j \in DOMAIN toR[i].cells : toR[i].cells[j] = entry[toR[i].off + j]

\* It starts over only where nothing of the destination can be kept.
StartsOverOnNothing ==
  policy = "resume" /\ rcv.pc = "start" /\ rcv.hash = << >> =>
    VerifiedPrefix(entry, OnDisk(disk)) = 0

\* With PassesHashSource an inductive strengthening of SkippedMatches and
\* SidecarIsHonest, from which VerifiedPrefixKept follows: as long as nothing
\* but the network fails, the first pass of every session verifies.
FirstPassVerifies ==
  /\ ClaimCovered
  /\ Undisturbed =>
       /\ ClaimHolds
       /\ rcv.pc \in Reading => FirstPass /\ StartsOverOnNothing

\* The four together: the two sides agree on the pass they are in, on what its hash
\* is of and on who is to speak, and a session that nothing but the network disturbs
\* needs one pass.
SessionSound == PassesInStep /\ PassesHashSource /\ AnswerOwed /\ FirstPassVerifies

-----------------------------------------------------------------------------
(* What documents and comments say, and the code does not do.              *)

\* A file is skipped as complete only when it matches the manifest: "skips files
\* that already match" (README), whatever has happened to it since the last try.
CompleteIsMatch == policy = "resume" /\ rcv.outcome = "skipped" => disk = entry

\* The hash announced after a repair, too, is the hash of the whole file (doc
\* of send_requested_ranges).
AnnouncedIsWholeFile ==
  faults.edits = 0 =>
    \A i \in DOMAIN toR : toR[i].type = "end" => toR[i].hash = source
=============================================================================
