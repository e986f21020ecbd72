# A verification project for lanx

lanx sends files between two machines: `lanx send` offers files under a pairing
code, `lanx recv` finds the sender (by LAN discovery, an address, or a relay),
both open one or several TCP connections, encrypt them, and run a transfer
protocol over each. This directory holds TLA+ models of the parts of lanx where
the order of events decides whether the right bytes end up on disk, the TLC
configurations that check them, and proofs of the main results.

Paths below are relative to the repository's root.

## 1. Inventory

| Part | Source | State it keeps | Operations | Hard behaviour |
|---|---|---|---|---|
| Transfer protocol | `lanx-core/src/transfer/{sender,receiver,mod}.rs` | per file: offset, hasher, attempts on both sides; frames in flight | handshake, manifest, acknowledgement, full pass, verdict, chunk repair, resend, give up, `Done` | two processes that must agree whose turn it is; a lost connection at any frame; a source or destination that changes under them |
| Resume planning | `lanx-core/src/resume.rs` | none (reads disk and sidecar) | `plan`, `compute_resume_point` | trusts what an earlier session, or another program, left behind |
| Sidecar | `lanx-core/src/sidecar.rs` | a JSON file beside the destination | `read`, `write`, `remove`, `is_valid_for` | outlives the session, the manifest and the file it describes |
| Hashing | `lanx-core/src/hashing.rs` | hasher state | `update`, `finalize`, `chunk_hashes` | used incrementally across resume and retry |
| Destinations | `lanx-core/src/destinations.rs` | the directory | `resolve_destinations`, `next_available_path`, `preview_conflicts` | decided anew on every retry and on every parallel connection |
| Manifest | `lanx-core/src/manifest.rs` | a cache file | `build`, validation, cache | stale cache; colliding names |
| Noise pump | `lanx-core/src/crypto.rs` | cipher state, two byte streams | `run_pump` | one `select!` over two directions, cancelled reads |
| Relay server | `lanx-net/src/relay.rs` | pending senders, session count, waiters, failure counts | register, pair, return to pending, copy, expire | many tasks around one lock that is released in the middle of a decision |
| Receiver command | `lanx-cli/src/cmd/recv.rs` | attempt count, negotiated parallelism | retry loop, parallel connections, route order, report aggregation | races between negotiation and completion; partial failure |
| Sender command | `lanx-cli/src/cmd/send.rs` | listener, rounds, automatic routes | accept loop, parallel rounds, relay registration, automatic routes behind a gate | several routes at once; grace windows; a fixed lifetime |
| TCP helpers | `lanx-net/src/tcp.rs` | accept deadline | `GracefulListener`, dialing | window shared by several accepts |
| Pairing, discovery, SOCKS5, output, command line | `lanx-net/src/{pairing,discovery,interfaces,socks}.rs`, `lanx-cli/src/*` | little or none | encoding, UDP, one handshake, rendering | none that a transfer's result depends on |

How they interact: the commands own the connections; each connection runs
`run_sender` against `run_receiver` as message passing over a byte stream (the
pump, sometimes through the relay). The two sides share nothing else. Sessions
communicate with later sessions only through the disk: the destination file and
its sidecar on one side, the source file and the manifest on the other. Parallel
connections of one attempt share the output directory, the approval answer and
the progress display.

What makes each part correct:

- *Transfer protocol*: what is reported verified is what was sent; neither side
  waits for the other for ever; a file is delivered in the end if the faults end.
- *Resume, sidecar*: what is kept from an earlier session is right, what is
  skipped is complete, progress is not lost.
- *Destinations, policies*: what the user said must be kept is kept; what lanx
  itself left unfinished is finished.
- *Relay*: a code has at most one sender, a registration replaces nobody, sessions
  stay within their limit and their count comes back to zero.
- *Commands*: success means every file of every connection was delivered.
- *Pump*: bytes arrive once, in order, or the connection ends.

`PROJECT.json` lists the hazards, each at its line, with the properties that
would catch it.

## 2. Plan

| Order | Module | Models | Status |
|---|---|---|---|
| 1 | `FileBytes` | contents, chunk grid, resume point, damaged chunks | done |
| 2 | `FileTransfer` | one file, session after session | done, safety proved |
| 3 | `Delivery` | what a transfer promises; `FileTransfer` implements it | done, refinement proved |
| 4 | `Relay` | registration, pairing, session slots, expiry | done, safety proved |
| 5 | `RelaySession` | the copy of one session | done, safety proved |
| 6 | `ParallelSession` | negotiation, shards, rounds, attempts, consent, report aggregation | done, safety proved |
| 7 | `AutoRoutes` | automatic routes, gate, lifetime, route order | done, safety proved |
| 8 | `Manifest`, `Destinations` | rel_paths, collisions, filters, sources; destination paths, policies | done (operators) |
| 9 | `Placement` | composes 8: from the sender's tree to the receiver's disk, several connections and attempts | done, safety proved |
| 10 | `ManifestCache` | fingerprint and cache, several sends at a time | done, its invariant proved |
| 11 | `Pump` | the two directions, cancelled reads, shutdown | done, safety proved |

A module gets a passing run before it gets one for a disagreement, and questions
that fit the same instance share a run, as in `transfer_safety`.

Every invariant and every action property that a passing run checks is also a
theorem, for every value of the constants (`FramesInStep` for those with
`RepairsFit`, section 3). What stays with TLC is liveness under fairness, which is
out of the prover's reach:

| Run | Property | What it says |
|---|---|---|
| `transfer_live` | `EventuallyDelivered` | retries end with the file delivered |
| `relay_live` | `EveryoneAnswered` | no task of the relay waits for ever, no slot is kept for ever |
| `session_copy` | `SessionEnds` | a relayed session ends |
| `parallel` | `BothEnd`, `CleanRunDelivers` | both commands exit; without trouble everything arrives |
| `auto_routes` | `RetriesDeliver` | a receiver that keeps trying is served |
| `pump` | `ConversationEnds` | every turn is heard to its end |

`RenamedApart` (section 10) has a run of its own, which must find it violated.

## 3. The transfer of one file

### Modules

- `FileBytes` – the data. A file is a sequence of *cells*; a cell is a block of
  bytes that is always read and written as one. A hash is the content that was
  hashed (BLAKE3 is taken to be free of collisions), the state of an incremental
  hasher is everything fed to it. Operators follow `open_for_resume`,
  `compute_resume_point`, `Sidecar::is_valid_for` and `find_bad_ranges`.
- `FileTransfer` – the two sides, the wire and the disk.
- `Delivery` – the abstract specification.
- `MCFileTransfer` – the small instances.
- `FileTransferProofs` – the proofs: the operators of `FileBytes` first, then the
  invariants.

### State and actions

`snd.pc` is where `run_sender`/`send_file` is: waiting for `ManifestAck`
(`ack`), in `send_chunks` (`stream`), waiting for the receiver's answer
(`verdict`). `rcv.pc` is where `run_receiver`/`recv_file` is: before the manifest
is handled, before `FileStart`, in the chunk loop of `recv_full_file`, in that of
`recv_chunk_repair`, and in the final wait for `Done` (`drain`). A session that
failed leaves its side in `failed`; `gaveup` is the sender's `MaxRetries` error.

| Action | Code |
|---|---|
| `Connect` | a retry of the receiver reaches a listening sender; both Hellos and the manifest |
| `SenderAck`, `SenderDone` | `ManifestAck`, and the file or `Done` after it |
| `SenderChunk`, `SenderNextRange`, `SenderEnd` | `send_chunks`, the loop of `send_requested_ranges`, `FileEnd` |
| `SenderResend`, `SenderRepair`, `SenderGivesUp` | the answers in the loop of `send_file` |
| `ReceiverManifest` | policy check, resume plan, acknowledgement, and the sidecar written or removed before the file |
| `ReceiverStart`, `ReceiverChunk`, `ReceiverRepairChunk` | `open_for_resume` and the two chunk loops |
| `ReceiverVerified`, `ReceiverMismatch`, `ReceiverUnrepaired` | the outcomes of a pass in `recv_file` |
| `ReceiverDrain`, `ReceiverRefuses`, `SenderBroken`, `ReceiverBroken` | end of session, protocol error, I/O error |
| `Drop`, `EditSource`, `TouchDisk`, `RebuildManifest` | the environment: connection lost, source edited at any time, destination edited between sessions, `lanx send` started again |

One action is one frame, or one turn of a loop that reads and writes the disk,
because that is the grain at which the other side, another program or a lost
connection can interfere. `offered` (announced hashes) and `found` (the
destination as another program last left it) are history variables: no guard
reads them.

### Runs

Chunks are two cells. The file is two chunks, or one and a half; its versions
differ in the first chunk, the last one, or in length; destinations are absent,
partial at and inside a chunk, damaged, or too long. That is the least that has
a chunk before and a chunk after every interesting position. `transfer_safety`
has two lost connections: one makes every state of a session the start of
another, two give a session between two others. With them there may be one edit
of the source, at any time, and one of the destination, between sessions.

| Run | Shows |
|---|---|
| `transfer_safety` | With every kind of fault, under all four policies: `VerifiedIsOffered`, `VerifiedIsSource`, `NoMutualWait`, `ExistingUntouched` (skip and fail leave what others wrote), the inductive invariants of the proofs together (`SessionSound`), and the refinement `PromiseKept`; as long as nobody else touches the two files also `SkippedMatches`, `SidecarIsHonest` and `VerifiedPrefixKept`. |
| `transfer_live` | Requests limited to one range and a read buffer larger than a chunk: the receiver never refuses a frame (`FramesInStep`, with its reason: the frames in flight are in order), the file is delivered in the end (`EventuallyDelivered`). |

The last three of `transfer_safety` say `Undisturbed`, because the code promises
nothing else: a sidecar is trusted without a look at the file (section 10).

### Fairness

`FairSpec` is weak fairness of the sender's steps, of the receiver's steps and of
`Connect`. The first two hold because each side is a task that is scheduled when
its stream is ready. `Connect` stands for the receiver's retry loop and the
sender's listening again: `recv.rs` makes five attempts (unlimited with
`--retry-forever`), and the runs' faults are fewer than that; `send.rs` keeps the
port open for 60 seconds, the receiver's back-off is at most 8. The environment
is not fair: a fault need never happen. A sender that has given up
(`MaxRetries`) also accepts a new session, as `send.rs` does after any failed
round.

### Proofs

`FileTransferProofs` proves, for every value of the constants:

| Theorem | Property | Inductive invariant |
|---|---|---|
| `TypeCorrect`, `PassesAgree`, `VerifiedIsAnnounced` | `TypeOK`, `VerifiedIsOffered` | `IInv`: both, and `PassesInStep` |
| `PromiseIsKept` | `PromiseKept`, the refinement of `Delivery` | `IInv` |
| `ExistingKept` | `ExistingUntouched` | `KeepsExisting` |
| `VerifiedIsTheSource` | `VerifiedIsSource` | `IInv`, `PassesHashSource` |
| `NobodyWaitsForNothing` | `NoMutualWait` | `IInv`, `AnswerOwed` |
| `FirstPassesVerify`, `SidecarsAreHonest`, `SkippedIsComplete` | `SidecarIsHonest`, `SkippedMatches` | `IInv`, `PassesHashSource`, `FirstPassVerifies` |
| `PrefixIsKept` | `VerifiedPrefixKept`, an action property | the same |
| `SessionsAreSound` | `SessionSound` | the four strengthenings at once |
| `FramesFitIn` | `FramesInStep`, if `RepairsFit` | `IInv`, `AnswerOwed`, `FramesInOrder` |

Assumed are `BytesAssumption` and `TransferAssumption`, which say what the
constants are. Only `FramesFitIn` has a hypothesis, `RepairsFit`: a read buffer
holds a chunk, and the source keeps its length. The first is so with the default
chunk size, to which `CHUNK_BUF` is equal (`sender.rs:18`), and not with a larger
one, where the receiver does refuse frames (section 10); the second is left to
whoever edits the source.

*Passes.* `VerifiedIsOffered` compares the *disk* with what was announced; the
receiver compares its *hasher* with `FileEnd`. They agree if the hasher has seen
exactly what is on disk (`HasherCoversDisk`): its content is a prefix of the file,
as long as the write position, and past it there is nothing, or the tail that
`set_len` kept, which later chunks overwrite because the file's length is then the
manifest's. For the first pass of a session that rests on the resume point
(`ResumePointBegins`); for later ones on both sides starting from offset 0 with a
fresh hasher (`Answers`, `StartsOnTime`). No stale `FileStart` or `FileEnd` may
reach a receiver that has moved on, which follows from the two sides speaking in
turns (`Turns`, `EndsOnTime`). `Settlements` and `OutcomeIsFinal` carry the
refinement: the sender is done only on an answer from a receiver that has settled.

*The source.* That what is verified is the source, and not only something the
sender has hashed, needs two facts more. A full pass has hashed all of the source
and a repair adds to that (section 10), so every announced hash *begins* with the
source; and no chunk reaches past the entry (`InBounds`), so the destination is no
longer than the source. Content that begins with the source and is not longer is
the source. That a repair can verify at all only when it has added nothing is a
consequence, not an assumption.

*Waiting.* `NoMutualWait` is about two program counters and two queues;
`AnswerOwed` says which side owes a frame to which, that an answer in flight meets
a receiver that waits for what the sender will do about it (`AnswersFit`), and
that the receiver has not counted more attempts than the sender (`AttemptsAgree`).
The last is what excludes the deadlock at the end: a receiver whose attempts are
used up says nothing more, so the sender must have given up first.

*Undisturbed sessions.* `SkippedMatches` and `SidecarIsHonest` are about what one
session leaves to the next. They hold because no session that only the network
disturbs ever gets past its first pass: the resumed prefix is the manifest's, the
pass adds the manifest's cells, and so it verifies or is cut off
(`FirstPassVerifies`). The sidecar then never claims more than the hasher covers
(`ClaimCovered`), and a pass starts over only where nothing matched, so the prefix
that matches never shrinks (`PrefixIsKept`).

*Frames.* The receiver refuses a chunk that is not the next one of a full pass, or
not one it asked for in a repair. `FramesInOrder` accounts for all frames of a pass
at once: those of a full pass chain from where the receiver is to where the sender
is (`PassInOrder`); of a repair, each chunk that is needed is in flight once, or
the sender has it before it (`RepairInOrder`).

The lemmas about `FileBytes` say what slices, `SetLen`, `WriteAt`, the chunk grid,
the resume point and the damaged ranges do; `VerifiedPrefixOnDisk` is the one a reader
should know: what the chunk comparison vouches for is on disk and is, cell by cell,
what the manifest's file begins with. The least mismatching chunk exists by
well-founded induction, cited from the library; no data induction is needed
elsewhere.

### Abstractions

- The Hello exchange is folded into `Connect`: it changes no state of a file.
- One file per session. Files of one connection are sent one after the other and
  share nothing but the connection; `ParallelSession` has several.
- Reads of a regular file fill the buffer unless the file ends.
- `ReceiverMismatch` scans the destination in the step that reads `FileEnd`: no
  other actor writes the destination during a session.
- `RebuildManifest` builds a manifest at once, from one content. What edits during
  the build do to it is `ManifestCache`'s subject (section 8).
- Failures of the disk (full, unreadable) and of writing the sidecar are left out.
- `RenameExisting` differs from resume in the destination's name only and is left
  to `Destinations`.

## 4. The relay

### Modules

- `Relay` – `lanx-net/src/relay.rs`: the tasks of all connections, the map of
  pending senders, the session counter, waiter permits and failure counts.
- `RelaySession` – one paired session from inside: `copy_loop` in both
  directions, `bidirectional_copy`, and the timeout around it. It is what
  `Relay` sees as `CopyEnds` and `CopyTimesOut`.
- `MCRelay` – the small instances. `RelayProofs`, `RelaySessionProofs` – the proofs.

### State and actions

A `Sender` or `Receiver` is one accepted connection; a client that tries again is
another one. `pc` is where the connection's task is; `pending` is the map, as the
set of the senders in it (`Inserted` is `HashMap::insert`, which replaces the
entry of the same ID); `holds` is the sender a receiver's task has taken out of
the map; `gone` are the connections whose client has closed, which the relay does
not notice before it reads or writes them.

The relay runs on several threads, so a step is one critical section of the
map's mutex, or one operation on the atomic counter: between `Take`, `Reserve`,
`GiveBack` and `ReturnSender` any other task may run. The one critical section
that contains an `await`, the write of the ack, is split in two (`Recheck`, then
`Register` or `AckFails`) with `lock` held in between.

| Action | Code |
|---|---|
| `AcceptSender`, `AcceptReceiver` | `run_split`, `run_unified`; the waiter permit is taken here on a two-port relay |
| `HelloFails` | hello timeout, wrong proof, wrong role |
| `SenderHello`; `Recheck`, `Register`, `AckFails` | the two critical sections of `register_sender_stream` |
| `ReceiverHello` | `handle_receiver` or `handle_unified` (permit), and the failure budget |
| `Take`, `PollInVain`, `RecordFailure` | the polls of `pair_receiver_stream` |
| `Reserve`, `GiveBack`, `ReturnSender` | `fetch_add`, `fetch_sub`, re-insert |
| `CopyEnds`, `CopyTimesOut`, `DropGuard` | the spawned session; `SessionGuard::drop` |
| `Leave`, `GrowStale`, `FailureExpires` | a client closes; an entry passes `PENDING_TTL_SECS`; a failure leaves the window |

Time is abstract: an entry may turn stale, a wait end and a session time out at
any moment. That allows more behaviours than the constants of the code do, so
what is shown does not rest on their values. `RelaySession` has a clock, because
there the question is what the timer measures.

### Runs

| Run | Shows |
|---|---|
| `relay_race` | Three senders, two receivers with a permit each, one ID, two ports, one session slot: `OneOwner`, `SessionsBounded`, `SlotsAccounted`, `OnlyReturnEvicts`. |
| `relay_room` | Three senders under two IDs, one port, room for one sender and one waiter: `MapBounded` (the bound is reached) and the inductive invariant `Bookkeeping`. |
| `relay_live` | `EveryoneAnswered`: nobody waits for ever, no slot is kept for ever. |
| `session_copy` | Three bytes each way, a two-byte buffer: `LastWordsDelivered`, `SessionEnds`. |

Three senders are needed for a lost registration: one in the session that fills
the only slot, one in hand, one that registers meanwhile; two receivers are the
one in that session and the one that has the sender in hand. With one
slot they also race for it. Limits of one or two make every limit bite.
`relay_live` has one sender less: nothing in it needs the third.

### Fairness

`FairSpec` is weak fairness of each task's own steps. A poll sleeps 200 ms and
the wait ends at its deadline (`WaitEnds`), the hello has a timeout, the session
has one: these are the relay's own timers. Nothing is assumed of clients, which
may stay silent for ever. In `RelaySession` the two loops, the select and the
clock are fair.

### Proofs

`RelayProofs` proves for any finite set of connections, any IDs and any limits,
from `RelayAssumption` only: `RelayTypeCorrect`, `SessionLimitHolds`,
`SlotsNeverLeak`, `SenderHasOneOwner`, `MapStaysBounded`, `BooksAreKept` and the
action property `EvictionNeedsReturn`.

The argument is a count. An action moves one task from one state to another;
`OneMoves` says what that does to the number of tasks in a set of states, once
for all of them. The counter is the number of tasks in the states that own a slot
(`Slots`), hence never below the number of sessions; a session starts only from a
counter below the limit. The map's bound needs two more counts: a registration
adds an entry only when it found the map below its limit *and nobody could add
one since* (`AckedHasLock`, `AckedFits`: it keeps the lock through the ack), and
a return adds only what its receiver, which has a permit, took out
(`PermitsBounded`, `HoldersHold`). `AckedFits` is also why no registration evicts
anybody. None of these is inductive alone; `RelayInv` is their conjunction, and
`BooksAreKept` states its bookkeeping part, which `relay_room` checks.

`RelaySessionProofs` proves `SessionTypesCorrect` and `LastWordsAreDelivered` for any
number of bytes, any buffer and any limit, from `SessionAssumption`. A loop that
meets the end of a stream has written all it has read, and read all that was sent;
that this stays so needs the client of that direction to have closed or gone, which
the invariant adds.

`EveryoneAnswered` and `SessionEnds` are model-checked only.

### Abstractions

- Binding, Ctrl+C, the metrics ticker and the encoding of the hello are left out;
  a hello is good or it is not.
- The handler of a paired receiver returns its permit in the step that spawns the
  session.
- `record_failure` prunes its table past 1024 addresses; it removes only what has
  left the window, which `FailureExpires` has taken off already.
- Bytes of a session are counted, not told apart: each direction is one loop
  around one buffer, which cannot reorder.

## 5. Several connections

`ParallelSession` (run `parallel`) is a direct transfer over several TCP
connections, seen from the two commands that own them.

### State and actions

A connection is `<<attempt, index>>`. `tx` and `rx` are its two ends, each a task
of its own; `sender` is the loop over rounds in `send.rs` (`accept`,
`negotiate`, `extras`, `drain`), `receiver` the loop over attempts in `recv.rs`.
Between them there is only the listener's `backlog`: neither side knows to which
attempt of the other a connection belongs. `counts` is the receiver's channel of
negotiated counts, which lives across attempts; `met` is the offer a connection
has met; `todo` the files it still has to receive; `consent` the answer the
connections share (`SharedApprover`).

| Action | Code |
|---|---|
| `SenderAccepts`, `SenderHears`, `SenderFirstEnds`, `SenderAcceptsExtra`, `ExtrasTimeOut`, `SenderGivesUp` | a round of `send.rs`: connection 0, the `select!` on its count or its end, the extra connections, the grace window |
| `RoundFails`, `RoundCompletes` | the loop over `join_next` |
| `TxCounts`, `TxDone`, `TxFails` | `spawn_stream`: the Hello exchange, `Done`, an error |
| `RxDials` .. `RxFails` | `try_once` and `run_receiver`: connect, count, consent, the plan (`RxConflicts`, `RxPlans`), the files, the end |
| `AttemptStarts`, `ReceiverHears`, `ReceiverFirstEnds`, `AttemptFails`, `AttemptEnds` | the retry loop, `attempt_transfer`, `aggregate_reports` |
| `Cut`, `SenderRestarts` | a connection is lost; `lanx send` is run again with another `--parallel` |

A task that is aborted with its `JoinSet` leaves its connection as it is; the
other end finds out at its next step.

### What is checked

`SuccessIsServed`: what a successful attempt reports is there. It is about the
connections that attempt opened, because that is all the code promises: an attempt
that took a count left over from an earlier one, or connection 0's end before its
count, opens fewer connections than the sender expects and may still succeed.
`SenderSuccessIsServed` is the same for a round, `NoSharedFile` for two live
connections, `ExistingKept` for the user's files and consent. `BothEnd` is
liveness: both commands exit. `CleanRunDelivers`: with no trouble everything
arrives.

Bounds: two files, two connections, two attempts, one piece of trouble of any
kind (a connection cut, a limit that passes while the peer was still coming, a
`select!` that takes the other branch, a sender that is started again), policies
`resume` and `fail`, one file there before or none. Two attempts are needed for
a left-over count and for a backlog with a connection of an earlier attempt; two
files give each connection one.

### Fairness

`FairSpec` is weak fairness of `Step`, the steps of all tasks together and the
user's answer: no task can go on for ever alone, since every step ends something
(a file, a connection, an attempt, a round), so the weakest form is enough. Cuts
and restarts are not fair.

### Abstractions

What happens inside a connection is `FileTransfer`'s: here a file is absent,
partial or whole, and a file that fails verification is a connection that fails.
The plan of a connection (conflicts, then destinations and resume points) is one
step; between the plans of two connections any other step may come, which is how
a connection meets its siblings' files.

### Proofs

`ParallelSessionProofs` proves, from `ParallelAssumption`, for any number of files,
connections, attempts and faults, any values of `--parallel` and every policy (the
run has two): `SessionTypeCorrect`, `SuccessesAreServed`, `SenderSuccessesAreServed`,
`FilesAreUnshared`, `ExistingIsKept`. The invariant `PInv` says more than these:

- `OneAttempt`: what is alive belongs to the attempt that runs. Without it two
  attempts might have the same share of the files, and `NoSharedFile` fails.
- `Prefix`: an attempt opens the first connections, and only connection 0 before it
  knows the count. So their number tells which shares were taken, and shares
  modulo that number are all files.
- `OwnShare`, `Kept`: what a connection has still to receive is its share, and none
  of the user's files unless the policy is `overwrite`; it works only with consent.
- `Promised`: as long as no connection of the attempt has failed, each file of a
  share that was planned is whole, or one of them has still to receive it. "Each
  file is whole when its connection has finished" would be too strong: after a
  restart of the sender with another `--parallel`, two connections of one attempt
  may have met different counts and share a file, which the second opens again. It
  is whole at the end because success needs both.

- `Served` (with `Dialling`, `RoundHolds`, in `SInv`) is the sender's side of the same:
  a file of a connection that ended well is whole, or the round will not end well
  before it is: a connection of the round is doomed, or has it still to receive.
  The sender does not know to which attempt of the receiver a connection belongs, so
  this is said of the round's connections and of no attempt.

`SuccessIsServed` and `SenderSuccessIsServed` except `skip`, under which a retry takes
its own partial file for the user's. The two liveness properties are model-checked
only.

## 6. Automatic routes

`AutoRoutes` (run `auto_routes`) is `--relay auto` on both sides.

### State and actions

`arm[r]` is `auto_direct_loop` or `auto_relay_loop`: where it is, and who is at
the end of its stream: the receiver's current try, an extra connection of that
try, or a stranger (a scan, a wrong code, a try that was given up). `gate` is the
progress gate's owner; `rcv` is `run_auto_recv`, the route it tries and how far
the try is. `Hangs` turns the connections of a failed try into strangers': the
sender finds out at its next step.

| Action | Code |
|---|---|
| `Registers`, `RegisterFails`, `WaitEnds`, `Handshake` | a relay arm before its session |
| `Accepts`, `AcceptsExtra`, `ExtrasTimeOut` | the direct arm's connections (`accept_bounded`) |
| `Enters`, `GivesUpGate`, `Resumes` | `acquire_progress_gate`; the guard is held over the pause after some failures |
| `Hello`, `SessionEnds`, `SessionFails` | the session (`drain_sender_round`) |
| `SendSucceeds`, `SendExpires`, `SendFails` | `run_auto_send` |
| `DialsDirect`, `DialsRelay`, `Paired`, `DialsExtra`, `Served`, `ReceiverEnds`, `TryFails`, `TryTimesOut`, `TriesAgain`, `GivesUp` | `run_auto_recv`, `try_auto_relay` |
| `Stranger`, `Break`, `Expire` | the environment and the fixed lifetime |

### What is checked

`OneSession`: only the gate's owner is in a session. `SuccessIsDelivered`: a
send that reports success has served the receiver on every connection, although
any connection on the listener may be a stranger's. `RetriesDeliver`: a receiver
that keeps trying is served, as long as the send lives; it fails if a guard
outlives its round, which is why the pauses that hold the gate matter.

Bounds: the direct route with two connections and two relays, at most two
connections waiting, two pieces of trouble. Two relays give two arms that wait
for the gate while the third has it.

Fairness: weak fairness of each arm, of the send's own task and of the receiver.
`Expire` and `GivesUp` are free to happen, never owed: the lifetime of 600 s is
long compared to every pause, and how many attempts a receiver makes depends on
`--retry-forever`. `TryTimesOut` costs trouble while the arm lives: the pauses
(2 s, 5 s) are shorter than the limits (10 s, 30 s).

### Proofs

`AutoRoutesProofs` proves for any routes, and any bounds, from `AutoAssumption`:
`TypeCorrect`, `SessionsAreSingle` and `SuccessIsEarned`. `OneSession` is not
inductive: the gate may be dropped by an arm that is not its owner unless it is
known where an owner can be; the invariant says that the owner, and only the
owner, is past `Enters`. `SuccessIsDelivered` needs `Met`: where the receiver's
connections are at the sender, so that the peer an arm calls the receiver is the
try that was served. `RetriesDeliver` is model-checked only.

## 7. From the sender's tree to the receiver's disk

- `Manifest` – `manifest.rs` and the sources of `send.rs`, as operators.
- `Destinations` – `destinations.rs`, as operators.
- `Placement` – both put to work: a manifest is built and filtered, checked by the
  receiver, and received by parallel connections, each of which resolves the
  destinations of *all* files and makes their directories before it writes its
  own; an attempt may fail and everything is resolved anew.
- `MCPlacement` – the small trees, command lines and disks. `PlacementProofs` – the
  proofs.

### State and data

A name is a sequence of its base and the numbers of the numbered siblings it is
(`photo.1.jpg` is `<<"photo", 1>>`); a path is a sequence of names; `Fold` maps a
base to its lower, decomposed form; `CaseBlind` says whether the receiver's file
system tells names apart that fold alike. A tree maps paths to files, directories
and links. A disk maps paths to what is there: a directory, an old file, or a file
of an entry, in part or whole. Destinations are looked up after their directories
are made, as `receiver.rs:328` does. So a property can say *which* entry's content is
where.

An error of any kind is `NoManifest`: which one is reported first is wording.

### What is checked (run `placement`)

- `SourcesAreMeant`: the manifest, and the reconstruction of the source paths by
  `send.rs`, name exactly the files the user meant: those below the inputs that
  the filters let pass, each once, with overlapping inputs, links, `.`, and one or
  several inputs.
- `OldKept`: what was on the disk stays, except at a destination under `resume`
  and `overwrite`.
- `AllArrived`: success means every file is where the command line said, on a
  case-blind file system too. It excepts a file that has the name of a directory
  another one needs, and siblings' names under `rename` (both in section 10), and
  retries under `skip`, which take their own partial files for old ones.

The run enumerates 15 trees, one of them with a link that leads nowhere, 7 command
lines, 3 sets of filters (none, excluded names and paths, included and excluded ones),
2 forms of `--out` (`o` and `o/`), 7 disks and 5 policies, with two connections and two
attempts. Two files
and a third give each connection something to write and a name for every relation
there may be between two: equal up to case, numbered sibling, in a directory that
is a file at the receiver, in one that is a file of the same manifest.

### Proofs

`PlacementProofs` proves all three, `SourcesAreAsMeant`, `OldFilesAreKept` and
`EveryFileArrives`, for any trees, command lines, disks, connections and attempts
and any folding of names. `PlacementAssumption` says what those are: a tree is
finite, with nothing below a link; inputs and `--out` are paths; a disk has finitely
many files, none below another.

- `SourcesAreAsMeant` is about operators: `AsBuilt` says that the manifest is what
  `BuildWithFilters` makes of the command line, and the lemmas that its entries are
  the files below the inputs, each once, and that `send.rs` joins each to the input
  it came from.
- `OldFilesAreKept` needs `Keeping`. What a connection is about to write at the place
  of an old file it may write (`Aimed`); the disk only grows, so a free sibling that
  was found is never an old file; and the attempts agree on whether `--out` names a
  file or a directory, whatever the earlier ones have put there.
- `EveryFileArrives` needs `Landing`: an entry of a connection's share that it has no
  longer to write is in place, or was spared because it was there at the start
  (`Landed`). It stays in place because no other connection writes there:
  `DestinedApart` says that the places of two entries, with the siblings `rename`
  may choose, are apart on a case-blind file system too. Under `skip` a connection
  spares what it *finds*, and other connections have written meanwhile; `Traced` says
  that all there is in a first attempt was there at the start, is a directory the
  files need, or belongs to the share of a connection that has looked before.

Abstracted: limits on length, names that are not UTF-8, and the order of the entries
(any fixed order; the code sorts). Directories that a failed resolution has already
made are left out too: what made it fail is a file in the way, which stays, so
every later attempt fails as well.

## 8. The manifest cache

`ManifestCache` (run `manifest_cache`) is `build_with_filters_cached` in several
sends that are started in one directory and so share `.lanx/manifest-cache.json`
and its temporary file, while files are edited.

### State and actions

A file has a content and a *stamp*, its length and modification time. `send[s]` is
where a send is and what it knows: its fingerprint so far (`print`), its manifest so
far, and the file it hashes. Names lead to inodes: a send that has opened the
temporary file goes on writing to it after another one has renamed it, and a send
that hashes a file goes on reading it after another one has replaced it (`kept`).

| Action | Code |
|---|---|
| `Begins`, `Prints` | `input_fingerprint`, `collect_metadata`, one file at a time |
| `Loads` | the cache is read, and taken if its fingerprint agrees |
| `Looks` | the length of the next file (`manifest.rs:736`) |
| `Hashes` | one read and its hash, in the loop of `chunk_hashes` (`hashing.rs:95`) |
| `Creates`, `Writes`, `Renames` | `fs::write` to the temporary file, `fs::rename` |
| `Killed`, `Edits` | the environment |

An edit may come between any two of these. It changes a file in place or puts another
one in its place, and leaves a new stamp or one that the file had before with that
length, its last one included: an edit may come within one tick of the clock, and
times can be set (`cp -p`, `mv`). Two writes to one inode may leave a file that does
not decode (`Torn`).

### What is checked

`ManifestIsFresh`: nothing in the manifest of a send, built or cached, is older than
the send. It is about the files the send was given, and each length, each chunk hash
and each end of a file is of what the file was at some time between the send's start
and its manifest. The danger is an entry whose fingerprint is newer than what it was
built from: the fingerprint must be taken first, as the code does, and must stay with
its own manifest although all sends write to one temporary file.

It promises no more than the code does:

- The parts of an entry may be of different contents, because nothing is looked at
  again after the length and the chunks were read. Such a mix is not a file that
  ever was; `OneContent` is the property that does not hold (section 10).
- A *cached* manifest may be stale for a file that got a stamp it had had before
  (`reused`): a change of the same length within one tick, or with the old time, is
  one that the fingerprint does not see. `StaleFallsBack` is the property that makes
  no exception, and does not hold (section 10). For a manifest that the send has
  built itself nothing is excepted.

Bounds: two files, one of two chunks or one and one of always the same length, two
sends at a time of the same files, three in all, two edits. Three sends are one that
leaves a cache, one that takes it and one that interferes; two chunks are what an edit
can come between; two edits make a file something else and then what it was. The two
sends are alike, so TLC takes them for one another (3.4 million states).

### Proofs

`ManifestCacheProofs` proves, for any files, sends, contents, chunk size and bounds,
from `CacheAssumption`: `CacheInvariant` and `ManifestsAreFresh`.

The invariant says of every pair of a fingerprint and a manifest, wherever it is (in
an inode, or in the hands of a send): if the stamp it has for a file agrees with what
a send that takes its own fingerprint has just found, then the entry is put together
from what *that* send has seen; and if it agrees with the file as it is now, from what
the file is now (`Tells`, over `Witnesses`). Unless the file got a stamp back, an edit
makes a stamp that is in no fingerprint yet, so the second part keeps: it then has
nothing to say. Looking at a file turns the second part into the first. A send whose
file is edited while it builds goes on with an entry that its old stamp no longer
vouches for (`Reads`), and that nobody takes. `Built` is the same of the send itself,
with no exception.

### Abstractions

One read sees one content: a write that is half done while a chunk is read is two
edits. Every send hashes with the same chunk size (another one changes the
fingerprint, and is a miss). Filters are left out (they are applied after the cache,
`Manifest`), and so is the `.lanx` directory itself: under `lanx send .` writing the
cache changes a modification time that is in the fingerprint, and the cache is never
hit.

## 9. The encryption pump

`Pump` (run `pump`) is `run_pump`, `read_framed` and `write_all` on both sides of
a connection, with the applications reduced to turns: who speaks, and how much.

`TakesPlain` is the branch of the `select!` that drops a `read_framed` which has
begun, with the bytes it has taken from the stream: nothing in the pump prevents
that. `NoTornFrame` says that it never happens, and the reason is in another file:
the transfer protocol speaks in turns, so an application writes only after it
has read everything, and no frame is under way to it. `ConversationEnds`: every
turn is heard to its end, also the last one, whose speaker leaves at once; an
application that is gone shuts its pump down only when all it wrote is taken.

The script is that of a file that is repaired, with turns longer than a frame;
the rooms (`Duplex`, `Wire`) are smaller than a turn, so that a writer waits in
the middle of a frame. Fairness: both pumps and both applications. One idle
timeout or early end of a process may happen, and is not covered by
`ConversationEnds`.

Proved, in `PumpProofs`, from `PumpAssumption`: `NoFrameIsTorn`, for any script of
turns, any frame size and any rooms. The invariant `Whole` is a count: what is on
its way to a side's peer (in its outbox, its pump, the wire, the peer's pump and
inbox) is at most what was said and not yet heard in this turn, and nothing if the
side does not speak. So when a side has something to send, no frame is under way
to it, and none was begun. The sum over the frames on the wire is stated through
its running totals. `ConversationEnds` is model-checked only.

The handshake and the cipher are left out: a frame that is not whole does not
decrypt.

## 10. What the code does and its documents do not say

One of these is a run that TLC must find violated:

- `renamed_onto` – under `--on-conflict rename`, when the disk holds an `a`, the
  received `a` goes to `a.1`, the first name that is unused on the disk
  (`destinations.rs:399`, against `destinations.rs:372`). If the manifest has an
  `a.1` of its own, both are received into it; each is verified and reported, and
  one is lost.

The others are properties of the modules that do not hold; each line says how to
have TLC show it.

| Add to | The line | What TLC finds |
|---|---|---|
| `transfer_safety` | `INVARIANT AnnouncedIsWholeFile` | After a repair `FileEnd` carries the hash of the file *and* the repaired ranges: the hasher that is passed on has already seen the file (`sender.rs:339`, against `sender.rs:412`). No repair ever verifies; the whole file is sent again. |
| `transfer_safety` | `INVARIANT CompleteIsMatch` | A sidecar over the whole file makes changed content count as complete, with no hash compared (`resume.rs:125`, against `sidecar.rs:8` and `README.md:182`). |
| `transfer_live` | `BufSize = 1` | `EventuallyDelivered` fails: with chunks longer than 1 MiB (`README.md:161`) a repair arrives in pieces that `recv_chunk_repair` refuses (`receiver.rs:889`), and every retry ends there. |
| `relay_race` | `PROPERTY NeverEvicted` | A sender returned by a refused pairing replaces, and so disconnects, the one that registered its ID meanwhile (`relay.rs:803`, against `relay.rs:609`, `647`). `OnlyReturnEvicts` says that nothing else does. |
| `session_copy` | `INVARIANT TimedOutIsIdle` | `--idle-timeout` bounds the length of a session, not its silence (`relay.rs:820`, against `README.md:421`). |
| `placement` | `INVARIANT HiddenExcluded` | With several inputs, or `.`, the first component of a rel_path is a name below what the user named, and is sent although it is hidden (`manifest.rs:473`). |
| `placement` | `INVARIANT ClashesAbort` | A file `d/A` and a directory `d/a` pass the check for collisions, which compares whole rel_paths (`manifest.rs:328`, against `main.rs:58`). On a case-blind receiver the directory is made first (`receiver.rs:328`). Under `skip` it is then taken for the existing file (`receiver.rs:351`), and success is reported without that file; under `rename` the file goes to a sibling; under the other policies every attempt fails. |
| `manifest_cache` | `INVARIANT StaleFallsBack` | A file that gets other content with the length and the time it had is sent from a stale cache: an edit of the same length within one tick of the clock, one that keeps the time, or an earlier file that is moved back after the file was edited while it was hashed (`manifest.rs:424`, `513`, against `manifest.rs:409`). |
| `manifest_cache` | `INVARIANT OneContent` | A file that is edited while the manifest is built gets an entry put together from several contents (`manifest.rs:736`, `hashing.rs:95`): a length and chunks that no file ever had. |

Worth knowing:

- A failed repair costs the sender two retries (`sender.rs:305`, `333`) and the
  receiver one attempt (`receiver.rs:686`); they do not "stop retrying at the same
  time" (`receiver.rs:659`). That the sender stops first is also what keeps
  `NoMutualWait` true: a receiver whose attempts are used up says nothing.
- A retry under `skip` or `fail` meets the file its own first attempt left: it is
  skipped and counted a success, or refused every time (`receiver.rs:310`, `351`).
  Under `fail` parallel connections refuse each other's files in the same way,
  in the first attempt already, when one plans after another has begun to write
  (`receiver.rs:310`; `README.md:206` says that it aborts before it writes).
- After a verdict that is lost with its connection the receiver is done and does not
  come back; the sender waits for it, and exits with an error although the file is
  there (`send.rs:743`).
- Under `rename` a retry does not resume: its own partial file exists, so the file
  goes to the next sibling.
- An automatic send is aborted 600 s after its start, also in the middle of a
  transfer (`send.rs:883`); a relay arm holds the gate over the 2 s pause after a
  failed session, and so keeps the other routes waiting.
- The re-insert of a returned sender also ignores `MAX_PENDING_SENDERS`
  (`relay.rs:71`). `MapBounded` says how far it can go.
- A sender may be refused as "already registered by another live sender" because
  of its own dead connection, which stays in the map for 300 s.
- The relay waits 30 s for a receiver whose client leaves after 10 s; a sender
  that comes in between is given to the wait that was left behind, while the
  receiver's retry gets nothing (`relay.rs:780`).
- When one direction of a session ends, the other is not drained but dropped
  (`relay.rs:942` against `relay.rs:931`). lanx's own clients close both
  directions at once, after the last answer was read, and lose nothing.

## 11. Not modelled

- The Noise handshake and the cipher, and hash collisions: a library's.
- Pairing codes and the SOCKS5 handshake: fixed sequences and encodings on a fresh
  connection, with no state that outlives it.
- Discovery: whether an address is found is a choice in `AutoRoutes`; packets and
  their parsing decide nothing else.
- `--zip`, text and note transfers, dry runs, the conflict preview, and the
  explicit relay mode of the commands beyond what `Relay` and `FileTransfer` say
  of one session.
- Configuration files, the command line, progress display and diagnostics.

The components in `PROJECT.json` give the state of each part.
