-------------------------- MODULE ParallelSession ---------------------------
(***************************************************************************)
(* A direct transfer over several TCP connections: the sender's rounds     *)
(* (accept a connection, learn the negotiated count from it, accept the    *)
(* extra ones, wait for all of them) against the receiver's attempts (open *)
(* connection 0, learn the count, open the extra ones, add up the reports, *)
(* try again after a failure).  Neither side knows which attempt of the    *)
(* other a connection belongs to: the listener's backlog is all they       *)
(* share.                                                                  *)
(*                                                                         *)
(* A connection is <<attempt, index>>.  Its two ends are tasks of the two  *)
(* processes, so each end leaves on its own and the other one finds out    *)
(* later.  What happens inside one connection is FileTransfer's subject;   *)
(* here a file is absent, partial or whole.                                *)
(***************************************************************************)
EXTENDS Integers, Sequences, FiniteSets

CONSTANTS
  FileCount,    \* files of the manifest, with the ids 0 .. FileCount - 1
  Wanted,       \* the receiver's --parallel
  Offers,       \* what the sender's --parallel may be
  Policies,     \* overwrite policies
  Founds,       \* the sets of files that may be there before
  MaxAttempts,  \* max_attempts, 5 or unlimited in the code
  Kinds,        \* the kinds of trouble there may be
  MaxFaults     \* bound: how often there is trouble

MAX_PARALLEL == 16

ASSUME ParallelAssumption ==
  /\ FileCount \in Nat /\ Wanted \in Nat \ {0}
  /\ Offers \subseteq Nat \ {0}
  /\ Policies \subseteq {"resume", "overwrite", "skip", "fail"}
  /\ Founds \subseteq SUBSET (0 .. FileCount - 1)
  /\ MaxAttempts \in Nat \ {0}
  /\ Kinds \subseteq {"cut", "late", "missed", "restart"}
  /\ MaxFaults \in Nat

-----------------------------------------------------------------------------
(* Negotiation: Hello, the receiver's answer, the sender's echo.           *)

Least(x, y) == IF x < y THEN x ELSE y
Greatest(x, y) == IF x < y THEN y ELSE x
Clamp(x, low, high) == Least(Greatest(x, low), high)

\* What the receiver answers to a Hello that offers this many connections.
Proposal(offer) == Clamp(Wanted, 1, Clamp(offer, 1, MAX_PARALLEL))

\* The count the sender settles on, and echoes.
SenderCount(offer) ==
  Least(Least(Greatest(Proposal(offer), 1), offer), MAX_PARALLEL)

\* The count the receiver settles on when it reads the echo.
ReceiverCount(offer) ==
  Greatest(Least(Proposal(offer), Clamp(SenderCount(offer), 1, MAX_PARALLEL)), 1)

-----------------------------------------------------------------------------
File == 0 .. FileCount - 1
Attempt == 1 .. MaxAttempts
Index == 0 .. Clamp(Wanted, 1, MAX_PARALLEL) - 1
Conn == Attempt \X Index

VARIABLES
  sender,    \* the sender's process: phase, --parallel, this round's connections
  backlog,   \* dialled connections the sender has not accepted
  receiver,  \* the receiver's process: phase, attempt
  counts,    \* the receiver's channel of negotiated counts
  tx, rx,    \* the sender's and the receiver's end of each connection
  met,       \* the offer in the Hello each connection has met, 0 before
  todo,      \* the files each connection still has to receive
  cut,       \* connections the network has cut
  disk,      \* each file at the receiver
  policy,    \* the receiver's overwrite policy
  found,     \* the files that were there before
  consent,   \* the user's answer, shared by the connections
  faults     \* how often there was trouble, and of what kinds

vars == <<sender, backlog, receiver, counts, tx, rx, met, todo, cut, disk,
          policy, found, consent, faults>>
request == <<policy, found>>
fixed == <<request, faults>>

SenderPhases == {"accept", "negotiate", "extras", "drain", "done", "failed"}
ReceiverPhases == {"start", "negotiate", "drain", "done", "declined", "failed"}
TxStates == {"none", "accepted", "counted", "ok", "failed", "gone"}
RxStates == {"none", "spawned", "dialled", "counted", "working", "ok",
             "declined", "failed", "gone"}

\* The states of an end that has closed its side of the connection.
TxLeft == {"ok", "failed", "gone"}
RxLeft == {"ok", "declined", "failed", "gone"}

Existing == {f \in File : disk[f] # "absent"}
Whole == {f \in File : disk[f] = "whole"}

\* The sender's process holds the listening socket.
Listening == sender.phase \notin {"done", "failed"}

\* The receiver's process is still trying.
Trying == receiver.phase \in {"start", "negotiate", "drain"}

\* The connections of one attempt, those not opened included.
Own(a) == {a} \X Index
Opened(a) == {c \in Own(a) : rx[c] # "none"}

\* Ends that the end of their process, or of their JoinSet, closes.
Dropped(state, which, left) ==
  [c \in Conn |-> IF c \in which /\ state[c] \notin {"none"} \cup left
                  THEN "gone" ELSE state[c]]

Init ==
  /\ sender \in [phase : {"accept"}, offer : Offers, round : {{}}, need : {0}]
  /\ backlog = <<>>
  /\ receiver = [phase |-> "start", attempt |-> 0]
  /\ counts = <<>>
  /\ tx = [c \in Conn |-> "none"] /\ rx = [c \in Conn |-> "none"]
  /\ met = [c \in Conn |-> 0] /\ todo = [c \in Conn |-> {}] /\ cut = {}
  /\ policy \in Policies /\ found \in Founds
  /\ disk = [f \in File |-> IF f \in found THEN "whole" ELSE "absent"]
  /\ consent = "none"
  /\ faults = [count |-> 0, kinds |-> {}]

\* There has been no trouble but of these kinds.
Only(kinds) == faults.kinds \subseteq kinds

\* Trouble of one kind, within the bound.
Trouble(kind) ==
  /\ kind \in Kinds
  /\ faults.count < MaxFaults
  /\ faults' = [count |-> faults.count + 1, kinds |-> faults.kinds \cup {kind}]

-----------------------------------------------------------------------------
(* The sender's process.                                                   *)

senderSide == <<sender, backlog, tx>>
receiverSide == <<receiver, counts, rx, met, todo, disk, consent>>

\* The connection that heads the backlog gets a task of its own.
Accepts(phase, need) ==
  LET c == Head(backlog) IN
  /\ backlog # <<>>
  /\ backlog' = Tail(backlog)
  /\ tx' = [tx EXCEPT ![c] = "accepted"]
  /\ sender' = [sender EXCEPT !.phase = phase, !.round = @ \cup {c}, !.need = need]

SenderAccepts ==
  /\ sender.phase = "accept"
  /\ Accepts("negotiate", 0)
  /\ UNCHANGED <<receiverSide, cut, fixed>>

\* The count of the round's first connection arrives.
SenderHears ==
  /\ sender.phase = "negotiate"
  /\ \E c \in sender.round :
       /\ met[c] # 0
       /\ sender' = [sender EXCEPT
            !.phase = IF SenderCount(met[c]) > 1 THEN "extras" ELSE "drain",
            !.need = SenderCount(met[c]) - 1]
  /\ UNCHANGED <<backlog, tx, receiverSide, cut, fixed>>

\* A select whose branches are both ready takes either.
Misses(ready) == IF ready THEN Trouble("missed") ELSE UNCHANGED faults

\* The other branch of the select: the first connection's task has ended,
\* whether or not it sent a count.
SenderFirstEnds ==
  /\ sender.phase = "negotiate"
  /\ \E c \in sender.round : tx[c] \in TxLeft /\ Misses(met[c] # 0)
  /\ sender' = [sender EXCEPT !.phase = "drain"]
  /\ UNCHANGED <<backlog, tx, receiverSide, cut, request>>

\* Defect: one extra connection more than the count.
AcceptsOneMore ==
  /\ sender.phase = "extras"
  /\ Accepts(IF sender.need = 0 THEN "drain" ELSE "extras", sender.need - 1)
  /\ UNCHANGED <<receiverSide, cut, fixed>>

SenderAcceptsExtra ==
  /\ sender.phase = "extras"
  /\ Accepts(IF sender.need = 1 THEN "drain" ELSE "extras", sender.need - 1)
  /\ UNCHANGED <<receiverSide, cut, fixed>>

\* A time limit passes: that is trouble if the peer was still coming.
LimitPasses(coming) == IF coming THEN Trouble("late") ELSE UNCHANGED faults

\* Defect: the wait for extra connections has no limit.
ExtrasWaitForever == FALSE /\ UNCHANGED vars

\* The grace window closes over a wait for extra connections: the round goes
\* on with those it has.
ExtrasTimeOut ==
  /\ sender.phase = "extras" /\ backlog = <<>>
  /\ LimitPasses(Trying)
  /\ sender' = [sender EXCEPT !.phase = "drain", !.need = 0]
  /\ UNCHANGED <<backlog, tx, receiverSide, cut, request>>

\* It closes over a wait for a receiver: the process exits with an error.
SenderGivesUp ==
  /\ sender.phase = "accept" /\ backlog = <<>>
  /\ LimitPasses(Trying)
  /\ sender' = [sender EXCEPT !.phase = "failed"]
  /\ UNCHANGED <<backlog, tx, receiverSide, cut, request>>

\* One connection of the round has failed: the round's other tasks are
\* aborted and the sender waits for the receiver to come back.
RoundFails ==
  /\ sender.phase = "drain"
  /\ \E c \in sender.round : tx[c] = "failed"
  /\ tx' = Dropped(tx, sender.round, TxLeft)
  /\ sender' = [sender EXCEPT !.phase = "accept", !.round = {}, !.need = 0]
  /\ UNCHANGED <<backlog, receiverSide, cut, fixed>>

\* Defect: one connection that ended well is enough.
OneConnectionCompletes ==
  /\ sender.phase = "drain"
  /\ \E c \in sender.round : tx[c] = "ok"
  /\ sender' = [sender EXCEPT !.phase = "done"]
  /\ backlog' = <<>>
  /\ UNCHANGED <<tx, receiverSide, cut, fixed>>

\* All of them have ended well: the process reports success and exits.
RoundCompletes ==
  /\ sender.phase = "drain"
  /\ \A c \in sender.round : tx[c] = "ok"
  /\ sender' = [sender EXCEPT !.phase = "done"]
  /\ backlog' = <<>>
  /\ UNCHANGED <<tx, receiverSide, cut, fixed>>

\* `lanx send` is stopped and run again on the same address.
SenderRestarts ==
  /\ Trouble("restart")
  /\ \E n \in Offers :
       sender' = [phase |-> "accept", offer |-> n, round |-> {}, need |-> 0]
  /\ backlog' = <<>>
  /\ tx' = Dropped(tx, Conn, TxLeft)
  /\ UNCHANGED <<receiverSide, cut, request>>

-----------------------------------------------------------------------------
(* The sender's end of a connection.                                       *)

\* Noise, Hello, the receiver's answer, the echo; the count goes to the round.
TxCounts(c) ==
  /\ tx[c] = "accepted" /\ rx[c] = "dialled" /\ c \notin cut
  /\ tx' = [tx EXCEPT ![c] = "counted"]
  /\ met' = [met EXCEPT ![c] = sender.offer]
  /\ UNCHANGED <<sender, backlog, receiver, counts, rx, todo, disk, consent, cut, fixed>>

\* Every file of the ManifestAck is sent and acknowledged: Done.
TxDone(c) ==
  /\ tx[c] = "counted" /\ rx[c] = "working" /\ todo[c] = {} /\ c \notin cut
  /\ tx' = [tx EXCEPT ![c] = "ok"]
  /\ UNCHANGED <<sender, backlog, receiverSide, cut, fixed>>

\* The handshake or the session fails: the peer has left, refused, or is cut off.
TxFails(c) ==
  /\ tx[c] \in {"accepted", "counted"}
  /\ c \in cut \/ rx[c] \in RxLeft
  /\ tx' = [tx EXCEPT ![c] = "failed"]
  /\ UNCHANGED <<sender, backlog, receiverSide, cut, fixed>>

-----------------------------------------------------------------------------
(* The receiver's end of a connection.                                     *)

Becomes(c, state) == rx' = [rx EXCEPT ![c] = state]

\* TCP connect: to the listener's backlog, whatever the sender is doing.
RxDials(c) ==
  /\ rx[c] = "spawned"
  /\ IF Listening
     THEN Becomes(c, "dialled") /\ backlog' = Append(backlog, c)
     ELSE Becomes(c, "failed") /\ UNCHANGED backlog
  /\ UNCHANGED <<sender, tx, receiver, counts, met, todo, disk, consent, cut, fixed>>

\* The sender is in the middle of a round and accepts nobody.
Busy ==
  /\ sender.phase = "drain"
  /\ \A c \in sender.round : tx[c] # "failed"
  /\ \E c \in sender.round : tx[c] # "ok"

\* The Noise handshake has a limit of its own, also in the backlog.
RxHandshakeTimesOut(c) ==
  /\ rx[c] = "dialled" /\ tx[c] = "none"
  /\ LimitPasses(~Busy)
  /\ Becomes(c, "failed")
  /\ UNCHANGED <<senderSide, receiver, counts, met, todo, disk, consent, cut, request>>

\* The echo is read; connection 0 tells the coordinator, if it still listens.
RxCounts(c) ==
  /\ rx[c] = "dialled" /\ met[c] # 0 /\ c \notin cut
  /\ Becomes(c, "counted")
  /\ counts' = IF c[2] = 0 THEN Append(counts, ReceiverCount(met[c])) ELSE counts
  /\ UNCHANGED <<senderSide, receiver, met, todo, disk, consent, cut, fixed>>

\* The approver of several connections remembers its first answer.
Shared == Wanted > 1

\* The connection that gets the approver's mutex first puts the question.
RxAsks(c) ==
  /\ rx[c] = "counted" /\ consent = "none"
  /\ consent' = "asking"
  /\ UNCHANGED <<senderSide, receiver, counts, rx, met, todo, disk, cut, fixed>>

UserAnswers ==
  /\ consent = "asking"
  /\ consent' \in {"accept", "reject"}
  /\ UNCHANGED <<senderSide, receiver, counts, rx, met, todo, disk, cut, fixed>>

RxDeclines(c) ==
  /\ rx[c] = "counted" /\ consent = "reject"
  /\ Becomes(c, "declined")
  /\ UNCHANGED <<senderSide, receiver, counts, met, todo, disk, consent, cut, fixed>>

\* The connection's index is beyond the count: it serves nothing.
Superfluous(c) == c[2] >= ReceiverCount(met[c])

\* Defect: every connection takes every file.
AllAssigned(c) == File

\* The connection's share of the manifest.
Assigned(c) == {f \in File : f % ReceiverCount(met[c]) = c[2]}

\* Defect: `fail` does not look at the disk.
NoConflicts == policy = "fail" /\ Existing = File

\* The policy refuses the whole manifest because of one file.
Conflicts == policy = "fail" /\ Existing # {}

\* The files the policy and the resume plan leave to receive.
Wants(f) ==
  CASE policy = "resume"    -> disk[f] # "whole"
    [] policy = "skip"      -> disk[f] = "absent"
    [] policy = "overwrite" -> TRUE
    [] policy = "fail"      -> TRUE

RxConflicts(c) ==
  /\ rx[c] = "counted" /\ consent = "accept"
  /\ ~Superfluous(c) /\ Conflicts
  /\ Becomes(c, "failed")
  /\ UNCHANGED <<senderSide, receiver, counts, met, todo, disk, consent, cut, fixed>>

\* The plan is made and acknowledged.
RxPlans(c) ==
  /\ rx[c] = "counted" /\ consent = "accept"
  /\ Superfluous(c) \/ ~Conflicts
  /\ Becomes(c, "working")
  /\ todo' = [todo EXCEPT
       ![c] = IF Superfluous(c) THEN {} ELSE {f \in Assigned(c) : Wants(f)}]
  /\ UNCHANGED <<senderSide, receiver, counts, met, disk, consent, cut, fixed>>

\* The file the connection is at: the manifest's order is that of the ids.
Current(c) == CHOOSE f \in todo[c] : \A g \in todo[c] : f <= g

Transfers(c) == rx[c] = "working" /\ todo[c] # {} /\ tx[c] = "counted" /\ c \notin cut

RxOpens(c) ==
  /\ Transfers(c)
  /\ disk[Current(c)] # "partial"
  /\ disk' = [disk EXCEPT ![Current(c)] = "partial"]
  /\ UNCHANGED <<senderSide, receiver, counts, rx, met, todo, consent, cut, fixed>>

RxVerifies(c) ==
  /\ Transfers(c)
  /\ disk[Current(c)] = "partial"
  /\ disk' = [disk EXCEPT ![Current(c)] = "whole"]
  /\ todo' = [todo EXCEPT ![c] = @ \ {Current(c)}]
  /\ UNCHANGED <<senderSide, receiver, counts, rx, met, consent, cut, fixed>>

\* Done is read, or the connection closes when nothing more is due.
RxDone(c) ==
  /\ rx[c] = "working" /\ todo[c] = {}
  /\ tx[c] \in TxLeft \/ c \in cut
  /\ Becomes(c, "ok")
  /\ UNCHANGED <<senderSide, receiver, counts, met, todo, disk, consent, cut, fixed>>

\* The connection breaks: cut, closed by the sender's end, or reset with the
\* backlog it was in.  A connection that waits for the answer does not notice.
RxFails(c) ==
  /\ rx[c] \in {"dialled", "counted", "working"}
  /\ rx[c] = "counted" => consent # "asking"
  /\ rx[c] = "working" => todo[c] # {}
  /\ \/ c \in cut
     \/ tx[c] \in TxLeft
     \/ tx[c] = "none" /\ \A k \in DOMAIN backlog : backlog[k] # c
  /\ Becomes(c, "failed")
  /\ UNCHANGED <<senderSide, receiver, counts, met, todo, disk, consent, cut, fixed>>

-----------------------------------------------------------------------------
(* The receiver's process.                                                 *)

Connection0 == <<receiver.attempt, 0>>

\* An attempt begins with connection 0; a retry has waited out its backoff.
AttemptStarts ==
  /\ receiver.phase = "start" /\ receiver.attempt < MaxAttempts
  /\ receiver' = [phase |-> "negotiate", attempt |-> receiver.attempt + 1]
  /\ rx' = [rx EXCEPT ![<<receiver.attempt + 1, 0>>] = "spawned"]
  /\ consent' = IF Shared THEN consent ELSE "none"
  /\ UNCHANGED <<senderSide, counts, met, todo, disk, cut, fixed>>

\* Defect: the last of the extra connections is not opened.
HearsOneLess ==
  /\ receiver.phase = "negotiate" /\ counts # <<>>
  /\ counts' = Tail(counts)
  /\ rx' = [c \in Conn |->
              IF c[1] = receiver.attempt /\ c[2] \in 1 .. Head(counts) - 2
              THEN "spawned" ELSE rx[c]]
  /\ receiver' = [receiver EXCEPT !.phase = "drain"]
  /\ UNCHANGED <<senderSide, met, todo, disk, consent, cut, fixed>>

\* A count is in the channel, this attempt's or one an earlier attempt left:
\* the extra connections are opened.
ReceiverHears ==
  /\ receiver.phase = "negotiate" /\ counts # <<>>
  /\ counts' = Tail(counts)
  /\ rx' = [c \in Conn |->
              IF c[1] = receiver.attempt /\ c[2] \in 1 .. Head(counts) - 1
              THEN "spawned" ELSE rx[c]]
  /\ receiver' = [receiver EXCEPT !.phase = "drain"]
  /\ UNCHANGED <<senderSide, met, todo, disk, consent, cut, fixed>>

\* The other branch of the select: connection 0 has ended, whether or not its
\* count is in the channel.
ReceiverFirstEnds ==
  /\ receiver.phase = "negotiate" /\ rx[Connection0] \in RxLeft
  /\ Misses(counts # <<>>)
  /\ receiver' = [receiver EXCEPT !.phase = "drain"]
  /\ UNCHANGED <<senderSide, counts, rx, met, todo, disk, consent, cut, request>>

\* The first error ends the attempt and aborts its other connections.
AttemptFails ==
  /\ receiver.phase = "drain"
  /\ \E c \in Own(receiver.attempt) : rx[c] = "failed"
  /\ rx' = Dropped(rx, Own(receiver.attempt), RxLeft)
  /\ receiver' = [receiver EXCEPT
       !.phase = IF receiver.attempt = MaxAttempts THEN "failed" ELSE "start"]
  /\ UNCHANGED <<senderSide, counts, met, todo, disk, consent, cut, fixed>>

\* Defect: a failed connection only ends itself.
AttemptEndsAnyway ==
  /\ receiver.phase = "drain"
  /\ \A c \in Opened(receiver.attempt) : rx[c] \in {"ok", "declined", "failed"}
  /\ receiver' = [receiver EXCEPT !.phase = "done"]
  /\ UNCHANGED <<senderSide, counts, rx, met, todo, disk, consent, cut, fixed>>

\* Every connection has reported.
AttemptEnds ==
  /\ receiver.phase = "drain"
  /\ \A c \in Opened(receiver.attempt) : rx[c] \in {"ok", "declined"}
  /\ receiver' = [receiver EXCEPT
       !.phase = IF \E c \in Own(receiver.attempt) : rx[c] = "declined"
                 THEN "declined" ELSE "done"]
  /\ UNCHANGED <<senderSide, counts, rx, met, todo, disk, consent, cut, fixed>>

-----------------------------------------------------------------------------
(* The network.                                                            *)

Cut(c) ==
  /\ Trouble("cut")
  /\ rx[c] \in {"dialled", "counted", "working"} /\ c \notin cut
  /\ cut' = cut \cup {c}
  /\ UNCHANGED <<senderSide, receiverSide, request>>

-----------------------------------------------------------------------------
SenderStep ==
  SenderAccepts \/ SenderHears \/ SenderFirstEnds \/ SenderAcceptsExtra
    \/ ExtrasTimeOut \/ SenderGivesUp \/ RoundFails \/ RoundCompletes

ReceiverStep ==
  AttemptStarts \/ ReceiverHears \/ ReceiverFirstEnds \/ AttemptFails \/ AttemptEnds

TxStep(c) == TxCounts(c) \/ TxDone(c) \/ TxFails(c)

RxStep(c) ==
  RxDials(c) \/ RxHandshakeTimesOut(c) \/ RxCounts(c) \/ RxAsks(c)
    \/ RxDeclines(c) \/ RxConflicts(c) \/ RxPlans(c) \/ RxOpens(c)
    \/ RxVerifies(c) \/ RxDone(c) \/ RxFails(c)

\* Both commands have exited.
Finished ==
  /\ ~Trying /\ ~Listening
  /\ UNCHANGED vars

Step ==
  \/ SenderStep \/ ReceiverStep \/ UserAnswers
  \/ \E c \in Conn : TxStep(c) \/ RxStep(c)

Next ==
  \/ Step
  \/ SenderRestarts \/ \E c \in Conn : Cut(c)
  \/ Finished

Spec == Init /\ [][Next]_vars

\* Some task that can go on does, and the user answers the prompt.  No task
\* can run forever on its own, so that is enough.
FairSpec == Spec /\ WF_vars(Step)

-----------------------------------------------------------------------------
(* Properties.                                                             *)

\* Every variable has the type its declaration says.
TypeOK ==
  /\ sender \in [phase : SenderPhases, offer : Offers, round : SUBSET Conn, need : Nat]
  /\ backlog \in Seq(Conn)
  /\ receiver \in [phase : ReceiverPhases, attempt : 0 .. MaxAttempts]
  /\ counts \in Seq(Nat)
  /\ tx \in [Conn -> TxStates] /\ rx \in [Conn -> RxStates]
  /\ met \in [Conn -> {0} \cup Offers] /\ todo \in [Conn -> SUBSET File]
  /\ cut \subseteq Conn
  /\ disk \in [File -> {"absent", "partial", "whole"}]
  /\ policy \in Policies
  /\ consent \in {"none", "asking", "accept", "reject"}
  /\ found \subseteq File
  /\ faults \in [count : 0 .. MaxFaults, kinds : SUBSET Kinds]

\* What the receiver reports is there: every file of every connection that a
\* successful attempt opened is whole, and when all of them met the count they
\* were opened for, that is every file (attempt_transfer, aggregate_reports).
SuccessIsServed ==
  LET opened == Opened(receiver.attempt) IN
  receiver.phase = "done" /\ policy # "skip" =>
    /\ \A c \in opened : Superfluous(c) \/ Assigned(c) \subseteq Whole
    /\ (\A c \in opened : ReceiverCount(met[c]) = Cardinality(opened))
         => Whole = File

\* Live connections of a receiver that met the same count have no file in
\* common (assigned_ids, the skip of an index beyond the count).
NoSharedFile ==
  \A c, d \in Conn :
    c # d /\ rx[c] = "working" /\ rx[d] = "working" /\ met[c] = met[d]
      => todo[c] \cap todo[d] = {}

\* A sender that exits well has seen every connection of its last round served.
SenderSuccessIsServed ==
  sender.phase = "done" /\ policy # "skip" =>
    \A c \in sender.round : Superfluous(c) \/ Assigned(c) \subseteq Whole

\* Without the user's consent nothing at the destination changes, and what was
\* there before stays as it is under every policy but overwrite.
ExistingKept ==
  [][\A f \in File : disk'[f] # disk[f] =>
       consent = "accept" /\ (f \in found => policy = "overwrite")]_vars

\* Both commands end, whatever goes wrong.
BothEnd == <>(~Trying /\ ~Listening)

\* When nothing goes wrong, a transfer the user accepts arrives, all of it.
CleanRunDelivers ==
  <>(\/ ~Only({}) \/ consent = "reject" \/ policy = "fail"
     \/ receiver.phase = "done" /\ Whole = File)

=============================================================================
