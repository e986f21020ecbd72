----------------------------- MODULE AutoRoutes -----------------------------
(***************************************************************************)
(* `--relay auto` on both sides.  The sender keeps one task, an arm, for   *)
(* every route: the direct listener and each relay it is registered with.  *)
(* Only one arm at a time may run a session, and the first session that    *)
(* ends well ends the send.  The receiver tries the routes one after the   *)
(* other, and all of them again.                                           *)
(*                                                                         *)
(* A connection is known by who is at its other end: the receiver's        *)
(* current try, one of the extra connections of that try, or a stranger:   *)
(* a port scan, a wrong code, or a try the receiver has given up.  What    *)
(* happens inside a session is FileTransfer's and ParallelSession's        *)
(* subject; the relay server is Relay's.                                   *)
(***************************************************************************)
EXTENDS Integers, Sequences, FiniteSets

CONSTANTS
  Direct,      \* the direct route
  Relays,      \* the relays, in the order both sides use
  NoRoute,     \* no route
  Wanted,      \* connections of a direct session, 1 or 2
  MaxBacklog,  \* bound: connections waiting on the listener
  Kinds,       \* the kinds of trouble there may be
  MaxFaults    \* bound: how often there is trouble

Order == <<Direct>> \o Relays
Route == {Order[k] : k \in DOMAIN Order}

ASSUME AutoAssumption ==
  /\ Relays \in Seq(Route \ {Direct})
  /\ NoRoute \notin Route
  /\ Wanted \in 1 .. 2
  /\ MaxBacklog \in Nat /\ MaxFaults \in Nat
  /\ Kinds \subseteq {"stranger", "break", "late", "relay"}

VARIABLES
  arm,      \* each arm: where it is, and who is at the end of its stream
  extra,    \* who is at the end of the direct session's extra connection
  backlog,  \* connections waiting on the direct listener
  gate,     \* the arm that holds the progress gate
  expired,  \* the lifetime of the send is over
  outcome,  \* of the send
  rcv,      \* the receiver: where it is, and the route it tries
  faults    \* how often there was trouble

vars == <<arm, extra, backlog, gate, expired, outcome, rcv, faults>>

Peers == {"none", "receiver", "extra", "stranger"}
ArmStates == {"start", "waiting", "gate", "session", "extras", "drain", "pause",
              "won", "ended"}
InSession == {"session", "extras", "drain"}
Tries == {"dialled", "shaken", "counted", "served"}
ReceiverStates == Tries \cup {"resolve", "pause", "done", "gaveup"}

\* The route the receiver is on.
On == Order[rcv.route]

Init ==
  /\ arm = [r \in Route |-> [pc |-> "start", peer |-> "none"]]
  /\ extra = "none" /\ backlog = <<>> /\ gate = NoRoute
  /\ expired = FALSE /\ outcome = "running"
  /\ rcv = [at |-> "resolve", route |-> 1]
  /\ faults = 0

Trouble(kind) ==
  /\ kind \in Kinds /\ faults < MaxFaults
  /\ faults' = faults + 1

-----------------------------------------------------------------------------
(* The arms.                                                               *)

Goes(r, pc, peer) == arm' = [arm EXCEPT ![r] = [pc |-> pc, peer |-> peer]]
other == <<expired, outcome>>

\* The loop's head: the lifetime is over.
ArmEnds(r) ==
  /\ arm[r].pc = "start" /\ expired
  /\ Goes(r, "ended", "none")
  /\ UNCHANGED <<extra, backlog, gate, other, rcv, faults>>

\* register_sender_with_relay: registered, or refused, or out of reach.
Registers(r) ==
  /\ r # Direct /\ arm[r].pc = "start" /\ ~expired
  /\ Goes(r, "waiting", "none")
  /\ UNCHANGED <<extra, backlog, gate, other, rcv, faults>>

RegisterFails(r) ==
  /\ r # Direct /\ arm[r].pc = "start" /\ ~expired
  /\ Trouble("relay")
  /\ Goes(r, "pause", "none")
  /\ UNCHANGED <<extra, backlog, gate, other, rcv>>

\* The wait for the first byte ends: the relay has closed, or the lifetime is over.
WaitEnds(r) ==
  /\ arm[r] = [pc |-> "waiting", peer |-> "none"]
  /\ \/ expired /\ Goes(r, "start", "none") /\ UNCHANGED faults
     \/ Trouble("relay") /\ Goes(r, "pause", "none")
  /\ UNCHANGED <<extra, backlog, gate, other, rcv>>

\* Noise, with the stream in hand and before the gate is asked for.
Handshake(r) ==
  /\ arm[r].pc = "waiting"
  /\ \/ /\ arm[r].peer = "receiver"
        /\ Goes(r, "gate", "receiver")
        /\ rcv' = [rcv EXCEPT !.at = "shaken"]
     \/ /\ arm[r].peer = "stranger"
        /\ Goes(r, "pause", "none")
        /\ UNCHANGED rcv
  /\ UNCHANGED <<extra, backlog, gate, other, faults>>

\* The direct arm accepts whoever is next.
Accepts ==
  /\ arm[Direct].pc = "start" /\ ~expired /\ backlog # <<>>
  /\ Goes(Direct, "gate", Head(backlog))
  /\ backlog' = Tail(backlog)
  /\ UNCHANGED <<extra, gate, other, rcv, faults>>

\* Defect: an arm does not wait for the gate.
EntersAnyway(r) ==
  /\ arm[r].pc = "gate"
  /\ gate' = r
  /\ Goes(r, "session", arm[r].peer)
  /\ UNCHANGED <<extra, backlog, other, rcv, faults>>

\* acquire_progress_gate; a lock that is free at the deadline is still taken.
Enters(r) ==
  /\ arm[r].pc = "gate" /\ gate = NoRoute
  /\ gate' = r
  /\ Goes(r, "session", arm[r].peer)
  /\ UNCHANGED <<extra, backlog, other, rcv, faults>>

\* The lifetime is over before the gate is free: the stream is dropped.
GivesUpGate(r) ==
  /\ arm[r].pc = "gate" /\ expired
  /\ Goes(r, "start", "none")
  /\ UNCHANGED <<extra, backlog, gate, other, rcv, faults>>

\* The connections a direct session asks for beside its first one.
Extras(r) == r = Direct /\ Wanted > 1

\* The Hello exchange, after Noise on the direct route.  From here the session
\* counts as authenticated, which only words what the send says of its end.
Hello(r) ==
  /\ arm[r].pc = "session" /\ arm[r].peer \in {"receiver", "extra"}
  /\ Goes(r, IF Extras(r) THEN "extras" ELSE "drain", arm[r].peer)
  /\ IF arm[r].peer = "receiver"
     THEN rcv' = [rcv EXCEPT !.at = "counted"] ELSE UNCHANGED rcv
  /\ UNCHANGED <<extra, backlog, gate, other, faults>>

\* The extra connection is whoever is next on the listener.
AcceptsExtra ==
  /\ arm[Direct].pc = "extras" /\ backlog # <<>>
  /\ extra' = Head(backlog) /\ backlog' = Tail(backlog)
  /\ Goes(Direct, "drain", arm[Direct].peer)
  /\ UNCHANGED <<gate, other, rcv, faults>>

\* Nobody comes in time: the round is aborted; the gate is held over the pause.
ExtrasTimeOut ==
  /\ arm[Direct].pc = "extras" /\ backlog = <<>>
  /\ IF arm[Direct].peer = "receiver" /\ rcv.at = "counted"
     THEN Trouble("late") ELSE UNCHANGED faults
  /\ Goes(Direct, "pause", "none")
  /\ UNCHANGED <<extra, backlog, gate, other, rcv>>

\* A connection of the session has failed: the others are aborted.  The direct
\* arm goes back to its listener at once, a relay arm holds the gate over a pause.
SessionFails(r) ==
  /\ arm[r].pc \in {"session", "drain"}
  /\ arm[r].peer = "stranger" \/ (arm[r].pc = "drain" /\ Extras(r) /\ extra = "stranger")
  /\ Goes(r, IF r = Direct THEN "start" ELSE "pause", "none")
  /\ gate' = IF r = Direct THEN NoRoute ELSE gate
  /\ extra' = IF r = Direct THEN "none" ELSE extra
  /\ UNCHANGED <<backlog, other, rcv, faults>>

\* Defect: the guard outlives its round.
ResumesHolding(r) ==
  /\ arm[r].pc = "pause"
  /\ Goes(r, "start", "none")
  /\ UNCHANGED <<extra, backlog, gate, other, rcv, faults>>

\* The pause is over, the gate's guard goes out of scope.
Resumes(r) ==
  /\ arm[r].pc = "pause"
  /\ Goes(r, "start", "none")
  /\ gate' = IF gate = r THEN NoRoute ELSE gate
  /\ UNCHANGED <<extra, backlog, other, rcv, faults>>

\* Every connection of the session is where it belongs.
Complete(r) ==
  /\ arm[r] = [pc |-> "drain", peer |-> "receiver"]
  /\ Extras(r) => extra = "extra"

\* Defect: the first connection that ends well ends the round.
EndsWithFirst(r) ==
  /\ arm[r] = [pc |-> "drain", peer |-> "receiver"]
  /\ Goes(r, "won", "receiver")
  /\ gate' = NoRoute
  /\ UNCHANGED <<extra, backlog, other, rcv, faults>>

\* Done on every connection: the arm's task returns.
SessionEnds(r) ==
  /\ Complete(r) /\ rcv.at = "served"
  /\ Goes(r, "won", "receiver")
  /\ gate' = NoRoute
  /\ UNCHANGED <<extra, backlog, other, rcv, faults>>

-----------------------------------------------------------------------------
(* run_auto_send.                                                          *)

Stops(result) ==
  /\ outcome' = result
  /\ arm' = [r \in Route |-> [pc |-> "ended", peer |-> "none"]]
  /\ extra' = "none" /\ backlog' = <<>> /\ gate' = NoRoute
  /\ UNCHANGED <<expired, rcv, faults>>

Running == outcome = "running"
Won == \E r \in Route : arm[r].pc = "won"

SendSucceeds == Running /\ Won /\ Stops("done")
SendExpires == Running /\ expired /\ ~Won /\ Stops("failed")
SendFails ==
  /\ Running /\ \A r \in Route : arm[r].pc = "ended"
  /\ Stops("failed")

-----------------------------------------------------------------------------
(* The receiver.                                                           *)

\* A connection of the receiver's is closed: who has it has a stranger's.
Closed(peer) == IF peer \in {"receiver", "extra"} THEN "stranger" ELSE peer

Hangs ==
  /\ arm' = [r \in Route |-> [arm[r] EXCEPT !.peer = Closed(@)]]
  /\ extra' = Closed(extra)
  /\ backlog' = [k \in DOMAIN backlog |-> Closed(backlog[k])]

\* Defect: off by one.
PastTheLast == [at |-> "resolve", route |-> rcv.route + 1]

\* The next route, or after the last one a pause before all of them again.
NextRoute == IF rcv.route < Len(Order) THEN [at |-> "resolve", route |-> rcv.route + 1]
             ELSE [at |-> "pause", route |-> 1]

\* Discovery finds the sender and TCP connects, or the route is skipped.
DialsDirect ==
  /\ rcv.at = "resolve" /\ On = Direct
  /\ \/ /\ Running /\ Len(backlog) < MaxBacklog
        /\ backlog' = Append(backlog, "receiver")
        /\ rcv' = [rcv EXCEPT !.at = "dialled"]
     \/ rcv' = NextRoute /\ UNCHANGED backlog
  /\ UNCHANGED <<arm, extra, gate, other, faults>>

DialsRelay ==
  /\ rcv.at = "resolve" /\ On # Direct
  /\ \/ rcv' = [rcv EXCEPT !.at = "dialled"] /\ UNCHANGED faults
     \/ Trouble("relay") /\ rcv' = NextRoute
  /\ UNCHANGED <<arm, extra, backlog, gate, other>>

\* The relay joins the receiver to the arm that waits there.
Paired ==
  /\ rcv.at = "dialled" /\ On # Direct
  /\ arm[On] = [pc |-> "waiting", peer |-> "none"]
  /\ Goes(On, "waiting", "receiver")
  /\ UNCHANGED <<extra, backlog, gate, other, rcv, faults>>

\* The connection the receiver's try stands on is still open at the sender.
Linked ==
  \/ \E r \in Route : arm[r].peer = "receiver"
  \/ \E k \in DOMAIN backlog : backlog[k] = "receiver"

\* The try's extra connection, once the count is known.
DialsExtra ==
  /\ rcv.at = "counted" /\ Extras(On) /\ extra = "none"
  /\ Linked /\ Len(backlog) < MaxBacklog
  /\ \A k \in DOMAIN backlog : backlog[k] # "extra"
  /\ backlog' = Append(backlog, "extra")
  /\ UNCHANGED <<arm, extra, gate, other, rcv, faults>>

\* The last file is verified.
Served ==
  /\ rcv.at = "counted" /\ Complete(On)
  /\ rcv' = [rcv EXCEPT !.at = "served"]
  /\ UNCHANGED <<arm, extra, backlog, gate, other, faults>>

\* Done is read, or the stream closes when only Done is due.
ReceiverEnds ==
  /\ rcv.at = "served"
  /\ ~Linked \/ arm[On].pc = "won"
  /\ rcv' = [rcv EXCEPT !.at = "done"]
  /\ UNCHANGED <<arm, extra, backlog, gate, other, faults>>

\* The try fails: its connection is closed at the other end; on a relay, a
\* connection that is not joined yet is closed only by a limit.
TryFails ==
  /\ \/ rcv.at \in {"shaken", "counted"}
     \/ rcv.at = "dialled" /\ On = Direct
  /\ ~Linked
  /\ rcv' = NextRoute
  /\ Hangs
  /\ UNCHANGED <<gate, other, faults>>

\* A limit of the handshake or of the relay's pairing passes.  Pauses are shorter
\* than the limits, so while the sender's arm lives only lateness explains it.
TryTimesOut ==
  /\ rcv.at = "dialled"
  /\ IF arm[On].pc = "ended" THEN UNCHANGED faults ELSE Trouble("late")
  /\ rcv' = NextRoute
  /\ Hangs
  /\ UNCHANGED <<gate, other>>

\* The backoff between two attempts is over; unless it retries forever, the
\* receiver gives up after some of them.
TriesAgain ==
  /\ rcv.at = "pause"
  /\ rcv' = [rcv EXCEPT !.at = "resolve"]
  /\ UNCHANGED <<arm, extra, backlog, gate, other, faults>>

GivesUp ==
  /\ rcv.at = "pause"
  /\ rcv' = [rcv EXCEPT !.at = "gaveup"]
  /\ UNCHANGED <<arm, extra, backlog, gate, other, faults>>

-----------------------------------------------------------------------------
(* The environment.                                                        *)

\* Somebody else connects to the port, or to the relay with the pairing ID.
Stranger(r) ==
  /\ Trouble("stranger") /\ Running
  /\ IF r = Direct
     THEN /\ Len(backlog) < MaxBacklog
          /\ backlog' = Append(backlog, "stranger")
          /\ UNCHANGED arm
     ELSE /\ arm[r] = [pc |-> "waiting", peer |-> "none"]
          /\ Goes(r, "waiting", "stranger")
          /\ UNCHANGED backlog
  /\ UNCHANGED <<extra, gate, other, rcv>>

\* A connection is lost, or idle for too long.
Break(r) ==
  /\ Trouble("break")
  /\ arm[r].peer = "receiver"
  /\ arm' = [arm EXCEPT ![r].peer = "stranger"]
  /\ UNCHANGED <<extra, backlog, gate, other, rcv>>

Expire ==
  /\ ~expired /\ Running
  /\ expired' = TRUE
  /\ UNCHANGED <<arm, extra, backlog, gate, outcome, rcv, faults>>

-----------------------------------------------------------------------------
ArmStep(r) ==
  \/ ArmEnds(r) \/ Registers(r) \/ RegisterFails(r) \/ WaitEnds(r)
  \/ Handshake(r) \/ Enters(r) \/ GivesUpGate(r) \/ Hello(r)
  \/ SessionFails(r) \/ Resumes(r) \/ SessionEnds(r)
  \/ r = Direct /\ (Accepts \/ AcceptsExtra \/ ExtrasTimeOut)

Send == SendSucceeds \/ SendExpires \/ SendFails

Receive ==
  DialsDirect \/ DialsRelay \/ Paired \/ DialsExtra \/ Served \/ ReceiverEnds
    \/ TryFails \/ TryTimesOut \/ TriesAgain

\* Both commands have ended.
Finished ==
  /\ ~Running /\ rcv.at \in {"done", "gaveup"}
  /\ UNCHANGED vars

Next ==
  \/ \E r \in Route : ArmStep(r) \/ Stranger(r) \/ Break(r)
  \/ Send \/ Receive \/ GivesUp \/ Expire \/ Finished

Spec == Init /\ [][Next]_vars

\* Every task runs.  The lifetime is not owed: it may be as long as it takes.
FairSpec ==
  /\ Spec
  /\ \A r \in Route : WF_vars(ArmStep(r))
  /\ WF_vars(Send) /\ WF_vars(Receive)

-----------------------------------------------------------------------------
(* Properties.                                                             *)

\* Every variable has the type its declaration says.
TypeOK ==
  /\ arm \in [Route -> [pc : ArmStates, peer : Peers]]
  /\ extra \in Peers /\ backlog \in Seq(Peers \ {"none"})
  /\ gate \in Route \cup {NoRoute}
  /\ expired \in BOOLEAN
  /\ outcome \in {"running", "done", "failed"}
  /\ rcv \in [at : ReceiverStates, route : DOMAIN Order]
  /\ faults \in 0 .. MaxFaults

\* Only the arm that holds the gate is in a session (progress_gate).
OneSession == \A r \in Route : arm[r].pc \in InSession => gate = r

\* The send reports success only when the receiver has everything, extra
\* connections included ("... or report a false partial success").
SuccessIsDelivered == outcome = "done" \/ Won => rcv.at \in {"served", "done"}

\* A receiver that keeps trying gets the files, as long as the send lives.
RetriesDeliver == <>(rcv.at \in {"done", "gaveup"} \/ expired)

=============================================================================
