------------------------------- MODULE Relay --------------------------------
(***************************************************************************)
(* The relay server: it keeps senders that wait under a pairing ID, pairs  *)
(* each with a receiver that asks for the ID, and forwards bytes between   *)
(* the two until the session ends.                                         *)
(*                                                                         *)
(* Every accepted connection is a task of a multi-threaded runtime, so the *)
(* unit of interleaving is a critical section of the map's mutex, or one   *)
(* operation on the session counter.  A Sender or Receiver is one          *)
(* connection, not one client: a client that tries again is another one.   *)
(* Time is abstract: an entry may turn stale, a wait may be over and a     *)
(* session may time out at any moment.                                     *)
(***************************************************************************)
EXTENDS Integers, FiniteSets

CONSTANTS
  Sender, Receiver,   \* the connections
  Id,                 \* pairing IDs
  Addr,               \* the receivers' IP addresses
  IdOf,               \* the ID in each connection's hello
  AddrOf,             \* the address each receiver comes from
  Nobody,             \* no connection
  SinglePort,         \* one listener for both roles
  MaxPending,         \* MAX_PENDING_SENDERS
  MaxSessions,        \* max_sessions
  MaxWaiters,         \* MAX_RECEIVER_WAITERS
  FailureBudget       \* MAX_FAILED_ATTEMPTS_PER_WINDOW

Peer == Sender \cup Receiver

ASSUME RelayAssumption ==
  /\ IsFiniteSet(Sender) /\ IsFiniteSet(Receiver)
  /\ Sender \cap Receiver = {} /\ Nobody \notin Peer
  /\ IdOf \in [Peer -> Id]
  /\ AddrOf \in [Receiver -> Addr]
  /\ SinglePort \in BOOLEAN
  /\ MaxPending \in Nat /\ MaxSessions \in Nat /\ MaxWaiters \in Nat
  /\ FailureBudget \in Nat

VARIABLES
  pc,       \* where the task of each connection is
  gone,     \* connections the client has closed
  pending,  \* the senders in the map
  stale,    \* those whose entry is past PENDING_TTL_SECS
  lock,     \* the task that holds the map's mutex between two steps
  holds,    \* the sender each receiver's task has taken out of the map
  active,   \* active_sessions
  fails     \* fresh failures recorded for each address

vars == <<pc, gone, pending, stale, lock, holds, active, fails>>
sessions == <<holds, active>>
registry == <<pending, stale, lock>>

SenderStates ==
  {"away", "hello", "checked", "acked", "failed", "inuse", "full", "registered"}
ReceiverEnds == {"failed", "busy", "limited", "nosender", "capacity", "done"}
ReceiverStates ==
  {"away", "hello", "waiting", "late", "holding", "over", "returning",
   "copying", "closing"} \cup ReceiverEnds

\* In these a receiver's task has a sender: in its handler, and in a session.
InHand == {"holding", "over", "returning"}
Sessions == {"copying", "closing"}

\* The receivers whose task is in one of these states.
In(states) == {r \in Receiver : pc[r] \in states}

Init ==
  /\ pc = [p \in Peer |-> "away"]
  /\ gone = {}
  /\ pending = {} /\ stale = {} /\ lock = Nobody
  /\ holds = [r \in Receiver |-> Nobody]
  /\ active = 0
  /\ fails = [a \in Addr |-> 0]

-----------------------------------------------------------------------------
(* The map of pending senders, keyed by pairing ID.                        *)

\* retain: what is left of the map once stale entries are dropped.
Fresh == pending \ stale
Reap == pending' = Fresh /\ stale' = {}

SameId(p) == {s \in Sender : IdOf[s] = IdOf[p]}

\* HashMap::insert: the entry takes the place of one with the same key.
Inserted(map, s) == (map \ SameId(s)) \cup {s}

Locked == lock # Nobody

\* The verdict of either critical section of a registration.
InUse(s) == Fresh \cap SameId(s) # {}
Full == Cardinality(Fresh) >= MaxPending

Becomes(p, state) == pc' = [pc EXCEPT ![p] = state]

-----------------------------------------------------------------------------
(* Accepting.                                                              *)

\* The tasks that hold a waiter permit: in two-port mode from accept on, in
\* single-port mode once the hello has told the role, until the handler ends.
PermitStates ==
  {"waiting", "late", "holding", "over", "returning"}
    \cup (IF SinglePort THEN {} ELSE {"hello"})
Permitted == In(PermitStates)
PermitFree == Cardinality(Permitted) < MaxWaiters

AcceptSender(s) ==
  /\ pc[s] = "away"
  /\ Becomes(s, "hello")
  /\ UNCHANGED <<gone, registry, sessions, fails>>

AcceptReceiver(r) ==
  /\ pc[r] = "away"
  /\ Becomes(r, IF SinglePort \/ PermitFree THEN "hello" ELSE "busy")
  /\ UNCHANGED <<gone, registry, sessions, fails>>

\* No hello within RELAY_HELLO_TIMEOUT, a wrong proof or the wrong role.
HelloFails(p) ==
  /\ pc[p] = "hello"
  /\ Becomes(p, "failed")
  /\ UNCHANGED <<gone, registry, sessions, fails>>

-----------------------------------------------------------------------------
(* Registering a sender: decide under the lock, decide again under a       *)
(* second one, and keep that one through the write of the ack.             *)

SenderHello(s) ==
  /\ pc[s] = "hello" /\ ~Locked
  /\ Reap
  /\ Becomes(s, CASE InUse(s) -> "inuse"
                  [] ~InUse(s) /\ Full -> "full"
                  [] OTHER -> "checked")
  /\ UNCHANGED <<gone, lock, sessions, fails>>

\* What a second section that looked only at the room, or only at the ID, did.
RecheckRoomOnly(s) ==
  /\ pc[s] = "checked" /\ ~Locked
  /\ Reap
  /\ Becomes(s, IF Full THEN "full" ELSE "acked")
  /\ lock' = IF Full THEN lock ELSE s
  /\ UNCHANGED <<gone, sessions, fails>>
RecheckIdOnly(s) ==
  /\ pc[s] = "checked" /\ ~Locked
  /\ Reap
  /\ Becomes(s, IF InUse(s) THEN "inuse" ELSE "acked")
  /\ lock' = IF InUse(s) THEN lock ELSE s
  /\ UNCHANGED <<gone, sessions, fails>>

\* The second section refuses, or writes RELAY_ACK_OK with the lock held.
Recheck(s) ==
  /\ pc[s] = "checked" /\ ~Locked
  /\ Reap
  /\ Becomes(s, CASE InUse(s) -> "inuse"
                  [] ~InUse(s) /\ Full -> "full"
                  [] OTHER -> "acked")
  /\ lock' = IF InUse(s) \/ Full THEN lock ELSE s
  /\ UNCHANGED <<gone, sessions, fails>>

\* The ack cannot be written: the sender has hung up.
AckFails(s) ==
  /\ pc[s] = "acked" /\ s \in gone
  /\ lock' = Nobody
  /\ Becomes(s, "failed")
  /\ UNCHANGED <<gone, pending, stale, sessions, fails>>

\* The ack is out (the socket may take it though the client is gone).
Register(s) ==
  /\ pc[s] = "acked"
  /\ pending' = Inserted(pending, s)
  /\ stale' = stale \ SameId(s)
  /\ lock' = Nobody
  /\ Becomes(s, "registered")
  /\ UNCHANGED <<gone, sessions, fails>>

-----------------------------------------------------------------------------
(* Pairing a receiver.                                                     *)

Limited(a) == fails[a] > FailureBudget

ReceiverHello(r) ==
  /\ pc[r] = "hello"
  /\ Becomes(r, CASE SinglePort /\ ~PermitFree -> "busy"
                  [] ~(SinglePort /\ ~PermitFree) /\ Limited(AddrOf[r]) -> "limited"
                  [] OTHER -> "waiting")
  /\ UNCHANGED <<gone, registry, sessions, fails>>

\* A poll that looked the sender up and left it in the map.
TakeCopy(r) ==
  /\ pc[r] = "waiting" /\ ~Locked
  /\ \E s \in Fresh \cap SameId(r) : holds' = [holds EXCEPT ![r] = s]
  /\ Reap
  /\ Becomes(r, "holding")
  /\ UNCHANGED <<gone, lock, active, fails>>

\* A poll that finds the sender takes it out of the map.
Take(r) ==
  /\ pc[r] = "waiting" /\ ~Locked
  /\ \E s \in Fresh \cap SameId(r) :
       /\ pending' = Fresh \ {s}
       /\ holds' = [holds EXCEPT ![r] = s]
  /\ stale' = {}
  /\ Becomes(r, "holding")
  /\ UNCHANGED <<gone, lock, active, fails>>

\* A poll that does not sleeps and comes back, or was the last one.
PollInVain(r) ==
  /\ pc[r] = "waiting" /\ ~Locked
  /\ Fresh \cap SameId(r) = {}
  /\ Reap
  /\ pc' \in {pc, [pc EXCEPT ![r] = "late"]}
  /\ UNCHANGED <<gone, lock, sessions, fails>>

RecordFailure(r) ==
  /\ pc[r] = "late"
  /\ fails' = [fails EXCEPT ![AddrOf[r]] = @ + 1]
  /\ Becomes(r, IF fails[AddrOf[r]] + 1 > FailureBudget THEN "limited" ELSE "nosender")
  /\ UNCHANGED <<gone, registry, sessions>>

\* A failure leaves the sliding window.
FailureExpires(a) ==
  /\ fails[a] > 0
  /\ fails' = [fails EXCEPT ![a] = @ - 1]
  /\ UNCHANGED <<pc, gone, registry, sessions>>

\* A limit off by one, and a slot that is never counted.
ReserveOneTooMany(r) ==
  /\ pc[r] = "holding"
  /\ active' = active + 1
  /\ Becomes(r, IF active > MaxSessions THEN "over" ELSE "copying")
  /\ UNCHANGED <<gone, registry, holds, fails>>
ReserveUncounted(r) ==
  /\ pc[r] = "holding"
  /\ active' = IF active >= MaxSessions THEN active + 1 ELSE active
  /\ Becomes(r, IF active >= MaxSessions THEN "over" ELSE "copying")
  /\ UNCHANGED <<gone, registry, holds, fails>>

\* fetch_add: the slot is taken before the limit is looked at.  Under the
\* limit the session is spawned and the handler returns.
Reserve(r) ==
  /\ pc[r] = "holding"
  /\ active' = active + 1
  /\ Becomes(r, IF active >= MaxSessions THEN "over" ELSE "copying")
  /\ UNCHANGED <<gone, registry, holds, fails>>

\* An early return that forgets the fetch_sub.
GiveNothingBack(r) ==
  /\ pc[r] = "over"
  /\ Becomes(r, "returning")
  /\ UNCHANGED <<gone, registry, sessions, fails>>

\* fetch_sub: the slot over the limit is given back.
GiveBack(r) ==
  /\ pc[r] = "over"
  /\ active' = active - 1
  /\ Becomes(r, "returning")
  /\ UNCHANGED <<gone, registry, holds, fails>>

\* The sender goes back into the map with a fresh timestamp, unconditionally.
ReturnSender(r) ==
  /\ pc[r] = "returning" /\ ~Locked
  /\ pending' = Inserted(pending, holds[r])
  /\ stale' = stale \ SameId(holds[r])
  /\ holds' = [holds EXCEPT ![r] = Nobody]
  /\ Becomes(r, "capacity")
  /\ UNCHANGED <<gone, lock, active, fails>>

-----------------------------------------------------------------------------
(* The session.                                                            *)

\* A direction of the copy ends once one of the clients has closed.
CopyEnds(r) ==
  /\ pc[r] = "copying"
  /\ {r, holds[r]} \cap gone # {}
  /\ Becomes(r, "closing")
  /\ UNCHANGED <<gone, registry, sessions, fails>>

\* A copy that nobody times.
CopyGoesOn(r) ==
  /\ pc[r] = "copying" /\ {r, holds[r]} \subseteq gone
  /\ Becomes(r, "closing")
  /\ UNCHANGED <<gone, registry, sessions, fails>>

CopyTimesOut(r) ==
  /\ pc[r] = "copying"
  /\ Becomes(r, "closing")
  /\ UNCHANGED <<gone, registry, sessions, fails>>

\* Both streams are closed; the guard, dropped last, frees the slot.
DropGuard(r) ==
  /\ pc[r] = "closing"
  /\ active' = active - 1
  /\ holds' = [holds EXCEPT ![r] = Nobody]
  /\ Becomes(r, "done")
  /\ UNCHANGED <<gone, registry, fails>>

-----------------------------------------------------------------------------
(* The environment.                                                        *)

\* The connections the relay has.
Open ==
  {s \in Sender : pc[s] \in {"hello", "checked", "acked"}}
    \cup pending
    \cup {holds[r] : r \in In(InHand \cup Sessions)}
    \cup {r \in Receiver : pc[r] \notin ReceiverEnds \cup {"away"}}

\* A client closes its end: it is done, it crashed, or it waited too long.
Leave(p) ==
  /\ p \in Open \ gone
  /\ gone' = gone \cup {p}
  /\ UNCHANGED <<pc, registry, sessions, fails>>

\* An entry passes its time to live.
GrowStale(s) ==
  /\ s \in Fresh
  /\ stale' = stale \cup {s}
  /\ UNCHANGED <<pc, gone, pending, lock, sessions, fails>>

-----------------------------------------------------------------------------

SenderTask(s) ==
  HelloFails(s) \/ SenderHello(s) \/ Recheck(s) \/ AckFails(s) \/ Register(s)

SessionTask(r) == CopyEnds(r) \/ CopyTimesOut(r) \/ DropGuard(r)

ReceiverTask(r) ==
  \/ HelloFails(r) \/ ReceiverHello(r)
  \/ Take(r) \/ PollInVain(r) \/ RecordFailure(r)
  \/ Reserve(r) \/ GiveBack(r) \/ ReturnSender(r)
  \/ SessionTask(r)

Next ==
  \/ \E s \in Sender : AcceptSender(s) \/ SenderTask(s) \/ GrowStale(s)
  \/ \E r \in Receiver : AcceptReceiver(r) \/ ReceiverTask(r)
  \/ \E p \in Peer : Leave(p)
  \/ \E a \in Addr : FailureExpires(a)

Spec == Init /\ [][Next]_vars

\* The runtime runs every task that can go on.  A poll sleeps 200 ms between
\* the polls of a wait that the deadline ends, and a session that moves no
\* byte times out; nothing is assumed of the clients.
WaitEnds(r) == PollInVain(r) /\ pc'[r] = "late"
Progress(r) ==
  \/ HelloFails(r) \/ ReceiverHello(r)
  \/ Take(r) \/ WaitEnds(r) \/ RecordFailure(r)
  \/ Reserve(r) \/ GiveBack(r) \/ ReturnSender(r)
  \/ SessionTask(r)
FairSpec ==
  /\ Spec
  /\ \A s \in Sender : WF_vars(SenderTask(s))
  /\ \A r \in Receiver : WF_vars(Progress(r))

-----------------------------------------------------------------------------
(* Properties.                                                             *)

\* Every variable has the type its declaration says.
TypeOK ==
  /\ pc \in [Peer -> SenderStates \cup ReceiverStates]
  /\ \A s \in Sender : pc[s] \in SenderStates
  /\ \A r \in Receiver : pc[r] \in ReceiverStates
  /\ gone \subseteq Peer
  /\ pending \subseteq Sender /\ stale \subseteq pending
  /\ lock \in Sender \cup {Nobody}
  /\ holds \in [Receiver -> Sender \cup {Nobody}]
  /\ active \in Nat
  /\ fails \in [Addr -> Nat]

Slots == Sessions \cup {"over"}

\* "At most MAX_ACTIVE_SESSIONS concurrent paired transfers are allowed" (doc
\* of RelayServer), however many receivers reserve at once.
SessionsBounded == Cardinality(In(Sessions)) <= MaxSessions

\* The counter counts the sessions whose guard lives and the receivers about to
\* give a slot back: a refused pairing, a session that ends by itself and one
\* that times out each free exactly the slot they took.
SlotsAccounted == active = Cardinality(In(Slots))

\* A sender is in one place: in the map, or with one receiver that asked for its
\* ID.  Only a sender whose registration is complete is ever paired ("no
\* receiver can pair against this ID until the sender has been fully
\* registered"), and the map has one sender per ID.
OneOwner ==
  /\ \A s \in pending :
       /\ pc[s] = "registered"
       /\ \A t \in pending : IdOf[s] = IdOf[t] => s = t
  /\ \A r \in Receiver : holds[r] # Nobody =>
       /\ pc[holds[r]] = "registered" /\ IdOf[holds[r]] = IdOf[r]
       /\ holds[r] \notin pending
       /\ \A q \in Receiver : holds[q] = holds[r] => q = r

\* Returned senders may take the map past its limit, by no more than the
\* receivers that wait at a time.
MapBounded ==
  Cardinality(pending) + Cardinality(In(InHand)) <= MaxPending + MaxWaiters

\* A registered sender whose entry is fresh leaves the map into the hands of a
\* receiver, or makes room for one of the same ID that a receiver brings back.
OnlyReturnEvicts ==
  [][\A s \in Fresh : s \notin pending' =>
       \E r \in Receiver :
         /\ IdOf[r] = IdOf[s]
         /\ \/ pc[r] = "waiting" /\ holds'[r] = s
            \/ pc[r] = "returning" /\ pc'[r] = "capacity"]_vars

\* Every receiver let in gets its answer, and every session lets go of its slot
\* though both clients hang on to it.
Answered(r) == pc[r] \in ReceiverEnds
EveryoneAnswered == \A r \in Receiver : pc[r] # "away" ~> Answered(r)

-----------------------------------------------------------------------------
(* Why they hold: who has a sender, the lock or a permit shows in the       *)
(* state its task is in.                                                    *)

HoldersHold ==
  \A r \in Receiver : holds[r] # Nobody <=> pc[r] \in InHand \cup Sessions

\* The lock a registration keeps through its ack keeps its place in the map.
AckedHasLock == \A s \in Sender : pc[s] = "acked" <=> lock = s
AckedFits ==
  \A s \in Sender : pc[s] = "acked" =>
    pending \cap SameId(s) = {} /\ Cardinality(pending) < MaxPending

PermitsBounded == Cardinality(Permitted) <= MaxWaiters

\* All of it: with the properties above, an inductive invariant.
Bookkeeping == HoldersHold /\ AckedHasLock /\ AckedFits /\ PermitsBounded

-----------------------------------------------------------------------------
(* What documents and comments say, and the code does not do.              *)

\* "Never evict a live sender" (register_sender_stream): one that is registered
\* and fresh leaves the map only into the hands of a receiver.
NeverEvicted ==
  [][\A s \in Fresh : s \notin pending' => \E r \in Receiver : holds'[r] = s]_vars
=============================================================================
