---------------------------- MODULE RelaySession ----------------------------
(***************************************************************************)
(* One session of the relay (Relay's "copying"): two loops copy bytes, one *)
(* per direction, until the first of them ends or the time is up; then     *)
(* both sockets are dropped.  Bytes are counted, not told apart: TCP and   *)
(* the loops keep their order.                                             *)
(***************************************************************************)
EXTENDS Naturals

CONSTANTS
  MaxBytes,   \* bound on what a client sends
  BufSize,    \* bytes one read returns at most
  Limit       \* idle_timeout, in ticks

ASSUME SessionAssumption ==
  MaxBytes \in Nat /\ BufSize \in Nat \ {0} /\ Limit \in Nat \ {0}

Direction == {"a->b", "b->a"}
Back(d) == IF d = "a->b" THEN "b->a" ELSE "a->b"

VARIABLES
  client,   \* the client each direction comes from
  sent,     \* bytes it has sent
  read,     \* bytes the loop has read
  written,  \* bytes the loop has passed on
  loop,     \* the loop: running, or why it broke off
  session,  \* open, or why it ended
  age,      \* ticks since the session began
  idle      \* ticks since a byte was last passed on

vars == <<client, sent, read, written, loop, session, age, idle>>
clock == <<age, idle>>

Init ==
  /\ client = [d \in Direction |-> "open"]
  /\ sent = [d \in Direction |-> 0]
  /\ read = sent /\ written = sent
  /\ loop = [d \in Direction |-> "running"]
  /\ session = "open"
  /\ age = 0 /\ idle = 0

Running(d) == session = "open" /\ loop[d] = "running"

-----------------------------------------------------------------------------
(* The clients.                                                            *)

Send(d) ==
  /\ session = "open" /\ client[d] = "open" /\ sent[d] < MaxBytes
  /\ sent' = [sent EXCEPT ![d] = @ + 1]
  /\ UNCHANGED <<client, read, written, loop, session, clock>>

\* A client ends its stream and goes on reading, or closes altogether.
EndStream(d) ==
  /\ session = "open" /\ client[d] = "open"
  /\ client' = [client EXCEPT ![d] = "ended"]
  /\ UNCHANGED <<sent, read, written, loop, session, clock>>

Close(d) ==
  /\ session = "open" /\ client[d] # "closed"
  /\ client' = [client EXCEPT ![d] = "closed"]
  /\ UNCHANGED <<sent, read, written, loop, session, clock>>

-----------------------------------------------------------------------------
(* copy_loop.                                                              *)

\* The loop reads again once write_all has taken the whole buffer.
AtRead(d) == Running(d) /\ written[d] = read[d]

\* The whole buffer passed on, however little was read.
ReadWholeBuffer(d) ==
  /\ AtRead(d) /\ read[d] < sent[d]
  /\ read' = [read EXCEPT ![d] = @ + BufSize]
  /\ UNCHANGED <<client, sent, written, loop, session, clock>>

Read(d) ==
  /\ AtRead(d)
  /\ \E n \in 1..BufSize :
       /\ read[d] + n <= sent[d]
       /\ read' = [read EXCEPT ![d] = @ + n]
  /\ UNCHANGED <<client, sent, written, loop, session, clock>>

\* The end of the stream seen while a write is still on its way.
ReadEofAtOnce(d) ==
  /\ Running(d) /\ read[d] = sent[d] /\ client[d] # "open"
  /\ loop' = [loop EXCEPT ![d] = "eof"]
  /\ UNCHANGED <<client, sent, read, written, session, clock>>

ReadEof(d) ==
  /\ AtRead(d) /\ read[d] = sent[d] /\ client[d] # "open"
  /\ loop' = [loop EXCEPT ![d] = "eof"]
  /\ UNCHANGED <<client, sent, read, written, session, clock>>

\* A client that closed with bytes unread resets the connection.
ReadFails(d) ==
  /\ AtRead(d) /\ client[d] = "closed"
  /\ loop' = [loop EXCEPT ![d] = "error"]
  /\ UNCHANGED <<client, sent, read, written, session, clock>>

\* write_all goes on byte by byte, and fails when the reader is gone.
Write(d) ==
  /\ Running(d) /\ written[d] < read[d]
  /\ written' = [written EXCEPT ![d] = @ + 1]
  /\ idle' = 0
  /\ UNCHANGED <<client, sent, read, loop, session, age>>

WriteFails(d) ==
  /\ Running(d) /\ written[d] < read[d] /\ client[Back(d)] = "closed"
  /\ loop' = [loop EXCEPT ![d] = "error"]
  /\ UNCHANGED <<client, sent, read, written, session, clock>>

-----------------------------------------------------------------------------
(* bidirectional_copy under its timeout.                                   *)

\* The select: one loop is done, the other is dropped where it is.
Finish ==
  /\ session = "open"
  /\ \E d \in Direction : loop[d] # "running"
  /\ session' = "over"
  /\ UNCHANGED <<client, sent, read, written, loop, clock>>

Tick ==
  /\ session = "open" /\ age < Limit
  /\ age' = age + 1 /\ idle' = idle + 1
  /\ UNCHANGED <<client, sent, read, written, loop, session>>

\* A copy without a timer, left to its loops.
NoTimeOut ==
  /\ session = "open" /\ age = Limit /\ \A d \in Direction : loop[d] # "running"
  /\ session' = "timedout"
  /\ UNCHANGED <<client, sent, read, written, loop, clock>>

\* The timer runs from the session's start; nothing restarts it.
TimeOut ==
  /\ session = "open" /\ age = Limit
  /\ session' = "timedout"
  /\ UNCHANGED <<client, sent, read, written, loop, clock>>

-----------------------------------------------------------------------------

Copy(d) == Read(d) \/ ReadEof(d) \/ ReadFails(d) \/ Write(d) \/ WriteFails(d)
Client(d) == Send(d) \/ EndStream(d) \/ Close(d)

Next ==
  \/ \E d \in Direction : Copy(d) \/ Client(d)
  \/ Finish \/ Tick \/ TimeOut

\* The loops run and time passes; the clients owe nothing.
Spec ==
  /\ Init /\ [][Next]_vars
  /\ \A d \in Direction : WF_vars(Copy(d))
  /\ WF_vars(Finish) /\ WF_vars(Tick) /\ WF_vars(TimeOut)

-----------------------------------------------------------------------------
(* Properties.                                                             *)

\* Every variable has the type its declaration says; bytes flow one way.
TypeOK ==
  /\ client \in [Direction -> {"open", "ended", "closed"}]
  /\ sent \in [Direction -> 0..MaxBytes]
  /\ \A d \in Direction : written[d] <= read[d] /\ read[d] <= sent[d]
  /\ loop \in [Direction -> {"running", "eof", "error"}]
  /\ session \in {"open", "over", "timedout"}
  /\ idle \in 0..age /\ age \in 0..Limit

\* The client that ends its stream first has its last words delivered, and
\* does not have to wait for the reader: the loop that meets the end of a
\* stream has passed on all of it.
LastWordsDelivered ==
  \A d \in Direction : loop[d] = "eof" => written[d] = sent[d]

\* A session ends, whatever its clients do or leave undone.
SessionEnds == <>(session # "open")

\* "Disconnect idle sessions" (help of --idle-timeout), those "that stop making
\* progress" (README): a session timed out has passed no byte on for that long.
TimedOutIsIdle == session = "timedout" => idle = Limit
=============================================================================
