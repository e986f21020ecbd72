-------------------------------- MODULE Pump --------------------------------
(***************************************************************************)
(* The encryption pumps of a connection: run_pump of crypto.rs on both     *)
(* sides, between the applications and TCP.  A pump waits for plaintext    *)
(* and for a frame at once; when plaintext is there first, the read of a   *)
(* frame that has begun is dropped with all it has read.  What keeps       *)
(* frames whole is that the applications take turns; FileTransfer's        *)
(* messages are abstracted to whose turn it is and to units of plaintext.  *)
(*                                                                         *)
(* A frame on the wire is one cell for its length and one for each unit.   *)
(***************************************************************************)
EXTENDS Naturals, Sequences

CONSTANTS
  Script,      \* the turns: who speaks, and how many units
  MaxPayload,  \* units in a frame
  Duplex,      \* room between an application and its pump
  Wire,        \* room on the wire, in cells
  MaxFaults    \* bound: how often there is trouble

Side == {"sender", "receiver"}
Peer(s) == IF s = "sender" THEN "receiver" ELSE "sender"

ASSUME PumpAssumption ==
  /\ Script \in Seq([by : Side, units : Nat \ {0}])
  /\ MaxPayload \in Nat \ {0} /\ Duplex \in Nat \ {0} /\ Wire \in Nat \ {0}
  /\ MaxFaults \in Nat

VARIABLES
  turn,    \* which turn it is
  said,    \* units of the turn its speaker has written
  heard,   \* units of the turn its listener has read
  outbox,  \* units each application's pump has to take
  inbox,   \* units each application has to read
  wire,    \* what each side has written: the lengths, and 0 for a unit
  eof,     \* the directions that are shut down
  pump,    \* each pump: what it does, and the cells or units that are left
  frame,   \* each pump's read: the cells it has of a frame, and its length
  torn,    \* the reads that were dropped in the middle of a frame
  faults   \* how often there was trouble

apps == <<turn, said, heard>>
vars == <<apps, outbox, inbox, wire, eof, pump, frame, torn, faults>>

Fresh == [has |-> 0, length |-> 0]
Selecting == [does |-> "select", left |-> 0, of |-> 0]

Init ==
  /\ turn = 1 /\ said = 0 /\ heard = 0
  /\ outbox = [s \in Side |-> 0] /\ inbox = [s \in Side |-> 0]
  /\ wire = [s \in Side |-> <<>>] /\ eof = {}
  /\ pump = [s \in Side |-> Selecting]
  /\ frame = [s \in Side |-> Fresh]
  /\ torn = {} /\ faults = 0

-----------------------------------------------------------------------------
(* The applications.                                                       *)

Over == turn > Len(Script)

\* Defect: an application answers before the turn is over.
AnyTurn(s) == ~Over /\ (Script[turn].by = s \/ heard > 0)

\* A side speaks once it has read all of the turn before, and not before.
MyTurn(s) == ~Over /\ Script[turn].by = s

Speaks(s) ==
  /\ MyTurn(s) /\ said < Script[turn].units
  /\ outbox[s] < Duplex
  /\ pump[s].does # "ended"
  /\ outbox' = [outbox EXCEPT ![s] = @ + 1]
  /\ said' = IF Script[turn].by = s THEN said + 1 ELSE said
  /\ UNCHANGED <<turn, heard, inbox, wire, eof, pump, frame, torn, faults>>

Hears(s) ==
  /\ ~Over /\ Script[turn].by = Peer(s) /\ inbox[s] > 0
  /\ inbox' = [inbox EXCEPT ![s] = @ - 1]
  /\ IF heard + 1 = Script[turn].units
     THEN turn' = turn + 1 /\ said' = 0 /\ heard' = 0
     ELSE heard' = heard + 1 /\ UNCHANGED <<turn, said>>
  /\ UNCHANGED <<outbox, wire, eof, pump, frame, torn, faults>>

\* An application that has nothing left to say or to hear is gone.
Gone(s) ==
  \/ Over
  \/ turn = Len(Script) /\ Script[turn].by = s /\ said = Script[turn].units

-----------------------------------------------------------------------------
(* run_pump.                                                               *)

Does(s, does, left, of) ==
  pump' = [pump EXCEPT ![s] = [does |-> does, left |-> left, of |-> of]]

AtSelect(s) == pump[s].does = "select"

\* Plaintext is there: the other branch's read goes, whatever it has.
TakesPlain(s) ==
  /\ AtSelect(s) /\ outbox[s] > 0
  /\ LET units == IF outbox[s] < MaxPayload THEN outbox[s] ELSE MaxPayload
     IN  /\ outbox' = [outbox EXCEPT ![s] = @ - units]
         /\ Does(s, "write", units + 1, units)
  /\ torn' = IF frame[s].has > 0 THEN torn \cup {s} ELSE torn
  /\ frame' = [frame EXCEPT ![s] = Fresh]
  /\ UNCHANGED <<apps, inbox, wire, eof, faults>>

\* write_all: the length, then the ciphertext, as there is room.
WritesWire(s) ==
  /\ pump[s].does = "write" /\ Len(wire[s]) < Wire
  /\ wire' = [wire EXCEPT ![s] =
               Append(@, IF pump[s].left > pump[s].of THEN pump[s].of ELSE 0)]
  /\ IF pump[s].left = 1 THEN Does(s, "select", 0, 0)
     ELSE Does(s, "write", pump[s].left - 1, pump[s].of)
  /\ UNCHANGED <<apps, outbox, inbox, eof, frame, torn, faults>>

\* The peer is no longer there: the write fails.
WriteFails(s) ==
  /\ pump[s].does = "write" /\ pump[Peer(s)].does = "ended"
  /\ Does(s, "ended", 0, 0)
  /\ eof' = eof \cup {s}
  /\ UNCHANGED <<apps, outbox, inbox, wire, frame, torn, faults>>

\* read_framed goes on by a cell.  After a torn frame a unit is taken for a
\* length, or a length for a unit; the frame does not decrypt and the pump ends.
ReadsWire(s) ==
  /\ AtSelect(s) /\ wire[Peer(s)] # <<>>
  /\ LET cell == Head(wire[Peer(s)])
         first == frame[s].has = 0
         length == IF first THEN cell ELSE frame[s].length
     IN  IF first = (cell = 0)
         THEN /\ Does(s, "ended", 0, 0)
              /\ eof' = eof \cup {s}
              /\ UNCHANGED frame
         ELSE IF frame[s].has = length /\ ~first
              THEN /\ Does(s, "deliver", length, length)
                   /\ frame' = [frame EXCEPT ![s] = Fresh]
                   /\ UNCHANGED eof
              ELSE /\ frame' = [frame EXCEPT ![s] =
                                  [has |-> frame[s].has + 1, length |-> length]]
                   /\ UNCHANGED <<pump, eof>>
  /\ wire' = [wire EXCEPT ![Peer(s)] = Tail(@)]
  /\ UNCHANGED <<apps, outbox, inbox, torn, faults>>

\* peer.write_all: plaintext for the application, as there is room.
Delivers(s) ==
  /\ pump[s].does = "deliver" /\ inbox[s] < Duplex
  /\ inbox' = [inbox EXCEPT ![s] = @ + 1]
  /\ IF pump[s].left = 1 THEN Does(s, "select", 0, 0)
     ELSE Does(s, "deliver", pump[s].left - 1, pump[s].of)
  /\ UNCHANGED <<apps, outbox, wire, eof, frame, torn, faults>>

\* Defect: the pump ends with its application.
ShutsAtOnce(s) ==
  /\ AtSelect(s) /\ Gone(s)
  /\ Does(s, "ended", 0, 0)
  /\ eof' = eof \cup {s}
  /\ UNCHANGED <<apps, outbox, inbox, wire, frame, torn, faults>>

\* The application is gone and all it wrote is taken: the stream is shut down.
Shuts(s) ==
  /\ AtSelect(s) /\ Gone(s) /\ outbox[s] = 0
  /\ Does(s, "ended", 0, 0)
  /\ eof' = eof \cup {s}
  /\ UNCHANGED <<apps, outbox, inbox, wire, frame, torn, faults>>

\* The peer's stream has ended, between two frames or within one.
ReadsEof(s) ==
  /\ AtSelect(s) /\ wire[Peer(s)] = <<>> /\ Peer(s) \in eof
  /\ Does(s, "ended", 0, 0)
  /\ eof' = eof \cup {s}
  /\ UNCHANGED <<apps, outbox, inbox, wire, frame, torn, faults>>

-----------------------------------------------------------------------------
(* Trouble: the idle timeout of a pump that waits for a frame, or the end  *)
(* of the process before the pump has written everything.                  *)

Dies(s) ==
  /\ faults < MaxFaults /\ faults' = faults + 1
  /\ AtSelect(s) \/ (pump[s].does = "write" /\ Gone(s))
  /\ Does(s, "ended", 0, 0)
  /\ eof' = eof \cup {s}
  /\ UNCHANGED <<apps, outbox, inbox, wire, frame, torn>>

-----------------------------------------------------------------------------
PumpStep(s) ==
  \/ TakesPlain(s) \/ WritesWire(s) \/ ReadsWire(s) \/ Delivers(s)
  \/ WriteFails(s) \/ Shuts(s) \/ ReadsEof(s)

Ended == (\A s \in Side : pump[s].does = "ended") /\ UNCHANGED vars

Next ==
  \/ \E s \in Side : Speaks(s) \/ Hears(s) \/ PumpStep(s) \/ Dies(s)
  \/ Ended

Spec == Init /\ [][Next]_vars

FairSpec ==
  /\ Spec
  /\ \A s \in Side : WF_vars(Speaks(s)) /\ WF_vars(Hears(s)) /\ WF_vars(PumpStep(s))

-----------------------------------------------------------------------------
(* Properties.                                                             *)

\* No read of a frame is dropped in the middle, although nothing in the pump
\* prevents it.
NoTornFrame == torn = {}

\* As long as there is no trouble, every turn is heard to its end, the last one
\* too, whose speaker leaves at once.
ConversationEnds == <>(Over \/ faults > 0)

=============================================================================
