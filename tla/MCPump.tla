------------------------------- MODULE MCPump -------------------------------
(* Values for TLC: the turns of a transfer of one file that is repaired.   *)
EXTENDS Pump

Turn(by, units) == [by |-> by, units |-> units]

\* Hello both ways; manifest and ack; the file and the verdict; the repair and
\* the verdict; Done.
OneFile ==
  <<Turn("sender", 1), Turn("receiver", 1), Turn("sender", 3), Turn("receiver", 2),
    Turn("sender", 5), Turn("receiver", 2), Turn("sender", 3), Turn("receiver", 1),
    Turn("sender", 1)>>

=============================================================================
