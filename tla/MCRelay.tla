------------------------------ MODULE MCRelay -------------------------------
(***************************************************************************)
(* Small instances of Relay.  With one ID everybody meets everybody; with  *)
(* two, a registration under one can fill the room the other left.         *)
(***************************************************************************)
EXTENDS Relay

CONSTANTS s1, s2, s3, r1, r2, i, j, here, there

TwoSenders == {s1, s2}
ThreeSenders == {s1, s2, s3}
TwoReceivers == {r1, r2}

OneId == [p \in Peer |-> i]
TwoIds == [p \in Peer |-> IF p = s2 THEN j ELSE i]
OneAddr == [r \in Receiver |-> here]
TwoAddrs == [r \in Receiver |-> IF r = r2 THEN there ELSE here]
=============================================================================
