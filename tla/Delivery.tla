------------------------------- MODULE Delivery -------------------------------
(***************************************************************************)
(* What the transfer of one file promises, whatever the protocol.  Until   *)
(* it settles the destination may become anything; it settles once, as     *)
(* verified only with content whose hash the sender announced, and from    *)
(* then on the destination is left alone.  The sender takes the file for   *)
(* delivered only after the receiver has settled on having it.             *)
(***************************************************************************)
VARIABLES
  status,     \* "none" until the transfer settles, then its outcome
  received,   \* the destination file
  announced,  \* the contents whose hash the sender announced
  confirmed   \* the sender holds the file to be delivered

vars == <<status, received, announced, confirmed>>

Settled == status # "none"

Init == ~Settled /\ announced = {} /\ ~confirmed

Announce ==
  /\ announced \subseteq announced'
  /\ UNCHANGED <<status, received, confirmed>>

Write ==
  /\ ~Settled
  /\ UNCHANGED <<status, announced, confirmed>>

Settle ==
  /\ ~Settled
  /\ status' \in {"verified", "failed", "skipped"}
  /\ status' = "verified" => received \in announced
  /\ UNCHANGED <<received, announced, confirmed>>

Confirm ==
  /\ status \in {"verified", "skipped"}
  /\ confirmed' = TRUE
  /\ UNCHANGED <<status, received, announced>>

Next == Announce \/ Write \/ Settle \/ Confirm

Spec == Init /\ [][Next]_vars
=============================================================================
