---------------------------- MODULE MCAutoRoutes ----------------------------
(* Values for TLC: AutoRoutes with two relays.                             *)
EXTENDS AutoRoutes

CONSTANTS r1, r2

TwoRelays == <<r1, r2>>

=============================================================================
