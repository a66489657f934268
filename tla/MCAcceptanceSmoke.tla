-------------------------- MODULE MCAcceptanceSmoke --------------------------
(* An instance of AcceptanceSmoke for TLC: both scripts, whole.            *)
EXTENDS AcceptanceSmoke

Children == 1 .. 6
=============================================================================
