-------------------------- MODULE MCServerSessions --------------------------
(* Instances of ServerSessions for TLC.  The parents are the first two     *)
(* sessions of a process, which may not exist yet or any more: a third can *)
(* be a grandchild of the first, and two can be parents of one another.    *)
EXTENDS ServerSessions, TLC

AllModes == {"fake", "live", "config"}

Archive == {[title |-> FALSE, archived |-> TRUE]}

Symmetry == Permutations(Requests)
=============================================================================
