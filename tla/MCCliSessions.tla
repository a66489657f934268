---------------------------- MODULE MCCliSessions ----------------------------
(* An instance of CliSessions for TLC: new sessions, the first to be       *)
(* resumed or forked by its id, or the last to be continued.               *)
EXTENDS CliSessions, TLC

Options ==
  {[how |-> "new", id |-> NoSession, fork |-> FALSE]}
    \cup [how : {"session"}, id : {1}, fork : BOOLEAN]
    \cup [how : {"continue"}, id : {NoSession}, fork : BOOLEAN]

Symmetry == Permutations(Clients)
=============================================================================
