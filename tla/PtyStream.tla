----------------------------- MODULE PtyStream -----------------------------
(***************************************************************************)
(* What src/opencodehx/pty/PtyService.hx promises to those who watch a     *)
(* terminal: a reader that attaches gets what was written from the         *)
(* position it asks for, or as much of it as is kept, is told where the    *)
(* output ends, and then gets all that is written, in order and once, for  *)
(* as long as it is attached.  Sockets and buffers are PtyService's.       *)
(***************************************************************************)
EXTENDS Integers, Sequences

CONSTANTS Terminals, Readers,
          Keep,          (* how much of the output is kept at least        *)
          FromEnd        (* the position that asks for no earlier output   *)

VARIABLES written,  (* how much each terminal has written                  *)
          reader    (* of: the terminal a reader is attached to, 0: none;  *)
                    (* asked: the position it asked for; end: where it was *)
                    (* told the output ends; got: what it read since       *)

vars == <<written, reader>>

Detached == [of |-> 0, asked |-> 0, end |-> 0, got |-> <<>>]

(* The output of terminal t after position a up to b.                      *)
Stretch(t, a, b) == [i \in 1 .. b - a |-> <<t, a + i>>]

Start(asked, end) ==
  IF asked = FromEnd \/ asked >= end THEN end
  ELSE IF asked >= end - Keep THEN asked ELSE end - Keep

Init ==
  /\ written = [t \in Terminals |-> 0]
  /\ reader = [r \in Readers |-> Detached]

(* Output reaches every reader, but one may break off at it.               *)
Write(t) ==
  /\ written'[t] > written[t]
  /\ written' = [written EXCEPT ![t] = written'[t]]
  /\ \A r \in Readers :
       \/ reader[r].of # t /\ reader'[r] = reader[r]
       \/ reader[r].of = t /\ reader'[r] = Detached
       \/ /\ reader[r].of = t
          /\ reader'[r] = [reader[r] EXCEPT !.got = @ \o Stretch(t, written[t], written'[t])]

Attach(r, t) ==
  /\ reader[r].of \in {0, t}
  /\ LET asked == reader'[r].asked
     IN  reader' = [reader EXCEPT ![r] =
                      [of |-> t, asked |-> asked, end |-> written[t],
                       got |-> Stretch(t, Start(asked, written[t]), written[t])]]
  /\ UNCHANGED written

Detach ==
  /\ \A r \in Readers : reader'[r] \in {reader[r], Detached}
  /\ UNCHANGED written

Next ==
  \/ Detach
  \/ \E t \in Terminals : Write(t) \/ \E r \in Readers : Attach(r, t)

Spec == Init /\ [][Next]_vars
=============================================================================
