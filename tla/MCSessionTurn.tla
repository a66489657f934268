--------------------------- MODULE MCSessionTurn ---------------------------
(* An instance of SessionTurn for TLC.                                     *)
EXTENDS SessionTurn

CONSTANTS k1, k2, k3

Plain == [aborted |-> FALSE, forced |-> NoCall, follow |-> TRUE,
          limit |-> 2, maxAttempts |-> 1, waits |-> FALSE]

(* Turns as SessionLive runs them, and as tests do.                        *)
LiveInputs ==
  { Plain,
    [Plain EXCEPT !.aborted = TRUE],
    [Plain EXCEPT !.forced = k1],
    [Plain EXCEPT !.aborted = TRUE, !.forced = k1],
    [Plain EXCEPT !.follow = FALSE],
    [Plain EXCEPT !.limit = 0] }

(* Turns with a retry policy.                                              *)
RetryInputs ==
  { [Plain EXCEPT !.limit = 1, !.maxAttempts = 2],
    [Plain EXCEPT !.limit = 1, !.maxAttempts = 2, !.waits = TRUE] }

AllInputs == LiveInputs \cup RetryInputs
===========================================================================
