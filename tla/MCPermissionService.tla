------------------------ MODULE MCPermissionService ------------------------
(* An instance of PermissionService for TLC.  The inputs hold: two asks of *)
(* a session, one of which the other's approval covers; an ask whose       *)
(* approval does not cover it; an ask of another session; a rule that      *)
(* denies; a rule that allows.                                             *)
EXTENDS PermissionService, TLC

CONSTANTS s1, s2, t1, t2

MCSessions == {s1, s2}
MCTargets == {t1, t2}

Plain(session, ts, always) ==
  [session |-> session, targets |-> ts, always |-> always, ruleset |-> <<>>]

With(in, action) ==
  [in EXCEPT !.ruleset = <<[covers |-> {t1, t2}, action |-> "ask"],
                           [covers |-> {t1}, action |-> action]>>]

MCInputs ==
  { Plain(s1, {t1}, <<{t1}>>),
    Plain(s1, {t1, t2}, <<{t2}>>),
    Plain(s2, {t1}, <<{t1, t2}>>),
    With(Plain(s1, {t1, t2}, <<{t1}>>), "deny"),
    With(Plain(s1, {t1, t2}, <<{t1}>>), "allow") }

CallSymmetry == Permutations(Calls) \cup Permutations(Directories)
===========================================================================
