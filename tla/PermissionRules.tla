--------------------------- MODULE PermissionRules ---------------------------
(***************************************************************************)
(* src/opencodehx/permission/PermissionRules.hx.  A target is a pair of a  *)
(* permission name and a pattern; wildcards are abstracted to the set of   *)
(* targets a rule covers.                                                  *)
(***************************************************************************)
EXTENDS Naturals, Sequences

CONSTANT Targets  (* what a tool may ask permission for *)

Actions == {"allow", "deny", "ask"}

Rule == [covers : SUBSET Targets, action : Actions]

Matching(t, rules) == {i \in 1..Len(rules) : t \in rules[i].covers}

EvaluateFirst(t, rules) ==
  LET hits == Matching(t, rules) IN
  IF hits = {} THEN "ask"
  ELSE rules[CHOOSE i \in hits : \A j \in hits : i <= j].action

(* The last rule that matches decides; no rule means asking the user.      *)
Evaluate(t, rules) ==
  LET hits == Matching(t, rules) IN
  IF hits = {} THEN "ask"
  ELSE rules[CHOOSE i \in hits : \A j \in hits : j <= i].action

FirstDenied(ts, rules) == \E t \in ts : Evaluate(t, rules) = "deny"

AllAllowed(ts, rules) == \A t \in ts : Evaluate(t, rules) = "allow"
=============================================================================
