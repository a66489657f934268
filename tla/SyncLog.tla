------------------------------ MODULE SyncLog ------------------------------
(***************************************************************************)
(* What the workspace sync of src/opencodehx/sync promises: the copy of a  *)
(* session's events is at all times a beginning of the session's log, and  *)
(* only grows, until the process that holds it starts anew.  How events    *)
(* travel is WorkspaceSync's.                                              *)
(***************************************************************************)
EXTENDS Sequences, SequencesExt

CONSTANTS Sessions, Events

VARIABLES log,    (* every session's events, where they are written        *)
          copy    (* the events a workspace peer holds                     *)

TypeOK ==
  /\ log \in [Sessions -> Seq(Events)]
  /\ copy \in [Sessions -> Seq(Events)]

Init ==
  /\ log = [s \in Sessions |-> <<>>]
  /\ copy = [s \in Sessions |-> <<>>]

Write ==
  /\ \E s \in Sessions, e \in Events : log' = [log EXCEPT ![s] = Append(@, e)]
  /\ UNCHANGED copy

Replicate ==
  /\ \A s \in Sessions : IsPrefix(copy[s], copy'[s]) /\ IsPrefix(copy'[s], log[s])
  /\ DOMAIN copy' = Sessions
  /\ UNCHANGED log

Forget ==
  /\ copy' = [s \in Sessions |-> <<>>]
  /\ UNCHANGED log

Next == Write \/ Replicate \/ Forget

Spec == Init /\ [][Next]_<<log, copy>>
=============================================================================
