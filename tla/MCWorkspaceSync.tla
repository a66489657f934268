-------------------------- MODULE MCWorkspaceSync --------------------------
(* An instance of WorkspaceSync for TLC: one session that is active and    *)
(* one that is not, two events each, of types that are known or new.       *)
EXTENDS WorkspaceSync
=============================================================================
