---------------------------- MODULE MCPtyService ----------------------------
(* An instance of PtyService for TLC: two terminals, two socket objects,   *)
(* and one of them recycled for a third connection.                        *)
EXTENDS PtyService

SomeCursors == {FromEnd, 0, 1}
=============================================================================
