----------------------------- MODULE MCRwLock -----------------------------
(* An instance of RwLock for TLC.  As many lock objects as clients are     *)
(* enough: a client's own old handle never keeps an object from it.        *)
EXTENDS RwLock
===========================================================================
