----------------------------- MODULE MCRunner -----------------------------
(* An instance of Runner for TLC.  A run begins with a new call and each   *)
(* run is cancelled at most once, so MaxRunID = 2 * calls never binds.     *)
EXTENDS Runner

AnySetting == Setting
===========================================================================
