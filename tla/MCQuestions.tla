------------------------------ MODULE MCQuestions ------------------------------
(* An instance of Questions for TLC.                                       *)
EXTENDS Questions, TLC

Symmetry == Permutations(Directories) \cup Permutations(Asks)
=============================================================================
