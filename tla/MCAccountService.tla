--------------------------- MODULE MCAccountService ---------------------------
(* An instance of AccountService for TLC.                                  *)
EXTENDS AccountService, TLC

Symmetry == Permutations(Accounts) \cup Permutations(TokenCalls) \cup Permutations(Logins)
=============================================================================
