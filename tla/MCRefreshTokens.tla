-------------------------- MODULE MCRefreshTokens --------------------------
(***************************************************************************)
(* RefreshTokens for TLC.                                                  *)
(***************************************************************************)
EXTENDS RefreshTokens, TLC

\* Tokens and calls are interchangeable: no action names one.
Symmetry == Permutations(Tokens) \cup Permutations(Calls)
=============================================================================
