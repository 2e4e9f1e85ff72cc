----------------------------- MODULE MCGameFlow -----------------------------
(***************************************************************************)
(* GameFlow for TLC.                                                       *)
(***************************************************************************)
EXTENDS GameFlow, TLC

\* Players and nodes are interchangeable: no action names one.
Symmetry == Permutations(Players) \cup Permutations(Nodes)
=============================================================================
