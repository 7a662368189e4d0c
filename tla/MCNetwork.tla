----------------------------- MODULE MCNetwork -----------------------------
(***************************************************************************)
(* Three clients and a table with room for two.                            *)
(***************************************************************************)
EXTENDS Network, TLC

Symmetry == Permutations(Client)
=============================================================================
