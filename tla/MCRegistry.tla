----------------------------- MODULE MCRegistry -----------------------------
(* Registry for TLC.                                                       *)
EXTENDS Registry, TLC

Symmetry == Permutations(Agents) \cup Permutations(Commands)
=============================================================================
