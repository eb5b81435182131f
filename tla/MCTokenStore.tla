---------------------------- MODULE MCTokenStore ----------------------------
(* TokenStore for TLC.                                                     *)
EXTENDS TokenStore, TLC

(* Ids and handlers are interchangeable; used by the safety runs only.     *)
Symmetry == Permutations(Ids) \cup Permutations(Handlers)
=============================================================================
