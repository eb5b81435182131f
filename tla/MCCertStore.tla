---------------------------- MODULE MCCertStore -----------------------------
(* CertStore for TLC.                                                      *)
EXTENDS CertStore, TLC

Symmetry == Permutations(Serials) \cup Permutations(Writers)
=============================================================================
