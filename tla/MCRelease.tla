------------------------------- MODULE MCRelease -------------------------------
(***************************************************************************)
(* TLC instances of ReleaseTransaction.  Versions and platforms are model  *)
(* values that the module only compares, so they may be permuted when only *)
(* safety is checked.                                                      *)
(***************************************************************************)
EXTENDS ReleaseTransaction, TLC

Symmetric == Permutations(Versions) \cup Permutations(Platforms)

=============================================================================
