------------------------------- MODULE MCDeploy -------------------------------
(***************************************************************************)
(* TLC instances of Deploy.  Models, codes, configurations and predictions *)
(* are model values that are only compared, so they may be permuted when   *)
(* only safety is checked.                                                 *)
(***************************************************************************)
EXTENDS Deploy, TLC

Symmetric ==
  Permutations(Models) \cup Permutations(Codes) \cup Permutations(Configs)
    \cup Permutations(Predictions)

=============================================================================
