----------------------------- MODULE MCServing -----------------------------
(***************************************************************************)
(* A small instance of DeployCheck for TLC: one environment, the checker   *)
(* and another client; a good image, one of another release, and three     *)
(* with files that are not the champion's, not usable, or both.            *)
(***************************************************************************)
EXTENDS DeployCheck

CONSTANTS chk, other, r1, r2

Good == [config |-> TRUE, reference |-> TRUE, champion |-> "valid", release |-> r1,
         model |-> "champion", fallback |-> "champion"]

ImagesOf ==
    {Good,
     [Good EXCEPT !.release = r2],
     [Good EXCEPT !.model = "other", !.fallback = "bad"],
     [Good EXCEPT !.release = "bad", !.model = "bad", !.fallback = "other"],
     [Good EXCEPT !.champion = "bad", !.reference = FALSE]}
=============================================================================
