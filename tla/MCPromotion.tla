---------------------------- MODULE MCPromotion ----------------------------
(* A first champion tested on an earlier month and two candidates for the     *)
(* next: A is better on every day but a little worse on one slice, which one  *)
(* policy accepts; B beats the champion everywhere, and A on average only.    *)
EXTENDS Promotion, TLC

CONSTANTS K, A, B, lax, strict, t1, t2, t3

TestMonthOf == K :> 1 @@ A :> 2 @@ B :> 2
DayOfTrip   == t1 :> 1 @@ t2 :> 1 @@ t3 :> 2
SliceSets   == {{t1}, {t2}, {t2, t3}}
Errors      == K :> (t1 :> 100 @@ t2 :> 100 @@ t3 :> 100)
               @@ A :> (t1 :> 101 @@ t2 :> 50 @@ t3 :> 80)
               @@ B :> (t1 :> 80 @@ t2 :> 64 @@ t3 :> 60)
Fallback    == t1 :> 200 @@ t2 :> 200 @@ t3 :> 200
MinImp      == lax :> 1 @@ strict :> 1
MaxReg      == lax :> 2 @@ strict :> 0
MinN        == lax :> 1 @@ strict :> 1

\* A bound: a backup is interleaved with registrations and forced promotions of
\* a tree that has no evidence yet.
BackupBound == backup.pc # "start" => report = None /\ gate = None /\ job = None /\ fetched = None

\* A bound: a candidate branch is open only while no verdict passes in the tree.
\* (Merging it replaces dvc.lock, the evidence and the verdict.)
JobBound == job # None => gate = None

\* A bound for the run about build/champion: no backup, no retrain job.
TreeOnly == backup.pc = "start" /\ job = None
=============================================================================
