----------------------------- MODULE MCJobStore -----------------------------
(***************************************************************************)
(* One store, six job ids and three templates: enough to overflow each of  *)
(* the three caps, to move the tip twice, and to prune the stale jobs.     *)
(***************************************************************************)
EXTENDS JobStore, TLC

Symmetry == Permutations(JobId) \cup Permutations(Template)
=============================================================================
