----------------------------- MODULE MCDemoJobs -----------------------------
(* Small instances of DemoJobs for TLC. *)
EXTENDS DemoJobs, TLC

Symmetry == Permutations(Requests)
=============================================================================
