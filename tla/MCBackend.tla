----------------------------- MODULE MCBackend ------------------------------
(* Instances of Backend for TLC.                                           *)
EXTENDS Backend, TLC

MCRegistries ==
    { <<"cpu">>, <<"gpu">>, <<"gpu", "cpu">>, <<"accel", "gpu", "gpu", "cpu">>,
      <<"cpu", "accel", "gpu", "cpu">>, <<"accel", "accel", "cpu">> }

Symmetry == Permutations(Handles) \cup Permutations(Pools)
=============================================================================
