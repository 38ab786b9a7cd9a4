---------------------------- MODULE MCMeshExport ----------------------------
(***************************************************************************)
(* Small decoded meshes for MeshExport, wound at random: a closed one with *)
(* a fragment, one with a hole, strips and a Moebius strip, faces that     *)
(* meet in a vertex or three to an edge, two components, and cracks that   *)
(* welding closes.                                                         *)
(***************************************************************************)
EXTENDS MeshExport

M(n, near, charts, fs) ==
    [points |-> [v \in 1..n |-> v], faces |-> fs, near |-> near, charts |-> charts]

MCMeshes == {
    M(7, {}, {1}, << <<1,2,3>>, <<5,6,7>>, <<1,2,4>>, <<2,3,4>>, <<1,4,3>> >>),
    M(4, {}, {1, 2}, << <<1,2,4>>, <<2,4,3>>, <<3,1,4>> >>),
    M(5, {}, {1, 2}, << <<1,2,3>>, <<2,3,4>>, <<3,4,5>> >>),
    M(5, {}, {1}, << <<1,2,3>>, <<2,3,4>>, <<3,4,5>>, <<4,5,1>>, <<5,1,2>> >>),
    M(5, {}, {1, 2}, << <<1,2,3>>, <<3,4,5>> >>),
    M(5, {}, {1}, << <<1,2,3>>, <<1,2,4>>, <<2,1,5>> >>),
    M(7, {}, {1}, << <<1,2,3>>, <<2,3,4>>, <<5,6,7>> >>),
    M(6, {{3, 4}, {2, 5}}, {1, 2}, << <<1,2,3>>, <<4,5,6>>, <<3,4,6>> >>) }
=============================================================================
