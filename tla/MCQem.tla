------------------------------- MODULE MCQem --------------------------------
(* Small meshes for Qem: two triangles that are apart, that share a vertex *)
(* or an edge, a closed tetrahedron, and a strip of four.                  *)
EXTENDS Qem

M(n, fs) == [verts |-> n, faces |-> fs]

MCMeshes ==
    { M(6, << <<1, 2, 3>>, <<4, 5, 6>> >>),
      M(5, << <<1, 2, 3>>, <<3, 4, 5>> >>),
      M(4, << <<1, 2, 3>>, <<2, 4, 3>> >>),
      M(4, << <<1, 2, 3>>, <<1, 4, 2>>, <<2, 4, 3>>, <<3, 4, 1>> >>),
      M(6, << <<1, 2, 3>>, <<2, 4, 3>>, <<3, 4, 5>>, <<4, 6, 5>> >>) }
=============================================================================
