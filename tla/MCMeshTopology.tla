--------------------------- MODULE MCMeshTopology ---------------------------
(* Instances of MeshTopology: every mesh of at most Size triangles on five *)
(* vertices, which may coincide and face either way, and some larger ones. *)
EXTENDS MeshTopology

CONSTANT Size   (* faces of the meshes on five vertices *)

M(n, fs) == [verts |-> n, faces |-> fs]

Turned == {t \in TrianglesOn(5) : t[1] < t[2] /\ t[1] < t[3]}
NotAfter(s, t) == 25 * s[1] + 5 * s[2] + s[3] <= 25 * t[1] + 5 * t[2] + t[3]

Small == { M(5, fs) : fs \in {g \in UNION {[1..n -> Turned] : n \in 0..Size} :
             \A i \in DOMAIN g : i = 1 \/ NotAfter(g[i - 1], g[i])} }

(* A ring with two boundaries, a cone open below, three faces at one edge  *)
(* beside a triangle, two triangles at one vertex beside a triangle,       *)
(* five faces of which three meet at an edge and are connected otherwise,  *)
(* and a fan whose corners are joined in pairs before the pairs are.       *)
Large ==
    { M(6, << <<1, 2, 4>>, <<2, 5, 4>>, <<2, 3, 5>>, <<3, 6, 5>>, <<3, 1, 6>>, <<1, 4, 6>> >>),
      M(5, << <<1, 2, 5>>, <<2, 3, 5>>, <<3, 4, 5>>, <<4, 1, 5>> >>),
      M(8, << <<1, 2, 3>>, <<2, 1, 4>>, <<1, 2, 5>>, <<6, 7, 8>> >>),
      M(8, << <<1, 2, 5>>, <<1, 4, 3>>, <<6, 8, 7>> >>),
      M(6, << <<1, 2, 3>>, <<1, 2, 4>>, <<1, 2, 5>>, <<1, 3, 5>>, <<2, 3, 5>> >>),
      M(7, << <<5, 1, 7>>, <<1, 3, 7>>, <<3, 2, 7>>, <<2, 6, 7>>,
              <<1, 2, 4>>, <<1, 2, 5>>, <<1, 2, 6>> >>) }

MCSurfaces == Small \cup Large
=============================================================================
