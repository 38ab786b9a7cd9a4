---------------------------- MODULE MeshTopology ----------------------------
(***************************************************************************)
(* src/mesh_topology.cpp: filling the holes of a mesh, and splitting the   *)
(* vertices around edges with more than two faces.                         *)
(*                                                                         *)
(* Filling notes two boundary neighbours of each vertex, walks from edge   *)
(* to edge, and caps every loop that closes with a fan around a new        *)
(* vertex.  Splitting joins the corners of faces that meet at an edge of   *)
(* exactly two, in a union-find forest, and gives each class a vertex.     *)
(*                                                                         *)
(* Positions are left out: whether a loop is short enough and its cap flat *)
(* nowhere is any answer, and a vertex made by splitting is remembered by  *)
(* the one it copies.  Counts stay below the width of an index.            *)
(***************************************************************************)
EXTENDS Integers, Sequences, FiniteSets

CONSTANT Surfaces    (* input meshes: [verts, faces], vertices 1 .. verts *)

Place == 1..3
TrianglesOn(n) == {t \in [Place -> 1..n] : \A i, j \in Place : i # j => t[i] # t[j]}

(* What validate_mesh lets pass.                                           *)
Valid(m) == m.verts \in Nat /\ m.faces \in Seq(TrianglesOn(m.verts))

ASSUME SurfacesAssumption ==
    \A m \in Surfaces : m = [verts |-> m.verts, faces |-> m.faces] /\ Valid(m)

VARIABLES
    given,      (* the mesh of the call *)
    mesh,       (* the same mesh as the call changes it *)
    todo,       (* edges to come; when filling, those not visited *)
    near,       (* neighbor_a and neighbor_b of each vertex *)
    loop,       (* the vertices walked from the seed edge on *)
    ahead,      (* previous and current *)
    caps,       (* additions *)
    forest,     (* parent_ and rank_ of CornerDisjointSet *)
    fans,       (* fan_vertices: a vertex for each class of its corners *)
    corners,    (* corner_vertices, as far as it is filled in *)
    copies,     (* what the vertices added to repaired_vertices copy *)
    step

filling == <<near, loop, ahead, caps>>
repairing == <<forest, fans, corners, copies>>
topologyVars == <<given, mesh, todo, filling, repairing, step>>

(* edges == make_edge                                                      *)
Edge(a, b) == IF b < a THEN <<b, a>> ELSE <<a, b>>
Less(e, g) == e[1] < g[1] \/ (e[1] = g[1] /\ e[2] < g[2])
FirstEdge(S) == CHOOSE e \in S : \A g \in S \ {e} : Less(e, g)

Next3(k) == (k % 3) + 1
Sides(t) == {<<t[k], t[Next3(k)]>> : k \in Place}
Has(t, v) == \E k \in Place : t[k] = v
FacesAt(m, e) == {f \in DOMAIN m.faces : Has(m.faces[f], e[1]) /\ Has(m.faces[f], e[2])}
Count(m, e) == Cardinality(FacesAt(m, e))
EdgesOf(m) == UNION {{Edge(s[1], s[2]) : s \in Sides(m.faces[f])} : f \in DOMAIN m.faces}

Boundary == {e \in EdgesOf(given) : Count(given, e) = 1}
OverShared(m) == {e \in EdgesOf(m) : Count(m, e) > 2}

(* The boundary edge as its one face runs along it.                        *)
Directed(e) ==
    CHOOSE s \in {e, <<e[2], e[1]>>} : \E f \in DOMAIN given.faces : s \in Sides(given.faces[f])

Corners == 1..(3 * Len(given.faces))
FaceOf(c) == ((c - 1) \div 3) + 1
VertexAt(c) == given.faces[FaceOf(c)][((c - 1) % 3) + 1]
CornerAt(f, v) == CHOOSE c \in Corners : FaceOf(c) = f /\ VertexAt(c) = v

NoNeighbour == -1
Branching == -2

TopologyInit ==
    /\ given \in Surfaces /\ mesh = given
    /\ todo = {}
    /\ near = [v \in 1..given.verts |-> <<NoNeighbour, NoNeighbour>>]
    /\ loop = <<>> /\ ahead = <<>> /\ caps = <<>>
    /\ forest = [up |-> [c \in Corners |-> c], rank |-> [c \in Corners |-> 0]]
    /\ fans = [k \in {} |-> 0] /\ corners = <<>> /\ copies = <<>>
    /\ step \in {"fill", "repair"}

-----------------------------------------------------------------------------
(* fill_mesh_holes_f32.                                                    *)

(* An argument is refused, there is no boundary, or it is gone through.    *)
Fill ==
    /\ step = "fill"
    /\ \/ step' = "failed" /\ UNCHANGED todo
       \/ step' = (IF Boundary = {} THEN "done" ELSE "mark") /\ todo' = Boundary
    /\ UNCHANGED <<given, mesh, filling, repairing>>

(* One more neighbour of v: in the first free place, or v is branching.    *)
Noted(n, v, w) ==
    IF n[v][1] < 0 THEN [n EXCEPT ![v][1] = w]
    ELSE [n EXCEPT ![v][2] = IF n[v][2] < 0 THEN w ELSE Branching]

Mark ==
    /\ step = "mark"
    /\ LET e == FirstEdge(todo) IN
         /\ near' = Noted(Noted(near, e[1], e[2]), e[2], e[1])
         /\ todo' = todo \ {e}
    /\ step' = IF todo' = {} THEN "settle" ELSE "mark"
    /\ UNCHANGED <<given, mesh, loop, ahead, caps, repairing>>

Settle ==
    /\ step = "settle"
    /\ near' = [v \in DOMAIN near |->
                  IF near[v][2] = Branching THEN <<Branching, Branching>> ELSE near[v]]
    /\ todo' = Boundary
    /\ step' = "seed"
    /\ UNCHANGED <<given, mesh, loop, ahead, caps, repairing>>

Passable(v) == near[v][1] > 0 /\ near[v][2] > 0

(* The next edge that is not visited begins a loop.                        *)
Seed ==
    /\ step = "seed"
    /\ IF todo = {}
       THEN step' = "append" /\ UNCHANGED <<todo, loop, ahead>>
       ELSE LET s == Directed(FirstEdge(todo)) IN
              /\ todo' = todo \ {FirstEdge(todo)}
              /\ loop' = <<s[1]>> /\ ahead' = s
              /\ step' = IF Passable(s[1]) /\ Passable(s[2]) THEN "walk" ELSE "seed"
    /\ UNCHANGED <<given, mesh, near, caps, repairing>>

(* Fault: the walk goes to the first neighbour, wherever it came from.     *)
Fault_FirstNeighbour(v, from) == near[v][1]

(* The neighbour of v that the walk did not come from.                     *)
Other(v, from) == IF near[v][1] = from THEN near[v][2] ELSE near[v][1]

(* Back at the start the loop is closed; until then it goes on along an    *)
(* edge not visited, or is given up.                                       *)
Walk ==
    /\ step = "walk"
    /\ LET from == ahead[1]
           v == ahead[2]
           edge == Edge(v, Other(v, from))
       IN  IF v = loop[1]
           THEN /\ step' = IF Len(loop) >= 3 THEN "cap" ELSE "seed"
                /\ UNCHANGED <<todo, loop, ahead>>
           ELSE /\ loop' = Append(loop, v)
                /\ IF Passable(v) /\ (\E i \in 1..2 : near[v][i] = from) /\ edge \in todo
                   THEN /\ todo' = todo \ {edge}
                        /\ ahead' = <<v, Other(v, from)>>
                        /\ step' = IF Len(loop') > Cardinality(Boundary) THEN "seed" ELSE "walk"
                   ELSE step' = "seed" /\ UNCHANGED <<todo, ahead>>
    /\ UNCHANGED <<given, mesh, near, caps, repairing>>

(* Fault: the cap runs along the edge as its face does.                    *)
Fault_SameWay(s, centre) == <<s[1], s[2], centre>>

(* A face of the cap runs along the boundary the other way.                *)
CapFace(s, centre) == <<s[2], s[1], centre>>

Fan(centre) ==
    [i \in DOMAIN loop |-> CapFace(Directed(Edge(loop[i], loop[(i % Len(loop)) + 1])), centre)]

(* The loop is too long or a face of its cap has no area, or it is capped: *)
(* the new vertex enters the mesh now, its faces in the end.               *)
Cap ==
    /\ step = "cap"
    /\ \/ UNCHANGED <<mesh, caps>>
       \/ /\ mesh' = [mesh EXCEPT !.verts = @ + 1]
          /\ caps' = caps \o Fan(mesh.verts + 1)
    /\ step' = "seed"
    /\ UNCHANGED <<given, todo, near, loop, ahead, repairing>>

AppendCaps ==
    /\ step = "append"
    /\ mesh' = [mesh EXCEPT !.faces = @ \o caps]
    /\ step' = "done"
    /\ UNCHANGED <<given, todo, filling, repairing>>

-----------------------------------------------------------------------------
(* CornerDisjointSet.                                                      *)

(* Fault: the parent is taken for the root.                                *)
Fault_Parent(up, x) == up[x]

Root(up, x) == LET root[y \in DOMAIN up] == IF up[y] = y THEN y ELSE root[up[y]] IN root[x]

OnPath(up, x) ==
    LET path[y \in DOMAIN up] == IF up[y] = y THEN {y} ELSE {y} \cup path[up[y]] IN path[x]

(* find: everything on the way to the root is hung from it.                *)
Found(up, x) == [y \in DOMAIN up |-> IF y \in OnPath(up, x) THEN Root(up, x) ELSE up[y]]

(* unite: the root of the lower rank is hung from the other.               *)
United(F, x, y) ==
    LET left == Root(F.up, x)
        right == Root(F.up, y)
        up == Found(Found(F.up, x), y)
        top == IF F.rank[left] < F.rank[right] THEN right ELSE left
        low == IF top = left THEN right ELSE left
    IN  IF left = right THEN [F EXCEPT !.up = up]
        ELSE [up |-> [up EXCEPT ![low] = top],
              rank |-> [F.rank EXCEPT ![top] = IF @ = F.rank[low] THEN @ + 1 ELSE @]]

-----------------------------------------------------------------------------
(* repair_non_manifold_edges_f32.                                          *)

(* Fault: the first two faces of any edge are joined.                      *)
Fault_AnyTwo(e) == Count(given, e) >= 2

Manifold(e) == Count(given, e) = 2

Repair ==
    /\ step = "repair"
    /\ \/ step' = "failed" /\ UNCHANGED todo
       \/ IF OverShared(given) = {}
          THEN step' = "done" /\ UNCHANGED todo
          ELSE /\ todo' = {e \in EdgesOf(given) : Manifold(e)}
               /\ step' = IF todo' = {} THEN "split" ELSE "unite"
    /\ UNCHANGED <<given, mesh, filling, repairing>>

(* The corners of the two faces of an edge are joined at both its ends.    *)
Unite ==
    /\ step = "unite"
    /\ LET e == FirstEdge(todo)
           f == CHOOSE x \in FacesAt(given, e) : \A y \in FacesAt(given, e) : x <= y
           g == CHOOSE x \in FacesAt(given, e) \ {f} : \A y \in FacesAt(given, e) \ {f} : x <= y
       IN  /\ forest' = United(United(forest, CornerAt(f, e[1]), CornerAt(g, e[1])),
                               CornerAt(f, e[2]), CornerAt(g, e[2]))
           /\ todo' = todo \ {e}
    /\ step' = IF todo' = {} THEN "split" ELSE "unite"
    /\ UNCHANGED <<given, mesh, filling, fans, corners, copies>>

NewVertex == given.verts + Len(copies) + 1

(* A corner gets the vertex of its class: the original vertex for the      *)
(* first class met there, a copy of it for any other.                      *)
Split ==
    /\ step = "split"
    /\ LET c == Len(corners) + 1
           key == <<VertexAt(c), Root(forest.up, c)>>
           seen == \E k \in DOMAIN fans : k[1] = VertexAt(c)
           vertex == IF key \in DOMAIN fans THEN fans[key]
                     ELSE IF seen THEN NewVertex ELSE VertexAt(c)
       IN  /\ corners' = Append(corners, vertex)
           /\ fans' = [k \in DOMAIN fans \cup {key} |-> IF k = key THEN vertex ELSE fans[k]]
           /\ copies' = IF key \notin DOMAIN fans /\ seen THEN Append(copies, VertexAt(c)) ELSE copies
           /\ forest' = [forest EXCEPT !.up = Found(@, c)]
           /\ step' = IF c = 3 * Len(given.faces) THEN "check" ELSE "split"
    /\ UNCHANGED <<given, mesh, todo, filling>>

Candidate ==
    [verts |-> given.verts + Len(copies),
     faces |-> [f \in DOMAIN given.faces |-> [k \in Place |-> corners[3 * (f - 1) + k]]]]

(* The candidate replaces the mesh unless something is still wrong.        *)
Check ==
    /\ step = "check"
    /\ IF Valid(Candidate) /\ OverShared(Candidate) = {}
       THEN mesh' = Candidate /\ step' = "done"
       ELSE step' = "failed" /\ UNCHANGED mesh
    /\ UNCHANGED <<given, todo, filling, repairing>>

-----------------------------------------------------------------------------
TopologyNext ==
    \/ Fill \/ Mark \/ Settle \/ Seed \/ Walk \/ Cap \/ AppendCaps
    \/ Repair \/ Unite \/ Split \/ Check

TopologySpec == TopologyInit /\ [][TopologyNext]_topologyVars

-----------------------------------------------------------------------------
(* Properties.                                                             *)

Along(m, s) == Cardinality({f \in DOMAIN m.faces : s \in Sides(m.faces[f])})

OpenEdgesAt(v) == {e \in Boundary : v \in {e[1], e[2]}}
Branches(v) == Cardinality(OpenEdgesAt(v)) > 2
Oriented(m) == \A s \in EdgesOf(m) : Along(m, s) <= 1 /\ Along(m, <<s[2], s[1]>>) <= 1

(* Capping closes holes and nothing else: an edge of the mesh gains a face *)
(* only if it was open, and then just one, along it the other way; an edge *)
(* of a cap has two faces; and if no boundary branches, faces that agreed  *)
(* which side is out do so with the caps.                                  *)
HolesClosed ==
    step = "done" /\ corners = <<>> =>
        /\ \A e \in EdgesOf(given) :
             \/ Count(mesh, e) = Count(given, e)
             \/ e \in Boundary /\ Along(mesh, e) = 1 /\ Along(mesh, <<e[2], e[1]>>) = 1
        /\ \A e \in EdgesOf(mesh) \ EdgesOf(given) : Count(mesh, e) = 2
        /\ Oriented(given) /\ (\A v \in 1..given.verts : ~Branches(v)) => Oriented(mesh)

(* v lies on a boundary that branches nowhere: so does all it leads to.    *)
OnPlainLoop(v) ==
    \E S \in SUBSET (1..given.verts) :
        /\ v \in S
        /\ \A u \in S : Cardinality(OpenEdgesAt(u)) = 2
                        /\ \A e \in OpenEdgesAt(u) : {e[1], e[2]} \subseteq S

(* mesh_topology_test.cpp: "An unsafe boundary branch must not suppress an *)
(* unrelated small closed boundary loop": a walk that starts on a boundary *)
(* without branches is given up nowhere.                                   *)
PlainLoopsClose ==
    [][(step \in {"seed", "walk"} /\ step' = "seed") => ~OnPlainLoop(loop'[1])]_topologyVars

(* Splitting always ends with every edge at two faces or one: the error    *)
(* "unresolved edges" is not reached.                                      *)
RepairSucceeds == step = "check" => Valid(Candidate) /\ OverShared(Candidate) = {}

CornersOf(v) == {c \in Corners : VertexAt(c) = v}
Linked(c, d) ==
    \E e \in EdgesOf(given) :
        Count(given, e) = 2 /\ VertexAt(c) \in {e[1], e[2]} /\ {FaceOf(c), FaceOf(d)} = FacesAt(given, e)
Connected(c, d) ==
    \A S \in SUBSET CornersOf(VertexAt(c)) :
        (c \in S /\ \A x \in S : \A y \in CornersOf(VertexAt(c)) : Linked(x, y) => y \in S) => d \in S

(* Corners share a vertex afterwards exactly when they did before and are  *)
(* connected through edges of two faces, and a vertex has the position its *)
(* corners had.                                                            *)
Position(v) == IF v <= given.verts THEN v ELSE copies[v - given.verts]
FansApart ==
    step = "check" =>
        /\ \A c \in Corners : Position(corners[c]) = VertexAt(c)
        /\ \A v \in 1..given.verts : \A c, d \in CornersOf(v) :
             corners[c] = corners[d] <=> Connected(c, d)

(* Splitting repairs every mesh, and tears nothing apart that is joined.   *)
SplitApart == RepairSucceeds /\ FansApart
=============================================================================
