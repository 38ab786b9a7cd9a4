----------------------------- MODULE MeshExport -----------------------------
(***************************************************************************)
(* Writing the textured mesh: write_pixal3d_glb (src/texture_export.cpp)   *)
(* and the chain it runs over the decoded mesh (src/mesh_postprocess.cpp): *)
(* weld, clean, drop fragments, decimate, fill holes, unwrap and bake.     *)
(*                                                                         *)
(* A mesh is a sequence of points, one for each vertex, and a sequence of  *)
(* faces, triples of vertices.  Where points lie matters twice: which are  *)
(* near enough to be welded is part of the input, and what an edge or a    *)
(* chart costs is any number.  Decimation is the module Qem; here it folds *)
(* at most one edge.  xatlas is what its interface says: it may fail, may  *)
(* never return, and leaves some faces without a chart.  Smoothing,        *)
(* texels, normals and the layout of the GLB are numbers and left out.     *)
(***************************************************************************)
EXTENDS Integers, Sequences, SequencesExt, FiniteSets

CONSTANTS
    Meshes,     (* decoded meshes: [points, faces, near, charts], near a set of
                   pairs, charts what xatlas may find in any part of it *)
    DropShare,  (* a component with less than 1/DropShare of the faces of the
                   largest is dropped (50) *)
    MaxLoop,    (* edges of a hole that is filled (64) *)
    SoupAt,     (* components of a mesh that is not a soup yet (2000) *)
    TinyFaces,  (* faces of a component that is tiny in a soup (32) *)
    MaxRounds   (* rounds of merging charts (256) *)

ASSUME ExportAssumption ==
    /\ \A m \in Meshes : /\ m.points \in Seq(ToSet(m.points))
                         /\ m.faces \in Seq([1..3 -> DOMAIN m.points])
    /\ DropShare \in Nat \ {0} /\ MaxLoop \in Nat /\ SoupAt \in Nat
    /\ TinyFaces \in Nat /\ MaxRounds \in Nat
    /\ \A m \in Meshes : 0 \notin m.charts

VARIABLES
    mesh,       (* the decoded mesh *)
    points,     (* verts: the point of each vertex *)
    faces,
    remap,      (* weld_vertices: the vertices of nv that those so far became *)
    flood,      (* clean_mesh: vis, flip and the stack *)
    hole,       (* fill_small_holes: the pass, its edges, used, the loop *)
    opened,     (* ghost: the faces before holes were filled *)
    parts,      (* uv_bake: tiny components, and the clusters of the others *)
    cms,        (* the meshes handed to xatlas *)
    out,        (* BakedMesh, and how many of cms are in it *)
    atlas, done, worker, late,   (* charting: see uv_bake below *)
    pc, result

thread == <<atlas, done, worker, late>>
bake == <<parts, cms, out, thread>>
vars == <<mesh, points, faces, remap, flood, hole, opened, bake, pc, result>>

-----------------------------------------------------------------------------
(* Edges and pieces of a sequence of faces.                                *)

After(j) == (j % 3) + 1
Around(t) == [j \in 1..3 |-> <<t[j], t[After(j)]>>]
Sides(t) == ToSet(Around(t))
Back(e)  == <<e[2], e[1]>>

(* The faces that run along a directed edge, and those on either side.     *)
Along(fs, e)  == {f \in DOMAIN fs : e \in Sides(fs[f])}
Beside(fs, e) == Along(fs, e) \cup Along(fs, Back(e))

(* Directed edges of one face with no face on the other side.              *)
Boundary(fs) ==
    {e \in UNION {Sides(fs[f]) : f \in DOMAIN fs} : Cardinality(Beside(fs, e)) = 1}

(* Faces that share no vertex with the others, and the smallest such sets: *)
(* what the union-find of drop_small_components and of uv_bake computes.   *)
Detached(fs) ==
    {s \in (SUBSET DOMAIN fs) \ {{}} :
        \A f \in s, g \in DOMAIN fs \ s : ToSet(fs[f]) \cap ToSet(fs[g]) = {}}
Components(fs) ==
    LET detached == Detached(fs)
    IN  {c \in detached : \A s \in detached : s \subseteq c => s = c}

(* The numbers of a finite set in ascending order.                         *)
Ascending(set) ==
    [k \in 1..Cardinality(set) |->
        CHOOSE i \in set : Cardinality({j \in set : j < i}) = k - 1]

(* The faces of a set, in order, and their vertices in order of first use. *)
Chosen(fs, set) ==
    LET order == Ascending(set)
    IN  [k \in DOMAIN order |-> fs[order[k]]]
Corners(fs) == [i \in 1..3 * Len(fs) |-> fs[(i + 2) \div 3][((i - 1) % 3) + 1]]
FirstUse(fs) ==
    LET corners == Corners(fs)
        fresh == Ascending({i \in DOMAIN corners : \A j \in 1..(i - 1) : corners[j] # corners[i]})
    IN  [k \in DOMAIN fresh |-> corners[fresh[k]]]
Position(s, v) == CHOOSE i \in DOMAIN s : s[i] = v
Renumbered(fs) ==
    LET order == FirstUse(fs)
    IN  [f \in DOMAIN fs |-> [j \in 1..3 |-> Position(order, fs[f][j])]]

-----------------------------------------------------------------------------
Init ==
    /\ mesh \in Meshes
    /\ points = <<>> /\ faces = <<>> /\ opened = <<>>
    /\ remap = <<>>
    /\ flood = [vis |-> {}, flip |-> {}, stack |-> <<>>]
    /\ hole = [pass |-> 0, ways |-> {}, used |-> {}, loop |-> <<>>]
    /\ parts = [tiny |-> <<>>, clusters |-> {}, rounds |-> 0]
    /\ cms = <<>>
    /\ out = [points |-> <<>>, uv |-> <<>>, faces |-> <<>>, from |-> 0]
    /\ atlas = "none" /\ done = "none" /\ worker = "none" /\ late = FALSE
    /\ pc = "begin" /\ result = "none"

Return(r) == pc' = "end" /\ result' = r

(* What the checks at the head of write_pixal3d_glb refuse is refused.     *)
Begin ==
    /\ pc = "begin"
    /\ \/ Return("refused")
       \/ pc' = "weld" /\ UNCHANGED result
    /\ UNCHANGED <<mesh, points, faces, remap, flood, hole, opened, bake>>

(* weld_vertices, one vertex: it becomes one that was kept near it, the    *)
(* first in the order of the cells, or is kept.                            *)
Weld ==
    LET v == Len(remap) + 1
        near == {k \in DOMAIN points : {points[k], mesh.points[v]} \in mesh.near}
    IN
    /\ pc = "weld" /\ v <= Len(mesh.points)
    /\ \/ \E k \in near : remap' = Append(remap, k) /\ UNCHANGED points
       \/ /\ near = {}
          /\ points' = Append(points, mesh.points[v])
          /\ remap' = Append(remap, Len(points'))
    /\ UNCHANGED <<mesh, faces, flood, hole, opened, bake, pc, result>>

Proper(t) == \A i, j \in 1..3 : i # j => t[i] # t[j]

(* The faces follow their vertices, and clean_mesh drops degenerate ones.  *)
Welded ==
    /\ pc = "weld" /\ Len(remap) = Len(mesh.points)
    /\ LET fs == [f \in DOMAIN mesh.faces |-> [j \in 1..3 |-> remap[mesh.faces[f][j]]]]
       IN  faces' = Chosen(fs, {f \in DOMAIN fs : Proper(fs[f])})
    /\ pc' = IF faces' = <<>> THEN "drop" ELSE "flood"
    /\ UNCHANGED <<mesh, points, remap, flood, hole, opened, bake, result>>

-----------------------------------------------------------------------------
(* clean_mesh: a flood from face to face gives neighbours one winding.     *)

Flip(t) == <<t[1], t[3], t[2]>>

(* Fault: the winding a face had before it was flipped.                    *)
Fault_Corrected(f) == faces[f]
Corrected(f) == IF f \in flood.flip THEN Flip(faces[f]) ELSE faces[f]

Seed ==
    /\ pc = "flood" /\ flood.stack = <<>> /\ flood.vis # DOMAIN faces
    /\ LET seed == CHOOSE f \in DOMAIN faces \ flood.vis :
                       \A g \in DOMAIN faces \ flood.vis : f <= g
       IN  flood' = [flood EXCEPT !.vis = @ \cup {seed}, !.stack = <<seed>>]
    /\ UNCHANGED <<mesh, points, faces, remap, hole, opened, bake, pc, result>>

(* Over one side of f to a face that is not yet visited: only where there  *)
(* is exactly one such face.                                               *)
Cross(f, state, e) ==
    LET other == Beside(faces, e) \ {f}
        g == CHOOSE h \in other : TRUE
    IN  IF Cardinality(other) # 1 \/ g \in state.vis THEN state
        ELSE [vis |-> state.vis \cup {g},
              flip |-> state.flip \cup (IF e \in Sides(faces[g]) THEN {g} ELSE {}),
              stack |-> Append(state.stack, g)]

Flood ==
    /\ pc = "flood" /\ flood.stack # <<>>
    /\ LET f == Last(flood.stack)
           e == Around(Corrected(f))
           popped == [flood EXCEPT !.stack = Front(@)]
       IN  flood' = Cross(f, Cross(f, Cross(f, popped, e[1]), e[2]), e[3])
    /\ UNCHANGED <<mesh, points, faces, remap, hole, opened, bake, pc, result>>

Flooded ==
    /\ pc = "flood" /\ flood.stack = <<>> /\ flood.vis = DOMAIN faces
    /\ faces' = [f \in DOMAIN faces |->
                    IF f \in flood.flip THEN Flip(faces[f]) ELSE faces[f]]
    /\ pc' = "drop"
    /\ UNCHANGED <<mesh, points, remap, flood, hole, opened, bake, result>>

-----------------------------------------------------------------------------
(* drop_small_components.                                                  *)
Drop ==
    LET sizes == {Cardinality(c) : c \in Components(faces)}
        most  == CHOOSE n \in sizes : \A k \in sizes : k <= n
        kept  == Chosen(faces, UNION {c \in Components(faces) :
                                         Cardinality(c) >= most \div DropShare})
    IN
    /\ pc = "drop"
    /\ IF faces = <<>> \/ Len(kept) = Len(faces) THEN UNCHANGED <<points, faces>>
       ELSE /\ points' = [k \in DOMAIN FirstUse(kept) |-> points[FirstUse(kept)[k]]]
            /\ faces' = Renumbered(kept)
    /\ pc' = "decimate"
    /\ UNCHANGED <<mesh, remap, flood, hole, opened, bake, result>>

(* decimate_qem, as Qem says: an edge may fold.  Faces at both its ends go *)
(* and the others follow; no corner of a face is left without a vertex.    *)
Decimate ==
    /\ pc = "decimate"
    /\ \E e \in {<<0, 0>>} \cup UNION {Sides(faces[f]) : f \in DOMAIN faces} :
         LET left == Chosen(faces, DOMAIN faces \ Beside(faces, e))
             kept == [f \in DOMAIN left |->
                         [j \in 1..3 |-> IF left[f][j] = e[2] THEN e[1] ELSE left[f][j]]]
         IN  /\ points' = [k \in DOMAIN FirstUse(kept) |-> points[FirstUse(kept)[k]]]
             /\ faces' = Renumbered(kept)
    /\ pc' = "rims"
    /\ UNCHANGED <<mesh, remap, flood, hole, opened, bake, result>>

-----------------------------------------------------------------------------
(* fill_small_holes.  The first pass walks boundary edges against their    *)
(* faces, the second either way; both only through vertices with one way   *)
(* in and one way out, in the order of a hash map.                         *)

Ways(fs, pass) ==
    {Back(e) : e \in Boundary(fs)} \cup (IF pass = 2 THEN Boundary(fs) ELSE {})
Outward(v) == {w \in hole.ways : w[1] = v}
Inward(v)  == {w \in hole.ways : w[2] = v}
Unambiguous(v) ==
    Cardinality(Outward(v)) = hole.pass /\ Cardinality(Inward(v)) = hole.pass

Rims ==
    /\ pc = "rims"
    /\ opened' = faces
    /\ hole' = [pass |-> 1, ways |-> Ways(faces, 1), used |-> {}, loop |-> <<>>]
    /\ pc' = "fill"
    /\ UNCHANGED <<mesh, points, faces, remap, flood, bake, result>>

Starts == {v \in {w[1] : w \in hole.ways} \ hole.used : Unambiguous(v)}

WalkFrom(v) ==
    /\ pc = "fill" /\ hole.loop = <<>> /\ v \in Starts
    /\ hole' = [hole EXCEPT !.loop = <<v>>]
    /\ pc' = "walk"
    /\ UNCHANGED <<mesh, points, faces, remap, flood, opened, bake, result>>

LoopEnds == hole' = [hole EXCEPT !.used = @ \cup ToSet(hole.loop), !.loop = <<>>]

Fan(loop) == [i \in 1..Len(loop) - 2 |-> <<loop[1], loop[i + 1], loop[i + 2]>>]

(* Fault: a loop longer than the limit is filled as well.                  *)
Fault_Fits(loop) == Len(loop) >= 3
Fits(loop) == Len(loop) >= 3 /\ Len(loop) <= MaxLoop

(* One turn of the walk: on to the next vertex, back at the start, or lost *)
(* at a junction, in another loop or after too many turns.                 *)
Walk(next) ==
    LET loop == hole.loop
        back == IF Len(loop) = 1 THEN 0 ELSE loop[Len(loop) - 1]
        fresh == Len(loop) <= MaxLoop + 1 /\ Unambiguous(next)
    IN
    /\ pc = "walk" /\ <<Last(loop), next>> \in hole.ways /\ next # back
    /\ IF fresh /\ next # loop[1] /\ next \notin hole.used
       THEN hole' = [hole EXCEPT !.loop = Append(@, next)] /\ UNCHANGED <<faces, pc>>
       ELSE /\ faces' = faces \o IF fresh /\ next = loop[1] /\ Fits(loop)
                                 THEN Fan(loop) ELSE <<>>
            /\ LoopEnds
            /\ pc' = "fill"
    /\ UNCHANGED <<mesh, points, remap, flood, opened, bake, result>>

PassEnds ==
    /\ pc = "fill" /\ hole.loop = <<>> /\ Starts = {}
    /\ IF hole.pass = 1
       THEN /\ hole' = [hole EXCEPT !.pass = 2, !.ways = Ways(faces, 2), !.used = {}]
            /\ UNCHANGED pc
       ELSE pc' = "triage" /\ UNCHANGED hole
    /\ UNCHANGED <<mesh, points, faces, remap, flood, opened, bake, result>>

-----------------------------------------------------------------------------
(* uv_bake: which faces are charted, and how they are grouped.             *)

Soup == Cardinality(Components(faces)) > SoupAt
Repeats(f) == \E g \in DOMAIN faces : g < f /\ ToSet(faces[g]) = ToSet(faces[f])

(* Sets of faces, none in two of them, in the order of their first faces.  *)
Grouped(sets) ==
    LET firsts == Ascending({f \in DOMAIN faces :
                      \E c \in sets : f \in c /\ \A g \in c : f <= g})
    IN  [k \in DOMAIN firsts |-> CHOOSE c \in sets : firsts[k] \in c]

(* In a soup repeated faces go, and components with few faces or a small   *)
(* box are left out of the charts, unless that would leave none.           *)
Triage ==
    /\ pc = "triage"
    /\ \E boxes \in SUBSET Components(faces) :
         LET once == {f \in DOMAIN faces : ~(Soup /\ Repeats(f))}
             tiny == {c \in Components(faces) :
                         Soup /\ (Cardinality(c) <= TinyFaces \/ c \in boxes)}
             big  == once \ UNION tiny
             left == {c \cap once : c \in tiny}
         IN  parts' = [clusters |-> {{f} : f \in IF big = {} THEN once ELSE big},
                       tiny |-> IF big = {} THEN <<>> ELSE Grouped(left),
                       rounds |-> 0]
    /\ opened' = <<>>
    /\ pc' = "merge"
    /\ UNCHANGED <<mesh, points, faces, remap, flood, hole, cms, out, thread, result>>

(* Clusters that meet in an edge with one face of each.                    *)
Meet(c, d) ==
    \E f \in c, g \in d : \E e \in Sides(faces[f]) :
        Beside(faces, e) \cap UNION parts.clusters = {f, g}
Pairs == {p \in {{c, d} : c, d \in parts.clusters} :
             \E c, d \in p : c # d /\ Meet(c, d)}

(* A round merges the pairs that are each other's cheapest: any pairs that *)
(* share no cluster.                                                       *)
Merge ==
    /\ pc = "merge" /\ parts.rounds < MaxRounds
    /\ \E pairs \in (SUBSET Pairs) \ {{}} :
         /\ \A p, q \in pairs : p # q => p \cap q = {}
         /\ parts' = [parts EXCEPT !.rounds = @ + 1,
                        !.clusters = (@ \ UNION pairs) \cup {UNION p : p \in pairs}]
    /\ UNCHANGED <<mesh, points, faces, remap, flood, hole, opened, cms, out, thread,
                   pc, result>>

(* A mesh for each cluster or one for all, with vertices of its own, and   *)
(* the thread that charts them; or xatlas refuses a mesh.                  *)
AddMeshes ==
    LET groups == Grouped(parts.clusters)
        local(fs) == [orig |-> FirstUse(fs), faces |-> Renumbered(fs)]
        each == [k \in DOMAIN groups |-> Chosen(faces, groups[k])]
    IN
    /\ pc = "merge"
    /\ \/ cms' = [k \in DOMAIN each |-> local(each[k])]
       \/ Len(groups) > 1 /\ cms' = <<local(FlattenSeq(each))>>
    /\ \/ /\ atlas' = "alive" /\ done' = "false" /\ worker' = "charting"
          /\ pc' = "poll" /\ UNCHANGED result
       \/ /\ cms' # <<>> /\ atlas' = "destroyed" /\ Return("no mesh")
          /\ UNCHANGED <<done, worker>>
    /\ parts' = [parts EXCEPT !.clusters = {}, !.rounds = 0]
    /\ UNCHANGED <<mesh, points, faces, remap, flood, hole, opened, out, late>>

-----------------------------------------------------------------------------
(* Charting runs in a thread that may never end.  The caller polls the     *)
(* flag for 300 s; then it returns and leaves thread, flag and atlas.      *)

ChartsComputed ==
    /\ worker = "charting"
    /\ worker' = "storing"
    /\ UNCHANGED <<mesh, points, faces, remap, flood, hole, opened, parts, cms, out,
                   atlas, done, late, pc, result>>

StoreDone ==
    /\ worker = "storing"
    /\ done' = "true" /\ worker' = "ended"
    /\ UNCHANGED <<mesh, points, faces, remap, flood, hole, opened, parts, cms, out,
                   atlas, late, pc, result>>

Expire ==
    /\ pc = "poll" /\ ~late
    /\ late' = TRUE
    /\ UNCHANGED <<mesh, points, faces, remap, flood, hole, opened, parts, cms, out,
                   atlas, done, worker, pc, result>>

(* Fault: the limit is not looked at.                                      *)
Fault_MayStop == done = "true"
MayStop == done = "true" \/ late

Poll ==
    /\ pc = "poll" /\ MayStop
    /\ pc' = "look"
    /\ UNCHANGED <<mesh, points, faces, remap, flood, hole, opened, bake, result>>

(* Fault: an abandoned atlas is destroyed.                                 *)
Fault_Abandoned == "destroyed"
Abandoned == atlas

(* The flag is read again: an answer at the last moment still counts.      *)
Look ==
    /\ pc = "look"
    /\ IF done = "true" THEN pc' = "join" /\ UNCHANGED <<atlas, result>>
                        ELSE atlas' = Abandoned /\ Return("no mesh")
    /\ UNCHANGED <<mesh, points, faces, remap, flood, hole, opened, parts, cms, out,
                   done, worker, late>>

Join ==
    /\ pc = "join" /\ worker = "ended"
    /\ done' = "freed"
    /\ pc' = "pack"
    /\ UNCHANGED <<mesh, points, faces, remap, flood, hole, opened, parts, cms, out,
                   atlas, worker, late, result>>

(* PackCharts may leave an atlas without an image.                         *)
Pack ==
    /\ pc = "pack"
    /\ \/ atlas' = "destroyed" /\ Return("no mesh")
       \/ cms # <<>> /\ pc' = "emit" /\ UNCHANGED <<atlas, result>>
    /\ UNCHANGED <<mesh, points, faces, remap, flood, hole, opened, parts, cms, out,
                   done, worker, late>>

-----------------------------------------------------------------------------
(* uv_bake: the baked mesh.  A place in the atlas is a mesh, a chart and a *)
(* vertex; NoPlace is the corner of the atlas.                             *)

NoPlace == <<0, 0, 0>>

(* Fault: indices are those of one mesh.                                   *)
Fault_From(base, i) == i
From(base, i) == base + i

(* A face with a chart keeps it.                                           *)
Charted(b, base, t) == [b EXCEPT !.faces = Append(@, [j \in 1..3 |-> From(base, t[j])])]

(* A face without one gets vertices of its own, all in one place.          *)
Collapsed(b, corners, place) ==
    [b EXCEPT !.faces  = Append(@, [j \in 1..3 |-> Len(b.points) + j]),
              !.points = @ \o corners,
              !.uv     = @ \o <<place, place, place>>]

(* One mesh of the atlas.  placed says which chart each face got, 0 when   *)
(* none: such a face goes to its first corner that is in a chart.          *)
Emit ==
    LET n == out.from + 1
        cm == cms[n]
        base == Len(out.points)
    IN
    /\ pc = "emit" /\ n <= Len(cms)
    /\ \E placed \in [DOMAIN cm.faces -> {0} \cup mesh.charts] :
         LET at(f, j)  == <<placed[f], cm.faces[f][j]>>
             array     == FirstUse([f \in DOMAIN cm.faces |-> [j \in 1..3 |-> at(f, j)]])
             twin(x)   == {a \in ToSet(array) : a[2] = x /\ a[1] # 0}
             place(a)  == IF a[1] # 0 THEN <<n, a[1], a[2]>> ELSE
                          IF twin(a[2]) = {} THEN NoPlace
                          ELSE <<n, (CHOOSE b \in twin(a[2]) : TRUE)[1], a[2]>>
             corners(f) == [j \in 1..3 |-> points[cm.orig[cm.faces[f][j]]]]
             found(f)  == SelectSeq([j \in 1..3 |-> place(at(f, j))],
                                    LAMBDA p : p # NoPlace)
             add(b, f) == IF placed[f] # 0
                          THEN Charted(b, base, [j \in 1..3 |-> Position(array, at(f, j))])
                          ELSE Collapsed(b, corners(f), Head(Append(found(f), NoPlace)))
         IN  out' = FoldLeft(add,
                 [out EXCEPT !.from = n,
                    !.points = @ \o [i \in DOMAIN array |-> points[cm.orig[array[i][2]]]],
                    !.uv     = @ \o [i \in DOMAIN array |-> place(array[i])]],
                 [f \in DOMAIN cm.faces |-> f])
    /\ UNCHANGED <<mesh, points, faces, remap, flood, hole, opened, parts, cms, thread,
                   pc, result>>

(* A tiny component gets a chart of its own in the strip.                  *)
Strip ==
    /\ pc = "emit" /\ out.from = Len(cms) /\ parts.tiny # <<>>
    /\ LET fs == Chosen(faces, Head(parts.tiny))
           order == FirstUse(fs)
       IN  out' = [out EXCEPT
             !.points = @ \o [i \in DOMAIN order |-> points[order[i]]],
             !.uv     = @ \o [i \in DOMAIN order |-> <<0 - Len(parts.tiny), 0, order[i]>>],
             !.faces  = @ \o [f \in DOMAIN fs |-> [j \in 1..3 |->
                                From(Len(out.points), Position(order, fs[f][j]))]]]
    /\ parts' = [parts EXCEPT !.tiny = Tail(@)]
    /\ UNCHANGED <<mesh, points, faces, remap, flood, hole, opened, cms, thread, pc, result>>

(* Texels are computed, and the atlas is given back.                       *)
Baked ==
    /\ pc = "emit" /\ out.from = Len(cms) /\ parts.tiny = <<>>
    /\ atlas' = "destroyed"
    /\ IF out.faces = <<>> THEN Return("no mesh") ELSE pc' = "encode" /\ UNCHANGED result
    /\ UNCHANGED <<mesh, points, faces, remap, flood, hole, opened, parts, cms, out,
                   done, worker, late>>

(* libpng may fail, the GLB may be too long, and the file may not be made. *)
Encode ==
    /\ pc = "encode"
    /\ \/ pc' = "write" /\ UNCHANGED result
       \/ Return("not encoded")
    /\ UNCHANGED <<mesh, points, faces, remap, flood, hole, opened, bake>>

WriteGlb ==
    /\ pc = "write"
    /\ Return("written") \/ Return("not written")
    /\ UNCHANGED <<mesh, points, faces, remap, flood, hole, opened, bake>>

-----------------------------------------------------------------------------
Caller ==
    \/ Begin \/ Weld \/ Welded \/ Seed \/ Flood \/ Flooded \/ Drop \/ Decimate
    \/ Rims \/ PassEnds
    \/ \E v \in UNION {ToSet(w) : w \in hole.ways} : WalkFrom(v) \/ Walk(v)
    \/ Triage \/ Merge \/ AddMeshes \/ Poll \/ Look \/ Join \/ Pack
    \/ Emit \/ Strip \/ Baked \/ Encode \/ WriteGlb

Returned == pc = "end" /\ UNCHANGED vars

Next == Caller \/ Returned \/ Expire \/ ChartsComputed \/ StoreDone

Spec == Init /\ [][Next]_vars

(* The caller is sequential code and time passes; charting may take        *)
(* forever, which is what the limit is for.  CallerGoesOn is weak fairness *)
(* of Caller with ENABLED written out: only poll and join wait.            *)
CallerReady ==
    /\ pc # "end"
    /\ pc = "poll" => MayStop
    /\ pc = "join" => worker = "ended"
CallerGoesOn == []<>~CallerReady \/ []<><<Caller>>_vars

FairSpec == Spec /\ CallerGoesOn /\ WF_vars(Expire)

-----------------------------------------------------------------------------
(* Properties.                                                             *)

Agree(fs, set) ==
    \A f \in set : \A e \in Sides(fs[f]) :
        Cardinality(Beside(fs, e)) = 2 => Cardinality(Along(fs, e)) = 1

(* The decimation is given triangles with three different corners, as Qem  *)
(* takes for granted.  On every patch of faces that are joined two by two  *)
(* they are wound alike, if any choice of sides does that: the flood finds *)
(* it whatever face it starts from and however the faces were wound.       *)
ReadyToSimplify ==
    pc = "decimate" =>
        /\ \A f \in DOMAIN faces : Proper(faces[f])
        /\ \A patch \in SUBSET DOMAIN faces :
             /\ \A f \in patch : \A e \in Sides(faces[f]) :
                   Cardinality(Beside(faces, e)) = 2 => Beside(faces, e) \subseteq patch
             /\ \E turned \in SUBSET patch :
                   Agree([f \in DOMAIN faces |->
                            IF f \in turned THEN Flip(faces[f]) ELSE faces[f]], patch)
             => Agree(faces, patch)

(* The pieces of a boundary, and those that are one loop within the limit. *)
Rim(fs) ==
    SelectSeq(FlattenSeq([f \in DOMAIN fs |-> Around(fs[f])]),
              LAMBDA e : e \in Boundary(fs))
IsHole(rim, piece) ==
    /\ Cardinality(piece) \in 3..MaxLoop
    /\ \A i \in piece : \A v \in ToSet(rim[i]) :
          Cardinality({k \in DOMAIN rim : v \in ToSet(rim[k])}) = 2
OneWay(rim, piece) ==
    \A i \in piece : Cardinality({k \in DOMAIN rim : rim[k][1] = rim[i][2]}) = 1

(* Filling closes the holes within the limit and leaves every other piece  *)
(* of the boundary alone, whatever order the hash maps give: no fan opens  *)
(* a new edge, takes up a loop by the wrong end or spans two holes.  Where *)
(* the faces around a hole agree, its fan agrees with them.                *)
HolesFilled ==
    pc = "triage" =>
        LET rim   == Rim(opened)
            holes == {c \in Components(rim) : IsHole(rim, c)}
        IN  /\ {ToSet(e) : e \in Boundary(faces)} =
                   {ToSet(rim[i]) : i \in DOMAIN rim \ UNION holes}
            /\ \A c \in holes : OneWay(rim, c) => \A i \in c :
                  Cardinality(Along(faces, rim[i])) = 1
                      /\ Cardinality(Along(faces, Back(rim[i]))) = 1

(* What is written is the mesh that was baked: each of its faces is there  *)
(* with its points, no more often than before, and in a soup at least      *)
(* once; charts found or not, meshes batched or not, tiny parts or not.    *)
(* The corners of a face lie in one chart, so none smears over the atlas.  *)
BakedWhole ==
    pc = "encode" =>
        LET shape(ps, t) == [j \in 1..3 |-> ps[t[j]]]
            before(s) == Cardinality({f \in DOMAIN faces : shape(points, faces[f]) = s})
            after(s)  == Cardinality({f \in DOMAIN out.faces :
                                         shape(out.points, out.faces[f]) = s})
        IN  /\ \A f \in DOMAIN out.faces :
                  LET s == shape(out.points, out.faces[f])
                      u == shape(out.uv, out.faces[f])
                  IN  /\ after(s) <= before(s)
                      /\ \A j \in 1..3 : u[j][1] = u[1][1] /\ u[j][2] = u[1][2]
            /\ ~Soup => Len(out.faces) = Len(faces)
            /\ \A f \in DOMAIN faces : \E g \in DOMAIN out.faces :
                  ToSet(shape(out.points, out.faces[g])) = ToSet(shape(points, faces[f]))

(* As long as the charting thread lives, so do the atlas and the flag it   *)
(* works on, also after it was abandoned; and the caller goes on with the  *)
(* atlas only when the thread has ended.                                   *)
WorkerKeepsItsOwn ==
    /\ worker \in {"charting", "storing"} => atlas = "alive" /\ done = "false"
    /\ pc \in {"pack", "emit", "encode", "write"} => worker = "ended"

(* The export returns, although charting may hang: walks, floods, rounds   *)
(* and the wait for the thread all end.                                    *)
ExportReturns == <>(pc = "end")
=============================================================================
