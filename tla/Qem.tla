-------------------------------- MODULE Qem ---------------------------------
(***************************************************************************)
(* Mesh decimation by quadric edge collapse: src/decimate_qem.cu, where    *)
(* one GPU thread per edge takes part in a round, and its twin and         *)
(* fallback src/mesh_qem_decimate.cpp, one loop over the edges.            *)
(*                                                                         *)
(* What an edge costs (quadrics, lengths, flips) is any number: a round    *)
(* draws the costs.  They are kept in the order of their float bits, the   *)
(* order the code packs them in: 0 .. Infinite - 1 are what a threshold of *)
(* the ladder may admit, and above Infinite come the negative costs, whose *)
(* sign bit is set.  Positions and profiling are left out; the minima of   *)
(* one kernel are one step, since atomicMin commutes and a kernel ends     *)
(* before the next one of its stream starts.                               *)
(***************************************************************************)
EXTENDS Integers, Sequences, FiniteSets

CONSTANTS
    Meshes,         (* input meshes: [verts, faces], vertices 1 .. verts *)
    Target,         (* target_faces *)
    Costs,          (* what an edge may cost *)
    Infinite,       (* the cost of a collapse that flips a face *)
    TopLevel,       (* the last rung of the ladder of thresholds *)
    MaxRounds,      (* 400 in the code *)
    SlowShare       (* 100: a round that removes less than 1 face in 100 is slow *)

Corner == 1..3
Triangles(n) == {t \in [Corner -> 1..n] : \A i, j \in Corner : i # j => t[i] # t[j]}

ASSUME QemAssumption ==
    /\ \A m \in Meshes : m.verts \in Nat /\ m.faces \in Seq(Triangles(m.verts))
    /\ Target \in Nat /\ TopLevel \in Nat
    /\ MaxRounds \in Nat /\ SlowShare \in Nat
    /\ Infinite \in Nat /\ TopLevel < Infinite
    /\ Costs \subseteq Nat /\ Costs # {}

VARIABLES
    input,      (* in_verts and in_faces *)
    device,     (* where the mesh is being decimated: "gpu" or "cpu" *)
    verts,      (* V, the number of vertices *)
    faces,      (* the faces, as triples of vertices *)
    around,     (* v2f: the faces at a vertex when the round began *)
    cost,       (* the cost of every edge of the round *)
    prop,       (* the edge that won a face *)
    vertexProp, (* the edge that won a vertex *)
    active,     (* what the threads that collapse an edge do next *)
    vdead,
    fdead,
    level,      (* the rung of the ladder: thresh *)
    stalls,
    rounds,
    result,     (* ov and of; the input until there is one *)
    pc

round == <<around, cost, prop, vertexProp, active, vdead, fdead>>
ladder == <<level, stalls, rounds>>
vars == <<input, device, verts, faces, round, ladder, result, pc>>

Faces == DOMAIN faces
Edges == DOMAIN cost
At(f) == {faces[f][k] : k \in Corner}

(* The faces at either end of an edge.                                     *)
Star(e) == around[e[1]] \cup around[e[2]]
Shared(e) == around[e[1]] \cap around[e[2]]

Phases == {"start", "round", "propagate", "launch", "collapse", "copy", "end"}
Work == {"kill", "drop", "retarget"}

Mesh(m) == m.verts \in Nat /\ m.faces \in Seq(Triangles(m.verts))

TypeOK ==
    /\ Mesh(input) /\ Mesh(result)
    /\ device \in {"gpu", "cpu"} /\ pc \in Phases
    /\ verts \in Nat /\ faces \in Seq([Corner -> 1..verts])
    /\ around \in [DOMAIN around -> SUBSET Faces]
    /\ Edges \subseteq (1..verts) \X (1..verts) /\ cost \in [Edges -> Nat]
    /\ prop \in [DOMAIN prop -> Edges] /\ vertexProp \in [DOMAIN vertexProp -> Edges]
    /\ DOMAIN active \subseteq Edges /\ active \in [DOMAIN active -> Work]
    /\ vdead \subseteq 1..verts /\ fdead \subseteq Faces
    /\ level \in Nat /\ stalls \in 0..1 /\ rounds \in 0..MaxRounds

NoFunction == [x \in {} |-> 0]
NoRound ==
    /\ around' = NoFunction /\ cost' = NoFunction
    /\ prop' = NoFunction /\ vertexProp' = NoFunction
    /\ active' = NoFunction /\ vdead' = {} /\ fdead' = {}

Init ==
    /\ input \in Meshes /\ device \in {"gpu", "cpu"}
    /\ verts = input.verts /\ faces = input.faces
    /\ around = NoFunction /\ cost = NoFunction
    /\ prop = NoFunction /\ vertexProp = NoFunction
    /\ active = NoFunction /\ vdead = {} /\ fdead = {}
    /\ level = 0 /\ stalls = 0 /\ rounds = 0
    /\ result = input /\ pc = "start"

-----------------------------------------------------------------------------
(* A round: adjacency, unique edges, costs.                                *)

(* A mesh that is small enough already is returned as it is.               *)
Start ==
    /\ pc = "start"
    /\ pc' = IF Len(faces) <= Target THEN "end" ELSE "round"
    /\ UNCHANGED <<input, device, verts, faces, round, ladder, result>>

MeshEdges ==
    {e \in (1..verts) \X (1..verts) : e[1] < e[2] /\ \E f \in Faces : {e[1], e[2]} \subseteq At(f)}

Round ==
    /\ pc = "round"
    /\ IF rounds < MaxRounds /\ Len(faces) > Target
       THEN /\ around' = [v \in 1..verts |-> {f \in Faces : v \in At(f)}]
            /\ cost' \in [MeshEdges -> Costs]
            /\ pc' = "propagate"
       ELSE pc' = "copy" /\ UNCHANGED <<around, cost>>
    /\ UNCHANGED <<input, device, verts, faces, prop, vertexProp, active, vdead,
                   fdead, ladder, result>>

(* pack_cost: the bits of the cost, then the number of the edge.           *)
Before(e, g) ==
    \/ cost[e] < cost[g]
    \/ cost[e] = cost[g] /\ (e[1] < g[1] \/ (e[1] = g[1] /\ e[2] < g[2]))

Least(S) == CHOOSE e \in S : \A g \in S : ~Before(g, e)

(* Every face and every vertex goes to the least of the edges that reach   *)
(* it.                                                                     *)
Propagate ==
    /\ pc = "propagate"
    /\ prop' = [f \in UNION {Star(e) : e \in Edges} |-> Least({e \in Edges : f \in Star(e)})]
    /\ vertexProp' = [v \in UNION {{e[1], e[2]} : e \in Edges} |->
                        Least({e \in Edges : v \in {e[1], e[2]}})]
    /\ pc' = "launch"
    /\ UNCHANGED <<input, device, verts, faces, around, cost, active, vdead, fdead,
                   ladder, result>>

-----------------------------------------------------------------------------
(* k_collapse, a thread per edge; on the CPU one edge after the other.     *)

(* Fault: the faces at the second end are not asked for.                   *)
Fault_OneEnd(e) == \A f \in around[e[1]] : prop[f] = e

OwnsFaces(e) == \A f \in Star(e) : prop[f] = e

OwnsVertices(e) == vertexProp[e[1]] = e /\ vertexProp[e[2]] = e

(* cost <= thresh: what the rung admits, and every negative cost.          *)
Cheap(e) == cost[e] <= level \/ cost[e] > Infinite

Wins(e) == Cheap(e) /\ OwnsFaces(e) /\ (device = "gpu" => OwnsVertices(e))

Winners == {e \in Edges : Wins(e)}

(* What a thread tests nobody writes: those that do not win are gone.      *)
Launch ==
    /\ pc = "launch"
    /\ active' = [e \in Winners |-> "kill"]
    /\ pc' = "collapse"
    /\ UNCHANGED <<input, device, verts, faces, around, cost, prop, vertexProp, vdead,
                   fdead, ladder, result>>

Does(e, work) ==
    /\ pc = "collapse" /\ e \in DOMAIN active /\ active[e] = work
    /\ device = "gpu" \/ \A g \in DOMAIN active \ {e} : active[g] = "kill"

Kill(e) ==
    /\ Does(e, "kill")
    /\ vdead' = vdead \cup {e[2]}
    /\ active' = [active EXCEPT ![e] = "drop"]
    /\ UNCHANGED <<input, device, verts, faces, around, cost, prop, vertexProp,
                   fdead, ladder, result, pc>>

(* Fault: every face at the first end is dropped.                          *)
Fault_DropAll(e) == around[e[1]]

(* The faces of the first end that have the second one: they are read      *)
(* again, another thread must not have changed them.                       *)
Folded(e) == {f \in around[e[1]] : e[2] \in At(f)}

Drop(e) ==
    /\ Does(e, "drop")
    /\ fdead' = fdead \cup Folded(e)
    /\ active' = [active EXCEPT ![e] = "retarget"]
    /\ UNCHANGED <<input, device, verts, faces, around, cost, prop, vertexProp,
                   vdead, ladder, result, pc>>

(* Fault: only the first corner is looked at.                              *)
Fault_FirstCorner(t, e) == [t EXCEPT ![1] = IF t[1] = e[2] THEN e[1] ELSE t[1]]

(* The GPU stops at the first corner that is the second end.               *)
Retargeted(t, e) ==
    [k \in Corner |->
        IF t[k] = e[2] /\ (device = "cpu" \/ \A j \in Corner : t[j] = e[2] => k <= j)
        THEN e[1] ELSE t[k]]

Retarget(e) ==
    /\ Does(e, "retarget")
    /\ faces' = [f \in Faces |-> IF f \in around[e[2]] THEN Retargeted(faces[f], e) ELSE faces[f]]
    /\ active' = [g \in DOMAIN active \ {e} |-> active[g]]
    /\ UNCHANGED <<input, device, verts, around, cost, prop, vertexProp, vdead,
                   fdead, ladder, result, pc>>

-----------------------------------------------------------------------------
(* Compaction and the ladder of thresholds.                                *)

Live == (1..verts) \ vdead

(* vscan: a live vertex gets as its number how many live ones come first.  *)
Number(v) == Cardinality({u \in Live : u <= v})

Whole(t) ==
    /\ \A k \in Corner : t[k] \notin vdead
    /\ \A i, j \in Corner : i # j => t[i] # t[j]

Numbered(t) == [k \in Corner |-> Number(t[k])]

Kept == {f \in Faces : f \notin fdead /\ Whole(faces[f])}

(* fscan, read backwards: the n-th of the faces that are kept.             *)
Nth(S, n) == CHOOSE f \in S : Cardinality({g \in S : g <= f}) = n

Compacted == [n \in 1..Cardinality(Kept) |-> Numbered(faces[Nth(Kept, n)])]

(* thresh *= 10 after two rounds without a collapse, or a slow one.        *)
Climb(removed) ==
    IF removed = 0
    THEN /\ stalls' = 1 - stalls
         /\ level' = level + stalls
    ELSE /\ stalls' = 0
         /\ level' = IF removed * SlowShare < Len(faces) THEN level + 1 ELSE level

Compact ==
    /\ pc = "collapse" /\ DOMAIN active = {}
    /\ verts' = Cardinality(Live)
    /\ faces' = Compacted
    /\ rounds' = rounds + 1
    /\ Climb(Len(faces) - Cardinality(Kept))
    /\ pc' = IF level' > TopLevel THEN "copy" ELSE "round"
    /\ NoRound
    /\ UNCHANGED <<input, device, result>>

-----------------------------------------------------------------------------
(* The result: referenced vertices only, in the order of their first use.  *)

Uses(v) == {3 * (p[1] - 1) + p[2] : p \in {q \in Faces \X Corner : faces[q[1]][q[2]] = v}}
Referenced == UNION {At(f) : f \in Faces}
First(v) == CHOOSE i \in Uses(v) : \A j \in Uses(v) : i <= j
Used(v) == Cardinality({u \in Referenced : First(u) <= First(v)})

Copied == [verts |-> Cardinality(Referenced),
           faces |-> [f \in Faces |-> [k \in Corner |-> Used(faces[f][k])]]]

(* decimate_qem falls back to the CPU with the untouched input.            *)
StartOver ==
    /\ device' = "cpu"
    /\ verts' = input.verts /\ faces' = input.faces
    /\ level' = 0 /\ stalls' = 0 /\ rounds' = 0
    /\ pc' = "round"
    /\ NoRound
    /\ UNCHANGED <<input, result>>

(* A GPU result without faces does not count.                              *)
Copy ==
    /\ pc = "copy" /\ (device = "gpu" => faces # <<>>)
    /\ result' = Copied
    /\ pc' = "end"
    /\ UNCHANGED <<input, device, verts, faces, round, ladder>>

(* Any call or kernel may fail, up to the copy back.                       *)
GpuFails ==
    /\ device = "gpu" /\ pc \in {"round", "propagate", "launch", "collapse", "copy"}
    /\ StartOver

-----------------------------------------------------------------------------
Next ==
    \/ Start \/ Round \/ Propagate \/ Launch
    \/ \E e \in Edges : Kill(e) \/ Drop(e) \/ Retarget(e)
    \/ Compact \/ Copy \/ GpuFails

Spec == Init /\ [][Next]_vars

-----------------------------------------------------------------------------
(* Properties.                                                             *)

(* decimate_qem.cu: "independent-set: disjoint faces/vertices, so writes   *)
(* race-free": no two threads in the middle of a collapse have a vertex or *)
(* a face in common, though each saw only its own minima.                  *)
RaceFree ==
    \A e, g \in DOMAIN active : e # g =>
        {e[1], e[2]} \cap {g[1], g[2]} = {} /\ Star(e) \cap Star(g) = {}

(* When the kernel has ended, a face that no collapse folded has three     *)
(* different corners and none that is dead: compaction, which would drop   *)
(* it otherwise, never opens a hole in the surface.                        *)
NoHoleMade ==
    pc = "collapse" /\ DOMAIN active = {} =>
        \A f \in Faces \ fdead : Whole(faces[f])

(* Whatever the interleaving, the kernel leaves what the loop of the CPU   *)
(* leaves: the image of a vertex is the first end of the winner whose      *)
(* second end it is, and the vertex itself otherwise; the corners of each  *)
(* face are the images of those it had, the dead vertices are the second   *)
(* ends, the dead faces those that had both.                               *)
Image(v) == IF \E e \in Winners : v = e[2] THEN (CHOOSE e \in Winners : v = e[2])[1] ELSE v

LikeTheLoop ==
    pc = "collapse" /\ DOMAIN active = {} =>
        /\ vdead = {e[2] : e \in Winners}
        /\ fdead = UNION {Shared(e) : e \in Winners}
        /\ \A f \in Faces : At(f) = {Image(v) : v \in {u \in DOMAIN around : f \in around[u]}}
=============================================================================
