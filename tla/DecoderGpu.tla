---------------------------- MODULE DecoderGpu -----------------------------
(***************************************************************************)
(* The GPU path of one SLatDecoderModel (src/slat_decoder.cpp): decode()   *)
(* and upsample_coords() walk the levels of the decoder, and every sparse  *)
(* convolution gathers through a neighbour map that is cached until the    *)
(* coordinates change at the next level.                                   *)
(*                                                                         *)
(* The coordinates of a tensor are a value of Coords together with their   *)
(* level, which stands for the spatial size; features are left out.  Names *)
(* that Backend also uses begin with Decoder here: a decoder runs on the   *)
(* backends of one, and GpuProofs has the theorems about both.             *)
(***************************************************************************)
EXTENDS Integers

CONSTANTS
    Coords,     (* coordinate sets a tensor may have *)
    Points,     (* how many points each of them has *)
    Levels,     (* hparams.model_channels.size() *)
    Blocks,     (* ConvNeXt blocks of a level *)
    None

ASSUME DecoderAssumption ==
    /\ Points \in [Coords -> Nat \ {0}]
    /\ Levels \in Nat \ {0} /\ Blocks \in Nat
    /\ None \notin Coords \cup [coords : Coords, level : 0..(Levels - 1)]

VARIABLES
    decoderPolicy,  (* PIXAL3D_SLAT_DECODER_BACKEND *)
    settings,     (* the other switches of the environment *)
    manager,      (* backend_manager holds backends, a GPU first *)
    weights,      (* gpu.ready() *)
    attempted,    (* gpu.attempted *)
    map,          (* what current_neighbor_map was built for *)
    generation,   (* topology_generation *)
    recorded,     (* profile->topologies: coordinates by generation *)
    hidden,       (* coordinates of the tensor being decoded *)
    local,        (* what local_map was built for *)
    use,          (* the map gather_map points to *)
    phase,        (* which convolution is next *)
    block,        (* blocks of this level that have their map *)
    at, call

model == <<manager, weights, attempted>>
cache == <<map, generation, recorded>>
work == <<hidden, local, use, phase, block>>
decoderVars == <<decoderPolicy, settings, model, cache, work, at, call>>

Topologies == [coords : Coords, level : 0..(Levels - 1)]
Calls == [coords : Coords, upsample : BOOLEAN, last : 0..(Levels - 1)]
Settings == [cached : BOOLEAN, validate : BOOLEAN, profile : BOOLEAN,
             gpuFirst : BOOLEAN]

DecoderSteps ==
    {"idle", "choose", "init", "enter", "level", "prepare", "compute", "publish",
     "subdivide", "leave", "giveUp", "closeWeights", "closeManager", "cpu", "failed"}

DecoderTypeOK ==
    /\ decoderPolicy \in {"auto", "cpu", "gpu", "invalid"} /\ settings \in Settings
    /\ manager \in BOOLEAN /\ weights \in BOOLEAN
    /\ attempted \in BOOLEAN
    /\ map \in Topologies \cup {None} /\ generation \in 0..(Levels - 1)
    /\ recorded \in [0..(Levels - 1) -> Coords \cup {None}]
    /\ hidden \in Topologies \cup {None} /\ local \in Topologies \cup {None}
    /\ use \in {"cache", "local"} /\ phase \in {"block", "conv1", "conv2"}
    /\ block \in 0..Blocks
    /\ at \in DecoderSteps /\ call \in Calls \cup {None}

Nothing == [g \in 0..(Levels - 1) |-> None]

DecoderInit ==
    /\ decoderPolicy \in {"auto", "cpu", "gpu", "invalid"} /\ settings \in Settings
    /\ manager = FALSE /\ weights = FALSE /\ attempted = FALSE
    /\ map = None /\ generation = 0 /\ recorded = Nothing
    /\ hidden = None /\ local = None /\ use = "local"
    /\ phase = "block" /\ block = 0
    /\ at = "idle" /\ call = None

-----------------------------------------------------------------------------
(* decode(), upsample_coords() and load() from outside.                    *)

Begin(c) ==
    /\ at = "idle"
    /\ c.upsample \/ c.last = Levels - 1
    /\ call' = c
    /\ at' = CASE decoderPolicy = "invalid" -> "failed" [] decoderPolicy = "cpu" -> "cpu"
               [] OTHER -> "init"
    /\ UNCHANGED <<decoderPolicy, settings, model, cache, work>>

(* The model is closed and loaded again, GPU state and backends with it.   *)
Reload ==
    /\ at = "idle"
    /\ manager' = FALSE /\ weights' = FALSE /\ attempted' = FALSE
    /\ UNCHANGED <<decoderPolicy, settings, cache, work, at, call>>

(* init_gpu: weights that are there are used, otherwise the backends are   *)
(* opened and the weights uploaded, once for each loaded model.            *)
InitGpu ==
    /\ at = "init"
    /\ \/ weights /\ at' = "enter" /\ UNCHANGED model
       \/ /\ ~weights
          /\ at' = "giveUp"
          /\ manager' = FALSE /\ UNCHANGED <<weights, attempted>>
       \/ /\ ~weights
          /\ manager' = TRUE /\ attempted' = TRUE
          /\ weights' \in {FALSE, ~attempted}
          /\ at' = IF weights' THEN "enter" ELSE "giveUp"
    /\ UNCHANGED <<decoderPolicy, settings, cache, work, call>>

-----------------------------------------------------------------------------
(* The cache of the neighbour map.                                         *)

(* Fault: an invocation leaves its map to the next one.                    *)
Fault_KeepMap == map' = map /\ generation' = generation /\ recorded' = Nothing

(* begin_invocation and end_invocation.                                    *)
Forget == map' = None /\ generation' = 0 /\ recorded' = Nothing

(* Fault: coordinates change and the map stays.                            *)
Fault_NoInvalidate(next) == UNCHANGED <<map, generation>>

(* invalidate_neighbor_map, after which a new map may be published.        *)
NewTopology(next) == map' = next /\ generation' = generation + 1

Used == IF use = "cache" THEN map ELSE local

Hit == settings.cached /\ map # None

(* neighbor_map_shape_matches, with the fingerprint only when profiling.   *)
Matches ==
    /\ Points[map.coords] = Points[hidden.coords] /\ map.level = hidden.level
    /\ settings.profile => map.coords = hidden.coords

(* record_decoder_conv: one set of coordinates for each generation.        *)
Recordable == settings.profile => recorded[generation] \in {None, hidden.coords}

(* prepare_neighbor_map refuses the tensor.                                *)
Refused ==
    \/ Hit /\ ~Matches
    \/ Hit /\ settings.validate /\ map # hidden
    \/ ~Recordable

(* A whole level is one graph, which takes the map of its first block.     *)
KeepsPointer == settings.gpuFirst /\ phase = "block" /\ block > 0

Obtain ==
    /\ map' = IF settings.cached /\ ~Hit THEN hidden ELSE map
    /\ recorded' = IF settings.profile
                   THEN [recorded EXCEPT ![generation] = hidden.coords] ELSE recorded
    /\ IF KeepsPointer
       THEN UNCHANGED <<use, local>>
       ELSE /\ use' = IF settings.cached THEN "cache" ELSE "local"
            /\ local' = IF settings.cached THEN local ELSE hidden

-----------------------------------------------------------------------------
(* decode_gpu, decode_gpu_first, upsample_coords_gpu(_first).              *)

(* An invocation starts, or make_weights or an argument check ends it.     *)
Enter ==
    /\ at = "enter"
    /\ Forget
    /\ hidden' = [coords |-> call.coords, level |-> 0]
    /\ block' = 0 /\ phase' = "block"
    /\ at' \in {"level", "giveUp"}
    /\ UNCHANGED <<decoderPolicy, settings, model, local, use, call>>

(* Coordinates are all an upsampling needs; the older path stops before    *)
(* the blocks of its last level.                                           *)
AtEnd ==
    /\ hidden.level = call.last
    /\ block = Blocks \/ (call.upsample /\ ~settings.gpuFirst)

Level ==
    /\ at = "level"
    /\ IF AtEnd
       THEN at' = "leave" /\ UNCHANGED phase
       ELSE at' = "prepare" /\ phase' = IF block < Blocks THEN "block" ELSE "conv1"
    /\ UNCHANGED <<decoderPolicy, settings, model, cache, hidden, local, use, block, call>>

Prepare ==
    /\ at = "prepare"
    /\ IF Refused
       THEN at' = "giveUp" /\ UNCHANGED <<map, recorded, use, local, block>>
       ELSE /\ Obtain
            /\ block' = IF phase = "block" THEN block + 1 ELSE block
            /\ at' = IF settings.gpuFirst /\ phase = "block" /\ block' < Blocks
                     THEN "prepare" ELSE "compute"
    /\ UNCHANGED <<decoderPolicy, settings, model, generation, hidden, phase, call>>

(* The graph of a convolution, a level or a whole transition is computed.  *)
Compute ==
    /\ at = "compute"
    /\ \/ at' = "giveUp" /\ UNCHANGED <<phase, block>>
       \/ phase = "block" /\ at' = "level" /\ UNCHANGED <<phase, block>>
       \/ /\ phase = "conv1" /\ UNCHANGED <<phase, block>>
          /\ at' = IF settings.gpuFirst THEN "publish" ELSE "subdivide"
       \/ phase = "conv2" /\ at' = "level" /\ phase' = "block" /\ block' = 0
    /\ UNCHANGED <<decoderPolicy, settings, model, cache, hidden, local, use, call>>

(* The child coordinates of the next level.                                *)
Child(c) == [coords |-> c, level |-> hidden.level + 1]

(* run_c2s_transition: the graph has run on the maps of both levels.  Its  *)
(* output is validated, and only then does the map of the new level become *)
(* the cached one.                                                         *)
Publish ==
    /\ at = "publish"
    /\ \/ at' = "giveUp" /\ UNCHANGED <<hidden, cache, phase, block>>
       \/ /\ \E c \in Coords :
               /\ hidden' = Child(c)
               /\ NewTopology(IF settings.cached THEN Child(c) ELSE None)
               /\ recorded' = IF settings.profile
                              THEN [recorded EXCEPT ![generation + 1] = c] ELSE recorded
               /\ at' = IF settings.profile /\ recorded[generation + 1] \notin {None, c}
                        THEN "giveUp" ELSE "level"
          /\ phase' = "block" /\ block' = 0
    /\ UNCHANGED <<decoderPolicy, settings, model, local, use, call>>

(* The older path: sparse_channel_to_spatial on the host, then conv2.      *)
Subdivide ==
    /\ at = "subdivide"
    /\ \E c \in Coords : hidden' = Child(c)
    /\ NewTopology(None)
    /\ phase' = "conv2"
    /\ at' \in {"prepare", "giveUp"}
    /\ UNCHANGED <<decoderPolicy, settings, model, recorded, local, use, block, call>>

(* The invocation ends in success.                                         *)
Leave ==
    /\ at = "leave"
    /\ Forget
    /\ at' = "idle"
    /\ UNCHANGED <<decoderPolicy, settings, model, work, call>>

-----------------------------------------------------------------------------
(* The way back to the CPU.                                                *)

(* gpu.close() comes before backend_manager.close().                       *)
CloseFirst == "closeWeights"

(* The invocation, if there is one, ends.                                  *)
GiveUp ==
    /\ at = "giveUp"
    /\ Forget
    /\ at' = CloseFirst
    /\ UNCHANGED <<decoderPolicy, settings, model, work, call>>

CloseWeights ==
    /\ at = "closeWeights"
    /\ weights' = FALSE
    /\ Forget
    /\ at' = "closeManager"
    /\ UNCHANGED <<decoderPolicy, settings, manager, attempted, work, call>>

(* Fault: the GPU is tried again instead.                                  *)
Fault_TryAgain == "init"

Fallback == IF decoderPolicy = "gpu" THEN "failed" ELSE "cpu"

CloseManager ==
    /\ at = "closeManager"
    /\ manager' = FALSE
    /\ at' = Fallback
    /\ UNCHANGED <<decoderPolicy, settings, weights, attempted, cache, work, call>>

(* The call returns what the CPU computed, or an error.                    *)
Return ==
    /\ at \in {"cpu", "failed"}
    /\ at' = "idle"
    /\ UNCHANGED <<decoderPolicy, settings, model, cache, work, call>>

-----------------------------------------------------------------------------
Step ==
    \/ InitGpu \/ Enter \/ Level \/ Prepare \/ Compute \/ Publish \/ Subdivide \/ Leave
    \/ GiveUp \/ CloseWeights \/ CloseManager \/ Return

DecoderNext == Step \/ Reload \/ \E c \in Calls : Begin(c)

DecoderSpec == DecoderInit /\ [][DecoderNext]_decoderVars

(* A call is sequential code without a wait of its own.                    *)
SpecRuns == DecoderSpec /\ WF_decoderVars(Step)

-----------------------------------------------------------------------------
(* Properties.                                                             *)

(* Every convolution gathers through the map of the coordinates of its own *)
(* input, although coordinates of the same number and spatial size are all *)
(* the cache compares.                                                     *)
MapIsCurrent == at = "compute" => Used = hidden

(* The two run-time refusals, "topology changed without invalidation" and  *)
(* "coordinates changed without topology invalidation", never happen: the  *)
(* map is dropped at every change of level, on both paths.                 *)
InvalidatedInTime ==
    /\ at = "prepare" => ~Refused
    /\ at = "publish" => recorded[generation + 1] = None

(* The map in use is the right one, and none is refused for being old.     *)
MapInStep == MapIsCurrent /\ InvalidatedInTime

(* "The map is deliberately invocation-scoped": none is left when a call   *)
(* has ended, in whatever way, or waits for the GPU.                       *)
MapScoped ==
    at \in {"idle", "init", "cpu", "failed"} =>
        map = None /\ generation = 0 /\ recorded = Nothing

(* The weights on the GPU never outlive the backends that hold them.       *)
ManagerOutlives == weights => manager

(* The CPU takes over only when the GPU is free, never under gpu.          *)
CpuAlone == at = "cpu" => decoderPolicy # "gpu" /\ ~weights /\ ~manager

(* Every call returns, through the levels, the fallback and the teardown.  *)
CallsReturn == at # "idle" ~> at = "idle"
=============================================================================
