------------------------------ MODULE Cascade ------------------------------
(***************************************************************************)
(* One run of the program, from the packs to the mesh file: `run-image`    *)
(* and `run-cascade` (src/main.cpp), the loading of the seven models       *)
(* (src/inference.cpp) and the cascade itself (src/pipeline.cpp).  Each    *)
(* stage asks a noise builder and a condition builder for tensors at the   *)
(* coordinates it names; the builders are callbacks and may return others. *)
(*                                                                         *)
(* Features are not represented.  A list of coordinates is kept sorted and *)
(* unique by the code, so it is a set of Cells; the grids of the stages    *)
(* are identified, and so are the levels of the decoders' subdivisions.    *)
(***************************************************************************)
EXTENDS Integers, FiniteSets

CONSTANTS
    Cells,     (* the cells of a grid *)
    Configs    (* the runs: is it run-image, is the output an OBJ, does the
                  estimate fit, is a projection required, max_structure_points
                  and max_num_tokens, 0 for no such limit *)

ASSUME CascadeAssumption ==
    /\ Cells \subseteq Nat /\ IsFiniteSet(Cells) /\ Cells # {}
    /\ Configs \subseteq [image : BOOLEAN, obj : BOOLEAN, fits : BOOLEAN,
                         projected : BOOLEAN, cap : Nat, tokens : Nat]

VARIABLES
    config,     (* what this run is asked for *)
    pc, at,     (* the next step, and the model to load or the stage *)
    loaded,     (* models that hold their tensors *)
    vram,       (* models with weights on the GPU *)
    attempted,  (* decoders that tried the GPU: SLatDecoderGpuState::attempted *)
    noise,      (* coordinates of the noise of the stage *)
    condition,  (* coordinates of its projected condition, {} without one *)
    strayed,    (* a builder returned other coordinates than it was asked for *)
    out,        (* coordinates of the fields of Pixal3DCascadeOutputF32 *)
    why,        (* why run_pixal3d_cascade_f32 or its caller failed *)
    file,       (* the file at the output path *)
    exit        (* the exit code, -1 before the end *)

run == <<pc, at, why, exit>>
models == <<loaded, vram, attempted>>
built == <<noise, condition, strayed>>
vars == <<config, run, models, built, out, file>>

Loading == <<"ss_flow", "ss_decoder", "shape_flow_low", "shape_flow_high",
             "texture_flow", "shape_decoder", "texture_decoder">>
CascadeModels == {Loading[i] : i \in 1..7}
Vision == {"dino", "naf"}
SlatFlows == {"shape_flow_low", "shape_flow_high", "texture_flow"}
(* The flow models, in the order of Pixal3DCascadeStage.                   *)
FlowOf == <<"ss_flow", "shape_flow_low", "shape_flow_high", "texture_flow">>
Fields == {"structure", "low", "high", "shape", "texture", "guide", "decoded",
           "painted", "mesh"}
Steps == {"preflight", "dino", "naf", "encode", "estimate", "load", "noise",
          "condition", "sample", "sampling", "upsample", "decode", "paint", "mesh",
          "return", "failed", "write", "writing", "close", "exit"}
Reasons == {"none", "packs", "load", "builder", "mismatch", "compute", "empty", "tokens"}

TypeOK ==
    /\ config \in Configs
    /\ pc \in Steps /\ at \in 1..7
    /\ pc \in {"noise", "condition", "sample", "sampling"} => at \in 1..4
    /\ loaded \subseteq CascadeModels \cup Vision /\ vram \subseteq loaded
    /\ attempted \subseteq {"shape_decoder", "texture_decoder"}
    /\ noise \subseteq Cells /\ condition \subseteq Cells /\ strayed \in BOOLEAN
    /\ out \in [Fields -> SUBSET Cells]
    /\ why \in Reasons /\ file \in {"old", "part", "whole"} /\ exit \in {-1, 0, 1}

Init ==
    /\ config \in Configs
    /\ pc = (IF config.image THEN "preflight" ELSE "estimate") /\ at = 1
    /\ loaded = {} /\ vram = {} /\ attempted = {}
    /\ noise = {} /\ condition = {} /\ strayed = FALSE
    /\ out = [f \in Fields |-> {}]
    /\ why = "none" /\ file = "old" /\ exit = -1

-----------------------------------------------------------------------------
(* The command.                                                            *)

Goto(step) == pc' = step /\ UNCHANGED <<at, why, exit>>

(* The command prints its error; what it loaded goes with the process.     *)
Exit(code) ==
    /\ pc' = "exit" /\ exit' = code /\ UNCHANGED <<at, why>>
    /\ loaded' = {} /\ vram' = {} /\ attempted' = {}

(* Fault: the image path starts before it looks at the limit.              *)
Fault_NoGuard == TRUE

(* The host bytes of the packs fit into --max-model-gib.                   *)
Fits == config.fits

(* run-image checks the packs first, then the image and the camera.        *)
Preflight ==
    /\ pc = "preflight"
    /\ \/ Fits /\ Goto("dino") /\ UNCHANGED models
       \/ Exit(1)
    /\ UNCHANGED <<config, built, out, file>>

(* DINO puts its weights on the backend of its choice, NAF keeps them on   *)
(* the host; both stay until the command ends.                             *)
LoadVision(m, next) ==
    /\ \/ /\ loaded' = loaded \cup {m}
          /\ vram' = vram \/ (m = "dino" /\ vram' = vram \cup {m})
          /\ UNCHANGED attempted
          /\ Goto(next)
       \/ Exit(1)
    /\ UNCHANGED <<config, built, out, file>>

LoadDino == pc = "dino" /\ LoadVision("dino", "naf")
LoadNaf == pc = "naf" /\ LoadVision("naf", "encode")

Encode ==
    /\ pc = "encode"
    /\ \/ Goto("estimate") /\ UNCHANGED models
       \/ Exit(1)
    /\ UNCHANGED <<config, built, out, file>>

-----------------------------------------------------------------------------
(* run_pixal3d_with_condition_builder.                                     *)

Fail(reason) == pc' = "return" /\ why' = reason /\ UNCHANGED <<at, exit>>

Estimate ==
    /\ pc = "estimate"
    /\ (config.fits /\ Goto("load")) \/ Fail("packs")
    /\ UNCHANGED <<config, models, built, out, file>>

(* The two structure models upload their weights when they are loaded, the *)
(* others when they are used.  After the last one, models and metadata are *)
(* checked against each other.                                             *)
Load ==
    /\ pc = "load"
    /\ \/ /\ loaded' = loaded \cup {Loading[at]}
          /\ vram' = vram \/ (at \in 1..2 /\ vram' = vram \cup {Loading[at]})
          /\ IF at < 7 THEN at' = at + 1 /\ UNCHANGED pc
                       ELSE at' = 1 /\ pc' = "noise"
          /\ UNCHANGED <<why, exit>>
       \/ Fail("load") /\ UNCHANGED <<loaded, vram>>
    /\ UNCHANGED <<config, attempted, built, out, file>>

(* Fault: a failed cascade is written like any other.                      *)
Fault_WriteAnyway == Goto("write")

(* Only a cascade that succeeded is written.                               *)
Report == Goto(IF why = "none" THEN "write" ELSE "failed")

(* The seven models are locals and close when the function returns.        *)
Freed == vram \ CascadeModels

Return ==
    /\ pc = "return"
    /\ Report
    /\ loaded' = loaded \ CascadeModels /\ vram' = Freed
    /\ attempted' = {}
    /\ UNCHANGED <<config, built, out, file>>

Failed ==
    /\ pc = "failed"
    /\ Exit(1)
    /\ UNCHANGED <<config, built, out, file>>

-----------------------------------------------------------------------------
(* A stage: noise, condition, sampler.                                     *)

(* Fault: two tensors are taken for aligned when they are equally long.    *)
Fault_SameSize(a, b) == Cardinality(a) = Cardinality(b)

SameCoords(a, b) == a = b

(* Fault: the texture is asked for at the coordinates of the structure.    *)
Fault_StaleCoords == IF at = 1 THEN Cells
                     ELSE IF at = 3 THEN out["high"] ELSE out["structure"]

(* The coordinates the builders of a stage are asked for.                  *)
Requested == CASE at = 1 -> Cells
               [] at = 2 -> out["structure"]
               [] OTHER -> out["high"]

(* build_noise: a builder fails, or returns a tensor that is checked.      *)
BuildNoise ==
    /\ pc = "noise"
    /\ \/ Fail("builder") /\ UNCHANGED built
       \/ \E coords \in SUBSET Cells :
            /\ noise' = coords /\ condition' = {}
            /\ strayed' = (strayed \/ coords # Requested)
            /\ IF coords # {} /\ SameCoords(coords, Requested)
               THEN Goto("condition") ELSE Fail("mismatch")
    /\ UNCHANGED <<config, models, out, file>>

(* build_condition: the projection is optional here and, as the metadata   *)
(* has it, required by the sampler.                                        *)
BuildCondition ==
    /\ pc = "condition"
    /\ \/ Fail("builder") /\ UNCHANGED built
       \/ \E coords \in SUBSET Cells :
            /\ condition' = coords
            /\ strayed' = (strayed \/ (coords # Requested /\ (coords # {} \/ config.projected)))
            /\ IF coords = {} \/ SameCoords(coords, Requested)
               THEN Goto("sample") ELSE Fail("mismatch")
            /\ UNCHANGED noise
    /\ UNCHANGED <<config, models, out, file>>

(* run_slat_stage_f32 and sample() look at the tensors once more.          *)
Aligned ==
    /\ IF condition = {} THEN ~config.projected ELSE SameCoords(condition, noise)
    /\ at = 4 => SameCoords(out["shape"], noise)

(* The weights of a SLat flow go to the GPU only now, if at all.           *)
Sample ==
    /\ pc = "sample"
    /\ IF Aligned THEN Goto("sampling") ELSE Fail("mismatch")
    /\ vram' = vram \/ (Aligned /\ FlowOf[at] \in SlatFlows /\ vram' = vram \cup {FlowOf[at]})
    /\ UNCHANGED <<config, loaded, attempted, built, out, file>>

(* Fault: the sampler leaves its weights where they are.                   *)
Fault_KeepFlow == vram

(* What is on the GPU when sample() has returned.                          *)
Released == vram \ (SlatFlows \cap {FlowOf[at]})

NextStage(step) == at' = at + 1 /\ pc' = step /\ UNCHANGED <<why, exit>>

(* Fault: one point more than allowed.                                     *)
Fault_OneMore(occupied) ==
    IF config.cap = 0 THEN occupied
    ELSE {c \in occupied : Cardinality({d \in occupied : d < c}) <= config.cap}

Distance(c, occupied) ==
    LET centre == (CHOOSE m \in occupied : \A d \in occupied : d <= m) \div 2
    IN  IF c < centre THEN centre - c ELSE c - centre

(* max_structure_points keeps the first points, or the one at the centre.  *)
Capped(occupied) ==
    IF config.cap = 0 \/ Cardinality(occupied) <= config.cap THEN occupied
    ELSE IF config.cap = 1
    THEN {CHOOSE c \in occupied : \A d \in occupied :
            \/ Distance(c, occupied) < Distance(d, occupied)
            \/ Distance(c, occupied) = Distance(d, occupied) /\ c <= d}
    ELSE {c \in occupied : Cardinality({d \in occupied : d < c}) < config.cap}

(* The sampler and, for the structure, its decoder have returned.  The     *)
(* sampled points are those of the noise.                                  *)
Sampled ==
    /\ pc = "sampling"
    /\ vram' = Released
    /\ \/ Fail("compute") /\ UNCHANGED out
       \/ /\ at = 1
          /\ \E occupied \in SUBSET Cells :
               /\ out' = [out EXCEPT !["structure"] = Capped(occupied)]
               /\ IF occupied = {} THEN Fail("empty") ELSE NextStage("noise")
       \/ at = 2 /\ out' = [out EXCEPT !["low"] = noise] /\ Goto("upsample")
       \/ at = 3 /\ out' = [out EXCEPT !["shape"] = noise] /\ NextStage("noise")
       \/ at = 4 /\ out' = [out EXCEPT !["texture"] = noise] /\ Goto("decode")
    /\ UNCHANGED <<config, loaded, attempted, built, file>>

-----------------------------------------------------------------------------
(* The decoders and the mesh.                                              *)

(* A decoder stays on the GPU once it computed there; after a failure it   *)
(* is closed and not taken there again.                                    *)
Decoder(m) ==
    \/ vram' = vram \ {m} /\ attempted' \in {attempted, attempted \cup {m}}
    \/ /\ m \in vram \/ m \notin attempted
       /\ vram' = vram \cup {m} /\ attempted' = attempted \cup {m}

(* Fault: the guard lets one point more pass.                              *)
Fault_OffByOne(coords) == config.tokens # 0 /\ Cardinality(coords) > config.tokens + 1

TooMany(coords) == config.tokens # 0 /\ Cardinality(coords) > config.tokens

(* shape_decoder.upsample_coords and quantize_slat_coords_f32.             *)
Upsample ==
    /\ pc = "upsample"
    /\ Decoder("shape_decoder")
    /\ \/ Fail("compute") /\ UNCHANGED out
       \/ \E coords \in SUBSET Cells :
            IF TooMany(coords)
            THEN Fail("tokens") /\ UNCHANGED out
            ELSE /\ out' = [out EXCEPT !["high"] = coords]
                 /\ IF coords = {} THEN Fail("empty") ELSE NextStage("noise")
    /\ UNCHANGED <<config, loaded, built, file>>

(* Fault: the low-resolution latent is decoded.                            *)
Fault_LowLatent == out["low"]

Latent == out["shape"]

(* shape_decoder.decode predicts which cells of its input to subdivide and *)
(* hands the prediction on; the voxels it keeps are any.                   *)
Decode ==
    /\ pc = "decode"
    /\ Decoder("shape_decoder")
    /\ \/ Fail("compute") /\ UNCHANGED out
       \/ \E kept \in SUBSET Cells :
            /\ out' = [out EXCEPT !["guide"] = Latent, !["decoded"] = kept]
            /\ Goto("paint")
    /\ UNCHANGED <<config, loaded, built, file>>

(* texture_decoder.decode subdivides as it is told, if the guide is one of *)
(* its own coordinates.  A failing rescaling clears the output.            *)
Paint ==
    /\ pc = "paint"
    /\ Decoder("texture_decoder")
    /\ IF ~SameCoords(out["guide"], out["texture"])
       THEN Fail("mismatch") /\ UNCHANGED out
       ELSE \/ Fail("compute") /\ out' \in {out, [f \in Fields |-> {}]}
            \/ out' = [out EXCEPT !["painted"] = out["decoded"]] /\ Goto("mesh")
    /\ UNCHANGED <<config, loaded, built, file>>

(* flexi_dual_grid_decode_mesh_f32 and the filling of holes.               *)
Mesh ==
    /\ pc = "mesh"
    /\ \/ Fail("compute") /\ UNCHANGED out
       \/ /\ out' = [out EXCEPT !["mesh"] = out["decoded"]]
          /\ Goto("return") \/ Fail("compute")
    /\ UNCHANGED <<config, models, built, file>>

-----------------------------------------------------------------------------
(* write_pixal3d_obj and write_pixal3d_glb.                                *)

(* Everything that may fail before the file is opened leaves it alone.     *)
Open ==
    /\ pc = "write"
    /\ \/ Exit(1) /\ UNCHANGED file
       \/ Goto("writing") /\ file' = "part" /\ UNCHANGED models
    /\ UNCHANGED <<config, built, out>>

(* A GLB is one large write, which goes past the buffer of the stream; an  *)
(* OBJ is many small ones, whose tail is in the buffer when the stream is  *)
(* asked whether it failed.                                                *)
Write ==
    /\ pc = "writing"
    /\ \/ Exit(1) /\ UNCHANGED file
       \/ /\ file' = IF config.obj THEN file ELSE "whole"
          /\ Goto("close") /\ UNCHANGED models
    /\ UNCHANGED <<config, built, out>>

(* The destructor of the stream writes the tail; nobody asks again.        *)
Close ==
    /\ pc = "close"
    /\ file' \in {file, "whole"}
    /\ Exit(0)
    /\ UNCHANGED <<config, built, out>>

-----------------------------------------------------------------------------
Next ==
    \/ Preflight \/ LoadDino \/ LoadNaf \/ Encode \/ Estimate \/ Load \/ Return \/ Failed
    \/ BuildNoise \/ BuildCondition \/ Sample \/ Sampled
    \/ Upsample \/ Decode \/ Paint \/ Mesh
    \/ Open \/ Write \/ Close

Spec == Init /\ [][Next]_vars

-----------------------------------------------------------------------------
(* Properties.                                                             *)

(* A sampler computes with noise, projected condition and shape latent of  *)
(* the same points, whatever the builders return.                          *)
SampledTogether ==
    pc = "sampling" =>
        /\ noise = Requested
        /\ condition \in {noise, {}}
        /\ at = 4 => noise = out["shape"]

(* The voxels that carry the material are those of the mesh, and both come *)
(* from latents at the same coordinates, two decoders and two samplings    *)
(* later.                                                                  *)
TextureOnShape ==
    pc \in {"write", "writing", "close"} =>
        /\ out["shape"] = out["high"] /\ out["texture"] = out["high"]
        /\ out["painted"] = out["mesh"] /\ out["guide"] = out["texture"]

(* pipeline.h: "every stage must return ... rows for the exact requested   *)
(* coordinates".  The cascade complains of coordinates only when a builder *)
(* did not: the tensors it keeps itself always fit together.               *)
BuildersBlamed == why = "mismatch" => strayed

(* Tensors that meet are at the same coordinates, from the first sampler   *)
(* to the painted mesh, or a builder is blamed for it.                     *)
TensorsTogether == SampledTogether /\ TextureOnShape /\ BuildersBlamed

(* slat_flow.cpp: "keeps the three SLat components from simultaneously     *)
(* occupying VRAM".  Also no model of the cascade is there any more when   *)
(* the mesh is written.                                                    *)
OneFlowOnGpu ==
    /\ \A m, n \in SlatFlows \cap vram : m = n
    /\ pc # "sampling" => SlatFlows \cap vram = {}
    /\ pc \in {"write", "writing", "close"} => vram \subseteq Vision

(* main.cpp: the limit is "a genuine preflight guard for the single-process *)
(* image path"; inference.h: it is "pre-load".  No model is loaded above it. *)
GuardBeforeLoading == loaded # {} => config.fits

(* "A non-zero max_num_tokens is a hard guard": no sampler sees more       *)
(* points than max_structure_points and max_num_tokens allow.              *)
WithinLimits ==
    pc = "sampling" =>
        /\ at = 2 /\ config.cap # 0 => Cardinality(noise) <= config.cap
        /\ at \in 3..4 /\ config.tokens # 0 => Cardinality(noise) <= config.tokens

(* Memory and points stay within bounds, before loading and at run time:   *)
(* the limits the caller sets, and one SLat sampler at a time on the GPU.  *)
WithinBounds == GuardBeforeLoading /\ WithinLimits /\ OneFlowOnGpu

(* The file at the output path is touched only by a run whose cascade      *)
(* succeeded; a failure before that leaves an earlier result in place.     *)
OldFileKept == file # "old" => why = "none" /\ out["mesh"] = out["decoded"]
=============================================================================
