----------------------------- MODULE ModelGraphs ----------------------------
(***************************************************************************)
(* The models that compute a ggml graph per call, outside the SLat stages: *)
(* the sparse-structure flow and its Euler sampler (src/ss_flow.cpp,       *)
(* src/flow_sampler.cpp), the sparse-structure decoder                     *)
(* (src/ss_decoder.cpp), the DINO encoder (src/dino_vit.cpp), NAF with its *)
(* GPU convolutions and their CPU fallback (src/naf.cpp), and the vision   *)
(* encoder that composes the last two (src/vision_condition.cpp).          *)
(*                                                                         *)
(* The flow and the decoder keep their graph from one call to the next;    *)
(* DINO and NAF build one for each call.  A step is one call into ggml, or *)
(* the code between two of them.  A tensor's contents are a name for the   *)
(* value uploaded: the call it belongs to and which of its values it is.   *)
(***************************************************************************)
EXTENDS Integers, Sequences, FiniteSets, GraphScheduler

CONSTANTS
    MaxCalls,     (* bound: calls of the models' public functions *)
    Steps,        (* steps of the sampler *)
    Tokens,       (* numbers of conditioning tokens *)
    Convs,        (* convolutions in one NAF stack *)
    MaxStages     (* stages of a condition bundle *)

ASSUME ModelGraphsAssumption ==
    MaxCalls \in Nat /\ Steps \in Nat /\ Convs \in Nat \ {0} /\ MaxStages \in 1..4

Models == {"flow", "decoder", "dino", "naf"}
Keeping == {"flow", "decoder"}

VARIABLES
    policy,      (* the backend policy of the environment *)
    device,      (* the best device ggml can open *)
    supported,   (* whether that device supports every core operation *)
    model,       (* what each model's Impl holds *)
    attempted,   (* NafGpuState::attempted *)
    graph,       (* each model's graph: its context, scheduler and inputs *)
    pc,          (* the next step, "idle" between calls *)
    closing,     (* the model being closed and where control returns *)
    call,        (* the arguments and locals of the running call *)
    calls,       (* how many calls were made *)
    outcome      (* what the last call returned *)

world == <<policy, device, supported>>
vars == <<world, model, attempted, graph, pc, closing, call, calls, outcome>>

Inputs == {"x", "temb", "rope", "cnd", "proj", "latent", "patches", "image"}
Junk == <<>>

NoGraph == [ctx |-> FALSE, sched |-> NoScheduler, tokens |-> 0, rope |-> FALSE,
            mem |-> [i \in Inputs |-> Junk]]

Closed == [loaded |-> "no", proj |-> FALSE, manager |-> "closed", ctx |-> FALSE,
           buffer |-> FALSE]

NoCall == [op |-> "none"]

Init ==
    /\ policy \in {"auto", "cpu", "gpu"} /\ device \in {"cpu", "gpu"}
    /\ supported \in BOOLEAN
    /\ model = [m \in Models |-> Closed] /\ attempted = FALSE
    /\ graph = [m \in Models |-> NoGraph]
    /\ pc = "idle" /\ closing = <<>> /\ call = NoCall /\ calls = 0
    /\ outcome = NoCall

Mandatory == policy = "gpu"
Open(m) == model[m].manager # "closed"

(* The call returns: what it leaves for its caller to see.                 *)
Return(result) == pc' = "idle" /\ outcome' = result /\ call' = NoCall
Fail == Return([op |-> call.op, ok |-> FALSE])

(* A call begins: its arguments and locals, and its first step.            *)
Begin(c, to) ==
    /\ pc = "idle" /\ calls < MaxCalls
    /\ calls' = calls + 1
    /\ call' = c /\ pc' = to
    /\ outcome' = NoCall
n == calls

-----------------------------------------------------------------------------
(* Closing.  A kept runtime goes scheduler first, then the graph's context; *)
(* an Impl then frees its weights' buffer, its backends, its descriptors.  *)

(* Fault: the context goes first, while the scheduler still has the graph. *)
Fault_FirstFreed(g) == [g EXCEPT !.ctx = FALSE]

FirstFreed(g) == [g EXCEPT !.sched = NoScheduler]

Closing(m, all, after) == pc' = "freeFirst" /\ closing' = [m |-> m, all |-> all, after |-> after]
m0 == closing.m

FreeFirst ==
    /\ pc = "freeFirst"
    /\ graph' = [graph EXCEPT ![m0] = FirstFreed(@)]
    /\ pc' = "freeGraph"
    /\ UNCHANGED <<world, model, attempted, closing, call, calls, outcome>>

Freed(g) == NoGraph

FreeGraph ==
    /\ pc = "freeGraph"
    /\ graph' = [graph EXCEPT ![m0] = Freed(@)]
    /\ pc' = IF closing.all THEN "freeBuffer" ELSE closing.after
    /\ UNCHANGED <<world, model, attempted, closing, call, calls, outcome>>

FreeBuffer ==
    /\ pc = "freeBuffer"
    /\ model' = [model EXCEPT ![m0].buffer = FALSE]
    /\ pc' = "freeManager"
    /\ UNCHANGED <<world, attempted, graph, closing, call, calls, outcome>>

(* The last of the Impl; the next one has not tried the GPU.               *)
FreeManager ==
    /\ pc = "freeManager"
    /\ model' = [model EXCEPT ![m0] = Closed]
    /\ attempted' = (attempted /\ m0 # "naf")
    /\ pc' = closing.after
    /\ UNCHANGED <<world, graph, closing, call, calls, outcome>>

(* Where a failed call ends up when what it made is gone.                  *)
Failed ==
    /\ pc = "failed"
    /\ Fail
    /\ UNCHANGED <<world, model, attempted, graph, closing, calls>>

Close(m) ==
    /\ Begin([op |-> "close"], "freeFirst")
    /\ closing' = [m |-> m, all |-> TRUE, after |-> "closed"]
    /\ UNCHANGED <<world, model, attempted, graph>>

CloseDone ==
    /\ pc = "closed"
    /\ Return([op |-> "close", ok |-> TRUE])
    /\ UNCHANGED <<world, model, attempted, graph, closing, calls>>

-----------------------------------------------------------------------------
(* load(path, load_tensors): the old model goes, a new Impl is filled, and *)
(* its destructor undoes it when anything fails on the way.                *)

Load(m, full) ==
    /\ Begin([op |-> "load", model |-> m, full |-> full], "freeFirst")
    /\ closing' = [m |-> m, all |-> TRUE, after |-> IF m = "naf" THEN "openNaf" ELSE "openPack"]
    /\ UNCHANGED <<world, model, attempted, graph>>

Loaded(as) ==
    /\ model' = [model EXCEPT ![call.model].loaded = as]
    /\ Return([op |-> "load", ok |-> TRUE])

(* What the hyperparameters of a pack decide: whether the flow attends to  *)
(* projected features.                                                     *)
Projecting(m) == IF m = "flow" THEN BOOLEAN ELSE {FALSE}

(* The pack, its hyperparameters and a descriptor for every tensor.        *)
OpenPack ==
    /\ pc = "openPack"
    /\ \/ Closing(call.model, TRUE, "failed") /\ UNCHANGED <<model, call, outcome>>
       \/ \E proj \in Projecting(call.model) :
            LET filled == [model[call.model] EXCEPT !.ctx = TRUE, !.proj = proj]
            IN  /\ UNCHANGED closing
                /\ \/ /\ call.full
                      /\ model' = [model EXCEPT ![call.model] = filled]
                      /\ pc' = "openManager" /\ UNCHANGED <<call, outcome>>
                   \/ /\ ~call.full
                      /\ model' = [model EXCEPT ![call.model] = [filled EXCEPT !.loaded = "meta"]]
                      /\ Return([op |-> "load", ok |-> TRUE])
    /\ UNCHANGED <<world, attempted, graph, calls>>

(* NAF: the pack must hold the expected tensors, no other, of their shapes *)
(* and finite; they are read into host memory.                             *)
OpenNaf ==
    /\ pc = "openNaf"
    /\ \/ Closing("naf", TRUE, "failed") /\ UNCHANGED <<model, call, outcome>>
       \/ Loaded(IF call.full THEN "data" ELSE "meta") /\ UNCHANGED closing
    /\ UNCHANGED <<world, attempted, graph, calls>>

(* BackendManager::initialize_from_environment: the primary backend it may *)
(* end up with; auto goes on without a GPU.                                *)
Managers ==
    CASE policy = "cpu" -> {"cpu"}
      [] policy = "gpu" -> {device} \cap {"gpu"}
      [] OTHER -> {device, "cpu"}

OpenManager ==
    /\ pc = "openManager"
    /\ \/ Closing(call.model, TRUE, "failed") /\ UNCHANGED model
       \/ /\ \E b \in Managers : model' = [model EXCEPT ![call.model].manager = b]
          /\ pc' = "allocateWeights" /\ UNCHANGED closing
    /\ UNCHANGED <<world, attempted, graph, call, calls, outcome>>

AllocateWeights ==
    /\ pc = "allocateWeights"
    /\ \/ Closing(call.model, TRUE, "failed") /\ UNCHANGED model
       \/ /\ model' = [model EXCEPT ![call.model].buffer = TRUE]
          /\ pc' = "readWeights" /\ UNCHANGED closing
    /\ UNCHANGED <<world, attempted, graph, call, calls, outcome>>

ReadWeights ==
    /\ pc = "readWeights"
    /\ \/ /\ Closing(call.model, TRUE, "failed")
          /\ UNCHANGED <<model, call, outcome>>
       \/ Loaded("data") /\ UNCHANGED closing
    /\ UNCHANGED <<world, attempted, graph, calls>>

-----------------------------------------------------------------------------
(* What every graph call does alike: the scheduler it makes, requires and  *)
(* allocates with, and the upload and computation of its inputs.           *)

Prepared(m) ==
    UNION {Allocated(IF Mandatory THEN RequirePrimary(s) ELSE s, Mandatory, supported) :
             s \in Constructed(Open(m))}

CanRun(m) == CanCompute(graph[m].sched, Mandatory, supported)

(* The inputs a model's graph declares, and the values of the running call *)
(* they stand for.                                                         *)
Declared(m) ==
    CASE m = "flow" -> {"x", "temb", "rope", "cnd"} \cup (IF model[m].proj THEN {"proj"} ELSE {})
      [] m = "decoder" -> {"latent"}
      [] m = "dino" -> {"patches", "rope"}
      [] m = "naf" -> {"image"}

Value(i) ==
    CASE i \in {"x", "temb"} -> <<n, call.step>>
      [] i \in {"cnd", "proj"} -> <<n, Head(call.todo)>>
      [] i = "rope" -> <<"rope">>
      [] i = "latent" -> <<n>>
      [] i = "patches" -> <<n, Len(call.out) + 1>>
      [] i = "image" -> <<n, Len(call.out) + 1, call.stack, call.conv>>

Uploaded(m, which) == [i \in Inputs |-> IF i \in which THEN Value(i) ELSE graph[m].mem[i]]

(* The graph's result is a function of what its inputs held.               *)
Result(m) == [i \in Declared(m) |-> graph[m].mem[i]]
Got(m) == [call EXCEPT !.got = Result(m), !.on = graph[m].sched.placed]

FreshGraph == [NoGraph EXCEPT !.ctx = TRUE]

(* Fault: the local scheduler is kept.                                     *)
Fault_LeaveScope(m, to) == pc' = to /\ closing' = [m |-> m, all |-> FALSE, after |-> to]

(* A local scheduler dies at the end of its scope, after the context.      *)
LeaveScope(m, to) == pc' = "scopeEnd" /\ closing' = [m |-> m, all |-> FALSE, after |-> to]

ScopeEnd ==
    /\ pc = "scopeEnd"
    /\ graph' = [graph EXCEPT ![m0] = Freed(@)]
    /\ pc' = closing.after
    /\ UNCHANGED <<world, model, attempted, closing, call, calls, outcome>>

-----------------------------------------------------------------------------
(* SSFlowModel::sample over flow_euler_sample_f32.  The guidance of a step *)
(* is the strength inside an interval of timesteps and 1 outside.          *)

Strengths == {"one", "zero", "other"}
Interval == {i \in SUBSET (1..Steps) : \A a, b \in i : a..b \subseteq i}

Sample(tokens, strength, inside) ==
    /\ Begin([op |-> "sample", tokens |-> tokens, strength |-> strength, inside |-> inside,
              step |-> 1, todo |-> <<>>, got |-> <<>>, on |-> "none"],
             IF model["flow"].loaded = "data" THEN "step" ELSE "failed")
    /\ UNCHANGED <<world, model, attempted, graph, closing>>

(* Which branches of the model a guidance needs: conditional, or not.      *)
Branches(guidance) ==
    CASE guidance = "one" -> <<TRUE>> [] guidance = "zero" -> <<FALSE>>
      [] OTHER -> <<TRUE, FALSE>>

Step ==
    /\ pc = "step"
    /\ \/ /\ call.step > Steps
          /\ Return([op |-> "sample", ok |-> TRUE])
       \/ /\ call.step <= Steps
          /\ call' = [call EXCEPT !.todo =
                        Branches(IF call.step \in call.inside THEN call.strength ELSE "one")]
          /\ pc' = "forward" /\ UNCHANGED outcome
    /\ UNCHANGED <<world, model, attempted, graph, closing, calls>>

(* Fault: the kept graph is taken whatever it was built for.               *)
Fault_RuntimeMatches(g) == g.ctx /\ g.sched.valid

RuntimeMatches(g) == g.ctx /\ g.sched.valid /\ g.tokens = call.tokens

(* forward: a kept graph of another shape is closed, then one is built.    *)
Forward ==
    /\ pc = "forward"
    /\ IF RuntimeMatches(graph["flow"])
       THEN pc' = "flowUpload" /\ UNCHANGED closing
       ELSE Closing("flow", FALSE, "flowBuild")
    /\ UNCHANGED <<world, model, attempted, graph, call, calls, outcome>>

(* The context, the inputs and the nodes; without one of them, neither the *)
(* context nor anything else is left.                                      *)
FlowBuild ==
    /\ pc = "flowBuild"
    /\ \/ pc' = "failed" /\ UNCHANGED graph
       \/ graph' = [graph EXCEPT !["flow"] = FreshGraph] /\ pc' = "flowAllocate"
    /\ UNCHANGED <<world, model, attempted, closing, call, calls, outcome>>

(* The local scheduler is moved into the kept runtime, or the context is   *)
(* freed while that scheduler is still there.                              *)
FlowAllocate ==
    /\ pc = "flowAllocate"
    /\ \E p \in Prepared("flow") :
         IF p.ok
         THEN /\ graph' = [graph EXCEPT !["flow"] =
                             [@ EXCEPT !.sched = p.sched, !.tokens = call.tokens]]
              /\ pc' = "flowUpload" /\ UNCHANGED closing
         ELSE /\ graph' = [graph EXCEPT !["flow"] = [NoGraph EXCEPT !.sched = p.sched]]
              /\ LeaveScope("flow", "failed")
    /\ UNCHANGED <<world, model, attempted, call, calls, outcome>>

(* The rotary tables go up once per kept graph.                            *)
FlowUpload ==
    /\ pc = "flowUpload"
    /\ graph' = [graph EXCEPT !["flow"] =
         [@ EXCEPT !.rope = TRUE,
                   !.mem = Uploaded("flow", Declared("flow") \
                                              (IF graph["flow"].rope THEN {"rope"} ELSE {}))]]
    /\ pc' = "flowCompute"
    /\ UNCHANGED <<world, model, attempted, closing, call, calls, outcome>>

(* A graph whose computation failed is kept all the same.                  *)
FlowCompute ==
    /\ pc = "flowCompute"
    /\ \/ pc' = "failed" /\ UNCHANGED call
       \/ /\ CanRun("flow")
          /\ call' = Got("flow")
          /\ pc' = "velocity"
    /\ UNCHANGED <<world, model, attempted, graph, closing, calls, outcome>>

(* check_model_output refuses a velocity that is not finite; the Euler     *)
(* step follows the last branch.                                           *)
Velocity ==
    /\ pc = "velocity"
    /\ \/ pc' = "failed" /\ UNCHANGED call
       \/ IF Len(call.todo) > 1
          THEN call' = [call EXCEPT !.todo = Tail(@)] /\ pc' = "forward"
          ELSE /\ call' = [call EXCEPT !.todo = <<>>, !.step = @ + 1]
               /\ pc' = "step"
    /\ UNCHANGED <<world, model, attempted, graph, closing, calls, outcome>>
-----------------------------------------------------------------------------
(* SSDecoderModel::decode_sparse_coords: decode, then the occupied cells.  *)
(* A latent of another shape, like a missing tensor, is refused first.     *)

Decode ==
    /\ \E to \in {"failed"} \cup
                (IF model["decoder"].loaded # "data" THEN {}
                 ELSE {IF graph["decoder"].ctx THEN "decoderUpload" ELSE "decoderBuild"}) :
         Begin([op |-> "decode", got |-> <<>>, on |-> "none"], to)
    /\ UNCHANGED <<world, model, attempted, graph, closing>>

(* The runtime is filled in place: once there is a context, a failure      *)
(* closes it.                                                              *)
DecoderBuild ==
    /\ pc = "decoderBuild"
    /\ \/ pc' = "failed" /\ UNCHANGED <<graph, closing>>
       \/ graph' = [graph EXCEPT !["decoder"] = FreshGraph]
          /\ \/ pc' = "decoderAllocate" /\ UNCHANGED closing
             \/ Closing("decoder", FALSE, "failed")
    /\ UNCHANGED <<world, model, attempted, call, calls, outcome>>

(* Fault: a runtime that could not be allocated is left as it is.          *)
Fault_Unallocated == pc' = "failed" /\ closing' = closing

Unallocated == Closing("decoder", FALSE, "failed")

DecoderAllocate ==
    /\ pc = "decoderAllocate"
    /\ \E p \in Prepared("decoder") :
         /\ graph' = [graph EXCEPT !["decoder"].sched = p.sched]
         /\ IF p.ok THEN pc' = "decoderUpload" /\ UNCHANGED closing ELSE Unallocated
    /\ UNCHANGED <<world, model, attempted, call, calls, outcome>>

DecoderUpload ==
    /\ pc = "decoderUpload"
    /\ graph' = [graph EXCEPT !["decoder"].mem = Uploaded("decoder", {"latent"})]
    /\ pc' = "decoderCompute"
    /\ UNCHANGED <<world, model, attempted, closing, call, calls, outcome>>

DecoderCompute ==
    /\ pc = "decoderCompute"
    /\ \/ pc' = "failed" /\ UNCHANGED call
       \/ /\ CanRun("decoder")
          /\ call' = Got("decoder")
          /\ pc' = "logits"
    /\ UNCHANGED <<world, model, attempted, graph, closing, calls, outcome>>

(* The logits of the voxels of two cells of the target grid, in the order  *)
(* they are read.                                                          *)
Grids == [1..2 -> [1..2 -> {"above", "below", "nan"}]]

(* Fault: the scan of a cell goes on and its last voxel decides.           *)
Fault_Decides(cell) == cell[Len(cell)]

(* The voxel that ends the scan of a cell: the first one above the         *)
(* threshold or not a number.                                              *)
Decides(cell) ==
    LET found == {k \in DOMAIN cell : cell[k] # "below"}
    IN  IF found = {} THEN "below" ELSE cell[CHOOSE k \in found : \A j \in found : k <= j]

OccupiedCells(grid) == {c \in DOMAIN grid : Decides(grid[c]) = "above"}

(* ss_occupancy_to_coords_f32.  It refuses a threshold, a channel count or *)
(* a target resolution before it looks at the grid.                        *)
Logits ==
    /\ pc = "logits"
    /\ \/ Fail
       \/ \E grid \in Grids :
            LET ok == \A c \in DOMAIN grid : Decides(grid[c]) # "nan"
            IN  Return([op |-> "decode", ok |-> ok, grid |-> grid,
                        cells |-> IF ok THEN OccupiedCells(grid) ELSE {}])
    /\ UNCHANGED <<world, model, attempted, graph, closing, calls>>

-----------------------------------------------------------------------------
(* encode_pixal3d_condition_bundle_from_image_f32: for each stage, DINO    *)
(* over the stage's image and, if the stage wants it, NAF over that image  *)
(* and DINO's patches.                                                     *)

Encode(wanted) ==
    /\ Begin([op |-> "encode", wanted |-> wanted, out |-> <<>>, got |-> <<>>, on |-> "none",
              dino |-> <<>>, stack |-> 1, conv |-> 1, stacks |-> <<>>],
             "stage")
    /\ UNCHANGED <<world, model, attempted, graph, closing>>

NextStage == Len(call.out) + 1
WantsNaf == call.wanted[NextStage]

Stage ==
    /\ pc = "stage"
    /\ \/ /\ NextStage > Len(call.wanted)
          /\ Return([op |-> "encode", ok |-> TRUE, stages |-> call.out])
       \/ /\ NextStage <= Len(call.wanted)
          /\ pc' = "dinoEnter" /\ UNCHANGED <<call, outcome>>
    /\ UNCHANGED <<world, model, attempted, graph, closing, calls>>

(* The model must have its data, and the image be a square of whole        *)
(* patches.                                                                *)
DinoEnter ==
    /\ pc = "dinoEnter"
    /\ \/ model["dino"].loaded = "data" /\ pc' = "dinoBuild"
       \/ pc' = "failed"
    /\ UNCHANGED <<world, model, attempted, graph, closing, call, calls, outcome>>

DinoBuild ==
    /\ pc = "dinoBuild"
    /\ \/ pc' = "failed" /\ UNCHANGED graph
       \/ graph' = [graph EXCEPT !["dino"] = FreshGraph] /\ pc' = "dinoAllocate"
    /\ UNCHANGED <<world, model, attempted, closing, call, calls, outcome>>

DinoAllocate ==
    /\ pc = "dinoAllocate"
    /\ \E p \in Prepared("dino") :
         IF p.ok
         THEN /\ graph' = [graph EXCEPT !["dino"] =
                    [@ EXCEPT !.sched = p.sched, !.mem = Uploaded("dino", Declared("dino"))]]
              /\ pc' = "dinoCompute" /\ UNCHANGED closing
         ELSE /\ graph' = [graph EXCEPT !["dino"] = [NoGraph EXCEPT !.sched = p.sched]]
              /\ LeaveScope("dino", "failed")
    /\ UNCHANGED <<world, model, attempted, call, calls, outcome>>

(* The context is freed, the features are checked, the scheduler goes.     *)
DinoCompute ==
    /\ pc = "dinoCompute"
    /\ graph' = [graph EXCEPT !["dino"].ctx = FALSE]
    /\ \/ LeaveScope("dino", "failed") /\ UNCHANGED call
       \/ /\ CanRun("dino")
          /\ call' = [Got("dino") EXCEPT !.dino = <<n, NextStage>>]
          /\ LeaveScope("dino", "features")
    /\ UNCHANGED <<world, model, attempted, calls, outcome>>
-----------------------------------------------------------------------------
(* NafModel::upsample: a GPU if the policy allows one and there is one,    *)
(* the CPU if that fails, unless the policy is a GPU and nothing else.     *)

Features ==
    /\ pc = "features"
    /\ pc' = IF WantsNaf THEN "nafEnter" ELSE "makeStage"
    /\ UNCHANGED <<world, model, attempted, graph, closing, call, calls, outcome>>

(* The sizes must divide; then the policy decides who computes the stacks. *)
NafEnter ==
    /\ pc = "nafEnter"
    /\ \/ pc' = "failed"
       \/ /\ model["naf"].loaded = "data"
          /\ pc' = IF policy = "cpu" THEN "cpuStacks" ELSE "nafGpu"
    /\ UNCHANGED <<world, model, attempted, graph, closing, call, calls, outcome>>

Ready == model["naf"].buffer

(* init_gpu: what is ready stays; otherwise the backends are opened again, *)
(* and closed when the first of them is not a GPU.                         *)
NafGpu ==
    /\ pc = "nafGpu"
    /\ IF Ready /\ Open("naf")
       THEN pc' = "convBuild" /\ UNCHANGED model
       ELSE \E b \in Managers \cup {"closed"} :
              IF b = "gpu"
              THEN model' = [model EXCEPT !["naf"].manager = b] /\ pc' = "nafInit"
              ELSE model' = [model EXCEPT !["naf"].manager = "closed"] /\ pc' = "noGpu"
    /\ UNCHANGED <<world, attempted, graph, closing, call, calls, outcome>>

(* NafGpuState::init tries once in the life of an Impl.                    *)
NafInit ==
    /\ pc = "nafInit"
    /\ attempted' = TRUE
    /\ \/ pc' = "noGpu" /\ UNCHANGED model
       \/ /\ ~attempted
          /\ model' = [model EXCEPT !["naf"].ctx = TRUE, !["naf"].buffer = TRUE]
          /\ pc' = "convBuild"
    /\ UNCHANGED <<world, graph, closing, call, calls, outcome>>

(* auto goes on without closing the backends it opened.                    *)
NoGpu ==
    /\ pc = "noGpu"
    /\ pc' = IF policy = "gpu" THEN "giveUp" ELSE "cpuStacks"
    /\ UNCHANGED <<world, model, attempted, graph, closing, call, calls, outcome>>

(* gpu.close().                                                            *)
WithoutGpu(naf) == [naf EXCEPT !.buffer = FALSE, !.ctx = FALSE]

GiveUp ==
    /\ pc = "giveUp"
    /\ model' = [model EXCEPT !["naf"] = WithoutGpu(@)]
    /\ pc' = "giveUpManager"
    /\ UNCHANGED <<world, attempted, graph, closing, call, calls, outcome>>

GiveUpManager ==
    /\ pc = "giveUpManager"
    /\ model' = [model EXCEPT !["naf"].manager = "closed"]
    /\ pc' = IF policy = "gpu" THEN "failed" ELSE "cpuStacks"
    /\ UNCHANGED <<world, attempted, graph, closing, call, calls, outcome>>

(* run_conv_reflect: a graph for one convolution.                          *)
ConvBuild ==
    /\ pc = "convBuild"
    /\ \/ pc' = "giveUp" /\ UNCHANGED graph
       \/ graph' = [graph EXCEPT !["naf"] = FreshGraph] /\ pc' = "convAllocate"
    /\ UNCHANGED <<world, model, attempted, closing, call, calls, outcome>>

ConvAllocate ==
    /\ pc = "convAllocate"
    /\ \E p \in Prepared("naf") :
         IF p.ok
         THEN /\ graph' = [graph EXCEPT !["naf"] =
                    [@ EXCEPT !.sched = p.sched, !.mem = Uploaded("naf", Declared("naf"))]]
              /\ pc' = "convCompute" /\ UNCHANGED closing
         ELSE /\ graph' = [graph EXCEPT !["naf"] = [NoGraph EXCEPT !.sched = p.sched]]
              /\ LeaveScope("naf", "giveUp")
    /\ UNCHANGED <<world, model, attempted, call, calls, outcome>>

(* A value that is not finite fails the convolution like a failed graph.   *)
ConvCompute ==
    /\ pc = "convCompute"
    /\ graph' = [graph EXCEPT !["naf"].ctx = FALSE]
    /\ \/ LeaveScope("naf", "giveUp") /\ UNCHANGED call
       \/ /\ CanRun("naf")
          /\ call' = Got("naf")
          /\ LeaveScope("naf", "convolved")
    /\ UNCHANGED <<world, model, attempted, calls, outcome>>

StackOf(engine) == [engine |-> engine, image |-> <<n, NextStage>>]

(* run_stack_gpu: the first stack's convolutions, then the second's.       *)
Convolved ==
    /\ pc = "convolved"
    /\ \/ /\ call.conv < Convs
          /\ call' = [call EXCEPT !.conv = @ + 1] /\ pc' = "convBuild"
       \/ /\ call.conv = Convs
          /\ call' = [call EXCEPT !.conv = 1, !.stack = 2,
                                  !.stacks = Append(@, StackOf("gpu"))]
          /\ pc' = IF call.stack = 1 THEN "convBuild" ELSE "attend"
    /\ UNCHANGED <<world, model, attempted, graph, closing, calls, outcome>>

(* Fault: the CPU computes only the stacks the GPU did not get to.         *)
Fault_OnCpu(done) == [k \in 1..2 |-> IF k \in DOMAIN done THEN done[k] ELSE StackOf("cpu")]

OnCpu(done) == [k \in 1..2 |-> StackOf("cpu")]

(* run_stack twice, from the start.                                        *)
CpuStacks ==
    /\ pc = "cpuStacks"
    /\ call' = [call EXCEPT !.stacks = OnCpu(@)]
    /\ pc' = "attend"
    /\ UNCHANGED <<world, model, attempted, graph, closing, calls, outcome>>

(* Pooling and attention over DINO's patches; NafOutputF32::valid refuses  *)
(* what is not finite.                                                     *)
Attend ==
    /\ pc = "attend"
    /\ pc' \in {"makeStage", "failed"}
    /\ UNCHANGED <<world, model, attempted, graph, closing, call, calls, outcome>>

(* make_pixal3d_condition_stage_f32, and the bundle it goes into.          *)
MakeStage ==
    /\ pc = "makeStage"
    /\ call' = [call EXCEPT !.out = Append(@, [dino |-> call.dino, stacks |-> call.stacks]),
                            !.stack = 1, !.conv = 1, !.stacks = <<>>]
    /\ pc' = "stage"
    /\ UNCHANGED <<world, model, attempted, graph, closing, calls, outcome>>

-----------------------------------------------------------------------------
Next ==
    \/ \E m \in Models :
         \/ Close(m)
         \/ \E full \in BOOLEAN : Load(m, full)
    \/ OpenPack \/ OpenNaf \/ OpenManager \/ AllocateWeights \/ ReadWeights
    \/ FreeFirst \/ FreeGraph \/ FreeBuffer \/ FreeManager \/ CloseDone \/ Failed \/ ScopeEnd
    \/ \E tokens \in Tokens, strength \in Strengths, inside \in Interval :
         Sample(tokens, strength, inside)
    \/ Step \/ Forward \/ FlowBuild \/ FlowAllocate \/ FlowUpload \/ FlowCompute \/ Velocity
    \/ Decode \/ DecoderBuild \/ DecoderAllocate \/ DecoderUpload \/ DecoderCompute \/ Logits
    \/ \E stages \in 1..MaxStages : \E wanted \in [1..stages -> BOOLEAN] : Encode(wanted)
    \/ Stage \/ DinoEnter \/ DinoBuild \/ DinoAllocate \/ DinoCompute
    \/ Features \/ NafEnter \/ NafGpu \/ NafInit \/ NoGpu \/ GiveUp \/ GiveUpManager
    \/ ConvBuild \/ ConvAllocate \/ ConvCompute \/ Convolved
    \/ CpuStacks \/ Attend \/ MakeStage

Spec == Init /\ [][Next]_vars

-----------------------------------------------------------------------------
(* Properties.                                                             *)

Wants(m) == [i \in Declared(m) |-> Value(i)]

(* What a graph computes, it computes from the inputs of the call that     *)
(* reads the result: also when the graph was kept from an earlier call     *)
(* with other tokens, when some inputs are uploaded once per graph, and    *)
(* when the call before it failed half way.  The graph fits the call.      *)
ComputedFromThisCall ==
    /\ pc = "velocity" => call.got = Wants("flow") /\ graph["flow"].tokens = call.tokens
    /\ pc = "logits" => call.got = Wants("decoder")
    /\ pc = "features" => call.got = Wants("dino")
    /\ pc = "convolved" => call.got = Wants("naf")

(* Under gpu:N every graph that is computed has its core operations on     *)
(* that GPU: none runs on the CPU unnoticed (backend.h, the policy).       *)
MandatoryGpu ==
    policy = "gpu" /\ pc \in {"velocity", "logits", "features", "convolved"} =>
        call.on = "primary" /\ device = "gpu"

(* Between calls DINO and NAF have no graph, a kept graph is complete, and *)
(* a model that is not loaded has nothing, whichever step of a load, a     *)
(* build or an allocation failed.                                          *)
NothingLeftOver ==
    pc = "idle" =>
        /\ graph["dino"] = NoGraph /\ graph["naf"] = NoGraph
        /\ \A m \in Keeping : graph[m] = NoGraph \/ (graph[m].ctx /\ graph[m].sched.valid)
        /\ \A m \in Models : model[m].loaded = "no" => model[m] = Closed /\ graph[m] = NoGraph

(* A scheduler whose graph is gone and that nothing uses any more: the     *)
(* local one of a scope that is being left.                                *)
LeftBehind(m) == pc = "scopeEnd" /\ m0 = m

(* A scheduler has backends and weights under it as long as it exists, and *)
(* the context of its graph as long as anything can use it; a scheduler    *)
(* that outlives the context, as ss_flow.cpp, dino_vit.cpp and naf.cpp let *)
(* it, is freed by the next step and never kept for a later call.  NAF's   *)
(* weights are on a GPU that is open.                                      *)
FreedInOrder ==
    /\ \A m \in Models : graph[m].sched.valid => Open(m) /\ model[m].buffer
    /\ \A m \in Models : graph[m].sched.valid => graph[m].ctx \/ LeftBehind(m)
    /\ Ready => model["naf"].manager = "gpu"

(* A condition bundle has the stages asked for, each from its own image,   *)
(* with both NAF stacks of that image from the same engine, however often  *)
(* the GPU was given up and taken up again on the way.                     *)
StagesOfOneImage ==
    outcome.op = "encode" /\ outcome.ok =>
        \A k \in DOMAIN outcome.stages :
            LET s == outcome.stages[k]
            IN  /\ s.dino = <<calls, k>>
                /\ \A i \in DOMAIN s.stacks : s.stacks[i].image = s.dino
                /\ Cardinality({s.stacks[i].engine : i \in DOMAIN s.stacks}) <= 1

(* The cells of a decoded grid are those with a voxel above the threshold, *)
(* as pooling the grid first would give; a grid is only refused for a      *)
(* voxel that is not a number and not hidden behind an occupied one.       *)
CellsPooled ==
    outcome.op = "decode" /\ "grid" \in DOMAIN outcome =>
        LET grid == outcome.grid
            has(c, v) == \E k \in DOMAIN grid[c] : grid[c][k] = v
        IN  /\ outcome.ok => outcome.cells = {c \in DOMAIN grid : has(c, "above")}
            /\ ~outcome.ok => \E c \in DOMAIN grid : has(c, "nan")
            /\ (\E c \in DOMAIN grid : has(c, "nan") /\ ~has(c, "above")) => ~outcome.ok
=============================================================================
