------------------------------ MODULE SlatFlow ------------------------------
(***************************************************************************)
(* The GPU stage of one SLatFlowModel (src/slat_flow.cpp): weights, graph  *)
(* and rotary position tables that outlive a call to forward(), the CPU    *)
(* fallback when anything on the GPU fails, and the order in which it is   *)
(* all given back.                                                         *)
(*                                                                         *)
(* Feature values are not represented.  A set of coordinates is a value of *)
(* Coords; Points says how many there are, which is all the key of the     *)
(* cached graph looks at.                                                  *)
(***************************************************************************)
EXTENDS Integers

CONSTANTS
    Coords,     (* coordinate sets a call may be given *)
    Points,     (* how many points each of them has *)
    Tokens,     (* context lengths a call may be given *)
    MaxSteps,   (* bound: forward() calls of one sample() *)
    None

ASSUME FlowAssumption ==
    /\ Points \in [Coords -> Nat]
    /\ MaxSteps \in Nat \ {0}
    /\ None \notin Coords \cup [points : Nat, tokens : Tokens]

VARIABLES
    policy,       (* PIXAL3D_SLAT_BACKEND *)
    manager,      (* backend_manager holds backends, a GPU first *)
    weights,      (* weights_buffer *)
    scheduler,    (* runtime_scheduler, which holds the graph's buffers *)
    key,          (* runtime_key while runtime_ready *)
    ropeCoords,   (* runtime_rope_coords while runtime_rope_cache_valid *)
    uploaded,     (* runtime_rope_uploaded *)
    ropeOnGpu,    (* whose cosines and sines the graph's inputs hold *)
    step,         (* the next step of the call, "idle" between calls *)
    after,        (* where close_gpu() returns to *)
    call          (* the call: coordinates, context, sampler, calls left *)

stage == <<manager, weights>>
graph == <<scheduler, key, ropeOnGpu>>
rope == <<ropeCoords, uploaded>>
flowVars == <<policy, stage, graph, rope, step, after, call>>

Calls == [coords : Coords, tokens : Tokens, batched : BOOLEAN,
          sampler : BOOLEAN, left : 1..MaxSteps]
Keys == [points : Nat, tokens : Tokens]

FlowSteps == {"idle", "choose", "init", "open", "enter", "rope", "build", "upload",
              "compute", "cpu", "returned", "failed", "closeRuntime", "closeWeights",
              "closeManager"}

FlowTypeOK ==
    /\ policy \in {"auto", "cpu", "gpu", "invalid"}
    /\ manager \in BOOLEAN /\ weights \in BOOLEAN /\ scheduler \in BOOLEAN
    /\ key \in Keys \cup {None}
    /\ ropeCoords \in Coords \cup {None} /\ ropeOnGpu \in Coords \cup {None}
    /\ uploaded \in BOOLEAN
    /\ step \in FlowSteps /\ after \in {"idle", "open", "cpu", "failed"}
    /\ call \in Calls \cup {None}
    /\ step # "idle" => call \in Calls

FlowInit ==
    /\ policy \in {"auto", "cpu", "gpu", "invalid"}
    /\ manager = FALSE /\ weights = FALSE /\ scheduler = FALSE
    /\ key = None /\ ropeCoords = None /\ ropeOnGpu = None /\ uploaded = FALSE
    /\ step = "idle" /\ after = "idle" /\ call = None

-----------------------------------------------------------------------------
(* close_runtime() and close_gpu().                                        *)

(* Fault: the graph goes, but the rotary tables count as uploaded.         *)
Fault_KeepUploaded == ropeCoords' = ropeCoords /\ uploaded' = uploaded

ForgetRope == ropeCoords' = None /\ uploaded' = FALSE

CloseRuntime ==
    /\ scheduler' = FALSE /\ key' = None /\ ropeOnGpu' = None
    /\ ForgetRope

(* Fault: the graph is left to be freed after the backends.                *)
Fault_WeightsFirst(to) == step' = "closeWeights" /\ after' = to

CloseGpu(to) == step' = "closeRuntime" /\ after' = to

FreeRuntime ==
    /\ step = "closeRuntime"
    /\ CloseRuntime
    /\ step' = "closeWeights"
    /\ UNCHANGED <<policy, stage, after, call>>

FreeWeights ==
    /\ step = "closeWeights"
    /\ weights' = FALSE
    /\ step' = "closeManager"
    /\ UNCHANGED <<policy, manager, graph, rope, after, call>>

CloseManager ==
    /\ step = "closeManager"
    /\ manager' = FALSE
    /\ step' = after
    /\ UNCHANGED <<policy, weights, graph, rope, after, call>>

-----------------------------------------------------------------------------
(* forward() and sample().                                                 *)

(* A caller makes one call to forward(), or sample() makes several, all    *)
(* with the same coordinates and context, or none if it rejects its own    *)
(* configuration.  Arguments that are refused before that change nothing.  *)
Begin(c) ==
    /\ step = "idle"
    /\ c.sampler \/ c.left = 1
    /\ call' = c
    /\ step' = "choose" \/ (c.sampler /\ step' = "failed")
    /\ UNCHANGED <<policy, stage, graph, rope, after>>

(* The GPU takes calls of batch size 1 only.                               *)
Choose ==
    /\ step = "choose"
    /\ step' = CASE policy = "invalid" -> "failed"
               [] policy \in {"auto", "gpu"} /\ ~call.batched -> "init"
               [] policy = "gpu" /\ call.batched -> "failed"
               [] OTHER -> "cpu"
    /\ UNCHANGED <<policy, stage, graph, rope, after, call>>

(* init_gpu: nothing to do, or start from a closed stage.                  *)
InitGpu ==
    /\ step = "init"
    /\ IF manager /\ weights THEN step' = "enter" /\ UNCHANGED after
                             ELSE CloseGpu("open")
    /\ UNCHANGED <<policy, stage, graph, rope, call>>

(* Fault: the GPU is tried once more instead.                              *)
Fault_TryAgain == CloseGpu("open")

(* A failure on the GPU: close it all, then fail or compute on the CPU.    *)
GiveUp == CloseGpu(IF policy = "gpu" THEN "failed" ELSE "cpu")

(* The backends are opened and the weights uploaded.  Either may fail, the *)
(* weights after the backends are open.                                    *)
OpenGpu ==
    /\ step = "open"
    /\ \/ manager' = TRUE /\ weights' = TRUE /\ step' = "enter" /\ UNCHANGED after
       \/ \E opened \in BOOLEAN : manager' = opened /\ UNCHANGED weights /\ GiveUp
    /\ UNCHANGED <<policy, graph, rope, call>>

(* Fault: the key does not look at the context.                            *)
Fault_AnyContext == [points |-> Points[call.coords],
                     tokens |-> IF key = None THEN call.tokens ELSE key.tokens]

Wanted == [points |-> Points[call.coords], tokens |-> call.tokens]

(* forward_gpu checks its arguments, then drops a graph of another shape.  *)
Enter ==
    /\ step = "enter"
    /\ \/ /\ step' = "rope" /\ UNCHANGED after
          /\ IF key = Wanted THEN UNCHANGED <<graph, rope>> ELSE CloseRuntime
       \/ GiveUp /\ UNCHANGED <<graph, rope>>
    /\ UNCHANGED <<policy, stage, call>>

(* New tables are still to be uploaded.                                    *)
Recomputed == FALSE

(* The rotary tables are computed on the host unless they are there.       *)
Rope ==
    /\ step = "rope"
    /\ IF ropeCoords = call.coords
       THEN UNCHANGED rope
       ELSE ropeCoords' = call.coords /\ uploaded' = Recomputed
    /\ step' = IF key = None THEN "build" ELSE "upload"
    /\ UNCHANGED <<policy, stage, graph, after, call>>

(* A new graph and its buffers.  Giving up before there is a scheduler     *)
(* leaves the tables, giving up after closes the runtime.                  *)
Build ==
    /\ step = "build"
    /\ \/ /\ scheduler' = TRUE /\ key' = Wanted /\ ropeOnGpu' = None
          /\ step' = "upload"
          /\ UNCHANGED <<rope, after>>
       \/ GiveUp /\ (CloseRuntime \/ UNCHANGED <<graph, rope>>)
    /\ UNCHANGED <<policy, stage, call>>

(* The features, the context and, unless they are there, the tables.       *)
Upload ==
    /\ step = "upload"
    /\ ropeOnGpu' = IF uploaded THEN ropeOnGpu ELSE ropeCoords
    /\ uploaded' = TRUE
    /\ step' = "compute"
    /\ UNCHANGED <<policy, stage, scheduler, key, ropeCoords, after, call>>

(* The graph is computed; it, or a non-finite output, may fail.            *)
Compute ==
    /\ step = "compute"
    /\ \/ step' = "returned" /\ UNCHANGED after
       \/ GiveUp
    /\ UNCHANGED <<policy, stage, graph, rope, call>>

(* slat_flow_forward_f32.                                                  *)
OnCpu ==
    /\ step = "cpu"
    /\ step' \in {"returned", "failed"}
    /\ UNCHANGED <<policy, stage, graph, rope, after, call>>

(* Fault: sample() keeps what is on the GPU.                               *)
Fault_KeepStage == step' = "idle" /\ UNCHANGED after

More == call.left > 1

(* The call is over; sample() closes the stage on its way out.             *)
ReturnCall == IF call.sampler THEN CloseGpu("idle") ELSE step' = "idle" /\ UNCHANGED after

(* The sampler goes on after a step that was computed.                     *)
Returned ==
    /\ step = "returned"
    /\ IF More
       THEN call' = [call EXCEPT !.left = @ - 1] /\ step' = "choose" /\ UNCHANGED after
       ELSE ReturnCall /\ UNCHANGED call
    /\ UNCHANGED <<policy, stage, graph, rope>>

FailedCall ==
    /\ step = "failed"
    /\ ReturnCall
    /\ UNCHANGED <<policy, stage, graph, rope, call>>

-----------------------------------------------------------------------------
Step ==
    \/ Choose \/ InitGpu \/ OpenGpu \/ Enter \/ Rope \/ Build \/ Upload \/ Compute
    \/ OnCpu \/ Returned \/ FailedCall
    \/ FreeRuntime \/ FreeWeights \/ CloseManager

FlowNext == Step \/ \E c \in Calls : Begin(c)

FlowSpec == FlowInit /\ [][FlowNext]_flowVars

(* A call is sequential code without a wait of its own.                    *)
SpecRuns == FlowSpec /\ WF_flowVars(Step)

-----------------------------------------------------------------------------
(* Properties.                                                             *)

(* The graph computes with the rotary tables of the coordinates it is      *)
(* given, although they are uploaded once and kept while the graph is      *)
(* reused, rebuilt, failed over or closed.                                 *)
RopeIsCurrent == step = "compute" => ropeOnGpu = call.coords

(* What is computed on the GPU is a graph built for the shapes of this     *)
(* call, with weights, buffers and backends in place.                      *)
GraphFits ==
    step = "compute" =>
        /\ manager /\ weights /\ scheduler
        /\ key = [points |-> Points[call.coords], tokens |-> call.tokens]

(* backend.h: "The manager must outlive this object because it owns the    *)
(* backend handles passed to ggml".                                        *)
ManagerOutlives == scheduler \/ weights => manager

(* "A stage owns its GPU weights only while its sampler is active."        *)
IdleAfterSample ==
    step = "idle" /\ call # None =>
        (call.sampler => ~manager /\ ~weights /\ ~scheduler)

(* A stage gives its GPU back, and in the order its parts need each other. *)
GivenBack == ManagerOutlives /\ IdleAfterSample

(* The CPU takes over a failed call only when the GPU is free, and never   *)
(* under a gpu policy.                                                     *)
CpuAlone == step = "cpu" => policy # "gpu" /\ (call.batched \/ ~(manager \/ weights))

(* Every call returns: fallback and teardown do not go round in circles.   *)
CallsReturn == step # "idle" ~> step = "idle"
=============================================================================
