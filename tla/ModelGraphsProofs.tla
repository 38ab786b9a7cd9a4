--------------------------- MODULE ModelGraphsProofs --------------------------
(***************************************************************************)
(* What ModelGraphs promises, for any number of calls, steps, tokens,      *)
(* convolutions and stages: what a graph computes is computed from the     *)
(* inputs of the call that reads it, on the GPU when the policy asks for   *)
(* one, what a call made is freed in order and to the end, and each stage  *)
(* of a bundle is made of one image.                                       *)
(***************************************************************************)
EXTENDS ModelGraphs, FiniteSetTheorems, TLAPS

Tearing == {"freeFirst", "freeGraph", "freeBuffer", "freeManager"}
Loading == {"openPack", "openNaf", "openManager", "allocateWeights", "readWeights"}
Flowing == {"step", "forward", "flowBuild", "flowAllocate", "flowUpload", "flowCompute",
            "velocity"}
Decoding == {"decoderBuild", "decoderAllocate", "decoderUpload", "decoderCompute", "logits"}
WithDino == {"dinoBuild", "dinoAllocate", "dinoCompute", "features"}
Convolving == {"convBuild", "convAllocate", "convCompute", "convolved"}
WithNaf == Convolving \cup {"nafGpu", "nafInit", "noGpu", "giveUp", "giveUpManager", "cpuStacks"}
Encoding == WithDino \cup WithNaf \cup {"stage", "dinoEnter", "nafEnter", "attend", "makeStage"}

(* Where control is, or will be when the closing under way has ended.      *)
Ending == pc \in Tearing \cup {"scopeEnd"}
Resume == IF Ending THEN closing.after ELSE pc

(* The shapes of the variables.                                            *)
Typing ==
    /\ policy \in {"auto", "cpu", "gpu"} /\ device \in {"cpu", "gpu"}
    /\ supported \in BOOLEAN
    /\ DOMAIN model = Models
    /\ \A m \in Models :
         /\ DOMAIN model[m] = {"loaded", "proj", "manager", "ctx", "buffer"}
         /\ model[m].loaded \in {"no", "meta", "data"}
         /\ model[m].manager \in {"closed", "cpu", "gpu"}
         /\ model[m].buffer \in BOOLEAN
    /\ DOMAIN graph = Models
    /\ \A m \in Models :
         /\ DOMAIN graph[m] = {"ctx", "sched", "tokens", "rope", "mem"}
         /\ graph[m].ctx \in BOOLEAN
         /\ graph[m].sched \in Schedulers
         /\ graph[m].rope \in BOOLEAN

(* What is being closed, and for whom.                                     *)
ClosingFor ==
    /\ Ending => closing.m \in Models /\ closing.all \in BOOLEAN
    /\ pc \in Tearing =>
         \/ /\ closing.all
            /\ closing.after \in {"openPack", "openNaf", "failed", "closed"}
         \/ ~closing.all /\ closing.m = "flow" /\ closing.after = "flowBuild"
         \/ ~closing.all /\ closing.m = "decoder" /\ closing.after = "failed"
    /\ pc \in {"freeBuffer", "freeManager"} => closing.all
    /\ pc = "scopeEnd" =>
         \/ closing.m = "flow" /\ closing.after = "failed"
         \/ closing.m = "dino" /\ closing.after \in {"failed", "features"}
         \/ closing.m = "naf" /\ closing.after \in {"giveUp", "convolved"}

(* The locals a running call has.                                          *)
Locals ==
    /\ Resume \in Loading =>
         /\ call.model \in Models
         /\ call.model = "naf" <=> Resume = "openNaf"
         /\ pc \in Tearing => closing.m = call.model
    /\ Resume \in Flowing =>
         DOMAIN call = {"op", "tokens", "strength", "inside", "step", "todo", "got", "on"}
    /\ Resume \in Decoding => DOMAIN call = {"op", "got", "on"}
    /\ Resume \in Encoding =>
         DOMAIN call = {"op", "wanted", "out", "got", "on", "dino", "stack", "conv", "stacks"}

(* The models a call computes with are loaded, and a loaded one has its    *)
(* backends and its weights.                                               *)
Loadedness ==
    /\ Resume \in Flowing => model["flow"].loaded = "data"
    /\ Resume \in Decoding => model["decoder"].loaded = "data"
    /\ Resume \in WithDino => model["dino"].loaded = "data"
    /\ Resume \in WithNaf => model["naf"].loaded = "data"
    /\ \A m \in Models \ {"naf"} :
         model[m].loaded = "data" =>
           \/ Open(m) /\ model[m].buffer
           \/ pc = "freeManager" /\ closing.m = m
    /\ pc = "allocateWeights" => Open(call.model)
    /\ pc = "readWeights" => Open(call.model) /\ model[call.model].buffer
    /\ pc = "nafInit" => model["naf"].manager = "gpu"
    /\ pc \in Convolving \/ (pc = "scopeEnd" /\ closing.m = "naf") =>
         model["naf"].manager = "gpu" /\ Ready

(* What FreedInOrder needs of the steps between.                           *)
Order ==
    /\ \A m \in Models : graph[m].sched.valid => Open(m) /\ model[m].buffer
    /\ \A m \in Models :
         graph[m].sched.valid => graph[m].ctx \/ (pc = "scopeEnd" /\ closing.m = m)
    /\ Ready => model["naf"].manager = "gpu" /\ pc # "giveUpManager"
    /\ pc \in Tearing \ {"freeFirst"} => ~graph[closing.m].sched.valid
    /\ pc = "freeManager" => ~model[closing.m].buffer
    /\ pc \in {"flowAllocate", "flowUpload", "flowCompute"} => graph["flow"].ctx
    /\ pc \in {"decoderAllocate", "decoderUpload", "decoderCompute"} => graph["decoder"].ctx
    /\ pc \in {"dinoAllocate", "dinoCompute"} => graph["dino"].ctx
    /\ pc \in {"convAllocate", "convCompute"} => graph["naf"].ctx

(* A mandatory GPU: every scheduler requires it, every manager opened it.  *)
OnGpu ==
    Mandatory =>
      /\ \A m \in Models : graph[m].sched.valid => graph[m].sched.required
      /\ \A m \in Models : Open(m) => device = "gpu"
      /\ Resume \in {"velocity", "logits", "features", "convolved"} =>
           call.on = "primary" /\ device = "gpu"

(* Who may have a graph that is not complete, and who may be half loaded.  *)
Holding ==
    /\ pc \in {"freeBuffer", "freeManager"} => graph[closing.m] = NoGraph
    /\ \/ graph["dino"] = NoGraph \/ pc \in {"dinoAllocate", "dinoCompute"}
       \/ pc = "scopeEnd" /\ closing.m = "dino"
    /\ \/ graph["naf"] = NoGraph \/ pc \in {"convAllocate", "convCompute"}
       \/ pc = "scopeEnd" /\ closing.m = "naf"
    /\ \A m \in Keeping :
         \/ graph[m] = NoGraph \/ (graph[m].ctx /\ graph[m].sched.valid)
         \/ m = "flow" /\ pc = "flowAllocate"
         \/ m = "decoder" /\ pc = "decoderAllocate"
         \/ Ending /\ closing.m = m
    /\ \A m \in Models : model[m].loaded = "no" =>
         \/ model[m] = Closed /\ graph[m] = NoGraph
         \/ pc \in Tearing /\ closing.m = m /\ closing.all
         \/ pc \in Loading /\ call.model = m
    /\ pc \in Loading =>
         model[call.model].loaded = "no" /\ graph[call.model] = NoGraph
    /\ pc \in {"openPack", "openNaf"} => model[call.model] = Closed

(* What the inputs hold and what the result was computed from.             *)
Holds(m) == \A i \in Declared(m) : graph[m].mem[i] = Value(i)

Contents ==
    /\ graph["flow"].rope => graph["flow"].mem["rope"] = <<"rope">>
    /\ pc \in {"flowUpload", "flowCompute", "velocity"} => graph["flow"].tokens = call.tokens
    /\ pc = "flowCompute" => Holds("flow")
    /\ pc = "decoderCompute" => Holds("decoder")
    /\ pc = "dinoCompute" => Holds("dino")
    /\ pc = "convCompute" => Holds("naf")
    /\ Resume = "velocity" => call.got = Wants("flow")
    /\ Resume = "logits" => call.got = Wants("decoder")
    /\ Resume = "features" => call.got = Wants("dino")
    /\ Resume = "convolved" => call.got = Wants("naf")

(* The stages a bundle has so far, and the one being made.                 *)
Made == [engine : {"gpu", "cpu"}, image : Seq(Nat)]

OfOneImage(stage, k) ==
    /\ stage.dino = <<calls, k>>
    /\ \A i \in DOMAIN stage.stacks : stage.stacks[i].image = <<calls, k>>
    /\ \A i, j \in DOMAIN stage.stacks : stage.stacks[i].engine = stage.stacks[j].engine

Bundling ==
    /\ calls \in Nat
    /\ Resume \in Encoding =>
         /\ call.out \in Seq([dino : Seq(Nat), stacks : Seq(Made)])
         /\ \A k \in 1..Len(call.out) : OfOneImage(call.out[k], k)
         /\ call.stacks \in Seq(Made)
         /\ \A i \in DOMAIN call.stacks : call.stacks[i].image = <<calls, NextStage>>
    /\ Resume \in {"stage", "dinoEnter", "dinoBuild", "dinoAllocate", "dinoCompute", "features",
                  "nafEnter"} => call.stacks = <<>>
    /\ Resume \in {"features", "nafEnter", "attend", "makeStage"} \cup WithNaf =>
         call.dino = <<calls, NextStage>>
    /\ Resume \in WithNaf => \A i \in DOMAIN call.stacks : call.stacks[i].engine = "gpu"
    /\ Resume \in {"attend", "makeStage"} =>
         \A i, j \in DOMAIN call.stacks : call.stacks[i].engine = call.stacks[j].engine

(* The bundle a call has returned.                                         *)
Told ==
    outcome.op = "encode" /\ outcome.ok =>
        \A k \in DOMAIN outcome.stages : OfOneImage(outcome.stages[k], k)

Inv == Typing /\ ClosingFor /\ Locals /\ Loadedness /\ Order /\ OnGpu /\ Holding /\ Contents

-----------------------------------------------------------------------------
(* What the operators the actions share do.                                *)

LEMMA Tears ==
  ASSUME NEW m \in Models, NEW all \in BOOLEAN, NEW after, Closing(m, all, after)
  PROVE  /\ pc' = "freeFirst" /\ closing'.m = m /\ closing'.after = after
         /\ closing'.all = all /\ closing'.all \in BOOLEAN
BY DEF Closing

LEMMA LeavesScope ==
  ASSUME NEW m \in Models, NEW after, LeaveScope(m, after)
  PROVE  /\ pc' = "scopeEnd" /\ closing'.m = m /\ closing'.after = after
         /\ closing'.all = FALSE /\ closing'.all \in BOOLEAN
BY DEF LeaveScope

LEMMA NoGraphHasNothing ==
  /\ DOMAIN NoGraph = {"ctx", "sched", "tokens", "rope", "mem"}
  /\ NoGraph.ctx = FALSE /\ NoGraph.rope = FALSE /\ NoGraph.sched = NoScheduler
  /\ NoGraph.sched.valid = FALSE /\ NoScheduler \in Schedulers
  /\ NoScheduler.valid = FALSE
BY DEF NoGraph, NoScheduler, Schedulers, Placements

LEMMA SameScheduler ==
  ASSUME NEW r, NEW a, NEW b, NEW c, NEW d, NEW e,
         r = [ctx |-> a, sched |-> b, tokens |-> c, rope |-> d, mem |-> e]
  PROVE  [r EXCEPT !.sched = b] = r
OBVIOUS

LEMMA NothingToFree == FirstFreed(NoGraph) = NoGraph
BY SameScheduler DEF FirstFreed, NoGraph

LEMMA ClosedHasNothing ==
  /\ DOMAIN Closed = {"loaded", "proj", "manager", "ctx", "buffer"}
  /\ Closed.loaded = "no" /\ Closed.manager = "closed" /\ Closed.buffer = FALSE
BY DEF Closed

LEMMA FreshGraphHasItsContext ==
  /\ DOMAIN FreshGraph = {"ctx", "sched", "tokens", "rope", "mem"}
  /\ FreshGraph.ctx = TRUE /\ FreshGraph.rope = FALSE /\ FreshGraph.sched = NoScheduler
  /\ FreshGraph.sched.valid = FALSE
BY NoGraphHasNothing DEF FreshGraph

(* A scheduler that was prepared is over backends that are open, and       *)
(* requires its operations on the primary one when that is mandatory.      *)
LEMMA PreparedScheduler ==
  ASSUME NEW m, NEW p \in Prepared(m)
  PROVE  /\ p.ok \in BOOLEAN /\ p.sched \in Schedulers
         /\ p.sched.valid => Open(m)
         /\ p.sched.valid /\ Mandatory => p.sched.required
         /\ p.ok => p.sched.valid
<1>1. PICK s \in Constructed(Open(m)) :
        p \in Allocated(IF Mandatory THEN RequirePrimary(s) ELSE s, Mandatory, supported)
  BY DEF Prepared
<1>2. /\ s \in Schedulers /\ s.placed = "none"
      /\ s.valid => Open(m)
  <2>1. CASE s = NoScheduler
    BY <2>1 DEF NoScheduler, Schedulers, Placements
  <2>2. CASE \E o \in {TRUE} \cap {Open(m)} : s = [NoScheduler EXCEPT !.valid = TRUE]
    <3>1. Open(m)
      BY <2>2 DEF Open
    <3> QED
      BY <2>2, <3>1 DEF NoScheduler, Schedulers, Placements
  <2> QED
    BY <1>1, <2>1, <2>2 DEF Constructed
<1> DEFINE r == IF Mandatory THEN RequirePrimary(s) ELSE s
<1>3. /\ r \in Schedulers
      /\ r.valid => Open(m)
      /\ r.valid /\ Mandatory => r.required
  BY <1>2 DEF RequirePrimary, Schedulers
<1> HIDE DEF r
<1>4. CASE p = [ok |-> FALSE, sched |-> r]
  BY <1>3, <1>4
<1>5. CASE \E t \in {u \in {[r EXCEPT !.placed = q] : q \in Placements} :
                       r.valid /\ Preflight(r, Mandatory, supported)} :
             p = [ok |-> PlacedRight(t, Mandatory), sched |-> t]
  <2>1. PICK q \in Placements : 
          /\ p = [ok |-> PlacedRight([r EXCEPT !.placed = q], Mandatory),
                  sched |-> [r EXCEPT !.placed = q]]
          /\ r.valid
    BY <1>5
  <2>2. /\ p.sched \in Schedulers
        /\ p.sched.valid = r.valid /\ p.sched.required = r.required
    BY <1>3, <2>1 DEF Schedulers
  <2>3. p.ok \in BOOLEAN
    BY <2>1 DEF PlacedRight
  <2> QED
    BY <1>3, <2>1, <2>2, <2>3
<1> QED
  BY <1>1, <1>4, <1>5 DEF Allocated, r

(* What is computed was allocated, and where it is required.               *)
LEMMA WhereItRan ==
  ASSUME NEW m \in Models, Inv, CanRun(m)
  PROVE  /\ graph[m].sched.valid
         /\ Mandatory => graph[m].sched.placed = "primary" /\ device = "gpu"
BY DEF Inv, OnGpu, Order, CanRun, CanCompute, PlacedRight

(* How the type of one graph, or of one model, makes that of them all.     *)
LEMMA OneGraph ==
  ASSUME Typing, NEW m \in Models, NEW g, graph' = [graph EXCEPT ![m] = g],
         DOMAIN g = {"ctx", "sched", "tokens", "rope", "mem"},
         g.ctx \in BOOLEAN, g.sched \in Schedulers, g.rope \in BOOLEAN,
         UNCHANGED <<world, model>>
  PROVE  /\ Typing' /\ graph'[m] = g
         /\ \A k \in Models : k # m => graph'[k] = graph[k]
BY DEF Typing, world

LEMMA OneModel ==
  ASSUME Typing, NEW m \in Models, NEW i, model' = [model EXCEPT ![m] = i],
         DOMAIN i = {"loaded", "proj", "manager", "ctx", "buffer"},
         i.loaded \in {"no", "meta", "data"}, i.manager \in {"closed", "cpu", "gpu"},
         i.buffer \in BOOLEAN, UNCHANGED <<world, graph>>
  PROVE  /\ Typing' /\ model'[m] = i
         /\ \A k \in Models : k # m => model'[k] = model[k]
BY DEF Typing, world

(* The actions with the most outcomes, by what they leave.                 *)
LEMMA Opens ==
  ASSUME Inv, OpenPack
  PROVE  /\ call.model \in Models \ {"naf"} /\ Typing' /\ UNCHANGED <<world, graph, calls>>
         /\ \A k \in Models : k # call.model => model'[k] = model[k]
         /\ \/ /\ Closing(call.model, TRUE, "failed")
               /\ UNCHANGED <<model, call>>
            \/ /\ pc' = "openManager" /\ call' = call
               /\ model'[call.model].loaded = "no"
               /\ model'[call.model].manager = model[call.model].manager
            \/ /\ pc' = "idle"
               /\ model'[call.model].loaded = "meta"
               /\ model'[call.model].manager = model[call.model].manager
         /\ model'[call.model].manager = "closed"
         /\ model'[call.model].buffer = model[call.model].buffer
<1> DEFINE c == call.model
<1>1. c \in Models \ {"naf"} /\ model[c] = Closed /\ pc = "openPack"
  BY DEF Inv, Locals, Holding, Resume, Ending, Tearing, Loading, OpenPack
<1>2. /\ DOMAIN model[c] = {"loaded", "proj", "manager", "ctx", "buffer"}
      /\ model[c].loaded = "no" /\ model[c].manager = "closed" /\ model[c].buffer = FALSE
  BY <1>1 DEF Closed
<1>3. UNCHANGED <<world, graph, calls>>
  BY DEF OpenPack
<1>4. CASE Closing(c, TRUE, "failed") /\ UNCHANGED <<model, call, outcome>>
  <2>1. Typing'
    BY <1>3, <1>4 DEF Inv, Typing, world
  <2> QED
    BY <1>1, <1>2, <1>3, <1>4, <2>1
<1>5. CASE \E proj \in Projecting(c) :
             LET filled == [model[c] EXCEPT !.ctx = TRUE, !.proj = proj]
             IN  /\ UNCHANGED closing
                 /\ \/ /\ call.full
                       /\ model' = [model EXCEPT ![c] = filled]
                       /\ pc' = "openManager" /\ UNCHANGED <<call, outcome>>
                    \/ /\ ~call.full
                       /\ model' = [model EXCEPT ![c] = [filled EXCEPT !.loaded = "meta"]]
                       /\ Return([op |-> "load", ok |-> TRUE])
  <2>1. PICK proj \in Projecting(c) :
          LET filled == [model[c] EXCEPT !.ctx = TRUE, !.proj = proj]
          IN  \/ /\ model' = [model EXCEPT ![c] = filled]
                 /\ pc' = "openManager" /\ UNCHANGED call
              \/ /\ model' = [model EXCEPT ![c] = [filled EXCEPT !.loaded = "meta"]]
                 /\ pc' = "idle"
    BY <1>5 DEF Return
  <2> DEFINE filled == [model[c] EXCEPT !.ctx = TRUE, !.proj = proj]
  <2> DEFINE meta == [filled EXCEPT !.loaded = "meta"]
  <2>2. /\ DOMAIN filled = {"loaded", "proj", "manager", "ctx", "buffer"}
        /\ filled.loaded = "no" /\ filled.manager = "closed" /\ filled.buffer = FALSE
    BY <1>2
  <2>3. /\ DOMAIN meta = {"loaded", "proj", "manager", "ctx", "buffer"}
        /\ meta.loaded = "meta" /\ meta.manager = "closed" /\ meta.buffer = FALSE
    BY <2>2
  <2> HIDE DEF filled, meta
  <2>4. CASE model' = [model EXCEPT ![c] = filled] /\ pc' = "openManager" /\ UNCHANGED call
    <3>1. Typing' /\ model'[c] = filled /\ \A k \in Models : k # c => model'[k] = model[k]
      BY <1>1, <1>3, <2>2, <2>4, OneModel DEF Inv
    <3> QED
      BY <1>1, <1>2, <1>3, <2>2, <2>4, <3>1
  <2>5. CASE model' = [model EXCEPT ![c] = meta] /\ pc' = "idle"
    <3>1. Typing' /\ model'[c] = meta /\ \A k \in Models : k # c => model'[k] = model[k]
      BY <1>1, <1>3, <2>3, <2>5, OneModel DEF Inv
    <3> QED
      BY <1>1, <1>2, <1>3, <2>3, <2>5, <3>1
  <2> QED
    BY <2>1, <2>4, <2>5 DEF filled, meta
<1> QED
  BY <1>4, <1>5 DEF OpenPack

(* What each of the four allocations leaves of its graph: ready to         *)
(* compute, or only its scheduler, to be freed.                            *)
LEMMA FlowAllocates ==
  ASSUME Inv, FlowAllocate
  PROVE  /\ Typing' /\ UNCHANGED <<world, model, call, calls>>
         /\ \A k \in Models : k # "flow" => graph'[k] = graph[k]
         /\ graph'["flow"].sched.valid =>
              Open("flow") /\ (Mandatory => graph'["flow"].sched.required)
         /\ \/ /\ pc' = "flowUpload" /\ graph'["flow"].sched.valid
               /\ graph'["flow"].tokens = call.tokens
               /\ graph'["flow"].ctx = graph["flow"].ctx
               /\ graph'["flow"].rope = graph["flow"].rope
               /\ graph'["flow"].mem = graph["flow"].mem
            \/ LeaveScope("flow", "failed") /\ graph'["flow"].rope = FALSE
<1>1. PICK p \in Prepared("flow") :
        IF p.ok
        THEN /\ graph' = [graph EXCEPT !["flow"] =
                            [@ EXCEPT !.sched = p.sched, !.tokens = call.tokens]]
             /\ pc' = "flowUpload"
        ELSE /\ graph' = [graph EXCEPT !["flow"] = [NoGraph EXCEPT !.sched = p.sched]]
             /\ LeaveScope("flow", "failed")
  BY DEF FlowAllocate
<1>2. UNCHANGED <<world, model, call, calls>> /\ "flow" \in Models
  BY DEF FlowAllocate, Models
<1>3. /\ p.ok \in BOOLEAN /\ p.sched \in Schedulers
      /\ p.sched.valid => Open("flow")
      /\ p.sched.valid /\ Mandatory => p.sched.required
      /\ p.ok => p.sched.valid
  BY PreparedScheduler
<1> DEFINE kept == [graph["flow"] EXCEPT !.sched = p.sched, !.tokens = call.tokens]
           left == [NoGraph EXCEPT !.sched = p.sched]
<1>4. /\ DOMAIN kept = {"ctx", "sched", "tokens", "rope", "mem"}
      /\ kept.ctx = graph["flow"].ctx /\ kept.rope = graph["flow"].rope
      /\ kept.mem = graph["flow"].mem /\ kept.tokens = call.tokens /\ kept.sched = p.sched
      /\ kept.ctx \in BOOLEAN /\ kept.rope \in BOOLEAN
  BY <1>2 DEF Inv, Typing
<1>5. /\ DOMAIN left = {"ctx", "sched", "tokens", "rope", "mem"}
      /\ left.ctx = FALSE /\ left.rope = FALSE /\ left.sched = p.sched
  BY NoGraphHasNothing
<1> HIDE DEF kept, left
<1>6. CASE p.ok /\ graph' = [graph EXCEPT !["flow"] = kept] /\ pc' = "flowUpload"
  <2>1. /\ Typing' /\ graph'["flow"] = kept
        /\ \A k \in Models : k # "flow" => graph'[k] = graph[k]
    BY <1>2, <1>3, <1>4, <1>6, OneGraph DEF Inv
  <2> QED
    BY <1>2, <1>3, <1>4, <1>6, <2>1
<1>7. CASE graph' = [graph EXCEPT !["flow"] = left] /\ LeaveScope("flow", "failed")
  <2>1. /\ Typing' /\ graph'["flow"] = left
        /\ \A k \in Models : k # "flow" => graph'[k] = graph[k]
    BY <1>2, <1>3, <1>5, <1>7, OneGraph DEF Inv
  <2> QED
    BY <1>2, <1>3, <1>5, <1>7, <2>1
<1> QED
  BY <1>1, <1>3, <1>6, <1>7 DEF kept, left

LEMMA HeldOnce ==
  ASSUME NEW m \in Models, UNCHANGED <<model, call, calls>>, NEW which,
         Declared(m) \subseteq which,
         graph'[m].mem = Uploaded(m, which)
  PROVE  Holds(m)'
<1>1. /\ Declared(m) \subseteq Inputs
      /\ Declared(m)' = Declared(m)
  BY DEF Declared, Inputs, Models
<1>2. \A i \in Inputs : Value(i)' = Value(i)
  BY DEF Value, n, Inputs
<1>3. \A i \in Declared(m) : graph'[m].mem[i] = Value(i)
  BY <1>1 DEF Uploaded
<1> QED
  BY <1>1, <1>2, <1>3 DEF Holds

(* DINO's graph and the one of a convolution of NAF.                       *)
LEMMA LocalAllocates ==
  ASSUME Inv, NEW m \in {"dino", "naf"}, NEW to, NEW back,
         UNCHANGED <<world, model, call, calls>>,
         \E p \in Prepared(m) :
           IF p.ok
           THEN /\ graph' = [graph EXCEPT ![m] =
                      [@ EXCEPT !.sched = p.sched, !.mem = Uploaded(m, Declared(m))]]
                /\ pc' = to
           ELSE /\ graph' = [graph EXCEPT ![m] = [NoGraph EXCEPT !.sched = p.sched]]
                /\ LeaveScope(m, back)
  PROVE  /\ Typing'
         /\ \A k \in Models : k # m => graph'[k] = graph[k]
         /\ graph'[m].sched.valid => Open(m) /\ (Mandatory => graph'[m].sched.required)
         /\ \/ /\ pc' = to /\ graph'[m].sched.valid /\ Holds(m)'
               /\ graph'[m].ctx = graph[m].ctx
            \/ LeaveScope(m, back)
<1>1. PICK p \in Prepared(m) :
        IF p.ok
        THEN /\ graph' = [graph EXCEPT ![m] =
                   [@ EXCEPT !.sched = p.sched, !.mem = Uploaded(m, Declared(m))]]
             /\ pc' = to
        ELSE /\ graph' = [graph EXCEPT ![m] = [NoGraph EXCEPT !.sched = p.sched]]
             /\ LeaveScope(m, back)
  OBVIOUS
<1>2. m \in Models
  BY DEF Models
<1>3. /\ p.ok \in BOOLEAN /\ p.sched \in Schedulers
      /\ p.sched.valid => Open(m)
      /\ p.sched.valid /\ Mandatory => p.sched.required
      /\ p.ok => p.sched.valid
  BY PreparedScheduler
<1> DEFINE kept == [graph[m] EXCEPT !.sched = p.sched, !.mem = Uploaded(m, Declared(m))]
           left == [NoGraph EXCEPT !.sched = p.sched]
<1>4. /\ DOMAIN kept = {"ctx", "sched", "tokens", "rope", "mem"}
      /\ kept.ctx \in BOOLEAN /\ kept.rope \in BOOLEAN
      /\ kept.mem = Uploaded(m, Declared(m)) /\ kept.sched = p.sched
      /\ kept.ctx = graph[m].ctx
  BY <1>2 DEF Inv, Typing
<1>5. /\ DOMAIN left = {"ctx", "sched", "tokens", "rope", "mem"}
      /\ left.ctx = FALSE /\ left.rope = FALSE /\ left.sched = p.sched
  BY NoGraphHasNothing
<1> HIDE DEF kept, left
<1>6. CASE p.ok /\ graph' = [graph EXCEPT ![m] = kept] /\ pc' = to
  <2>1. /\ Typing' /\ graph'[m] = kept
        /\ \A k \in Models : k # m => graph'[k] = graph[k]
    BY <1>2, <1>3, <1>4, <1>6, OneGraph DEF Inv
  <2>2. Holds(m)'
    BY <1>2, <1>4, <2>1, HeldOnce
  <2> QED
    BY <1>2, <1>3, <1>4, <1>6, <2>1, <2>2
<1>7. CASE graph' = [graph EXCEPT ![m] = left] /\ LeaveScope(m, back)
  <2>1. /\ Typing' /\ graph'[m] = left
        /\ \A k \in Models : k # m => graph'[k] = graph[k]
    BY <1>2, <1>3, <1>5, <1>7, OneGraph DEF Inv
  <2> QED
    BY <1>2, <1>3, <1>5, <1>7, <2>1
<1> QED
  BY <1>1, <1>3, <1>6, <1>7 DEF kept, left

LEMMA DinoAllocates ==
  ASSUME Inv, DinoAllocate
  PROVE  /\ Typing' /\ UNCHANGED <<world, model, call, calls>>
         /\ \A k \in Models : k # "dino" => graph'[k] = graph[k]
         /\ graph'["dino"].sched.valid =>
              Open("dino") /\ (Mandatory => graph'["dino"].sched.required)
         /\ \/ /\ pc' = "dinoCompute" /\ graph'["dino"].sched.valid /\ Holds("dino")'
               /\ graph'["dino"].ctx = graph["dino"].ctx
            \/ LeaveScope("dino", "failed")
<1>1. UNCHANGED <<world, model, call, calls>>
  BY DEF DinoAllocate
<1>2. \E p \in Prepared("dino") :
        IF p.ok
        THEN /\ graph' = [graph EXCEPT !["dino"] =
                   [@ EXCEPT !.sched = p.sched, !.mem = Uploaded("dino", Declared("dino"))]]
             /\ pc' = "dinoCompute"
        ELSE /\ graph' = [graph EXCEPT !["dino"] = [NoGraph EXCEPT !.sched = p.sched]]
             /\ LeaveScope("dino", "failed")
  BY DEF DinoAllocate
<1> QED
  BY <1>1, <1>2, LocalAllocates

LEMMA ConvAllocates ==
  ASSUME Inv, ConvAllocate
  PROVE  /\ Typing' /\ UNCHANGED <<world, model, call, calls>>
         /\ \A k \in Models : k # "naf" => graph'[k] = graph[k]
         /\ graph'["naf"].sched.valid =>
              Open("naf") /\ (Mandatory => graph'["naf"].sched.required)
         /\ \/ /\ pc' = "convCompute" /\ graph'["naf"].sched.valid /\ Holds("naf")'
               /\ graph'["naf"].ctx = graph["naf"].ctx
            \/ LeaveScope("naf", "giveUp")
<1>1. UNCHANGED <<world, model, call, calls>>
  BY DEF ConvAllocate
<1>2. \E p \in Prepared("naf") :
        IF p.ok
        THEN /\ graph' = [graph EXCEPT !["naf"] =
                   [@ EXCEPT !.sched = p.sched, !.mem = Uploaded("naf", Declared("naf"))]]
             /\ pc' = "convCompute"
        ELSE /\ graph' = [graph EXCEPT !["naf"] = [NoGraph EXCEPT !.sched = p.sched]]
             /\ LeaveScope("naf", "giveUp")
  BY DEF ConvAllocate
<1> QED
  BY <1>1, <1>2, LocalAllocates

LEMMA DecoderAllocates ==
  ASSUME Inv, DecoderAllocate
  PROVE  /\ Typing' /\ UNCHANGED <<world, model, call, calls>>
         /\ \A k \in Models : k # "decoder" => graph'[k] = graph[k]
         /\ graph'["decoder"].ctx = TRUE
         /\ graph'["decoder"].sched.valid =>
              Open("decoder") /\ (Mandatory => graph'["decoder"].sched.required)
         /\ \/ pc' = "decoderUpload" /\ closing' = closing /\ graph'["decoder"].sched.valid
            \/ Closing("decoder", FALSE, "failed")
<1>1. UNCHANGED <<world, model, call, calls>> /\ "decoder" \in Models
  BY DEF DecoderAllocate, Models
<1>2. PICK p \in Prepared("decoder") :
         /\ graph' = [graph EXCEPT !["decoder"].sched = p.sched]
         /\ IF p.ok THEN pc' = "decoderUpload" /\ UNCHANGED closing ELSE Unallocated
  BY DEF DecoderAllocate
<1>3. /\ p.ok \in BOOLEAN /\ p.sched \in Schedulers
      /\ p.sched.valid => Open("decoder")
      /\ p.sched.valid /\ Mandatory => p.sched.required
      /\ p.ok => p.sched.valid
  BY PreparedScheduler
<1> DEFINE kept == [graph["decoder"] EXCEPT !.sched = p.sched]
<1>4. /\ DOMAIN kept = {"ctx", "sched", "tokens", "rope", "mem"}
      /\ kept.ctx = graph["decoder"].ctx /\ kept.rope = graph["decoder"].rope
      /\ kept.sched = p.sched /\ kept.ctx \in BOOLEAN /\ kept.rope \in BOOLEAN
  BY <1>1 DEF Inv, Typing
<1>5. kept.ctx = TRUE
  BY <1>4 DEF Inv, Order, DecoderAllocate
<1> HIDE DEF kept
<1>6. /\ Typing' /\ graph'["decoder"] = kept
      /\ \A k \in Models : k # "decoder" => graph'[k] = graph[k]
  <2>1. graph' = [graph EXCEPT !["decoder"] = kept]
    BY <1>2 DEF kept
  <2> QED
    BY <1>1, <1>3, <1>4, <2>1, OneGraph DEF Inv
<1>7. \/ pc' = "decoderUpload" /\ closing' = closing /\ p.sched.valid
      \/ Closing("decoder", FALSE, "failed")
  BY <1>2, <1>3 DEF Unallocated
<1> QED
  BY <1>1, <1>3, <1>4, <1>5, <1>6, <1>7

LEMMA ManagerOpens ==
  ASSUME Inv, OpenManager
  PROVE  /\ call.model \in Models \ {"naf"} /\ Typing'
         /\ UNCHANGED <<world, graph, call, calls>>
         /\ \A k \in Models : k # call.model => model'[k] = model[k]
         /\ model'[call.model].loaded = "no"
         /\ \/ Closing(call.model, TRUE, "failed") /\ UNCHANGED model
            \/ /\ pc' = "allocateWeights"
               /\ model'[call.model].manager \in Managers
               /\ model'[call.model].buffer = model[call.model].buffer
<1> DEFINE c == call.model
<1>1. c \in Models \ {"naf"} /\ model[c].loaded = "no" /\ pc = "openManager"
  BY DEF Inv, Locals, Holding, Resume, Ending, Tearing, Loading, OpenManager
<1>2. UNCHANGED <<world, graph, call, calls>>
  BY DEF OpenManager
<1>3. CASE Closing(c, TRUE, "failed") /\ UNCHANGED model
  <2>1. Typing'
    BY <1>2, <1>3 DEF Inv, Typing, world
  <2> QED
    BY <1>1, <1>2, <1>3, <2>1
<1>4. CASE \E b \in Managers :
             model' = [model EXCEPT ![c].manager = b] /\ pc' = "allocateWeights"
  <2>1. PICK b \in Managers :
          model' = [model EXCEPT ![c].manager = b] /\ pc' = "allocateWeights"
    BY <1>4
  <2>2. b \in {"cpu", "gpu"}
    BY <2>1 DEF Managers, Inv, Typing
  <2> DEFINE i == [model[c] EXCEPT !.manager = b]
  <2>3. /\ DOMAIN i = {"loaded", "proj", "manager", "ctx", "buffer"}
        /\ i.loaded = model[c].loaded /\ i.manager = b /\ i.buffer = model[c].buffer
        /\ i.loaded \in {"no", "meta", "data"} /\ i.manager \in {"closed", "cpu", "gpu"}
        /\ i.buffer \in BOOLEAN
    BY <1>1, <2>2 DEF Inv, Typing
  <2>4. model' = [model EXCEPT ![c] = i]
    BY <2>1
  <2> HIDE DEF i
  <2>5. Typing' /\ model'[c] = i /\ \A k \in Models : k # c => model'[k] = model[k]
    BY <1>1, <1>2, <2>3, <2>4, OneModel DEF Inv
  <2> QED
    BY <1>1, <1>2, <2>1, <2>3, <2>5
<1> QED
  BY <1>3, <1>4 DEF OpenManager

LEMMA WeightsAllocated ==
  ASSUME Inv, AllocateWeights
  PROVE  /\ call.model \in Models \ {"naf"} /\ Typing'
         /\ UNCHANGED <<world, graph, call, calls>>
         /\ \A k \in Models : k # call.model => model'[k] = model[k]
         /\ model'[call.model].loaded = "no"
         /\ model'[call.model].manager = model[call.model].manager
         /\ \/ Closing(call.model, TRUE, "failed") /\ UNCHANGED model
            \/ pc' = "readWeights" /\ model'[call.model].buffer = TRUE
<1> DEFINE c == call.model
<1>1. c \in Models \ {"naf"} /\ model[c].loaded = "no" /\ pc = "allocateWeights"
  BY DEF Inv, Locals, Holding, Resume, Ending, Tearing, Loading, AllocateWeights
<1>2. UNCHANGED <<world, graph, call, calls>>
  BY DEF AllocateWeights
<1>3. CASE Closing(c, TRUE, "failed") /\ UNCHANGED model
  <2>1. Typing'
    BY <1>2, <1>3 DEF Inv, Typing, world
  <2> QED
    BY <1>1, <1>2, <1>3, <2>1
<1>4. CASE model' = [model EXCEPT ![c].buffer = TRUE] /\ pc' = "readWeights"
  <2> DEFINE i == [model[c] EXCEPT !.buffer = TRUE]
  <2>1. /\ DOMAIN i = {"loaded", "proj", "manager", "ctx", "buffer"}
        /\ i.loaded = model[c].loaded /\ i.manager = model[c].manager /\ i.buffer = TRUE
        /\ i.loaded \in {"no", "meta", "data"} /\ i.manager \in {"closed", "cpu", "gpu"}
    BY <1>1 DEF Inv, Typing
  <2>2. model' = [model EXCEPT ![c] = i]
    BY <1>4
  <2> HIDE DEF i
  <2>3. Typing' /\ model'[c] = i /\ \A k \in Models : k # c => model'[k] = model[k]
    BY <1>1, <1>2, <2>1, <2>2, OneModel DEF Inv
  <2> QED
    BY <1>1, <1>2, <1>4, <2>1, <2>3
<1> QED
  BY <1>3, <1>4 DEF AllocateWeights

(* A step that changes the graph of one loaded model.                      *)
LEMMA OneHolder ==
  ASSUME Inv, NEW m \in Models, model' = model, model[m].loaded = "data",
         \A k \in Models : k # m => graph'[k] = graph[k],
         ~Ending, pc \notin Loading,
         pc' \notin Loading \cup {"freeBuffer", "freeManager"},
         pc = "flowAllocate" => m = "flow", pc = "decoderAllocate" => m = "decoder",
         pc \in {"dinoAllocate", "dinoCompute"} => m = "dino",
         pc \in {"convAllocate", "convCompute"} => m = "naf",
         \/ graph'[m] = NoGraph
         \/ m = "flow" /\ pc' = "flowAllocate"
         \/ m = "decoder" /\ pc' = "decoderAllocate"
         \/ m = "dino" /\ pc' \in {"dinoAllocate", "dinoCompute"}
         \/ m = "naf" /\ pc' \in {"convAllocate", "convCompute"}
         \/ m \in Keeping /\ graph'[m].ctx /\ graph'[m].sched.valid
         \/ m \in Keeping /\ pc' \in {"freeFirst", "scopeEnd"} /\ closing'.m = m
         \/ pc' = "scopeEnd" /\ closing'.m = m
  PROVE  Holding'
<1>1. ~Ending /\ pc \notin Tearing
  BY DEF Ending
<1>2. /\ \/ graph'["dino"] = NoGraph \/ pc' \in {"dinoAllocate", "dinoCompute"}
         \/ pc' = "scopeEnd" /\ closing'.m = "dino"
      /\ \/ graph'["naf"] = NoGraph \/ pc' \in {"convAllocate", "convCompute"}
         \/ pc' = "scopeEnd" /\ closing'.m = "naf"
  BY <1>1 DEF Inv, Holding, Models, Keeping, Ending
<1>3. \A k \in Keeping :
        \/ graph'[k] = NoGraph \/ (graph'[k].ctx /\ graph'[k].sched.valid)
        \/ k = "flow" /\ pc' = "flowAllocate"
        \/ k = "decoder" /\ pc' = "decoderAllocate"
        \/ Ending' /\ closing'.m = k
  BY <1>1 DEF Inv, Holding, Models, Keeping, Ending, Tearing
<1>4. \A k \in Models : model'[k].loaded = "no" => model'[k] = Closed /\ graph'[k] = NoGraph
  BY <1>1 DEF Inv, Holding
<1>5. pc' \notin {"openPack", "openNaf"}
  BY DEF Loading
<1> QED
  BY <1>2, <1>3, <1>4, <1>5 DEF Holding

LEMMA SameWants ==
  ASSUME NEW m \in Models, UNCHANGED <<model, calls>>,
         \A i \in Declared(m) : Value(i)' = Value(i)
  PROVE  Wants(m)' = Wants(m)
<1>1. Declared(m)' = Declared(m)
  BY DEF Declared, Models
<1> QED
  BY <1>1 DEF Wants

(* A result read from inputs that hold what the call wants.                *)
LEMMA Reads ==
  ASSUME NEW m \in Models, UNCHANGED <<model, calls>>, Holds(m),
         \A i \in Declared(m) : Value(i)' = Value(i), call'.got = Result(m)
  PROVE  call'.got = Wants(m)'
<1>1. Result(m) = Wants(m)
  BY DEF Holds, Result, Wants
<1> QED
  BY <1>1, SameWants

(* The steps that only go on, with their locals, or return.                *)
Move ==
    \/ CloseDone \/ Failed \/ Step \/ Velocity \/ Logits \/ Stage \/ DinoEnter \/ Features
    \/ NafEnter \/ NoGpu \/ Convolved \/ CpuStacks \/ Attend \/ MakeStage

LEMMA Moves ==
  ASSUME Inv, Move
  PROVE  /\ UNCHANGED <<world, model, graph>>
         /\ ~Ending /\ ~Ending' /\ pc \notin Loading
         /\ pc \notin {"flowAllocate", "decoderAllocate", "dinoAllocate", "dinoCompute",
                       "convAllocate", "convCompute"}
         /\ pc' \in {"idle", "failed", "step", "forward", "stage", "dinoEnter", "dinoBuild",
                     "nafEnter", "nafGpu", "cpuStacks", "giveUp", "convBuild", "attend",
                     "makeStage"}
         /\ pc' \in {"step", "forward"} => model["flow"].loaded = "data"
         /\ pc' = "dinoBuild" => model["dino"].loaded = "data"
         /\ pc' \in {"nafGpu", "cpuStacks", "giveUp", "convBuild"} =>
              model["naf"].loaded = "data"
         /\ pc' = "convBuild" => pc = "convolved"
<1> USE DEF Ending, Tearing, Loading
<1>1. CASE CloseDone \/ Failed \/ Logits
  BY <1>1 DEF CloseDone, Failed, Logits, Fail, Return
<1>2. CASE Step
  BY <1>2 DEF Step, Return, Inv, Loadedness, Resume, Flowing
<1>3. CASE Velocity
  BY <1>3 DEF Velocity, Inv, Loadedness, Resume, Flowing
<1>4. CASE Stage
  BY <1>4 DEF Stage, Return
<1>5. CASE DinoEnter \/ Features \/ Attend \/ MakeStage
  BY <1>5 DEF DinoEnter, Features, Attend, MakeStage
<1>6. CASE NafEnter
  BY <1>6 DEF NafEnter
<1>7. CASE NoGpu
  BY <1>7 DEF NoGpu, Inv, Loadedness, Resume, WithNaf
<1>8. CASE Convolved
  BY <1>8 DEF Convolved, Inv, Loadedness, Resume, WithNaf, Convolving
<1>9. CASE CpuStacks
  BY <1>9 DEF CpuStacks
<1> QED
  BY <1>1, <1>2, <1>3, <1>4, <1>5, <1>6, <1>7, <1>8, <1>9 DEF Move

(* Every variable keeps its shape.                                         *)
LEMMA TypingKept == ASSUME Inv, [Next]_vars PROVE Typing'
<1>1. CASE \E m \in Models : Close(m)
  BY <1>1 DEF Inv, Close, Typing, world, Models, Begin
<1>2. CASE \E m \in Models, full \in BOOLEAN : Load(m, full)
  BY <1>2 DEF Inv, Load, Typing, world, Models, Begin
<1>3. CASE \E tokens, strength, inside : Sample(tokens, strength, inside)
  BY <1>3 DEF Inv, Sample, Typing, world, Models, Begin
<1>4. CASE Decode
  BY <1>4 DEF Inv, Decode, Typing, world, Models, Begin
<1>5. CASE \E wanted : Encode(wanted)
  BY <1>5 DEF Inv, Encode, Typing, world, Models, Begin
<1>6. CASE OpenPack
  BY <1>6, Opens
<1>7. CASE OpenNaf
  BY <1>7 DEF Inv, OpenNaf, Typing, world, Models, Loaded, ClosingFor, Locals,
     Loading, Resume, Ending, Tearing, Return, Closing
<1>8. CASE OpenManager
  BY <1>8, ManagerOpens
<1>9. CASE AllocateWeights
  BY <1>9, WeightsAllocated
<1>10. CASE ReadWeights
  BY <1>10 DEF Inv, ReadWeights, Typing, world, Models, Loaded, ClosingFor, Locals,
     Loading, Resume, Ending, Tearing, Return, Closing
<1>11. CASE FreeFirst
  <2> DEFINE g == [graph[closing.m] EXCEPT !.sched = NoScheduler]
  <2>1. closing.m \in Models /\ UNCHANGED <<world, model>>
    BY <1>11 DEF FreeFirst, Inv, ClosingFor, Ending, Tearing
  <2>2. graph' = [graph EXCEPT ![closing.m] = g]
    BY <1>11 DEF FreeFirst, m0, FirstFreed
  <2>3. /\ DOMAIN g = {"ctx", "sched", "tokens", "rope", "mem"}
        /\ g.ctx \in BOOLEAN /\ g.sched \in Schedulers /\ g.rope \in BOOLEAN
    BY <2>1, NoGraphHasNothing DEF Inv, Typing
  <2> HIDE DEF g
  <2> QED
    BY <2>1, <2>2, <2>3, OneGraph DEF Inv
<1>12. CASE FreeGraph
  <2>1. closing.m \in Models /\ UNCHANGED <<world, model>>
    BY <1>12 DEF FreeGraph, Inv, ClosingFor, Ending, Tearing
  <2>2. graph' = [graph EXCEPT ![closing.m] = NoGraph]
    BY <1>12 DEF FreeGraph, m0, Freed
  <2> QED
    BY <2>1, <2>2, OneGraph, NoGraphHasNothing DEF Inv
<1>13. CASE FreeBuffer
  <2> DEFINE i == [model[closing.m] EXCEPT !.buffer = FALSE]
  <2>1. closing.m \in Models /\ UNCHANGED <<world, graph>>
    BY <1>13 DEF FreeBuffer, Inv, ClosingFor, Ending, Tearing
  <2>2. model' = [model EXCEPT ![closing.m] = i]
    BY <1>13 DEF FreeBuffer, m0
  <2>3. /\ DOMAIN i = {"loaded", "proj", "manager", "ctx", "buffer"}
        /\ i.loaded \in {"no", "meta", "data"} /\ i.manager \in {"closed", "cpu", "gpu"}
        /\ i.buffer \in BOOLEAN
    BY <2>1 DEF Inv, Typing
  <2> HIDE DEF i
  <2> QED
    BY <2>1, <2>2, <2>3, OneModel DEF Inv
<1>14. CASE FreeManager
  <2>1. closing.m \in Models /\ UNCHANGED <<world, graph>>
    BY <1>14 DEF FreeManager, Inv, ClosingFor, Ending, Tearing
  <2>2. model' = [model EXCEPT ![closing.m] = Closed]
    BY <1>14 DEF FreeManager, m0
  <2> QED
    BY <2>1, <2>2, OneModel, ClosedHasNothing DEF Inv
<1>15. CASE ScopeEnd
  <2>1. closing.m \in Models /\ UNCHANGED <<world, model>>
    BY <1>15 DEF ScopeEnd, Inv, ClosingFor, Ending, Tearing
  <2>2. graph' = [graph EXCEPT ![closing.m] = NoGraph]
    BY <1>15 DEF ScopeEnd, m0, Freed
  <2> QED
    BY <2>1, <2>2, OneGraph, NoGraphHasNothing DEF Inv
<1>16. CASE Forward
  BY <1>16 DEF Inv, Forward, Typing, world, Models
<1>17. CASE FlowBuild
  <2>1. UNCHANGED <<world, model>> /\ "flow" \in Models
    BY <1>17 DEF FlowBuild, Models
  <2>2. CASE graph' = graph
    BY <2>1, <2>2 DEF Inv, Typing, world
  <2>3. CASE graph' = [graph EXCEPT !["flow"] = FreshGraph]
    BY <2>1, <2>3, OneGraph, FreshGraphHasItsContext, NoGraphHasNothing DEF Inv
  <2> QED
    BY <1>17, <2>2, <2>3 DEF FlowBuild
<1>18. CASE FlowAllocate
  BY <1>18, FlowAllocates
<1>19. CASE FlowUpload
  BY <1>19 DEF Inv, FlowUpload, Typing, world, Models
<1>20. CASE FlowCompute
  BY <1>20 DEF Inv, FlowCompute, Typing, world, Models
<1>21. CASE DecoderBuild
  <2>1. UNCHANGED <<world, model>> /\ "decoder" \in Models
    BY <1>21 DEF DecoderBuild, Models
  <2>2. CASE graph' = graph
    BY <2>1, <2>2 DEF Inv, Typing, world
  <2>3. CASE graph' = [graph EXCEPT !["decoder"] = FreshGraph]
    BY <2>1, <2>3, OneGraph, FreshGraphHasItsContext, NoGraphHasNothing DEF Inv
  <2> QED
    BY <1>21, <2>2, <2>3 DEF DecoderBuild
<1>22. CASE DecoderAllocate
  BY <1>22, DecoderAllocates
<1>23. CASE DecoderUpload
  BY <1>23 DEF Inv, DecoderUpload, Typing, world, Models
<1>24. CASE DecoderCompute
  BY <1>24 DEF Inv, DecoderCompute, Typing, world, Models
<1>25. CASE DinoBuild
  <2>1. UNCHANGED <<world, model>> /\ "dino" \in Models
    BY <1>25 DEF DinoBuild, Models
  <2>2. CASE graph' = graph
    BY <2>1, <2>2 DEF Inv, Typing, world
  <2>3. CASE graph' = [graph EXCEPT !["dino"] = FreshGraph]
    BY <2>1, <2>3, OneGraph, FreshGraphHasItsContext, NoGraphHasNothing DEF Inv
  <2> QED
    BY <1>25, <2>2, <2>3 DEF DinoBuild
<1>26. CASE DinoAllocate
  BY <1>26, DinoAllocates
<1>27. CASE DinoCompute
  BY <1>27 DEF Inv, DinoCompute, Typing, world, Models
<1>28. CASE NafGpu
  BY <1>28 DEF Inv, NafGpu, Typing, world, Models, Managers
<1>29. CASE NafInit
  BY <1>29 DEF Inv, NafInit, Typing, world, Models
<1>30. CASE GiveUp
  BY <1>30 DEF Inv, GiveUp, Typing, world, Models, WithoutGpu
<1>31. CASE GiveUpManager
  BY <1>31 DEF Inv, GiveUpManager, Typing, world, Models
<1>32. CASE ConvBuild
  <2>1. UNCHANGED <<world, model>> /\ "naf" \in Models
    BY <1>32 DEF ConvBuild, Models
  <2>2. CASE graph' = graph
    BY <2>1, <2>2 DEF Inv, Typing, world
  <2>3. CASE graph' = [graph EXCEPT !["naf"] = FreshGraph]
    BY <2>1, <2>3, OneGraph, FreshGraphHasItsContext, NoGraphHasNothing DEF Inv
  <2> QED
    BY <1>32, <2>2, <2>3 DEF ConvBuild
<1>33. CASE ConvAllocate
  BY <1>33, ConvAllocates
<1>34. CASE ConvCompute
  BY <1>34 DEF Inv, ConvCompute, Typing, world, Models
<1>35. CASE Move
  BY <1>35, Moves DEF Inv, Typing, world
<1>36. CASE UNCHANGED vars
  BY <1>36 DEF Inv, vars, Typing, world, Models
<1> QED
  BY <1>1, <1>2, <1>3, <1>4, <1>5, <1>6, <1>7, <1>8, <1>9, <1>10, <1>11, <1>12, <1>13,
     <1>14, <1>15, <1>16, <1>17, <1>18, <1>19, <1>20, <1>21, <1>22, <1>23, <1>24,
     <1>25, <1>26, <1>27, <1>28, <1>29, <1>30, <1>31, <1>32, <1>33, <1>34, <1>35,
     <1>36 DEF Next, Move

(* A closing is one of those the code starts.                              *)
LEMMA ClosingForKept == ASSUME Inv, [Next]_vars PROVE ClosingFor'
<1>1. CASE \E m \in Models : Close(m)
  BY <1>1 DEF Inv, Close, ClosingFor, Ending, Tearing, Begin, Models
<1>2. CASE \E m \in Models, full \in BOOLEAN : Load(m, full)
  BY <1>2 DEF Inv, Load, ClosingFor, Ending, Tearing, Begin, Models
<1>3. CASE \E tokens, strength, inside : Sample(tokens, strength, inside)
  BY <1>3 DEF Inv, Sample, ClosingFor, Ending, Tearing, Begin
<1>4. CASE Decode
  BY <1>4 DEF Inv, Decode, ClosingFor, Ending, Tearing, Begin
<1>5. CASE \E wanted : Encode(wanted)
  BY <1>5 DEF Inv, Encode, ClosingFor, Ending, Tearing, Begin
<1>6. CASE OpenPack
  <2>1. call.model \in Models
    BY <1>6, Opens
  <2>2. CASE Closing(call.model, TRUE, "failed")
    BY <2>1, <2>2, Tears DEF ClosingFor, Ending, Tearing
  <2>3. CASE pc' \in {"openManager", "idle"}
    BY <2>3 DEF ClosingFor, Ending, Tearing
  <2> QED
    BY <1>6, <2>2, <2>3, Opens
<1>7. CASE OpenNaf
  <2>1. CASE Closing("naf", TRUE, "failed")
    BY <2>1, Tears DEF ClosingFor, Ending, Tearing, Models
  <2>2. CASE pc' \in {"idle"}
    BY <2>2 DEF ClosingFor, Ending, Tearing
  <2> QED
    BY <1>7, <2>1, <2>2 DEF OpenNaf, Loaded, Return
<1>8. CASE OpenManager
  <2>0. call.model \in Models
    BY <1>8, ManagerOpens
  <2>1. CASE Closing(call.model, TRUE, "failed")
    BY <2>1, <2>0, Tears DEF ClosingFor, Ending, Tearing, Models
  <2>2. CASE pc' \in {"allocateWeights"}
    BY <2>2 DEF ClosingFor, Ending, Tearing
  <2> QED
    BY <1>8, <2>1, <2>2, ManagerOpens
<1>9. CASE AllocateWeights
  <2>0. call.model \in Models
    BY <1>9, WeightsAllocated
  <2>1. CASE Closing(call.model, TRUE, "failed")
    BY <2>1, <2>0, Tears DEF ClosingFor, Ending, Tearing, Models
  <2>2. CASE pc' \in {"readWeights"}
    BY <2>2 DEF ClosingFor, Ending, Tearing
  <2> QED
    BY <1>9, <2>1, <2>2, WeightsAllocated
<1>10. CASE ReadWeights
  <2>0. call.model \in Models
    BY <1>10 DEF ReadWeights, Inv, Locals, Resume, Ending, Tearing, Loading
  <2>1. CASE Closing(call.model, TRUE, "failed")
    BY <2>1, <2>0, Tears DEF ClosingFor, Ending, Tearing, Models
  <2>2. CASE pc' \in {"idle"}
    BY <2>2 DEF ClosingFor, Ending, Tearing
  <2> QED
    BY <1>10, <2>1, <2>2 DEF ReadWeights, Loaded, Return
<1>11. CASE FreeFirst
  BY <1>11 DEF Inv, FreeFirst, ClosingFor, Ending, Tearing
<1>12. CASE FreeGraph
  BY <1>12 DEF Inv, FreeGraph, ClosingFor, Ending, Tearing
<1>13. CASE FreeBuffer
  BY <1>13 DEF Inv, FreeBuffer, ClosingFor, Ending, Tearing
<1>14. CASE FreeManager
  BY <1>14 DEF Inv, FreeManager, ClosingFor, Ending, Tearing
<1>15. CASE ScopeEnd
  BY <1>15 DEF Inv, ScopeEnd, ClosingFor, Ending, Tearing
<1>16. CASE Forward
  <2>1. CASE Closing("flow", FALSE, "flowBuild")
    BY <2>1, Tears DEF ClosingFor, Ending, Tearing, Models
  <2>2. CASE pc' \in {"flowUpload"}
    BY <2>2 DEF ClosingFor, Ending, Tearing
  <2> QED
    BY <1>16, <2>1, <2>2 DEF Forward
<1>17. CASE FlowBuild
  BY <1>17 DEF Inv, FlowBuild, ClosingFor, Ending, Tearing
<1>18. CASE FlowAllocate
  <2>1. CASE LeaveScope("flow", "failed")
    BY <2>1, LeavesScope DEF ClosingFor, Ending, Tearing, Models
  <2>9. CASE pc' = "flowUpload"
    BY <2>9 DEF ClosingFor, Ending, Tearing
  <2> QED
    BY <1>18, <2>1, <2>9, FlowAllocates
<1>19. CASE FlowUpload
  BY <1>19 DEF Inv, FlowUpload, ClosingFor, Ending, Tearing
<1>20. CASE FlowCompute
  BY <1>20 DEF Inv, FlowCompute, ClosingFor, Ending, Tearing
<1>21. CASE DecoderBuild
  <2>1. CASE Closing("decoder", FALSE, "failed")
    BY <2>1, Tears DEF ClosingFor, Ending, Tearing, Models
  <2>2. CASE pc' \in {"failed", "decoderAllocate"}
    BY <2>2 DEF ClosingFor, Ending, Tearing
  <2> QED
    BY <1>21, <2>1, <2>2 DEF DecoderBuild
<1>22. CASE DecoderAllocate
  <2>1. CASE Closing("decoder", FALSE, "failed")
    BY <2>1, Tears DEF ClosingFor, Ending, Tearing, Models
  <2>2. CASE pc' \in {"decoderUpload"}
    BY <2>2 DEF ClosingFor, Ending, Tearing
  <2> QED
    BY <1>22, <2>1, <2>2, DecoderAllocates
<1>23. CASE DecoderUpload
  BY <1>23 DEF Inv, DecoderUpload, ClosingFor, Ending, Tearing
<1>24. CASE DecoderCompute
  BY <1>24 DEF Inv, DecoderCompute, ClosingFor, Ending, Tearing
<1>25. CASE DinoBuild
  BY <1>25 DEF Inv, DinoBuild, ClosingFor, Ending, Tearing
<1>26. CASE DinoAllocate
  <2>1. CASE LeaveScope("dino", "failed")
    BY <2>1, LeavesScope DEF ClosingFor, Ending, Tearing, Models
  <2>9. CASE pc' = "dinoCompute"
    BY <2>9 DEF ClosingFor, Ending, Tearing
  <2> QED
    BY <1>26, <2>1, <2>9, DinoAllocates
<1>27. CASE DinoCompute
  <2>1. CASE LeaveScope("dino", "failed")
    BY <2>1, LeavesScope DEF ClosingFor, Ending, Tearing, Models
  <2>2. CASE LeaveScope("dino", "features")
    BY <2>2, LeavesScope DEF ClosingFor, Ending, Tearing, Models
  <2> QED
    BY <1>27, <2>1, <2>2 DEF DinoCompute
<1>28. CASE NafGpu
  BY <1>28 DEF Inv, NafGpu, ClosingFor, Ending, Tearing
<1>29. CASE NafInit
  BY <1>29 DEF Inv, NafInit, ClosingFor, Ending, Tearing
<1>30. CASE GiveUp
  BY <1>30 DEF Inv, GiveUp, ClosingFor, Ending, Tearing
<1>31. CASE GiveUpManager
  BY <1>31 DEF Inv, GiveUpManager, ClosingFor, Ending, Tearing
<1>32. CASE ConvBuild
  BY <1>32 DEF Inv, ConvBuild, ClosingFor, Ending, Tearing
<1>33. CASE ConvAllocate
  <2>1. CASE LeaveScope("naf", "giveUp")
    BY <2>1, LeavesScope DEF ClosingFor, Ending, Tearing, Models
  <2>9. CASE pc' = "convCompute"
    BY <2>9 DEF ClosingFor, Ending, Tearing
  <2> QED
    BY <1>33, <2>1, <2>9, ConvAllocates
<1>34. CASE ConvCompute
  <2>1. CASE LeaveScope("naf", "giveUp")
    BY <2>1, LeavesScope DEF ClosingFor, Ending, Tearing, Models
  <2>2. CASE LeaveScope("naf", "convolved")
    BY <2>2, LeavesScope DEF ClosingFor, Ending, Tearing, Models
  <2> QED
    BY <1>34, <2>1, <2>2 DEF ConvCompute
<1>35. CASE Move
  BY <1>35, Moves DEF ClosingFor, Ending, Tearing
<1>36. CASE UNCHANGED vars
  BY <1>36 DEF Inv, vars, ClosingFor, Ending, Tearing
<1> QED
  BY <1>1, <1>2, <1>3, <1>4, <1>5, <1>6, <1>7, <1>8, <1>9, <1>10, <1>11, <1>12, <1>13,
     <1>14, <1>15, <1>16, <1>17, <1>18, <1>19, <1>20, <1>21, <1>22, <1>23, <1>24,
     <1>25, <1>26, <1>27, <1>28, <1>29, <1>30, <1>31, <1>32, <1>33, <1>34, <1>35,
     <1>36 DEF Next, Move

(* A call has the locals of its operation.                                 *)
LEMMA LocalsKept == ASSUME Inv, [Next]_vars PROVE Locals'
<1>1. CASE \E m \in Models : Close(m)
  BY <1>1 DEF Inv, Close, Locals, Ending, Resume, Tearing, Loading, Flowing, Decoding,
     Encoding, WithDino, WithNaf, Convolving, Begin, Models
<1>2. CASE \E m \in Models, full \in BOOLEAN : Load(m, full)
  BY <1>2 DEF Inv, Load, Locals, Ending, Resume, Tearing, Loading, Flowing, Decoding,
     Encoding, WithDino, WithNaf, Convolving, Begin, Models
<1>3. CASE \E tokens, strength, inside : Sample(tokens, strength, inside)
  BY <1>3 DEF Inv, Sample, Locals, Ending, Resume, Tearing, Loading, Flowing,
     Decoding, Encoding, WithDino, WithNaf, Convolving, Begin, Models
<1>4. CASE Decode
  BY <1>4 DEF Inv, Decode, Locals, Ending, Resume, Tearing, Loading, Flowing,
     Decoding, Encoding, WithDino, WithNaf, Convolving, Begin, Models
<1>5. CASE \E wanted : Encode(wanted)
  BY <1>5 DEF Inv, Encode, Locals, Ending, Resume, Tearing, Loading, Flowing,
     Decoding, Encoding, WithDino, WithNaf, Convolving, Begin, Models
<1>6. CASE OpenPack
  <2>1. CASE Closing(call.model, TRUE, "failed")
    <3>1. pc' = "freeFirst" /\ closing'.after = "failed"
      BY <2>1, Tears, Opens, <1>6
    <3> QED
      BY <3>1 DEF Locals, Ending, Resume, Tearing, Loading, Flowing, Decoding, Encoding,
         WithDino, WithNaf, Convolving
  <2>2. CASE pc' = "openManager" /\ call' = call
    BY <2>2, Opens, <1>6 DEF Locals, Ending, Resume, Tearing, Loading, Flowing, Decoding,
       Encoding, WithDino, WithNaf, Convolving
  <2>3. CASE pc' = "idle"
    BY <2>3 DEF Locals, Ending, Resume, Tearing, Loading, Flowing, Decoding, Encoding,
       WithDino, WithNaf, Convolving
  <2> QED
    BY <1>6, <2>1, <2>2, <2>3, Opens
<1>7. CASE OpenNaf
  BY <1>7 DEF Inv, OpenNaf, Locals, Ending, Resume, Tearing, Loading, Flowing,
     Decoding, Encoding, WithDino, WithNaf, Convolving, Closing, Loaded, Return
<1>8. CASE OpenManager
  BY <1>8 DEF Inv, OpenManager, Locals, Ending, Resume, Tearing, Loading, Flowing,
     Decoding, Encoding, WithDino, WithNaf, Convolving, Closing, Loaded, Return
<1>9. CASE AllocateWeights
  BY <1>9 DEF Inv, AllocateWeights, Locals, Ending, Resume, Tearing, Loading, Flowing,
     Decoding, Encoding, WithDino, WithNaf, Convolving, Closing, Loaded, Return
<1>10. CASE ReadWeights
  BY <1>10 DEF Inv, ReadWeights, Locals, Ending, Resume, Tearing, Loading, Flowing,
     Decoding, Encoding, WithDino, WithNaf, Convolving, Closing, Loaded, Return
<1>11. CASE FreeFirst
  BY <1>11 DEF Inv, FreeFirst, Locals, Ending, Resume, Tearing, Loading, Flowing,
     Decoding, Encoding, WithDino, WithNaf, Convolving, ClosingFor
<1>12. CASE FreeGraph
  BY <1>12 DEF Inv, FreeGraph, Locals, Ending, Resume, Tearing, Loading, Flowing,
     Decoding, Encoding, WithDino, WithNaf, Convolving, ClosingFor
<1>13. CASE FreeBuffer
  BY <1>13 DEF Inv, FreeBuffer, Locals, Ending, Resume, Tearing, Loading, Flowing,
     Decoding, Encoding, WithDino, WithNaf, Convolving, ClosingFor
<1>14. CASE FreeManager
  BY <1>14 DEF Inv, FreeManager, Locals, Ending, Resume, Tearing, Loading, Flowing,
     Decoding, Encoding, WithDino, WithNaf, Convolving, ClosingFor
<1>15. CASE CloseDone
  BY <1>15 DEF Inv, CloseDone, Locals, Ending, Resume, Tearing, Loading, Flowing,
     Decoding, Encoding, WithDino, WithNaf, Convolving, Return, Fail
<1>16. CASE Failed
  BY <1>16 DEF Inv, Failed, Locals, Ending, Resume, Tearing, Loading, Flowing,
     Decoding, Encoding, WithDino, WithNaf, Convolving, Return, Fail
<1>17. CASE ScopeEnd
  BY <1>17 DEF Inv, ScopeEnd, Locals, Ending, Resume, Tearing, Loading, Flowing,
     Decoding, Encoding, WithDino, WithNaf, Convolving, ClosingFor
<1>18. CASE Step
  BY <1>18 DEF Inv, Step, Locals, Ending, Resume, Tearing, Loading, Flowing, Decoding,
     Encoding, WithDino, WithNaf, Convolving, Return
<1>19. CASE Forward
  BY <1>19 DEF Inv, Forward, Locals, Ending, Resume, Tearing, Loading, Flowing,
     Decoding, Encoding, WithDino, WithNaf, Convolving, Closing, LeaveScope,
     Unallocated
<1>20. CASE FlowBuild
  BY <1>20 DEF Inv, FlowBuild, Locals, Ending, Resume, Tearing, Loading, Flowing,
     Decoding, Encoding, WithDino, WithNaf, Convolving
<1>21. CASE FlowAllocate
  BY <1>21 DEF Inv, FlowAllocate, Locals, Ending, Resume, Tearing, Loading, Flowing,
     Decoding, Encoding, WithDino, WithNaf, Convolving, Closing, LeaveScope,
     Unallocated
<1>22. CASE FlowUpload
  BY <1>22 DEF Inv, FlowUpload, Locals, Ending, Resume, Tearing, Loading, Flowing,
     Decoding, Encoding, WithDino, WithNaf, Convolving
<1>23. CASE FlowCompute
  BY <1>23 DEF Inv, FlowCompute, Locals, Ending, Resume, Tearing, Loading, Flowing,
     Decoding, Encoding, WithDino, WithNaf, Convolving, Got, LeaveScope
<1>24. CASE Velocity
  BY <1>24 DEF Inv, Velocity, Locals, Ending, Resume, Tearing, Loading, Flowing,
     Decoding, Encoding, WithDino, WithNaf, Convolving
<1>25. CASE DecoderBuild
  BY <1>25 DEF Inv, DecoderBuild, Locals, Ending, Resume, Tearing, Loading, Flowing,
     Decoding, Encoding, WithDino, WithNaf, Convolving, Closing, LeaveScope,
     Unallocated
<1>26. CASE DecoderAllocate
  BY <1>26 DEF Inv, DecoderAllocate, Locals, Ending, Resume, Tearing, Loading,
     Flowing, Decoding, Encoding, WithDino, WithNaf, Convolving, Closing, LeaveScope,
     Unallocated
<1>27. CASE DecoderUpload
  BY <1>27 DEF Inv, DecoderUpload, Locals, Ending, Resume, Tearing, Loading, Flowing,
     Decoding, Encoding, WithDino, WithNaf, Convolving
<1>28. CASE DecoderCompute
  BY <1>28 DEF Inv, DecoderCompute, Locals, Ending, Resume, Tearing, Loading, Flowing,
     Decoding, Encoding, WithDino, WithNaf, Convolving, Got, LeaveScope
<1>29. CASE Logits
  BY <1>29 DEF Inv, Logits, Locals, Ending, Resume, Tearing, Loading, Flowing,
     Decoding, Encoding, WithDino, WithNaf, Convolving, Fail, Return
<1>30. CASE Stage
  BY <1>30 DEF Inv, Stage, Locals, Ending, Resume, Tearing, Loading, Flowing,
     Decoding, Encoding, WithDino, WithNaf, Convolving, Return
<1>31. CASE DinoEnter
  BY <1>31 DEF Inv, DinoEnter, Locals, Ending, Resume, Tearing, Loading, Flowing,
     Decoding, Encoding, WithDino, WithNaf, Convolving
<1>32. CASE DinoBuild
  BY <1>32 DEF Inv, DinoBuild, Locals, Ending, Resume, Tearing, Loading, Flowing,
     Decoding, Encoding, WithDino, WithNaf, Convolving
<1>33. CASE DinoAllocate
  BY <1>33 DEF Inv, DinoAllocate, Locals, Ending, Resume, Tearing, Loading, Flowing,
     Decoding, Encoding, WithDino, WithNaf, Convolving, Closing, LeaveScope,
     Unallocated
<1>34. CASE DinoCompute
  <2>1. DOMAIN call = {"op", "wanted", "out", "got", "on", "dino", "stack", "conv", "stacks"}
    BY <1>34 DEF Inv, Locals, DinoCompute, Resume, Ending, Tearing, Encoding, WithDino, WithNaf,
       Convolving
  <2>2. DOMAIN call' = DOMAIN call
    BY <1>34, <2>1 DEF DinoCompute, Got
  <2>3. pc' = "scopeEnd" /\ closing'.after \in {"failed", "features"}
    BY <1>34 DEF DinoCompute, LeaveScope
  <2> QED
    BY <2>1, <2>2, <2>3 DEF Locals, Ending, Resume, Tearing, Loading, Flowing, Decoding,
       Encoding, WithDino, WithNaf, Convolving
<1>35. CASE Features
  BY <1>35 DEF Inv, Features, Locals, Ending, Resume, Tearing, Loading, Flowing,
     Decoding, Encoding, WithDino, WithNaf, Convolving
<1>36. CASE NafEnter
  BY <1>36 DEF Inv, NafEnter, Locals, Ending, Resume, Tearing, Loading, Flowing,
     Decoding, Encoding, WithDino, WithNaf, Convolving
<1>37. CASE NafGpu
  BY <1>37 DEF Inv, NafGpu, Locals, Ending, Resume, Tearing, Loading, Flowing,
     Decoding, Encoding, WithDino, WithNaf, Convolving
<1>38. CASE NafInit
  BY <1>38 DEF Inv, NafInit, Locals, Ending, Resume, Tearing, Loading, Flowing,
     Decoding, Encoding, WithDino, WithNaf, Convolving
<1>39. CASE NoGpu
  BY <1>39 DEF Inv, NoGpu, Locals, Ending, Resume, Tearing, Loading, Flowing,
     Decoding, Encoding, WithDino, WithNaf, Convolving
<1>40. CASE GiveUp
  BY <1>40 DEF Inv, GiveUp, Locals, Ending, Resume, Tearing, Loading, Flowing,
     Decoding, Encoding, WithDino, WithNaf, Convolving
<1>41. CASE GiveUpManager
  BY <1>41 DEF Inv, GiveUpManager, Locals, Ending, Resume, Tearing, Loading, Flowing,
     Decoding, Encoding, WithDino, WithNaf, Convolving
<1>42. CASE ConvBuild
  BY <1>42 DEF Inv, ConvBuild, Locals, Ending, Resume, Tearing, Loading, Flowing,
     Decoding, Encoding, WithDino, WithNaf, Convolving
<1>43. CASE ConvAllocate
  BY <1>43 DEF Inv, ConvAllocate, Locals, Ending, Resume, Tearing, Loading, Flowing,
     Decoding, Encoding, WithDino, WithNaf, Convolving, Closing, LeaveScope,
     Unallocated
<1>44. CASE ConvCompute
  <2>1. DOMAIN call = {"op", "wanted", "out", "got", "on", "dino", "stack", "conv", "stacks"}
    BY <1>44 DEF Inv, Locals, ConvCompute, Resume, Ending, Tearing, Encoding, WithDino, WithNaf,
       Convolving
  <2>2. DOMAIN call' = DOMAIN call
    BY <1>44, <2>1 DEF ConvCompute, Got
  <2>3. pc' = "scopeEnd" /\ closing'.after \in {"giveUp", "convolved"}
    BY <1>44 DEF ConvCompute, LeaveScope
  <2> QED
    BY <2>1, <2>2, <2>3 DEF Locals, Ending, Resume, Tearing, Loading, Flowing, Decoding,
       Encoding, WithDino, WithNaf, Convolving
<1>45. CASE Convolved
  BY <1>45 DEF Inv, Convolved, Locals, Ending, Resume, Tearing, Loading, Flowing,
     Decoding, Encoding, WithDino, WithNaf, Convolving
<1>46. CASE CpuStacks
  BY <1>46 DEF Inv, CpuStacks, Locals, Ending, Resume, Tearing, Loading, Flowing,
     Decoding, Encoding, WithDino, WithNaf, Convolving
<1>47. CASE Attend
  BY <1>47 DEF Inv, Attend, Locals, Ending, Resume, Tearing, Loading, Flowing,
     Decoding, Encoding, WithDino, WithNaf, Convolving
<1>48. CASE MakeStage
  BY <1>48 DEF Inv, MakeStage, Locals, Ending, Resume, Tearing, Loading, Flowing,
     Decoding, Encoding, WithDino, WithNaf, Convolving
<1>49. CASE UNCHANGED vars
  BY <1>49 DEF Inv, vars, Locals, Ending, Resume, Tearing, Loading, Flowing, Decoding,
     Encoding, WithDino, WithNaf, Convolving
<1> QED
  BY <1>1, <1>2, <1>3, <1>4, <1>5, <1>6, <1>7, <1>8, <1>9, <1>10, <1>11, <1>12, <1>13,
     <1>14, <1>15, <1>16, <1>17, <1>18, <1>19, <1>20, <1>21, <1>22, <1>23, <1>24,
     <1>25, <1>26, <1>27, <1>28, <1>29, <1>30, <1>31, <1>32, <1>33, <1>34, <1>35,
     <1>36, <1>37, <1>38, <1>39, <1>40, <1>41, <1>42, <1>43, <1>44, <1>45, <1>46,
     <1>47, <1>48, <1>49 DEF Next

(* A call only computes with what was loaded.                              *)
LEMMA LoadednessKept == ASSUME Inv, [Next]_vars PROVE Loadedness'
<1>1. CASE \E m \in Models : Close(m)
  BY <1>1 DEF Inv, Close, Loadedness, Typing, Ending, Resume, Tearing, Loading,
     Flowing, Decoding, Encoding, WithDino, WithNaf, Convolving, Open, Ready, Models,
     Begin, Models
<1>2. CASE \E m \in Models, full \in BOOLEAN : Load(m, full)
  BY <1>2 DEF Inv, Load, Loadedness, Typing, Ending, Resume, Tearing, Loading,
     Flowing, Decoding, Encoding, WithDino, WithNaf, Convolving, Open, Ready, Models,
     Begin, Models
<1>3. CASE \E tokens, strength, inside : Sample(tokens, strength, inside)
  BY <1>3 DEF Inv, Sample, Loadedness, Typing, Ending, Resume, Tearing, Loading,
     Flowing, Decoding, Encoding, WithDino, WithNaf, Convolving, Open, Ready, Models,
     Begin, Models
<1>4. CASE Decode
  BY <1>4 DEF Inv, Decode, Loadedness, Typing, Ending, Resume, Tearing, Loading,
     Flowing, Decoding, Encoding, WithDino, WithNaf, Convolving, Open, Ready, Models,
     Begin, Models
<1>5. CASE \E wanted : Encode(wanted)
  BY <1>5 DEF Inv, Encode, Loadedness, Typing, Ending, Resume, Tearing, Loading,
     Flowing, Decoding, Encoding, WithDino, WithNaf, Convolving, Open, Ready, Models,
     Begin, Models
<1>6. CASE OpenPack
  <2>1. CASE Closing(call.model, TRUE, "failed") /\ UNCHANGED model
    <3>1. pc' = "freeFirst" /\ closing'.after = "failed"
      BY <2>1, Tears, Opens, <1>6
    <3> QED
      BY <2>1, <3>1, <1>6 DEF OpenPack, Inv, Loadedness, Ending, Resume, Tearing, Flowing,
         Decoding, WithDino, WithNaf, Convolving, Open, Ready
  <2>2. CASE /\ pc' \in {"openManager", "idle"}
             /\ model'[call.model].loaded # "data"
    BY <2>2, Opens, <1>6 DEF OpenPack, Inv, Loadedness, Ending, Resume, Tearing, Flowing,
       Decoding, WithDino, WithNaf, Convolving, Open, Ready
  <2> QED
    BY <1>6, <2>1, <2>2, Opens
<1>7. CASE OpenNaf
  BY <1>7 DEF Inv, OpenNaf, Loadedness, Typing, Ending, Resume, Tearing, Loading,
     Flowing, Decoding, Encoding, WithDino, WithNaf, Convolving, Open, Ready, Models,
     Closing, Loaded, Return, Locals, Holding
<1>8. CASE OpenManager
  <2>1. CASE Closing(call.model, TRUE, "failed") /\ UNCHANGED model
    <3>1. pc' = "freeFirst" /\ closing'.after = "failed"
      BY <2>1, Tears, ManagerOpens, <1>8
    <3> QED
      BY <2>1, <3>1, <1>8 DEF OpenManager, Inv, Loadedness, Ending, Resume, Tearing, Flowing,
         Decoding, WithDino, WithNaf, Convolving, Open, Ready
  <2>2. CASE pc' = "allocateWeights" /\ model'[call.model].manager \in Managers
    <3>1. "closed" \notin Managers
      BY DEF Inv, Typing, Managers
    <3> QED
      BY <2>2, <3>1, ManagerOpens, <1>8 DEF OpenManager, Inv, Loadedness, Ending, Resume,
         Tearing, Flowing, Decoding, WithDino, WithNaf, Convolving, Open, Ready
  <2> QED
    BY <1>8, <2>1, <2>2, ManagerOpens
<1>9. CASE AllocateWeights
  BY <1>9 DEF Inv, AllocateWeights, Loadedness, Typing, Ending, Resume, Tearing,
     Loading, Flowing, Decoding, Encoding, WithDino, WithNaf, Convolving, Open, Ready,
     Models, Closing, Loaded, Return, Locals, Holding
<1>10. CASE ReadWeights
  BY <1>10 DEF Inv, ReadWeights, Loadedness, Typing, Ending, Resume, Tearing, Loading,
     Flowing, Decoding, Encoding, WithDino, WithNaf, Convolving, Open, Ready, Models,
     Closing, Loaded, Return, Locals, Holding
<1>11. CASE FreeFirst
  BY <1>11 DEF Inv, FreeFirst, Loadedness, Typing, Ending, Resume, Tearing, Loading,
     Flowing, Decoding, Encoding, WithDino, WithNaf, Convolving, Open, Ready, Models,
     ClosingFor, Order, Closed, m0
<1>12. CASE FreeGraph
  BY <1>12 DEF Inv, FreeGraph, Loadedness, Typing, Ending, Resume, Tearing, Loading,
     Flowing, Decoding, Encoding, WithDino, WithNaf, Convolving, Open, Ready, Models,
     ClosingFor, Order, Closed, m0
<1>13. CASE FreeBuffer
  BY <1>13 DEF Inv, FreeBuffer, Loadedness, Typing, Ending, Resume, Tearing, Loading,
     Flowing, Decoding, Encoding, WithDino, WithNaf, Convolving, Open, Ready, Models,
     ClosingFor, Order, Closed, m0
<1>14. CASE FreeManager
  BY <1>14 DEF Inv, FreeManager, Loadedness, Typing, Ending, Resume, Tearing, Loading,
     Flowing, Decoding, Encoding, WithDino, WithNaf, Convolving, Open, Ready, Models,
     ClosingFor, Order, Closed, m0
<1>15. CASE ScopeEnd
  BY <1>15 DEF Inv, ScopeEnd, Loadedness, Typing, Ending, Resume, Tearing, Loading,
     Flowing, Decoding, Encoding, WithDino, WithNaf, Convolving, Open, Ready, Models,
     ClosingFor
<1>16. CASE Forward
  BY <1>16 DEF Inv, Forward, Loadedness, Typing, Ending, Resume, Tearing, Loading,
     Flowing, Decoding, Encoding, WithDino, WithNaf, Convolving, Open, Ready, Models,
     Closing, LeaveScope, Unallocated
<1>17. CASE FlowBuild
  BY <1>17 DEF Inv, FlowBuild, Loadedness, Typing, Ending, Resume, Tearing, Loading,
     Flowing, Decoding, Encoding, WithDino, WithNaf, Convolving, Open, Ready, Models
<1>18. CASE FlowAllocate
  BY <1>18 DEF Inv, FlowAllocate, Loadedness, Typing, Ending, Resume, Tearing,
     Loading, Flowing, Decoding, Encoding, WithDino, WithNaf, Convolving, Open, Ready,
     Models, Closing, LeaveScope, Unallocated
<1>19. CASE FlowUpload
  BY <1>19 DEF Inv, FlowUpload, Loadedness, Typing, Ending, Resume, Tearing, Loading,
     Flowing, Decoding, Encoding, WithDino, WithNaf, Convolving, Open, Ready, Models
<1>20. CASE FlowCompute
  BY <1>20 DEF Inv, FlowCompute, Loadedness, Typing, Ending, Resume, Tearing, Loading,
     Flowing, Decoding, Encoding, WithDino, WithNaf, Convolving, Open, Ready, Models
<1>21. CASE DecoderBuild
  BY <1>21 DEF Inv, DecoderBuild, Loadedness, Typing, Ending, Resume, Tearing,
     Loading, Flowing, Decoding, Encoding, WithDino, WithNaf, Convolving, Open, Ready,
     Models, Closing, LeaveScope, Unallocated
<1>22. CASE DecoderAllocate
  BY <1>22 DEF Inv, DecoderAllocate, Loadedness, Typing, Ending, Resume, Tearing,
     Loading, Flowing, Decoding, Encoding, WithDino, WithNaf, Convolving, Open, Ready,
     Models, Closing, LeaveScope, Unallocated
<1>23. CASE DecoderUpload
  BY <1>23 DEF Inv, DecoderUpload, Loadedness, Typing, Ending, Resume, Tearing,
     Loading, Flowing, Decoding, Encoding, WithDino, WithNaf, Convolving, Open, Ready,
     Models
<1>24. CASE DecoderCompute
  BY <1>24 DEF Inv, DecoderCompute, Loadedness, Typing, Ending, Resume, Tearing,
     Loading, Flowing, Decoding, Encoding, WithDino, WithNaf, Convolving, Open, Ready,
     Models
<1>25. CASE DinoBuild
  BY <1>25 DEF Inv, DinoBuild, Loadedness, Typing, Ending, Resume, Tearing, Loading,
     Flowing, Decoding, Encoding, WithDino, WithNaf, Convolving, Open, Ready, Models
<1>26. CASE DinoAllocate
  BY <1>26 DEF Inv, DinoAllocate, Loadedness, Typing, Ending, Resume, Tearing,
     Loading, Flowing, Decoding, Encoding, WithDino, WithNaf, Convolving, Open, Ready,
     Models, Closing, LeaveScope, Unallocated
<1>27. CASE DinoCompute
  BY <1>27 DEF Inv, DinoCompute, Loadedness, Typing, Ending, Resume, Tearing, Loading,
     Flowing, Decoding, Encoding, WithDino, WithNaf, Convolving, Open, Ready, Models,
     LeaveScope
<1>28. CASE NafGpu
  BY <1>28 DEF Inv, NafGpu, Loadedness, Typing, Ending, Resume, Tearing, Loading,
     Flowing, Decoding, Encoding, WithDino, WithNaf, Convolving, Open, Ready, Models,
     Managers, Order
<1>29. CASE NafInit
  BY <1>29 DEF Inv, NafInit, Loadedness, Typing, Ending, Resume, Tearing, Loading,
     Flowing, Decoding, Encoding, WithDino, WithNaf, Convolving, Open, Ready, Models
<1>30. CASE GiveUp
  BY <1>30 DEF Inv, GiveUp, Loadedness, Typing, Ending, Resume, Tearing, Loading,
     Flowing, Decoding, Encoding, WithDino, WithNaf, Convolving, Open, Ready, Models,
     WithoutGpu
<1>31. CASE GiveUpManager
  BY <1>31 DEF Inv, GiveUpManager, Loadedness, Typing, Ending, Resume, Tearing,
     Loading, Flowing, Decoding, Encoding, WithDino, WithNaf, Convolving, Open, Ready,
     Models
<1>32. CASE ConvBuild
  BY <1>32 DEF Inv, ConvBuild, Loadedness, Typing, Ending, Resume, Tearing, Loading,
     Flowing, Decoding, Encoding, WithDino, WithNaf, Convolving, Open, Ready, Models
<1>33. CASE ConvAllocate
  BY <1>33 DEF Inv, ConvAllocate, Loadedness, Typing, Ending, Resume, Tearing,
     Loading, Flowing, Decoding, Encoding, WithDino, WithNaf, Convolving, Open, Ready,
     Models, Closing, LeaveScope, Unallocated
<1>34. CASE ConvCompute
  BY <1>34 DEF Inv, ConvCompute, Loadedness, Typing, Ending, Resume, Tearing, Loading,
     Flowing, Decoding, Encoding, WithDino, WithNaf, Convolving, Open, Ready, Models,
     LeaveScope
<1>35. CASE Move
  BY <1>35, Moves DEF Inv, Loadedness, Resume, Ending, Tearing, Flowing, Decoding, WithDino,
     WithNaf, Convolving, Open, Ready
<1>36. CASE UNCHANGED vars
  BY <1>36 DEF Inv, vars, Loadedness, Typing, Ending, Resume, Tearing, Loading,
     Flowing, Decoding, Encoding, WithDino, WithNaf, Convolving, Open, Ready, Models
<1> QED
  BY <1>1, <1>2, <1>3, <1>4, <1>5, <1>6, <1>7, <1>8, <1>9, <1>10, <1>11, <1>12, <1>13,
     <1>14, <1>15, <1>16, <1>17, <1>18, <1>19, <1>20, <1>21, <1>22, <1>23, <1>24,
     <1>25, <1>26, <1>27, <1>28, <1>29, <1>30, <1>31, <1>32, <1>33, <1>34, <1>35,
     <1>36 DEF Next, Move

(* Schedulers go before what is under them.                                *)
LEMMA OrderKept == ASSUME Inv, [Next]_vars PROVE Order'
<1>1. CASE \E m \in Models : Close(m)
  BY <1>1 DEF Inv, Close, Order, Typing, Ending, Tearing, Open, Ready, Models,
     Keeping, Begin, ClosingFor
<1>2. CASE \E m \in Models, full \in BOOLEAN : Load(m, full)
  BY <1>2 DEF Inv, Load, Order, Typing, Ending, Tearing, Open, Ready, Models, Keeping,
     Begin, ClosingFor
<1>3. CASE \E tokens, strength, inside : Sample(tokens, strength, inside)
  BY <1>3 DEF Inv, Sample, Order, Typing, Ending, Tearing, Open, Ready, Models,
     Keeping, Begin, ClosingFor
<1>4. CASE Decode
  BY <1>4 DEF Inv, Decode, Order, Typing, Ending, Tearing, Open, Ready, Models,
     Keeping, Begin, ClosingFor
<1>5. CASE \E wanted : Encode(wanted)
  BY <1>5 DEF Inv, Encode, Order, Typing, Ending, Tearing, Open, Ready, Models,
     Keeping, Begin, ClosingFor
<1>6. CASE OpenPack
  <2>1. pc' \in {"freeFirst", "openManager", "idle"} /\ pc = "openPack"
    BY <1>6, Opens, Tears DEF OpenPack
  <2>2. ~graph[call.model].sched.valid
    BY <1>6, NoGraphHasNothing DEF OpenPack, Inv, Holding, Loading
  <2> QED
    BY <1>6, <2>1, <2>2, Opens DEF Inv, Order, Open, Ready, Tearing, Keeping, Models
<1>7. CASE OpenNaf
  BY <1>7 DEF Inv, OpenNaf, Order, Typing, Ending, Tearing, Open, Ready, Models,
     Keeping, Closing, Loaded, Return, Locals, Loading, Resume
<1>8. CASE OpenManager
  <2>1. pc' \in {"freeFirst", "allocateWeights"} /\ pc = "openManager"
    BY <1>8, ManagerOpens, Tears DEF OpenManager
  <2>2. ~graph[call.model].sched.valid
    BY <1>8, NoGraphHasNothing DEF OpenManager, Inv, Holding, Loading
  <2> QED
    BY <1>8, <2>1, <2>2, ManagerOpens DEF Inv, Order, Open, Ready, Tearing, Keeping, Models
<1>9. CASE AllocateWeights
  BY <1>9 DEF Inv, AllocateWeights, Order, Typing, Ending, Tearing, Open, Ready,
     Models, Keeping, Closing, Loaded, Return, Locals, Loading, Resume
<1>10. CASE ReadWeights
  BY <1>10 DEF Inv, ReadWeights, Order, Typing, Ending, Tearing, Open, Ready, Models,
     Keeping, Closing, Loaded, Return, Locals, Loading, Resume
<1>11. CASE FreeFirst
  BY <1>11 DEF Inv, FreeFirst, Order, Typing, Ending, Tearing, Open, Ready, Models,
     Keeping, ClosingFor, Closed, m0, FirstFreed, Freed, NoGraph, NoScheduler
<1>12. CASE FreeGraph
  BY <1>12 DEF Inv, FreeGraph, Order, Typing, Ending, Tearing, Open, Ready, Models,
     Keeping, ClosingFor, Closed, m0, FirstFreed, Freed, NoGraph, NoScheduler
<1>13. CASE FreeBuffer
  BY <1>13 DEF Inv, FreeBuffer, Order, Typing, Ending, Tearing, Open, Ready, Models,
     Keeping, ClosingFor, Closed, m0, FirstFreed, Freed, NoGraph, NoScheduler
<1>14. CASE FreeManager
  BY <1>14 DEF Inv, FreeManager, Order, Typing, Ending, Tearing, Open, Ready, Models,
     Keeping, ClosingFor, Closed, m0, FirstFreed, Freed, NoGraph, NoScheduler
<1>15. CASE ScopeEnd
  BY <1>15 DEF Inv, ScopeEnd, Order, Typing, Ending, Tearing, Open, Ready, Models,
     Keeping, ClosingFor, Closed, m0, FirstFreed, Freed, NoGraph, NoScheduler
<1>16. CASE Forward
  <2>1. UNCHANGED <<world, model, graph>> /\ pc = "forward"
    BY <1>16 DEF Forward
  <2>2. \/ pc' = "flowUpload" /\ graph["flow"].ctx
        \/ pc' = "freeFirst"
    BY <1>16 DEF Forward, Closing, RuntimeMatches
  <2> QED
    BY <2>1, <2>2 DEF Inv, Order, Ending, Tearing, Open, Ready, Models, Keeping
<1>17. CASE FlowBuild
  BY <1>17 DEF Inv, FlowBuild, Order, Typing, Ending, Tearing, Open, Ready, Models,
     Keeping, FreshGraph, NoGraph, NoScheduler, Closing
<1>18. CASE FlowAllocate
  <2>1. /\ UNCHANGED <<world, model>>
        /\ \A k \in Models : k # "flow" => graph'[k] = graph[k]
        /\ graph'["flow"].sched.valid => Open("flow")
    BY <1>18, FlowAllocates
  <2>2. \/ pc' = "flowUpload" /\ graph'["flow"].ctx
        \/ pc' = "scopeEnd" /\ closing'.m = "flow"
    BY <1>18, FlowAllocates, LeavesScope DEF FlowAllocate, Inv, Order, Models
  <2>3. model["flow"].buffer
    BY <1>18 DEF FlowAllocate, Inv, Loadedness, Resume, Ending, Tearing, Flowing, Decoding,
       WithDino, Convolving, Ready, Models
  <2> QED
    BY <1>18, <2>1, <2>2, <2>3 DEF FlowAllocate, Inv, Order, Ending, Tearing, Open, Ready,
       Models, Keeping
<1>19. CASE FlowUpload
  BY <1>19 DEF Inv, FlowUpload, Order, Typing, Ending, Tearing, Open, Ready, Models,
     Keeping
<1>20. CASE FlowCompute
  BY <1>20 DEF Inv, FlowCompute, Order, Typing, Ending, Tearing, Open, Ready, Models,
     Keeping
<1>21. CASE DecoderBuild
  BY <1>21 DEF Inv, DecoderBuild, Order, Typing, Ending, Tearing, Open, Ready, Models,
     Keeping, FreshGraph, NoGraph, NoScheduler, Closing
<1>22. CASE DecoderAllocate
  <2>1. /\ UNCHANGED <<world, model>>
        /\ \A k \in Models : k # "decoder" => graph'[k] = graph[k]
        /\ graph'["decoder"].sched.valid => Open("decoder")
    BY <1>22, DecoderAllocates
  <2>2. \/ pc' = "decoderUpload" /\ graph'["decoder"].ctx
        \/ pc' = "freeFirst" /\ closing'.m = "decoder" /\ graph'["decoder"].ctx
    BY <1>22, DecoderAllocates, Tears DEF DecoderAllocate, Inv, Order, Models
  <2>3. model["decoder"].buffer
    BY <1>22 DEF DecoderAllocate, Inv, Loadedness, Resume, Ending, Tearing, Flowing, Decoding,
       WithDino, Convolving, Ready, Models
  <2> QED
    BY <1>22, <2>1, <2>2, <2>3 DEF DecoderAllocate, Inv, Order, Ending, Tearing, Open, Ready,
       Models, Keeping
<1>23. CASE DecoderUpload
  BY <1>23 DEF Inv, DecoderUpload, Order, Typing, Ending, Tearing, Open, Ready,
     Models, Keeping
<1>24. CASE DecoderCompute
  BY <1>24 DEF Inv, DecoderCompute, Order, Typing, Ending, Tearing, Open, Ready,
     Models, Keeping
<1>25. CASE DinoBuild
  BY <1>25 DEF Inv, DinoBuild, Order, Typing, Ending, Tearing, Open, Ready, Models,
     Keeping, FreshGraph, NoGraph, NoScheduler, Closing
<1>26. CASE DinoAllocate
  <2>1. /\ UNCHANGED <<world, model>>
        /\ \A k \in Models : k # "dino" => graph'[k] = graph[k]
        /\ graph'["dino"].sched.valid => Open("dino")
    BY <1>26, DinoAllocates
  <2>2. \/ pc' = "dinoCompute" /\ graph'["dino"].ctx
        \/ pc' = "scopeEnd" /\ closing'.m = "dino"
    BY <1>26, DinoAllocates, LeavesScope DEF DinoAllocate, Inv, Order, Models
  <2>3. model["dino"].buffer
    BY <1>26 DEF DinoAllocate, Inv, Loadedness, Resume, Ending, Tearing, Flowing, Decoding,
       WithDino, Convolving, Ready, Models
  <2> QED
    BY <1>26, <2>1, <2>2, <2>3 DEF DinoAllocate, Inv, Order, Ending, Tearing, Open, Ready,
       Models, Keeping
<1>27. CASE DinoCompute
  BY <1>27 DEF Inv, DinoCompute, Order, Typing, Ending, Tearing, Open, Ready, Models,
     Keeping, LeaveScope
<1>28. CASE NafGpu
  BY <1>28 DEF Inv, NafGpu, Order, Typing, Ending, Tearing, Open, Ready, Models,
     Keeping, WithoutGpu, Holding, NoGraph, NoScheduler, Managers
<1>29. CASE NafInit
  BY <1>29 DEF Inv, NafInit, Order, Typing, Ending, Tearing, Open, Ready, Models,
     Keeping
<1>30. CASE GiveUp
  BY <1>30 DEF Inv, GiveUp, Order, Typing, Ending, Tearing, Open, Ready, Models,
     Keeping, WithoutGpu, Holding, NoGraph, NoScheduler, Managers
<1>31. CASE GiveUpManager
  <2>1. graph["naf"].sched.valid = FALSE
    BY <1>31, NoGraphHasNothing DEF GiveUpManager, Inv, Holding, Ending, Tearing
  <2> QED
    BY <1>31, <2>1 DEF GiveUpManager, Inv, Order, Typing, Ending, Tearing, Open, Ready, Models,
       Keeping
<1>32. CASE ConvBuild
  BY <1>32 DEF Inv, ConvBuild, Order, Typing, Ending, Tearing, Open, Ready, Models,
     Keeping, FreshGraph, NoGraph, NoScheduler, Closing
<1>33. CASE ConvAllocate
  <2>1. /\ UNCHANGED <<world, model>>
        /\ \A k \in Models : k # "naf" => graph'[k] = graph[k]
        /\ graph'["naf"].sched.valid => Open("naf")
    BY <1>33, ConvAllocates
  <2>2. \/ pc' = "convCompute" /\ graph'["naf"].ctx
        \/ pc' = "scopeEnd" /\ closing'.m = "naf"
    BY <1>33, ConvAllocates, LeavesScope DEF ConvAllocate, Inv, Order, Models
  <2>3. model["naf"].buffer
    BY <1>33 DEF ConvAllocate, Inv, Loadedness, Resume, Ending, Tearing, Flowing, Decoding,
       WithDino, Convolving, Ready, Models
  <2> QED
    BY <1>33, <2>1, <2>2, <2>3 DEF ConvAllocate, Inv, Order, Ending, Tearing, Open, Ready,
       Models, Keeping
<1>34. CASE ConvCompute
  BY <1>34 DEF Inv, ConvCompute, Order, Typing, Ending, Tearing, Open, Ready, Models,
     Keeping, LeaveScope
<1>35. CASE Move
  BY <1>35, Moves DEF Inv, Order, Ending, Tearing, Open, Ready
<1>36. CASE UNCHANGED vars
  BY <1>36 DEF Inv, vars, Order, Typing, Ending, Tearing, Open, Ready, Models, Keeping
<1> QED
  BY <1>1, <1>2, <1>3, <1>4, <1>5, <1>6, <1>7, <1>8, <1>9, <1>10, <1>11, <1>12, <1>13,
     <1>14, <1>15, <1>16, <1>17, <1>18, <1>19, <1>20, <1>21, <1>22, <1>23, <1>24,
     <1>25, <1>26, <1>27, <1>28, <1>29, <1>30, <1>31, <1>32, <1>33, <1>34, <1>35,
     <1>36 DEF Next, Move

(* A mandatory GPU is the only one to compute.                             *)
LEMMA OnGpuKept == ASSUME Inv, [Next]_vars PROVE OnGpu'
<1>1. CASE \E m \in Models : Close(m)
  BY <1>1 DEF Inv, Close, OnGpu, Typing, Ending, Resume, Tearing, Mandatory, Open,
     Models, world, Begin
<1>2. CASE \E m \in Models, full \in BOOLEAN : Load(m, full)
  BY <1>2 DEF Inv, Load, OnGpu, Typing, Ending, Resume, Tearing, Mandatory, Open,
     Models, world, Begin
<1>3. CASE \E tokens, strength, inside : Sample(tokens, strength, inside)
  BY <1>3 DEF Inv, Sample, OnGpu, Typing, Ending, Resume, Tearing, Mandatory, Open,
     Models, world, Begin
<1>4. CASE Decode
  BY <1>4 DEF Inv, Decode, OnGpu, Typing, Ending, Resume, Tearing, Mandatory, Open,
     Models, world, Begin
<1>5. CASE \E wanted : Encode(wanted)
  BY <1>5 DEF Inv, Encode, OnGpu, Typing, Ending, Resume, Tearing, Mandatory, Open,
     Models, world, Begin
<1>6. CASE OpenPack
  <2>1. pc' \in {"freeFirst", "openManager", "idle"} /\ (Ending' => closing'.after = "failed")
    BY <1>6, Opens, Tears DEF Ending, Tearing
  <2>2. \A m \in Models : Open(m)' => Open(m)
    BY <1>6, Opens DEF Open
  <2>3. UNCHANGED <<policy, device, graph>>
    BY <1>6, Opens DEF world
  <2> QED
    BY <2>1, <2>2, <2>3 DEF Inv, OnGpu, Resume, Mandatory, Ending, Tearing
<1>7. CASE OpenNaf
  BY <1>7 DEF Inv, OpenNaf, OnGpu, Typing, Ending, Resume, Tearing, Mandatory, Open,
     Models, world, Closing, Loaded, Return, Locals, Loading
<1>8. CASE OpenManager
  BY <1>8 DEF Inv, OpenManager, OnGpu, Typing, Ending, Resume, Tearing, Mandatory,
     Open, Models, world, Closing, Locals, Loading, Managers
<1>9. CASE AllocateWeights
  BY <1>9 DEF Inv, AllocateWeights, OnGpu, Typing, Ending, Resume, Tearing, Mandatory,
     Open, Models, world, Closing, Loaded, Return, Locals, Loading
<1>10. CASE ReadWeights
  BY <1>10 DEF Inv, ReadWeights, OnGpu, Typing, Ending, Resume, Tearing, Mandatory,
     Open, Models, world, Closing, Loaded, Return, Locals, Loading
<1>11. CASE FreeFirst
  BY <1>11 DEF Inv, FreeFirst, OnGpu, Typing, Ending, Resume, Tearing, Mandatory,
     Open, Models, world, ClosingFor, Closed, m0, FirstFreed, Freed, NoGraph,
     NoScheduler
<1>12. CASE FreeGraph
  BY <1>12 DEF Inv, FreeGraph, OnGpu, Typing, Ending, Resume, Tearing, Mandatory,
     Open, Models, world, ClosingFor, Closed, m0, FirstFreed, Freed, NoGraph,
     NoScheduler
<1>13. CASE FreeBuffer
  BY <1>13 DEF Inv, FreeBuffer, OnGpu, Typing, Ending, Resume, Tearing, Mandatory,
     Open, Models, world, ClosingFor, Closed, m0, FirstFreed, Freed, NoGraph,
     NoScheduler
<1>14. CASE FreeManager
  BY <1>14 DEF Inv, FreeManager, OnGpu, Typing, Ending, Resume, Tearing, Mandatory,
     Open, Models, world, ClosingFor, Closed, m0, FirstFreed, Freed, NoGraph,
     NoScheduler
<1>15. CASE ScopeEnd
  BY <1>15 DEF Inv, ScopeEnd, OnGpu, Typing, Ending, Resume, Tearing, Mandatory, Open,
     Models, world, ClosingFor, Closed, m0, FirstFreed, Freed, NoGraph, NoScheduler
<1>16. CASE Forward
  BY <1>16 DEF Inv, Forward, OnGpu, Typing, Ending, Resume, Tearing, Mandatory, Open,
     Models, world, Closing
<1>17. CASE FlowBuild
  BY <1>17 DEF Inv, FlowBuild, OnGpu, Typing, Ending, Resume, Tearing, Mandatory,
     Open, Models, world, FreshGraph, NoGraph, NoScheduler, Closing
<1>18. CASE FlowAllocate
  <2>1. Resume' \in {"flowUpload", "failed"}
    BY <1>18, FlowAllocates, LeavesScope DEF Resume, Ending, Tearing, Models
  <2>2. Mandatory => \A m \in Models : graph'[m].sched.valid => graph'[m].sched.required
    BY <1>18, FlowAllocates DEF Inv, OnGpu
  <2>3. UNCHANGED <<policy, device, model>>
    BY <1>18, FlowAllocates DEF world
  <2> QED
    BY <2>1, <2>2, <2>3 DEF Inv, OnGpu, Mandatory, Open
<1>19. CASE FlowUpload
  BY <1>19 DEF Inv, FlowUpload, OnGpu, Typing, Ending, Resume, Tearing, Mandatory,
     Open, Models, world
<1>20. CASE FlowCompute
  <2>1. \/ Resume' = "failed"
        \/ Resume' = "velocity" /\ CanRun("flow") /\ call'.on = graph["flow"].sched.placed
    <3>1. "on" \in DOMAIN call
      BY <1>20 DEF FlowCompute, Inv, Locals, Resume, Ending, Tearing, Flowing
    <3> QED
      BY <1>20, <3>1 DEF FlowCompute, Got, Resume, Ending, Tearing, Models
  <2>2. \A k \in Models : graph'[k].sched = graph[k].sched
    BY <1>20 DEF FlowCompute, Inv, Typing, Models
  <2>3. UNCHANGED <<policy, device, model>>
    BY <1>20 DEF FlowCompute, world
  <2> QED
    BY <2>1, <2>2, <2>3, WhereItRan DEF Inv, OnGpu, Mandatory, Open, Models
<1>21. CASE DecoderBuild
  BY <1>21 DEF Inv, DecoderBuild, OnGpu, Typing, Ending, Resume, Tearing, Mandatory,
     Open, Models, world, FreshGraph, NoGraph, NoScheduler, Closing
<1>22. CASE DecoderAllocate
  <2>1. Resume' \in {"decoderUpload", "failed"}
    BY <1>22, DecoderAllocates, Tears DEF Resume, Ending, Tearing, Models
  <2>2. Mandatory => \A m \in Models : graph'[m].sched.valid => graph'[m].sched.required
    BY <1>22, DecoderAllocates DEF Inv, OnGpu
  <2>3. UNCHANGED <<policy, device, model>>
    BY <1>22, DecoderAllocates DEF world
  <2> QED
    BY <2>1, <2>2, <2>3 DEF Inv, OnGpu, Mandatory, Open
<1>23. CASE DecoderUpload
  BY <1>23 DEF Inv, DecoderUpload, OnGpu, Typing, Ending, Resume, Tearing, Mandatory,
     Open, Models, world
<1>24. CASE DecoderCompute
  <2>1. \/ Resume' = "failed"
        \/ Resume' = "logits" /\ CanRun("decoder") /\ call'.on = graph["decoder"].sched.placed
    <3>1. "on" \in DOMAIN call
      BY <1>24 DEF DecoderCompute, Inv, Locals, Resume, Ending, Tearing, Decoding
    <3> QED
      BY <1>24, <3>1 DEF DecoderCompute, Got, Resume, Ending, Tearing, Models
  <2>2. \A k \in Models : graph'[k].sched = graph[k].sched
    BY <1>24 DEF DecoderCompute, Inv, Typing, Models
  <2>3. UNCHANGED <<policy, device, model>>
    BY <1>24 DEF DecoderCompute, world
  <2> QED
    BY <2>1, <2>2, <2>3, WhereItRan DEF Inv, OnGpu, Mandatory, Open, Models
<1>25. CASE DinoBuild
  BY <1>25 DEF Inv, DinoBuild, OnGpu, Typing, Ending, Resume, Tearing, Mandatory,
     Open, Models, world, FreshGraph, NoGraph, NoScheduler, Closing
<1>26. CASE DinoAllocate
  <2>1. Resume' \in {"dinoCompute", "failed"}
    BY <1>26, DinoAllocates, LeavesScope DEF Resume, Ending, Tearing, Models
  <2>2. Mandatory => \A m \in Models : graph'[m].sched.valid => graph'[m].sched.required
    BY <1>26, DinoAllocates DEF Inv, OnGpu
  <2>3. UNCHANGED <<policy, device, model>>
    BY <1>26, DinoAllocates DEF world
  <2> QED
    BY <2>1, <2>2, <2>3 DEF Inv, OnGpu, Mandatory, Open
<1>27. CASE DinoCompute
  <2>1. \/ Resume' = "failed"
        \/ Resume' = "features" /\ CanRun("dino") /\ call'.on = graph["dino"].sched.placed
    <3>1. "on" \in DOMAIN call
      BY <1>27 DEF DinoCompute, Inv, Locals, Resume, Ending, Tearing, Encoding, WithDino
    <3> QED
      BY <1>27, <3>1, LeavesScope DEF DinoCompute, Got, Resume, Ending, Tearing, Models
  <2>2. \A k \in Models : graph'[k].sched = graph[k].sched
    BY <1>27 DEF DinoCompute, Inv, Typing, Models
  <2>3. UNCHANGED <<policy, device, model>>
    BY <1>27 DEF DinoCompute, world
  <2> QED
    BY <2>1, <2>2, <2>3, WhereItRan DEF Inv, OnGpu, Mandatory, Open, Models
<1>28. CASE NafGpu
  BY <1>28 DEF Inv, NafGpu, OnGpu, Typing, Ending, Resume, Tearing, Mandatory, Open,
     Models, world, Managers
<1>29. CASE NafInit
  BY <1>29 DEF Inv, NafInit, OnGpu, Typing, Ending, Resume, Tearing, Mandatory, Open,
     Models, world
<1>30. CASE GiveUp
  BY <1>30 DEF Inv, GiveUp, OnGpu, Typing, Ending, Resume, Tearing, Mandatory, Open,
     Models, world, WithoutGpu
<1>31. CASE GiveUpManager
  BY <1>31 DEF Inv, GiveUpManager, OnGpu, Typing, Ending, Resume, Tearing, Mandatory,
     Open, Models, world, WithoutGpu
<1>32. CASE ConvBuild
  BY <1>32 DEF Inv, ConvBuild, OnGpu, Typing, Ending, Resume, Tearing, Mandatory,
     Open, Models, world, FreshGraph, NoGraph, NoScheduler, Closing
<1>33. CASE ConvAllocate
  <2>1. Resume' \in {"convCompute", "giveUp"}
    BY <1>33, ConvAllocates, LeavesScope DEF Resume, Ending, Tearing, Models
  <2>2. Mandatory => \A m \in Models : graph'[m].sched.valid => graph'[m].sched.required
    BY <1>33, ConvAllocates DEF Inv, OnGpu
  <2>3. UNCHANGED <<policy, device, model>>
    BY <1>33, ConvAllocates DEF world
  <2> QED
    BY <2>1, <2>2, <2>3 DEF Inv, OnGpu, Mandatory, Open
<1>34. CASE ConvCompute
  <2>1. \/ Resume' = "giveUp"
        \/ Resume' = "convolved" /\ CanRun("naf") /\ call'.on = graph["naf"].sched.placed
    <3>1. "on" \in DOMAIN call
      BY <1>34 DEF ConvCompute, Inv, Locals, Resume, Ending, Tearing, Encoding, WithNaf, Convolving
    <3> QED
      BY <1>34, <3>1, LeavesScope DEF ConvCompute, Got, Resume, Ending, Tearing, Models
  <2>2. \A k \in Models : graph'[k].sched = graph[k].sched
    BY <1>34 DEF ConvCompute, Inv, Typing, Models
  <2>3. UNCHANGED <<policy, device, model>>
    BY <1>34 DEF ConvCompute, world
  <2> QED
    BY <2>1, <2>2, <2>3, WhereItRan DEF Inv, OnGpu, Mandatory, Open, Models
<1>35. CASE Move
  BY <1>35, Moves DEF Inv, OnGpu, Resume, Mandatory, Open, world
<1>36. CASE UNCHANGED vars
  BY <1>36 DEF Inv, vars, OnGpu, Typing, Ending, Resume, Tearing, Mandatory, Open,
     Models, world
<1> QED
  BY <1>1, <1>2, <1>3, <1>4, <1>5, <1>6, <1>7, <1>8, <1>9, <1>10, <1>11, <1>12, <1>13,
     <1>14, <1>15, <1>16, <1>17, <1>18, <1>19, <1>20, <1>21, <1>22, <1>23, <1>24,
     <1>25, <1>26, <1>27, <1>28, <1>29, <1>30, <1>31, <1>32, <1>33, <1>34, <1>35,
     <1>36 DEF Next, Move

(* Nothing is held that the step does not account for.                     *)
LEMMA HoldingKept == ASSUME Inv, [Next]_vars PROVE Holding'
<1>1. CASE \E m \in Models : Close(m)
  BY <1>1 DEF Inv, Close, Holding, Typing, Ending, Tearing, Loading, Models, Keeping,
     Begin
<1>2. CASE \E m \in Models, full \in BOOLEAN : Load(m, full)
  BY <1>2 DEF Inv, Load, Holding, Typing, Ending, Tearing, Loading, Models, Keeping,
     Begin
<1>3. CASE \E tokens, strength, inside : Sample(tokens, strength, inside)
  BY <1>3 DEF Inv, Sample, Holding, Typing, Ending, Tearing, Loading, Models, Keeping,
     Begin
<1>4. CASE Decode
  BY <1>4 DEF Inv, Decode, Holding, Typing, Ending, Tearing, Loading, Models, Keeping,
     Begin
<1>5. CASE \E wanted : Encode(wanted)
  BY <1>5 DEF Inv, Encode, Holding, Typing, Ending, Tearing, Loading, Models, Keeping,
     Begin
<1>6. CASE OpenPack
  <2>1. /\ call.model \in Models /\ call.model # "naf" /\ UNCHANGED graph
        /\ pc = "openPack" /\ graph[call.model] = NoGraph /\ model[call.model] = Closed
        /\ \A k \in Models : k # call.model => model'[k] = model[k]
    BY <1>6, Opens DEF OpenPack, Inv, Holding, Loading
  <2>2. \/ pc' = "freeFirst" /\ closing'.m = call.model /\ closing'.all = TRUE
        \/ pc' = "openManager" /\ call' = call /\ model'[call.model].loaded = "no"
        \/ pc' = "idle" /\ model'[call.model].loaded = "meta"
    BY <1>6, Opens, Tears
  <2> QED
    BY <2>1, <2>2 DEF Inv, Holding, Ending, Tearing, Loading, Models, Keeping
<1>7. CASE OpenNaf
  <2>1. call.model = "naf" /\ pc = "openNaf" /\ UNCHANGED graph /\ graph["naf"] = NoGraph
    BY <1>7 DEF OpenNaf, Inv, Locals, Holding, Resume, Ending, Tearing, Loading
  <2>2. \/ /\ pc' = "freeFirst" /\ closing'.m = "naf" /\ closing'.all = TRUE
           /\ model' = model
        \/ /\ pc' = "idle" /\ model'["naf"].loaded # "no"
           /\ \A k \in Models : k # "naf" => model'[k] = model[k]
    <3>1. CASE Closing("naf", TRUE, "failed") /\ UNCHANGED model
      BY <2>1, <3>1, Tears DEF Models
    <3>2. CASE Loaded("data") \/ Loaded("meta")
      BY <2>1, <3>2 DEF Loaded, Return, Inv, Typing, Models
    <3> QED
      BY <1>7, <3>1, <3>2 DEF OpenNaf
  <2> QED
    BY <2>1, <2>2 DEF Inv, Holding, Ending, Tearing, Loading, Models, Keeping
<1>8. CASE OpenManager
  <2>1. /\ UNCHANGED <<graph, call>> /\ pc = "openManager" /\ graph[call.model] = NoGraph
        /\ call.model \in Models /\ model'[call.model].loaded = "no"
        /\ \A k \in Models : k # call.model => model'[k] = model[k]
    BY <1>8, ManagerOpens DEF OpenManager, Inv, Holding, Loading
  <2>2. \/ pc' = "freeFirst" /\ closing'.m = call.model /\ closing'.all = TRUE
        \/ pc' = "allocateWeights"
    BY <1>8, ManagerOpens, Tears
  <2> QED
    BY <2>1, <2>2 DEF Inv, Holding, Ending, Tearing, Loading, Models, Keeping
<1>9. CASE AllocateWeights
  <2>1. /\ UNCHANGED <<graph, call>> /\ pc = "allocateWeights" /\ graph[call.model] = NoGraph
        /\ call.model \in Models /\ model'[call.model].loaded = "no"
        /\ \A k \in Models : k # call.model => model'[k] = model[k]
    BY <1>9, WeightsAllocated DEF AllocateWeights, Inv, Holding, Loading
  <2>2. \/ pc' = "freeFirst" /\ closing'.m = call.model /\ closing'.all = TRUE
        \/ pc' = "readWeights"
    BY <1>9, WeightsAllocated, Tears
  <2> QED
    BY <2>1, <2>2 DEF Inv, Holding, Ending, Tearing, Loading, Models, Keeping
<1>10. CASE ReadWeights
  <2>1. /\ call.model \in Models /\ pc = "readWeights" /\ UNCHANGED graph
        /\ graph[call.model] = NoGraph
    BY <1>10 DEF ReadWeights, Inv, Locals, Holding, Resume, Ending, Tearing, Loading
  <2>2. \/ /\ pc' = "freeFirst" /\ closing'.m = call.model /\ closing'.all = TRUE
           /\ model' = model
        \/ /\ pc' = "idle" /\ model'[call.model].loaded = "data"
           /\ \A k \in Models : k # call.model => model'[k] = model[k]
    <3>1. CASE Closing(call.model, TRUE, "failed") /\ UNCHANGED model
      BY <2>1, <3>1, Tears
    <3>2. CASE Loaded("data")
      BY <2>1, <3>2 DEF Loaded, Return, Inv, Typing
    <3> QED
      BY <1>10, <3>1, <3>2 DEF ReadWeights
  <2> QED
    BY <2>1, <2>2 DEF Inv, Holding, Ending, Tearing, Loading, Models, Keeping
<1>11. CASE FreeFirst
  <2>1. /\ closing.m \in Models /\ closing' = closing /\ model' = model
        /\ pc = "freeFirst" /\ pc' = "freeGraph"
        /\ graph'[closing.m] = FirstFreed(graph[closing.m])
        /\ \A k \in Models : k # closing.m => graph'[k] = graph[k]
    BY <1>11 DEF FreeFirst, m0, Inv, ClosingFor, Typing, Ending, Tearing
  <2> QED
    BY <2>1, NothingToFree DEF Inv, Holding, Ending, Tearing, Loading, Models, Keeping
<1>12. CASE FreeGraph
  <2>1. /\ closing.m \in Models /\ closing' = closing /\ model' = model /\ call' = call
        /\ pc = "freeGraph" /\ graph'[closing.m] = NoGraph
        /\ \A k \in Models : k # closing.m => graph'[k] = graph[k]
    BY <1>12 DEF FreeGraph, Freed, m0, Inv, ClosingFor, Typing, Ending, Tearing
  <2>2. \/ closing.all /\ pc' = "freeBuffer"
        \/ ~closing.all /\ pc' \in {"flowBuild", "failed"}
    BY <1>12 DEF FreeGraph, Inv, ClosingFor, Ending, Tearing
  <2> QED
    BY <2>1, <2>2 DEF Inv, Holding, Ending, Tearing, Loading, Models, Keeping
<1>13. CASE FreeBuffer
  <2>1. /\ closing.m \in Models /\ closing.all /\ closing' = closing /\ graph' = graph
        /\ pc = "freeBuffer" /\ pc' = "freeManager"
        /\ \A k \in Models : k # closing.m => model'[k] = model[k]
    BY <1>13 DEF FreeBuffer, m0, Inv, ClosingFor, Typing, Ending, Tearing
  <2> QED
    BY <2>1 DEF Inv, Holding, Ending, Tearing, Loading, Models, Keeping
<1>14. CASE FreeManager
  <2>1. /\ closing.m \in Models /\ graph' = graph /\ call' = call
        /\ pc = "freeManager" /\ pc' = closing.after
        /\ pc' \in {"openPack", "openNaf", "failed", "closed"}
        /\ model'[closing.m] = Closed
        /\ \A k \in Models : k # closing.m => model'[k] = model[k]
    BY <1>14 DEF FreeManager, m0, Inv, ClosingFor, Typing, Ending, Tearing
  <2>2. pc' \in {"openPack", "openNaf"} => call.model = closing.m
    BY <2>1 DEF Inv, Locals, Resume, Ending, Tearing, Loading
  <2> QED
    BY <2>1, <2>2, ClosedHasNothing
       DEF Inv, Holding, Ending, Tearing, Loading, Models, Keeping
<1>15. CASE ScopeEnd
  <2>1. /\ closing.m \in Models /\ model' = model /\ pc = "scopeEnd"
        /\ pc' \in {"failed", "features", "giveUp", "convolved"}
        /\ graph'[closing.m] = NoGraph
        /\ \A k \in Models : k # closing.m => graph'[k] = graph[k]
    BY <1>15 DEF ScopeEnd, Freed, m0, Inv, ClosingFor, Typing, Ending, Tearing
  <2> QED
    BY <2>1 DEF Inv, Holding, Ending, Tearing, Loading, Models, Keeping
<1>16. CASE Forward
  BY <1>16 DEF Inv, Forward, Holding, Typing, Ending, Tearing, Loading, Models,
     Keeping, Closing
<1>17. CASE FlowBuild
  <2>1. /\ UNCHANGED model /\ model["flow"].loaded = "data"
        /\ \A k \in Models : k # "flow" => graph'[k] = graph[k]
        /\ ~Ending /\ pc = "flowBuild"
    BY <1>17 DEF FlowBuild, Typing, Models, Inv, Loadedness, Resume, Ending, Tearing, Loading,
       Flowing, Decoding, WithDino, WithNaf, Convolving
  <2>2. \/ pc' = "failed" /\ UNCHANGED graph
        \/ pc' = "flowAllocate"
    BY <1>17 DEF FlowBuild, Closing
  <2>3. CASE UNCHANGED graph /\ pc' \in {"failed", "giveUp"}
    BY <2>1, <2>3 DEF Inv, Holding, Ending, Tearing, Loading, Models, Keeping
  <2> QED
    BY <2>1, <2>2, <2>3, OneHolder DEF Models, Keeping, Loading
<1>18. CASE FlowAllocate
  <2>1. /\ model["flow"].loaded = "data" /\ ~Ending /\ pc = "flowAllocate"
    BY <1>18 DEF FlowAllocate, Inv, Loadedness, Resume, Ending, Tearing, Loading,
       Flowing, Decoding, WithDino, WithNaf, Convolving
  <2>2. \/ pc' = "flowUpload" /\ graph'["flow"].ctx /\ graph'["flow"].sched.valid
        \/ pc' = "scopeEnd" /\ closing'.m = "flow"
    BY <1>18, FlowAllocates, LeavesScope DEF FlowAllocate, Inv, Order, Models
  <2>3. UNCHANGED model /\ \A k \in Models : k # "flow" => graph'[k] = graph[k]
    BY <1>18, FlowAllocates
  <2> QED
    BY <2>1, <2>2, <2>3, OneHolder DEF Models, Keeping, Loading
<1>19. CASE FlowUpload
  <2>1. /\ model["flow"].loaded = "data" /\ ~Ending /\ pc = "flowUpload" /\ UNCHANGED model
        /\ \A k \in Models : k # "flow" => graph'[k] = graph[k]
    BY <1>19 DEF FlowUpload, Typing, Models, Inv, Loadedness, Resume, Ending, Tearing, Loading,
       Flowing, Decoding, WithDino, WithNaf, Convolving
  <2>2. graph["flow"].ctx /\ graph["flow"].sched.valid
    BY <2>1, NoGraphHasNothing DEF Inv, Holding, Order, Keeping, Ending
  <2>3. graph'["flow"].ctx /\ graph'["flow"].sched.valid
    BY <1>19, <2>2 DEF FlowUpload, Inv, Typing, Models
  <2> QED
    BY <1>19, <2>1, <2>3, OneHolder DEF FlowUpload, Models, Keeping, Loading
<1>20. CASE FlowCompute
  BY <1>20 DEF Inv, FlowCompute, Holding, Typing, Ending, Tearing, Loading, Models,
     Keeping, Loadedness, Resume, Flowing, Order
<1>21. CASE DecoderBuild
  <2>1. /\ UNCHANGED model /\ model["decoder"].loaded = "data"
        /\ \A k \in Models : k # "decoder" => graph'[k] = graph[k]
        /\ ~Ending /\ pc = "decoderBuild"
    BY <1>21 DEF DecoderBuild, Typing, Models, Inv, Loadedness, Resume, Ending, Tearing, Loading,
       Flowing, Decoding, WithDino, WithNaf, Convolving
  <2>2. \/ pc' = "failed" /\ UNCHANGED graph
        \/ pc' = "decoderAllocate"
        \/ pc' = "freeFirst" /\ closing'.m = "decoder"
    BY <1>21, Tears DEF DecoderBuild, Closing
  <2>3. CASE UNCHANGED graph /\ pc' \in {"failed", "giveUp"}
    BY <2>1, <2>3 DEF Inv, Holding, Ending, Tearing, Loading, Models, Keeping
  <2> QED
    BY <2>1, <2>2, <2>3, OneHolder DEF Models, Keeping, Loading
<1>22. CASE DecoderAllocate
  <2>1. /\ model["decoder"].loaded = "data" /\ ~Ending /\ pc = "decoderAllocate"
    BY <1>22 DEF DecoderAllocate, Inv, Loadedness, Resume, Ending, Tearing, Loading,
       Flowing, Decoding, WithDino, WithNaf, Convolving
  <2>2. \/ pc' = "decoderUpload" /\ graph'["decoder"].ctx /\ graph'["decoder"].sched.valid
        \/ pc' = "freeFirst" /\ closing'.m = "decoder"
    BY <1>22, DecoderAllocates, Tears DEF DecoderAllocate, Inv, Order, Models
  <2>3. UNCHANGED model /\ \A k \in Models : k # "decoder" => graph'[k] = graph[k]
    BY <1>22, DecoderAllocates
  <2> QED
    BY <2>1, <2>2, <2>3, OneHolder DEF Models, Keeping, Loading
<1>23. CASE DecoderUpload
  <2>1. /\ model["decoder"].loaded = "data" /\ ~Ending /\ pc = "decoderUpload" /\ UNCHANGED model
        /\ \A k \in Models : k # "decoder" => graph'[k] = graph[k]
    BY <1>23 DEF DecoderUpload, Typing, Models, Inv, Loadedness, Resume, Ending, Tearing, Loading,
       Flowing, Decoding, WithDino, WithNaf, Convolving
  <2>2. graph["decoder"].ctx /\ graph["decoder"].sched.valid
    BY <2>1, NoGraphHasNothing DEF Inv, Holding, Order, Keeping, Ending
  <2>3. graph'["decoder"].ctx /\ graph'["decoder"].sched.valid
    BY <1>23, <2>2 DEF DecoderUpload, Inv, Typing, Models
  <2> QED
    BY <1>23, <2>1, <2>3, OneHolder DEF DecoderUpload, Models, Keeping, Loading
<1>24. CASE DecoderCompute
  BY <1>24 DEF Inv, DecoderCompute, Holding, Typing, Ending, Tearing, Loading, Models,
     Keeping, Loadedness, Resume, Decoding, Order
<1>25. CASE DinoBuild
  <2>1. /\ UNCHANGED model /\ model["dino"].loaded = "data"
        /\ \A k \in Models : k # "dino" => graph'[k] = graph[k]
        /\ ~Ending /\ pc = "dinoBuild"
    BY <1>25 DEF DinoBuild, Typing, Models, Inv, Loadedness, Resume, Ending, Tearing, Loading,
       Flowing, Decoding, WithDino, WithNaf, Convolving
  <2>2. \/ pc' = "failed" /\ UNCHANGED graph
        \/ pc' = "dinoAllocate"
    BY <1>25 DEF DinoBuild, Closing
  <2>3. CASE UNCHANGED graph /\ pc' \in {"failed", "giveUp"}
    BY <2>1, <2>3 DEF Inv, Holding, Ending, Tearing, Loading, Models, Keeping
  <2>4. CASE pc' = "dinoAllocate"
    BY <2>1, <2>4 DEF Inv, Holding, Ending, Tearing, Loading, Models, Keeping
  <2> QED
    BY <2>2, <2>3, <2>4
<1>26. CASE DinoAllocate
  <2>1. /\ model["dino"].loaded = "data" /\ ~Ending /\ pc = "dinoAllocate"
    BY <1>26 DEF DinoAllocate, Inv, Loadedness, Resume, Ending, Tearing, Loading,
       Flowing, Decoding, WithDino, WithNaf, Convolving
  <2>2. \/ pc' = "dinoCompute"
        \/ pc' = "scopeEnd" /\ closing'.m = "dino"
    BY <1>26, DinoAllocates, LeavesScope DEF DinoAllocate, Inv, Order, Models
  <2>3. UNCHANGED model /\ \A k \in Models : k # "dino" => graph'[k] = graph[k]
    BY <1>26, DinoAllocates
  <2> QED
    BY <2>1, <2>2, <2>3, OneHolder DEF Models, Keeping, Loading
<1>27. CASE DinoCompute
  BY <1>27 DEF Inv, DinoCompute, Holding, Typing, Ending, Tearing, Loading, Models,
     Keeping, LeaveScope, Loadedness, Resume, WithDino, WithNaf, Convolving
<1>28. CASE NafGpu
  <2>1. /\ graph' = graph /\ pc = "nafGpu" /\ pc' \in {"convBuild", "nafInit", "noGpu"}
        /\ model["naf"].loaded = "data"
    BY <1>28 DEF NafGpu, Inv, Loadedness, Resume, Ending, Tearing, Loading,
       Flowing, Decoding, WithDino, WithNaf, Convolving
  <2>2. /\ model'["naf"].loaded = "data"
        /\ \A k \in Models : k # "naf" => model'[k] = model[k]
    BY <1>28, <2>1 DEF NafGpu, Inv, Typing, Models
  <2> QED
    BY <2>1, <2>2 DEF Inv, Holding, Ending, Tearing, Loading, Models, Keeping
<1>29. CASE NafInit
  BY <1>29 DEF Inv, NafInit, Holding, Typing, Ending, Tearing, Loading, Models,
     Keeping, Loadedness, WithNaf, Resume
<1>30. CASE GiveUp
  BY <1>30 DEF Inv, GiveUp, Holding, Typing, Ending, Tearing, Loading, Models,
     Keeping, WithoutGpu, Loadedness, WithNaf, Resume
<1>31. CASE GiveUpManager
  BY <1>31 DEF Inv, GiveUpManager, Holding, Typing, Ending, Tearing, Loading, Models,
     Keeping, WithoutGpu, Loadedness, WithNaf, Resume
<1>32. CASE ConvBuild
  <2>1. /\ UNCHANGED model /\ model["naf"].loaded = "data"
        /\ \A k \in Models : k # "naf" => graph'[k] = graph[k]
        /\ ~Ending /\ pc = "convBuild"
    BY <1>32 DEF ConvBuild, Typing, Models, Inv, Loadedness, Resume, Ending, Tearing, Loading,
       Flowing, Decoding, WithDino, WithNaf, Convolving
  <2>2. \/ pc' = "giveUp" /\ UNCHANGED graph
        \/ pc' = "convAllocate"
    BY <1>32 DEF ConvBuild, Closing
  <2>3. CASE UNCHANGED graph /\ pc' \in {"failed", "giveUp"}
    BY <2>1, <2>3 DEF Inv, Holding, Ending, Tearing, Loading, Models, Keeping
  <2>4. CASE pc' = "convAllocate"
    BY <2>1, <2>4 DEF Inv, Holding, Ending, Tearing, Loading, Models, Keeping
  <2> QED
    BY <2>2, <2>3, <2>4
<1>33. CASE ConvAllocate
  <2>1. /\ model["naf"].loaded = "data" /\ ~Ending /\ pc = "convAllocate"
    BY <1>33 DEF ConvAllocate, Inv, Loadedness, Resume, Ending, Tearing, Loading,
       Flowing, Decoding, WithDino, WithNaf, Convolving
  <2>2. \/ pc' = "convCompute"
        \/ pc' = "scopeEnd" /\ closing'.m = "naf"
    BY <1>33, ConvAllocates, LeavesScope DEF ConvAllocate, Inv, Order, Models
  <2>3. UNCHANGED model /\ \A k \in Models : k # "naf" => graph'[k] = graph[k]
    BY <1>33, ConvAllocates
  <2> QED
    BY <2>1, <2>2, <2>3, OneHolder DEF Models, Keeping, Loading
<1>34. CASE ConvCompute
  BY <1>34 DEF Inv, ConvCompute, Holding, Typing, Ending, Tearing, Loading, Models,
     Keeping, LeaveScope, Loadedness, Resume, WithDino, WithNaf, Convolving
<1>35. CASE Move
  BY <1>35, Moves DEF Inv, Holding, Ending, Tearing, Loading
<1>36. CASE UNCHANGED vars
  BY <1>36 DEF Inv, vars, Holding, Typing, Ending, Tearing, Loading, Models, Keeping
<1> QED
  BY <1>1, <1>2, <1>3, <1>4, <1>5, <1>6, <1>7, <1>8, <1>9, <1>10, <1>11, <1>12, <1>13,
     <1>14, <1>15, <1>16, <1>17, <1>18, <1>19, <1>20, <1>21, <1>22, <1>23, <1>24,
     <1>25, <1>26, <1>27, <1>28, <1>29, <1>30, <1>31, <1>32, <1>33, <1>34, <1>35,
     <1>36 DEF Next, Move

(* Inputs and results are those of the running call.                       *)
LEMMA ContentsKept == ASSUME Inv, [Next]_vars PROVE Contents'
<1>1. CASE \E m \in Models : Close(m)
  BY <1>1 DEF Inv, Close, Contents, Typing, Ending, Resume, Tearing, Models, Begin
<1>2. CASE \E m \in Models, full \in BOOLEAN : Load(m, full)
  BY <1>2 DEF Inv, Load, Contents, Typing, Ending, Resume, Tearing, Models, Begin
<1>3. CASE \E tokens, strength, inside : Sample(tokens, strength, inside)
  BY <1>3 DEF Inv, Sample, Contents, Typing, Ending, Resume, Tearing, Models, Begin
<1>4. CASE Decode
  BY <1>4 DEF Inv, Decode, Contents, Typing, Ending, Resume, Tearing, Models, Begin
<1>5. CASE \E wanted : Encode(wanted)
  BY <1>5 DEF Inv, Encode, Contents, Typing, Ending, Resume, Tearing, Models, Begin
<1>6. CASE OpenPack
  <2>1. pc' \in {"freeFirst", "openManager", "idle"} /\ (Ending' => closing'.after = "failed")
    BY <1>6, Opens, Tears DEF Ending, Tearing
  <2> QED
    BY <2>1, <1>6, Opens DEF Inv, Contents, Resume, Ending, Tearing
<1>7. CASE OpenNaf
  BY <1>7 DEF Inv, OpenNaf, Contents, Typing, Ending, Resume, Tearing, Models,
     Closing, Loaded, Return
<1>8. CASE OpenManager
  BY <1>8 DEF Inv, OpenManager, Contents, Typing, Ending, Resume, Tearing, Models,
     Closing, Loaded, Return
<1>9. CASE AllocateWeights
  BY <1>9 DEF Inv, AllocateWeights, Contents, Typing, Ending, Resume, Tearing, Models,
     Closing, Loaded, Return
<1>10. CASE ReadWeights
  BY <1>10 DEF Inv, ReadWeights, Contents, Typing, Ending, Resume, Tearing, Models,
     Closing, Loaded, Return
<1>11. CASE FreeFirst
  BY <1>11 DEF Inv, FreeFirst, Contents, Typing, Ending, Resume, Tearing, Models,
     ClosingFor, m0, FirstFreed, Freed, NoGraph
<1>12. CASE FreeGraph
  BY <1>12 DEF Inv, FreeGraph, Contents, Typing, Ending, Resume, Tearing, Models,
     ClosingFor, m0, FirstFreed, Freed, NoGraph
<1>13. CASE FreeBuffer
  BY <1>13 DEF Inv, FreeBuffer, Contents, Typing, Ending, Resume, Tearing, Models,
     ClosingFor, m0, FirstFreed, Freed, NoGraph
<1>14. CASE FreeManager
  BY <1>14 DEF Inv, FreeManager, Contents, Typing, Ending, Resume, Tearing, Models,
     ClosingFor, m0, FirstFreed, Freed, NoGraph
<1>15. CASE ScopeEnd
  <2>1. closing.m \in Models /\ pc = "scopeEnd" /\ pc' = closing.after
        /\ pc' \in {"failed", "features", "giveUp", "convolved"}
    BY <1>15 DEF ScopeEnd, Inv, ClosingFor, Ending
  <2>2. UNCHANGED <<model, call, calls>>
    BY <1>15 DEF ScopeEnd
  <2>3. \A m \in Models : Wants(m)' = Wants(m)
    BY <2>2, SameWants DEF Value, n
  <2>4. graph'["flow"] = NoGraph \/ graph'["flow"] = graph["flow"]
    BY <1>15, <2>1 DEF ScopeEnd, m0, Freed, Inv, Typing, Models
  <2> QED
    BY <2>1, <2>2, <2>3, <2>4, NoGraphHasNothing DEF Inv, Contents, Resume, Ending, Tearing,
       Models
<1>16. CASE Forward
  <2>1. \/ pc' = "flowUpload" /\ graph["flow"].tokens = call.tokens
        \/ pc' = "freeFirst" /\ closing'.after = "flowBuild"
    BY <1>16, Tears DEF Forward, RuntimeMatches, Models
  <2>2. UNCHANGED <<graph, call>>
    BY <1>16 DEF Forward
  <2> QED
    BY <2>1, <2>2 DEF Inv, Contents, Resume, Ending, Tearing
<1>17. CASE FlowBuild
  BY <1>17 DEF Inv, FlowBuild, Contents, Typing, Ending, Resume, Tearing, Models,
     FreshGraph, NoGraph, Closing
<1>18. CASE FlowAllocate
  <2>1. pc' = "flowUpload" \/ (pc' = "scopeEnd" /\ closing'.after = "failed")
    BY <1>18, FlowAllocates, LeavesScope DEF Models
  <2> QED
    BY <1>18, <2>1, FlowAllocates DEF LeaveScope, Inv, Contents, Resume, Ending, Tearing
<1>19. CASE FlowUpload
  BY <1>19 DEF Inv, FlowUpload, Contents, Typing, Ending, Resume, Tearing, Models,
     Holds, Declared, Value, Uploaded, Inputs, n
<1>20. CASE FlowCompute
  <2>1. DOMAIN call = {"op", "tokens", "strength", "inside", "step", "todo", "got", "on"}
    BY <1>20 DEF FlowCompute, Inv, Locals, Resume, Ending, Tearing, Flowing
  <2>2. \/ Resume' = "failed"
        \/ /\ Resume' = "velocity" /\ call'.got = Result("flow")
           /\ call'.tokens = call.tokens /\ call'.step = call.step
           /\ call'.todo = call.todo
    BY <1>20, <2>1 DEF FlowCompute, Got, Resume, Ending, Tearing, Models
  <2>3. /\ UNCHANGED <<model, calls>> /\ "flow" \in Models /\ Holds("flow")
        /\ graph'["flow"] = graph["flow"] /\ pc' \in {"velocity", "failed"}
    BY <1>20 DEF FlowCompute, Inv, Contents, Typing, Models
  <2>4. CASE Resume' = "failed"
    BY <2>3, <2>4 DEF Inv, Contents, Resume, Ending, Tearing
  <2>5. CASE Resume' = "velocity"
    <3>1. \A i \in Declared("flow") : Value(i)' = Value(i)
      BY <2>2, <2>3, <2>5 DEF Declared, Value, n, NextStage
    <3>2. call'.got = Wants("flow")'
      BY <2>2, <2>3, <2>5, <3>1, Reads
    <3> QED
      BY <1>20, <2>2, <2>3, <2>5, <3>2 DEF FlowCompute, Inv, Contents, Ending, Tearing
  <2> QED
    BY <2>2, <2>4, <2>5
<1>21. CASE DecoderBuild
  <2>1. \/ pc' \in {"failed", "decoderAllocate"}
        \/ pc' = "freeFirst" /\ closing'.after = "failed"
    BY <1>21, Tears DEF DecoderBuild, Models
  <2>2. graph'["flow"] = graph["flow"]
    BY <1>21 DEF DecoderBuild, Inv, Typing, Models
  <2> QED
    BY <2>1, <2>2 DEF Inv, Contents, Resume, Ending, Tearing
<1>22. CASE DecoderAllocate
  <2>1. pc' = "decoderUpload" \/ (pc' = "freeFirst" /\ closing'.after = "failed")
    <3>1. CASE Closing("decoder", FALSE, "failed")
      BY <3>1, Tears DEF Models
    <3> QED
      BY <1>22, <3>1, DecoderAllocates
  <2> QED
    BY <1>22, <2>1, DecoderAllocates DEF Inv, Contents, Resume, Ending, Tearing, Models
<1>23. CASE DecoderUpload
  BY <1>23 DEF Inv, DecoderUpload, Contents, Typing, Ending, Resume, Tearing, Models,
     Holds, Declared, Value, Uploaded, Inputs, n
<1>24. CASE DecoderCompute
  <2>1. DOMAIN call = {"op", "got", "on"}
    BY <1>24 DEF DecoderCompute, Inv, Locals, Resume, Ending, Tearing, Decoding
  <2>2. \/ Resume' = "failed"
        \/ /\ Resume' = "logits" /\ call'.got = Result("decoder")
    BY <1>24, <2>1 DEF DecoderCompute, Got, Resume, Ending, Tearing, Models
  <2>3. /\ UNCHANGED <<model, calls>> /\ "decoder" \in Models /\ Holds("decoder")
        /\ graph'["flow"] = graph["flow"] /\ pc' \in {"logits", "failed"}
    BY <1>24 DEF DecoderCompute, Inv, Contents, Typing, Models
  <2>4. CASE Resume' = "failed"
    BY <2>3, <2>4 DEF Inv, Contents, Ending, Tearing
  <2>5. CASE Resume' = "logits"
    <3>1. \A i \in Declared("decoder") : Value(i)' = Value(i)
      BY <2>2, <2>3, <2>5 DEF Declared, Value, n, NextStage
    <3>2. call'.got = Wants("decoder")'
      BY <2>2, <2>3, <2>5, <3>1, Reads
    <3> QED
      BY <1>24, <2>2, <2>3, <2>5, <3>2 DEF DecoderCompute, Inv, Contents, Ending, Tearing
  <2> QED
    BY <2>2, <2>4, <2>5
<1>25. CASE DinoBuild
  BY <1>25 DEF Inv, DinoBuild, Contents, Typing, Ending, Resume, Tearing, Models,
     FreshGraph, NoGraph, Closing
<1>26. CASE DinoAllocate
  <2>1. \/ pc' = "dinoCompute" /\ Holds("dino")'
        \/ pc' = "scopeEnd" /\ closing'.after = "failed"
    <3>1. CASE LeaveScope("dino", "failed")
      BY <3>1, LeavesScope DEF Models
    <3> QED
      BY <1>26, <3>1, DinoAllocates
  <2> QED
    BY <1>26, <2>1, DinoAllocates DEF Inv, Contents, Resume, Ending, Tearing, Models
<1>27. CASE DinoCompute
  <2>1. DOMAIN call = {"op", "wanted", "out", "got", "on", "dino", "stack", "conv", "stacks"}
    BY <1>27 DEF DinoCompute, Inv, Locals, Resume, Ending, Tearing, Encoding, WithDino
  <2>2. \/ Resume' = "failed"
        \/ /\ Resume' = "features" /\ call'.got = Result("dino")
           /\ call'.out = call.out
    BY <1>27, <2>1, LeavesScope DEF DinoCompute, Got, Resume, Ending, Tearing, Models
  <2>3. /\ UNCHANGED <<model, calls>> /\ "dino" \in Models /\ Holds("dino")
        /\ graph'["flow"] = graph["flow"] /\ pc' \in {"scopeEnd"}
    BY <1>27, LeavesScope DEF DinoCompute, Inv, Contents, Typing, Models
  <2>4. CASE Resume' = "failed"
    BY <2>3, <2>4 DEF Inv, Contents, Ending, Tearing
  <2>5. CASE Resume' = "features"
    <3>1. \A i \in Declared("dino") : Value(i)' = Value(i)
      BY <2>2, <2>3, <2>5 DEF Declared, Value, n, NextStage
    <3>2. call'.got = Wants("dino")'
      BY <2>2, <2>3, <2>5, <3>1, Reads
    <3> QED
      BY <1>27, <2>2, <2>3, <2>5, <3>2 DEF DinoCompute, Inv, Contents, Ending, Tearing
  <2> QED
    BY <2>2, <2>4, <2>5
<1>28. CASE NafGpu
  BY <1>28 DEF Inv, NafGpu, Contents, Typing, Ending, Resume, Tearing, Models
<1>29. CASE NafInit
  BY <1>29 DEF Inv, NafInit, Contents, Typing, Ending, Resume, Tearing, Models
<1>30. CASE GiveUp
  BY <1>30 DEF Inv, GiveUp, Contents, Typing, Ending, Resume, Tearing, Models
<1>31. CASE GiveUpManager
  BY <1>31 DEF Inv, GiveUpManager, Contents, Typing, Ending, Resume, Tearing, Models
<1>32. CASE ConvBuild
  BY <1>32 DEF Inv, ConvBuild, Contents, Typing, Ending, Resume, Tearing, Models,
     FreshGraph, NoGraph, Closing
<1>33. CASE ConvAllocate
  <2>1. \/ pc' = "convCompute" /\ Holds("naf")'
        \/ pc' = "scopeEnd" /\ closing'.after = "giveUp"
    BY <1>33, ConvAllocates, LeavesScope DEF Models
  <2> QED
    BY <1>33, <2>1, ConvAllocates DEF Inv, Contents, Resume, Ending, Tearing, Models
<1>34. CASE ConvCompute
  <2>1. DOMAIN call = {"op", "wanted", "out", "got", "on", "dino", "stack", "conv", "stacks"}
    BY <1>34 DEF ConvCompute, Inv, Locals, Resume, Ending, Tearing, Encoding, WithNaf,
       Convolving
  <2>2. \/ Resume' = "giveUp"
        \/ /\ Resume' = "convolved" /\ call'.got = Result("naf")
           /\ call'.out = call.out /\ call'.stack = call.stack /\ call'.conv = call.conv
    BY <1>34, <2>1, LeavesScope DEF ConvCompute, Got, Resume, Ending, Tearing, Models
  <2>3. /\ UNCHANGED <<model, calls>> /\ "naf" \in Models /\ Holds("naf")
        /\ graph'["flow"] = graph["flow"] /\ pc' \in {"scopeEnd"}
    BY <1>34, LeavesScope DEF ConvCompute, Inv, Contents, Typing, Models
  <2>4. CASE Resume' = "giveUp"
    BY <2>3, <2>4 DEF Inv, Contents, Ending, Tearing
  <2>5. CASE Resume' = "convolved"
    <3>1. \A i \in Declared("naf") : Value(i)' = Value(i)
      BY <2>2, <2>3, <2>5 DEF Declared, Value, n, NextStage
    <3>2. call'.got = Wants("naf")'
      BY <2>2, <2>3, <2>5, <3>1, Reads
    <3> QED
      BY <1>34, <2>2, <2>3, <2>5, <3>2 DEF ConvCompute, Inv, Contents, Ending, Tearing
  <2> QED
    BY <2>2, <2>4, <2>5
<1>35. CASE Move
  BY <1>35, Moves DEF Inv, Contents, Resume
<1>36. CASE UNCHANGED vars
  <2>1. UNCHANGED <<model, graph, pc, closing, call, calls>>
    BY <1>36 DEF vars
  <2>2. \A m \in Models : Declared(m)' = Declared(m) /\ \A i \in Declared(m) : Value(i)' = Value(i)
    BY <2>1 DEF Declared, Value, n, NextStage, Models
  <2>3. \A m \in Models : Wants(m)' = Wants(m) /\ (Holds(m) => Holds(m)')
    BY <2>1, <2>2, SameWants DEF Holds
  <2> QED
    BY <2>1, <2>3 DEF Inv, Contents, Resume, Ending, Tearing, Models
<1> QED
  BY <1>1, <1>2, <1>3, <1>4, <1>5, <1>6, <1>7, <1>8, <1>9, <1>10, <1>11, <1>12, <1>13,
     <1>14, <1>15, <1>16, <1>17, <1>18, <1>19, <1>20, <1>21, <1>22, <1>23, <1>24,
     <1>25, <1>26, <1>27, <1>28, <1>29, <1>30, <1>31, <1>32, <1>33, <1>34, <1>35,
     <1>36 DEF Next, Move

-----------------------------------------------------------------------------
(* The steps that are not part of an encoding.                             *)
Elsewhere ==
    \/ \E m \in Models : Close(m)
    \/ \E m \in Models, full \in BOOLEAN : Load(m, full)
    \/ OpenPack \/ OpenNaf \/ OpenManager \/ AllocateWeights \/ ReadWeights
    \/ FreeFirst \/ FreeGraph \/ FreeBuffer \/ FreeManager \/ CloseDone \/ Failed
    \/ \E tokens, strength, inside : Sample(tokens, strength, inside)
    \/ Step \/ Forward \/ FlowBuild \/ FlowAllocate \/ FlowUpload \/ FlowCompute \/ Velocity
    \/ Decode \/ DecoderBuild \/ DecoderAllocate \/ DecoderUpload \/ DecoderCompute \/ Logits

LEMMA StaysElsewhere ==
  ASSUME Inv, Bundling, Elsewhere
  PROVE  Resume' \notin Encoding /\ calls' \in Nat
<1> USE DEF Encoding, WithDino, WithNaf, Convolving, Resume, Ending, Tearing
<1>1. CASE \E m \in Models : Close(m)
  BY <1>1 DEF Close, Begin, Bundling
<1>2. CASE \E m \in Models, full \in BOOLEAN : Load(m, full)
  BY <1>2 DEF Load, Begin, Bundling
<1>3. CASE \E tokens, strength, inside : Sample(tokens, strength, inside)
  BY <1>3 DEF Sample, Begin, Bundling
<1>4. CASE Decode
  BY <1>4 DEF Decode, Begin, Bundling
<1>5. CASE FreeFirst \/ FreeGraph \/ FreeBuffer \/ FreeManager
  <2>1. UNCHANGED <<closing, calls>> /\ pc \in Tearing
    BY <1>5 DEF FreeFirst, FreeGraph, FreeBuffer, FreeManager
  <2>2. closing.after \in {"openPack", "openNaf", "failed", "closed", "flowBuild"}
    BY <2>1 DEF Inv, ClosingFor
  <2>3. pc' \in Tearing \cup {closing.after}
    BY <1>5 DEF FreeFirst, FreeGraph, FreeBuffer, FreeManager
  <2> QED
    BY <2>1, <2>2, <2>3 DEF Bundling
<1>6. CASE CloseDone \/ Failed \/ Step \/ Velocity \/ Logits
  <2>1. pc' \in {"idle", "forward", "step", "failed"} /\ UNCHANGED calls
    BY <1>6 DEF CloseDone, Failed, Step, Velocity, Logits, Return, Fail
  <2> QED
    BY <2>1 DEF Bundling
<1>7. CASE OpenPack \/ OpenManager \/ AllocateWeights
  <2>1. /\ UNCHANGED calls
        /\ \/ pc' = "freeFirst" /\ closing'.after = "failed"
           \/ pc' \in {"openManager", "idle", "allocateWeights", "readWeights"}
    BY <1>7, Opens, ManagerOpens, WeightsAllocated, Tears
  <2> QED
    BY <2>1 DEF Bundling
<1>8. CASE OpenNaf \/ ReadWeights
  <2>1. /\ UNCHANGED calls
        /\ \/ pc' = "freeFirst" /\ closing'.after = "failed"
           \/ pc' = "idle"
    BY <1>8 DEF OpenNaf, ReadWeights, Closing, Loaded, Return
  <2> QED
    BY <2>1 DEF Bundling
<1>9. CASE Forward \/ DecoderBuild
  <2>1. /\ UNCHANGED calls
        /\ \/ pc' = "freeFirst" /\ closing'.after \in {"flowBuild", "failed"}
           \/ pc' \in {"flowUpload", "failed", "decoderAllocate"}
    BY <1>9 DEF Forward, DecoderBuild, Closing
  <2> QED
    BY <2>1 DEF Bundling
<1>10. CASE FlowAllocate \/ DecoderAllocate
  <2>1. UNCHANGED calls
    BY <1>10, FlowAllocates, DecoderAllocates
  <2>2. \/ pc' \in {"freeFirst", "scopeEnd"} /\ closing'.after = "failed"
        \/ pc' \in {"flowUpload", "decoderUpload"}
    <3>1. CASE LeaveScope("flow", "failed")
      BY <3>1, LeavesScope DEF Models
    <3>2. CASE Closing("decoder", FALSE, "failed")
      BY <3>2, Tears DEF Models
    <3> QED
      BY <1>10, <3>1, <3>2, FlowAllocates, DecoderAllocates
  <2> QED
    BY <2>1, <2>2 DEF Bundling
<1>11. CASE FlowBuild \/ FlowUpload \/ FlowCompute \/ DecoderUpload \/ DecoderCompute
  <2>1. /\ UNCHANGED calls
        /\ pc' \in {"failed", "flowAllocate", "flowCompute", "velocity", "decoderCompute",
                    "logits"}
    BY <1>11 DEF FlowBuild, FlowUpload, FlowCompute, DecoderUpload, DecoderCompute
  <2> QED
    BY <2>1 DEF Bundling
<1> QED
  BY <1>1, <1>2, <1>3, <1>4, <1>5, <1>6, <1>7, <1>8, <1>9, <1>10, <1>11 DEF Elsewhere

(* A step of an encoding that leaves the call as it is.                    *)
LEMMA SameBundle ==
  ASSUME Bundling, UNCHANGED <<call, calls>>,
         \/ Resume' = Resume \/ Resume' \in {"idle", "failed"}
         \/ Resume \in {"stage", "dinoEnter", "dinoBuild"} /\
              Resume' \in {"dinoEnter", "dinoBuild", "dinoAllocate"}
         \/ Resume = "dinoAllocate" /\ Resume' = "dinoCompute"
         \/ Resume = "features" /\ Resume' \in {"nafEnter", "makeStage"}
         \/ Resume \in {"nafEnter"} \cup WithNaf /\ Resume' \in WithNaf
         \/ Resume = "attend" /\ Resume' = "makeStage"
  PROVE  Bundling'
<1>1. NextStage' = NextStage
  BY DEF NextStage
<1>2. \A stage, k : OfOneImage(stage, k) => OfOneImage(stage, k)'
  BY DEF OfOneImage
<1>3. Resume' \in Encoding => Resume \in Encoding
  BY DEF Encoding, WithDino, WithNaf, Convolving
<1> QED
  BY <1>1, <1>2, <1>3 DEF Bundling, Encoding, WithDino, WithNaf, Convolving

LEMMA AppendKeeps ==
  ASSUME NEW S, NEW s \in Seq(S), NEW e \in S
  PROVE  /\ Append(s, e) \in Seq(S)
         /\ \A i \in DOMAIN Append(s, e) :
              Append(s, e)[i] = e \/ (i \in DOMAIN s /\ Append(s, e)[i] = s[i])
OBVIOUS

(* Each stage of a bundle is made of its own image.                        *)
LEMMA BundlingKept == ASSUME Inv, Bundling, [Next]_vars PROVE Bundling'
<1>1. CASE Elsewhere
  BY <1>1, StaysElsewhere DEF Bundling, Encoding, WithDino, WithNaf, Convolving
<1>2. CASE \E wanted : Encode(wanted)
  <2>1. /\ call'.out = <<>> /\ call'.stacks = <<>> /\ calls' \in Nat
        /\ pc' = "stage"
    BY <1>2 DEF Encode, Begin, Bundling
  <2>2. Resume' = "stage"
    BY <2>1 DEF Resume, Ending, Tearing
  <2> QED
    BY <2>1, <2>2 DEF Bundling, WithNaf, Convolving
<1>3. CASE Stage
  <2>1. pc = "stage" /\ calls' = calls
    BY <1>3 DEF Stage
  <2>2. \/ pc' = "idle"
        \/ pc' = "dinoEnter" /\ call' = call
    BY <1>3 DEF Stage, Return
  <2>3. CASE pc' = "idle"
    BY <2>1, <2>3 DEF Bundling, Resume, Ending, Tearing, Encoding, WithDino, WithNaf, Convolving
  <2>4. CASE pc' = "dinoEnter" /\ call' = call
    BY <2>1, <2>4, SameBundle DEF Resume, Ending, Tearing
  <2> QED
    BY <2>2, <2>3, <2>4
<1>4. CASE DinoEnter \/ DinoBuild
  <2>1. /\ UNCHANGED <<call, calls>> /\ pc \in {"dinoEnter", "dinoBuild"}
        /\ pc' \in {"failed", "dinoBuild", "dinoAllocate"}
    BY <1>4 DEF DinoEnter, DinoBuild
  <2> QED
    BY <2>1, SameBundle DEF Resume, Ending, Tearing
<1>5. CASE DinoAllocate
  <2>1. /\ UNCHANGED <<call, calls>> /\ pc = "dinoAllocate"
        /\ \/ pc' = "dinoCompute"
           \/ pc' = "scopeEnd" /\ closing'.after = "failed"
    <3>1. LeaveScope("dino", "failed") => pc' = "scopeEnd" /\ closing'.after = "failed"
      BY LeavesScope DEF Models
    <3>2. UNCHANGED <<call, calls>> /\ pc = "dinoAllocate"
      BY <1>5 DEF DinoAllocate
    <3> QED
      BY <1>5, <3>1, <3>2, DinoAllocates
  <2> QED
    BY <2>1, SameBundle DEF Resume, Ending, Tearing
<1>6. CASE DinoCompute
  <2>1. /\ calls' = calls /\ pc = "dinoCompute" /\ pc' = "scopeEnd"
        /\ \/ closing'.after = "failed"
           \/ closing'.after = "features" /\ call' = [Got("dino") EXCEPT !.dino = <<n, NextStage>>]
    BY <1>6, LeavesScope DEF DinoCompute, Models
  <2>2. Resume' = closing'.after
    BY <2>1 DEF Resume, Ending
  <2>3. CASE closing'.after = "failed"
    BY <2>1, <2>2, <2>3 DEF Bundling, Encoding, WithDino, WithNaf, Convolving
  <2>4. CASE closing'.after = "features" /\ call' = [Got("dino") EXCEPT !.dino = <<n, NextStage>>]
    <3>1. Resume = "dinoCompute" /\ Resume \in Encoding
      BY <2>1 DEF Resume, Ending, Tearing, Encoding, WithDino
    <3>2. DOMAIN call = {"op", "wanted", "out", "got", "on", "dino", "stack", "conv", "stacks"}
      BY <3>1 DEF Inv, Locals
    <3>3. /\ call'.out = call.out /\ call'.stacks = call.stacks
          /\ call'.dino = <<calls, NextStage>>
      BY <2>4, <3>2 DEF Got, n
    <3>4. NextStage' = NextStage /\ \A stage, k : OfOneImage(stage, k) => OfOneImage(stage, k)'
      BY <2>1, <3>3 DEF NextStage, OfOneImage
    <3> QED
      BY <2>1, <2>2, <2>4, <3>1, <3>3, <3>4 DEF Bundling, WithNaf, Convolving
  <2> QED
    BY <2>1, <2>3, <2>4
<1>7. CASE ScopeEnd
  <2>1. UNCHANGED <<call, calls>> /\ Resume' = Resume
    BY <1>7 DEF ScopeEnd, Inv, ClosingFor, Resume, Ending, Tearing
  <2> QED
    BY <2>1, SameBundle
<1>8. CASE Features \/ NafEnter \/ Attend
  <2>1. /\ UNCHANGED <<call, calls>>
        /\ \/ pc = "features" /\ pc' \in {"nafEnter", "makeStage"}
           \/ pc = "nafEnter" /\ pc' \in {"failed", "cpuStacks", "nafGpu"}
           \/ pc = "attend" /\ pc' \in {"makeStage", "failed"}
    BY <1>8 DEF Features, NafEnter, Attend
  <2> QED
    BY <2>1, SameBundle DEF Resume, Ending, Tearing, WithNaf, Convolving
<1>9. CASE NafGpu \/ NafInit \/ NoGpu \/ GiveUp \/ GiveUpManager \/ ConvBuild
  <2>1. /\ UNCHANGED <<call, calls>> /\ pc \in WithNaf
        /\ pc' \in {"convBuild", "nafInit", "noGpu", "giveUp", "cpuStacks", "giveUpManager",
                    "convAllocate", "failed"}
    BY <1>9 DEF NafGpu, NafInit, NoGpu, GiveUp, GiveUpManager, ConvBuild, WithNaf, Convolving
  <2> QED
    BY <2>1, SameBundle DEF Resume, Ending, Tearing, WithNaf, Convolving
<1>10. CASE ConvAllocate
  <2>1. /\ UNCHANGED <<call, calls>> /\ pc = "convAllocate"
        /\ \/ pc' = "convCompute"
           \/ pc' = "scopeEnd" /\ closing'.after = "giveUp"
    <3>1. LeaveScope("naf", "giveUp") => pc' = "scopeEnd" /\ closing'.after = "giveUp"
      BY LeavesScope DEF Models
    <3>2. UNCHANGED <<call, calls>> /\ pc = "convAllocate"
      BY <1>10 DEF ConvAllocate
    <3> QED
      BY <1>10, <3>1, <3>2, ConvAllocates
  <2> QED
    BY <2>1, SameBundle DEF Resume, Ending, Tearing, WithNaf, Convolving
<1>11. CASE ConvCompute
  <2>1. /\ calls' = calls /\ pc = "convCompute" /\ pc' = "scopeEnd"
        /\ closing'.after \in {"giveUp", "convolved"}
        /\ call' = call \/ call' = Got("naf")
    BY <1>11, LeavesScope DEF ConvCompute, Models
  <2>2. Resume = "convCompute" /\ Resume' = closing'.after
    BY <2>1 DEF Resume, Ending, Tearing
  <2>3. DOMAIN call = {"op", "wanted", "out", "got", "on", "dino", "stack", "conv", "stacks"}
    BY <2>2 DEF Inv, Locals, Encoding, WithNaf, Convolving
  <2>4. call'.out = call.out /\ call'.stacks = call.stacks /\ call'.dino = call.dino
    BY <2>1, <2>3 DEF Got
  <2>5. NextStage' = NextStage /\ \A stage, k : OfOneImage(stage, k) => OfOneImage(stage, k)'
    BY <2>1, <2>4 DEF NextStage, OfOneImage
  <2> QED
    BY <2>1, <2>2, <2>4, <2>5 DEF Bundling, Encoding, WithNaf, Convolving
<1>12. CASE Convolved
  <2>1. /\ calls' = calls /\ pc = "convolved" /\ pc' \in {"convBuild", "attend"}
    BY <1>12 DEF Convolved
  <2>2. Resume = "convolved" /\ Resume' = pc'
    BY <2>1 DEF Resume, Ending, Tearing
  <2>3. DOMAIN call = {"op", "wanted", "out", "got", "on", "dino", "stack", "conv", "stacks"}
    BY <2>2 DEF Inv, Locals, Encoding, WithNaf, Convolving
  <2>4. /\ call'.out = call.out /\ call'.dino = call.dino
        /\ call'.stacks = call.stacks \/ call'.stacks = Append(call.stacks, StackOf("gpu"))
    BY <1>12, <2>3 DEF Convolved
  <2>5. NextStage' = NextStage /\ \A stage, k : OfOneImage(stage, k) => OfOneImage(stage, k)'
    BY <2>1, <2>4 DEF NextStage, OfOneImage
  <2>6. /\ call.out \in Seq([dino : Seq(Nat), stacks : Seq(Made)]) /\ calls \in Nat
        /\ call.stacks \in Seq(Made)
        /\ \A i \in DOMAIN call.stacks : /\ call.stacks[i].image = <<calls, NextStage>>
                                        /\ call.stacks[i].engine = "gpu"
    BY <2>2 DEF Bundling, Encoding, WithNaf, Convolving
  <2>7. NextStage \in Nat
    BY <2>6 DEF NextStage
  <2>8. /\ StackOf("gpu") \in Made /\ StackOf("gpu").image = <<calls, NextStage>>
        /\ StackOf("gpu").engine = "gpu"
    BY <2>6, <2>7 DEF StackOf, Made, n
  <2>9. /\ call'.stacks \in Seq(Made)
        /\ \A i \in DOMAIN call'.stacks : /\ call'.stacks[i].image = <<calls, NextStage>>
                                         /\ call'.stacks[i].engine = "gpu"
    <3>1. CASE call'.stacks = call.stacks
      BY <2>6, <3>1
    <3>2. CASE call'.stacks = Append(call.stacks, StackOf("gpu"))
      BY <2>6, <2>8, <3>2, AppendKeeps
    <3> QED
      BY <2>4, <3>1, <3>2
  <2> QED
    BY <2>1, <2>2, <2>4, <2>5, <2>9 DEF Bundling, Encoding, WithNaf, Convolving
<1>13. CASE CpuStacks
  <2>1. /\ calls' = calls /\ pc = "cpuStacks" /\ pc' = "attend"
        /\ call' = [call EXCEPT !.stacks = OnCpu(@)]
    BY <1>13 DEF CpuStacks
  <2>2. Resume = "cpuStacks" /\ Resume' = "attend"
    BY <2>1 DEF Resume, Ending, Tearing
  <2>3. DOMAIN call = {"op", "wanted", "out", "got", "on", "dino", "stack", "conv", "stacks"}
    BY <2>2 DEF Inv, Locals, Encoding, WithNaf
  <2>4. /\ call'.out = call.out /\ call'.dino = call.dino
        /\ call'.stacks = [k \in 1..2 |-> StackOf("cpu")]
    BY <2>1, <2>3 DEF OnCpu
  <2>5. NextStage' = NextStage /\ \A stage, k : OfOneImage(stage, k) => OfOneImage(stage, k)'
    BY <2>1, <2>4 DEF NextStage, OfOneImage
  <2>6. /\ call.out \in Seq([dino : Seq(Nat), stacks : Seq(Made)]) /\ calls \in Nat
    BY <2>2 DEF Bundling, Encoding, WithNaf
  <2>7. NextStage \in Nat
    BY <2>6 DEF NextStage
  <2>8. /\ StackOf("cpu") \in Made /\ StackOf("cpu").image = <<calls, NextStage>>
    BY <2>6, <2>7 DEF StackOf, Made, n
  <2>9. /\ call'.stacks \in Seq(Made)
        /\ \A i \in DOMAIN call'.stacks : call'.stacks[i] = StackOf("cpu")
    BY <2>4, <2>8
  <2> QED
    BY <2>1, <2>2, <2>4, <2>5, <2>8, <2>9 DEF Bundling, Encoding, WithNaf, Convolving
<1>14. CASE MakeStage
  <2> DEFINE made == [dino |-> call.dino, stacks |-> call.stacks]
  <2>1. /\ calls' = calls /\ pc = "makeStage" /\ pc' = "stage"
        /\ call' = [call EXCEPT !.out = Append(@, made), !.stack = 1, !.conv = 1,
                                !.stacks = <<>>]
    BY <1>14 DEF MakeStage
  <2>2. Resume = "makeStage" /\ Resume' = "stage"
    BY <2>1 DEF Resume, Ending, Tearing
  <2>3. DOMAIN call = {"op", "wanted", "out", "got", "on", "dino", "stack", "conv", "stacks"}
    BY <2>2 DEF Inv, Locals, Encoding
  <2>4. call'.out = Append(call.out, made) /\ call'.stacks = <<>>
    BY <2>1, <2>3
  <2>5. /\ call.out \in Seq([dino : Seq(Nat), stacks : Seq(Made)]) /\ calls \in Nat
        /\ \A k \in 1..Len(call.out) : OfOneImage(call.out[k], k)
        /\ call.stacks \in Seq(Made) /\ call.dino = <<calls, NextStage>>
        /\ \A i \in DOMAIN call.stacks : call.stacks[i].image = <<calls, NextStage>>
        /\ \A i, j \in DOMAIN call.stacks : call.stacks[i].engine = call.stacks[j].engine
    BY <2>2 DEF Bundling, Encoding
  <2>6. made \in [dino : Seq(Nat), stacks : Seq(Made)] /\ OfOneImage(made, NextStage)
    BY <2>5 DEF NextStage, OfOneImage
  <2> HIDE DEF made
  <2>7. /\ call'.out \in Seq([dino : Seq(Nat), stacks : Seq(Made)])
        /\ \A k \in 1..Len(call'.out) : OfOneImage(call'.out[k], k)
    BY <2>4, <2>5, <2>6 DEF NextStage
  <2>8. \A k \in 1..Len(call'.out) : OfOneImage(call.out[k], k)'
    BY <2>1, <2>7, SMTT(30) DEF OfOneImage
  <2> QED
    BY <2>1, <2>2, <2>4, <2>5, <2>7, <2>8 DEF Bundling, WithNaf, Convolving
<1>15. CASE UNCHANGED vars
  BY <1>15, SameBundle DEF vars, Resume, Ending
<1> QED
  BY <1>1, <1>2, <1>3, <1>4, <1>5, <1>6, <1>7, <1>8, <1>9, <1>10, <1>11, <1>12, <1>13,
     <1>14, <1>15 DEF Next, Elsewhere

(* What the running call leaves its caller: nothing, a failure, or one of  *)
(* the four results.                                                       *)
LEMMA Outcomes ==
  ASSUME [Next]_vars
  PROVE  \/ UNCHANGED <<outcome, calls>>
         \/ outcome' = NoCall
         \/ \E op : outcome' = [op |-> op, ok |-> FALSE]
         \/ \E op \in {"close", "load", "sample"} : outcome' = [op |-> op, ok |-> TRUE]
         \/ Logits
         \/ /\ pc = "stage" /\ calls' = calls
            /\ outcome' = [op |-> "encode", ok |-> TRUE, stages |-> call.out]
<1>1. CASE \E m \in Models : Close(m) \/ \E full \in BOOLEAN : Load(m, full)
  BY <1>1 DEF Close, Load, Begin
<1>2. CASE \/ \E tokens, strength, inside : Sample(tokens, strength, inside)
           \/ Decode \/ \E wanted : Encode(wanted)
  BY <1>2 DEF Sample, Decode, Encode, Begin
<1>3. CASE OpenPack
  BY <1>3 DEF OpenPack, Return
<1>4. CASE OpenNaf \/ ReadWeights
  BY <1>4 DEF OpenNaf, ReadWeights, Loaded, Return
<1>5. CASE CloseDone \/ Failed \/ Step \/ Logits
  BY <1>5 DEF CloseDone, Failed, Step, Fail, Return
<1>6. CASE Stage
  BY <1>6 DEF Stage, Return
<1>7. CASE \/ OpenManager \/ AllocateWeights \/ FreeFirst \/ FreeGraph \/ FreeBuffer
           \/ FreeManager \/ ScopeEnd
  BY <1>7 DEF OpenManager, AllocateWeights, FreeFirst, FreeGraph, FreeBuffer, FreeManager,
     ScopeEnd
<1>8. CASE \/ Forward \/ FlowBuild \/ FlowAllocate \/ FlowUpload \/ FlowCompute \/ Velocity
           \/ DecoderBuild \/ DecoderAllocate \/ DecoderUpload \/ DecoderCompute
  BY <1>8 DEF Forward, FlowBuild, FlowAllocate, FlowUpload, FlowCompute, Velocity,
     DecoderBuild, DecoderAllocate, DecoderUpload, DecoderCompute
<1>9. CASE \/ DinoEnter \/ DinoBuild \/ DinoAllocate \/ DinoCompute \/ Features \/ NafEnter
           \/ NafGpu \/ NafInit \/ NoGpu \/ GiveUp \/ GiveUpManager
  BY <1>9 DEF DinoEnter, DinoBuild, DinoAllocate, DinoCompute, Features, NafEnter, NafGpu,
     NafInit, NoGpu, GiveUp, GiveUpManager
<1>10. CASE \/ ConvBuild \/ ConvAllocate \/ ConvCompute \/ Convolved \/ CpuStacks \/ Attend
            \/ MakeStage
  BY <1>10 DEF ConvBuild, ConvAllocate, ConvCompute, Convolved, CpuStacks, Attend, MakeStage
<1>11. CASE UNCHANGED vars
  BY <1>11 DEF vars
<1> QED
  BY <1>1, <1>2, <1>3, <1>4, <1>5, <1>6, <1>7, <1>8, <1>9, <1>10, <1>11 DEF Next

(* A bundle that was returned is the one that was made.                    *)
LEMMA ToldKept == ASSUME Bundling, Told, [Next]_vars PROVE Told'
<1>1. CASE UNCHANGED <<outcome, calls>>
  BY <1>1 DEF Told, OfOneImage
<1>2. CASE \/ outcome' = NoCall
           \/ \E op : outcome' = [op |-> op, ok |-> FALSE]
           \/ \E op \in {"close", "load", "sample"} : outcome' = [op |-> op, ok |-> TRUE]
           \/ Logits
  BY <1>2 DEF Told, NoCall, Logits, Fail, Return
<1>3. CASE /\ pc = "stage" /\ calls' = calls
           /\ outcome' = [op |-> "encode", ok |-> TRUE, stages |-> call.out]
  <2>1. Resume = "stage"
    BY <1>3 DEF Resume, Ending, Tearing
  <2>2. /\ call.out \in Seq([dino : Seq(Nat), stacks : Seq(Made)])
        /\ \A k \in 1..Len(call.out) : OfOneImage(call.out[k], k)
    BY <2>1 DEF Bundling, Encoding
  <2>3. outcome'.stages = call.out
    BY <1>3
  <2>4. DOMAIN call.out = 1..Len(call.out)
    BY <2>2
  <2>5. \A k \in DOMAIN outcome'.stages : OfOneImage(outcome'.stages[k], k)
    BY <2>2, <2>3, <2>4
  <2> QED
    BY <1>3, <2>5 DEF Told, OfOneImage
<1> QED
  BY <1>1, <1>2, <1>3, Outcomes

(* The voxel that decides a cell: the first that is not below, if any.     *)
LEMMA FirstDecides ==
  ASSUME NEW cell \in [1..2 -> {"above", "below", "nan"}]
  PROVE  Decides(cell) = IF cell[1] # "below" THEN cell[1] ELSE cell[2]
<1> DEFINE found == {k \in 1..2 : cell[k] # "below"}
           first == CHOOSE k \in found : \A j \in found : k <= j
<1>1. Decides(cell) = IF found = {} THEN "below" ELSE cell[first]
  BY DOMAIN cell = 1..2 DEF Decides
<1>2. CASE cell[1] # "below"
  <2>1. 1 \in found /\ \A j \in found : 1 <= j
    BY <1>2
  <2>2. first \in found /\ first <= 1
    <3> HIDE DEF found
    <3> QED
      BY <2>1
  <2>3. first = 1
    BY <2>2
  <2> QED
    BY <1>1, <1>2, <2>1, <2>3
<1>3. CASE cell[1] = "below" /\ cell[2] # "below"
  <2>1. found = {2}
    BY <1>3
  <2>2. first = 2
    <3> HIDE DEF found
    <3> QED
      BY <2>1
  <2> QED
    BY <1>1, <1>3, <2>1, <2>2
<1>4. CASE cell[1] = "below" /\ cell[2] = "below"
  <2>1. found = {}
    BY <1>4
  <2> QED
    BY <1>1, <1>4, <2>1
<1> QED
  BY <1>2, <1>3, <1>4

(* What a decoded grid gives is there until the next call begins.          *)
LEMMA PooledKept == ASSUME CellsPooled, [Next]_vars PROVE CellsPooled'
<1>1. CASE UNCHANGED <<outcome, calls>>
  BY <1>1 DEF CellsPooled
<1>2. CASE \/ outcome' = NoCall
           \/ \E op : outcome' = [op |-> op, ok |-> FALSE]
           \/ \E op \in {"close", "load", "sample"} : outcome' = [op |-> op, ok |-> TRUE]
           \/ /\ pc = "stage" /\ calls' = calls
              /\ outcome' = [op |-> "encode", ok |-> TRUE, stages |-> call.out]
  BY <1>2 DEF CellsPooled, NoCall
<1>3. CASE Logits /\ ~Fail
  <2>1. PICK grid \in Grids :
          LET ok == \A c \in DOMAIN grid : Decides(grid[c]) # "nan"
          IN  outcome' = [op |-> "decode", ok |-> ok, grid |-> grid,
                          cells |-> IF ok THEN OccupiedCells(grid) ELSE {}]
    BY <1>3 DEF Logits, Return
  <2>2. /\ DOMAIN grid = 1..2
        /\ \A c \in 1..2 : /\ grid[c] \in [1..2 -> {"above", "below", "nan"}]
                           /\ DOMAIN grid[c] = 1..2
    BY DEF Grids
  <2>3. \A c \in 1..2 :
          /\ Decides(grid[c]) = "above" => \E k \in 1..2 : grid[c][k] = "above"
          /\ Decides(grid[c]) = "nan" => \E k \in 1..2 : grid[c][k] = "nan"
          /\ Decides(grid[c]) = "below" => \A k \in 1..2 : grid[c][k] = "below"
          /\ Decides(grid[c]) \in {"above", "below", "nan"}
    <3> SUFFICES ASSUME NEW c \in 1..2
                 PROVE  /\ Decides(grid[c]) = "above" => \E k \in 1..2 : grid[c][k] = "above"
                        /\ Decides(grid[c]) = "nan" => \E k \in 1..2 : grid[c][k] = "nan"
                        /\ Decides(grid[c]) = "below" => \A k \in 1..2 : grid[c][k] = "below"
                        /\ Decides(grid[c]) \in {"above", "below", "nan"}
      OBVIOUS
    <3>1. grid[c] \in [1..2 -> {"above", "below", "nan"}]
      BY <2>2
    <3>2. Decides(grid[c]) = IF grid[c][1] # "below" THEN grid[c][1] ELSE grid[c][2]
      BY <3>1, FirstDecides
    <3> QED
      BY <3>1, <3>2
  <2> QED
    BY <2>1, <2>2, <2>3 DEF CellsPooled, OccupiedCells
<1>4. CASE Logits /\ Fail
  BY <1>4 DEF Fail, Return, CellsPooled
<1> QED
  BY <1>1, <1>2, <1>3, <1>4, Outcomes

-----------------------------------------------------------------------------
LEMMA Start == Init => Inv
<1> SUFFICES ASSUME Init PROVE Inv
  OBVIOUS
<1>1. pc = "idle" /\ ~Ending /\ Resume = "idle"
  BY DEF Init, Ending, Tearing, Resume
<1>2. /\ \A m \in Models : model[m] = Closed /\ graph[m] = NoGraph
      /\ DOMAIN model = Models /\ DOMAIN graph = Models
  BY DEF Init
<1>3. Typing
  BY <1>2, ClosedHasNothing, NoGraphHasNothing DEF Init, Typing
<1>4. ClosingFor /\ Locals
  BY <1>1 DEF ClosingFor, Locals, Ending, Loading, Flowing, Decoding, Encoding, WithDino,
     WithNaf, Convolving
<1>5. Loadedness
  BY <1>1, <1>2, ClosedHasNothing DEF Loadedness, Flowing, Decoding, WithDino, WithNaf,
     Convolving
<1>6. Order
  BY <1>1, <1>2, ClosedHasNothing, NoGraphHasNothing DEF Order, Ready, Models, Keeping, Tearing
<1>7. OnGpu
  BY <1>1, <1>2, ClosedHasNothing, NoGraphHasNothing DEF OnGpu, Open
<1>8. Holding
  BY <1>1, <1>2 DEF Holding, Loading, Models, Keeping
<1>9. Contents
  BY <1>1, <1>2, NoGraphHasNothing DEF Contents, Models
<1> QED
  BY <1>3, <1>4, <1>5, <1>6, <1>7, <1>8, <1>9 DEF Inv

LEMMA NothingBundled == Init => Bundling /\ Told
<1> SUFFICES ASSUME Init PROVE Bundling /\ Told
  OBVIOUS
<1>1. Resume = "idle" /\ calls = 0 /\ outcome.op = "none"
  BY DEF Init, Ending, Tearing, Resume, NoCall
<1> QED
  BY <1>1 DEF Bundling, Told, Encoding, WithDino, WithNaf, Convolving

(* The inductive invariant: what is loaded, kept, under way and in the      *)
(* inputs, at every step of every call.                                    *)
THEOREM ModelGraphsInvariant == Spec => []Inv
<1>1. Init => Inv
  BY Start
<1>2. Inv /\ [Next]_vars => Inv'
  BY TypingKept, ClosingForKept, LocalsKept, LoadednessKept, OrderKept, OnGpuKept,
     HoldingKept, ContentsKept DEF Inv
<1> QED
  BY <1>1, <1>2, PTL DEF Spec

(* What a graph computes, it computes from the inputs of the call that     *)
(* reads the result, however long ago the graph was built.                 *)
THEOREM ComputedFromTheCall == Spec => []ComputedFromThisCall
<1>1. Inv => ComputedFromThisCall
  <2> SUFFICES ASSUME Inv PROVE ComputedFromThisCall
    OBVIOUS
  <2>1. pc \in {"velocity", "logits", "features", "convolved"} => Resume = pc
    BY DEF Resume, Ending, Tearing
  <2> QED
    BY <2>1 DEF Inv, Contents, ComputedFromThisCall
<1> QED
  BY <1>1, ModelGraphsInvariant, PTL

(* Under gpu:N what was computed was computed on that GPU.                 *)
THEOREM OnTheMandatoryGpu == Spec => []MandatoryGpu
<1>1. Inv => MandatoryGpu
  <2> SUFFICES ASSUME Inv PROVE MandatoryGpu
    OBVIOUS
  <2>1. pc \in {"velocity", "logits", "features", "convolved"} => Resume = pc
    BY DEF Resume, Ending, Tearing
  <2> QED
    BY <2>1 DEF Inv, OnGpu, MandatoryGpu, Mandatory
<1> QED
  BY <1>1, ModelGraphsInvariant, PTL

(* Between calls there is no half-made graph and no half-loaded model.     *)
THEOREM LeavesNothing == Spec => []NothingLeftOver
<1>1. Inv => NothingLeftOver
  <2> SUFFICES ASSUME Inv, pc = "idle" PROVE NothingLeftOver
    BY DEF NothingLeftOver
  <2>1. ~Ending /\ pc \notin Loading /\ pc \notin Tearing
    BY DEF Ending, Tearing, Loading
  <2> QED
    BY <2>1 DEF Inv, Holding, NothingLeftOver
<1> QED
  BY <1>1, ModelGraphsInvariant, PTL

(* A scheduler goes before its context, the weights and the backends.      *)
THEOREM FreedInThatOrder == Spec => []FreedInOrder
<1>1. Inv => FreedInOrder
  BY DEF Inv, Order, FreedInOrder, LeftBehind, m0
<1> QED
  BY <1>1, ModelGraphsInvariant, PTL

(* A condition bundle has each stage made from its own image, both NAF     *)
(* stacks by the same engine, whatever was given up on the way.            *)
THEOREM StagesAreOfOneImage == Spec => []StagesOfOneImage
<1>1. Init => Bundling /\ Told
  BY NothingBundled
<1>2. Inv /\ Bundling /\ Told /\ [Next]_vars => Bundling' /\ Told'
  BY BundlingKept, ToldKept
<1>3. Told => StagesOfOneImage
  <2> SUFFICES ASSUME Told, outcome.op = "encode", outcome.ok,
                      NEW k \in DOMAIN outcome.stages
               PROVE  LET s == outcome.stages[k]
                      IN  /\ s.dino = <<calls, k>>
                          /\ \A i \in DOMAIN s.stacks : s.stacks[i].image = s.dino
                          /\ Cardinality({s.stacks[i].engine : i \in DOMAIN s.stacks}) <= 1
    BY DEF StagesOfOneImage
  <2> DEFINE s == outcome.stages[k]
             engines == {s.stacks[i].engine : i \in DOMAIN s.stacks}
  <2>1. OfOneImage(s, k)
    BY DEF Told
  <2>2. Cardinality(engines) <= 1
    <3>1. \A d, e \in engines : d = e
      BY <2>1 DEF OfOneImage
    <3> HIDE DEF engines
    <3>2. CASE engines = {}
      <4>1. Cardinality(engines) = 0
        BY <3>2, FS_EmptySet
      <4> QED
        BY <4>1
    <3>3. CASE engines # {}
      <4>1. PICK e \in engines : engines = {e}
        BY <3>3, <3>1
      <4>2. Cardinality(engines) = 1
        BY <4>1, FS_Singleton
      <4> QED
        BY <4>2
    <3> QED
      BY <3>2, <3>3
  <2> QED
    BY <2>1, <2>2 DEF OfOneImage
<1> QED
  BY <1>1, <1>2, <1>3, ModelGraphsInvariant, PTL DEF Spec

(* The cells a decoded grid gives are those with a voxel above the         *)
(* threshold, and it is refused only for a voxel that is not a number.     *)
THEOREM CellsArePooled == Spec => []CellsPooled
<1>1. Init => CellsPooled
  BY DEF Init, NoCall, CellsPooled
<1>2. CellsPooled /\ [Next]_vars => CellsPooled'
  BY PooledKept
<1> QED
  BY <1>1, <1>2, PTL DEF Spec
=============================================================================
