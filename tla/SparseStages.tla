---------------------------- MODULE SparseStages ----------------------------
(***************************************************************************)
(* The sparse half of the cascade as the CPU computes it: the shape and    *)
(* texture flows (slat_flow_forward_f32), the decoders that follow them    *)
(* (slat_decoder_forward_f32, slat_decoder_upsample_coords_f32) and the    *)
(* mesh of the decoded shape (dual_grid.cpp), on tensors of SparseTensor.  *)
(* The decoders also run on the GPU, whole levels at a time ("first") or   *)
(* convolution by convolution ("hybrid"): only what they decide about      *)
(* coordinates is here, the rest is in DecoderGpu.                         *)
(***************************************************************************)
EXTENDS SparseTensor

CONSTANTS
    Inputs,   \* tensors without features: the points of the structure
    Context,  \* global tokens of each batch: a function of the batch
    Flow,     \* configuration of the flows' blocks, and their number
    Decoder,  \* configuration of each decoder: Decoder["shape"], ["texture"]
    Foreseen, \* by level, the sets of children a point may be predicted to have
    Signs,    \* what the decoded features may say of the edges, as a whole
    Crossed(_, _)  \* does such a value say that an edge is crossed?

\* The points of the structure, and at least one of each batch.
InputAssumption == \A t \in Inputs :
    /\ t \in [batch : Nat, size : Nat, ch : Nat, coords : Seq(Point), deps : Seq({{}})]
    /\ Valid(t)
    /\ \A b \in 0..t.batch - 1 : /\ \E i \in DOMAIN t.coords : t.coords[i][1] = b
                                  /\ Context[b] \in Nat \ {0}

\* What valid_hparams asks, of projected features too.  A block shows a row the
\* projected features of its own only: all of its batch needs a second one.
FlowAssumption ==
    /\ Flow.cfg.ch \in Nat \ {0} /\ Flow.cfg.heads \in Nat \ {0} /\ Flow.cfg.hidden \in Nat \ {0}
    /\ Flow.cfg.ch % Flow.cfg.heads = 0
    /\ (Flow.cfg.ch \div Flow.cfg.heads) % 2 = 0
    /\ Flow.cfg.context \in Nat \ {0} /\ Flow.cfg.proj \in Nat \ {0}
    /\ Flow.blocks \in Nat \ {0, 1}
    /\ Flow.latent \in Nat \ {0}
    /\ Flow.ins["shape"] = Flow.latent /\ Flow.ins["texture"] = 2 * Flow.latent

\* The sizes of the levels a decoder of the shape goes through from t.
Doubles(t, s) ==
    /\ s[1] = t.size
    /\ \A l \in 1..Len(Decoder["shape"].ch) - 1 : s[l + 1] = 2 * s[l]

\* The decoders go through the same levels; eighths of the channels of one are
\* repeated to those of the next, and the last fits the resolution.
DecoderAssumption ==
    /\ \A s \in {"shape", "texture"} : LET d == Decoder[s] IN
          /\ d.ch \in Seq(Nat \ {0}) /\ d.ch # <<>>
          /\ d.blocks \in Seq(Nat) /\ Len(d.blocks) = Len(d.ch)
          /\ \A l \in 1..Len(d.ch) - 1 : /\ d.ch[l] % 8 = 0
                                          /\ d.ch[l + 1] % (d.ch[l] \div 8) = 0
          /\ Len(d.ch) = Len(Decoder["shape"].ch)
          /\ d.latent = Flow.latent /\ d.out \in Nat \ {0}
          /\ d.pred = (s = "shape")
    /\ Decoder["shape"].out = 7 /\ Decoder["shape"].res \in Nat
    /\ \A l \in 1..Len(Decoder["shape"].ch) - 1 : Foreseen[l] \subseteq SUBSET (0..7)
    /\ \A t \in Inputs : \E s \in [DOMAIN Decoder["shape"].ch -> 1..Decoder["shape"].res] :
          Doubles(t, s)

ASSUME StagesAssumption == InputAssumption /\ FlowAssumption /\ DecoderAssumption

VARIABLES
    input,   \* the points of this behaviour
    mode,    \* "cpu", "hybrid" or "first": what the environment asks for
    forced,  \* PIXAL3D_SLAT_DECODER_BACKEND=gpu
    pc, call, engine,
    hidden,  \* the tensor being computed
    level, block, at, \* level, blocks done in it, index into weights.blocks
    preds,   \* subdivisions predicted so far by this call
    chose,   \* ghost: what each engine predicts for a point of a level
    done,    \* results: latents, decoded tensors, subdivisions, coordinates
    why      \* why the last call failed

walk == <<hidden, level, block, at, preds>>
vars == <<input, mode, forced, pc, call, engine, walk, chose, done, why>>

Stages == {"shape", "texture"}
None   == [none |-> TRUE]

-----------------------------------------------------------------------------
(* What the builders hand over: noise and projected features row by row.   *)

RowsOf(what, stage, ch) ==
    [input EXCEPT !.ch = ch,
                  !.deps = [i \in DOMAIN input.coords |->
                                {<<what, input.coords[i][1], i, stage>>}]]

GlobalContext ==
    LET deps(n) == FlattenSeq([b \in 1..n |->
                       [j \in 1..Context[b - 1] |-> {<<"token", b - 1, j>>}]])
    IN  [batch |-> input.batch, ch |-> Flow.cfg.context, deps |-> deps(input.batch),
         offs |-> [b \in 1..input.batch + 1 |-> Len(deps(b - 1))]]

\* All that is there about a batch for the flow of a stage.
Everything(b, stage) ==
    (UNION {RowsOf(w, stage, 1).deps[i] : w \in {"noise", "proj"},
               i \in {j \in DOMAIN input.coords : input.coords[j][1] = b}})
        \cup {<<"token", b, j>> : j \in 1..Context[b]} \cup {<<"time", b>>}

\* make_weights: the blocks of each level, then the step to the next.
Weights(d) ==
    FlattenSeq([l \in DOMAIN d.ch |->
        [k \in 1..d.blocks[l] |-> [kind |-> "convnext", ch |-> d.ch[l], out |-> d.ch[l]]]
        \o IF l < Len(d.ch)
           THEN <<[kind |-> "c2s", ch |-> d.ch[l], out |-> d.ch[l + 1]]>> ELSE <<>>])

Fail(reason) ==
    /\ pc' = "failed" /\ why' = reason
    /\ UNCHANGED <<call, engine, walk, done>>

-----------------------------------------------------------------------------
(* slat_flow_forward_f32.  The texture flow sees the shape latents too.    *)

Kept == [latents |-> [s \in Stages |-> Bad], decoded |-> [s \in Stages |-> Bad],
         subs |-> <<>>, coords |-> <<>>, by |-> "none", up |-> None, mesh |-> None]

Nothing == [e \in {"cpu", "gpu"} |-> <<>>]

Init ==
    /\ input \in Inputs
    /\ mode \in {"cpu", "hybrid", "first"} /\ forced \in BOOLEAN
    /\ (mode = "cpu" => ~forced)
    /\ pc = "idle" /\ call = None /\ engine = "none"
    /\ hidden = Bad /\ level = 1 /\ block = 0 /\ at = 0 /\ preds = <<>>
    /\ chose = Nothing
    /\ done = Kept /\ why = "none"

ModelInput(stage) ==
    LET noise == RowsOf("noise", stage, Flow.latent) IN
    IF stage = "texture" THEN Concat(noise, done.latents["shape"]) ELSE noise

FlowFits(model, stage) ==
    LET proj == RowsOf("proj", stage, Flow.cfg.proj) IN
    /\ Valid(model) /\ VarLenValid(GlobalContext) /\ model.ch = Flow.ins[stage]
    /\ model.batch = GlobalContext.batch
    /\ Valid(proj) /\ SameCoords(proj, model)

\* What the caller was given before is its own, and forgotten here.
FlowBegin(stage) ==
    /\ pc = "idle" /\ done.latents[stage] = Bad
    /\ stage = "texture" => done.decoded["shape"] # Bad
    /\ \/ /\ FlowFits(ModelInput(stage), stage)
          /\ hidden' = Linear(ModelInput(stage), Flow.cfg.ch)
          /\ block' = 0 /\ pc' = "flow" /\ call' = [kind |-> "flow", stage |-> stage]
          /\ done' = [done EXCEPT !.up = None, !.mesh = None]
          /\ why' = "none" /\ UNCHANGED <<engine, level, at, preds>>
       \/ ~FlowFits(ModelInput(stage), stage) /\ Fail("shape")
    /\ chose' = Nothing
    /\ UNCHANGED <<input, mode, forced>>

FlowBlock ==
    LET next == CrossBlock(hidden, GlobalContext, RowsOf("proj", call.stage, Flow.cfg.proj),
                           Flow.cfg)
    IN
    /\ pc = "flow" /\ block < Flow.blocks
    /\ IF next = Bad THEN Fail("shape")
       ELSE /\ hidden' = next /\ block' = block + 1
            /\ UNCHANGED <<pc, call, engine, level, at, preds, done, why>>
    /\ UNCHANGED <<input, mode, forced, chose>>

FlowEnd ==
    /\ pc = "flow" /\ block = Flow.blocks
    /\ done' = [done EXCEPT !.latents[call.stage] = Linear(LayerNorm(hidden), Flow.latent)]
    /\ pc' = "idle"
    /\ UNCHANGED <<input, mode, forced, call, engine, walk, chose, why>>

-----------------------------------------------------------------------------
(* Decoding.                                                               *)

Hp == Decoder[call.stage]

\* Fault: predictions of an abandoned attempt are still there.
Fault_NotCleared(p) == p
Cleared(p) == <<>>

Start(c, e) ==
    /\ hidden' = Linear(done.latents[c.stage], Decoder[c.stage].ch[1])
    /\ level' = 1 /\ block' = 0 /\ at' = 0
    /\ preds' = Cleared(preds)
    /\ call' = c /\ engine' = e /\ pc' = "decode"

\* SLatDecoderModel::decode and upsample_coords up to the choice of engine.
DecodeBegin(c) ==
    /\ pc = "idle" /\ done.latents[c.stage] # Bad
    /\ c.kind = "decode" => done.decoded[c.stage] = Bad
    /\ c.kind = "upsample" => done.decoded["shape"] # Bad /\ done.up = None
                              /\ done.latents["texture"] = Bad
    /\ IF /\ Valid(done.latents[c.stage])
          /\ done.latents[c.stage].ch = Decoder[c.stage].latent
          /\ Decoder[c.stage].pred \/ Len(done.subs) = Len(Decoder[c.stage].ch) - 1
       THEN Start(c, mode) /\ why' = "none" /\ UNCHANGED done
       ELSE Fail("shape")
    /\ UNCHANGED <<input, mode, forced, chose>>

\* The CPU is asked again from the start, unless the GPU was required.
GiveUp(reason) ==
    IF engine = "cpu" \/ forced THEN Fail(reason)
    ELSE Start(call, "cpu") /\ why' = reason /\ UNCHANGED done

\* A level that is computed as one graph ends with its blocks, the other
\* engines stop an upsampling before them.
Fault_StopsLater(c) == level = c.last + 1
Stops(c) == level = c.last
AtEnd ==
    \/ call.kind = "upsample" /\ Stops(call) /\ (engine = "first" => block = Hp.blocks[level])
    \/ level = Len(Hp.ch) /\ block = Hp.blocks[level]

DecodeBlock ==
    /\ pc = "decode" /\ ~AtEnd /\ block < Hp.blocks[level]
    /\ LET next == ConvNextBlock(hidden, Weights(Hp)[at + 1]) IN
       IF next = Bad THEN GiveUp("shape")
       ELSE /\ hidden' = next /\ block' = block + 1 /\ at' = at + 1
            /\ UNCHANGED <<pc, call, engine, level, preds, done, why>>
    /\ UNCHANGED <<input, mode, forced, chose>>

Kind(e) == IF e = "cpu" THEN "cpu" ELSE "gpu"

\* What the to_subdiv layer of this engine may say of the points of a level.
Predictions ==
    LET old == chose[Kind(engine)]
        key(i) == <<level, hidden.coords[i]>>
    IN  {p \in [DOMAIN hidden.coords -> Foreseen[level]] :
            \A i \in DOMAIN p : key(i) \in DOMAIN old => p[i] = old[key(i)]}
Remember(p) ==
    LET new == [k \in {<<level, hidden.coords[i]>> : i \in DOMAIN p} |->
                   p[CHOOSE i \in DOMAIN p : hidden.coords[i] = k[2]]]
        old == chose[Kind(engine)]
    IN  chose' = [chose EXCEPT ![Kind(engine)] =
                     [k \in DOMAIN new \cup DOMAIN old |->
                         IF k \in DOMAIN new THEN new[k] ELSE old[k]]]

AsSubdivision(p) ==
    [batch |-> hidden.batch, size |-> hidden.size, ch |-> 8, coords |-> hidden.coords,
     deps |-> hidden.deps, kids |-> p]

\* The step to the next level.  A GPU refuses to go on without a point.
GoUp(sub) ==
    LET step(w) == IF engine = "first" THEN GpuUpBlock(hidden, w, sub)
                   ELSE UpBlock(hidden, w, sub)
        next == step(Weights(Hp)[at + 1])
        none == engine # "cpu" /\ Selected(hidden, sub) = <<>>
    IN
    IF next = Bad \/ none THEN GiveUp(IF none THEN "empty" ELSE "shape")
    ELSE /\ hidden' = next /\ level' = level + 1 /\ block' = 0 /\ at' = at + 1
         /\ preds' = IF Hp.pred /\ call.kind = "decode" THEN Append(preds, sub) ELSE preds
         /\ UNCHANGED <<pc, call, engine, done, why>>

Transition ==
    /\ pc = "decode" /\ ~AtEnd /\ block = Hp.blocks[level] /\ level < Len(Hp.ch)
    /\ IF Hp.pred
       THEN \E p \in Predictions : GoUp(AsSubdivision(p)) /\ Remember(p)
       ELSE GoUp(done.subs[level]) /\ UNCHANGED chose
    /\ UNCHANGED <<input, mode, forced>>

\* Some value on the way is not finite, or the GPU fails.
Breaks ==
    /\ pc = "decode"
    /\ GiveUp("numbers")
    /\ UNCHANGED <<input, mode, forced, chose>>

DecodeEnd ==
    /\ pc = "decode" /\ AtEnd
    /\ IF call.kind = "upsample"
       THEN done' = [done EXCEPT !.up = [coords |-> hidden.coords, last |-> call.last,
                                         by |-> engine]]
       ELSE done' = [done EXCEPT !.decoded[call.stage] = Linear(LayerNorm(hidden), Hp.out),
                                 !.subs = IF Hp.pred THEN preds ELSE @,
                                 !.coords = IF Hp.pred
                                            THEN [l \in DOMAIN preds |-> preds[l].coords]
                                                     \o <<hidden.coords>> ELSE @,
                                 !.by = IF Hp.pred THEN engine ELSE @]
    /\ IF call.kind = "decode" /\ at # Len(Weights(Hp))
       THEN pc' = "failed" /\ why' = "weights" ELSE pc' = "idle" /\ UNCHANGED why
    /\ UNCHANGED <<input, mode, forced, call, engine, walk, chose>>

-----------------------------------------------------------------------------
(* flexi_dual_grid_decode_mesh_f32 and flexible_dual_grid_to_mesh_f32.     *)

\* The voxels around a primal edge, in the order of O-Voxel.
Around(c, axis) ==
    LET o == CASE axis = 1 -> << <<0,0,0>>, <<0,0,1>>, <<0,1,1>>, <<0,1,0>> >>
               [] axis = 2 -> << <<0,0,0>>, <<1,0,0>>, <<1,0,1>>, <<0,0,1>> >>
               [] axis = 3 -> << <<0,0,0>>, <<0,1,0>>, <<1,1,0>>, <<1,0,0>> >>
    IN  [n \in 1..4 |-> <<c[1], c[2] + o[n][1], c[3] + o[n][2], c[4] + o[n][3]>>]

\* The quads of a batch: rows of four voxels around a crossed edge that are
\* all there.  Rows are counted within the batch.
Quads(t, b, crossed) ==
    LET place(c) == CHOOSE i \in DOMAIN t.coords : t.coords[i] = c
        row(c) == Cardinality({i \in 1..place(c) : t.coords[i][1] = b})
        whole == {e \in crossed : /\ e[1][1] = b
                                  /\ ToSet(Around(e[1], e[2])) \subseteq ToSet(t.coords)}
    IN  {[n \in 1..4 |-> row(Around(e[1], e[2])[n])] : e \in whole}

\* A quad is cut along one of its diagonals.
Fault_Halves(q, first) ==
    IF first THEN {<<q[1], q[2], q[3]>>, <<q[1], q[3], q[4]>>}
             ELSE {<<q[1], q[2], q[4]>>, <<q[2], q[4], q[3]>>}
Halves(q, first) ==
    IF first THEN {<<q[1], q[2], q[3]>>, <<q[1], q[3], q[4]>>}
             ELSE {<<q[1], q[2], q[4]>>, <<q[4], q[2], q[3]>>}

\* A primal edge is a voxel and an axis.  Features say which are crossed.
Edges(t) == {<<t.coords[i], a>> : i \in DOMAIN t.coords, a \in 1..3}
Crossings(t) == {{e \in Edges(t) : Crossed(sign, e)} : sign \in Signs}

\* The mesh, batch by batch.
QuadsOf(t, crossed) == [b \in 0..t.batch - 1 |-> Quads(t, b, crossed)]
Faces(quads, cut) == UNION {Halves(q, q \in cut) : q \in quads}
PartsOf(quads, cut) ==
    [b \in DOMAIN quads |-> [quads |-> quads[b], faces |-> Faces(quads[b], cut)]]

\* Which edges are crossed and which diagonals are taken is up to the numbers.
Mesh(resolution) ==
    LET t == done.decoded["shape"]
        bad == ~Valid(t) \/ t.ch # 7 \/ resolution = 0
                  \/ \E i \in DOMAIN t.coords : \E a \in 2..4 : t.coords[i][a] >= resolution
    IN
    /\ pc = "idle" /\ t # Bad /\ done.mesh = None /\ done.latents["texture"] = Bad
    /\ \/ /\ ~bad
          /\ \E crossed \in Crossings(t) : LET quads == QuadsOf(t, crossed) IN
               \E cut \in SUBSET UNION {quads[b] : b \in DOMAIN quads} :
                  done' = [done EXCEPT !.mesh = [parts |-> PartsOf(quads, cut)]]
          /\ UNCHANGED <<pc, call, engine, walk, why>>
       \/ bad /\ Fail("shape")
    /\ UNCHANGED <<input, mode, forced, chose>>

Calls == [kind : {"decode"}, stage : Stages, last : {0}]
             \cup [kind : {"upsample"}, stage : {"shape"}, last : 1..Len(Decoder["shape"].ch)]

\* A failed run ends.
Over == pc = "failed" /\ UNCHANGED vars

Next ==
    \/ \E s \in Stages : FlowBegin(s)
    \/ FlowBlock \/ FlowEnd
    \/ \E c \in Calls : DecodeBegin(c)
    \/ DecodeBlock \/ Transition \/ Breaks \/ DecodeEnd
    \/ Mesh(Decoder["shape"].res)
    \/ Over

Spec == Init /\ [][Next]_vars

-----------------------------------------------------------------------------
\* A row is computed from its own batch only, through both attentions, the
\* convolutions and the levels, and a flow shows it all of its batch: the
\* rows of a batch are found by position, not by a field of their own.
BatchesApart ==
    /\ \A i \in DOMAIN hidden.deps : \A d \in hidden.deps[i] : d[2] = hidden.coords[i][1]
    /\ \A s \in Stages : \A i \in DOMAIN done.latents[s].deps :
          Everything(done.latents[s].coords[i][1], s) \subseteq done.latents[s].deps[i]

\* No operation gets a tensor it refuses, no weight is asked of the wrong
\* block, and the texture decoder can follow the subdivisions of the shape
\* decoder, whatever engine made them: a call fails for numbers only, or where
\* a GPU is left without points.
OnlyNumbersFail == why \in {"none", "numbers", "empty"}

\* The decoded texture is about the decoded shape, row for row.
TextureFollowsShape ==
    done.decoded["texture"] # Bad =>
        done.decoded["texture"].coords = done.decoded["shape"].coords

\* Upsampling gives the coordinates the decoder of the same engine goes
\* through at that level, although it stops at another point of the level.
UpsampledLikeDecoded ==
    done.up # None /\ Kind(done.up.by) = Kind(done.by) =>
        done.up.coords = done.coords[done.up.last]

\* The points of each level are children of the points before: averaging
\* pairs of a level leads back to points of the level it came from.
LevelsNested ==
    LET points(l) == IF l \in DOMAIN done.subs THEN done.subs[l] ELSE done.decoded["shape"] IN
    \A l \in 2..Len(done.coords) :
        LET down == DownsampleMean(points(l), 2)
        IN  /\ down # Bad /\ down.size = points(l - 1).size
            /\ points(l).coords = done.coords[l]
            /\ ToSet(down.coords) \subseteq ToSet(done.coords[l - 1])

\* An upsampling reaches the points a decode does, both go from a level to its
\* children only, and the texture ends at the points of the shape.
LevelsAgree == UpsampledLikeDecoded /\ LevelsNested /\ TextureFollowsShape

\* The two triangles of a quad are wound alike: together they go around the
\* quad once, whichever diagonal cuts it, and quads stay within a batch.
QuadsCovered ==
    done.mesh # None => \A b \in DOMAIN done.mesh.parts :
        /\ \A q \in done.mesh.parts[b].quads :
              /\ Cardinality(ToSet(q)) = 4
              /\ \A n \in 1..4 : \E f \in done.mesh.parts[b].faces, m \in 1..3 :
                    <<f[m], f[(m % 3) + 1]>> = <<q[n], q[(n % 4) + 1]>>
        /\ Cardinality(done.mesh.parts[b].faces) = 2 * Cardinality(done.mesh.parts[b].quads)
=============================================================================
