---------------------------- MODULE SparseTensor ----------------------------
(***************************************************************************)
(* The sparse tensors of src/src/sparse.cpp and the blocks of              *)
(* sparse_transformer.cpp and slat_decoder.cpp that are built from them.   *)
(*                                                                         *)
(* A tensor is its batch size, its size (one number for the three axes),   *)
(* its channels, its coordinates <<batch, x, y, z>> and, in the place of   *)
(* features, deps: for each row the set of inputs it was computed from.    *)
(* An operation on something it refuses returns Bad, which none accepts.   *)
(***************************************************************************)
EXTENDS Integers, Sequences, SequencesExt, FiniteSets

Bad == [batch |-> 0, size |-> 0, ch |-> 0, coords |-> <<>>, deps |-> <<>>]
Checked(ok, t) == IF ok THEN t ELSE Bad

Point == Int \X Int \X Int \X Int

InShape(t, c) == c[1] \in 0..t.batch - 1 /\ \A a \in 2..4 : c[a] \in 0..t.size - 1

\* In shape, no point twice, contiguous by batch.
Valid(t) ==
    /\ t.batch > 0 /\ t.ch > 0 /\ t.size > 0
    /\ Len(t.deps) = Len(t.coords)
    /\ \A i \in DOMAIN t.coords : InShape(t, t.coords[i])
    /\ IsInjective(t.coords)
    /\ \A i \in DOMAIN t.coords : i > 1 => t.coords[i - 1][1] <= t.coords[i][1]

\* Tokens of a variable length: offs[b + 1] rows come before those of batch b.
VarLenValid(v) ==
    /\ v.batch > 0 /\ v.ch > 0
    /\ Len(v.offs) = v.batch + 1 /\ v.offs[1] = 0
    /\ \A b \in 1..v.batch : v.offs[b] <= v.offs[b + 1]
    /\ Len(v.deps) = v.offs[v.batch + 1]

SameCoords(s, t) == s.batch = t.batch /\ s.coords = t.coords

-----------------------------------------------------------------------------
(* Operations on one row at a time.                                        *)

Linear(t, out)      == Checked(Valid(t) /\ out > 0, [t EXCEPT !.ch = out])
VarLenLinear(v, out) == Checked(VarLenValid(v) /\ out > 0, [v EXCEPT !.ch = out])
LayerNorm(t)        == Checked(Valid(t), t)
HeadNorm(t, heads, dim) ==
    Checked(Valid(t) /\ heads > 0 /\ dim > 0 /\ t.ch = heads * dim, t)
VarLenHeadNorm(v, heads, dim) ==
    Checked(VarLenValid(v) /\ heads > 0 /\ dim > 0 /\ v.ch = heads * dim, v)
Rotary(t, heads, dim) ==
    Checked(Valid(t) /\ heads > 0 /\ dim > 0 /\ dim % 2 = 0 /\ t.ch = heads * dim, t)

Slice(t, ch)      == [t EXCEPT !.ch = ch]
VarLenSlice(v, ch) == [v EXCEPT !.ch = ch]

\* A residual: both rows are needed.
Add(s, t) ==
    Checked(Valid(s) /\ SameCoords(s, t) /\ s.ch = t.ch /\ s.size = t.size,
            [s EXCEPT !.deps = [i \in DOMAIN s.deps |-> s.deps[i] \cup t.deps[i]]])

\* Modulation by the timestep of the row's batch.
Modulate(t) ==
    [t EXCEPT !.deps = [i \in DOMAIN t.deps |-> t.deps[i] \cup {<<"time", t.coords[i][1]>>}]]

Concat(s, t) ==
    LET both == Add([s EXCEPT !.ch = 1], [t EXCEPT !.ch = 1])
    IN  Checked(Valid(s) /\ Valid(t) /\ Valid(both), [both EXCEPT !.ch = s.ch + t.ch])

RepeatChannels(t, out) ==
    Checked(Valid(t) /\ out > 0 /\ out % t.ch = 0, [t EXCEPT !.ch = out])

-----------------------------------------------------------------------------
(* Operations that mix rows.                                               *)

\* batch_range: the rows from the first that is not below the batch, while
\* they are of the batch.
Fault_BatchUpTo(t, b) == {i \in DOMAIN t.coords : t.coords[i][1] <= b}
BatchRange(t, b) ==
    LET before == {i \in DOMAIN t.coords : \A j \in 1..i : t.coords[j][1] < b}
        start  == Cardinality(before) + 1
    IN  {i \in start..Len(t.coords) : \A j \in start..i : t.coords[j][1] = b}

\* Every row of a batch attends to every key of that batch, and every batch
\* must have a key.
SelfAttention(q, k, v, heads, dim) ==
    LET keys(b) == UNION {k.deps[i] \cup v.deps[i] : i \in BatchRange(k, b)} IN
    Checked(/\ Valid(q) /\ Valid(k) /\ Valid(v)
            /\ heads > 0 /\ dim > 0 /\ q.ch = heads * dim /\ k.ch = heads * dim
            /\ v.ch % heads = 0 /\ q.batch = k.batch /\ q.batch = v.batch
            /\ \A b \in 0..q.batch - 1 :
                  /\ BatchRange(k, b) # {}
                  /\ Cardinality(BatchRange(v, b)) = Cardinality(BatchRange(k, b)),
            [q EXCEPT !.ch = v.ch,
                      !.deps = [i \in DOMAIN q.deps |->
                          q.deps[i] \cup UNION {keys(b) :
                              b \in {c \in 0..q.batch - 1 : i \in BatchRange(q, c)}}]])

Tokens(v, b) == v.offs[b + 1] + 1 .. v.offs[b + 2]

\* The rows of batch b are those that follow the rows of the batches before.
CrossAttention(q, k, v, heads, dim) ==
    LET count(b) == Cardinality({i \in DOMAIN q.coords : q.coords[i][1] < b})
        rowsOf(b) == count(b) + 1 .. count(b + 1)
        batchOf(i) == CHOOSE b \in 0..q.batch - 1 : i \in rowsOf(b)
        keys(b) == UNION {k.deps[j] \cup v.deps[j] : j \in Tokens(k, b)}
    IN
    Checked(/\ Valid(q) /\ VarLenValid(k) /\ VarLenValid(v)
            /\ k.batch = v.batch /\ k.offs = v.offs /\ q.batch = k.batch
            /\ heads > 0 /\ dim > 0 /\ q.ch = heads * dim /\ k.ch = heads * dim
            /\ v.ch % heads = 0
            /\ \A b \in 0..q.batch - 1 : Tokens(k, b) # {},
            [q EXCEPT !.ch = v.ch,
                      !.deps = [i \in DOMAIN q.deps |-> q.deps[i] \cup keys(batchOf(i))]])

\* The neighbour map: row number at offset <<dx, dy, dz>> of point i, or 0.
Offsets == (-1..1) \X (-1..1) \X (-1..1)
Neighbour(t, i, o) ==
    LET c == t.coords[i]
        n == <<c[1], c[2] + o[1], c[3] + o[2], c[4] + o[3]>>
    IN  IF \E j \in DOMAIN t.coords : t.coords[j] = n
        THEN CHOOSE j \in DOMAIN t.coords : t.coords[j] = n ELSE 0

Conv(t, out) ==
    Checked(Valid(t) /\ out > 0,
            [t EXCEPT !.ch = out,
                      !.deps = [i \in DOMAIN t.deps |->
                                  UNION {IF Neighbour(t, i, o) = 0 THEN {}
                                         ELSE t.deps[Neighbour(t, i, o)] : o \in Offsets}]])

-----------------------------------------------------------------------------
(* Operations that change the coordinates.                                 *)

Less(c, d) ==
    \E a \in 1..4 : c[a] < d[a] /\ \A e \in 1..a - 1 : c[e] = d[e]

\* The elements of S one after another; an order is a set of pairs.
InOrder(S, order) ==
    [n \in 1..Cardinality(S) |->
        CHOOSE x \in S : Cardinality({y \in S : <<y, x>> \in order}) = n - 1]

DownsampleMean(t, factor) ==
    LET parent(c) == <<c[1], c[2] \div factor, c[3] \div factor, c[4] \div factor>>
        ps == {parent(t.coords[i]) : i \in DOMAIN t.coords}
        cs == InOrder(ps, {e \in ps \X ps : Less(e[1], e[2])})
    IN
    Checked(Valid(t) /\ factor > 0,
            [t EXCEPT !.size = (t.size + factor - 1) \div factor, !.coords = cs,
                      !.deps = [k \in DOMAIN cs |->
                          UNION {t.deps[i] : i \in {j \in DOMAIN t.coords :
                                                       parent(t.coords[j]) = cs[k]}}]])

ChildOf(c, k) ==
    <<c[1], 2 * c[2] + (k % 2), 2 * c[3] + ((k \div 2) % 2), 2 * c[4] + (k \div 4)>>

\* A subdivision is a tensor with eight channels; kids[i] are the children of
\* point i whose value is positive.  Without one every child is selected.
Selected(t, sub) ==
    FlattenSeq([i \in DOMAIN t.coords |->
        LET kids == IF sub = Bad THEN 0..7 ELSE sub.kids[i]
            kid  == InOrder(kids, {e \in kids \X kids : e[1] < e[2]})
        IN  [n \in DOMAIN kid |-> <<i, kid[n]>>]])

SubdivisionFits(t, sub) ==
    sub # Bad => /\ Valid(sub)
                 /\ sub.batch = t.batch /\ sub.ch = 8 /\ sub.coords = t.coords

ChannelToSpatial(t, sub) ==
    LET sel == Selected(t, sub)
        u == [t EXCEPT !.ch = t.ch \div 8, !.size = 2 * t.size,
                       !.coords = [n \in DOMAIN sel |-> ChildOf(t.coords[sel[n][1]], sel[n][2])],
                       !.deps = [n \in DOMAIN sel |-> t.deps[sel[n][1]]]]
    IN  Checked(Valid(t) /\ t.ch % 8 = 0 /\ SubdivisionFits(t, sub) /\ Valid(u), u)

\* The same step of the GPU is laid out on the host: which eighth of which
\* row goes where, and the coordinates, counted out a second time.
Fault_GpuChild(k) == <<k \div 4, (k \div 2) % 2, k % 2>>
GpuChild(k) == <<k % 2, (k \div 2) % 2, (k \div 4) % 2>>
GpuLayout(t, sub) ==
    LET sel == Selected(t, sub) IN
    [ok     |-> t.ch > 0 /\ t.ch % 8 = 0 /\ SubdivisionFits(t, sub) /\ sel # <<>>,
     gather |-> [n \in DOMAIN sel |-> 8 * (sel[n][1] - 1) + sel[n][2]],
     coords |-> [n \in DOMAIN sel |->
                    LET c == t.coords[sel[n][1]]
                        k == GpuChild(sel[n][2])
                    IN  <<c[1], 2 * c[2] + k[1], 2 * c[3] + k[2], 2 * c[4] + k[3]>>]]

-----------------------------------------------------------------------------
(* Blocks.                                                                 *)

ConvNextBlock(t, w) ==
    Checked(Valid(t) /\ w.kind = "convnext" /\ w.ch = t.ch /\ w.out = t.ch,
            Add(Linear(Linear(LayerNorm(Conv(t, t.ch)), 4 * w.ch), t.ch), t))

\* sparse_resblock_c2s_f32 with the subdivision it has settled on.
UpBlock(t, w, sub) ==
    LET packed == Conv(LayerNorm(t), w.out * 8)
        hidden == ChannelToSpatial(packed, sub)
        skip   == RepeatChannels(ChannelToSpatial(t, sub), w.out)
    IN
    Checked(Valid(t) /\ w.kind = "c2s" /\ w.ch = t.ch /\ w.out > 0 /\ t.ch % 8 = 0,
            Add(Conv(LayerNorm(hidden), w.out), skip))

\* run_c2s_transition: one graph on the rows of the layout.
GpuUpBlock(t, w, sub) ==
    LET layout == GpuLayout(t, sub)
        rows(u, ch) == [batch |-> t.batch, size |-> 2 * t.size, ch |-> ch,
                        coords |-> layout.coords,
                        deps |-> [n \in DOMAIN layout.gather |->
                                     u.deps[layout.gather[n] \div 8 + 1]]]
        skip == t.ch \div 8
    IN
    Checked(/\ w.kind = "c2s" /\ w.ch = t.ch /\ w.out > 0 /\ Valid(t)
            /\ layout.ok /\ w.out % skip = 0,
            Add(Conv(rows(Conv(t, 8 * w.out), w.out), w.out), rows(t, w.out)))

\* sparse_transformer_cross_block_f32: self-attention, attention to the global
\* tokens, the projected features of the row, a perceptron.
CrossBlock(t, ctx, proj, cfg) ==
    LET dim == cfg.ch \div cfg.heads
        qkv == Linear(Modulate(LayerNorm(t)), 3 * cfg.ch)
        part == Slice(qkv, cfg.ch)
        qk  == Rotary(HeadNorm(part, cfg.heads, dim), cfg.heads, dim)
        own == Modulate(Linear(SelfAttention(qk, qk, part, cfg.heads, dim), cfg.ch))
        s   == Add(t, own)
        cq  == HeadNorm(Linear(LayerNorm(s), cfg.ch), cfg.heads, dim)
        kv  == VarLenSlice(VarLenLinear(ctx, 2 * cfg.ch), cfg.ch)
        ck  == VarLenHeadNorm(kv, cfg.heads, dim)
        att == Linear(CrossAttention(cq, ck, kv, cfg.heads, dim), cfg.ch)
        c   == Add(s, IF cfg.proj > 0 THEN Add(att, Linear(proj, cfg.ch)) ELSE att)
        mlp == Modulate(Linear(Linear(Modulate(LayerNorm(c)), cfg.hidden), cfg.ch))
    IN
    Checked(/\ Valid(t) /\ VarLenValid(ctx)
            /\ cfg.ch > 0 /\ cfg.heads > 0 /\ cfg.ch % cfg.heads = 0
            /\ t.ch = cfg.ch /\ ctx.ch = cfg.context /\ ctx.batch = t.batch
            /\ cfg.proj > 0 => proj.ch = cfg.proj /\ SameCoords(t, proj),
            Add(c, mlp))
=============================================================================
