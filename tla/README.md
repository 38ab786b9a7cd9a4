# Pixal3D.cpp in TLA+

Pixal3D.cpp turns one image (or a few) into a textured mesh.  A native program
runs a cascade of neural networks on ggml backends and writes an OBJ or a GLB
file; a small Python server starts that program for a browser.  This directory
holds TLA+ models of the parts of it that are hard to get right, the TLC
configurations that check them on small instances, and proofs, checked by TLAPS,
of what matters most for every size.

Paths below are relative to the root of the repository (`src/` is its C++
directory).

    tlc -config DemoJobs_limits.cfg MCDemoJobs.tla     model-check one instance
    tlapm DemoJobsProofs.tla                           check the proofs of a component

`PROJECT.json` lists the runs, the source lines behind each definition, the
hazards, and for every property a change of one definition (an operator named
`Fault_...` in the module) that the property catches.

## 1. The system

| Component | State it keeps | Operations | Hard because |
|---|---|---|---|
| Demo server, `scripts/serve_demo.py` | job table, semaphore of running jobs, a directory per job | POST handler, one worker thread per job, GET handlers, pruning | threads give up the lock with a decision in hand; the native process hangs, dies or prints rubbish; directories are deleted |
| Demo page, `demo/index.html` | id of the job shown, poll timer | generate, poll | answers come after the user has moved on |
| Command line, `src/main.cpp` | options | `run-image`, `run-cascade`, `run-cascade-mv`, tools | order of guard, loading, camera, encoding, cascade, writing |
| Inference, `src/inference.cpp` | seven models as locals | estimate, load, run, write OBJ | every step can fail; models hold GPU memory |
| Cascade, `src/pipeline.cpp` | coordinates and latents handed from stage to stage | structure, low-resolution shape, upsampling, shape, texture, decoding, mesh | tensors from callbacks, samplers and decoders must be about the same points |
| Sparse structure stage, `src/ss_flow.cpp`, `src/flow_sampler.cpp`, `src/ss_decoder.cpp` | weights, kept graph and scheduler | forward, sample, decode | reuse and teardown of a kept graph; inputs that are uploaded once |
| SLat flow, `src/slat_flow.cpp` | weights, graph, rotary tables on the GPU | forward, sample, close | what is kept must fit the next call; fallback after any failure |
| SLat decoder, `src/slat_decoder.cpp` | weights on the GPU, cached neighbour map | decode, upsample_coords | the map is keyed by less than it depends on |
| Backends, `src/backend.cpp` | ggml backends, CPU thread pool; `BackendScheduler` | initialize, close, set_n_threads | ownership on every failing path; order of freeing |
| Sparse tensors, blocks, dual grid, `src/sparse.cpp`, `src/sparse_transformer.cpp`, `src/slat_decoder.cpp`, `src/dual_grid.cpp` | none between calls | attention, convolution, up and down a level, quads | rows are found by position; shape and texture must agree point for point, whatever engine computed them |
| Vision, `src/dino_vit.cpp`, `src/naf.cpp`, `src/vision_condition.cpp` | weights | encode, upsample, a bundle of stages | the GPU is given up in the middle of a call |
| MoGe camera, projection, image input | weights | one call each | floating point |
| Condition bundles, `src/condition.cpp` | files | save, load, both formats | crashes between blocks, one temporary name for all writers, limits checked on two sides |
| Weight packs, `src/pack.cpp` | files | parse | malformed input |
| Mesh topology, `src/mesh_topology.cpp` | none between calls | fill holes, split non-manifold edges | branching boundaries, union-find over corners |
| Decimation, `src/decimate_qem.cu`, `src/mesh_qem_decimate.cpp` | arrays of a round | rounds of edge collapse | GPU threads write shared arrays without atomics |
| Mesh cleaning, UV baking, GLB export | worker thread with a limit of 300 s | weld, clean, bake, write | a worker that is abandoned and keeps running |
| Download, conversion, comparison, release scripts | `.part` files | fetch ranges, verify, rename | resumed and parallel downloads |

How they interact: the browser calls the server; the server starts the command
line as a process and sees its output, its exit code and one file; the command
line loads models through `inference.cpp`, which calls the cascade; the cascade
calls the samplers and decoders, the caller's noise and condition builders, and
the mesh code; samplers and decoders own a `BackendManager` each.  Only the
server has several threads with shared state; in the native program concurrency
is inside ggml, in the kernels of the decimation and in the worker of the UV
baking.  What makes the rest hard is failure: nearly every call can fail, the GPU
path falls back to the CPU, and state kept between calls (graphs, tables, maps,
weights, pools) must be dropped in the right order and never used stale.

What makes each component correct, in short:

* server: limits hold, permits are returned, nobody's files vanish, a finished
  job is whole, every started job finishes;
* backends: nothing leaks, nothing freed is used, the policy is honoured;
* SLat flow and decoder: what is kept on the GPU is for this call's points, the
  CPU takes over only when the GPU is free, calls return;
* cascade: tensors of one stage are about the same points, the limits are hard
  limits, an earlier result survives a failed run;
* mesh topology: caps close holes and nothing else, a split tears no fan apart and leaves no
  edge with three faces;
* decimation: threads of a kernel never meet, no hole is torn, the two
  implementations agree;
* sparse stages: a batch sees all of itself and nothing else, no operation refuses
  what the one before it hands over, the texture is about the points of the shape;
* graph models: a kept graph computes from this call's inputs, `gpu:N` is obeyed,
  nothing half-made survives a failure;
* bundles: the path stands for a whole bundle, and what was saved loads as saved;
* export: the mesh handed to each step is what the step takes for granted, no face is
  lost on the way to the file, and a charting thread that never answers harms nobody.

## 2. Modules

| Module | Models | Checked by | Proofs |
|---|---|---|---|
| `JobBoard` | the jobs and answers a client of the server may see (abstract) | refined by `DemoJobs` | in `DemoJobsProofs` |
| `DemoJobs` | `scripts/serve_demo.py` 59-337, 528-588 and the process it starts | `MCDemoJobs` | `DemoJobsProofs` |
| `Backend` | `BackendManager` (`src/backend.cpp` 195-502) | `MCBackend` | `GpuProofs` |
| `GraphScheduler` | `BackendScheduler` (`src/backend.cpp`), as operators | used by `ModelGraphs` | - |
| `ModelGraphs` | structure flow, sampler and decoder, DINO, NAF, the encoder that composes them | `MCModelGraphs` | `ModelGraphsProofs` |
| `SlatFlow` | GPU stage of `SLatFlowModel` | `MCSlatFlow` | `CascadeProofs` |
| `DecoderGpu` | GPU path of `SLatDecoderModel` | `MCDecoderGpu` | `GpuProofs` |
| `SparseTensor` | operations and blocks on sparse tensors, as operators | used by `SparseStages` | in `SparseStagesProofs` |
| `SparseStages` | SLat flows and decoders on the CPU, engine fallbacks, dual grid mesh | `MCSparseStages` | `SparseStagesProofs` |
| `Cascade` | `run-image` and `run-cascade`: guard, loading, four stages, decoders, writing | `MCCascade` | `CascadeProofs` |
| `MeshTopology` | hole filling and edge splitting (`src/mesh_topology.cpp`) | `MCMeshTopology` | `MeshProofs` |
| `Qem` | both implementations of the decimation | `MCQem` | `MeshProofs` |
| `MeshExport` | the chain from the decoded mesh to the GLB | `MCMeshExport` | `MeshExportProofs` |
| `BundleFormat` | what a valid condition bundle is and the words of its file | used by `BundleFile` | in `BundleFileProofs` |
| `BundleFile` | savers and loaders of bundles, crashes and damage | `MCBundleFile` | `BundleFileProofs` |

The modules meet at interfaces that each states as the other keeps it.
`DemoJobs` has the native process as lines, a file and an exit code, which is
what `Cascade` ends with.  `Cascade` has a sampler as a step that puts a flow on
the GPU and leaves nothing there, which is part of `GivenBack` of `SlatFlow`, and a
decoder as a step that stays there or has been closed, which is what `DecoderGpu`
does.  All of them hold or have given back what `Backend` opens; `ModelGraphs` has
opening and closing a manager as one step each, because `Backend` shows that nothing
is left in between.  What a stage computes with its points is `SparseStages`, and the
neighbour maps its convolutions use on the GPU are `DecoderGpu`.  `MeshExport` begins
with a decoded mesh and has the decimation as one step; that the mesh it hands over
has proper triangles, which `Qem` assumes, is `ReadyToSimplify`.

### Demo server: DemoJobs

A section under `DemoState.lock` is one action, and an action ends wherever
another thread can come between: where the lock is released with something
decided, or where a thread blocks.  `NewJob` is the whole of `new_job`, pruning
included; `WriteAndStart` and `Answer` are the rest of the POST handler; a worker
is `Acquire`, `Launch`, then `CheckDeadline` and `ReadLine` in turn, then `Store`
and `Release`.  `Store` is apart from the decision because `_set_job` evaluates
`time.time()` before it takes the lock: `endedAt` need not be in the order in
which jobs became finished, and pruning goes by it.  The native process prints
lines, opens its output and exits, in any order the operating system allows,
with the pipe's end of file and `poll()` as separate events.  A download is
located under the lock and read without it.

`mkdir`, `open`, `Popen`, decoding a line and removing a directory may fail.
Exit code 0 is taken to mean that a file that was opened is whole; `Cascade` has
the one case where the program falls short of that (the tail of an OBJ, below).  Logs,
progress and stage texts are left out.

`JobBoard` is the same server from outside: entries that go absent, queued,
running, finished, forgotten, and the answer to each POST.  At most `MaxJobs` are
remembered; only finished ones are forgotten, and no more of them than a new job
needs.  A POST is refused (503) only when every place is taken by an unfinished job,
accepted (202) while its job is remembered, and told 404 only when its job has ended
and been forgotten; a job whose POST failed (500) does not run.  `BoardSpec` maps
`status` and `post` to it.  A download may fail (500) when reading the file raises.

### Backends: Backend

One action per call into ggml, so that what ggml could see between two calls is a
state: `Detach`, `FreePool`, `FreeBackends` are `close()`; `OpenGpu`, `OpenAccel`,
`OpenCpu`, then the steps of `set_n_threads` are `initialize()`.  Each
`ggml_backend_dev_init` may fail.  `device`, `attached` and `threads` are what ggml
keeps for a handle.  A registry is a sequence of device types.  `SetThreads` may also
come before `initialize()`, as `set_n_threads` has no guard: it then makes a pool that no
backend is attached to, which `initialize()` replaces or `close()` frees.

### Graph models: GraphScheduler, ModelGraphs

`GraphScheduler` has the scheduler's methods as operators on three facts: whether ggml
made it, whether the graph's core operations are required on the primary backend, and
where ggml has put them.  `Allocated` and `CanCompute` contain the preflight and the
check of the placement, at the places where `allocate_graph` and `compute` make them.

`ModelGraphs` is a sequence of public calls on four models.  Every call into ggml is a
step of its own and may fail: `OpenPack`, `OpenManager`, `AllocateWeights`, `ReadWeights`
load a model; `FlowBuild`, `FlowAllocate`, `FlowUpload`, `FlowCompute` are one evaluation,
likewise for the decoder, DINO and NAF's convolutions; `FreeFirst`, `FreeGraph`,
`FreeBuffer`, `FreeManager` are `close()` in its order.  An input tensor holds the name
of the value last uploaded to it: the call, the sampler step and the branch.  That a
kept graph's inputs keep what was uploaded to them until the next upload is an
assumption about ggml's allocator, which the rotary table of the structure flow relies on.
`Sample` chooses the interval of guided steps and the guidance strength, from which follow
the branches a step evaluates.  `Logits` pools a decoded grid to cells.  A decode may be
refused before it begins (the shape of the latent) and after the graph has run (threshold,
channels, target resolution).  NAF gives up its
GPU (`GiveUp`) after any failed convolution, drops what it has and starts again on the CPU.

### SLat flow: SlatFlow

`Begin` is a call of `forward` or of `sample`, with coordinates, a context length
and a batch.  The steps follow `forward_gpu`: `Enter` compares the key of the kept
graph, `Rope` recomputes the rotary tables, `Build` builds the graph, `Upload` and
`Compute` run it; each may fail, and `GiveUp` closes the stage in three steps
before the CPU takes over.  The key of the graph counts points; the tables
depend on the coordinates themselves, so coordinates are model values with a
number of points, two of them with the same.

### SLat decoder: DecoderGpu

`decode` and `upsample_coords` are one walk over the levels with the two paths of
the code (`settings.gpuFirst`).  `Prepare` is `prepare_neighbor_map` with both its
refusals, `Publish` is the transition on the GPU, which may still refuse what it
has read back, `Subdivide` the older one on the host.  A tensor is its coordinates and level; a fingerprint is its coordinates.
The convolutions, weights and the CPU path compute numbers and are one step each.

### Sparse tensors and stages: SparseTensor, SparseStages

In the place of features a row carries the set of inputs it was computed from: which noise,
projected feature, global token and timestep.  An operation transforms these sets the way
it moves rows: attention unites the rows it finds by its offsets, a convolution the rows
at the neighbouring coordinates, going up a level copies a row to its children.  What an
operation refuses in the code gives `Bad`, and everything refuses `Bad`, so a wrong
composition cannot go unnoticed.

`SparseStages` composes them: `FlowBegin`, `FlowBlock`, `FlowEnd` are
`slat_flow_forward_f32`; `DecodeBegin`, `DecodeBlock`, `Transition`, `DecodeEnd` are a
decode or an upsampling on the engine the switches choose; `Breaks` is a GPU attempt
that fails half way and begins again on the next engine, subdivisions cleared.  Predicted
children are any of a set given per level, remembered per engine kind (`chose`), since two
runs of one engine predict the same and two engines need not.  `Mesh` builds the quads
around crossed edges and cuts each along either diagonal; which edges the decoded features
cross is a constant (`Signs`, `Crossed`), like what may be predicted (`Foreseen`).

### Cascade

A run is one sequential program.  A tensor is the set of its points; `built`
holds what the builders returned for the current stage, `out` what the cascade
keeps.  `vram` and `loaded` say which models have weights where.  The builders are
callbacks: they fail, or return a tensor for any set of points at all, and
`strayed` remembers whether one was wrong.  Sampled and decoded points are any set.
`Open`, `Write` and `Close` are the output file: a GLB's payload is one write that
goes past the stream's buffer, an OBJ is many small ones whose tail is flushed by
the destructor.

### Mesh topology: MeshTopology

A call is sequential, and an action is one turn of one of its loops: `Mark` notes the
neighbours of one boundary edge, `Seed` and `Walk` follow a boundary edge by edge, `Cap`
builds the fan of a closed loop, `AppendCaps` puts the fans into the mesh; `Unite` joins the
corners along one edge, `Split` gives one corner its vertex, `Check` accepts the candidate.
Faces are functions from corners to vertices as in the code, edges are visited in the order
of the sort, and the union-find forest has its ranks and its path compression.  Positions
are left out: whether a loop is short enough and its cap has area is any answer, and a copy
of a vertex is remembered by what it copies.  Vertices are numbered from 1.

### Decimation: Qem

A round draws a cost for every edge; `Propagate` gives each face to its least
edge; `Launch` lets the edges that own all faces at both ends win; then, on the GPU,
the winners' threads interleave `Kill`, `Drop` and `Retarget`, and on the CPU each
finishes before the next begins.  `Compact`, `Copy` and the ladder of thresholds
follow.  Costs are kept in the order of their float bits, since that is how the
code compares them: a negative cost comes after infinity.  The minima of one
kernel are one step because `atomicMin` commutes and a kernel ends before the next
of its stream.  Edge numbers are in lexicographic order on both devices; the CPU
numbers them in the order of a hash map, which only matters among equal costs.
That input faces have three different corners is what `clean_mesh` leaves.
`GPU_OK` returns from the middle of a function and leaves temporary device buffers
allocated; memory on the device is not modelled.

### Export: MeshExport

One run of `write_pixal3d_glb`.  `Weld` and `Welded` merge vertices near enough and
drop faces that fold, `Seed`, `Flood` and `Flooded` are the traversal that winds
neighbouring faces alike, `Drop` removes fragments, `Decimate` folds at most one edge,
`Walk` and `PassEnds` are the two passes over boundary loops.  In `uv_bake`, `Triage` sets
repeated faces and tiny components of a soup aside, `Merge` joins clusters of faces round
by round, `AddMeshes` starts the charting thread with one mesh per cluster or one for all,
`Poll`, `Look` and `Join` wait for it, `Emit` re-indexes each mesh of the atlas and `Strip`
appends what bypassed it.  Which vertices are near, what an edge costs and which chart a
face gets are numbers, hence any choice; orders that come from a hash map are any order.

The thread (`ChartsComputed`, `StoreDone`) runs beside the caller and may never go on.
The limit (`Expire`) may pass at any moment of the wait; the flag is read once more
afterwards (`Look`), so an answer at the last moment counts.  An abandoned thread keeps
its atlas and its flag.

Left out: texels, normals, smoothing, and texture sizes below 16, where the strip for
tiny components has no room.

### Condition bundles: BundleFormat, BundleFile

A file is a sequence of words, each with its kind, and reading one as another kind gives
what its bytes are, so that a reader that is out of step behaves as the code would.
Bundles are records like the structs of `condition.h` over any floats and names (`Floats`,
`Names`); a map that is not given is an empty one, as in the code.
`Blocks` are the parts of a bundle between two tests of the stream.  Savers `SaveBegin`
(truncate `path + ".part"`), `WriteBlock` until all blocks are out, `FlushAndClose` and
`Rename`; each may fail, and `Crash` may come between any two.  Files are inodes: a saver
goes on writing the file it opened when the name has gone to another.  Readers open the
path and go through it word by word (`ReadHead` ... `LoadEnd`) while it is replaced.
`Damage` puts a shortened or lengthened copy at the path.  `torn` marks the files two
overlapping savers may both have written; the properties are about all others.

## 3. What the runs show

| Run | Instance | Shows |
|---|---|---|
| `demo_limits` | 3 jobs, 2 places, 1 permit, 1 download, timeouts | limits, permits, pruning, files and downloads under every interleaving; `JobBoard` is implemented, answers included |
| `demo_liveness` | 2 jobs, 1 permit, 1 line each, deadlines that may pass at any time | started jobs finish if processes do; an exit is noticed, and an overdue process with a line to read is killed, even if another hangs |
| `backend_ok` | 6 registries, 5 handles, 3 pools, 2 thread counts | nothing leaks or dangles on any failing path; the policy is honoured |
| `model_graphs` | 4 calls, 2 sampler steps, 2 token counts, 2 convolutions per stack, bundles of up to 2 stages | kept graphs compute from this call; the mandatory GPU; what is left after a failure; order of freeing; bundles of one image; pooling |
| `slat_stage` | 3 coordinate sets, 2 of one size, 2 contexts, 2 sampler steps, 4 policies | tables and graph fit the call; teardown order; nothing is left after a sample; calls return |
| `decoder_map` | 3 coordinate sets, 3 levels, 2 blocks, all settings | no convolution gathers through a stale map; the refusals are unreachable |
| `sparse_stages` | 2 batches of a point each, 2 neighbours in one batch; decoders of 3 levels, 2 flow blocks, 3 engines | batches stay apart; nothing is refused; levels, upsampling, shape and texture agree; quads are covered once |
| `cascade_run` | 3 cells, 5 configurations | stages agree on their points; limits; weights on the GPU; the earlier file survives |
| `topology_run` | all meshes of up to 4 oriented triangles on 5 vertices, 6 larger ones | caps close holes only; plain boundaries are walked to the end; splitting succeeds and keeps fans together |
| `qem_run` | 5 meshes of up to 4 triangles, every assignment of 3 costs, 2 rungs, 3 rounds, both devices | threads never meet, no hole is torn, GPU and CPU agree |
| `mesh_export` | 8 meshes of up to 5 faces | winding before the decimation; holes; no face lost in baking; the charting thread keeps what it works on; the export returns |
| `bundle_files` | 5 bundles, valid and not, 2 savers, 1 reader, 3 files, 2 saves | the path stands for whole bundles; loads return what was saved or refuse |

Some properties are conjunctions of statements that are read, and in part proved,
separately: `FilesAreWhole`, `GivenBack`, `MapInStep`, `TensorsTogether`, `WithinBounds`,
`LevelsAgree` and `LoadsAsSaved` name their parts.

### Bounds, and why they are enough

* `demo_limits`: three jobs are the least with which a full table of two prunes one
  job while another runs and a third waits.  The jobs are symmetric.  Lines of
  output are left to `demo_liveness` (`MaxLines`), where two jobs and one permit are
  the least with which one waits for the other.
* `backend_ok`: the registries have every kind of device, one or none or two GPUs,
  a CPU missing, and a CPU listed first; five handles and three pools are one more
  than an operation holds at a time, so a leak shows.
* `slat_stage`, `decoder_map`: a stale table or map needs two coordinate sets that the
  key cannot tell apart and a third that it can; three levels have a first, a middle
  and a last one, two blocks a first and a later one.  Steps of a sampler (`MaxSteps`)
  are the same but for the first and the last.
* `cascade_run`: with three cells a limit of one or two can bite; the configurations
  cover both commands and both formats, no limit, each limit and both, metadata that
  does and does not require a projection, an estimate that does not fit.
* `topology_run`: four triangles on five vertices make every way two boundaries can meet at a
  vertex, edges of up to four faces, and duplicate faces; the larger meshes have two
  boundaries apart, a fan around a vertex, and a forest two levels deep, where a parent is
  not yet the root.
* `qem_run`: two triangles that are apart, share a vertex, share an edge, a closed
  tetrahedron and a strip: two winners next to each other need four triangles.
  `MaxRounds` is 3 (400 in the code), `SlowShare` 3 (100), so that small meshes see slow
  rounds.  The costs are one that needs the second rung, infinity and a negative one.
* `model_graphs`: four calls (`MaxCalls`) are a load and three uses of a model, or the
  loads of DINO and NAF and two encodings; a kept graph needs one call to be made, one to be
  reused and one with another token count (`Tokens`), possibly after a failure.  Two steps
  (`Steps`) have a first and a last; with two convolutions (`Convs`) the GPU can be lost
  after the first of a stack, with two stages (`MaxStages`) after the first of a bundle.
  Cells are of two voxels, since the scan of a cell stops at the first that decides.
* `sparse_stages`: two batches of different context lengths show a row that is counted to
  the wrong batch; two neighbours show convolution, and a level where one loses children
  and the other does not.  Three levels have a first, a middle and a last one.
* `mesh_export`: the meshes are a tetrahedron with a fragment, a cap with a hole, a strip
  of three, a Moebius strip (which cannot be wound), two faces at a vertex, three faces at
  an edge, two components (a soup, with `SoupAt` 1 for 2000) and cracks that welding
  closes.  `DropShare` is 2 (50 in the code), `TinyFaces` 1 (32) and `MaxRounds` 2 (256), so that small
  meshes fall on both sides; `MaxLoop` 4 (64) leaves the Moebius strip's boundary of five open.
* `bundle_files`: two saves (`MaxSaves`) are the least that overlap or follow a crash, three files
  (`MaxFiles`) those two and a damaged copy.  The bundles have two stages, NAF maps, two
  views, a name longer than the limit on reading, a feature that is not finite and views of
  different scale; a sequence of blocks is cut at every place.

### Fairness

`ServerFairness` is weak fairness of the handlers and the workers: Python
threads that can run do run, and no worker holds the lock while it blocks.  `Expire` has
no fairness: a deadline may pass at any moment of a job or not before its end.
`NativeFairness` says that native processes go on; it is assumed only where a property
names it.  `SlatFlow` and `DecoderGpu` have weak fairness of the steps of a call, not of
its beginning: a call is sequential code without waits, so it goes on until it returns.

`FairSpec` of `MeshExport` assumes that the caller goes on and that the limit passes, and
nothing of the charting thread, which may hang.  `CallerGoesOn` is weak fairness of the
caller with its ENABLED written out as `CallerReady`: the caller can always go on except
while it polls or joins.  The run checks deadlock, and a caller without a step anywhere
else would be one once the thread has ended.  The other modules state no liveness and
assume no fairness.

### Where the code and its documentation disagree

Met while modelling.  The models take these steps as the code does; the properties say what
holds in spite of them.

* A stuck process: `_run_job` looks at the deadline only between lines, and `readline()`
  blocks (`scripts/serve_demo.py` 277), so `--job-timeout` does not kill "a stuck native
  process" (`README.md` 263) that prints nothing.  `StartedJobsFinish` assumes that
  processes end; `ExitIsNoticed` says what the deadline does achieve: a worker that is at
  the check, or has a line to read, ends its overdue process.
* An orphan: a line that does not decode (294) ends the worker, which returns its permit
  without ending the process; the next job starts beside it, beyond `--max-running-jobs`,
  the "maximum concurrent native jobs" (645).  `PermitsAccounted` counts workers, not processes.
* A job that cannot be written or started (163) remains "queued" and is never pruned, so the
  advice to "wait for an existing job to finish" (119) does not help.
* Branching boundaries: the third boundary edge at a vertex sets `neighbor_b` to the mark -2,
  and the fourth finds it negative and stores a neighbour there (`src/mesh_topology.cpp` 255),
  so the vertex passes for one of a plain loop.  `mesh_topology.h` 14 says that branching
  regions are preserved; of two triangles that meet at a vertex, 0 1 2 and 0 3 4 are both
  capped, 0 1 3 and 0 2 4 are not.  Where the two places hold neighbours from different
  boundaries, one cap can span both, and its faces then disagree which side is out;
  `HolesClosed` therefore speaks of orientation only where no boundary branches.
* Negative costs: edges are compared by the unsigned bits of their cost
  (`src/mesh_qem_decimate.cpp` 54, `src/decimate_qem.cu` 222), although by the comment at 58
  "an edge collapses only if it is the strict minimum-cost edge".  Rounding makes the quadric error of a flat region
  negative, and that edge, the cheapest, loses every face to a dearer neighbour.  On a tilted
  plane of 1/1024 spacing about a quarter of the costs (49691 of 216563) came out negative.
* Two savers of one bundle share `path + ".part"` (`src/condition.cpp` 499).  When they
  overlap, a mixture of two bundles of one shape can be published, and it loads.
* The tail of an OBJ: `write_pixal3d_obj` asks the stream whether it failed before the tail
  is written (`src/inference.cpp` 494-495; `Close` of `Cascade`), so a full disk can give exit
  code 0 with a truncated file.
* Charting without an answer: a comment (`src/mesh_postprocess.cpp` 927-928) says that the
  caller falls back to a deterministic chart projection; `write_pixal3d_glb` reports
  "texture bake produced no usable mesh" instead.
* `mesh_postprocess.h` says that `clean_mesh` drops duplicate faces; it drops degenerate ones
  only.  Duplicates go later, and only in a soup (`Triage`).
* The structure flow frees a context before the local scheduler of a failed allocation
  (`src/ss_flow.cpp` 738), against the order used everywhere else.  The scheduler is not
  used again, and the end of its scope frees it; `FreedInOrder` allows a scheduler without its
  context there only (`LeftBehind`), so none can be kept or used by a later call.

## 4. What is proved

The theorems hold for every value of the constants under the named `ASSUME` of the module,
which the runs evaluate.

* **DemoJobs** (`LimitsAssumption`: the requests are finitely many, the limits positive).
  The invariant is `StoreInv`: the type invariant; the table holds exactly the jobs that are
  queued, running or finished and has no more than `MaxJobs` of them; and what each thread
  has got to agrees with the status of its job.  A thread's position is needed because pruning
  looks at the status alone: that nobody's job is pruned follows only once "an unfinished
  worker's job is not finished" is part of the induction.  From it follow
  `UnfinishedKept`, `GoneIsLate`, `TableBounded`, `PermitsBalance` and the refinement
  `StoreImplementsBoard`.  That pruning takes no more than a new job needs depends on the
  stamps (`PruneInv`): those of finished jobs are all different and not zero
  (`StampsMatch`), so of a full table with a finished job the oldest alone goes
  (`PrunesOne`, `SomeOldest`), and a POST is refused only over a table of unfinished
  ones (`FullOfUnfinished`).  `FileInv` adds what processes, directories and
  downloads have got to (`ProcessMatches`, `DirectoriesMatch`, `ReadersMatch`): a file
  is whole from the exit of its process on, and a reader that located it holds that fact
  while the directory may go.  From it: `FilesStayWhole`.
* **Backend** (`BackendInv`): the list names every live handle once (`Owned`); the pools are
  the current one and, while one replaces the other, the previous one, and a CPU backend is
  attached to no other (`PoolsKept`); a manager that is not open has no backends (`Empty`); the
  list so far is the policy's (`Listed`).  From it: `FreedWhenDone`, `PolicyKept`, for any
  registry and any number of handles and pools.
* **ModelGraphs** (`Inv`, with `Bundling` and `Told` for bundles): the locals a step uses are
  there, also while a closing is under way (`ClosingFor`, `Locals`); what is loaded has
  backends and weights, and a scheduler has its context except at the end of a scope
  (`Loadedness`, `Order`); what runs under `gpu:N` runs there (`OnGpu`);
  a half-made graph exists only in the steps that make it (`Holding`); and inputs hold the
  values of this call from their upload on, the rotary table from the first upload of its
  graph (`Contents`).  From it all properties of `model_graphs`.  `CellsPooled`
  is inductive by itself (`CellsArePooled`): a scan that stops at the first voxel with something
  in it finds one exactly if there is one.
* **SlatFlow** (`FlowStageInv`, in `CascadeProofs`): weights and graph are there only with the backends, the graph
  and the uploaded tables are for the key and the coordinates that are remembered, and on
  the way to the CPU nothing is left.  From it: `RopeCurrent`, `GraphFitting`, `ManagerLast`,
  `CpuTakesOver`, `SampleGivesBack`.  The tables' part has to speak of all steps between
  `Rope` and `Compute`, because "uploaded" outlives the graph's inputs it speaks of.
* **DecoderGpu** (`DecoderInv`): a cached map is that of the tensor being decoded except
  between the change of coordinates and the invalidation; generations in the profile are
  the levels walked so far; a level that is one graph uses one map.  From it:
  `MapCurrent`, `NeverRefused`, `MapFollows`, `MapOfInvocation`, `DecoderCpuTakesOver`.
* **Cascade** (`CascadeInv`): what has been computed so far, stage by stage, is for the points
  the next stage asks for; nothing is loaded when the estimate does not fit; a flow is on the
  GPU only while it samples.  From it every property of `cascade_run`, for any
  set of cells and any configurations.
* **Qem** (`QemInv`): adjacency is that of the round's beginning; a face is as it was then
  except for what finished threads have done to it; a thread that has dropped its faces has
  not yet retargeted.  The lemma `Apart` is the heart: two edges that each own all faces at
  both of their ends have no vertex and no face in common, as every edge of the mesh lies in
  a face.  Ownership of the vertices, which the GPU asks for as well
  (`src/decimate_qem.cu` 223-225), is not needed.  From it: `CollapsesApart`, `SurfaceKept`,
  `OrderDoesNotMatter`, for meshes of any size and any costs.
* **MeshTopology** (`Splitting`): classes of corners are connected (`Sound`), corners
  on either side of an edge that is done are in one class (`Tied`), and then the corners so
  far have the vertex of their class (`Coloured`).  Below it is the forest: ranks grow
  towards the root (`Climbs`), which makes the recursion of `find` well founded, bounds the
  climb by the greatest rank, and survives path compression and union by rank (`FoundIs`,
  `UnitedIs`: a union joins two classes and no other).  From it `SplitApart`, for any mesh.
  That no edge keeps three faces is an argument about chains: around a vertex a corner is
  linked to two others at most, and to one at most if an edge of its face there has more than
  two faces; connected corners linked like that form one chain, which has two ends
  (`TwoEnds`), so of three faces at an edge two corners are never connected.
  Filling has an invariant of its own (`Filling`): the two vertices noted of each are other
  ends of boundary edges gone through, and differ (`NearIs`); the loop so far is a path that
  visits no vertex twice, along edges no cap covers (`LoopIs`; `WalkOn`: as a vertex is left by
  the neighbour it was not entered by, the walk meets no vertex again but the first); and caps
  cover no edge twice and have two faces or none at each edge inside (`CapsAre`, `FanIs`).
  From it `HolesClosed` (`CapsClose`).  Its last part is an argument about the faces around a
  vertex where no boundary branches: following them round, an edge of the boundary leads
  there and another away (`Flow`, `Through`), so the two faces of a cap that meet there run
  along their edge in opposite ways.
* **BundleFile**, for any bundles, any number of savers and readers and files of any length.
  The rename protocol (`IInv`): a saver that is alone has written a prefix of its bundle
  (`SaverKnows`), and a file that `.part` stands for, or that a saver still writes, has not
  been published.  From it: `PublishedStaysWhole`.  That what was saved loads
  (`WhatWasSavedLoads`) needs three things more.  The layout: a flattened sequence of blocks
  has every block at its offset (`Flattened`), so the header, the stages, the views and the maps
  of a bundle stand at known places of its image.  Reading: `Follows` says what a reader has at
  each phase when its file agrees with an image as far as the file goes: it has read exactly the
  parts before its position, and it refuses only a file that is not the whole image; each
  `Read...` keeps that (`LoadFollows`).  And the file of a reader is settled: nobody writes it
  or renames it again, so what was true of it at the opening stays true (`LoadInv`).
* **MeshExport**: `WoundAlike` (the mesh handed to the decimation has proper triangles, wound
  alike across every edge of two faces wherever the faces around it can be) by an invariant of
  the traversal: the faces turned so far agree along all edges between visited faces, and what
  is on the stack is all that is left to visit.  `WorkerKeeps`: the charting thread's atlas and
  flag are there as long as the thread runs, whoever gives up on it.

* **SparseStages** (`IInv`), for any points of any number of batches, any context lengths,
  any channels and heads that `valid_hparams` accepts, any levels, and whatever a decoder
  predicts.  `Good` says what a tensor is (its rows in batches one after another, its points
  apart and inside its size) and `Own` that a row depends on its own batch.  Each operation of
  `SparseTensor` has a lemma that says what it makes of a good tensor: that it refuses
  nothing that fits, and what its rows depend on then (`Linear`, norms, attention, `Conv`,
  `ConvNextBlock`, `UpBlock` on both engines, `CrossBlock`).  That an offset counts to the first
  row of a batch, and that the rows of all children stand in order, are statements about
  flattened sequences (`FlatPlace`, `SelectedIs`).  `IInv` adds where the cascade is:
  the levels so far are the ones the subdivisions lead to (`Chain`), predictions made for one
  engine stay as they were (`Agrees`), and a flow's rows have seen all of their batch after two
  blocks (`Heard`): a first block shows a row the projected features of its own only.  From it:
  `RowsStayApart`, `StagesFit`, `SamePoints`, `QuadsAreCovered`.  The last needs that no two
  triangles of quads coincide although quads share corners: the steps along two sides of a
  triangle, as numbers (`TurnOf`), tell the axis and the half apart.
  `StagesAssumption` is what the stages are given: points that are a valid tensor with every
  batch in it, hyperparameters the code accepts, decoders of as many levels as each other and
  as the grid leaves room for.

The invariants contain what the proofs need of the types of variables; for `DemoJobs`,
`SlatFlow`, `DecoderGpu`, `Cascade`, `Qem` and `BundleFile` all of it is stated, and proved, as
`TypeOK` (`FlowTypeOK`, `DecoderTypeOK`).

The provers have no induction over data: the library states it with a predicate as a
parameter.  Where an induction on numbers or finite sets is needed, the proofs take a least
counterexample instead (`LeastNumber`, `Greatest`): the set of counterexamples is a set, and
a well-founded relation has minimal elements in it.

Only model-checked are, of the invariants, `HolesFilled` and `BakedWhole` of `MeshExport`,
which relate meshes before and after filtered, merged and re-indexed sequences of faces; and every liveness property, which is out of the prover's
reach, as are statements about ENABLED.  No module of this directory declares a RECURSIVE
operator.

## 5. Not modelled

Floating point: forward passes, the Euler step, attention, projection, camera fit,
quadrics, textures, smoothing.  They compute numbers that the repository's fixtures compare
with PyTorch.  The camera estimate, the projection and the reader of saved features, image
input and the closest-point queries of the triangle BVH are such computations, one
sequential call each without state, and appear as steps that may fail.  The parser of
weight packs is sequential and keeps no state; loading a pack is a step that may fail, after the guard.
The choice of the CPU thread count is an input of `Backend`; profiling
decides nothing.

ggml, the drivers, the C++ library and the operating system appear as steps that succeed or
fail as their contracts allow.  Memory on the device during the decimation is left out.
Vendored code (xatlas, the unused simplification header), one-shot conversion and
comparison scripts and the packaging of releases are left out; xatlas appears in
`MeshExport` as its interface.  The option parser and the `inspect-*` commands of the
command line change nothing that outlives them.  Each component without a module is in
`PROJECT.json` with the reason.

## 6. Plan

What is left, in order of importance.

1. Proofs for `MeshExport`: `BakedWhole`, with the faces still to be charted, set aside and
   emitted as a partition at every step; `HolesFilled`, like `HolesClosed` of `MeshTopology`.
2. `DemoPage`: the browser's polling on top of `JobBoard`, with answers that come after the
   user has moved on.  `Download`: `.part` files fetched in ranges by parallel workers and
   resumed after an interruption.
3. An abstract sampler that `SlatFlow` implements and `Cascade` uses by INSTANCE.
4. `Pack`: tensor layout and bounds of weight packs, as operators against a reference.
