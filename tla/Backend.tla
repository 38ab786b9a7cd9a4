------------------------------ MODULE Backend -------------------------------
(***************************************************************************)
(* BackendManager of src/backend.cpp: which ggml backends it opens under a *)
(* policy, and who owns the backend handles and the CPU thread pools when  *)
(* any step of opening them fails.                                         *)
(*                                                                         *)
(* A step is one call into ggml that creates, attaches or frees something, *)
(* so that what ggml sees between two calls can be checked.  Profiling     *)
(* counters, device descriptions and log lines are not represented.        *)
(***************************************************************************)
EXTENDS Integers, Sequences, FiniteSets, SequencesExt

CONSTANTS
    Registries,     (* possible ggml registries: sequences of device types *)
    GpuOrdinals,    (* the N of a policy gpu:N *)
    ThreadCounts,   (* thread counts asked for *)
    Handles,        (* names for backend handles *)
    Pools,          (* names for thread pools *)
    NoPool

DeviceTypes == {"gpu", "accel", "cpu"}

ASSUME BackendAssumption ==
    /\ Registries \subseteq Seq(DeviceTypes)
    /\ GpuOrdinals \subseteq Nat /\ ThreadCounts \subseteq Nat \ {0}
    /\ NoPool \notin Pools

VARIABLES
    registry,      (* the devices ggml knows, as types *)
    policy,        (* policy_ *)
    backends,      (* backends_, as handles *)
    initialized,   (* initialized_ *)
    pool,          (* cpu_threadpool_ *)
    poolSize,      (* cpu_threadpool_n_threads_ *)
    live,          (* handles ggml has given out and not taken back *)
    device,        (* the registry entry a live handle stands for *)
    attached,      (* the pool a CPU backend was told to use *)
    threads,       (* the thread count a CPU backend was told to use *)
    pools,         (* thread pools that exist *)
    pc,            (* the next call into ggml, "idle" between operations *)
    after,         (* where close() returns to: "gpu" inside initialize *)
    scan,          (* the loop over ACCEL devices *)
    previous,      (* the pool being replaced *)
    asked          (* the thread count being configured *)

handles == <<live, device, attached, threads>>
poolVars == <<pool, poolSize, pools>>
locals == <<after, scan, previous, asked>>
vars == <<registry, policy, backends, initialized, handles, poolVars, locals, pc>>

Policies == [kind : {"auto", "cpu"}] \cup [kind : {"gpu"}, index : GpuOrdinals]

Steps == {"idle", "detach", "freePool", "freeBackends", "gpu", "accel", "cpu",
          "threads", "pool", "attach", "freePrevious"}

TypeOK ==
    /\ registry \in Registries /\ policy \in Policies
    /\ initialized \in BOOLEAN
    /\ live \subseteq Handles /\ pools \subseteq Pools
    /\ backends \in Seq(Handles)
    /\ device \in [Handles -> Nat]
    /\ attached \in [Handles -> Pools \cup {NoPool}]
    /\ threads \in [Handles -> Nat]
    /\ pool \in Pools \cup {NoPool} /\ previous \in Pools \cup {NoPool}
    /\ poolSize \in Nat /\ asked \in Nat
    /\ pc \in Steps /\ after \in {"idle", "gpu"}
    /\ scan \in 1..(Len(registry) + 1)

Init ==
    /\ registry \in Registries /\ policy = [kind |-> "auto"]
    /\ backends = <<>> /\ initialized = FALSE
    /\ live = {} /\ pools = {}
    /\ device = [h \in Handles |-> 0]
    /\ attached = [h \in Handles |-> NoPool]
    /\ threads = [h \in Handles |-> 0]
    /\ pool = NoPool /\ previous = NoPool /\ poolSize = 0
    /\ pc = "idle" /\ after = "idle" /\ scan = 1 /\ asked = 0

IsCpu(h) == registry[device[h]] = "cpu"
OwnCpus == {h \in ToSet(backends) : IsCpu(h)}

-----------------------------------------------------------------------------
(* close(): every CPU backend forgets the pool, the pool is freed, then    *)
(* the backends, last one first.                                           *)

CloseThen(to) == pc' = "detach" /\ after' = to

Close ==
    /\ pc = "idle"
    /\ CloseThen("idle")
    /\ UNCHANGED <<registry, policy, backends, initialized, handles, poolVars,
                   scan, previous, asked>>

(* Fault: the CPU backends keep their pool.                                *)
Fault_KeepPool == attached

Detached == [h \in Handles |-> IF h \in OwnCpus THEN NoPool ELSE attached[h]]

Detach ==
    /\ pc = "detach"
    /\ attached' = Detached
    /\ pc' = "freePool"
    /\ UNCHANGED <<registry, policy, backends, initialized, live, device, threads,
                   poolVars, locals>>

FreePool ==
    /\ pc = "freePool"
    /\ pools' = pools \ {pool} /\ pool' = NoPool /\ poolSize' = 0
    /\ pc' = "freeBackends"
    /\ UNCHANGED <<registry, policy, backends, initialized, handles, locals>>

FreeBackends ==
    /\ pc = "freeBackends"
    /\ IF backends # <<>>
       THEN /\ live' = live \ {Last(backends)}
            /\ backends' = Front(backends)
            /\ UNCHANGED <<initialized, pc>>
       ELSE /\ initialized' = FALSE
            /\ pc' = after
            /\ UNCHANGED <<live, backends>>
    /\ UNCHANGED <<registry, policy, device, attached, threads, poolVars, locals>>

-----------------------------------------------------------------------------
(* initialize(policy): close, then the GPU, the ACCEL devices, the CPU and *)
(* its threads.  Every ggml_backend_dev_init may fail.                     *)

Initialize(p) ==
    /\ pc = "idle"
    /\ policy' = p
    /\ scan' = 1
    /\ CloseThen("gpu")
    /\ UNCHANGED <<registry, backends, initialized, handles, poolVars, previous, asked>>

(* register_backend: a new handle for registry entry d goes to the back.   *)
Register(d) ==
    \E h \in Handles \ live :
        /\ live' = live \cup {h}
        /\ device' = [device EXCEPT ![h] = d]
        /\ attached' = [attached EXCEPT ![h] = NoPool]
        /\ threads' = [threads EXCEPT ![h] = 0]
        /\ backends' = Append(backends, h)

Gpus == {d \in DOMAIN registry : registry[d] = "gpu"}
Ordinal(d) == Cardinality({e \in Gpus : e < d})

(* Fault: gpu:N takes the first GPU, whatever N is.                        *)
Fault_AnyGpu(d) == policy.kind # "cpu" /\ Ordinal(d) = 0

(* The GPU the policy selects: number N for gpu:N, the first one for auto. *)
Selected(d) ==
    \/ policy.kind = "gpu" /\ Ordinal(d) = policy.index
    \/ policy.kind = "auto" /\ Ordinal(d) = 0

(* Without the GPU it names, a gpu policy fails and nothing is open; auto  *)
(* goes on without one.                                                    *)
OpenGpu ==
    /\ pc = "gpu"
    /\ \/ \E d \in Gpus : Selected(d) /\ Register(d) /\ pc' = "accel"
       \/ /\ pc' = IF policy.kind = "gpu" THEN "idle" ELSE "accel"
          /\ UNCHANGED <<handles, backends>>
    /\ UNCHANGED <<registry, policy, initialized, poolVars, locals>>

(* Only auto opens ACCEL devices; one that fails is skipped.               *)
OpenAccel ==
    /\ pc = "accel"
    /\ IF scan <= Len(registry) /\ policy.kind = "auto"
       THEN /\ \/ registry[scan] = "accel" /\ Register(scan)
               \/ UNCHANGED <<handles, backends>>
            /\ scan' = scan + 1
            /\ UNCHANGED pc
       ELSE /\ pc' = "cpu"
            /\ UNCHANGED <<handles, backends, scan>>
    /\ UNCHANGED <<registry, policy, initialized, poolVars, after, previous, asked>>

Cpus == {d \in DOMAIN registry : registry[d] = "cpu"}

(* The first CPU device is required: without it everything is closed.      *)
OpenCpu ==
    /\ pc = "cpu"
    /\ \/ /\ \E d \in Cpus : (\A e \in Cpus : d <= e) /\ Register(d)
          /\ \E n \in ThreadCounts : asked' = n
          /\ pc' = "threads" /\ UNCHANGED after
       \/ /\ CloseThen("idle")
          /\ UNCHANGED <<handles, backends, asked>>
    /\ UNCHANGED <<registry, policy, initialized, poolVars, scan, previous>>

-----------------------------------------------------------------------------
(* set_n_threads(n) and configure_cpu_threadpool(n).  Neither asks whether *)
(* the manager is initialized.                                             *)

SetThreads(n) ==
    /\ pc = "idle"
    /\ asked' = n
    /\ after' = "idle"
    /\ pc' = "threads"
    /\ UNCHANGED <<registry, policy, backends, initialized, handles, poolVars,
                   scan, previous>>

TellBackends ==
    /\ pc = "threads"
    /\ threads' = [h \in Handles |-> IF h \in OwnCpus THEN asked ELSE threads[h]]
    /\ pc' = "pool"
    /\ UNCHANGED <<registry, policy, backends, initialized, live, device, attached,
                   poolVars, locals>>

(* Control returns to initialize, whose last act is to set initialized_,   *)
(* or to another caller.                                                   *)
Ready == pc' = "idle" /\ initialized' = (initialized \/ after = "gpu")

(* A pool of this size is there already, or none can be created, or a new  *)
(* one takes the place of the old one.                                     *)
NewPool ==
    /\ pc = "pool"
    /\ \/ Ready /\ UNCHANGED <<poolVars, previous>>
       \/ /\ pool = NoPool \/ poolSize # asked
          /\ \E q \in Pools \ pools : pools' = pools \cup {q} /\ pool' = q
          /\ poolSize' = asked
          /\ previous' = pool
          /\ pc' = "attach" /\ UNCHANGED initialized
    /\ UNCHANGED <<registry, policy, backends, handles, after, scan, asked>>

Attached == [h \in Handles |-> IF h \in OwnCpus THEN pool ELSE attached[h]]

Attach ==
    /\ pc = "attach"
    /\ attached' = Attached
    /\ pc' = "freePrevious"
    /\ UNCHANGED <<registry, policy, backends, initialized, live, device, threads,
                   poolVars, locals>>

(* Fault: the old pool is not freed.                                       *)
Fault_KeepPrevious == pools' = pools

DropPrevious == pools' = pools \ {previous}

FreePrevious ==
    /\ pc = "freePrevious"
    /\ DropPrevious
    /\ previous' = NoPool
    /\ Ready
    /\ UNCHANGED <<registry, policy, backends, handles, pool, poolSize, after, scan,
                   asked>>

-----------------------------------------------------------------------------
Next ==
    \/ \E p \in Policies : Initialize(p)
    \/ \E n \in ThreadCounts : SetThreads(n)
    \/ Close \/ Detach \/ FreePool \/ FreeBackends
    \/ OpenGpu \/ OpenAccel \/ OpenCpu
    \/ TellBackends \/ NewPool \/ Attach \/ FreePrevious

Spec == Init /\ [][Next]_vars

-----------------------------------------------------------------------------
(* Properties.                                                             *)

(* Between operations the manager owns exactly the handles and the pool    *)
(* ggml has given out, and no handle unless it is initialized: every way   *)
(* initialize can fail frees what it had opened.                           *)
NothingLost ==
    pc = "idle" =>
        /\ live = ToSet(backends) /\ Cardinality(live) = Len(backends)
        /\ pools = {pool} \ {NoPool}
        /\ initialized \/ backends = <<>>

(* No live backend is ever attached to a thread pool that has been freed,  *)
(* whatever order close() and set_n_threads() free and attach in.          *)
NoDanglingPool == \A h \in live : attached[h] \in pools \cup {NoPool}

(* Backends and pools are freed in time, and neither too early nor twice.  *)
FreedInTime == NothingLost /\ NoDanglingPool

TypeAt(i) == registry[device[backends[i]]]
Rank(type) == CASE type = "gpu" -> 1 [] type = "accel" -> 2 [] type = "cpu" -> 3

(* backend.h: the list is the selected GPU, then ACCEL devices, then CPU;  *)
(* under gpu:N the primary backend is GPU N and there is no ACCEL device,  *)
(* under cpu there is only the CPU.                                        *)
PolicyHonoured ==
    pc = "idle" /\ initialized =>
        /\ \A i, j \in DOMAIN backends : i < j => Rank(TypeAt(i)) <= Rank(TypeAt(j))
        /\ \A i \in DOMAIN backends : TypeAt(i) = "cpu" <=> i = Len(backends)
        /\ \A i \in DOMAIN backends : TypeAt(i) = "gpu" => i = 1
        /\ policy.kind = "cpu" => Len(backends) = 1
        /\ policy.kind = "gpu" =>
             /\ Len(backends) = 2 /\ TypeAt(1) = "gpu"
             /\ Ordinal(device[backends[1]]) = policy.index
=============================================================================
