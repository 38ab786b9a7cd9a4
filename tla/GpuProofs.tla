------------------------------ MODULE GpuProofs ------------------------------
(***************************************************************************)
(* What Backend promises, for every registry, every policy and every       *)
(* number of handles and pools: nothing is lost when opening fails, no     *)
(* backend points to a freed pool, and the list of backends is the one the *)
(* policy describes.  And what DecoderGpu promises of a decoder that runs  *)
(* on such a list, for any coordinate sets, levels, blocks and switches:   *)
(* the cached neighbour map is the one of the tensor it is used for.       *)
(***************************************************************************)
EXTENDS Backend, DecoderGpu, FiniteSetTheorems, TLAPS

USE BackendAssumption DEF DeviceTypes

(* The manager's list names every live handle once, each for a device.     *)
Owned ==
    /\ live = ToSet(backends)
    /\ \A i, j \in DOMAIN backends : backends[i] = backends[j] => i = j
    /\ \A h \in live : device[h] \in DOMAIN registry

(* What pools exist, and which of them a live backend may be attached to.  *)
PoolsKept ==
    /\ pools = {pool, previous} \ {NoPool}
    /\ previous # NoPool => pc \in {"attach", "freePrevious"} /\ previous # pool
    /\ \A h \in live : attached[h] \in pools \cup {NoPool}
    /\ \A h \in live : attached[h] # NoPool => IsCpu(h)
    /\ pc = "freePool" => \A h \in live : attached[h] = NoPool
    /\ pc = "freePrevious" => \A h \in live : attached[h] \in {pool, NoPool}
    /\ pc \in {"freeBackends", "gpu", "accel", "cpu"} => pool = NoPool

Configuring == pc \in {"threads", "pool", "attach", "freePrevious"}

(* Between a failed or not yet attempted opening and the next, no backend. *)
Empty ==
    /\ (pc = "idle" \/ (Configuring /\ after = "idle")) /\ ~initialized => backends = <<>>
    /\ pc = "gpu" => backends = <<>>
    /\ pc \in {"gpu", "accel", "cpu"} => ~initialized /\ after = "gpu"

(* The backends ahead of the CPU.                                          *)
AheadOfCpu(n) ==
    /\ \A i \in 1..n : TypeAt(i) \in {"gpu", "accel"}
    /\ \A i \in 1..n : TypeAt(i) = "gpu" => i = 1
    /\ policy.kind = "cpu" => n = 0
    /\ policy.kind = "gpu" =>
         n = 1 /\ TypeAt(1) = "gpu" /\ Ordinal(device[backends[1]]) = policy.index

(* The whole list is there.                                                *)
Complete == (Configuring /\ (initialized \/ after = "gpu")) \/ (pc = "idle" /\ initialized)

Listed ==
    /\ pc \in {"accel", "cpu"} => AheadOfCpu(Len(backends))
    /\ Complete =>
         /\ backends # <<>> /\ TypeAt(Len(backends)) = "cpu"
         /\ AheadOfCpu(Len(backends) - 1)

BackendInv == TypeOK /\ Owned /\ PoolsKept /\ Empty /\ Listed

-----------------------------------------------------------------------------
(* register_backend adds one handle, for the device asked for, at the end. *)
LEMMA Registered ==
    ASSUME TypeOK, Owned, PoolsKept, NEW d \in DOMAIN registry, Register(d)
    PROVE  /\ backends' \in Seq(Handles) /\ Len(backends') = Len(backends) + 1
           /\ live' \subseteq Handles /\ device' \in [Handles -> Nat]
           /\ attached' \in [Handles -> Pools \cup {NoPool}]
           /\ threads' \in [Handles -> Nat]
           /\ live' = ToSet(backends')
           /\ \A i, j \in DOMAIN backends' : backends'[i] = backends'[j] => i = j
           /\ \A h \in live' : device'[h] \in DOMAIN registry
           /\ \A h \in live' : attached'[h] = NoPool \/ (h \in live /\ attached'[h] = attached[h])
           /\ \A h \in live : device'[h] = device[h]
           /\ \A i \in 1..Len(backends) : backends'[i] = backends[i]
           /\ \A i \in 1..Len(backends) : device'[backends'[i]] = device[backends[i]]
           /\ device'[backends'[Len(backends) + 1]] = d
<1>1. PICK h \in Handles \ live :
        /\ live' = live \cup {h}
        /\ device' = [device EXCEPT ![h] = d]
        /\ attached' = [attached EXCEPT ![h] = NoPool]
        /\ threads' = [threads EXCEPT ![h] = 0]
        /\ backends' = Append(backends, h)
  BY DEF Register
<1>2. registry \in Seq(DeviceTypes) /\ d \in Nat
  BY DEF TypeOK
<1>3. /\ backends \in Seq(Handles) /\ backends' \in Seq(Handles)
      /\ Len(backends') = Len(backends) + 1 /\ Len(backends) \in Nat
      /\ \A i \in 1..Len(backends) : backends'[i] = backends[i]
      /\ backends'[Len(backends) + 1] = h
      /\ DOMAIN backends = 1..Len(backends) /\ DOMAIN backends' = 1..(Len(backends) + 1)
  BY <1>1 DEF TypeOK
<1>4. /\ live' \subseteq Handles /\ device' \in [Handles -> Nat]
      /\ attached' \in [Handles -> Pools \cup {NoPool}]
      /\ threads' \in [Handles -> Nat]
  BY <1>1, <1>2 DEF TypeOK
<1>5. \A g \in Handles : device'[g] = IF g = h THEN d ELSE device[g]
  BY <1>1 DEF TypeOK
<1>6. \A g \in Handles : attached'[g] = IF g = h THEN NoPool ELSE attached[g]
  BY <1>1 DEF TypeOK
<1>7. \A i \in 1..Len(backends) : backends[i] \in live /\ backends[i] \in Handles /\ backends[i] # h
  BY <1>1, <1>3 DEF Owned, ToSet, TypeOK
<1>8. live' = ToSet(backends')
  BY <1>1, <1>3 DEF Owned, ToSet
<1>9. \A i, j \in DOMAIN backends' : backends'[i] = backends'[j] => i = j
  BY <1>3, <1>7 DEF Owned
<1>10. \A g \in live' : device'[g] \in DOMAIN registry
  BY <1>1, <1>5, <1>4 DEF Owned
<1>11. \A g \in live' : attached'[g] = NoPool \/ (g \in live /\ attached'[g] = attached[g])
  BY <1>1, <1>4, <1>6
<1>12. \A g \in live : device'[g] = device[g]
  BY <1>1, <1>5 DEF TypeOK
<1>13. \A i \in 1..Len(backends) : device'[backends'[i]] = device[backends[i]]
  BY <1>3, <1>5, <1>7
<1>14. device'[backends'[Len(backends) + 1]] = d
  BY <1>1, <1>3, <1>5
<1> QED
  BY <1>3, <1>4, <1>8, <1>9, <1>10, <1>11, <1>12, <1>13, <1>14

(* close() takes the last backend off the list.                            *)
LEMMA LastFreed ==
    ASSUME TypeOK, Owned, backends # <<>>,
           live' = live \ {Last(backends)}, backends' = Front(backends)
    PROVE  /\ backends' \in Seq(Handles) /\ live' \subseteq live
           /\ live' = ToSet(backends')
           /\ \A i, j \in DOMAIN backends' : backends'[i] = backends'[j] => i = j
<1>1. /\ Len(backends) \in Nat \ {0} /\ DOMAIN backends = 1..Len(backends)
      /\ Last(backends) = backends[Len(backends)]
  BY DEF TypeOK, Last
<1>2. /\ backends' \in Seq(Handles) /\ DOMAIN backends' = 1..(Len(backends) - 1)
      /\ \A i \in 1..(Len(backends) - 1) : backends'[i] = backends[i]
  BY <1>1 DEF TypeOK, Front
<1>3. live' = ToSet(backends')
  BY <1>1, <1>2 DEF Owned, ToSet
<1> QED
  BY <1>1, <1>2, <1>3 DEF Owned

-----------------------------------------------------------------------------
LEMMA InitHolds == Init => BackendInv
<1> SUFFICES ASSUME Init PROVE BackendInv
  OBVIOUS
<1>1. TypeOK
  <2>0. registry \in Seq(DeviceTypes)
    BY DEF Init
  <2>a. Len(registry) \in Nat
    BY <2>0
  <2>1. scan \in 1..(Len(registry) + 1)
    BY <2>a DEF Init
  <2>2. policy \in Policies
    BY DEF Init, Policies
  <2>3. backends \in Seq(Handles)
    BY DEF Init
  <2>4. /\ device \in [Handles -> Nat] /\ threads \in [Handles -> Nat]
        /\ attached \in [Handles -> Pools \cup {NoPool}]
    BY DEF Init
  <2>5. pc \in Steps /\ after \in {"idle", "gpu"}
    BY DEF Init, Steps
  <2> QED
    BY <2>0, <2>a, <2>1, <2>2, <2>3, <2>4, <2>5 DEF Init, TypeOK
<1>2. ToSet(backends) = {}
  BY DEF Init, ToSet
<1> QED
  BY <1>1, <1>2 DEF Init, Configuring, Complete, BackendInv, Owned, PoolsKept, Empty, Listed

LEMMA TypesStep == TypeOK /\ Owned /\ PoolsKept /\ [Next]_vars => TypeOK'
<1> SUFFICES ASSUME TypeOK, Owned, PoolsKept, [Next]_vars PROVE TypeOK'
  OBVIOUS
<1> USE DEF Steps
<1>0. registry \in Seq(DeviceTypes) /\ Len(registry) \in Nat
  BY DEF TypeOK
<1>1. CASE Close
  BY <1>1 DEF Close, CloseThen, TypeOK, handles, poolVars
<1>2. CASE Detach
  BY <1>2 DEF Detach, Detached, TypeOK, poolVars, locals
<1>3. CASE FreePool
  BY <1>3 DEF FreePool, TypeOK, handles, locals
<1>4. CASE FreeBackends
  <2>1. backends' \in Seq(Handles) /\ live' \subseteq Handles
    <3>1. CASE backends # <<>>
      BY <1>4, <3>1, LastFreed DEF FreeBackends, TypeOK
    <3>2. CASE backends = <<>>
      BY <1>4, <3>2 DEF FreeBackends, TypeOK
    <3> QED
      BY <3>1, <3>2
  <2>2. initialized' \in BOOLEAN /\ pc' \in Steps
    BY <1>4 DEF FreeBackends, TypeOK
  <2> QED
    BY <1>4, <2>1, <2>2 DEF FreeBackends, TypeOK, poolVars, locals
<1>5. ASSUME NEW p \in Policies, Initialize(p) PROVE TypeOK'
  <2>1. scan' \in 1..(Len(registry') + 1)
    BY <1>0, <1>5 DEF Initialize
  <2> QED
    BY <1>5, <2>1 DEF Initialize, CloseThen, TypeOK, handles, poolVars
<1>6. CASE OpenGpu
  <2>1. CASE \E d \in Gpus : Selected(d) /\ Register(d) /\ pc' = "accel"
    BY <1>6, <2>1, Registered DEF OpenGpu, Gpus, TypeOK, poolVars, locals
  <2>2. CASE UNCHANGED <<handles, backends>>
    BY <1>6, <2>2 DEF OpenGpu, TypeOK, handles, poolVars, locals
  <2> QED
    BY <1>6, <2>1, <2>2 DEF OpenGpu
<1>7. CASE OpenAccel
  <2>1. scan' \in 1..(Len(registry) + 1)
    BY <1>0, <1>7 DEF OpenAccel, TypeOK
  <2>2. /\ backends' \in Seq(Handles) /\ live' \subseteq Handles
        /\ device' \in [Handles -> Nat]
        /\ attached' \in [Handles -> Pools \cup {NoPool}]
        /\ threads' \in [Handles -> Nat]
    <3>1. CASE UNCHANGED <<handles, backends>>
      BY <3>1 DEF TypeOK, handles
    <3>2. CASE scan <= Len(registry) /\ Register(scan)
      <4>1. scan \in DOMAIN registry
        BY <1>0, <3>2 DEF TypeOK
      <4> QED
        BY <3>2, <4>1, Registered
    <3> QED
      BY <1>7, <3>1, <3>2 DEF OpenAccel
  <2> QED
    BY <1>7, <2>1, <2>2 DEF OpenAccel, TypeOK, poolVars
<1>8. CASE OpenCpu
  <2>1. CASE \E d \in Cpus : Register(d)
    <3>1. PICK d \in Cpus : Register(d)
      BY <2>1
    <3>2. d \in DOMAIN registry
      BY DEF Cpus
    <3>3. /\ backends' \in Seq(Handles) /\ live' \subseteq Handles
          /\ device' \in [Handles -> Nat]
          /\ attached' \in [Handles -> Pools \cup {NoPool}]
          /\ threads' \in [Handles -> Nat]
      BY <3>1, <3>2, Registered
    <3> QED
      BY <1>8, <3>3 DEF OpenCpu, TypeOK, poolVars, CloseThen
  <2>2. CASE UNCHANGED <<handles, backends>>
    BY <1>8, <2>2 DEF OpenCpu, TypeOK, handles, poolVars, CloseThen
  <2> QED
    BY <1>8, <2>1, <2>2 DEF OpenCpu
<1>9. ASSUME NEW n \in ThreadCounts, SetThreads(n) PROVE TypeOK'
  BY <1>9 DEF SetThreads, TypeOK, handles, poolVars
<1>10. CASE TellBackends
  BY <1>10 DEF TellBackends, TypeOK, poolVars, locals
<1>11. CASE NewPool
  BY <1>11 DEF NewPool, Ready, TypeOK, handles, poolVars
<1>12. CASE Attach
  BY <1>12 DEF Attach, Attached, TypeOK, poolVars, locals
<1>13. CASE FreePrevious
  BY <1>13 DEF FreePrevious, DropPrevious, Ready, TypeOK, handles
<1>14. CASE UNCHANGED vars
  BY <1>14 DEF vars, TypeOK, handles, poolVars, locals
<1> QED
  BY <1>1, <1>2, <1>3, <1>4, <1>5, <1>6, <1>7, <1>8, <1>9, <1>10, <1>11, <1>12,
     <1>13, <1>14 DEF Next

LEMMA OwnedStep == TypeOK /\ Owned /\ PoolsKept /\ Empty /\ [Next]_vars => Owned'
<1> SUFFICES ASSUME TypeOK, Owned, PoolsKept, Empty, [Next]_vars PROVE Owned'
  OBVIOUS
<1>0. registry' = registry
  BY DEF Next, Close, Detach, FreePool, FreeBackends, Initialize, OpenGpu, OpenAccel,
         OpenCpu, SetThreads, TellBackends, NewPool, Attach, FreePrevious, vars
<1>1. CASE FreeBackends
  <2>1. CASE backends # <<>>
    BY <1>0, <1>1, <2>1, LastFreed DEF FreeBackends, Owned
  <2>2. CASE backends = <<>>
    BY <1>0, <1>1, <2>2 DEF FreeBackends, Owned
  <2> QED
    BY <2>1, <2>2
<1>2. ASSUME NEW d \in DOMAIN registry, Register(d) PROVE Owned'
  BY <1>0, <1>2, Registered DEF Owned
<1>3. CASE UNCHANGED <<live, device, backends>>
  BY <1>0, <1>3 DEF Owned
<1>4. CASE OpenGpu
  BY <1>2, <1>3, <1>4 DEF OpenGpu, Gpus, handles
<1>5. CASE OpenAccel
  <2>1. ASSUME scan <= Len(registry) PROVE scan \in DOMAIN registry
    BY <2>1 DEF TypeOK
  <2> QED
    BY <1>2, <1>3, <1>5, <2>1 DEF OpenAccel, handles
<1>6. CASE OpenCpu
  BY <1>2, <1>3, <1>6 DEF OpenCpu, Cpus, handles
<1>7. CASE Close \/ Detach \/ FreePool \/ TellBackends \/ NewPool \/ Attach
           \/ FreePrevious \/ UNCHANGED vars
  <2>1. UNCHANGED <<live, device, backends>>
    BY <1>7 DEF Close, Detach, FreePool, TellBackends, NewPool, Attach, FreePrevious,
                vars, handles
  <2> QED
    BY <1>3, <2>1
<1>8. ASSUME NEW p \in Policies, Initialize(p) PROVE Owned'
  BY <1>3, <1>8 DEF Initialize, handles
<1>9. ASSUME NEW n \in ThreadCounts, SetThreads(n) PROVE Owned'
  BY <1>3, <1>9 DEF SetThreads, handles
<1> QED
  BY <1>1, <1>4, <1>5, <1>6, <1>7, <1>8, <1>9 DEF Next

LEMMA PoolsStep ==
    TypeOK /\ Owned /\ PoolsKept /\ Empty /\ TypeOK' /\ [Next]_vars => PoolsKept'
<1> SUFFICES ASSUME TypeOK, Owned, PoolsKept, Empty, TypeOK', [Next]_vars PROVE PoolsKept'
  OBVIOUS
<1> USE DEF PoolsKept
<1>0. registry' = registry
  BY DEF Next, Close, Detach, FreePool, FreeBackends, Initialize, OpenGpu, OpenAccel,
         OpenCpu, SetThreads, TellBackends, NewPool, Attach, FreePrevious, vars
<1>a. live \subseteq Handles /\ live = ToSet(backends)
  BY DEF TypeOK, Owned
<1>1. CASE Close
  BY <1>0, <1>1 DEF Close, CloseThen, handles, poolVars, IsCpu
<1>2. CASE Detach
  <2>1. \A h \in live : attached'[h] = NoPool
    BY <1>2, <1>a DEF Detach, Detached, OwnCpus
  <2> QED
    BY <1>0, <1>2, <2>1 DEF Detach, poolVars, locals, IsCpu
<1>3. CASE FreePool
  BY <1>0, <1>3 DEF FreePool, handles, locals, IsCpu
<1>4. CASE FreeBackends
  <2>1. live' \subseteq live
    BY <1>4 DEF FreeBackends
  <2>2. pc' # "freePool" /\ pc' # "freePrevious" /\ pool' = NoPool /\ previous = NoPool
    BY <1>4 DEF FreeBackends, poolVars, TypeOK
  <2> QED
    BY <1>0, <1>4, <2>1, <2>2 DEF FreeBackends, poolVars, locals, IsCpu
<1>5. ASSUME NEW p \in Policies, Initialize(p) PROVE PoolsKept'
  BY <1>0, <1>5 DEF Initialize, CloseThen, handles, poolVars, IsCpu
<1>6. ASSUME NEW d \in DOMAIN registry, Register(d), UNCHANGED <<poolVars, previous>>,
             pc \in {"gpu", "accel", "cpu"}, pc' \in {"accel", "cpu", "threads"}
      PROVE PoolsKept'
  <2>1. \A h \in live' : attached'[h] = NoPool \/ (h \in live /\ attached'[h] = attached[h])
    BY <1>6, Registered
  <2>2. \A h \in live : device'[h] = device[h]
    BY <1>6, Registered
  <2> QED
    BY <1>0, <1>6, <2>1, <2>2 DEF poolVars, IsCpu
<1>7. CASE OpenGpu
  <2>1. CASE \E d \in Gpus : Selected(d) /\ Register(d) /\ pc' = "accel"
    BY <1>6, <1>7, <2>1 DEF OpenGpu, Gpus, locals
  <2>2. CASE UNCHANGED <<handles, backends>>
    BY <1>0, <1>7, <2>2 DEF OpenGpu, poolVars, locals, handles, IsCpu
  <2> QED
    BY <1>7, <2>1, <2>2 DEF OpenGpu
<1>8. CASE OpenAccel
  <2>1. CASE UNCHANGED <<handles, backends>>
    BY <1>0, <1>8, <2>1 DEF OpenAccel, poolVars, handles, IsCpu
  <2>2. CASE scan <= Len(registry) /\ Register(scan) /\ UNCHANGED pc
    <3>1. scan \in DOMAIN registry
      BY <2>2 DEF TypeOK
    <3> QED
      BY <1>6, <1>8, <2>2, <3>1 DEF OpenAccel
  <2> QED
    BY <1>8, <2>1, <2>2 DEF OpenAccel
<1>9. CASE OpenCpu
  <2>1. CASE \E d \in Cpus : Register(d) /\ pc' = "threads"
    BY <1>6, <1>9, <2>1 DEF OpenCpu, Cpus
  <2>2. CASE UNCHANGED <<handles, backends>> /\ CloseThen("idle")
    BY <1>0, <1>9, <2>2 DEF OpenCpu, CloseThen, poolVars, handles, IsCpu
  <2> QED
    BY <1>9, <2>1, <2>2 DEF OpenCpu
<1>10. ASSUME NEW n \in ThreadCounts, SetThreads(n) PROVE PoolsKept'
  BY <1>0, <1>10 DEF SetThreads, handles, poolVars, IsCpu
<1>11. CASE TellBackends
  BY <1>0, <1>11 DEF TellBackends, poolVars, locals, IsCpu
<1>12. CASE NewPool
  BY <1>0, <1>12 DEF NewPool, Ready, handles, poolVars, IsCpu, TypeOK
<1>13. CASE Attach
  <2>1. \A h \in live : attached'[h] = IF IsCpu(h) THEN pool ELSE attached[h]
    BY <1>13, <1>a DEF Attach, Attached, OwnCpus
  <2>2. \A h \in live : attached'[h] \in {pool, NoPool}
    BY <2>1
  <2> QED
    BY <1>0, <1>13, <2>1, <2>2 DEF Attach, poolVars, locals, IsCpu
<1>14. CASE FreePrevious
  BY <1>0, <1>14 DEF FreePrevious, DropPrevious, Ready, handles, IsCpu
<1>15. CASE UNCHANGED vars
  BY <1>15 DEF vars, handles, poolVars, locals, IsCpu
<1> QED
  BY <1>1, <1>2, <1>3, <1>4, <1>5, <1>7, <1>8, <1>9, <1>10, <1>11, <1>12, <1>13,
     <1>14, <1>15 DEF Next

LEMMA EmptyStep == TypeOK /\ PoolsKept /\ Empty /\ Listed /\ [Next]_vars => Empty'
<1> SUFFICES ASSUME TypeOK, PoolsKept, Empty, Listed, [Next]_vars PROVE Empty'
  OBVIOUS
<1> USE DEF Empty, Configuring
<1>1. CASE Close \/ Detach \/ FreePool
  BY <1>1 DEF Close, CloseThen, Detach, FreePool, locals
<1>2. CASE FreeBackends
  BY <1>2 DEF FreeBackends, PoolsKept, TypeOK, poolVars, locals
<1>3. ASSUME NEW p \in Policies, Initialize(p) PROVE Empty'
  BY <1>3 DEF Initialize, CloseThen
<1>4. CASE OpenGpu
  BY <1>4 DEF OpenGpu, PoolsKept, poolVars, locals
<1>5. CASE OpenAccel
  BY <1>5 DEF OpenAccel
<1>6. CASE OpenCpu
  BY <1>6 DEF OpenCpu, CloseThen
<1>7. ASSUME NEW n \in ThreadCounts, SetThreads(n) PROVE Empty'
  BY <1>7 DEF SetThreads
<1>8. CASE TellBackends \/ NewPool \/ Attach \/ FreePrevious
  BY <1>8 DEF TellBackends, NewPool, Attach, FreePrevious, Ready, TypeOK, locals
<1>9. CASE UNCHANGED vars
  BY <1>9 DEF vars, poolVars, locals
<1> QED
  BY <1>1, <1>2, <1>3, <1>4, <1>5, <1>6, <1>7, <1>8, <1>9 DEF Next

(* What is listed stays listed while the list and its devices stay.        *)
LEMMA SameList ==
    ASSUME TypeOK, UNCHANGED <<registry, policy, backends, device>>, NEW n \in Nat, AheadOfCpu(n)
    PROVE  AheadOfCpu(n)'
BY DEF AheadOfCpu, TypeAt, Ordinal, Gpus

(* A backend added at the end comes after what is ahead of the CPU.        *)
LEMMA LongerList ==
    ASSUME TypeOK, Owned, PoolsKept, NEW d \in DOMAIN registry, Register(d),
           UNCHANGED <<registry, policy>>,
           NEW n \in Nat, n = Len(backends), AheadOfCpu(n)
    PROVE  /\ AheadOfCpu(n)' /\ backends' # <<>> /\ Len(backends') = n + 1
           /\ TypeAt(n + 1)' = registry[d]
           /\ device'[backends'[n + 1]] = d
<1>1. /\ backends' # <<>> /\ Len(backends') = n + 1
      /\ \A i \in 1..n : backends'[i] = backends[i]
      /\ \A i \in 1..n : device'[backends'[i]] = device[backends[i]]
      /\ device'[backends'[n + 1]] = d
  BY Registered
<1>2. TypeAt(n + 1)' = registry[d]
  BY <1>1 DEF TypeAt
<1>3. \A i \in 1..n : TypeAt(i)' = TypeAt(i)
  BY <1>1 DEF TypeAt
<1>4. n = 1 => Ordinal(device[backends[1]])' = Ordinal(device[backends[1]])
  <2>1. Gpus' = Gpus
    BY DEF Gpus
  <2>2. n = 1 => (device[backends[1]])' = device[backends[1]]
    BY <1>1
  <2> QED
    BY <2>1, <2>2 DEF Ordinal
<1>5. AheadOfCpu(n)'
  BY <1>1, <1>3, <1>4 DEF AheadOfCpu
<1> QED
  BY <1>1, <1>2, <1>5

LEMMA ListedStep ==
    TypeOK /\ Owned /\ PoolsKept /\ Empty /\ Listed /\ TypeOK' /\ [Next]_vars => Listed'
<1> SUFFICES ASSUME TypeOK, Owned, PoolsKept, Empty, Listed, TypeOK', [Next]_vars
             PROVE  Listed'
  OBVIOUS
<1>n. PICK n \in Nat : n = Len(backends)
  BY DEF TypeOK
<1>0. (backends # <<>> => n - 1 \in Nat) /\ (backends = <<>> => n = 0)
  BY <1>n DEF TypeOK
<1>1. CASE Close
  BY <1>1 DEF Close, CloseThen, Listed, Complete, Configuring, locals
<1>2. CASE Detach
  BY <1>2 DEF Detach, Listed, Complete, Configuring, locals
<1>3. CASE FreePool
  BY <1>3 DEF FreePool, Listed, Complete, Configuring, locals
<1>4. CASE FreeBackends
  BY <1>4 DEF FreeBackends, Listed, TypeOK, Complete, Configuring, locals
<1>5. ASSUME NEW p \in Policies, Initialize(p) PROVE Listed'
  BY <1>5 DEF Initialize, CloseThen, Listed, Complete, Configuring, locals
<1>6. CASE OpenGpu
  <2>1. backends = <<>> /\ ~initialized /\ UNCHANGED <<registry, policy, initialized>> /\ n = 0
    BY <1>n, <1>0, <1>6 DEF OpenGpu, Empty
  <2>2. ASSUME NEW d \in Gpus, Selected(d), Register(d), pc' = "accel" PROVE Listed'
    <3>1. /\ d \in DOMAIN registry /\ Len(backends') = 1
          /\ device'[backends'[1]] = d
      BY <2>1, <2>2, Registered DEF Gpus
    <3>2. TypeAt(1)' = "gpu" /\ Ordinal(device[backends[1]])' = Ordinal(d)
      BY <2>1, <2>2, <3>1 DEF TypeAt, Gpus, Ordinal
    <3>3. AheadOfCpu(1)'
      BY <2>1, <2>2, <3>2 DEF AheadOfCpu, Selected
    <3> QED
      BY <2>2, <3>1, <3>3 DEF Listed, Complete, Configuring, locals
  <2>3. CASE UNCHANGED <<handles, backends>> /\ pc' = (IF policy.kind = "gpu" THEN "idle" ELSE "accel")
    <3>1. Len(backends') = 0 /\ ~initialized'
      BY <1>n, <2>1, <2>3
    <3>2. policy'.kind # "gpu" => AheadOfCpu(0)'
      BY <2>1 DEF AheadOfCpu
    <3> QED
      BY <2>1, <2>3, <3>1, <3>2 DEF Listed, Complete, Configuring, locals
  <2> QED
    BY <1>6, <2>2, <2>3 DEF OpenGpu
<1>7. CASE OpenAccel
  <2>1. AheadOfCpu(n) /\ UNCHANGED <<registry, policy, initialized>> /\ pc' \in {"accel", "cpu"}
    BY <1>n, <1>7 DEF OpenAccel, Listed
  <2>2. CASE UNCHANGED <<handles, backends>>
    BY <1>n, <1>0, <2>1, <2>2, SameList DEF Listed, handles, Complete, Configuring, locals
  <2>3. CASE scan <= Len(registry) /\ policy.kind = "auto" /\ registry[scan] = "accel" /\ Register(scan)
    <3>1. scan \in DOMAIN registry
      BY <2>3 DEF TypeOK
    <3>2. AheadOfCpu(n)' /\ Len(backends') = n + 1 /\ TypeAt(n + 1)' = "accel"
      BY <1>n, <1>0, <2>1, <2>3, <3>1, LongerList
    <3>3. AheadOfCpu(n + 1)'
      BY <1>n, <1>0, <2>1, <2>3, <3>2 DEF AheadOfCpu
    <3> QED
      BY <1>n, <2>1, <3>2, <3>3 DEF Listed, Complete, Configuring, locals
  <2> QED
    BY <1>7, <2>2, <2>3 DEF OpenAccel
<1>8. CASE OpenCpu
  <2>1. AheadOfCpu(n) /\ UNCHANGED <<registry, policy, initialized>>
    BY <1>n, <1>8 DEF OpenCpu, Listed
  <2>2. ASSUME NEW d \in Cpus, Register(d), pc' = "threads" PROVE Listed'
    <3>1. d \in DOMAIN registry /\ registry[d] = "cpu"
      BY <2>2 DEF Cpus
    <3>2. AheadOfCpu(n)' /\ backends' # <<>> /\ Len(backends') = n + 1 /\ TypeAt(n + 1)' = "cpu"
      BY <1>n, <1>0, <2>1, <2>2, <3>1, LongerList
    <3> QED
      BY <1>n, <1>0, <2>2, <3>2 DEF Listed, Complete, Configuring, locals
  <2>3. CASE CloseThen("idle")
    BY <2>3 DEF CloseThen, Listed, Complete, Configuring, locals
  <2> QED
    BY <1>8, <2>2, <2>3 DEF OpenCpu
<1>9. ASSUME UNCHANGED <<registry, policy, backends, device>>,
             Complete' => Complete,
             pc' \notin {"accel", "cpu"}
      PROVE Listed'
  <2> SUFFICES ASSUME Complete PROVE Listed'
    BY <1>9 DEF Listed
  <2>1. backends # <<>> /\ TypeAt(n) = "cpu" /\ AheadOfCpu(n - 1)
    BY <1>n, <1>9 DEF Listed
  <2>2. AheadOfCpu(n - 1)'
    BY <1>n, <1>0, <1>9, <2>1, SameList
  <2>3. TypeAt(n)' = "cpu"
    BY <1>9, <2>1 DEF TypeAt
  <2> QED
    BY <1>n, <1>9, <2>1, <2>2, <2>3 DEF Listed
<1>10. ASSUME NEW k \in ThreadCounts, SetThreads(k) PROVE Listed'
  BY <1>9, <1>10 DEF SetThreads, handles, Complete, Configuring, locals
<1>11. CASE TellBackends
  BY <1>9, <1>11 DEF TellBackends, Complete, Configuring, locals
<1>12. CASE NewPool
  BY <1>9, <1>12 DEF NewPool, Ready, handles, Complete, Configuring, locals
<1>13. CASE Attach
  BY <1>9, <1>13 DEF Attach, Complete, Configuring, locals
<1>14. CASE FreePrevious
  BY <1>9, <1>14 DEF FreePrevious, Ready, handles, Complete, Configuring, locals
<1>15. CASE UNCHANGED vars
  BY <1>15 DEF vars, handles, locals, Listed, Complete, Configuring, AheadOfCpu, TypeAt, Ordinal, Gpus
<1> QED
  BY <1>1, <1>2, <1>3, <1>4, <1>5, <1>6, <1>7, <1>8, <1>10, <1>11, <1>12, <1>13,
     <1>14, <1>15 DEF Next

-----------------------------------------------------------------------------
(* The inductive invariant: who owns what, and what the list holds.        *)
THEOREM BackendInvariant == Spec => []BackendInv
<1>1. BackendInv /\ [Next]_vars => BackendInv'
  BY TypesStep, OwnedStep, PoolsStep, EmptyStep, ListedStep DEF BackendInv
<1> QED
  BY <1>1, InitHolds, PTL DEF Spec

(* A list without repetitions has as many entries as it has elements.      *)
LEMMA Distinct ==
    ASSUME NEW S, NEW s \in Seq(S), \A i, j \in DOMAIN s : s[i] = s[j] => i = j
    PROVE  Cardinality(ToSet(s)) = Len(s)
<1>0. Len(s) \in Nat /\ DOMAIN s = 1..Len(s)
  OBVIOUS
<1>1. IsFiniteSet(1..Len(s)) /\ Cardinality(1..Len(s)) = Len(s)
  <2>1. 1 \in Int /\ Len(s) \in Int /\ (1 > Len(s) => Len(s) = 0)
    BY <1>0
  <2>2. /\ IsFiniteSet(1..Len(s))
        /\ Cardinality(1..Len(s)) = IF 1 > Len(s) THEN 0 ELSE Len(s) - 1 + 1
    BY <2>1, FS_Interval
  <2> QED
    BY <1>0, <2>1, <2>2
<1>2. s \in Bijection(1..Len(s), ToSet(s))
  BY <1>0 DEF Bijection, Injection, Surjection, ToSet, IsInjective
<1> QED
  BY <1>0, <1>1, <1>2, FS_Bijection DEF ExistsBijection

(* Every way initialize can fail frees what it had opened.                 *)
THEOREM NothingIsLost == Spec => []NothingLost
<1>1. BackendInv => NothingLost
  <2> SUFFICES ASSUME BackendInv, pc = "idle"
               PROVE  /\ live = ToSet(backends) /\ Cardinality(live) = Len(backends)
                      /\ pools = {pool} \ {NoPool}
                      /\ initialized \/ backends = <<>>
    BY DEF NothingLost
  <2>1. live = ToSet(backends) /\ Cardinality(ToSet(backends)) = Len(backends)
    BY Distinct DEF BackendInv, Owned, TypeOK
  <2>2. pools = {pool} \ {NoPool}
    BY DEF BackendInv, PoolsKept
  <2> QED
    BY <2>1, <2>2 DEF BackendInv, Empty
<1> QED
  BY <1>1, BackendInvariant, PTL

(* No live backend is attached to a thread pool that has been freed.       *)
THEOREM PoolsOutliveUse == Spec => []NoDanglingPool
<1>1. BackendInv => NoDanglingPool
  BY DEF BackendInv, PoolsKept, NoDanglingPool
<1> QED
  BY <1>1, BackendInvariant, PTL

(* Both together: what is opened is freed, and not while it is in use.     *)
THEOREM FreedWhenDone == Spec => []FreedInTime
<1>1. NothingLost /\ NoDanglingPool => FreedInTime
  BY DEF FreedInTime
<1> QED
  BY <1>1, NothingIsLost, PoolsOutliveUse, PTL

(* The list is the selected GPU, then ACCEL devices, then the CPU, as the  *)
(* policy asks.                                                            *)
THEOREM PolicyKept == Spec => []PolicyHonoured
<1>1. BackendInv => PolicyHonoured
  <2> SUFFICES ASSUME BackendInv, pc = "idle", initialized
               PROVE  PolicyHonoured
    BY DEF PolicyHonoured
  <2>n. PICK n \in Nat : n = Len(backends)
    BY DEF BackendInv, TypeOK
  <2>1. /\ backends # <<>> /\ n \in Nat \ {0} /\ DOMAIN backends = 1..n
        /\ TypeAt(n) = "cpu" /\ AheadOfCpu(n - 1)
    BY <2>n DEF BackendInv, Listed, Complete, TypeOK
  <2>2. \A i \in 1..n : i = n \/ (i \in 1..(n - 1) /\ TypeAt(i) \in {"gpu", "accel"})
    BY <2>1 DEF AheadOfCpu
  <2>3. \A i \in DOMAIN backends : TypeAt(i) = "cpu" <=> i = n
    BY <2>1, <2>2
  <2>4. \A i \in DOMAIN backends : TypeAt(i) = "gpu" => i = 1
    BY <2>1, <2>2 DEF AheadOfCpu
  <2>5. \A i, j \in DOMAIN backends : i < j => Rank(TypeAt(i)) <= Rank(TypeAt(j))
    BY <2>1, <2>2, <2>3, <2>4 DEF Rank
  <2>6. policy.kind = "cpu" => n = 1
    BY <2>1 DEF AheadOfCpu
  <2>7. policy.kind = "gpu" =>
          n = 2 /\ TypeAt(1) = "gpu" /\ Ordinal(device[backends[1]]) = policy.index
    BY <2>1 DEF AheadOfCpu
  <2> QED
    BY <2>n, <2>3, <2>4, <2>5, <2>6, <2>7 DEF PolicyHonoured
<1> QED
  BY <1>1, BackendInvariant, PTL

(* Every variable keeps its type.                                          *)
THEOREM TypeCorrect == Spec => []TypeOK
<1>1. BackendInv => TypeOK
  BY DEF BackendInv
<1> QED
  BY <1>1, BackendInvariant, PTL

-----------------------------------------------------------------------------
(* The GPU path of a decoder.                                              *)

HIDE BackendAssumption DEF DeviceTypes

(* An invocation is walking the levels.                                    *)
Walking == at \in {"level", "prepare", "compute", "publish", "subdivide", "leave"}

(* The GPU is wanted, opened or in use.                                    *)
Wanting == Walking \/ at \in {"init", "enter", "giveUp", "closeWeights", "closeManager"}

(* Where the walk is: a generation of the topology for each level, and a   *)
(* transition only below the last one.                                     *)
WalkInv ==
    /\ at \in {"init", "enter"} \/ Walking => call \in Calls
    /\ Walking => /\ hidden \in Topologies
                  /\ generation = hidden.level /\ hidden.level <= call.last
    /\ at \in {"prepare", "compute"} /\ phase = "conv1" => hidden.level < call.last
    /\ at \in {"publish", "subdivide"} => hidden.level < call.last
    /\ at = "prepare" /\ phase = "block" => block < Blocks

(* The cache is empty or holds the map of the tensor being decoded, and    *)
(* the pointer a graph was given still leads to that map when it runs.     *)
CacheInv ==
    /\ Walking => map \in {None, hidden}
    /\ MapIsCurrent
    /\ at = "prepare" /\ KeepsPointer => Used = hidden

(* On the newer path a level is one graph, begun at its first block.       *)
WholeLevel ==
    settings.gpuFirst =>
        /\ at = "level" => block \in {0, Blocks}
        /\ at = "compute" /\ phase = "block" => block = Blocks

(* Only the coordinates of this level and of those before are on record.   *)
RecordInv ==
    Walking =>
        /\ recorded[generation] \in {None, hidden.coords}
        /\ \A g \in 0..(Levels - 1) : g > generation => recorded[g] = None

(* Weights, backends and policy at each stage of a call.                   *)
GpuInv ==
    /\ ManagerOutlives /\ CpuAlone
    /\ at = "closeManager" => ~weights
    /\ at = "closeManager" => map = None /\ generation = 0 /\ recorded = Nothing
    /\ decoderPolicy = "cpu" => ~manager /\ ~weights
    /\ Wanting => decoderPolicy \in {"auto", "gpu"}

DecoderInv ==
    DecoderTypeOK /\ WalkInv /\ CacheInv /\ WholeLevel /\ RecordInv /\ MapScoped /\ GpuInv

(* An empty record of topologies, at the first generation, is well typed.  *)
LEMMA NothingTyped ==
    Nothing \in [0..(Levels - 1) -> Coords \cup {None}] /\ 0 \in 0..(Levels - 1)
  BY DecoderAssumption DEF Nothing

(* DecoderInv holds: one case per step of a call.                          *)
THEOREM DecoderInvariant == DecoderSpec => []DecoderInv
<1> USE DecoderAssumption
<1>1. DecoderInit => DecoderInv
  <2> SUFFICES ASSUME DecoderInit PROVE DecoderInv
    OBVIOUS
  <2>1. DecoderTypeOK
    <3>1. manager \in BOOLEAN /\ weights \in BOOLEAN
          /\ attempted \in BOOLEAN
      BY Zenon DEF DecoderInit
    <3> QED
      BY <3>1, NothingTyped DEF DecoderInit, DecoderTypeOK, DecoderSteps
  <2>2. WalkInv /\ CacheInv /\ WholeLevel /\ RecordInv
    BY DEF DecoderInit, WalkInv, CacheInv, WholeLevel, RecordInv, MapIsCurrent, Walking
  <2>3. MapScoped /\ GpuInv
    BY DEF DecoderInit, MapScoped, GpuInv, ManagerOutlives, CpuAlone, Wanting, Walking
  <2> QED
    BY <2>1, <2>2, <2>3 DEF DecoderInv
<1>2. DecoderInv /\ [DecoderNext]_decoderVars => DecoderInv'
  <2> SUFFICES ASSUME DecoderInv, [DecoderNext]_decoderVars PROVE DecoderInv'
    OBVIOUS
  <2> USE DEF DecoderInv, DecoderTypeOK, WalkInv, CacheInv, WholeLevel, RecordInv, MapScoped,
        GpuInv, ManagerOutlives, CpuAlone, MapIsCurrent, Walking, Wanting, DecoderSteps,
        Nothing, model, cache, work, Used, KeepsPointer, Forget
  <2>1. ASSUME NEW c \in Calls, Begin(c) PROVE DecoderInv'
    BY <2>1 DEF Begin
  <2>2. CASE Reload
    <3>1. DecoderTypeOK'
      BY <2>2 DEF Reload
    <3>2. (WalkInv /\ CacheInv /\ WholeLevel /\ RecordInv)'
      BY <2>2 DEF Reload
    <3>3. (MapScoped /\ GpuInv)'
      BY <2>2 DEF Reload
    <3> QED
      BY <3>1, <3>2, <3>3
  <2>3. CASE InitGpu
    <3>1. CASE weights
      BY <2>3, <3>1 DEF InitGpu
    <3>2. ASSUME ~weights, at' = "giveUp", weights' = FALSE, manager' \in BOOLEAN,
                 attempted' \in BOOLEAN
          PROVE  DecoderInv'
      BY <2>3, <3>2 DEF InitGpu
    <3>3. ASSUME at' = "enter", weights' = TRUE, manager' = TRUE,
                 attempted' = TRUE
          PROVE  DecoderInv'
      BY <2>3, <3>3 DEF InitGpu
    <3> QED
      BY <2>3, <3>1, <3>2, <3>3 DEF InitGpu
  <2>4. CASE Enter
    BY <2>4 DEF Enter, Calls, Topologies
  <2>5. CASE Level
    BY <2>5 DEF Level, AtEnd, Calls, Topologies
  <2>6. CASE Prepare
    BY <2>6, SMTT(30) DEF Prepare, Obtain, Hit, Topologies
  <2>7. CASE Compute
    BY <2>7 DEF Compute
  <2>8. CASE Publish
    <3>1. CASE at' = "giveUp" /\ UNCHANGED <<hidden, cache, phase, block>>
      BY <2>8, <3>1 DEF Publish, Topologies
    <3>2. ASSUME NEW c \in Coords, hidden' = Child(c), phase' = "block", block' = 0,
                 NewTopology(IF settings.cached THEN Child(c) ELSE None),
                 recorded' = IF settings.profile
                             THEN [recorded EXCEPT ![generation + 1] = c] ELSE recorded,
                 at' = IF settings.profile /\ recorded[generation + 1] \notin {None, c}
                       THEN "giveUp" ELSE "level"
          PROVE  DecoderInv'
      BY <2>8, <3>2 DEF Publish, NewTopology, Child, Calls, Topologies
    <3> QED
      BY <2>8, <3>1, <3>2 DEF Publish
  <2>9. CASE Subdivide
    BY <2>9 DEF Subdivide, NewTopology, Child, Calls, Topologies
  <2>10. CASE Leave
    BY <2>10 DEF Leave
  <2>11. CASE GiveUp
    BY <2>11 DEF GiveUp, CloseFirst
  <2>12. CASE CloseWeights
    <3>1. DecoderTypeOK'
      <4> HIDE DEF Nothing
      <4> QED
        BY <2>12, NothingTyped DEF CloseWeights
    <3>2. (WalkInv /\ CacheInv /\ WholeLevel /\ RecordInv)'
      BY <2>12 DEF CloseWeights
    <3>3. (MapScoped /\ GpuInv)'
      BY <2>12 DEF CloseWeights
    <3> QED
      BY <3>1, <3>2, <3>3
  <2>13. CASE CloseManager
    <3>1. DecoderTypeOK'
      BY <2>13 DEF CloseManager, Fallback
    <3>2. (WalkInv /\ CacheInv /\ WholeLevel /\ RecordInv)'
      BY <2>13 DEF CloseManager, Fallback
    <3>3. (MapScoped /\ GpuInv)'
      BY <2>13 DEF CloseManager, Fallback
    <3> QED
      BY <3>1, <3>2, <3>3
  <2>14. CASE Return
    BY <2>14 DEF Return
  <2>15. CASE UNCHANGED decoderVars
    BY <2>15 DEF decoderVars
  <2> HIDE DEF DecoderInv
  <2> QED
    BY <2>1, <2>2, <2>3, <2>4, <2>5, <2>6, <2>7, <2>8, <2>9, <2>10, <2>11, <2>12,
       <2>13, <2>14, <2>15 DEF DecoderNext, Step
<1>3. QED
  BY <1>1, <1>2, PTL DEF DecoderSpec

(* Every variable keeps its type: the walk stays within the levels.        *)
THEOREM DecoderTypeCorrect == DecoderSpec => []DecoderTypeOK
<1>1. DecoderInv => DecoderTypeOK
  BY DEF DecoderInv
<1>2. QED
  BY <1>1, DecoderInvariant, PTL

(* A convolution gathers through the map of its own input.                 *)
THEOREM MapCurrent == DecoderSpec => []MapIsCurrent
<1>1. DecoderInv => MapIsCurrent
  BY DEF DecoderInv, CacheInv
<1>2. QED
  BY <1>1, DecoderInvariant, PTL

(* The two refusals of a stale map are never reached.                      *)
THEOREM NeverRefused == DecoderSpec => []InvalidatedInTime
<1>1. DecoderInv => InvalidatedInTime
  <2> SUFFICES ASSUME DecoderInv PROVE InvalidatedInTime
    OBVIOUS
  <2>1. at = "prepare" => ~Refused
    BY DEF DecoderInv, CacheInv, RecordInv, Walking, Refused, Hit, Matches, Recordable
  <2>2. at = "publish" => recorded[generation + 1] = None
    BY DecoderAssumption
       DEF DecoderInv, WalkInv, RecordInv, Walking, Topologies, Calls
  <2> QED
    BY <2>1, <2>2 DEF InvalidatedInTime
<1>2. QED
  BY <1>1, DecoderInvariant, PTL

(* The map follows the levels: always the right one, and never refused.    *)
THEOREM MapFollows == DecoderSpec => []MapInStep
<1>1. MapIsCurrent /\ InvalidatedInTime => MapInStep
  BY DEF MapInStep
<1>2. QED
  BY <1>1, MapCurrent, NeverRefused, PTL

(* No map is left behind by a call.                                        *)
THEOREM MapOfInvocation == DecoderSpec => []MapScoped
<1>1. DecoderInv => MapScoped
  BY DEF DecoderInv
<1>2. QED
  BY <1>1, DecoderInvariant, PTL

(* The CPU takes over only from a closed GPU and never under a gpu policy. *)
THEOREM DecoderCpuTakesOver == DecoderSpec => []CpuAlone
<1>1. DecoderInv => CpuAlone
  BY DEF DecoderInv, GpuInv
<1>2. QED
  BY <1>1, DecoderInvariant, PTL
=============================================================================
