----------------------------- MODULE MeshProofs -----------------------------
(***************************************************************************)
(* Theorems about MeshTopology and Qem, for any meshes.                    *)
(*                                                                         *)
(* Filling closes holes and nothing else.  Splitting a mesh gives every    *)
(* fan around a vertex a vertex of its own, and leaves no edge with three  *)
(* faces.                                                                  *)
(*                                                                         *)
(* Decimation, for any costs and thresholds: in every interleaving of the  *)
(* threads of a round no two of them meet, the kernel leaves what the      *)
(* sequential loop leaves, and compaction opens no hole.                   *)
(***************************************************************************)
EXTENDS MeshTopology, Qem, TLAPS, FiniteSetTheorems, SequenceTheorems, WellFoundedInduction

(* A set of naturals has a least one: what replaces induction below.       *)
LEMMA LeastNumber ==
    ASSUME NEW S \in SUBSET Nat, S # {}
    PROVE  \E n \in S : \A m \in S : n <= m
<1>1. PICK n \in S : \A y \in Nat : <<y, n>> \in OpToRel(<, Nat) => y \notin S
  <2>1. IsWellFoundedOn(OpToRel(<, Nat), Nat)
    BY NatLessThanWellFounded, Zenon
  <2> QED BY <2>1, WFMin, Zenon
<1>2. \A y \in Nat : y < n => y \notin S
  BY <1>1 DEF OpToRel
<1> QED BY <1>2

-----------------------------------------------------------------------------
(* The union-find forest.                                                  *)

(* So many numbers are finitely many.                                      *)
LEMMA CountTo ==
    ASSUME NEW n \in Nat
    PROVE  IsFiniteSet(1..n) /\ Cardinality(1..n) = n
<1>1. 1 \in Int /\ n \in Int
  OBVIOUS
<1>2. IsFiniteSet(1..n) /\ Cardinality(1..n) = IF 1 > n THEN 0 ELSE n - 1 + 1
  BY <1>1, FS_Interval
<1> QED BY <1>2

(* Ranks grow towards the root, and none is above R.                       *)
Climbs(up, rank, C, R) ==
    /\ up \in [C -> C] /\ rank \in [C -> Nat] /\ R \in Nat
    /\ \A y \in C : rank[y] <= R
    /\ \A y \in C : up[y] # y => rank[y] < rank[up[y]]

(* A set that holds y as soon as it holds what y hangs from holds all.     *)
LEMMA FromTheRoot ==
    ASSUME NEW up, NEW rank, NEW C, NEW R, Climbs(up, rank, C, R), NEW S \in SUBSET C,
           \A y \in C : (up[y] = y \/ up[y] \in S) => y \in S
    PROVE  S = C
<1> DEFINE B == {n \in Nat : \E y \in C : y \notin S /\ rank[y] + n = R}
<1>1. SUFFICES ASSUME S # C PROVE FALSE
  OBVIOUS
<1>2. \A y \in C : rank[y] \in Nat /\ rank[y] <= R /\ up[y] \in C
  BY DEF Climbs
<1>3. R \in Nat
  BY DEF Climbs
<1>4. B # {}
  <2>1. PICK y \in C : y \notin S
    BY <1>1
  <2>2. R - rank[y] \in Nat /\ rank[y] + (R - rank[y]) = R
    BY <1>2, <1>3
  <2> QED BY <2>1, <2>2
<1>5. PICK n \in B : \A m \in B : n <= m
  BY <1>4, LeastNumber
<1>6. PICK y \in C : y \notin S /\ rank[y] + n = R
  OBVIOUS
<1>7. up[y] # y /\ up[y] \notin S /\ up[y] \in C
  BY <1>2, <1>6
<1>8. rank[y] < rank[up[y]]
  BY <1>6, <1>7 DEF Climbs
<1>9. R - rank[up[y]] \in Nat /\ rank[up[y]] + (R - rank[up[y]]) = R /\ R - rank[up[y]] < n
  BY <1>2, <1>3, <1>6, <1>7, <1>8
<1>10. R - rank[up[y]] \in B
  BY <1>7, <1>9
<1> QED BY <1>5, <1>9, <1>10

(* The corners that reach a root in less than n steps.                     *)
Near(rank, C, R, n) == {y \in C : rank[y] + n > R}

LEMMA NearGrows ==
    ASSUME NEW up, NEW rank, NEW C, NEW R, Climbs(up, rank, C, R), NEW n \in Nat
    PROVE  /\ Near(rank, C, R, 0) = {} /\ Near(rank, C, R, R + 1) = C
           /\ n > 0 => \A y \in Near(rank, C, R, n) :
                          up[y] # y => up[y] \in Near(rank, C, R, n - 1)
<1>1. /\ R \in Nat /\ \A y \in C : rank[y] \in Nat /\ rank[y] <= R /\ up[y] \in C
      /\ \A y \in C : up[y] # y => rank[y] < rank[up[y]]
  BY DEF Climbs
<1>2. Near(rank, C, R, 0) = {}
  BY <1>1 DEF Near
<1>3. Near(rank, C, R, R + 1) = C
  BY <1>1 DEF Near
<1>4. ASSUME n > 0, NEW y \in Near(rank, C, R, n), up[y] # y
      PROVE  up[y] \in Near(rank, C, R, n - 1)
  <2>1. y \in C /\ rank[y] + n > R
    BY DEF Near
  <2>2. rank[up[y]] + (n - 1) > R /\ up[y] \in C
    BY <1>1, <1>4, <2>1
  <2> QED BY <2>2 DEF Near
<1> QED BY <1>2, <1>3, <1>4

LEMMA NearMore ==
    ASSUME NEW rank, NEW C, NEW R \in Nat, rank \in [C -> Nat], NEW n \in Nat, n > 0
    PROVE  Near(rank, C, R, n - 1) \subseteq Near(rank, C, R, n)
<1> SUFFICES ASSUME NEW y \in Near(rank, C, R, n - 1)
             PROVE  y \in Near(rank, C, R, n)
  OBVIOUS
<1>1. y \in C /\ rank[y] + (n - 1) > R /\ rank[y] \in Nat
  BY DEF Near
<1>2. rank[y] + n > R
  BY <1>1
<1> QED BY <1>1, <1>2 DEF Near

(* There is a function that gives every corner its root.                   *)
LEMMA RootsExist ==
    ASSUME NEW up, NEW rank, NEW C, NEW R, Climbs(up, rank, C, R)
    PROVE  \E f : f = [y \in C |-> IF up[y] = y THEN y ELSE f[up[y]]]
<1> DEFINE D(n) == Near(rank, C, R, n)
           Is(f, n) == f = [y \in D(n) |-> IF up[y] = y THEN y ELSE f[up[y]]]
           B == {n \in Nat : ~ \E f : Is(f, n)}
<1>1. D(0) = {} /\ D(R + 1) = C /\ R + 1 \in Nat
  <2>1. 0 \in Nat /\ R \in Nat
    BY DEF Climbs
  <2>2. Near(rank, C, R, 0) = {} /\ Near(rank, C, R, R + 1) = C
    BY <2>1, NearGrows
  <2> QED BY <2>1, <2>2
<1>2. \A n \in Nat : n > 0 => \A y \in D(n) : up[y] # y => up[y] \in D(n - 1)
  BY NearGrows
<1> HIDE DEF D
<1>3. B = {}
  <2>1. SUFFICES ASSUME B # {} PROVE FALSE
    OBVIOUS
  <2>2. PICK n \in B : \A m \in B : n <= m
    <3> HIDE DEF Is
    <3> QED BY <2>1, LeastNumber
  <2>3. CASE n = 0
    <3> DEFINE e == [y \in D(0) |-> 0]
    <3>1. e = [y \in D(0) |-> IF up[y] = y THEN y ELSE e[up[y]]]
      BY <1>1
    <3> QED BY <2>3, <3>1
  <2>4. CASE n > 0
    <3>1. n - 1 \in Nat /\ n - 1 \notin B
      <4> HIDE DEF Is
      <4> QED BY <2>2, <2>4
    <3>2. PICK f : Is(f, n - 1)
      BY <3>1
    <3> DEFINE g == [y \in D(n) |-> IF up[y] = y THEN y ELSE f[up[y]]]
               h == [y \in D(n) |-> IF up[y] = y THEN y ELSE g[up[y]]]
    <3>3. \A y \in D(n) : g[y] = h[y]
      <4> TAKE y \in D(n)
      <4>1. CASE up[y] = y
        BY <4>1
      <4>2. CASE up[y] # y
        <5> DEFINE z == up[y]
        <5>1. z \in D(n - 1)
          BY <1>2, <2>4, <4>2
        <5>2. f[z] = IF up[z] = z THEN z ELSE f[up[z]]
          BY <3>2, <5>1
        <5>3. z \in D(n)
          <6>1. n \in Nat
            OBVIOUS
          <6> QED BY <2>4, <5>1, <6>1, NearMore DEF D, Climbs
        <5> HIDE DEF z
        <5>4. g[z] = f[z]
          BY <5>2, <5>3
        <5>5. g[y] = f[z] /\ h[y] = g[z]
          <6> HIDE DEF g
          <6>1. h[y] = g[z]
            BY <4>2 DEF z
          <6>2. g[y] = f[z]
            BY <4>2 DEF z, g
          <6> QED BY <6>1, <6>2
        <5> QED BY <5>4, <5>5
      <4> QED BY <4>1, <4>2
    <3>4. g = [y \in D(n) |-> g[y]] /\ h = [y \in D(n) |-> h[y]]
      OBVIOUS
    <3>5. g = h
      <4> HIDE DEF g, h
      <4> QED BY <3>3, <3>4
    <3>6. Is(g, n)
      <4> HIDE DEF g
      <4> QED BY <3>5
    <3> QED BY <3>6
  <2> QED BY <2>3, <2>4
<1> QED
  <2>1. \E f : Is(f, R + 1)
    <3> HIDE DEF Is
    <3> QED BY <1>1, <1>3
  <2> QED BY <1>1, <2>1

(* The root of a corner is its own, or that of what it hangs from.         *)
LEMMA RootIs ==
    ASSUME NEW up, NEW rank, NEW C, NEW R, Climbs(up, rank, C, R)
    PROVE  \A x \in C : Root(up, x) = IF up[x] = x THEN x ELSE Root(up, up[x])
<1> DEFINE F == CHOOSE f : f = [y \in C |-> IF up[y] = y THEN y ELSE f[up[y]]]
<1>1. DOMAIN up = C /\ \A x \in C : up[x] \in C
  BY DEF Climbs
<1>2. \E f : f = [y \in C |-> IF up[y] = y THEN y ELSE f[up[y]]]
  BY RootsExist
<1>3. F = [y \in C |-> IF up[y] = y THEN y ELSE F[up[y]]]
  BY <1>2
<1>4. \A x : Root(up, x) = F[x]
  BY <1>1 DEF Root
<1> HIDE DEF F
<1>5. \A x \in C : F[x] = IF up[x] = x THEN x ELSE F[up[x]]
  BY <1>3
<1> QED BY <1>4, <1>5

(* A root hangs from itself, above everything that leads to it.            *)
LEMMA RootsAbove ==
    ASSUME NEW up, NEW rank, NEW C, NEW R, Climbs(up, rank, C, R)
    PROVE  \A x \in C : /\ Root(up, x) \in C /\ up[Root(up, x)] = Root(up, x)
                        /\ rank[x] <= rank[Root(up, x)]
                        /\ Root(up, x) # x => rank[x] < rank[Root(up, x)]
                        /\ Root(up, Root(up, x)) = Root(up, x)
<1> DEFINE Above(x) == /\ Root(up, x) \in C /\ up[Root(up, x)] = Root(up, x)
                       /\ rank[x] <= rank[Root(up, x)]
                       /\ Root(up, x) # x => rank[x] < rank[Root(up, x)]
           S == {x \in C : Above(x)}
<1>1. \A x \in C : rank[x] \in Nat /\ up[x] \in C /\ (up[x] # x => rank[x] < rank[up[x]])
  BY DEF Climbs
<1>2. ASSUME NEW y \in C, up[y] = y \/ up[y] \in S
      PROVE  y \in S
  <2>1. CASE up[y] = y
    <3>1. Root(up, y) = y
      BY <2>1, RootIs
    <3> QED BY <1>1, <2>1, <3>1
  <2>2. CASE up[y] # y
    <3> DEFINE r == Root(up, y)
               z == up[y]
    <3>1. r = Root(up, z) /\ z \in C
      BY <1>1, <2>2, RootIs
    <3>2. Above(z)
      BY <1>2, <2>2
    <3>3. rank[y] < rank[z] /\ rank[z] <= rank[r] /\ r \in C /\ up[r] = r
      BY <1>1, <2>2, <3>1, <3>2
    <3>4. rank[y] \in Nat /\ rank[z] \in Nat /\ rank[r] \in Nat
      BY <1>1, <3>1, <3>3
    <3> HIDE DEF r, z
    <3>5. rank[y] < rank[r]
      BY <3>3, <3>4
    <3>6. rank[y] <= rank[r]
      BY <3>4, <3>5
    <3> QED BY <3>3, <3>5, <3>6 DEF r
  <2> QED BY <2>1, <2>2
<1> HIDE DEF Above
<1>3. S = C
  BY <1>2, FromTheRoot
<1>4. \A x \in C : Above(x)
  BY <1>3
<1> QED BY <1>4, RootIs DEF Above

(* There is a function that gives every corner its way to the root.        *)
LEMMA PathsExist ==
    ASSUME NEW up, NEW rank, NEW C, NEW R, Climbs(up, rank, C, R)
    PROVE  \E f : f = [y \in C |-> IF up[y] = y THEN {y} ELSE {y} \cup f[up[y]]]
<1> DEFINE D(n) == Near(rank, C, R, n)
           Is(f, n) == f = [y \in D(n) |-> IF up[y] = y THEN {y} ELSE {y} \cup f[up[y]]]
           B == {n \in Nat : ~ \E f : Is(f, n)}
<1>1. D(0) = {} /\ D(R + 1) = C /\ R + 1 \in Nat
  <2>1. 0 \in Nat /\ R \in Nat
    BY DEF Climbs
  <2>2. Near(rank, C, R, 0) = {} /\ Near(rank, C, R, R + 1) = C
    BY <2>1, NearGrows
  <2> QED BY <2>1, <2>2
<1>2. \A n \in Nat : n > 0 => \A y \in D(n) : up[y] # y => up[y] \in D(n - 1)
  BY NearGrows
<1> HIDE DEF D
<1>3. B = {}
  <2>1. SUFFICES ASSUME B # {} PROVE FALSE
    OBVIOUS
  <2>2. PICK n \in B : \A m \in B : n <= m
    <3> HIDE DEF Is
    <3> QED BY <2>1, LeastNumber
  <2>3. CASE n = 0
    <3> DEFINE e == [y \in D(0) |-> 0]
    <3>1. e = [y \in D(0) |-> IF up[y] = y THEN {y} ELSE {y} \cup e[up[y]]]
      BY <1>1
    <3> QED BY <2>3, <3>1
  <2>4. CASE n > 0
    <3>1. n - 1 \in Nat /\ n - 1 \notin B
      <4> HIDE DEF Is
      <4> QED BY <2>2, <2>4
    <3>2. PICK f : Is(f, n - 1)
      BY <3>1
    <3> DEFINE g == [y \in D(n) |-> IF up[y] = y THEN {y} ELSE {y} \cup f[up[y]]]
               h == [y \in D(n) |-> IF up[y] = y THEN {y} ELSE {y} \cup g[up[y]]]
    <3>3. \A y \in D(n) : g[y] = h[y]
      <4> TAKE y \in D(n)
      <4>1. CASE up[y] = y
        BY <4>1
      <4>2. CASE up[y] # y
        <5> DEFINE z == up[y]
        <5>1. z \in D(n - 1)
          BY <1>2, <2>4, <4>2
        <5>2. f[z] = IF up[z] = z THEN {z} ELSE {z} \cup f[up[z]]
          BY <3>2, <5>1
        <5>3. z \in D(n)
          <6>1. n \in Nat
            OBVIOUS
          <6> QED BY <2>4, <5>1, <6>1, NearMore DEF D, Climbs
        <5> HIDE DEF z
        <5>4. g[z] = f[z]
          BY <5>2, <5>3
        <5>5. g[y] = {y} \cup f[z] /\ h[y] = {y} \cup g[z]
          <6> HIDE DEF g
          <6>1. h[y] = {y} \cup g[z]
            BY <4>2 DEF z
          <6>2. g[y] = {y} \cup f[z]
            BY <4>2 DEF z, g
          <6> QED BY <6>1, <6>2
        <5> QED BY <5>4, <5>5
      <4> QED BY <4>1, <4>2
    <3>4. g = [y \in D(n) |-> g[y]] /\ h = [y \in D(n) |-> h[y]]
      OBVIOUS
    <3>5. g = h
      <4> HIDE DEF g, h
      <4> QED BY <3>3, <3>4
    <3>6. Is(g, n)
      <4> HIDE DEF g
      <4> QED BY <3>5
    <3> QED BY <3>6
  <2> QED BY <2>3, <2>4
<1> QED
  <2>1. \E f : Is(f, R + 1)
    <3> HIDE DEF Is
    <3> QED BY <1>1, <1>3
  <2> QED BY <1>1, <2>1

(* The way to the root: everything on it has that root.                    *)
LEMMA PathIs ==
    ASSUME NEW up, NEW rank, NEW C, NEW R, Climbs(up, rank, C, R)
    PROVE  \A x \in C : \A y \in OnPath(up, x) : y \in C /\ Root(up, y) = Root(up, x)
<1> DEFINE F == CHOOSE f : f = [y \in C |-> IF up[y] = y THEN {y} ELSE {y} \cup f[up[y]]]
           S == {x \in C : \A y \in OnPath(up, x) : y \in C /\ Root(up, y) = Root(up, x)}
<1>1. DOMAIN up = C /\ \A x \in C : up[x] \in C
  BY DEF Climbs
<1>2. \E f : f = [y \in C |-> IF up[y] = y THEN {y} ELSE {y} \cup f[up[y]]]
  BY PathsExist
<1>3. F = [y \in C |-> IF up[y] = y THEN {y} ELSE {y} \cup F[up[y]]]
  BY <1>2
<1>4. \A x : OnPath(up, x) = F[x]
  BY <1>1 DEF OnPath
<1> HIDE DEF F
<1>5. \A x \in C : F[x] = IF up[x] = x THEN {x} ELSE {x} \cup F[up[x]]
  BY <1>3
<1>6. ASSUME NEW x \in C, up[x] = x \/ up[x] \in S
      PROVE  x \in S
  <2>1. CASE up[x] = x
    <3>1. OnPath(up, x) = {x}
      BY <1>4, <1>5, <2>1
    <3> QED BY <3>1
  <2>2. CASE up[x] # x
    <3>1. OnPath(up, x) = {x} \cup OnPath(up, up[x])
      BY <1>4, <1>5, <2>2
    <3>2. Root(up, x) = Root(up, up[x])
      BY <2>2, RootIs
    <3>3. \A y \in OnPath(up, up[x]) : y \in C /\ Root(up, y) = Root(up, up[x])
      BY <1>6, <2>2
    <3> QED BY <3>1, <3>2, <3>3
  <2> QED BY <2>1, <2>2
<1> DEFINE T == S
<1>7. T = C
  <2>1. T \in SUBSET C
    OBVIOUS
  <2>2. \A x \in C : (up[x] = x \/ up[x] \in T) => x \in T
    BY <1>6
  <2> HIDE DEF T
  <2> QED BY <2>1, <2>2, FromTheRoot
<1> QED BY <1>7

(* Hanging a way from its root changes no root and needs no other ranks.   *)
LEMMA FoundIs ==
    ASSUME NEW up, NEW rank, NEW C, NEW R, Climbs(up, rank, C, R), NEW x \in C
    PROVE  /\ Climbs(Found(up, x), rank, C, R)
           /\ \A z \in C : Root(Found(up, x), z) = Root(up, z)
<1> DEFINE new == Found(up, x)
           r == Root(up, x)
           P == OnPath(up, x)
<1>1. /\ up \in [C -> C] /\ DOMAIN up = C /\ rank \in [C -> Nat] /\ R \in Nat
      /\ \A y \in C : rank[y] \in Nat /\ up[y] \in C /\ rank[y] <= R
      /\ \A y \in C : up[y] # y => rank[y] < rank[up[y]]
  BY DEF Climbs
<1>2. r \in C /\ up[r] = r /\ \A y \in P : y \in C /\ Root(up, y) = r
  BY RootsAbove, PathIs
<1>3. new = [y \in C |-> IF y \in P THEN r ELSE up[y]]
  BY <1>1 DEF Found
<1> HIDE DEF new, r, P
<1>4. new \in [C -> C]
  BY <1>1, <1>2, <1>3
<1>5. ASSUME NEW y \in C, new[y] # y PROVE rank[y] < rank[new[y]]
  <2>1. CASE y \in P
    <3>1. Root(up, y) = r /\ new[y] = r
      BY <1>2, <1>3, <2>1
    <3>2. Root(up, y) # y => rank[y] < rank[Root(up, y)]
      BY RootsAbove
    <3> QED BY <1>5, <3>1, <3>2
  <2>2. CASE y \notin P
    <3>1. new[y] = up[y]
      BY <1>3, <2>2
    <3> QED BY <1>1, <1>5, <3>1
  <2> QED BY <2>1, <2>2
<1>6. Climbs(new, rank, C, R)
  BY <1>1, <1>4, <1>5 DEF Climbs
<1> DEFINE S == {z \in C : Root(new, z) = Root(up, z)}
<1>7. ASSUME NEW z \in C, new[z] = z \/ new[z] \in S
      PROVE  z \in S
  <2>1. CASE new[z] = z
    <3>1. Root(new, z) = z
      BY <1>6, <2>1, RootIs
    <3>2. CASE z \in P
      BY <1>2, <1>3, <2>1, <3>1, <3>2
    <3>3. CASE z \notin P
      <4>1. up[z] = z
        BY <1>3, <2>1, <3>3
      <4>2. Root(up, z) = z
        BY <4>1, RootIs
      <4> QED BY <3>1, <4>2
    <3> QED BY <3>2, <3>3
  <2>2. CASE new[z] # z
    <3>1. Root(new, z) = Root(new, new[z]) /\ new[z] \in S
      BY <1>6, <1>7, <2>2, RootIs
    <3>2. Root(new, z) = Root(up, new[z])
      BY <3>1
    <3>3. CASE z \in P
      <4>1. new[z] = r /\ Root(up, r) = r /\ Root(up, z) = r
        BY <1>2, <1>3, <3>3, RootIs
      <4> QED BY <3>2, <4>1
    <3>4. CASE z \notin P
      <4>1. new[z] = up[z]
        BY <1>3, <3>4
      <4>2. Root(up, z) = Root(up, up[z])
        BY <2>2, <4>1, RootIs
      <4> QED BY <3>2, <4>1, <4>2
    <3> QED BY <3>3, <3>4
  <2> QED BY <2>1, <2>2
<1>8. S = C
  BY <1>6, <1>7, FromTheRoot
<1> QED BY <1>6, <1>8 DEF new

(* The root of low rank hung from the other, whose rank may grow.          *)
Hung(up, low, top) == [up EXCEPT ![low] = top]
Raised(rank, low, top) ==
    [rank EXCEPT ![top] = IF rank[top] = rank[low] THEN rank[top] + 1 ELSE rank[top]]

(* A root hung from another of at least its rank: what had it for its root *)
(* has the other.                                                          *)
LEMMA HangIs ==
    ASSUME NEW up, NEW rank, NEW C, NEW R, Climbs(up, rank, C, R),
           NEW low \in C, NEW top \in C, low # top, up[low] = low, up[top] = top,
           rank[low] <= rank[top]
    PROVE  /\ Climbs(Hung(up, low, top), Raised(rank, low, top), C, R + 1)
           /\ \A z \in C : Root(Hung(up, low, top), z) =
                             IF Root(up, z) = low THEN top ELSE Root(up, z)
<1> DEFINE up2 == Hung(up, low, top)
           rank2 == Raised(rank, low, top)
<1>1. /\ up \in [C -> C] /\ rank \in [C -> Nat] /\ R \in Nat
      /\ \A y \in C : rank[y] \in Nat /\ up[y] \in C /\ rank[y] <= R
      /\ \A y \in C : up[y] # y => rank[y] < rank[up[y]]
  BY DEF Climbs
<1>2. up2 \in [C -> C] /\ \A y \in C : up2[y] = IF y = low THEN top ELSE up[y]
  BY <1>1 DEF Hung
<1>3. /\ rank2 \in [C -> Nat] /\ \A y \in C : y # top => rank2[y] = rank[y]
      /\ rank2[top] = IF rank[top] = rank[low] THEN rank[top] + 1 ELSE rank[top]
  BY <1>1 DEF Raised
<1> HIDE DEF up2, rank2
<1>4. /\ \A y \in C : rank2[y] \in Nat /\ rank[y] <= rank2[y] /\ rank2[y] <= R + 1
      /\ rank2[low] < rank2[top]
  <2>1. rank[top] \in Nat /\ rank[low] \in Nat /\ rank[top] <= R /\ R \in Nat
    BY <1>1
  <2>2. rank2[top] \in Nat /\ rank[top] <= rank2[top] /\ rank2[top] <= R + 1
        /\ rank[low] < rank2[top]
    BY <1>3, <2>1
  <2>3. ASSUME NEW y \in C
        PROVE  rank2[y] \in Nat /\ rank[y] <= rank2[y] /\ rank2[y] <= R + 1
    <3>1. CASE y = top
      BY <2>2, <3>1
    <3>2. CASE y # top
      <4>1. rank2[y] = rank[y] /\ rank[y] \in Nat /\ rank[y] <= R
        BY <1>1, <1>3, <3>2
      <4> QED BY <2>1, <4>1
    <3> QED BY <3>1, <3>2
  <2>4. rank2[low] = rank[low]
    BY <1>3
  <2> QED BY <2>2, <2>3, <2>4
<1>5. ASSUME NEW y \in C, up2[y] # y PROVE rank2[y] < rank2[up2[y]]
  <2>1. CASE y = low
    BY <1>2, <1>4, <2>1
  <2>2. CASE y # low
    <3>1. up2[y] = up[y] /\ up[y] # y /\ up[y] \in C
      BY <1>1, <1>2, <1>5, <2>2
    <3>2. y # top
      BY <3>1
    <3>3. rank2[y] = rank[y] /\ rank[y] < rank[up[y]] /\ rank[up[y]] <= rank2[up[y]]
      BY <1>1, <1>3, <1>4, <3>1, <3>2
    <3>4. rank[y] \in Nat /\ rank[up[y]] \in Nat /\ rank2[up[y]] \in Nat
      BY <1>1, <1>4, <3>1
    <3> QED BY <3>1, <3>3, <3>4
  <2> QED BY <2>1, <2>2
<1>6. Climbs(up2, rank2, C, R + 1)
  BY <1>1, <1>2, <1>3, <1>4, <1>5 DEF Climbs
<1>61. \A z \in C : Root(up2, z) = IF up2[z] = z THEN z ELSE Root(up2, up2[z])
  <2>1. PICK Q : Climbs(up2, rank2, C, Q)
    BY <1>6
  <2> QED BY <2>1, RootIs
<1> DEFINE To(z) == IF Root(up, z) = low THEN top ELSE Root(up, z)
           S == {z \in C : Root(up2, z) = To(z)}
<1>7. Root(up, low) = low /\ Root(up, top) = top
  BY RootIs
<1>8. ASSUME NEW z \in C, up2[z] = z \/ up2[z] \in S
      PROVE  z \in S
  <2>1. CASE z = low
    <3>1. up2[z] = top /\ top # z
      BY <1>2, <2>1
    <3>2. Root(up2, z) = Root(up2, top)
      BY <1>61, <3>1
    <3>3. Root(up2, top) = To(top)
      BY <1>8, <3>1
    <3> QED BY <1>7, <2>1, <3>2, <3>3
  <2>2. CASE z # low /\ up[z] = z
    <3>1. up2[z] = z
      BY <1>2, <2>2
    <3>2. Root(up2, z) = z
      BY <1>61, <3>1
    <3>3. Root(up, z) = z
      BY <2>2, RootIs
    <3> QED BY <2>2, <3>2, <3>3
  <2>3. CASE z # low /\ up[z] # z
    <3>1. up2[z] = up[z]
      BY <1>2, <2>3
    <3>2. Root(up2, z) = Root(up2, up[z])
      BY <1>61, <2>3, <3>1
    <3>3. Root(up, z) = Root(up, up[z])
      BY <2>3, RootIs
    <3>4. Root(up2, up[z]) = To(up[z])
      BY <1>8, <2>3, <3>1
    <3> QED BY <3>2, <3>3, <3>4
  <2> QED BY <2>1, <2>2, <2>3
<1> DEFINE T == S
<1>9. T = C
  <2>1. T \in SUBSET C
    OBVIOUS
  <2>2. \A z \in C : (up2[z] = z \/ up2[z] \in T) => z \in T
    BY <1>8
  <2>3. PICK Q : Climbs(up2, rank2, C, Q)
    BY <1>6
  <2> HIDE DEF T
  <2> QED BY <2>1, <2>2, <2>3, FromTheRoot
<1>10. \A z \in C : Root(up2, z) = To(z)
  BY <1>9
<1> QED BY <1>6, <1>10 DEF up2, rank2

(* The forest of a set of corners, of whatever height.                     *)
Tree(F, C) ==
    /\ F = [up |-> F.up, rank |-> F.rank]
    /\ \E R \in Nat : Climbs(F.up, F.rank, C, R)

(* Uniting two corners joins their classes and no other.                   *)
LEMMA UnitedIs ==
    ASSUME NEW F, NEW C, Tree(F, C), NEW x \in C, NEW y \in C
    PROVE  /\ Tree(United(F, x, y), C)
           /\ \A a, b \in C :
                Root(United(F, x, y).up, a) = Root(United(F, x, y).up, b) <=>
                  \/ Root(F.up, a) = Root(F.up, b)
                  \/ Root(F.up, a) = Root(F.up, x) /\ Root(F.up, b) = Root(F.up, y)
                  \/ Root(F.up, a) = Root(F.up, y) /\ Root(F.up, b) = Root(F.up, x)
<1> DEFINE left == Root(F.up, x)
           right == Root(F.up, y)
           u1 == Found(F.up, x)
           up == Found(u1, y)
           G == United(F, x, y)
<1>1. PICK R \in Nat : Climbs(F.up, F.rank, C, R)
  BY DEF Tree
<1>2. /\ Climbs(u1, F.rank, C, R)
      /\ \A z \in C : Root(u1, z) = Root(F.up, z)
  BY <1>1, FoundIs
<1> HIDE DEF u1
<1>3. /\ Climbs(up, F.rank, C, R)
      /\ \A z \in C : Root(up, z) = Root(F.up, z)
  BY <1>2, FoundIs
<1>4. /\ left \in C /\ right \in C /\ Root(F.up, left) = left /\ Root(F.up, right) = right
  BY <1>1, RootsAbove
<1>5. up[left] = left /\ up[right] = right
  <2>1. left = Root(up, left) /\ right = Root(up, right)
    BY <1>3, <1>4
  <2> QED BY <1>3, <1>4, <2>1, RootsAbove
<1>6. CASE left = right
  <2>1. G = [F EXCEPT !.up = up]
    BY <1>6 DEF United, u1
  <2>2. G = [up |-> up, rank |-> F.rank]
    <3> HIDE DEF up, G
    <3> QED BY <2>1 DEF Tree
  <2> HIDE DEF up, G, left, right
  <2>3. G.up = up /\ G.rank = F.rank /\ Tree(G, C)
    BY <1>3, <2>2 DEF Tree
  <2> QED BY <1>3, <1>6, <2>3 DEF G, left, right
<1>7. CASE left # right
  <2> DEFINE top == IF F.rank[left] < F.rank[right] THEN right ELSE left
             low == IF top = left THEN right ELSE left
             up2 == [up EXCEPT ![low] = top]
             rank2 == [F.rank EXCEPT ![top] = IF @ = F.rank[low] THEN @ + 1 ELSE @]
  <2>1. G = [up |-> up2, rank |-> rank2]
    BY <1>7 DEF United, u1
  <2> HIDE DEF up, G, left, right
  <2>2. /\ low \in C /\ top \in C /\ low # top
        /\ \/ top = left /\ low = right
           \/ top = right /\ low = left
    BY <1>4, <1>7
  <2>3. F.rank[low] <= F.rank[top]
    <3>1. F.rank[left] \in Nat /\ F.rank[right] \in Nat
      BY <1>1, <1>4 DEF Climbs
    <3> QED BY <1>7, <3>1
  <2>4. up[low] = low /\ up[top] = top
    BY <1>5, <2>2
  <2> HIDE DEF top, low
  <2> DEFINE up3 == Hung(up, low, top)
             rank3 == Raised(F.rank, low, top)
  <2>7. /\ Climbs(up3, rank3, C, R + 1)
        /\ \A z \in C : Root(up3, z) = IF Root(up, z) = low THEN top ELSE Root(up, z)
    BY <1>3, <2>2, <2>3, <2>4, HangIs
  <2>8. G = [up |-> up3, rank |-> rank3]
    BY <2>1 DEF Hung, Raised
  <2> HIDE DEF up3, rank3
  <2>9. Tree(G, C) /\ G.up = up3
    <3>1. G.up = up3 /\ G.rank = rank3 /\ R + 1 \in Nat
      BY <2>8
    <3> QED BY <2>7, <2>8, <3>1 DEF Tree
  <2>10. \A z \in C : Root(G.up, z) = IF Root(F.up, z) = low THEN top ELSE Root(F.up, z)
    BY <1>3, <2>7, <2>9
  <2>11. \A a, b \in C :
                Root(G.up, a) = Root(G.up, b) <=>
                  \/ Root(F.up, a) = Root(F.up, b)
                  \/ Root(F.up, a) = left /\ Root(F.up, b) = right
                  \/ Root(F.up, a) = right /\ Root(F.up, b) = left
    BY <2>2, <2>10
  <2> QED BY <2>9, <2>11 DEF G, left, right
<1> QED BY <1>6, <1>7

-----------------------------------------------------------------------------
(* Corners, edges and the faces at an edge.                                *)

(* What is known of a mesh that is let pass.                               *)
LEMMA MeshIs ==
    ASSUME NEW m, Valid(m)
    PROVE  /\ m.verts \in Nat /\ Len(m.faces) \in Nat /\ DOMAIN m.faces = 1..Len(m.faces)
           /\ \A f \in DOMAIN m.faces :
                /\ m.faces[f] \in [Place -> 1..m.verts]
                /\ \A i, j \in Place : i # j => m.faces[f][i] # m.faces[f][j]
<1>1. m.verts \in Nat /\ m.faces \in Seq(TrianglesOn(m.verts))
  BY DEF Valid
<1>2. Len(m.faces) \in Nat /\ DOMAIN m.faces = 1..Len(m.faces)
  BY <1>1
<1>3. \A f \in DOMAIN m.faces : m.faces[f] \in TrianglesOn(m.verts)
  BY <1>1
<1> QED BY <1>1, <1>2, <1>3 DEF TrianglesOn

(* The mesh of a call is let pass.                                         *)
LEMMA GivenIs == ASSUME given \in Surfaces PROVE Valid(given)
  BY SurfacesAssumption

(* The number of a corner tells its face and its place there.              *)
LEMMA CornerNumber ==
    ASSUME given \in Surfaces, NEW f \in DOMAIN given.faces, NEW k \in Place
    PROVE  /\ 3 * (f - 1) + k \in Corners /\ FaceOf(3 * (f - 1) + k) = f
           /\ VertexAt(3 * (f - 1) + k) = given.faces[f][k]
<1> DEFINE n == Len(given.faces)
           c == 3 * (f - 1) + k
<1>1. n \in Nat /\ f \in 1..n
  BY GivenIs, MeshIs
<1> HIDE DEF n
<1>2. k = 1 \/ k = 2 \/ k = 3
  BY DEF Place
<1>3. c \in 1..(3 * n)
  BY <1>1, <1>2
<1>4. (c - 1) \div 3 = f - 1 /\ (c - 1) % 3 = k - 1
  <2>1. (3 * (f - 1)) \div 3 = f - 1 /\ (3 * (f - 1)) % 3 = 0
    BY <1>1
  <2>2. (3 * (f - 1) + 1) \div 3 = f - 1 /\ (3 * (f - 1) + 1) % 3 = 1
    BY <1>1
  <2>3. (3 * (f - 1) + 2) \div 3 = f - 1 /\ (3 * (f - 1) + 2) % 3 = 2
    BY <1>1
  <2>4. CASE k = 1
    <3>1. c - 1 = 3 * (f - 1)
      BY <1>1, <2>4
    <3> QED BY <2>1, <2>4, <3>1
  <2>5. CASE k = 2
    <3>1. c - 1 = 3 * (f - 1) + 1
      BY <1>1, <2>5
    <3> QED BY <2>2, <2>5, <3>1
  <2>6. CASE k = 3
    <3>1. c - 1 = 3 * (f - 1) + 2
      BY <1>1, <2>6
    <3> QED BY <2>3, <2>6, <3>1
  <2> QED BY <1>2, <2>4, <2>5, <2>6
<1> HIDE DEF c
<1>5. FaceOf(c) = f
  BY <1>1, <1>4 DEF FaceOf
<1>6. VertexAt(c) = given.faces[f][k]
  <2>1. ((c - 1) % 3) + 1 = k
    BY <1>2, <1>4
  <2> QED BY <1>5, <2>1 DEF VertexAt
<1> QED BY <1>3, <1>5, <1>6 DEF c, n, Corners

(* Every corner is one of a face.                                          *)
LEMMA CornerIs ==
    ASSUME given \in Surfaces, NEW c \in Corners
    PROVE  /\ FaceOf(c) \in DOMAIN given.faces
           /\ \E k \in Place : c = 3 * (FaceOf(c) - 1) + k /\ VertexAt(c) = given.faces[FaceOf(c)][k]
           /\ VertexAt(c) \in 1..given.verts /\ Has(given.faces[FaceOf(c)], VertexAt(c))
<1> DEFINE n == Len(given.faces)
           f == FaceOf(c)
           k == ((c - 1) % 3) + 1
<1>1. n \in Nat /\ DOMAIN given.faces = 1..n /\ c \in 1..(3 * n)
  BY GivenIs, MeshIs DEF Corners
<1> HIDE DEF n
<1>2. /\ (c - 1) \div 3 \in Nat /\ (c - 1) % 3 \in 0..2
      /\ c - 1 = 3 * ((c - 1) \div 3) + ((c - 1) % 3)
  <2>1. c - 1 \in Nat
    BY <1>1
  <2>2. \A x \in Nat : x \div 3 \in Nat /\ x % 3 \in 0..2 /\ x = 3 * (x \div 3) + (x % 3)
    BY SMTT(30)
  <2> HIDE DEF f, k
  <2> QED BY <2>1, <2>2
<1> DEFINE d == (c - 1) \div 3
           r == (c - 1) % 3
<1>3. d \in Nat /\ r \in 0..2 /\ c - 1 = 3 * d + r /\ f = d + 1 /\ k = r + 1
  <2>1. d \in Nat /\ r \in 0..2 /\ c - 1 = 3 * d + r
    BY <1>2
  <2> HIDE DEF d, r
  <2> QED BY <2>1 DEF FaceOf, d, r
<1>31. VertexAt(c) = given.faces[f][k]
  BY DEF VertexAt
<1> HIDE DEF d, r, f, k
<1>4. f \in 1..n /\ k \in 1..3 /\ c = 3 * (f - 1) + k
  BY <1>1, <1>3
<1>5. k \in Place /\ f \in DOMAIN given.faces
  BY <1>1, <1>4 DEF Place
<1>6. given.faces[f] \in [Place -> 1..given.verts]
  BY <1>5, GivenIs, MeshIs
<1>7. VertexAt(c) \in 1..given.verts
  BY <1>31, <1>5, <1>6
<1>8. Has(given.faces[f], VertexAt(c))
  BY <1>31, <1>5 DEF Has
<1> QED BY <1>31, <1>4, <1>5, <1>7, <1>8 DEF f

(* A face has one corner at each of its vertices.                          *)
LEMMA CornerAtIs ==
    ASSUME given \in Surfaces, NEW f \in DOMAIN given.faces, NEW v, Has(given.faces[f], v)
    PROVE  /\ CornerAt(f, v) \in Corners /\ FaceOf(CornerAt(f, v)) = f
           /\ VertexAt(CornerAt(f, v)) = v
           /\ \A c \in Corners : FaceOf(c) = f /\ VertexAt(c) = v => c = CornerAt(f, v)
<1>1. \E c \in Corners : FaceOf(c) = f /\ VertexAt(c) = v
  <2>1. PICK k \in Place : given.faces[f][k] = v
    BY DEF Has
  <2> QED BY <2>1, CornerNumber
<1>2. ASSUME NEW c \in Corners, NEW d \in Corners,
             FaceOf(c) = f, FaceOf(d) = f, VertexAt(c) = v, VertexAt(d) = v
      PROVE  c = d
  <2>1. PICK k \in Place : c = 3 * (f - 1) + k /\ v = given.faces[f][k]
    BY <1>2, CornerIs
  <2>2. PICK j \in Place : d = 3 * (f - 1) + j /\ v = given.faces[f][j]
    BY <1>2, CornerIs
  <2>3. k = j
    BY <2>1, <2>2, GivenIs, MeshIs
  <2> QED BY <2>1, <2>2, <2>3
<1>3. CornerAt(f, v) \in Corners /\ FaceOf(CornerAt(f, v)) = f /\ VertexAt(CornerAt(f, v)) = v
  BY <1>1 DEF CornerAt
<1> QED BY <1>2, <1>3

(* Of a set of two naturals, the least and the least of the rest are both. *)
Lower(S) == CHOOSE x \in S : \A y \in S : x <= y

LEMMA PairIs ==
    ASSUME NEW S \in SUBSET Nat, IsFiniteSet(S), Cardinality(S) = 2
    PROVE  /\ Lower(S) \in S /\ Lower(S \ {Lower(S)}) \in S
           /\ Lower(S) # Lower(S \ {Lower(S)})
           /\ S = {Lower(S), Lower(S \ {Lower(S)})}
<1> DEFINE f == Lower(S)
           T == S \ {f}
           g == Lower(T)
<1>1. S # {}
  BY FS_EmptySet
<1>2. f \in S
  BY <1>1, LeastNumber DEF Lower
<1> HIDE DEF f
<1>3. IsFiniteSet(T) /\ Cardinality(T) = 1
  BY <1>2, FS_RemoveElement
<1>4. PICK x : T = {x}
  <2> HIDE DEF T
  <2> QED BY <1>3, FS_Singleton
<1>5. x \in Nat
  BY <1>4
<1> HIDE DEF T
<1>6. g = x
  BY <1>4, <1>5 DEF Lower
<1> HIDE DEF g
<1>7. g \in S /\ f # g /\ S = {f, g}
  BY <1>2, <1>4, <1>6 DEF T
<1> QED BY <1>2, <1>7 DEF f, T, g

(* A finite set of more than two has three different members.              *)
LEMMA ThreeIn ==
    ASSUME NEW S, IsFiniteSet(S), Cardinality(S) > 2
    PROVE  \E x, y, z \in S : x # y /\ x # z /\ y # z
<1>1. Cardinality(S) \in Nat
  BY FS_CardinalityType
<1>2. PICK x \in S : TRUE
  BY FS_EmptySet
<1> DEFINE T == S \ {x}
<1>3. IsFiniteSet(T) /\ Cardinality(T) > 1
  BY <1>1, FS_RemoveElement
<1>4. PICK y \in T : TRUE
  <2> HIDE DEF T
  <2>1. Cardinality(T) # 0
    BY <1>3, FS_CardinalityType
  <2> QED BY <2>1, FS_EmptySet
<1> DEFINE U == T \ {y}
<1>5. IsFiniteSet(U) /\ Cardinality(U) > 0
  <2> HIDE DEF T
  <2>1. Cardinality(T) \in Nat
    BY <1>3, FS_CardinalityType
  <2>2. IsFiniteSet(U) /\ Cardinality(U) = Cardinality(T) - 1
    BY <1>3, FS_RemoveElement
  <2> QED BY <1>3, <2>1, <2>2
<1>6. PICK z \in U : TRUE
  <2> HIDE DEF U
  <2>1. Cardinality(U) # 0
    BY <1>5, FS_CardinalityType
  <2> QED BY <2>1, FS_EmptySet
<1> QED BY <1>2, <1>4, <1>6

(* Edges that are left have a first one.                                   *)
LEMMA FirstIs ==
    ASSUME NEW S \in SUBSET (Nat \X Nat), S # {}
    PROVE  FirstEdge(S) \in S
<1> DEFINE A == {e[1] : e \in S}
<1>1. A \in SUBSET Nat /\ A # {}
  OBVIOUS
<1>2. PICK a \in A : \A x \in A : a <= x
  <2> HIDE DEF A
  <2> QED BY <1>1, LeastNumber
<1> DEFINE B == {b \in Nat : <<a, b>> \in S}
<1>3. B # {}
  <2>1. PICK e \in S : e[1] = a
    BY <1>2
  <2>2. e = <<e[1], e[2]>> /\ e[2] \in Nat
    OBVIOUS
  <2>3. e[2] \in B
    BY <2>1, <2>2
  <2> QED BY <2>3
<1>4. PICK b \in B : \A x \in B : b <= x
  <2>1. B \in SUBSET Nat
    OBVIOUS
  <2> HIDE DEF B
  <2> QED BY <1>3, <2>1, LeastNumber
<1>5. <<a, b>> \in S /\ a \in Nat /\ b \in Nat
  BY <1>1, <1>2, <1>4
<1>6. ASSUME NEW g \in S \ {<<a, b>>} PROVE Less(<<a, b>>, g)
  <2>1. g = <<g[1], g[2]>> /\ g[1] \in Nat /\ g[2] \in Nat
    OBVIOUS
  <2>2. g[1] \in A
    BY <2>1
  <2>3. a <= g[1]
    BY <1>2, <2>2
  <2>4. CASE g[1] = a
    <3>1. <<a, g[2]>> \in S /\ g[2] # b
      BY <2>1, <2>4
    <3>2. g[2] \in B
      BY <2>1, <3>1
    <3>3. b <= g[2]
      BY <1>4, <3>2
    <3>4. b < g[2]
      BY <1>5, <2>1, <3>1, <3>3
    <3> QED BY <2>4, <3>4 DEF Less
  <2>5. CASE g[1] # a
    <3>1. a < g[1]
      BY <1>5, <2>1, <2>3, <2>5
    <3> QED BY <3>1 DEF Less
  <2> QED BY <2>4, <2>5
<1> HIDE DEF A, B
<1>7. \E e \in S : \A g \in S \ {e} : Less(e, g)
  BY <1>5, <1>6
<1> QED BY <1>7 DEF FirstEdge

(* The sides of a triangle are all its pairs, one way or the other.        *)
LEMMA PairIsSide ==
    ASSUME NEW t, NEW i \in Place, NEW j \in Place, i # j
    PROVE  <<t[i], t[j]>> \in Sides(t) \/ <<t[j], t[i]>> \in Sides(t)
<1>1. Next3(1) = 2 /\ Next3(2) = 3 /\ Next3(3) = 1
  BY DEF Next3
<1>2. <<t[1], t[2]>> \in Sides(t) /\ <<t[2], t[3]>> \in Sides(t) /\ <<t[3], t[1]>> \in Sides(t)
  <2>1. 1 \in Place /\ 2 \in Place /\ 3 \in Place
    BY DEF Place
  <2>2. \A k \in Place : <<t[k], t[Next3(k)]>> \in Sides(t)
    BY DEF Sides
  <2> QED BY <1>1, <2>1, <2>2
<1>3. (i = 1 \/ i = 2 \/ i = 3) /\ (j = 1 \/ j = 2 \/ j = 3)
  BY DEF Place
<1> QED BY <1>2, <1>3

(* A side joins two corners that differ.                                   *)
LEMMA SideIsPair ==
    ASSUME NEW t, NEW s \in Sides(t)
    PROVE  \E i, j \in Place : i # j /\ s = <<t[i], t[j]>>
<1>1. PICK k \in Place : s = <<t[k], t[Next3(k)]>>
  BY DEF Sides
<1>2. Next3(k) \in Place /\ Next3(k) # k
  <2>1. Next3(1) = 2 /\ Next3(2) = 3 /\ Next3(3) = 1
    BY DEF Next3
  <2>2. k = 1 \/ k = 2 \/ k = 3
    BY DEF Place
  <2> QED BY <2>1, <2>2 DEF Place
<1> QED BY <1>1, <1>2

(* The ends of an edge in their order.                                     *)
LEMMA EdgeIs ==
    ASSUME NEW a \in Nat, NEW b \in Nat
    PROVE  /\ Edge(a, b) = <<Edge(a, b)[1], Edge(a, b)[2]>>
           /\ {Edge(a, b)[1], Edge(a, b)[2]} = {a, b}
           /\ Edge(a, b)[1] <= Edge(a, b)[2]
           /\ Edge(a, b) = Edge(b, a)
<1>1. CASE b < a
  BY <1>1 DEF Edge
<1>2. CASE ~(b < a)
  BY <1>2 DEF Edge
<1> QED BY <1>1, <1>2

(* Two vertices of a face are the ends of an edge.                         *)
LEMMA FaceEdge ==
    ASSUME NEW m, Valid(m), NEW f \in DOMAIN m.faces, NEW a, NEW b, a # b,
           Has(m.faces[f], a), Has(m.faces[f], b)
    PROVE  Edge(a, b) \in EdgesOf(m)
<1> DEFINE t == m.faces[f]
<1>1. PICK i \in Place : t[i] = a
  BY DEF Has
<1>2. PICK j \in Place : t[j] = b
  BY DEF Has
<1>3. t[i] \in Nat /\ t[j] \in Nat
  <2>1. t \in [Place -> 1..m.verts] /\ m.verts \in Nat
    BY MeshIs
  <2> QED BY <2>1
<1>4. \A s \in Sides(t) : Edge(s[1], s[2]) \in EdgesOf(m)
  BY DEF EdgesOf
<1>5. <<a, b>> \in Sides(t) \/ <<b, a>> \in Sides(t)
  BY <1>1, <1>2, PairIsSide
<1>6. Edge(a, b) = Edge(b, a)
  BY <1>1, <1>2, <1>3, EdgeIs
<1> QED BY <1>4, <1>5, <1>6

(* An edge has two ends, in order, and a face that has both.               *)
LEMMA EdgesAre ==
    ASSUME NEW m, Valid(m), NEW e \in EdgesOf(m)
    PROVE  /\ e = <<e[1], e[2]>> /\ e[1] \in 1..m.verts /\ e[2] \in 1..m.verts /\ e[1] < e[2]
           /\ e \in Nat \X Nat
           /\ \E f \in DOMAIN m.faces : Has(m.faces[f], e[1]) /\ Has(m.faces[f], e[2])
<1>1. PICK f \in DOMAIN m.faces : e \in {Edge(s[1], s[2]) : s \in Sides(m.faces[f])}
  BY DEF EdgesOf
<1>2. PICK s \in Sides(m.faces[f]) : e = Edge(s[1], s[2])
  BY <1>1
<1>3. PICK i, j \in Place : i # j /\ s = <<m.faces[f][i], m.faces[f][j]>>
  BY SideIsPair
<1> DEFINE a == m.faces[f][i]
           b == m.faces[f][j]
<1>4. /\ a \in 1..m.verts /\ b \in 1..m.verts /\ a # b /\ m.verts \in Nat
      /\ Has(m.faces[f], a) /\ Has(m.faces[f], b)
  <2>1. m.faces[f] \in [Place -> 1..m.verts] /\ a # b /\ m.verts \in Nat
    BY <1>3, MeshIs
  <2> QED BY <2>1 DEF Has
<1>5. e = Edge(a, b)
  BY <1>2, <1>3
<1> HIDE DEF a, b
<1>6. a \in Nat /\ b \in Nat
  BY <1>4
<1>7. e = <<e[1], e[2]>> /\ {e[1], e[2]} = {a, b} /\ e[1] <= e[2]
  BY <1>5, <1>6, EdgeIs
<1>8. e[1] \in 1..m.verts /\ e[2] \in 1..m.verts /\ e[1] # e[2]
      /\ Has(m.faces[f], e[1]) /\ Has(m.faces[f], e[2])
  BY <1>4, <1>7
<1>9. e[1] \in Nat /\ e[2] \in Nat
  BY <1>4, <1>8
<1>10. e[1] < e[2]
  BY <1>7, <1>8, <1>9
<1>11. e \in Nat \X Nat
  BY <1>7, <1>9
<1> QED BY <1>7, <1>8, <1>10, <1>11

(* The faces at an edge are among those of the mesh.                       *)
LEMMA FacesAre ==
    ASSUME NEW m, Valid(m), NEW e
    PROVE  /\ FacesAt(m, e) \subseteq DOMAIN m.faces /\ FacesAt(m, e) \in SUBSET Nat
           /\ IsFiniteSet(FacesAt(m, e)) /\ Count(m, e) \in Nat
<1>1. FacesAt(m, e) \subseteq DOMAIN m.faces
  BY DEF FacesAt
<1>2. DOMAIN m.faces = 1..Len(m.faces) /\ Len(m.faces) \in Nat
  BY MeshIs
<1>3. IsFiniteSet(1..Len(m.faces))
  BY <1>2, CountTo
<1>4. IsFiniteSet(FacesAt(m, e))
  BY <1>1, <1>2, <1>3, FS_Subset
<1> QED BY <1>1, <1>2, <1>4, FS_CardinalityType DEF Count

-----------------------------------------------------------------------------
(* Corners connected around a vertex.                                      *)

Manifolds == {e \in EdgesOf(given) : Manifold(e)}

(* An edge of two faces has one corner of each at either end.              *)
LEMMA UniteFaces ==
    ASSUME given \in Surfaces, NEW e \in Manifolds, NEW v \in {e[1], e[2]},
           NEW f, f = Lower(FacesAt(given, e)),
           NEW g, g = Lower(FacesAt(given, e) \ {f})
    PROVE  /\ f \in DOMAIN given.faces /\ g \in DOMAIN given.faces /\ FacesAt(given, e) = {f, g}
           /\ Has(given.faces[f], v) /\ Has(given.faces[g], v)
           /\ CornerAt(f, v) \in Corners /\ CornerAt(g, v) \in Corners
           /\ FaceOf(CornerAt(f, v)) = f /\ FaceOf(CornerAt(g, v)) = g
           /\ VertexAt(CornerAt(f, v)) = v /\ VertexAt(CornerAt(g, v)) = v
<1>1. FacesAt(given, e) \in SUBSET Nat /\ IsFiniteSet(FacesAt(given, e))
  BY GivenIs, FacesAre
<1>2. Cardinality(FacesAt(given, e)) = 2
  BY DEF Manifolds, Manifold, Count
<1>3. f \in FacesAt(given, e) /\ g \in FacesAt(given, e) /\ FacesAt(given, e) = {f, g}
  BY <1>1, <1>2, PairIs
<1>4. /\ f \in DOMAIN given.faces /\ g \in DOMAIN given.faces
      /\ Has(given.faces[f], v) /\ Has(given.faces[g], v)
  BY <1>3 DEF FacesAt
<1>5. CornerAt(f, v) \in Corners /\ FaceOf(CornerAt(f, v)) = f /\ VertexAt(CornerAt(f, v)) = v
  BY <1>4, CornerAtIs
<1>6. CornerAt(g, v) \in Corners /\ FaceOf(CornerAt(g, v)) = g /\ VertexAt(CornerAt(g, v)) = v
  BY <1>4, CornerAtIs
<1> QED BY <1>3, <1>4, <1>5, <1>6

(* A set of corners that holds what is linked to what it holds.            *)
Closed(S, v) == \A x \in S : \A y \in CornersOf(v) : Linked(x, y) => y \in S

LEMMA ConnectedIs ==
    ASSUME NEW c, NEW d
    PROVE  Connected(c, d) <=>
             \A S \in SUBSET CornersOf(VertexAt(c)) : c \in S /\ Closed(S, VertexAt(c)) => d \in S
  BY DEF Connected, Closed

(* Links run both ways.                                                    *)
LEMMA LinkedBack ==
    ASSUME NEW c, NEW d, VertexAt(c) = VertexAt(d), Linked(c, d)
    PROVE  Linked(d, c)
<1>1. PICK e \in EdgesOf(given) :
        /\ Count(given, e) = 2 /\ VertexAt(c) \in {e[1], e[2]}
        /\ {FaceOf(c), FaceOf(d)} = FacesAt(given, e)
  BY DEF Linked
<1>2. {FaceOf(d), FaceOf(c)} = FacesAt(given, e)
  BY <1>1
<1> QED BY <1>1, <1>2 DEF Linked

(* Connection is an equivalence, and holds between linked corners.         *)
LEMMA ConnectedSelf == \A c : Connected(c, c)
  BY ConnectedIs

LEMMA ConnectedLink ==
    ASSUME NEW c \in Corners, NEW d \in Corners, VertexAt(c) = VertexAt(d), Linked(c, d)
    PROVE  Connected(c, d)
<1>1. d \in CornersOf(VertexAt(c))
  BY DEF CornersOf
<1> QED BY <1>1, ConnectedIs DEF Closed

LEMMA ConnectedOn ==
    ASSUME NEW c, NEW d, NEW x, VertexAt(c) = VertexAt(d), Connected(c, d), Connected(d, x)
    PROVE  Connected(c, x)
<1>1. SUFFICES ASSUME NEW S \in SUBSET CornersOf(VertexAt(c)), c \in S, Closed(S, VertexAt(c))
               PROVE  x \in S
  BY ConnectedIs
<1>2. d \in S
  BY <1>1, ConnectedIs
<1> QED BY <1>1, <1>2, ConnectedIs

LEMMA ConnectedBack ==
    ASSUME NEW c \in Corners, NEW d \in Corners, VertexAt(c) = VertexAt(d), Connected(c, d)
    PROVE  Connected(d, c)
<1> DEFINE v == VertexAt(c)
<1>1. SUFFICES ASSUME NEW S \in SUBSET CornersOf(v), d \in S, Closed(S, v), c \notin S
               PROVE  FALSE
  BY ConnectedIs
<1> DEFINE T == CornersOf(v) \ S
<1>2. c \in T /\ T \in SUBSET CornersOf(v)
  BY <1>1 DEF CornersOf
<1>3. ASSUME NEW x \in T, NEW y \in CornersOf(v), Linked(x, y), y \in S PROVE FALSE
  <2>1. VertexAt(x) = v /\ VertexAt(y) = v /\ x \in CornersOf(v)
    BY DEF CornersOf
  <2>2. Linked(y, x)
    BY <1>3, <2>1, LinkedBack
  <2>3. x \in S
    BY <1>1, <1>3, <2>1, <2>2 DEF Closed
  <2> QED BY <2>3
<1>4. Closed(T, v)
  BY <1>3 DEF Closed
<1>5. d \in T
  <2> HIDE DEF T
  <2> QED BY <1>2, <1>4, ConnectedIs
<1> QED BY <1>1, <1>5

(* Corners of one class are connected around one vertex.                   *)
Sound(F) ==
    /\ Tree(F, Corners)
    /\ \A c, d \in Corners :
         Root(F.up, c) = Root(F.up, d) => VertexAt(c) = VertexAt(d) /\ Connected(c, d)

LEMMA UniteKeeps ==
    ASSUME given \in Surfaces, NEW F, Sound(F), NEW x \in Corners, NEW y \in Corners,
           VertexAt(x) = VertexAt(y), Connected(x, y)
    PROVE  LET G == United(F, x, y)
           IN  /\ Sound(G) /\ Root(G.up, x) = Root(G.up, y)
               /\ \A a, b \in Corners :
                    Root(F.up, a) = Root(F.up, b) => Root(G.up, a) = Root(G.up, b)
<1> DEFINE G == United(F, x, y)
<1>1. /\ Tree(G, Corners)
      /\ \A a, b \in Corners :
           Root(G.up, a) = Root(G.up, b) <=>
             \/ Root(F.up, a) = Root(F.up, b)
             \/ Root(F.up, a) = Root(F.up, x) /\ Root(F.up, b) = Root(F.up, y)
             \/ Root(F.up, a) = Root(F.up, y) /\ Root(F.up, b) = Root(F.up, x)
  BY UnitedIs DEF Sound
<1> HIDE DEF G
<1>2. \A a, b \in Corners :
        Root(F.up, a) = Root(F.up, b) => VertexAt(a) = VertexAt(b) /\ Connected(a, b)
  BY DEF Sound
<1>3. Connected(y, x)
  BY ConnectedBack
<1>4. ASSUME NEW a \in Corners, NEW b \in Corners, Root(G.up, a) = Root(G.up, b)
      PROVE  VertexAt(a) = VertexAt(b) /\ Connected(a, b)
  <2>1. CASE Root(F.up, a) = Root(F.up, b)
    BY <1>2, <2>1
  <2>2. CASE Root(F.up, a) = Root(F.up, x) /\ Root(F.up, b) = Root(F.up, y)
    <3>1. VertexAt(a) = VertexAt(x) /\ Connected(a, x) /\ VertexAt(y) = VertexAt(b) /\ Connected(y, b)
      BY <1>2, <2>2
    <3>2. Connected(x, b)
      BY <3>1, ConnectedOn
    <3> QED BY <3>1, <3>2, ConnectedOn
  <2>3. CASE Root(F.up, a) = Root(F.up, y) /\ Root(F.up, b) = Root(F.up, x)
    <3>1. VertexAt(a) = VertexAt(y) /\ Connected(a, y) /\ VertexAt(x) = VertexAt(b) /\ Connected(x, b)
      BY <1>2, <2>3
    <3>2. Connected(y, b)
      BY <1>3, <3>1, ConnectedOn
    <3> QED BY <3>1, <3>2, ConnectedOn
  <2> QED BY <1>1, <1>4, <2>1, <2>2, <2>3
<1>5. Sound(G)
  BY <1>1, <1>4 DEF Sound
<1> QED BY <1>1, <1>5 DEF G

(* The corners of the two faces of an edge that is done are in one class.  *)
Tied(F, T) ==
    \A e \in Manifolds \ T : \A c, d \in Corners :
        /\ VertexAt(c) = VertexAt(d) /\ VertexAt(c) \in {e[1], e[2]}
        /\ {FaceOf(c), FaceOf(d)} = FacesAt(given, e)
        => Root(F.up, c) = Root(F.up, d)

(* One more edge is done.                                                  *)
LEMMA UniteStep ==
    ASSUME given \in Surfaces, Sound(forest), Tied(forest, todo), todo \subseteq Manifolds,
           todo # {}, Unite
    PROVE  Sound(forest') /\ Tied(forest', todo') /\ todo' \subseteq Manifolds
<1> DEFINE e == FirstEdge(todo)
           f == Lower(FacesAt(given, e))
           g == Lower(FacesAt(given, e) \ {f})
           F1 == United(forest, CornerAt(f, e[1]), CornerAt(g, e[1]))
           F2 == United(F1, CornerAt(f, e[2]), CornerAt(g, e[2]))
<1>1. e \in todo /\ e \in Manifolds
  <2>1. \A x \in todo : x \in Nat \X Nat
    BY GivenIs, EdgesAre DEF Manifolds
  <2> QED BY <2>1, FirstIs
<1>2. forest' = F2 /\ todo' = todo \ {e}
  BY DEF Unite, Lower
<1> HIDE DEF e, f, g
<1>3. \A v \in {e[1], e[2]} :
        /\ FacesAt(given, e) = {f, g} /\ Has(given.faces[f], v) /\ Has(given.faces[g], v)
        /\ f \in DOMAIN given.faces /\ g \in DOMAIN given.faces
        /\ CornerAt(f, v) \in Corners /\ CornerAt(g, v) \in Corners
        /\ FaceOf(CornerAt(f, v)) = f /\ FaceOf(CornerAt(g, v)) = g
        /\ VertexAt(CornerAt(f, v)) = v /\ VertexAt(CornerAt(g, v)) = v
  BY <1>1, UniteFaces DEF f, g
<1>4. ASSUME NEW v \in {e[1], e[2]} PROVE Connected(CornerAt(f, v), CornerAt(g, v))
  <2>1. e \in EdgesOf(given) /\ Count(given, e) = 2
    BY <1>1 DEF Manifolds, Manifold
  <2>2. Linked(CornerAt(f, v), CornerAt(g, v))
    BY <1>3, <2>1 DEF Linked
  <2> QED BY <1>3, <2>2, ConnectedLink
<1>5. /\ Sound(F1) /\ Root(F1.up, CornerAt(f, e[1])) = Root(F1.up, CornerAt(g, e[1]))
      /\ \A a, b \in Corners : Root(forest.up, a) = Root(forest.up, b) => Root(F1.up, a) = Root(F1.up, b)
  BY <1>3, <1>4, UniteKeeps
<1> HIDE DEF F1
<1>6. /\ Sound(F2) /\ Root(F2.up, CornerAt(f, e[2])) = Root(F2.up, CornerAt(g, e[2]))
      /\ \A a, b \in Corners : Root(F1.up, a) = Root(F1.up, b) => Root(F2.up, a) = Root(F2.up, b)
  BY <1>3, <1>4, <1>5, UniteKeeps
<1> HIDE DEF F2
<1>7. ASSUME NEW x \in Manifolds \ (todo \ {e}), NEW c \in Corners, NEW d \in Corners,
             VertexAt(c) = VertexAt(d), VertexAt(c) \in {x[1], x[2]},
             {FaceOf(c), FaceOf(d)} = FacesAt(given, x)
      PROVE  Root(F2.up, c) = Root(F2.up, d)
  <2>1. CASE x # e
    <3>1. Root(forest.up, c) = Root(forest.up, d)
      BY <1>7, <2>1 DEF Tied
    <3> QED BY <1>5, <1>6, <3>1
  <2>2. CASE x = e
    <3> DEFINE v == VertexAt(c)
    <3>1. v \in {e[1], e[2]} /\ {FaceOf(c), FaceOf(d)} = {f, g}
      BY <1>3, <1>7, <2>2
    <3>2. \A y \in Corners : /\ FaceOf(y) = f /\ VertexAt(y) = v => y = CornerAt(f, v)
                             /\ FaceOf(y) = g /\ VertexAt(y) = v => y = CornerAt(g, v)
      BY <1>3, <3>1, CornerAtIs
    <3>3. \/ c = CornerAt(f, v) /\ d = CornerAt(g, v)
          \/ c = CornerAt(g, v) /\ d = CornerAt(f, v)
      BY <1>7, <3>1, <3>2
    <3>4. Root(F2.up, CornerAt(f, v)) = Root(F2.up, CornerAt(g, v))
      BY <1>3, <1>5, <1>6, <3>1
    <3> QED BY <3>3, <3>4
  <2> QED BY <2>1, <2>2
<1>8. Tied(F2, todo \ {e})
  BY <1>7 DEF Tied
<1> QED BY <1>2, <1>6, <1>8

(* When all are done, connected corners are in one class.                  *)
LEMMA ClassIs ==
    ASSUME given \in Surfaces, Sound(forest), Tied(forest, {}),
           NEW c \in Corners, NEW d \in Corners, VertexAt(c) = VertexAt(d)
    PROVE  Root(forest.up, c) = Root(forest.up, d) <=> Connected(c, d)
<1>1. ASSUME Connected(c, d) PROVE Root(forest.up, c) = Root(forest.up, d)
  <2> DEFINE v == VertexAt(c)
             S == {x \in CornersOf(v) : Root(forest.up, c) = Root(forest.up, x)}
  <2>1. c \in S /\ S \in SUBSET CornersOf(v)
    BY DEF CornersOf
  <2>2. ASSUME NEW x \in S, NEW y \in CornersOf(v), Linked(x, y) PROVE y \in S
    <3>1. x \in Corners /\ y \in Corners /\ VertexAt(x) = v /\ VertexAt(y) = v
      BY DEF CornersOf
    <3>2. PICK e \in EdgesOf(given) : /\ Count(given, e) = 2 /\ VertexAt(x) \in {e[1], e[2]}
                                      /\ {FaceOf(x), FaceOf(y)} = FacesAt(given, e)
      BY <2>2 DEF Linked
    <3>3. e \in Manifolds
      BY <3>2 DEF Manifolds, Manifold
    <3>4. Root(forest.up, x) = Root(forest.up, y)
      BY <3>1, <3>2, <3>3 DEF Tied
    <3> QED BY <3>4
  <2>3. Closed(S, v)
    BY <2>2 DEF Closed
  <2> HIDE DEF S
  <2>4. d \in S
    BY <1>1, <2>1, <2>3, ConnectedIs
  <2> QED BY <2>4 DEF S
<1>2. Root(forest.up, c) = Root(forest.up, d) => Connected(c, d)
  BY DEF Sound
<1> QED BY <1>1, <1>2

-----------------------------------------------------------------------------
(* A vertex for every class.                                               *)

Key(c) == <<VertexAt(c), Root(forest.up, c)>>

(* The vertex of a class is the one its corners had, or a copy of that.    *)
Named(k) ==
    \/ fans[k] = k[1]
    \/ \E i \in DOMAIN copies : fans[k] = given.verts + i /\ copies[i] = k[1]

Coloured ==
    /\ corners \in Seq(Nat) /\ copies \in Seq(1..given.verts)
    /\ DOMAIN fans = {Key(c) : c \in DOMAIN corners}
    /\ \A c \in DOMAIN corners : corners[c] = fans[Key(c)]
    /\ \A k \in DOMAIN fans : fans[k] \in Nat /\ Named(k)
    /\ \A k, l \in DOMAIN fans : fans[k] = fans[l] => k = l

(* One more corner has the vertex of its class.                            *)
LEMMA SplitStep ==
    ASSUME given \in Surfaces, Sound(forest), Coloured, Len(corners) < 3 * Len(given.faces), Split
    PROVE  /\ Sound(forest') /\ Coloured' /\ Len(corners') = Len(corners) + 1
           /\ \A c \in Corners : Root(forest'.up, c) = Root(forest.up, c)
<1> DEFINE n == Len(corners)
           c == n + 1
           key == <<VertexAt(c), Root(forest.up, c)>>
           seen == \E k \in DOMAIN fans : k[1] = VertexAt(c)
           vertex == IF key \in DOMAIN fans THEN fans[key]
                     ELSE IF seen THEN NewVertex ELSE VertexAt(c)
<1>1. n \in Nat /\ DOMAIN corners = 1..n /\ c \in Corners
  <2>1. n \in Nat /\ DOMAIN corners = 1..n /\ Len(given.faces) \in Nat
    BY GivenIs, MeshIs DEF Coloured
  <2> QED BY <2>1 DEF Corners
<1>2. /\ corners' = Append(corners, vertex)
      /\ fans' = [k \in DOMAIN fans \cup {key} |-> IF k = key THEN vertex ELSE fans[k]]
      /\ copies' = IF key \notin DOMAIN fans /\ seen THEN Append(copies, VertexAt(c)) ELSE copies
      /\ forest' = [forest EXCEPT !.up = Found(@, c)]
      /\ given' = given
  BY DEF Split
<1>3. Sound(forest') /\ \A x \in Corners : Root(forest'.up, x) = Root(forest.up, x)
  <2> HIDE DEF c
  <2> DEFINE u == Found(forest.up, c)
  <2>1. PICK R \in Nat : Climbs(forest.up, forest.rank, Corners, R)
    BY DEF Sound, Tree
  <2>2. Climbs(u, forest.rank, Corners, R) /\ \A z \in Corners : Root(u, z) = Root(forest.up, z)
    BY <1>1, <2>1, FoundIs
  <2>3. forest' = [up |-> u, rank |-> forest.rank]
    BY <1>2 DEF Sound, Tree
  <2> HIDE DEF u
  <2>4. Tree(forest', Corners) /\ forest'.up = u
    BY <2>2, <2>3 DEF Tree
  <2> QED BY <2>2, <2>4 DEF Sound
<1>4. \A x \in Corners : Key(x)' = Key(x)
  BY <1>2, <1>3 DEF Key, VertexAt, FaceOf
<1>5. VertexAt(c) \in 1..given.verts /\ given.verts \in Nat
  BY <1>1, CornerIs, GivenIs, MeshIs
<1>6. Key(c) = key
  BY DEF Key
<1>7. copies \in Seq(1..given.verts) /\ Len(copies) \in Nat /\ DOMAIN copies = 1..Len(copies)
  BY DEF Coloured
<1>8. \A k \in DOMAIN fans : /\ fans[k] \in Nat /\ Named(k)
                             /\ k[1] \in 1..given.verts
  <2>1. \A x \in DOMAIN corners : x \in Corners
    BY <1>1 DEF Corners
  <2>2. \A x \in DOMAIN corners : Key(x)[1] \in 1..given.verts
    BY <2>1, CornerIs DEF Key
  <2> QED BY <2>2 DEF Coloured
<1> HIDE DEF c, key, seen
<1>9. /\ vertex \in Nat
      /\ key \in DOMAIN fans \/ \A k \in DOMAIN fans : fans[k] # vertex
  <2>1. CASE key \in DOMAIN fans
    BY <1>8, <2>1
  <2>2. CASE key \notin DOMAIN fans /\ seen
    <3>1. vertex = given.verts + Len(copies) + 1
      BY <2>2 DEF NewVertex
    <3>2. ASSUME NEW k \in DOMAIN fans PROVE fans[k] <= given.verts + Len(copies)
      <4>1. CASE fans[k] = k[1]
        BY <1>5, <1>7, <1>8, <4>1
      <4>2. CASE \E i \in DOMAIN copies : fans[k] = given.verts + i /\ copies[i] = k[1]
        BY <1>5, <1>7, <4>2
      <4> QED BY <1>8, <4>1, <4>2 DEF Named
    <3> HIDE DEF vertex
    <3>3. \A k \in DOMAIN fans : fans[k] # vertex
      BY <1>5, <1>7, <1>8, <3>1, <3>2
    <3> QED BY <1>5, <1>7, <3>1, <3>3
  <2>3. CASE key \notin DOMAIN fans /\ ~seen
    <3>1. vertex = VertexAt(c)
      BY <2>3
    <3> HIDE DEF vertex
    <3>2. ASSUME NEW k \in DOMAIN fans, fans[k] = vertex PROVE FALSE
      <4>1. k[1] # VertexAt(c)
        BY <2>3 DEF seen
      <4>2. PICK i \in DOMAIN copies : fans[k] = given.verts + i
        BY <1>8, <3>1, <3>2, <4>1 DEF Named
      <4> QED BY <1>5, <1>7, <3>1, <3>2, <4>2
    <3> QED BY <1>5, <3>1, <3>2
  <2> QED BY <2>1, <2>2, <2>3
<1>10. /\ DOMAIN fans' = DOMAIN fans \cup {key} /\ fans'[key] = vertex
       /\ \A k \in DOMAIN fans : fans'[k] = fans[k]
  <2> HIDE DEF vertex
  <2>1. DOMAIN fans' = DOMAIN fans \cup {key} /\ fans'[key] = vertex
        /\ \A k \in DOMAIN fans : k # key => fans'[k] = fans[k]
    BY <1>2
  <2>2. key \in DOMAIN fans => vertex = fans[key]
    BY DEF vertex
  <2> QED BY <2>1, <2>2
<1>11. /\ copies' \in Seq(1..given.verts) /\ \A i \in DOMAIN copies : i \in DOMAIN copies' /\ copies'[i] = copies[i]
  <2>1. CASE copies' = copies
    BY <1>7, <2>1
  <2>2. CASE copies' = Append(copies, VertexAt(c))
    BY <1>5, <1>7, <2>2
  <2> QED BY <1>2, <2>1, <2>2
<1>12. key[1] = VertexAt(c)
  BY DEF key
<1> DEFINE NamedNow(k) == \/ fans'[k] = k[1]
                         \/ \E i \in DOMAIN copies' : fans'[k] = given.verts + i /\ copies'[i] = k[1]
<1>13. \A k \in DOMAIN fans' : fans'[k] \in Nat /\ NamedNow(k)
  <2>1. ASSUME NEW k \in DOMAIN fans PROVE fans'[k] \in Nat /\ NamedNow(k)
    <3>1. CASE fans[k] = k[1]
      BY <1>8, <1>10, <3>1
    <3>2. CASE \E i \in DOMAIN copies : fans[k] = given.verts + i /\ copies[i] = k[1]
      BY <1>8, <1>10, <1>11, <3>2
    <3> QED BY <1>8, <3>1, <3>2 DEF Named
  <2>2. ASSUME key \notin DOMAIN fans PROVE fans'[key] \in Nat /\ NamedNow(key)
    <3>1. CASE seen
      <4>1. vertex = given.verts + (Len(copies) + 1)
        BY <1>5, <1>7, <2>2, <3>1 DEF NewVertex
      <4>2. copies' = Append(copies, VertexAt(c))
        BY <1>2, <2>2, <3>1
      <4> HIDE DEF vertex
      <4>3. Len(copies) + 1 \in DOMAIN copies' /\ copies'[Len(copies) + 1] = VertexAt(c)
        BY <1>5, <1>7, <4>2
      <4> QED BY <1>9, <1>10, <1>12, <4>1, <4>3
    <3>2. CASE ~seen
      <4>1. vertex = VertexAt(c)
        BY <2>2, <3>2
      <4> HIDE DEF vertex
      <4> QED BY <1>9, <1>10, <1>12, <4>1
    <3> QED BY <3>1, <3>2
  <2> HIDE DEF NamedNow
  <2> QED BY <1>10, <2>1, <2>2
<1> HIDE DEF vertex
<1>14. \A k, l \in DOMAIN fans' : fans'[k] = fans'[l] => k = l
  <2>1. \A k, l \in DOMAIN fans : fans[k] = fans[l] => k = l
    BY DEF Coloured
  <2> QED BY <1>9, <1>10, <2>1
<1>15. /\ corners' \in Seq(Nat) /\ Len(corners') = n + 1 /\ DOMAIN corners' = 1..(n + 1)
       /\ corners'[n + 1] = vertex /\ \A x \in 1..n : corners'[x] = corners[x]
  <2>1. corners \in Seq(Nat)
    BY DEF Coloured
  <2> QED BY <1>2, <1>9, <2>1
<1>16. \A x \in DOMAIN corners' : x \in Corners /\ (x \in 1..n \/ x = c)
  <2>1. Len(given.faces) \in Nat
    BY GivenIs, MeshIs
  <2> QED BY <1>1, <1>15, <2>1 DEF Corners, c
<1>17. DOMAIN fans' = {Key(x)' : x \in DOMAIN corners'}
  <2>1. DOMAIN fans = {Key(x) : x \in 1..n}
    BY <1>1 DEF Coloured
  <2>2. \A x \in 1..n : x \in DOMAIN corners' /\ x \in Corners
    BY <1>1, <1>15, <1>16
  <2>3. c \in DOMAIN corners'
    BY <1>1, <1>15 DEF c
  <2>4. {Key(x)' : x \in DOMAIN corners'} = {Key(x) : x \in DOMAIN corners'}
    BY <1>4, <1>16
  <2>5. {Key(x) : x \in DOMAIN corners'} = {Key(x) : x \in 1..n} \cup {Key(c)}
    BY <1>16, <2>2, <2>3
  <2> QED BY <1>6, <1>10, <2>1, <2>4, <2>5
<1>18. \A x \in DOMAIN corners' : corners'[x] = fans'[Key(x)']
  <2> SUFFICES ASSUME NEW x \in DOMAIN corners' PROVE corners'[x] = fans'[Key(x)']
    OBVIOUS
  <2>1. Key(x)' = Key(x)
    BY <1>4, <1>16
  <2>2. CASE x \in 1..n
    <3>1. corners[x] = fans[Key(x)] /\ Key(x) \in DOMAIN fans
      BY <1>1, <2>2 DEF Coloured
    <3> QED BY <1>10, <1>15, <2>1, <2>2, <3>1
  <2>3. CASE x = c
    BY <1>6, <1>10, <1>15, <2>1, <2>3 DEF c
  <2> QED BY <1>16, <2>2, <2>3
<1>19. Coloured'
  <2>1. \A k \in DOMAIN fans' : fans'[k] \in Nat /\ Named(k)'
    BY <1>2, <1>13 DEF Named
  <2> QED BY <1>2, <1>11, <1>14, <1>15, <1>17, <1>18, <2>1 DEF Coloured
<1> QED BY <1>3, <1>15, <1>19 DEF n

-----------------------------------------------------------------------------
(* Chains of linked corners.                                               *)

(* Links L between the corners K run both ways, and are two at most.       *)
BothWays(K, L) == \A x, y \in K : <<x, y>> \in L => <<y, x>> \in L
NoForks(K, L) ==
    \A x, y, z, w \in K :
      <<x, y>> \in L /\ <<x, z>> \in L /\ <<x, w>> \in L => y = z \/ y = w \/ z = w

(* n corners from a on, each linked to the next.                           *)
IsChain(s, n, K, L, a) ==
    /\ n \in Nat \ {0} /\ s \in [1..n -> K] /\ s[1] = a
    /\ \A i, j \in 1..n : s[i] = s[j] => i = j
    /\ \A i \in 1..(n - 1) : <<s[i], s[i + 1]>> \in L

(* No chain is longer than there are corners.                              *)
LEMMA ChainsEnd ==
    ASSUME NEW K, IsFiniteSet(K), NEW L, NEW a, NEW s, NEW n, IsChain(s, n, K, L, a)
    PROVE  Cardinality(K) \in Nat /\ n <= Cardinality(K)
<1>1. n \in Nat /\ s \in [1..n -> K] /\ \A i, j \in 1..n : s[i] = s[j] => i = j
  BY DEF IsChain
<1>2. s \in Injection(1..n, K)
  BY <1>1 DEF Injection, IsInjective
<1>3. Cardinality(1..n) <= Cardinality(K) /\ IsFiniteSet(1..n)
  BY <1>2, FS_Injection
<1> QED BY <1>1, <1>3, CountTo, FS_CardinalityType

(* So one of the chains from a corner goes on to no other.                 *)
LEMMA LongestChain ==
    ASSUME NEW K, IsFiniteSet(K), NEW L, NEW a \in K
    PROVE  \E n, s : /\ IsChain(s, n, K, L, a)
                     /\ \A m, t : IsChain(t, m, K, L, a) => m <= n
<1> DEFINE N == Cardinality(K)
           D == {d \in Nat : \E s : IsChain(s, N - d, K, L, a)}
<1>1. IsChain([i \in 1..1 |-> a], 1, K, L, a)
  BY DEF IsChain
<1>2. N \in Nat /\ 1 <= N
  BY <1>1, ChainsEnd
<1>3. ASSUME NEW m, NEW t, IsChain(t, m, K, L, a) PROVE N - m \in D /\ m \in Nat
  <2>1. m \in Nat /\ m <= N
    BY <1>3, ChainsEnd DEF IsChain
  <2> HIDE DEF N
  <2>2. N - m \in Nat /\ N - (N - m) = m
    BY <1>2, <2>1
  <2>3. IsChain(t, N - (N - m), K, L, a)
    BY <1>3, <2>2
  <2> QED BY <2>1, <2>2, <2>3
<1>4. N - 1 \in D
  BY <1>1, <1>3
<1> HIDE DEF N
<1>5. PICK d \in D : \A x \in D : d <= x
  <2>1. D \in SUBSET Nat /\ D # {}
    BY <1>4
  <2> HIDE DEF D
  <2> QED BY <2>1, LeastNumber
<1>6. PICK s : IsChain(s, N - d, K, L, a)
  BY <1>5
<1>7. ASSUME NEW m, NEW t, IsChain(t, m, K, L, a) PROVE m <= N - d
  <2>1. d <= N - m /\ d \in Nat /\ m \in Nat
    BY <1>3, <1>5, <1>7
  <2> QED BY <1>2, <2>1
<1> QED BY <1>6, <1>7

(* A chain that ends at a corner with a new neighbour goes on to it.       *)
LEMMA ChainOn ==
    ASSUME NEW K, NEW L, NEW a, NEW s, NEW n, IsChain(s, n, K, L, a),
           NEW y \in K, <<s[n], y>> \in L, \A i \in 1..n : s[i] # y
    PROVE  \E t : IsChain(t, n + 1, K, L, a)
<1> DEFINE t == [i \in 1..(n + 1) |-> IF i = n + 1 THEN y ELSE s[i]]
<1>1. /\ n \in Nat /\ n > 0 /\ s \in [1..n -> K] /\ s[1] = a
      /\ \A i, j \in 1..n : s[i] = s[j] => i = j
      /\ \A i \in 1..(n - 1) : <<s[i], s[i + 1]>> \in L
  BY DEF IsChain
<1>2. t[n + 1] = y /\ \A i \in 1..n : t[i] = s[i]
  BY <1>1
<1>3. t \in [1..(n + 1) -> K]
  BY <1>1
<1> HIDE DEF t
<1>4. ASSUME NEW i \in 1..(n + 1), NEW j \in 1..(n + 1), t[i] = t[j] PROVE i = j
  <2>1. (i \in 1..n \/ i = n + 1) /\ (j \in 1..n \/ j = n + 1)
    BY <1>1
  <2> QED BY <1>1, <1>2, <1>4, <2>1
<1>5. ASSUME NEW i \in 1..n PROVE <<t[i], t[i + 1]>> \in L
  <2>1. CASE i = n
    BY <1>1, <1>2, <2>1
  <2>2. CASE i # n
    <3>1. i \in 1..(n - 1) /\ i + 1 \in 1..n
      BY <1>1, <2>2
    <3> QED BY <1>1, <1>2, <3>1
  <2> QED BY <2>1, <2>2
<1>6. t[1] = a /\ n + 1 \in Nat \ {0} /\ (n + 1) - 1 = n
  BY <1>1, <1>2
<1>7. IsChain(t, n + 1, K, L, a)
  BY <1>3, <1>4, <1>5, <1>6 DEF IsChain
<1> QED BY <1>7

(* Inside a chain a corner has two neighbours.                             *)
Inside(s, i, n, K, L) ==
    /\ s[i] \in K
    /\ \E p, q \in K : /\ p # q /\ <<s[i], p>> \in L /\ <<s[i], q>> \in L
                       /\ \E j \in 1..n : p = s[j]
                       /\ \E j \in 1..n : q = s[j]

LEMMA ChainMiddle ==
    ASSUME NEW K, NEW L, NEW a, NEW s, NEW n, IsChain(s, n, K, L, a),
           BothWays(K, L), NEW i \in 1..n, i # 1, i # n
    PROVE  Inside(s, i, n, K, L)
<1>1. /\ n \in Nat /\ n > 0 /\ s \in [1..n -> K]
      /\ \A x, y \in 1..n : s[x] = s[y] => x = y
      /\ \A x \in 1..(n - 1) : <<s[x], s[x + 1]>> \in L
  BY DEF IsChain
<1> DEFINE p == s[i - 1]
           q == s[i + 1]
<1>2. /\ i \in 1..(n - 1) /\ i - 1 \in 1..(n - 1) /\ (i - 1) + 1 = i
      /\ i - 1 \in 1..n /\ i + 1 \in 1..n /\ i - 1 # i + 1
  BY <1>1
<1>3. s[i] \in K /\ p \in K /\ q \in K /\ p # q
  BY <1>1, <1>2
<1>4. <<p, s[i]>> \in L /\ <<s[i], q>> \in L
  BY <1>1, <1>2
<1>5. (\E j \in 1..n : p = s[j]) /\ (\E j \in 1..n : q = s[j])
  BY <1>2
<1> HIDE DEF p, q
<1>6. <<s[i], p>> \in L
  BY <1>3, <1>4 DEF BothWays
<1> QED BY <1>3, <1>4, <1>5, <1>6 DEF Inside

(* Where no corner is linked to three, no three that are linked to one or  *)
(* none are connected: the chain from the first ends at the second.        *)
LEMMA TwoEnds ==
    ASSUME NEW K, IsFiniteSet(K), NEW L, BothWays(K, L), NoForks(K, L),
           NEW a \in K, NEW b \in K, NEW c \in K, a # b, a # c, b # c,
           \A x \in {a, b, c} : \A y, z \in K : <<x, y>> \in L /\ <<x, z>> \in L => y = z,
           \A S \in SUBSET K :
             a \in S /\ (\A x \in S : \A y \in K : <<x, y>> \in L => y \in S) => b \in S /\ c \in S
    PROVE  FALSE
<1>1. PICK n, s : /\ IsChain(s, n, K, L, a)
                  /\ \A m, t : IsChain(t, m, K, L, a) => m <= n
  BY LongestChain
<1>2. /\ n \in Nat /\ n > 0 /\ s \in [1..n -> K] /\ s[1] = a
      /\ \A i, j \in 1..n : s[i] = s[j] => i = j
      /\ \A i \in 1..(n - 1) : <<s[i], s[i + 1]>> \in L
  BY <1>1 DEF IsChain
<1>3. ASSUME NEW i \in 1..n, i # 1, i # n
      PROVE  Inside(s, i, n, K, L)
  BY <1>1, <1>3, ChainMiddle
<1> DEFINE S == {s[i] : i \in 1..n}
<1>4. ASSUME NEW i \in 1..n, NEW y \in K, <<s[i], y>> \in L PROVE y \in S
  <2>1. CASE i = n
    <3>1. SUFFICES ASSUME y \notin S PROVE FALSE
      OBVIOUS
    <3>2. \E t : IsChain(t, n + 1, K, L, a)
      BY <1>1, <1>4, <2>1, <3>1, ChainOn
    <3>3. n + 1 <= n
      BY <1>1, <3>2
    <3> QED BY <1>2, <3>3
  <2>2. CASE i = 1 /\ i # n
    <3>1. 1 \in 1..(n - 1) /\ 2 \in 1..n /\ 1 + 1 = 2
      BY <1>2, <2>2
    <3>2. <<a, s[2]>> \in L /\ s[2] \in K
      BY <1>2, <3>1
    <3>3. y = s[2]
      BY <1>2, <1>4, <2>2, <3>2
    <3> QED BY <3>1, <3>3
  <2>3. CASE i # 1 /\ i # n
    <3>1. PICK p, q \in K : /\ p # q /\ <<s[i], p>> \in L /\ <<s[i], q>> \in L
                            /\ \E j \in 1..n : p = s[j]
                            /\ \E j \in 1..n : q = s[j]
      BY <1>3, <2>3 DEF Inside
    <3>2. s[i] \in K /\ p \in S /\ q \in S
      BY <1>3, <2>3, <3>1 DEF Inside
    <3> HIDE DEF S
    <3>3. y = p \/ y = q
      BY <1>4, <3>1, <3>2 DEF NoForks
    <3> QED BY <3>2, <3>3
  <2> QED BY <2>1, <2>2, <2>3
<1>5. a \in S /\ S \in SUBSET K
  BY <1>2
<1>6. b \in S /\ c \in S
  <2>1. \A x \in S : \A y \in K : <<x, y>> \in L => y \in S
    BY <1>4
  <2> HIDE DEF S
  <2> QED BY <1>5, <2>1
<1>7. PICK i \in 1..n : s[i] = b
  BY <1>6
<1>8. PICK j \in 1..n : s[j] = c
  BY <1>6
<1>9. i # 1 /\ j # 1 /\ i # j
  BY <1>2, <1>7, <1>8
<1> HIDE DEF S
<1>10. i = n
  <2>1. SUFFICES ASSUME i # n PROVE FALSE
    OBVIOUS
  <2>2. PICK p, q \in K : p # q /\ <<b, p>> \in L /\ <<b, q>> \in L
    BY <1>3, <1>7, <1>9, <2>1 DEF Inside
  <2> QED BY <2>2
<1>11. j = n
  <2>1. SUFFICES ASSUME j # n PROVE FALSE
    OBVIOUS
  <2>2. PICK p, q \in K : p # q /\ <<c, p>> \in L /\ <<c, q>> \in L
    BY <1>3, <1>8, <1>9, <2>1 DEF Inside
  <2> QED BY <2>2
<1> QED BY <1>9, <1>10, <1>11

-----------------------------------------------------------------------------
(* What a corner is linked to.                                             *)

(* The corner d is across the edge from v to w, at the face of c.          *)
Across(c, d, v, w) ==
    /\ Has(given.faces[FaceOf(c)], w) /\ w # v
    /\ Count(given, Edge(v, w)) = 2
    /\ FacesAt(given, Edge(v, w)) = {FaceOf(c), FaceOf(d)} /\ FaceOf(c) # FaceOf(d)

LEMMA LinkedIs ==
    ASSUME given \in Surfaces, NEW c \in Corners, NEW d \in Corners, Linked(c, d)
    PROVE  \E w : Across(c, d, VertexAt(c), w)
<1> DEFINE v == VertexAt(c)
<1>1. PICK e \in EdgesOf(given) : /\ Count(given, e) = 2 /\ v \in {e[1], e[2]}
                                  /\ {FaceOf(c), FaceOf(d)} = FacesAt(given, e)
  BY DEF Linked
<1>2. /\ e = <<e[1], e[2]>> /\ e[1] \in Nat /\ e[2] \in Nat /\ e[1] < e[2]
      /\ FacesAt(given, e) \in SUBSET Nat /\ IsFiniteSet(FacesAt(given, e))
  <2>1. given.verts \in Nat
    BY GivenIs, MeshIs
  <2> QED BY <2>1, GivenIs, EdgesAre, FacesAre
<1>3. FaceOf(c) # FaceOf(d)
  BY <1>1, <1>2, PairIs DEF Count
<1>4. Has(given.faces[FaceOf(c)], e[1]) /\ Has(given.faces[FaceOf(c)], e[2])
  BY <1>1 DEF FacesAt
<1>5. PICK w \in {e[1], e[2]} : w # v /\ Edge(v, w) = e
  BY <1>1, <1>2 DEF Edge
<1>6. Has(given.faces[FaceOf(c)], w)
  BY <1>4
<1> HIDE DEF v
<1>7. Across(c, d, v, w)
  BY <1>1, <1>3, <1>5, <1>6 DEF Across
<1> QED BY <1>7 DEF v

(* There is one corner across an edge.                                     *)
LEMMA AcrossIs ==
    ASSUME given \in Surfaces, NEW c \in Corners, NEW d \in Corners, NEW x \in Corners, NEW v, NEW w,
           VertexAt(d) = v, VertexAt(x) = v, Across(c, d, v, w), Across(c, x, v, w)
    PROVE  d = x
<1>1. FaceOf(d) = FaceOf(x)
  BY DEF Across
<1>2. FaceOf(d) \in DOMAIN given.faces /\ Has(given.faces[FaceOf(d)], v)
  BY CornerIs
<1>3. d = CornerAt(FaceOf(d), v)
  BY <1>2, CornerAtIs
<1>4. x = CornerAt(FaceOf(d), v)
  BY <1>1, <1>2, CornerAtIs
<1> QED BY <1>3, <1>4

(* A face has two vertices besides one of its own.                         *)
LEMMA TwoOthers ==
    ASSUME NEW t, NEW v, Has(t, v), NEW a, NEW b, NEW c, Has(t, a), Has(t, b), Has(t, c),
           a # v, b # v, c # v
    PROVE  a = b \/ a = c \/ b = c
<1>1. PICK k \in Place : t[k] = v
  BY DEF Has
<1>2. PICK x \in Place : t[x] = a
  BY DEF Has
<1>3. PICK y \in Place : t[y] = b
  BY DEF Has
<1>4. PICK z \in Place : t[z] = c
  BY DEF Has
<1>5. x # k /\ y # k /\ z # k
  BY <1>1, <1>2, <1>3, <1>4
<1>6. x = y \/ x = z \/ y = z
  BY <1>5 DEF Place
<1> QED BY <1>2, <1>3, <1>4, <1>6

(* So a corner is linked to two at most, and to one at most if an edge of  *)
(* its face there has more or fewer than two faces.                        *)
LEMMA FewLinks ==
    ASSUME given \in Surfaces, NEW v, NEW c \in CornersOf(v), NEW x \in CornersOf(v),
           NEW y \in CornersOf(v), Linked(c, x), Linked(c, y)
    PROVE  /\ \A z \in CornersOf(v) : Linked(c, z) => x = y \/ x = z \/ y = z
           /\ \A q : Has(given.faces[FaceOf(c)], q) /\ q # v /\ Count(given, Edge(v, q)) # 2 => x = y
<1>1. \A u \in CornersOf(v) : u \in Corners /\ VertexAt(u) = v
  BY DEF CornersOf
<1>2. Has(given.faces[FaceOf(c)], v)
  BY <1>1, CornerIs
<1>3. \A u \in CornersOf(v) : Linked(c, u) => \E w : Across(c, u, v, w)
  BY <1>1, LinkedIs
<1>4. PICK a : Across(c, x, v, a)
  BY <1>3
<1>5. PICK b : Across(c, y, v, b)
  BY <1>3
<1>6. a = b => x = y
  BY <1>1, <1>4, <1>5, AcrossIs
<1>7. /\ Has(given.faces[FaceOf(c)], a) /\ a # v /\ Has(given.faces[FaceOf(c)], b) /\ b # v
      /\ Count(given, Edge(v, a)) = 2 /\ Count(given, Edge(v, b)) = 2
  BY <1>4, <1>5 DEF Across
<1>8. ASSUME NEW z \in CornersOf(v), Linked(c, z) PROVE x = y \/ x = z \/ y = z
  <2>1. PICK d : Across(c, z, v, d)
    BY <1>3, <1>8
  <2>2. Has(given.faces[FaceOf(c)], d) /\ d # v
    BY <2>1 DEF Across
  <2>3. a = b \/ a = d \/ b = d
    BY <1>2, <1>7, <2>2, TwoOthers
  <2>4. a = d => x = z
    BY <1>1, <1>4, <2>1, AcrossIs
  <2>5. b = d => y = z
    BY <1>1, <1>5, <2>1, AcrossIs
  <2> QED BY <1>6, <2>3, <2>4, <2>5
<1>9. ASSUME NEW q, Has(given.faces[FaceOf(c)], q), q # v, Count(given, Edge(v, q)) # 2
      PROVE  x = y
  <2>1. a = b \/ a = q \/ b = q
    BY <1>2, <1>7, <1>9, TwoOthers
  <2>2. a # q /\ b # q
    BY <1>7, <1>9
  <2> QED BY <1>6, <2>1, <2>2
<1> QED BY <1>8, <1>9

(* Three corners of faces at an edge of three faces are not all connected. *)
LEMMA ThreeApart ==
    ASSUME given \in Surfaces, NEW v, NEW q, q # v, Count(given, Edge(v, q)) # 2,
           NEW a \in CornersOf(v), NEW b \in CornersOf(v), NEW c \in CornersOf(v),
           a # b, a # c, b # c, \A x \in {a, b, c} : Has(given.faces[FaceOf(x)], q),
           Connected(a, b), Connected(a, c)
    PROVE  FALSE
<1> DEFINE K == CornersOf(v)
           L == {l \in K \X K : Linked(l[1], l[2])}
<1>1. \A x, y \in K : <<x, y>> \in L <=> Linked(x, y)
  OBVIOUS
<1>2. \A x \in K : x \in Corners /\ VertexAt(x) = v
  BY DEF CornersOf
<1> HIDE DEF L
<1>3. BothWays(K, L)
  <2>1. \A x, y \in K : Linked(x, y) => Linked(y, x)
    BY <1>2, LinkedBack
  <2> HIDE DEF K
  <2> QED BY <1>1, <2>1 DEF BothWays
<1>4. NoForks(K, L)
  <2>1. \A x, y, z, w \in K : Linked(x, y) /\ Linked(x, z) /\ Linked(x, w) => y = z \/ y = w \/ z = w
    BY FewLinks
  <2> HIDE DEF K
  <2> QED BY <1>1, <2>1 DEF NoForks
<1>5. ASSUME NEW x \in {a, b, c} PROVE \A y, z \in K : <<x, y>> \in L /\ <<x, z>> \in L => y = z
  <2>1. x \in K /\ Has(given.faces[FaceOf(x)], q)
    OBVIOUS
  <2>2. \A y, z \in K : Linked(x, y) /\ Linked(x, z) => y = z
    BY <2>1, FewLinks
  <2> HIDE DEF K
  <2> QED BY <1>1, <2>1, <2>2
<1>6. ASSUME NEW S \in SUBSET K, a \in S, \A x \in S : \A y \in K : <<x, y>> \in L => y \in S
      PROVE  b \in S /\ c \in S
  <2>1. Closed(S, v)
    BY <1>1, <1>6 DEF Closed
  <2> QED BY <1>2, <1>6, <2>1, ConnectedIs
<1>7. IsFiniteSet(K)
  <2>1. 3 * Len(given.faces) \in Nat
    BY GivenIs, MeshIs
  <2>2. IsFiniteSet(Corners)
    BY <2>1, CountTo DEF Corners
  <2>3. K \in SUBSET Corners
    BY <1>2
  <2> QED BY <2>2, <2>3, FS_Subset
<1> HIDE DEF K
<1>8. a \in K /\ b \in K /\ c \in K
  BY DEF K
<1> QED BY <1>3, <1>4, <1>5, <1>6, <1>7, <1>8, TwoEnds

-----------------------------------------------------------------------------
(* The mesh with its vertices split.                                       *)

(* Every corner has its vertex.                                            *)
Filled == Sound(forest) /\ Tied(forest, {}) /\ Coloured /\ Len(corners) = 3 * Len(given.faces)

(* Vertices are for classes, which are for connected corners.              *)
LEMMA VerticesAre ==
    ASSUME given \in Surfaces, Filled
    PROVE  /\ \A c \in Corners : /\ Position(corners[c]) = VertexAt(c)
                                 /\ corners[c] \in 1..(given.verts + Len(copies))
           /\ \A c, d \in Corners :
                corners[c] = corners[d] <=> VertexAt(c) = VertexAt(d) /\ Connected(c, d)
<1>1. /\ Sound(forest) /\ Tied(forest, {}) /\ corners \in Seq(Nat) /\ copies \in Seq(1..given.verts)
      /\ Len(corners) = 3 * Len(given.faces) /\ DOMAIN fans = {Key(c) : c \in DOMAIN corners}
      /\ \A c \in DOMAIN corners : corners[c] = fans[Key(c)]
      /\ \A k \in DOMAIN fans : Named(k)
      /\ \A k, l \in DOMAIN fans : fans[k] = fans[l] => k = l
  BY DEF Filled, Coloured
<1>2. DOMAIN corners = Corners /\ Len(copies) \in Nat /\ DOMAIN copies = 1..Len(copies)
  BY <1>1 DEF Corners
<1>3. given.verts \in Nat
  BY GivenIs, MeshIs
<1>4. ASSUME NEW c \in Corners
      PROVE  /\ Position(corners[c]) = VertexAt(c)
             /\ corners[c] \in 1..(given.verts + Len(copies))
  <2>1. VertexAt(c) \in 1..given.verts
    BY CornerIs
  <2>2. Key(c) \in DOMAIN fans /\ corners[c] = fans[Key(c)] /\ Key(c)[1] = VertexAt(c)
    BY <1>1, <1>2 DEF Key
  <2>3. CASE corners[c] = VertexAt(c)
    BY <1>2, <1>3, <2>1, <2>3 DEF Position
  <2>4. CASE corners[c] # VertexAt(c)
    <3>1. PICK i \in DOMAIN copies : corners[c] = given.verts + i /\ copies[i] = VertexAt(c)
      BY <1>1, <2>2, <2>4 DEF Named
    <3>2. i \in 1..Len(copies)
      BY <1>2
    <3>3. ~(corners[c] <= given.verts) /\ corners[c] - given.verts = i
      BY <1>2, <1>3, <3>1, <3>2
    <3>4. Position(corners[c]) = VertexAt(c)
      BY <3>1, <3>3 DEF Position
    <3>5. corners[c] \in 1..(given.verts + Len(copies))
      BY <1>2, <1>3, <3>1, <3>2
    <3> QED BY <3>4, <3>5
  <2> QED BY <2>3, <2>4
<1>5. ASSUME NEW c \in Corners, NEW d \in Corners
      PROVE  corners[c] = corners[d] <=> VertexAt(c) = VertexAt(d) /\ Connected(c, d)
  <2>1. corners[c] = corners[d] <=> Key(c) = Key(d)
    BY <1>1, <1>2
  <2>2. Key(c) = Key(d) <=> VertexAt(c) = VertexAt(d) /\ Root(forest.up, c) = Root(forest.up, d)
    BY DEF Key
  <2>3. VertexAt(c) = VertexAt(d) => (Root(forest.up, c) = Root(forest.up, d) <=> Connected(c, d))
    BY <1>1, ClassIs
  <2> QED BY <2>1, <2>2, <2>3
<1> QED BY <1>4, <1>5

(* A face keeps its place, and its corners their numbers.                  *)
LEMMA CandidateIs ==
    ASSUME given \in Surfaces, Filled
    PROVE  /\ Valid(Candidate) /\ DOMAIN Candidate.faces = DOMAIN given.faces
           /\ \A f \in DOMAIN given.faces : \A p :
                Has(Candidate.faces[f], p) <=> \E c \in Corners : FaceOf(c) = f /\ corners[c] = p
<1> DEFINE n == Len(given.faces)
           VertexOf(f, k) == corners[3 * (f - 1) + k]
<1>1. /\ Candidate.verts = given.verts + Len(copies)
      /\ Candidate.faces = [f \in DOMAIN given.faces |-> [k \in Place |-> VertexOf(f, k)]]
  BY DEF Candidate
<1>2. n \in Nat /\ DOMAIN given.faces = 1..n /\ Candidate.verts \in Nat
  <2>1. copies \in Seq(1..given.verts)
    BY DEF Filled, Coloured
  <2>2. n \in Nat /\ DOMAIN given.faces = 1..n /\ given.verts \in Nat
    BY GivenIs, MeshIs
  <2> QED BY <1>1, <2>1, <2>2
<1>3. ASSUME NEW f \in DOMAIN given.faces PROVE Candidate.faces[f] \in TrianglesOn(Candidate.verts)
  <2> HIDE DEF VertexOf
  <2>1. Candidate.faces[f] = [k \in Place |-> VertexOf(f, k)]
    BY <1>1
  <2>2. \A k \in Place : VertexOf(f, k) \in 1..Candidate.verts
    <3> SUFFICES ASSUME NEW k \in Place PROVE VertexOf(f, k) \in 1..Candidate.verts
      OBVIOUS
    <3>1. 3 * (f - 1) + k \in Corners
      BY CornerNumber
    <3> QED BY <1>1, <3>1, VerticesAre DEF VertexOf
  <2>3. ASSUME NEW i \in Place, NEW j \in Place, VertexOf(f, i) = VertexOf(f, j) PROVE i = j
    <3>1. 3 * (f - 1) + i \in Corners /\ VertexAt(3 * (f - 1) + i) = given.faces[f][i]
      BY CornerNumber
    <3>2. 3 * (f - 1) + j \in Corners /\ VertexAt(3 * (f - 1) + j) = given.faces[f][j]
      BY CornerNumber
    <3>3. VertexAt(3 * (f - 1) + i) = VertexAt(3 * (f - 1) + j)
      BY <2>3, <3>1, <3>2, VerticesAre DEF VertexOf
    <3>4. given.faces[f][i] = given.faces[f][j]
      BY <3>1, <3>2, <3>3
    <3> QED BY <3>4, GivenIs, MeshIs
  <2>4. Candidate.faces[f] \in [Place -> 1..Candidate.verts]
    BY <2>1, <2>2
  <2>5. \A i, j \in Place : i # j => Candidate.faces[f][i] # Candidate.faces[f][j]
    BY <2>1, <2>3
  <2> QED BY <2>4, <2>5 DEF TrianglesOn
<1>4. DOMAIN Candidate.faces = DOMAIN given.faces
  BY <1>1
<1>5. Valid(Candidate)
  <2>1. Candidate.faces = [f \in 1..n |-> Candidate.faces[f]]
    BY <1>1, <1>2
  <2>2. Candidate.faces \in [1..n -> TrianglesOn(Candidate.verts)]
    BY <1>2, <1>3, <2>1
  <2>3. Candidate.faces \in Seq(TrianglesOn(Candidate.verts))
    BY <1>2, <2>2
  <2> QED BY <1>2, <2>3 DEF Valid
<1>6. ASSUME NEW f \in DOMAIN given.faces, NEW p
      PROVE  Has(Candidate.faces[f], p) <=> \E c \in Corners : FaceOf(c) = f /\ corners[c] = p
  <2>1. \A k \in Place : Candidate.faces[f][k] = corners[3 * (f - 1) + k]
    BY <1>1
  <2>2. ASSUME NEW k \in Place, Candidate.faces[f][k] = p
        PROVE  \E c \in Corners : FaceOf(c) = f /\ corners[c] = p
    BY <2>1, <2>2, CornerNumber
  <2>3. ASSUME NEW c \in Corners, FaceOf(c) = f, corners[c] = p
        PROVE  \E k \in Place : Candidate.faces[f][k] = p
    BY <2>1, <2>3, CornerIs
  <2> QED BY <2>2, <2>3 DEF Has
<1> QED BY <1>4, <1>5, <1>6

(* No edge has three faces.                                                *)
LEMMA NoneShared ==
    ASSUME given \in Surfaces, Filled
    PROVE  OverShared(Candidate) = {}
<1>1. SUFFICES ASSUME NEW e \in EdgesOf(Candidate), Count(Candidate, e) > 2 PROVE FALSE
  BY DEF OverShared
<1> DEFINE P == e[1]
           Q == e[2]
<1>2. IsFiniteSet(FacesAt(Candidate, e)) /\ P # Q
  BY CandidateIs, FacesAre, EdgesAre
<1>3. PICK f, g, h \in FacesAt(Candidate, e) : f # g /\ f # h /\ g # h
  BY <1>1, <1>2, ThreeIn DEF Count
<1> HIDE DEF P, Q
<1>4. ASSUME NEW x \in {f, g, h}
      PROVE  /\ x \in DOMAIN given.faces
             /\ \E c \in Corners : FaceOf(c) = x /\ corners[c] = P
             /\ \E c \in Corners : FaceOf(c) = x /\ corners[c] = Q
  <2>1. x \in DOMAIN Candidate.faces /\ Has(Candidate.faces[x], P) /\ Has(Candidate.faces[x], Q)
    BY <1>3 DEF FacesAt, P, Q
  <2> QED BY <2>1, CandidateIs
<1>5. PICK a \in Corners : FaceOf(a) = f /\ corners[a] = P
  BY <1>4
<1>6. PICK b \in Corners : FaceOf(b) = g /\ corners[b] = P
  BY <1>4
<1>7. PICK c \in Corners : FaceOf(c) = h /\ corners[c] = P
  BY <1>4
<1>8. PICK d \in Corners : FaceOf(d) = f /\ corners[d] = Q
  BY <1>4
<1> DEFINE v == VertexAt(a)
           q == VertexAt(d)
<1>9. /\ \A x \in Corners : corners[x] = P => VertexAt(x) = v /\ Connected(a, x)
      /\ \A x \in Corners : corners[x] = Q => VertexAt(x) = q
  BY <1>5, <1>8, VerticesAre
<1>10. q # v
  <2>1. d # a
    BY <1>2, <1>5, <1>8
  <2>2. f \in DOMAIN given.faces /\ Has(given.faces[f], v)
    BY <1>5, CornerIs
  <2>3. a = CornerAt(f, v)
    BY <1>5, <2>2, CornerAtIs
  <2>4. q = v => d = CornerAt(f, v)
    BY <1>8, <2>2, CornerAtIs
  <2> QED BY <2>1, <2>3, <2>4
<1> HIDE DEF v, q
<1>11. ASSUME NEW x \in {f, g, h}
       PROVE  /\ x \in DOMAIN given.faces
              /\ Has(given.faces[x], v) /\ Has(given.faces[x], q)
  <2>1. PICK y \in Corners : FaceOf(y) = x /\ corners[y] = P
    BY <1>4
  <2>2. PICK z \in Corners : FaceOf(z) = x /\ corners[z] = Q
    BY <1>4
  <2>3. VertexAt(y) = v /\ VertexAt(z) = q
    BY <1>9, <2>1, <2>2
  <2> QED BY <1>4, <2>1, <2>2, <2>3, CornerIs
<1>12. Count(given, Edge(v, q)) # 2
  <2> DEFINE E == Edge(v, q)
  <2>1. v \in Nat /\ q \in Nat
    <3>1. v \in 1..given.verts /\ q \in 1..given.verts
      BY <1>5, <1>8, CornerIs DEF v, q
    <3> QED BY <3>1
  <2>2. {E[1], E[2]} = {v, q}
    BY <2>1, EdgeIs
  <2> HIDE DEF E
  <2>3. f \in FacesAt(given, E) /\ g \in FacesAt(given, E) /\ h \in FacesAt(given, E)
    <3>1. \A x \in {f, g, h} : Has(given.faces[x], E[1]) /\ Has(given.faces[x], E[2])
      BY <1>11, <2>2
    <3> QED BY <1>11, <3>1 DEF FacesAt
  <2>4. FacesAt(given, E) \in SUBSET Nat /\ IsFiniteSet(FacesAt(given, E))
    BY GivenIs, FacesAre
  <2>5. SUFFICES ASSUME Cardinality(FacesAt(given, E)) = 2 PROVE FALSE
    BY DEF Count, E
  <2>6. PICK x, y : FacesAt(given, E) = {x, y}
    BY <2>4, <2>5, PairIs
  <2> QED BY <1>3, <2>3, <2>6
<1>13. /\ a \in CornersOf(v) /\ b \in CornersOf(v) /\ c \in CornersOf(v)
       /\ Connected(a, b) /\ Connected(a, c)
  BY <1>5, <1>6, <1>7, <1>9 DEF CornersOf
<1>14. a # b /\ a # c /\ b # c
  BY <1>3, <1>5, <1>6, <1>7
<1>15. \A x \in {a, b, c} : Has(given.faces[FaceOf(x)], q)
  BY <1>5, <1>6, <1>7, <1>11
<1> QED BY <1>10, <1>12, <1>13, <1>14, <1>15, ThreeApart

-----------------------------------------------------------------------------
(* Splitting step by step.                                                 *)

NoVertex == fans = [k \in {} |-> 0] /\ corners = <<>> /\ copies = <<>>

(* What is so where splitting is: first no corner hangs from another, then *)
(* classes are connected and the edges done are tied, then the corners so  *)
(* far have the vertex of their class.                                     *)
Splitting ==
    /\ given \in Surfaces
    /\ step = "repair" => Sound(forest) /\ NoVertex
    /\ step = "unite" => /\ Sound(forest) /\ Tied(forest, todo)
                         /\ todo \subseteq Manifolds /\ todo # {}
                         /\ NoVertex /\ Len(given.faces) > 0
    /\ step = "split" => /\ Sound(forest) /\ Tied(forest, {})
                         /\ Coloured /\ Len(corners) < 3 * Len(given.faces)
    /\ step = "check" => Filled

(* Corners that hang from nothing are classes of one.                      *)
LEMMA FirstSound ==
    ASSUME given \in Surfaces, forest = [up |-> [c \in Corners |-> c], rank |-> [c \in Corners |-> 0]]
    PROVE  Sound(forest)
<1> DEFINE up == [c \in Corners |-> c]
           rank == [c \in Corners |-> 0]
<1>1. Climbs(up, rank, Corners, 0)
  BY DEF Climbs
<1>2. \A x \in Corners : up[x] = x
  OBVIOUS
<1>3. forest.up = up /\ forest.rank = rank /\ forest = [up |-> up, rank |-> rank]
  OBVIOUS
<1> HIDE DEF up, rank
<1>4. \A x \in Corners : Root(up, x) = x
  BY <1>1, <1>2, RootIs
<1>5. Tree(forest, Corners)
  BY <1>1, <1>3 DEF Tree
<1>6. \A c, d \in Corners : Root(forest.up, c) = Root(forest.up, d) =>
        VertexAt(c) = VertexAt(d) /\ Connected(c, d)
  BY <1>3, <1>4, ConnectedSelf
<1> QED BY <1>5, <1>6 DEF Sound

(* With no corner done there is nothing to be wrong about.                 *)
LEMMA NoVertexIs == NoVertex => Coloured /\ Len(corners) = 0
<1>1. SUFFICES ASSUME NoVertex PROVE Coloured /\ Len(corners) = 0
  OBVIOUS
<1>2. DOMAIN fans = {} /\ DOMAIN corners = {} /\ Len(corners) = 0
  BY <1>1 DEF NoVertex
<1>3. corners \in Seq(Nat) /\ copies \in Seq(1..given.verts)
  BY <1>1 DEF NoVertex
<1> QED BY <1>2, <1>3 DEF Coloured

LEMMA SplittingInit == TopologyInit => Splitting
<1>1. SUFFICES ASSUME TopologyInit PROVE Splitting
  OBVIOUS
<1>2. given \in Surfaces /\ NoVertex /\ step \in {"fill", "repair"}
  BY <1>1 DEF TopologyInit, NoVertex
<1>3. Sound(forest)
  BY <1>1, <1>2, FirstSound DEF TopologyInit
<1> QED BY <1>2, <1>3 DEF Splitting

(* Corners and edges are those of the mesh of the call, which no step      *)
(* changes.                                                                *)
LEMMA SameMesh ==
    ASSUME given' = given
    PROVE  /\ Manifolds' = Manifolds /\ Corners' = Corners
           /\ \A c, d : VertexAt(c)' = VertexAt(c) /\ Connected(c, d)' = Connected(c, d)
<1>1. Manifolds' = Manifolds
  BY DEF Manifolds, EdgesOf, Manifold, Count, FacesAt, Has, Sides, Next3, Edge
<1>2. Corners' = Corners /\ \A c : VertexAt(c)' = VertexAt(c) /\ FaceOf(c)' = FaceOf(c)
  BY DEF Corners, VertexAt, FaceOf
<1>3. \A v : CornersOf(v)' = CornersOf(v)
  BY <1>2 DEF CornersOf
<1>4. \A x, y : Linked(x, y)' = Linked(x, y)
  <2>1. EdgesOf(given)' = EdgesOf(given)
    BY DEF EdgesOf, Sides, Next3, Edge
  <2>2. \A e : FacesAt(given, e)' = FacesAt(given, e) /\ Count(given, e)' = Count(given, e)
    BY DEF FacesAt, Has, Count
  <2> SUFFICES ASSUME NEW x, NEW y PROVE Linked(x, y)' = Linked(x, y)
    OBVIOUS
  <2> QED BY <1>2, <2>1, <2>2 DEF Linked
<1>5. \A c, d : Connected(c, d)' = Connected(c, d)
  BY <1>2, <1>3, <1>4 DEF Connected
<1> QED BY <1>1, <1>2, <1>5

LEMMA RepairKeeps == ASSUME Splitting, Repair PROVE Splitting'
<1>1. /\ given' = given /\ forest' = forest /\ fans' = fans /\ corners' = corners /\ copies' = copies
      /\ given \in Surfaces /\ Sound(forest) /\ NoVertex
  BY DEF Repair, Splitting, repairing
<1>2. \/ step' \in {"failed", "done"}
      \/ /\ OverShared(given) # {} /\ todo' = Manifolds
         /\ step' = IF todo' = {} THEN "split" ELSE "unite"
  BY DEF Repair, Manifolds
<1>3. CASE step' \in {"failed", "done"}
  BY <1>1, <1>3 DEF Splitting
<1>4. CASE /\ OverShared(given) # {} /\ todo' = Manifolds
           /\ step' = IF todo' = {} THEN "split" ELSE "unite"
  <2>1. Len(given.faces) \in Nat /\ Len(given.faces) > 0
    <3>1. PICK e : e \in EdgesOf(given)
      BY <1>4 DEF OverShared
    <3>2. PICK f \in DOMAIN given.faces : TRUE
      BY <3>1 DEF EdgesOf
    <3>3. Len(given.faces) \in Nat /\ DOMAIN given.faces = 1..Len(given.faces)
      BY <1>1, GivenIs, MeshIs
    <3> QED BY <3>2, <3>3
  <2>2. Manifolds' = Manifolds /\ Sound(forest)' /\ NoVertex'
    <3>1. Manifolds' = Manifolds /\ Corners' = Corners
          /\ \A c, d : VertexAt(c)' = VertexAt(c) /\ Connected(c, d)' = Connected(c, d)
      BY <1>1, SameMesh
    <3>2. Sound(forest)'
      BY <1>1, <3>1 DEF Sound
    <3>3. NoVertex'
      BY <1>1 DEF NoVertex
    <3> QED BY <3>1, <3>2, <3>3
  <2>3. CASE todo' = {}
    <3>1. Tied(forest, {})'
      BY <1>4, <2>2, <2>3 DEF Tied
    <3>2. Coloured' /\ Len(corners') = 0
      BY <1>1, NoVertexIs DEF Coloured, Key, VertexAt, FaceOf, Named
    <3>3. Len(corners') < 3 * Len(given'.faces)
      BY <1>1, <2>1, <3>2
    <3> QED BY <1>1, <1>4, <2>2, <2>3, <3>1, <3>2, <3>3 DEF Splitting
  <2>4. CASE todo' # {}
    <3>1. Tied(forest, todo)'
      BY <1>4, <2>2 DEF Tied
    <3>2. todo' \subseteq Manifolds' /\ Len(given'.faces) > 0
      BY <1>1, <1>4, <2>1, <2>2
    <3> QED BY <1>1, <1>4, <2>2, <2>4, <3>1, <3>2 DEF Splitting
  <2> QED BY <2>3, <2>4
<1> QED BY <1>2, <1>3, <1>4

LEMMA UniteKeepsAll == ASSUME Splitting, Unite PROVE Splitting'
<1>1. /\ given' = given /\ fans' = fans /\ corners' = corners /\ copies' = copies
      /\ step = "unite" /\ step' = IF todo' = {} THEN "split" ELSE "unite"
  BY DEF Unite
<1>2. /\ given \in Surfaces /\ Sound(forest) /\ Tied(forest, todo) /\ todo \subseteq Manifolds
      /\ todo # {} /\ NoVertex /\ Len(given.faces) > 0
  BY <1>1 DEF Splitting
<1>3. Sound(forest') /\ Tied(forest', todo') /\ todo' \subseteq Manifolds
  BY <1>2, UniteStep
<1>4. /\ Manifolds' = Manifolds /\ Corners' = Corners
      /\ \A c, d : VertexAt(c)' = VertexAt(c) /\ Connected(c, d)' = Connected(c, d)
  BY <1>1, SameMesh
<1>5. Sound(forest)'
  BY <1>1, <1>3, <1>4 DEF Sound
<1>6. Tied(forest, todo)'
  BY <1>1, <1>3, <1>4 DEF Tied, FaceOf, FacesAt, Has
<1>7. NoVertex'
  BY <1>1, <1>2 DEF NoVertex
<1>8. CASE todo' = {}
  <2>1. Tied(forest, {})'
    BY <1>6, <1>8 DEF Tied
  <2>2. Coloured /\ Len(corners) = 0 /\ Len(given.faces) \in Nat
    BY <1>2, NoVertexIs, GivenIs, MeshIs
  <2>3. Coloured' /\ Len(corners') < 3 * Len(given'.faces)
    <3>1. DOMAIN fans' = {} /\ DOMAIN corners' = {} /\ Len(corners') = 0
      BY <1>7 DEF NoVertex
    <3>2. corners' \in Seq(Nat) /\ copies' \in Seq(1..given'.verts)
      BY <1>7 DEF NoVertex
    <3>3. Coloured'
      BY <3>1, <3>2 DEF Coloured
    <3> QED BY <1>1, <1>2, <2>2, <3>1, <3>3
  <2> QED BY <1>1, <1>2, <1>5, <1>8, <2>1, <2>3 DEF Splitting
<1>9. CASE todo' # {}
  BY <1>1, <1>2, <1>3, <1>4, <1>5, <1>6, <1>7, <1>9 DEF Splitting
<1> QED BY <1>8, <1>9

LEMMA SplitKeepsAll == ASSUME Splitting, Split PROVE Splitting'
<1>1. /\ given' = given /\ step = "split"
      /\ step' = IF Len(corners) + 1 = 3 * Len(given.faces) THEN "check" ELSE "split"
  BY DEF Split
<1>2. /\ given \in Surfaces /\ Sound(forest) /\ Tied(forest, {}) /\ Coloured
      /\ Len(corners) < 3 * Len(given.faces)
  BY <1>1 DEF Splitting
<1>3. /\ Sound(forest') /\ Coloured' /\ Len(corners') = Len(corners) + 1
      /\ \A c \in Corners : Root(forest'.up, c) = Root(forest.up, c)
  BY <1>2, SplitStep
<1>4. /\ Manifolds' = Manifolds /\ Corners' = Corners
      /\ \A c, d : VertexAt(c)' = VertexAt(c) /\ Connected(c, d)' = Connected(c, d)
  BY <1>1, SameMesh
<1>5. Sound(forest)'
  BY <1>1, <1>3, <1>4 DEF Sound
<1>6. Tied(forest, {})'
  <2>1. Tied(forest', {})
    BY <1>2, <1>3 DEF Tied
  <2> QED BY <1>1, <1>4, <2>1 DEF Tied, FaceOf, FacesAt, Has
<1>7. Len(corners) \in Nat /\ Len(given.faces) \in Nat
  BY <1>2, GivenIs, MeshIs DEF Coloured
<1>8. CASE Len(corners) + 1 = 3 * Len(given.faces)
  BY <1>1, <1>2, <1>3, <1>5, <1>6, <1>8 DEF Splitting, Filled
<1>9. CASE Len(corners) + 1 # 3 * Len(given.faces)
  <2>1. Len(corners') < 3 * Len(given'.faces)
    BY <1>1, <1>2, <1>3, <1>7, <1>9
  <2> QED BY <1>1, <1>2, <1>3, <1>5, <1>6, <1>9, <2>1 DEF Splitting
<1> QED BY <1>8, <1>9

LEMMA SplittingNext == Splitting /\ [TopologyNext]_topologyVars => Splitting'
<1>1. SUFFICES ASSUME Splitting, [TopologyNext]_topologyVars PROVE Splitting'
  OBVIOUS
<1>2. CASE Repair
  BY <1>1, <1>2, RepairKeeps
<1>3. CASE Unite
  BY <1>1, <1>3, UniteKeepsAll
<1>4. CASE Split
  BY <1>1, <1>4, SplitKeepsAll
<1>5. CASE Fill \/ Mark \/ Settle \/ Seed \/ Walk \/ Cap \/ AppendCaps \/ Check
  <2>1. given' = given /\ step' \notin {"repair", "unite", "split", "check"}
    BY <1>5 DEF Fill, Mark, Settle, Seed, Walk, Cap, AppendCaps, Check
  <2> QED BY <1>1, <2>1 DEF Splitting
<1>6. CASE UNCHANGED topologyVars
  <2>1. /\ given' = given /\ step' = step /\ forest' = forest /\ todo' = todo
        /\ fans' = fans /\ corners' = corners /\ copies' = copies
    BY <1>6 DEF topologyVars, repairing
  <2>2. /\ Manifolds' = Manifolds /\ Corners' = Corners
        /\ \A c, d : VertexAt(c)' = VertexAt(c) /\ Connected(c, d)' = Connected(c, d)
    BY <2>1, SameMesh
  <2>3. Sound(forest) => Sound(forest)'
    BY <2>1, <2>2 DEF Sound
  <2>4. NoVertex' = NoVertex /\ (Coloured => Coloured')
    <3>1. \A c : Key(c)' = Key(c)
      BY <2>1, <2>2 DEF Key
    <3>2. \A k : Named(k)' = Named(k)
      BY <2>1 DEF Named
    <3>3. {Key(c)' : c \in DOMAIN corners'} = {Key(c) : c \in DOMAIN corners}
      BY <2>1, <3>1
    <3>4. Coloured => Coloured'
      BY <2>1, <3>1, <3>2, <3>3 DEF Coloured
    <3> QED BY <2>1, <3>4 DEF NoVertex
  <2>5. \A T : Tied(forest, T)' = Tied(forest, T)
    BY <2>1, <2>2 DEF Tied, FaceOf, FacesAt, Has
  <2>6. Tied(forest, {}) => Tied(forest, {})'
    BY <2>5
  <2>7. Tied(forest, todo) => Tied(forest, todo)'
    BY <2>1, <2>2 DEF Tied, FaceOf, FacesAt, Has
  <2>8. Filled => Filled'
    BY <2>1, <2>3, <2>4, <2>6 DEF Filled
  <2> QED BY <1>1, <2>1, <2>2, <2>3, <2>4, <2>6, <2>7, <2>8 DEF Splitting
<1> QED BY <1>1, <1>2, <1>3, <1>4, <1>5, <1>6 DEF TopologyNext

(* When the candidate is looked at nothing is wrong with it: splitting is  *)
(* never given up with edges unresolved, corners share a vertex exactly    *)
(* when they did before and are connected through edges of two faces, and  *)
(* a vertex has the position its corners had.                              *)
THEOREM SplitsApart == TopologySpec => []SplitApart
<1>1. Splitting => SplitApart
  <2>1. SUFFICES ASSUME Splitting, step = "check" PROVE SplitApart
    BY DEF SplitApart, RepairSucceeds, FansApart
  <2>2. given \in Surfaces /\ Filled
    BY <2>1 DEF Splitting
  <2>3. RepairSucceeds
    BY <2>2, CandidateIs, NoneShared DEF RepairSucceeds
  <2>4. FansApart
    <3>1. \A v \in 1..given.verts : \A c, d \in CornersOf(v) :
            c \in Corners /\ d \in Corners /\ VertexAt(c) = VertexAt(d)
      BY DEF CornersOf
    <3> QED BY <2>2, <3>1, VerticesAre DEF FansApart
  <2> QED BY <2>3, <2>4 DEF SplitApart
<1> QED BY <1>1, SplittingInit, SplittingNext, PTL DEF TopologySpec

-----------------------------------------------------------------------------
(* The boundary.                                                           *)

(* The three sides of a face, and its vertices.                            *)
LEMMA SidesAre ==
    ASSUME NEW a, NEW b, NEW c
    PROVE  /\ Sides(<<a, b, c>>) = {<<a, b>>, <<b, c>>, <<c, a>>}
           /\ \A v : Has(<<a, b, c>>, v) <=> v \in {a, b, c}
<1>1. Place = {1, 2, 3} /\ Next3(1) = 2 /\ Next3(2) = 3 /\ Next3(3) = 1
  BY DEF Place, Next3
<1>2. Sides(<<a, b, c>>) = {<<a, b>>, <<b, c>>, <<c, a>>}
  BY <1>1 DEF Sides
<1>3. \A v : Has(<<a, b, c>>, v) <=> v \in {a, b, c}
  BY <1>1 DEF Has
<1> QED BY <1>2, <1>3

(* A face has its sides one way only.                                      *)
LEMMA OneWay ==
    ASSUME NEW t, \A i, j \in Place : i # j => t[i] # t[j], NEW a, NEW b, <<a, b>> \in Sides(t)
    PROVE  <<b, a>> \notin Sides(t)
<1>1. SUFFICES ASSUME <<b, a>> \in Sides(t) PROVE FALSE
  OBVIOUS
<1>2. PICK k \in Place : a = t[k] /\ b = t[Next3(k)]
  BY DEF Sides
<1>3. PICK j \in Place : b = t[j] /\ a = t[Next3(j)]
  BY <1>1 DEF Sides
<1>4. \A i \in Place : Next3(i) \in Place /\ Next3(Next3(i)) # i
  BY DEF Place, Next3
<1>5. j = Next3(k) /\ Next3(j) = k
  BY <1>2, <1>3, <1>4
<1> QED BY <1>4, <1>5

(* The ends of a side are vertices of its face.                            *)
LEMMA SideHas ==
    ASSUME NEW t, NEW a, NEW b, <<a, b>> \in Sides(t)
    PROVE  Has(t, a) /\ Has(t, b)
<1>1. PICK i, j \in Place : <<a, b>> = <<t[i], t[j]>>
  BY SideIsPair
<1> QED BY <1>1 DEF Has

(* A boundary edge has one face, which runs along it one way.              *)
LEMMA BoundaryIs ==
    ASSUME given \in Surfaces, NEW e \in Boundary
    PROVE  /\ e = <<e[1], e[2]>> /\ e[1] \in 1..given.verts /\ e[2] \in 1..given.verts /\ e[1] < e[2]
           /\ Directed(e) = <<Directed(e)[1], Directed(e)[2]>>
           /\ {Directed(e)[1], Directed(e)[2]} = {e[1], e[2]}
           /\ \E f \in DOMAIN given.faces :
                /\ FacesAt(given, e) = {f} /\ Directed(e) \in Sides(given.faces[f])
                /\ <<Directed(e)[2], Directed(e)[1]>> \notin Sides(given.faces[f])
<1>1. e \in EdgesOf(given) /\ Cardinality(FacesAt(given, e)) = 1 /\ Valid(given)
  BY GivenIs DEF Boundary, Count
<1>2. e = <<e[1], e[2]>> /\ e[1] \in 1..given.verts /\ e[2] \in 1..given.verts /\ e[1] < e[2]
  BY <1>1, EdgesAre
<1> DEFINE s == Directed(e)
<1>3. PICK f \in DOMAIN given.faces : s \in Sides(given.faces[f]) /\ s \in {e, <<e[2], e[1]>>}
  <2>1. PICK f \in DOMAIN given.faces : \E r \in Sides(given.faces[f]) : e = Edge(r[1], r[2])
    BY <1>1 DEF EdgesOf
  <2>2. PICK r \in Sides(given.faces[f]) : e = Edge(r[1], r[2])
    BY <2>1
  <2>3. r = <<r[1], r[2]>>
    BY SideIsPair
  <2>4. r \in {e, <<e[2], e[1]>>}
    BY <2>2, <2>3 DEF Edge
  <2> QED BY <2>4 DEF Directed
<1> HIDE DEF s
<1>4. s = <<s[1], s[2]>> /\ {s[1], s[2]} = {e[1], e[2]}
  BY <1>2, <1>3
<1>5. Has(given.faces[f], s[1]) /\ Has(given.faces[f], s[2])
  BY <1>3, <1>4, SideHas
<1>6. f \in FacesAt(given, e)
  BY <1>4, <1>5 DEF FacesAt
<1>7. FacesAt(given, e) = {f}
  <2>1. IsFiniteSet(FacesAt(given, e))
    BY <1>1, FacesAre
  <2> QED BY <1>1, <1>6, <2>1, FS_Singleton
<1>8. <<s[2], s[1]>> \notin Sides(given.faces[f])
  <2>1. \A i, j \in Place : i # j => given.faces[f][i] # given.faces[f][j]
    BY <1>1, MeshIs
  <2> QED BY <1>3, <1>4, <2>1, OneWay
<1> QED BY <1>2, <1>3, <1>4, <1>7, <1>8 DEF s

(* A finite set of no more than one has one member at most.                *)
LEMMA OnlyOne ==
    ASSUME NEW S, IsFiniteSet(S), Cardinality(S) <= 1, NEW x \in S, NEW y \in S
    PROVE  x = y
<1>1. IsFiniteSet({x}) /\ Cardinality({x}) = 1
  BY FS_Singleton
<1>2. {x} \in SUBSET S /\ Cardinality(S) \in Nat
  BY FS_CardinalityType
<1>3. Cardinality({x}) <= Cardinality(S) /\ (Cardinality(S) = Cardinality({x}) => S = {x})
  BY <1>2, FS_Subset
<1>4. S = {x}
  BY <1>1, <1>2, <1>3
<1> QED BY <1>4

(* Two one-to-one functions on a finite set: if the first takes only values *)
(* of the second, it takes them all.                                       *)
OneToOne(p, F) == \A f, g \in F : p[f] = p[g] => f = g
TakesOnly(p, q, F) == \A f \in F : \E g \in F : q[g] = p[f]

LEMMA SameValues ==
    ASSUME NEW F, IsFiniteSet(F), NEW p, NEW q, OneToOne(p, F), TakesOnly(p, q, F), NEW h \in F
    PROVE  \E f \in F : p[f] = q[h]
<1> DEFINE r == [f \in F |-> CHOOSE g \in F : q[g] = p[f]]
<1>1. \A f \in F : r[f] \in F /\ q[r[f]] = p[f]
  BY DEF TakesOnly
<1>2. r \in [F -> F]
  BY <1>1
<1> HIDE DEF r
<1>3. \A f, g \in F : r[f] = r[g] => f = g
  BY <1>1 DEF OneToOne
<1>4. r \in Injection(F, F)
  BY <1>2, <1>3 DEF Injection, IsInjective
<1>5. r \in Surjection(F, F)
  BY <1>4, FS_Injection
<1>6. PICK f \in F : r[f] = h
  BY <1>5 DEF Surjection
<1> QED BY <1>1, <1>6

(* The vertices of a face after and before one of its own.                 *)
AfterAt(t, w) == CHOOSE y : <<w, y>> \in Sides(t)
BeforeAt(t, w) == CHOOSE y : <<y, w>> \in Sides(t)

LEMMA AroundIs ==
    ASSUME NEW t, \A i, j \in Place : i # j => t[i] # t[j], NEW w, Has(t, w)
    PROVE  /\ <<w, AfterAt(t, w)>> \in Sides(t) /\ <<BeforeAt(t, w), w>> \in Sides(t)
           /\ \A y : <<w, y>> \in Sides(t) => y = AfterAt(t, w)
           /\ \A y : <<y, w>> \in Sides(t) => y = BeforeAt(t, w)
           /\ \A y : Has(t, y) /\ y # w => y = AfterAt(t, w) \/ y = BeforeAt(t, w)
           /\ AfterAt(t, w) # w /\ BeforeAt(t, w) # w /\ AfterAt(t, w) # BeforeAt(t, w)
<1>1. PICK k \in Place : t[k] = w
  BY DEF Has
<1> DEFINE n == Next3(k)
           b == Next3(n)
<1>2. n \in Place /\ b \in Place /\ Next3(b) = k /\ n # k /\ b # k /\ b # n /\ Place = {k, n, b}
  BY DEF Place, Next3
<1> HIDE DEF b
<1>3. <<w, t[n]>> \in Sides(t) /\ <<t[b], w>> \in Sides(t)
  BY <1>1, <1>2 DEF Sides
<1> HIDE DEF n
<1>4. \A y : <<w, y>> \in Sides(t) => y = t[n]
  <2>1. SUFFICES ASSUME NEW y, <<w, y>> \in Sides(t) PROVE y = t[n]
    OBVIOUS
  <2>2. PICK i \in Place : t[i] = w /\ y = t[Next3(i)]
    BY <2>1 DEF Sides
  <2>3. i = k
    BY <1>1, <2>2
  <2> QED BY <2>2, <2>3 DEF n
<1>5. \A y : <<y, w>> \in Sides(t) => y = t[b]
  <2>1. SUFFICES ASSUME NEW y, <<y, w>> \in Sides(t) PROVE y = t[b]
    OBVIOUS
  <2>2. PICK i \in Place : t[Next3(i)] = w /\ y = t[i]
    BY <2>1 DEF Sides
  <2>3. Next3(i) \in Place
    BY DEF Place, Next3
  <2>4. Next3(i) = k
    BY <1>1, <2>2, <2>3
  <2>5. i = b
    BY <2>4 DEF Place, Next3, n, b
  <2> QED BY <2>2, <2>5
<1>6. AfterAt(t, w) = t[n]
  BY <1>3, <1>4 DEF AfterAt
<1>7. BeforeAt(t, w) = t[b]
  BY <1>3, <1>5 DEF BeforeAt
<1>8. \A y : Has(t, y) /\ y # w => y = t[n] \/ y = t[b]
  BY <1>1, <1>2 DEF Has
<1>9. t[n] # w /\ t[b] # w /\ t[n] # t[b]
  BY <1>1, <1>2
<1> QED BY <1>3, <1>4, <1>5, <1>6, <1>7, <1>8, <1>9

(* When faces agree which side is out, a side belongs to one.              *)
LEMMA OnceAlong ==
    ASSUME given \in Surfaces, Oriented(given), NEW f \in DOMAIN given.faces,
           NEW g \in DOMAIN given.faces, NEW a, NEW b,
           <<a, b>> \in Sides(given.faces[f]), <<a, b>> \in Sides(given.faces[g])
    PROVE  f = g
<1> DEFINE s == <<a, b>>
           S == {x \in DOMAIN given.faces : s \in Sides(given.faces[x])}
<1>1. Edge(a, b) \in EdgesOf(given)
  BY DEF EdgesOf
<1>2. Along(given, s) <= 1
  <2>1. CASE Edge(a, b) = s
    BY <1>1, <2>1 DEF Oriented
  <2>2. CASE Edge(a, b) = <<b, a>>
    <3>1. Along(given, <<Edge(a, b)[2], Edge(a, b)[1]>>) <= 1
      BY <1>1 DEF Oriented
    <3> QED BY <2>2, <3>1
  <2> QED BY <2>1, <2>2 DEF Edge
<1>3. Cardinality(S) <= 1
  BY <1>2 DEF Along
<1>4. IsFiniteSet(S)
  <2>1. Len(given.faces) \in Nat /\ DOMAIN given.faces = 1..Len(given.faces)
    BY GivenIs, MeshIs
  <2>2. IsFiniteSet(DOMAIN given.faces)
    BY <2>1, CountTo
  <2>3. S \in SUBSET DOMAIN given.faces
    OBVIOUS
  <2> QED BY <2>2, <2>3, FS_Subset
<1>5. f \in S /\ g \in S
  OBVIOUS
<1> HIDE DEF S
<1> QED BY <1>3, <1>4, <1>5, OnlyOne

(* Where faces agree which side is out: p and q are the two ways round w.  *)
(* If an edge runs from w to q[h] and one to q[j], and these are all the   *)
(* boundary there, every face at w has behind it what another has ahead,   *)
(* but none has q[h] behind it.                                            *)
FacesOf(w) == {f \in DOMAIN given.faces : Has(given.faces[f], w)}

WaysRound(w, p, q) ==
    \A f \in FacesOf(w) :
      /\ Has(given.faces[f], p[f]) /\ p[f] # w /\ p[f] \in Nat
      /\ Has(given.faces[f], q[f]) /\ q[f] # w /\ q[f] \in Nat /\ p[f] # q[f]
      /\ \A y : Has(given.faces[f], y) /\ y # w => y = p[f] \/ y = q[f]

EndsWith(w, q, h, j) ==
    /\ FacesAt(given, Edge(w, q[h])) = {h} /\ FacesAt(given, Edge(w, q[j])) = {j}
    /\ \A e \in Boundary : w \in {e[1], e[2]} => e = Edge(w, q[h]) \/ e = Edge(w, q[j])

LEMMA Flow ==
    ASSUME given \in Surfaces, NEW w \in Nat,
           NEW p, NEW q, OneToOne(p, FacesOf(w)), OneToOne(q, FacesOf(w)), WaysRound(w, p, q),
           NEW h \in FacesOf(w), NEW j \in FacesOf(w), EndsWith(w, q, h, j)
    PROVE  FALSE
<1> DEFINE F == FacesOf(w)
<1>1. IsFiniteSet(F)
  <2>1. Len(given.faces) \in Nat /\ DOMAIN given.faces = 1..Len(given.faces)
    BY GivenIs, MeshIs
  <2>2. IsFiniteSet(DOMAIN given.faces)
    BY <2>1, CountTo
  <2>3. F \in SUBSET DOMAIN given.faces
    BY DEF FacesOf
  <2> QED BY <2>2, <2>3, FS_Subset
<1>2. ASSUME NEW y \in Nat, NEW f \in DOMAIN given.faces
      PROVE  f \in FacesAt(given, Edge(w, y)) <=> Has(given.faces[f], w) /\ Has(given.faces[f], y)
  <2>1. {Edge(w, y)[1], Edge(w, y)[2]} = {w, y}
    BY EdgeIs
  <2> QED BY <2>1 DEF FacesAt
<1>3. ASSUME NEW f \in F, NEW i \in {h, j} PROVE p[f] # q[i]
  <2>1. SUFFICES ASSUME p[f] = q[i] PROVE FALSE
    OBVIOUS
  <2>2. f \in FacesAt(given, Edge(w, q[i]))
    BY <1>2, <2>1 DEF WaysRound, FacesOf
  <2>3. f = i
    BY <2>2 DEF EndsWith
  <2> QED BY <2>1, <2>3 DEF WaysRound
<1>4. ASSUME NEW f \in F PROVE \E g \in F : q[g] = p[f]
  <2> DEFINE x == p[f]
             E == Edge(w, x)
  <2>1. x \in Nat /\ x # w /\ Has(given.faces[f], x) /\ Has(given.faces[f], w)
        /\ f \in DOMAIN given.faces
    BY DEF WaysRound, FacesOf
  <2>2. E \in EdgesOf(given) /\ {E[1], E[2]} = {w, x}
    BY <2>1, GivenIs, FaceEdge, EdgeIs
  <2>3. f \in FacesAt(given, E)
    BY <1>2, <2>1
  <2>4. \A y \in Nat : {w, y} = {w, x} => y = x
    BY <2>1
  <2>5. \A i \in {h, j} : E # Edge(w, q[i])
    <3>1. SUFFICES ASSUME NEW i \in {h, j}, E = Edge(w, q[i]) PROVE FALSE
      OBVIOUS
    <3>2. q[i] \in Nat /\ q[i] # w
      BY DEF WaysRound
    <3>3. {E[1], E[2]} = {w, q[i]}
      BY <3>1, <3>2, EdgeIs
    <3>4. q[i] = x
      BY <2>2, <2>4, <3>2, <3>3
    <3> QED BY <1>3, <3>4
  <2> HIDE DEF E
  <2>6. E \notin Boundary
    BY <2>2, <2>5 DEF EndsWith
  <2>7. Cardinality(FacesAt(given, E)) # 1
    BY <2>2, <2>6 DEF Boundary, Count
  <2>8. FacesAt(given, E) # {f}
    BY <2>7, FS_Singleton
  <2>9. PICK g \in FacesAt(given, E) : g # f
    BY <2>3, <2>8
  <2>10. g \in F /\ Has(given.faces[g], x)
    <3>1. g \in DOMAIN given.faces
      BY DEF FacesAt
    <3>2. Has(given.faces[g], w) /\ Has(given.faces[g], x)
      BY <1>2, <2>1, <3>1 DEF E
    <3> QED BY <3>1, <3>2 DEF FacesOf
  <2>11. x = p[g] \/ x = q[g]
    BY <2>1, <2>10 DEF WaysRound
  <2>12. x # p[g]
    BY <2>9, <2>10 DEF OneToOne
  <2> QED BY <2>10, <2>11, <2>12
<1>5. PICK f \in F : p[f] = q[h]
  <2>1. TakesOnly(p, q, F)
    BY <1>4 DEF TakesOnly
  <2> QED BY <1>1, <2>1, SameValues
<1> QED BY <1>3, <1>5

(* No more than two edges end at a vertex where the boundary has no        *)
(* branches.                                                               *)
LEMMA OpenTwo ==
    ASSUME given \in Surfaces, NEW w, ~Branches(w), NEW e \in OpenEdgesAt(w), NEW d \in OpenEdgesAt(w),
           e # d
    PROVE  \A x \in OpenEdgesAt(w) : x = e \/ x = d
<1> DEFINE S == OpenEdgesAt(w)
           V == 1..given.verts
<1>1. IsFiniteSet(S)
  <2>1. given.verts \in Nat
    BY GivenIs, MeshIs
  <2>2. IsFiniteSet(V \X V)
    BY <2>1, CountTo, FS_Product
  <2>3. \A x \in S : x = <<x[1], x[2]>> /\ x[1] \in V /\ x[2] \in V
    BY BoundaryIs DEF OpenEdgesAt
  <2> HIDE DEF S, V
  <2>4. S \in SUBSET (V \X V)
    BY <2>3
  <2> QED BY <2>2, <2>4, FS_Subset
<1>2. Cardinality(S) <= 2 /\ Cardinality(S) \in Nat
  BY <1>1, FS_CardinalityType DEF Branches
<1> HIDE DEF S
<1>3. IsFiniteSet(S \ {e}) /\ Cardinality(S \ {e}) = Cardinality(S) - 1
  BY <1>1, FS_RemoveElement DEF S
<1>4. Cardinality(S \ {e}) <= 1
  BY <1>2, <1>3
<1>5. d \in S \ {e}
  BY DEF S
<1>6. \A x \in S \ {e} : x = d
  BY <1>3, <1>4, <1>5, OnlyOne
<1> QED BY <1>6 DEF S

(* So of two boundary edges at such a vertex, one leads there and one away. *)
LEMMA Through ==
    ASSUME given \in Surfaces, Oriented(given), NEW w \in 1..given.verts, ~Branches(w),
           NEW e \in Boundary, NEW d \in Boundary, e # d, w \in {e[1], e[2]}, w \in {d[1], d[2]}
    PROVE  /\ ~(Directed(e)[1] = w /\ Directed(d)[1] = w)
           /\ ~(Directed(e)[2] = w /\ Directed(d)[2] = w)
<1> DEFINE F == FacesOf(w)
           after == [f \in F |-> AfterAt(given.faces[f], w)]
           before == [f \in F |-> BeforeAt(given.faces[f], w)]
<1>1. w \in Nat /\ given.verts \in Nat
  BY GivenIs, MeshIs
<1>2. \A f \in F : /\ <<w, after[f]>> \in Sides(given.faces[f]) /\ <<before[f], w>> \in Sides(given.faces[f])
                   /\ \A y : <<w, y>> \in Sides(given.faces[f]) => y = after[f]
                   /\ \A y : <<y, w>> \in Sides(given.faces[f]) => y = before[f]
                   /\ \A y : Has(given.faces[f], y) /\ y # w => y = after[f] \/ y = before[f]
                   /\ after[f] # w /\ before[f] # w /\ after[f] # before[f]
  <2> SUFFICES ASSUME NEW f \in F
               PROVE  /\ <<w, after[f]>> \in Sides(given.faces[f]) /\ <<before[f], w>> \in Sides(given.faces[f])
                      /\ \A y : <<w, y>> \in Sides(given.faces[f]) => y = after[f]
                      /\ \A y : <<y, w>> \in Sides(given.faces[f]) => y = before[f]
                      /\ \A y : Has(given.faces[f], y) /\ y # w => y = after[f] \/ y = before[f]
                      /\ after[f] # w /\ before[f] # w /\ after[f] # before[f]
    OBVIOUS
  <2>1. \A i, j \in Place : i # j => given.faces[f][i] # given.faces[f][j]
    BY GivenIs, MeshIs DEF FacesOf
  <2>2. after[f] = AfterAt(given.faces[f], w) /\ before[f] = BeforeAt(given.faces[f], w)
    OBVIOUS
  <2>3. Has(given.faces[f], w) /\ f \in DOMAIN given.faces
    BY DEF FacesOf
  <2> HIDE DEF F, after, before
  <2> QED BY <2>1, <2>2, <2>3, AroundIs
<1> HIDE DEF after, before
<1>3. \A f \in F : Has(given.faces[f], after[f]) /\ Has(given.faces[f], before[f])
  BY <1>2, SideHas
<1>4. \A f \in F : after[f] \in Nat /\ before[f] \in Nat
  <2>1. \A f \in F : \A y : Has(given.faces[f], y) => y \in 1..given.verts
    BY GivenIs, MeshIs DEF Has, FacesOf
  <2> QED BY <1>3, <2>1
<1>5. OneToOne(after, F) /\ OneToOne(before, F)
  BY <1>2, OnceAlong DEF OneToOne, FacesOf
<1>6. \A x \in Boundary : w \in {x[1], x[2]} => x = e \/ x = d
  BY OpenTwo DEF OpenEdgesAt
<1>7. ASSUME NEW x \in {e, d}
      PROVE  \E f \in F : /\ FacesAt(given, x) = {f} /\ Directed(x) \in Sides(given.faces[f])
                          /\ Directed(x) = <<Directed(x)[1], Directed(x)[2]>>
                          /\ x = Edge(Directed(x)[1], Directed(x)[2])
                          /\ x = Edge(Directed(x)[2], Directed(x)[1])
  <2>1. x \in Boundary /\ w \in {x[1], x[2]}
    OBVIOUS
  <2>2. /\ x = <<x[1], x[2]>> /\ x[1] \in 1..given.verts /\ x[2] \in 1..given.verts /\ x[1] < x[2]
        /\ Directed(x) = <<Directed(x)[1], Directed(x)[2]>>
        /\ {Directed(x)[1], Directed(x)[2]} = {x[1], x[2]}
    BY <2>1, BoundaryIs
  <2>3. PICK f \in DOMAIN given.faces : FacesAt(given, x) = {f} /\ Directed(x) \in Sides(given.faces[f])
    BY <2>1, BoundaryIs
  <2>4. f \in F
    BY <2>1, <2>3 DEF FacesAt, FacesOf
  <2>5. x = Edge(Directed(x)[1], Directed(x)[2]) /\ x = Edge(Directed(x)[2], Directed(x)[1])
    BY <1>1, <2>2 DEF Edge
  <2> QED BY <2>2, <2>3, <2>4, <2>5
<1>8. PICK h \in F : /\ FacesAt(given, e) = {h} /\ Directed(e) \in Sides(given.faces[h])
                     /\ Directed(e) = <<Directed(e)[1], Directed(e)[2]>>
                     /\ e = Edge(Directed(e)[1], Directed(e)[2])
                     /\ e = Edge(Directed(e)[2], Directed(e)[1])
  BY <1>7
<1>9. PICK j \in F : /\ FacesAt(given, d) = {j} /\ Directed(d) \in Sides(given.faces[j])
                     /\ Directed(d) = <<Directed(d)[1], Directed(d)[2]>>
                     /\ d = Edge(Directed(d)[1], Directed(d)[2])
                     /\ d = Edge(Directed(d)[2], Directed(d)[1])
  BY <1>7
<1>10. WaysRound(w, before, after) /\ WaysRound(w, after, before)
  BY <1>2, <1>3, <1>4 DEF WaysRound
<1> HIDE DEF F
<1>11. ASSUME Directed(e)[1] = w, Directed(d)[1] = w PROVE FALSE
  <2>1. <<w, Directed(e)[2]>> \in Sides(given.faces[h]) /\ <<w, Directed(d)[2]>> \in Sides(given.faces[j])
    BY <1>8, <1>9, <1>11
  <2>2. Directed(e)[2] = after[h] /\ Directed(d)[2] = after[j]
    BY <1>2, <2>1
  <2>3. e = Edge(w, after[h]) /\ d = Edge(w, after[j])
    BY <1>8, <1>9, <1>11, <2>2
  <2>4. EndsWith(w, after, h, j)
    BY <1>6, <1>8, <1>9, <2>3 DEF EndsWith
  <2> QED BY <1>1, <1>5, <1>10, <2>4, Flow DEF F
<1>12. ASSUME Directed(e)[2] = w, Directed(d)[2] = w PROVE FALSE
  <2>1. <<Directed(e)[1], w>> \in Sides(given.faces[h]) /\ <<Directed(d)[1], w>> \in Sides(given.faces[j])
    BY <1>8, <1>9, <1>12
  <2>2. Directed(e)[1] = before[h] /\ Directed(d)[1] = before[j]
    BY <1>2, <2>1
  <2>3. e = Edge(w, before[h]) /\ d = Edge(w, before[j])
    BY <1>8, <1>9, <1>12, <2>2
  <2>4. EndsWith(w, before, h, j)
    BY <1>6, <1>8, <1>9, <2>3 DEF EndsWith
  <2> QED BY <1>1, <1>5, <1>10, <2>4, Flow DEF F
<1> QED BY <1>11, <1>12

-----------------------------------------------------------------------------
(* Filling step by step.                                                   *)

(* What is noted of each vertex, D being the boundary edges gone through:  *)
(* other ends of two of them, so far as there is anything.                 *)
NearIs(N, D) ==
    /\ N \in [1..given.verts -> Int \X Int]
    /\ \A v \in 1..given.verts : \A i \in {1, 2} :
         N[v][i] > 0 => N[v][i] \in 1..given.verts /\ Edge(v, N[v][i]) \in D
    /\ \A v \in 1..given.verts : N[v][1] > 0 /\ N[v][2] > 0 => N[v][1] # N[v][2]

(* One more edge at v is noted.                                            *)
NotYet(N, D, v, w) == Edge(v, w) \notin D \/ (N[v][1] # w /\ N[v][2] # w)

LEMMA NotedIs ==
    ASSUME given \in Surfaces, NEW N, NEW D, NEW P, NearIs(N, D), D \subseteq P,
           NEW v \in 1..given.verts, NEW w \in 1..given.verts,
           Edge(v, w) \in P, NotYet(N, D, v, w)
    PROVE  /\ NearIs(Noted(N, v, w), P)
           /\ \A u \in 1..given.verts : u # v => Noted(N, v, w)[u] = N[u]
<1> DEFINE M == Noted(N, v, w)
           V == 1..given.verts
<1>1. /\ N \in [V -> Int \X Int] /\ w \in Int /\ Branching \in Int /\ ~(Branching > 0) /\ w > 0
      /\ \A u \in V : \A i \in {1, 2} : N[u][i] > 0 => N[u][i] \in V /\ Edge(u, N[u][i]) \in D
      /\ \A u \in V : N[u][1] > 0 /\ N[u][2] > 0 => N[u][1] # N[u][2]
  BY GivenIs, MeshIs DEF NearIs, Branching
<1>2. N[v] \in Int \X Int /\ N[v] = <<N[v][1], N[v][2]>> /\ N[v][1] \in Int /\ N[v][2] \in Int
  BY <1>1
<1>3. N[v][1] # w /\ N[v][2] # w
  BY <1>1, <1>2 DEF NotYet
<1> DEFINE p == IF N[v][1] < 0 THEN <<w, N[v][2]>>
                ELSE <<N[v][1], IF N[v][2] < 0 THEN w ELSE Branching>>
<1>4. M = [N EXCEPT ![v] = p]
  <2>1. CASE N[v][1] < 0
    <3>1. [N[v] EXCEPT ![1] = w] = <<w, N[v][2]>>
      BY <1>2
    <3> QED BY <2>1, <3>1 DEF Noted
  <2>2. CASE ~(N[v][1] < 0)
    <3> DEFINE b == IF N[v][2] < 0 THEN w ELSE Branching
    <3>1. [N[v] EXCEPT ![2] = b] = <<N[v][1], b>>
      BY <1>2
    <3> QED BY <2>2, <3>1 DEF Noted
  <2> QED BY <2>1, <2>2
<1>5. M[v] = p /\ \A u \in V : u # v => M[u] = N[u]
  BY <1>1, <1>4
<1>6. /\ p \in Int \X Int
      /\ p[1] > 0 /\ p[2] > 0 => p[1] # p[2]
      /\ \A i \in {1, 2} : p[i] = w \/ p[i] = Branching \/ p[i] = N[v][i]
  BY <1>1, <1>2, <1>3
<1>7. M \in [V -> Int \X Int]
  BY <1>1, <1>4, <1>6
<1> HIDE DEF M, p
<1>8. ASSUME NEW u \in V, NEW i \in {1, 2}, M[u][i] > 0
      PROVE  M[u][i] \in V /\ Edge(u, M[u][i]) \in P
  <2>1. CASE u # v
    BY <1>1, <1>5, <1>8, <2>1
  <2>2. CASE u = v /\ p[i] = w
    BY <1>5, <2>2
  <2>3. CASE u = v /\ p[i] = Branching
    BY <1>1, <1>5, <1>8, <2>3
  <2>4. CASE u = v /\ p[i] = N[v][i]
    BY <1>1, <1>5, <1>8, <2>4
  <2> QED BY <1>6, <2>1, <2>2, <2>3, <2>4
<1>9. ASSUME NEW u \in V, M[u][1] > 0, M[u][2] > 0 PROVE M[u][1] # M[u][2]
  <2>1. CASE u # v
    BY <1>1, <1>5, <1>9, <2>1
  <2>2. CASE u = v
    BY <1>5, <1>6, <1>9, <2>2
  <2> QED BY <2>1, <2>2
<1> QED BY <1>5, <1>7, <1>8, <1>9 DEF NearIs, M

(* The boundary edge that a face of a cap covers.                          *)
Rim(t) == Edge(t[1], t[2])

(* The faces of C that meet at the edge from the vertex x of a cap to w.   *)
Spokes(C, x, w) == {i \in DOMAIN C : C[i][3] = x /\ w \in {C[i][1], C[i][2]}}

NoneOrTwo(S) == S = {} \/ \E i, j : i # j /\ S = {i, j}

(* Caps: each face runs along its edge the other way to a new vertex, no   *)
(* edge is covered twice, and two faces meet at an edge inside a cap.      *)
CapsAre(C, D, top) ==
    /\ C \in Seq(Nat \X Nat \X Nat)
    /\ \A i \in DOMAIN C : /\ C[i] = CapFace(Directed(Rim(C[i])), C[i][3])
                           /\ C[i][3] \in (given.verts + 1)..top
                           /\ Rim(C[i]) \in D
    /\ \A i, j \in DOMAIN C : Rim(C[i]) = Rim(C[j]) => i = j
    /\ \A x, w : NoneOrTwo(Spokes(C, x, w))

(* The vertex after the i-th of the loop.                                  *)
Onto(L, A, i) == IF i = Len(L) THEN A[2] ELSE L[i + 1]

(* The loop so far: a path without repetition along edges of D that no cap *)
(* covers, which enters and leaves a vertex by its two neighbours.         *)
LoopIs(L, A, D, C, N) ==
    /\ L \in Seq(1..given.verts) /\ Len(L) > 0
    /\ A \in (1..given.verts) \X (1..given.verts) /\ A[1] = L[Len(L)]
    /\ \A i, j \in DOMAIN L : L[i] = L[j] => i = j
    /\ \A i \in DOMAIN L : /\ Edge(L[i], Onto(L, A, i)) \in D
                           /\ \A j \in DOMAIN C : Rim(C[j]) # Edge(L[i], Onto(L, A, i))
    /\ \A i \in DOMAIN L : i > 1 => /\ {N[L[i]][1], N[L[i]][2]} = {L[i - 1], Onto(L, A, i)}
                                    /\ L[i - 1] # Onto(L, A, i)

LEMMA CapsMore ==
    ASSUME NEW C, NEW D, NEW P, NEW top, CapsAre(C, D, top), D \subseteq P
    PROVE  CapsAre(C, P, top)
  BY DEF CapsAre

(* A walk that goes on comes to a vertex it has not been to.               *)
LEMMA WalkOn ==
    ASSUME given \in Surfaces, NEW L, NEW A, NEW D, NEW C, NEW N, NEW P, NEW top,
           LoopIs(L, A, D, C, N), NearIs(N, Boundary), CapsAre(C, D, top),
           D \subseteq Boundary, D \subseteq P,
           A[2] # L[1], N[A[2]][1] > 0, N[A[2]][2] > 0,
           N[A[2]][1] = A[1] \/ N[A[2]][2] = A[1],
           NEW o, o = IF N[A[2]][1] = A[1] THEN N[A[2]][2] ELSE N[A[2]][1],
           Edge(A[2], o) \in P, Edge(A[2], o) \notin D
    PROVE  LoopIs(Append(L, A[2]), <<A[2], o>>, P, C, N)
<1> DEFINE v == A[2]
           n == Len(L)
           M == Append(L, v)
           B == <<v, o>>
           V == 1..given.verts
<1>1. /\ L \in Seq(V) /\ n \in Nat /\ n > 0 /\ DOMAIN L = 1..n
      /\ v \in V /\ A[1] \in V /\ A[1] = L[n]
      /\ \A i, j \in 1..n : L[i] = L[j] => i = j
      /\ \A i \in 1..n : L[i] \in V
  <2>1. L \in Seq(V) /\ n > 0 /\ A \in V \X V /\ A[1] = L[n]
    BY DEF LoopIs
  <2> HIDE DEF V
  <2>2. n \in Nat /\ DOMAIN L = 1..n
    BY <2>1
  <2>4. \A i \in 1..n : L[i] \in V
    BY <2>1, <2>2
  <2>5. A[1] \in V /\ A[2] \in V
    BY <2>1
  <2>3. \A i, j \in DOMAIN L : L[i] = L[j] => i = j
    BY DEF LoopIs
  <2> HIDE DEF n
  <2> QED BY <2>1, <2>2, <2>3, <2>4, <2>5
<1>2. \A i \in 1..n : /\ Edge(L[i], Onto(L, A, i)) \in D
                      /\ \A j \in DOMAIN C : Rim(C[j]) # Edge(L[i], Onto(L, A, i))
  BY <1>1 DEF LoopIs
<1>3. \A i \in 1..n : i > 1 => /\ {N[L[i]][1], N[L[i]][2]} = {L[i - 1], Onto(L, A, i)}
                               /\ L[i - 1] # Onto(L, A, i)
  BY <1>1 DEF LoopIs
<1>4. o \in V /\ {N[v][1], N[v][2]} = {A[1], o} /\ A[1] # o
  BY <1>1 DEF NearIs
<1>5. /\ M \in Seq(V) /\ Len(M) = n + 1 /\ DOMAIN M = 1..(n + 1) /\ M[n + 1] = v
      /\ \A i \in 1..n : M[i] = L[i]
  BY <1>1
<1>6. B[1] = v /\ B[2] = o /\ B \in V \X V
  BY <1>1, <1>4
<1> HIDE DEF n, M, B, v
<1>7. ASSUME NEW i \in 1..n, L[i] = v PROVE FALSE
  <2>1. i # 1
    BY <1>7 DEF v
  <2>2. i # n
    <3>1. SUFFICES ASSUME i = n PROVE FALSE
      OBVIOUS
    <3>2. Onto(L, A, n) = v
      BY DEF Onto, n, v
    <3>3. Edge(v, v) \in Boundary
      BY <1>2, <1>7, <3>1, <3>2
    <3>4. Edge(v, v)[1] < Edge(v, v)[2]
      BY <3>3, BoundaryIs
    <3>5. v \in Nat
      BY <1>1
    <3> QED BY <3>4, <3>5 DEF Edge
  <2>3. Onto(L, A, i) = L[i + 1] /\ i + 1 \in 1..n /\ i - 1 \in 1..n /\ i > 1
    <3>1. i + 1 \in 1..n /\ i - 1 \in 1..n /\ i > 1
      BY <1>1, <2>1, <2>2
    <3>2. Onto(L, A, i) = L[i + 1]
      BY <2>2 DEF Onto, n
    <3> QED BY <3>1, <3>2
  <2>4. {A[1], o} = {L[i - 1], L[i + 1]}
    BY <1>3, <1>4, <1>7, <2>3
  <2>5. n = i - 1 \/ n = i + 1
    <3>1. L[n] = L[i - 1] \/ L[n] = L[i + 1]
      BY <1>1, <2>4
    <3> QED BY <1>1, <2>3, <3>1
  <2>6. n = i + 1
    BY <1>1, <2>3, <2>5
  <2>7. Onto(L, A, n) = v
    BY DEF Onto, n, v
  <2>8. n > 1 /\ n - 1 = i /\ n \in 1..n
    BY <1>1, <2>3, <2>6
  <2>9. L[i] # v
    BY <1>3, <2>7, <2>8
  <2> QED BY <1>7, <2>9
<1>8. \A i \in 1..n : Onto(M, B, i) = Onto(L, A, i)
  <2> SUFFICES ASSUME NEW i \in 1..n PROVE Onto(M, B, i) = Onto(L, A, i)
    OBVIOUS
  <2>1. i # n + 1
    BY <1>1
  <2>2. CASE i = n
    BY <1>5, <2>1, <2>2 DEF Onto, n, v
  <2>3. CASE i # n
    <3>1. i + 1 \in 1..n
      BY <1>1, <2>3
    <3> QED BY <1>5, <2>1, <2>3, <3>1 DEF Onto, n
  <2> QED BY <2>2, <2>3
<1>9. Onto(M, B, n + 1) = o
  BY <1>5, <1>6 DEF Onto
<1>10. \A i \in 1..(n + 1) : i \in 1..n \/ i = n + 1
  BY <1>1
<1>11. ASSUME NEW i \in 1..(n + 1), NEW j \in 1..(n + 1), M[i] = M[j] PROVE i = j
  BY <1>1, <1>5, <1>7, <1>10, <1>11
<1>12. ASSUME NEW i \in 1..(n + 1)
       PROVE  /\ Edge(M[i], Onto(M, B, i)) \in P
              /\ \A j \in DOMAIN C : Rim(C[j]) # Edge(M[i], Onto(M, B, i))
  <2>1. CASE i \in 1..n
    BY <1>2, <1>5, <1>8, <2>1
  <2>2. CASE i = n + 1
    <3>1. \A j \in DOMAIN C : Rim(C[j]) \in D
      BY DEF CapsAre
    <3> QED BY <1>5, <1>9, <2>2, <3>1 DEF v
  <2> QED BY <1>10, <2>1, <2>2
<1>13. ASSUME NEW i \in 1..(n + 1), i > 1
       PROVE  /\ {N[M[i]][1], N[M[i]][2]} = {M[i - 1], Onto(M, B, i)}
              /\ M[i - 1] # Onto(M, B, i)
  <2>1. CASE i \in 1..n
    <3>1. i - 1 \in 1..n
      BY <1>1, <1>13, <2>1
    <3> QED BY <1>3, <1>5, <1>8, <1>13, <2>1, <3>1
  <2>2. CASE i = n + 1
    <3>1. i - 1 = n /\ n \in 1..n
      BY <1>1, <2>2
    <3>2. M[i - 1] = A[1] /\ M[i] = v /\ Onto(M, B, i) = o
      BY <1>1, <1>5, <1>9, <2>2, <3>1
    <3> QED BY <1>4, <3>2
  <2> QED BY <1>10, <2>1, <2>2
<1>14. Len(M) > 0 /\ B[1] = M[Len(M)]
  BY <1>1, <1>5, <1>6
<1>15. LoopIs(M, B, P, C, N)
  BY <1>5, <1>6, <1>11, <1>12, <1>13, <1>14 DEF LoopIs
<1> QED BY <1>15 DEF M, B, v

(* The place after k in a round of n.                                      *)
Beyond(n, k) == IF k = n THEN 1 ELSE k + 1

(* Around x: the edges of the round at the vertex of k are its own and the *)
(* one before.                                                             *)
LEMMA RoundIs ==
    ASSUME NEW n \in Nat, n >= 3
    PROVE  /\ \A i \in 1..n : Beyond(n, i) \in 1..n /\ Beyond(n, i) # i /\ Beyond(n, Beyond(n, i)) # i
           /\ \A k \in 1..n : \E j \in 1..n : \A i \in 1..n : Beyond(n, i) = k <=> i = j
<1>1. ASSUME NEW i \in 1..n
      PROVE  Beyond(n, i) \in 1..n /\ Beyond(n, i) # i /\ Beyond(n, Beyond(n, i)) # i
  BY DEF Beyond
<1>2. ASSUME NEW k \in 1..n PROVE \E j \in 1..n : \A i \in 1..n : Beyond(n, i) = k <=> i = j
  <2>1. CASE k = 1
    <3>1. \A i \in 1..n : Beyond(n, i) = k <=> i = n
      BY <2>1 DEF Beyond
    <3> QED BY <3>1
  <2>2. CASE k # 1
    <3>1. \A i \in 1..n : Beyond(n, i) = k <=> i = k - 1
      BY <2>2 DEF Beyond
    <3> QED BY <2>2, <3>1
  <2> QED BY <2>1, <2>2
<1> QED BY <1>1, <1>2

(* The edge of the loop at k, and the face of the cap there.               *)
LoopEdge(k) == Edge(loop[k], loop[Beyond(Len(loop), k)])

LEMMA FanFace ==
    ASSUME given \in Surfaces, NEW D, LoopIs(loop, ahead, D, caps, near), D \subseteq Boundary,
           ahead[2] = loop[1], Len(loop) >= 3, NEW centre \in Nat
    PROVE  /\ Len(loop) \in Nat /\ DOMAIN loop = 1..Len(loop)
           /\ Fan(centre) \in Seq(Nat \X Nat \X Nat) /\ Len(Fan(centre)) = Len(loop)
           /\ \A k \in 1..Len(loop) :
                LoopEdge(k) \in D /\ \A j \in DOMAIN caps : Rim(caps[j]) # LoopEdge(k)
           /\ \A k \in 1..Len(loop) : Fan(centre)[k] = CapFace(Directed(LoopEdge(k)), centre)
           /\ \A k \in 1..Len(loop) :
                Rim(Fan(centre)[k]) = LoopEdge(k) /\ Fan(centre)[k][3] = centre
           /\ \A k \in 1..Len(loop) :
                {Fan(centre)[k][1], Fan(centre)[k][2]} = {loop[k], loop[Beyond(Len(loop), k)]}
           /\ \A i, j \in 1..Len(loop) : LoopEdge(i) = LoopEdge(j) => i = j
<1> DEFINE n == Len(loop)
           V == 1..given.verts
           F == Fan(centre)
<1>1. /\ loop \in Seq(V) /\ n >= 3
      /\ \A i, j \in DOMAIN loop : loop[i] = loop[j] => i = j
  BY DEF LoopIs
<1>2. n \in Nat /\ DOMAIN loop = 1..n
  BY <1>1
<1>3. \A i \in 1..n : loop[i] \in V /\ loop[i] \in Nat
  <2>1. given.verts \in Nat
    BY GivenIs, MeshIs
  <2> QED BY <1>1, <1>2, <2>1
<1>4. \A i \in 1..n : Onto(loop, ahead, i) = loop[Beyond(n, i)]
  BY <1>1, <1>2 DEF Onto, Beyond
<1>5. \A i \in 1..n : (i % n) + 1 = Beyond(n, i)
  <2>1. SUFFICES ASSUME NEW i \in 1..n PROVE (i % n) + 1 = Beyond(n, i)
    OBVIOUS
  <2> HIDE DEF n
  <2>2. CASE i = n
    <3>1. i % n = 0
      BY <1>1, <1>2, <2>2
    <3> QED BY <2>2, <3>1 DEF Beyond
  <2>3. CASE i # n
    <3>1. i % n = i
      BY <1>1, <1>2, <2>3
    <3> QED BY <2>3, <3>1 DEF Beyond
  <2> QED BY <2>2, <2>3
<1>6. /\ F = [k \in 1..n |-> F[k]]
      /\ \A k \in 1..n : F[k] = CapFace(Directed(LoopEdge(k)), centre)
  BY <1>2, <1>5 DEF Fan, LoopEdge
<1>7. \A k \in 1..n : LoopEdge(k) \in D /\ \A j \in DOMAIN caps : Rim(caps[j]) # LoopEdge(k)
  BY <1>2, <1>4 DEF LoopIs, LoopEdge
<1> HIDE DEF n, F
<1>8. \A k \in 1..n : Beyond(n, k) \in 1..n /\ Beyond(n, k) # k /\ Beyond(n, Beyond(n, k)) # k
  BY <1>1, <1>2, RoundIs
<1>9. ASSUME NEW k \in 1..n
      PROVE  /\ Rim(F[k]) = LoopEdge(k) /\ F[k][3] = centre
             /\ {F[k][1], F[k][2]} = {loop[k], loop[Beyond(n, k)]}
             /\ F[k] \in Nat \X Nat \X Nat
  <2> DEFINE e == LoopEdge(k)
             s == Directed(e)
  <2>1. e \in Boundary
    BY <1>7
  <2>2. /\ e = <<e[1], e[2]>> /\ e[1] \in V /\ e[2] \in V /\ e[1] < e[2]
        /\ s = <<s[1], s[2]>> /\ {s[1], s[2]} = {e[1], e[2]}
    BY <2>1, BoundaryIs
  <2>3. {e[1], e[2]} = {loop[k], loop[Beyond(n, k)]}
    BY <1>3, <1>8, EdgeIs DEF LoopEdge, n
  <2>4. F[k] = <<s[2], s[1], centre>>
    BY <1>6, <2>2 DEF CapFace
  <2> HIDE DEF s, e
  <2>5. e[1] \in Nat /\ e[2] \in Nat /\ e[1] < e[2]
    <3>1. given.verts \in Nat
      BY GivenIs, MeshIs
    <3> QED BY <2>2, <3>1
  <2>6. (s[1] = e[1] /\ s[2] = e[2]) \/ (s[1] = e[2] /\ s[2] = e[1])
    BY <2>2, <2>5
  <2>7. Edge(s[2], s[1]) = <<e[1], e[2]>>
    BY <2>5, <2>6 DEF Edge
  <2>8. F[k][1] = s[2] /\ F[k][2] = s[1] /\ F[k][3] = centre
    BY <2>4
  <2>9. Rim(F[k]) = e
    BY <2>2, <2>7, <2>8 DEF Rim
  <2>10. {F[k][1], F[k][2]} = {loop[k], loop[Beyond(n, k)]}
    BY <2>2, <2>3, <2>8
  <2>11. F[k] \in Nat \X Nat \X Nat
    BY <2>4, <2>5, <2>6
  <2> QED BY <2>8, <2>9, <2>10, <2>11 DEF e
<1>10. F \in Seq(Nat \X Nat \X Nat) /\ Len(F) = n
  <2>1. \A k \in 1..n : F[k] \in Nat \X Nat \X Nat
    BY <1>9
  <2>2. F \in [1..n -> Nat \X Nat \X Nat]
    BY <1>6, <2>1
  <2> QED BY <1>2, <2>2
<1>11. ASSUME NEW i \in 1..n, NEW j \in 1..n, LoopEdge(i) = LoopEdge(j) PROVE i = j
  <2> DEFINE a == Beyond(n, i)
             b == Beyond(n, j)
  <2>1. a \in 1..n /\ b \in 1..n /\ Beyond(n, a) # i
    BY <1>8
  <2>2. {loop[i], loop[a]} = {loop[j], loop[b]}
    <3>1. {LoopEdge(i)[1], LoopEdge(i)[2]} = {loop[i], loop[a]}
      BY <1>3, <2>1, EdgeIs DEF LoopEdge, n
    <3>2. {LoopEdge(j)[1], LoopEdge(j)[2]} = {loop[j], loop[b]}
      BY <1>3, <2>1, EdgeIs DEF LoopEdge, n
    <3> QED BY <1>11, <3>1, <3>2
  <2>3. SUFFICES ASSUME i # j PROVE FALSE
    OBVIOUS
  <2> HIDE DEF a, b
  <2>4. i = b /\ a = j
    BY <1>1, <1>2, <2>1, <2>2, <2>3
  <2> QED BY <2>1, <2>4 DEF b
<1> QED BY <1>2, <1>6, <1>7, <1>9, <1>10, <1>11 DEF n, F

(* The cap of a loop that closes joins the caps.                           *)
LEMMA FanIs ==
    ASSUME given \in Surfaces, NEW D, NEW top \in Nat, given.verts <= top,
           LoopIs(loop, ahead, D, caps, near), CapsAre(caps, D, top), D \subseteq Boundary,
           ahead[2] = loop[1], Len(loop) >= 3
    PROVE  CapsAre(caps \o Fan(top + 1), D, top + 1)
<1> DEFINE n == Len(loop)
           m == Len(caps)
           F == Fan(top + 1)
           C == caps \o F
           T == Nat \X Nat \X Nat
<1>1. /\ n \in Nat /\ n >= 3 /\ F \in Seq(T) /\ Len(F) = n
      /\ \A k \in 1..n : LoopEdge(k) \in D /\ \A j \in DOMAIN caps : Rim(caps[j]) # LoopEdge(k)
      /\ \A k \in 1..n : F[k] = CapFace(Directed(LoopEdge(k)), top + 1)
      /\ \A k \in 1..n : Rim(F[k]) = LoopEdge(k) /\ F[k][3] = top + 1
      /\ \A k \in 1..n : {F[k][1], F[k][2]} = {loop[k], loop[Beyond(n, k)]}
      /\ \A i, j \in 1..n : LoopEdge(i) = LoopEdge(j) => i = j
  <2>1. top + 1 \in Nat /\ n >= 3
    OBVIOUS
  <2> QED BY <2>1, FanFace
<1>2. \A i, j \in 1..n : loop[i] = loop[j] => i = j
  <2>1. loop \in Seq(1..given.verts)
    BY DEF LoopIs
  <2>2. DOMAIN loop = 1..n
    BY <2>1
  <2>3. \A i, j \in DOMAIN loop : loop[i] = loop[j] => i = j
    BY DEF LoopIs
  <2> QED BY <2>2, <2>3
<1>3. /\ caps \in Seq(T)
      /\ \A i \in DOMAIN caps : /\ caps[i] = CapFace(Directed(Rim(caps[i])), caps[i][3])
                                /\ caps[i][3] \in (given.verts + 1)..top /\ Rim(caps[i]) \in D
      /\ \A i, j \in DOMAIN caps : Rim(caps[i]) = Rim(caps[j]) => i = j
      /\ \A x, w : NoneOrTwo(Spokes(caps, x, w))
  BY DEF CapsAre
<1> HIDE DEF n, F, T
<1>4. m \in Nat /\ DOMAIN caps = 1..m /\ DOMAIN F = 1..n
  BY <1>1, <1>3
<1>5. C \in Seq(T) /\ Len(C) = m + n /\ DOMAIN C = 1..(m + n)
  <2>1. C \in Seq(T) /\ Len(C) = m + n
    <3>1. caps \in Seq(T) /\ F \in Seq(T) /\ Len(F) = n
      BY <1>1, <1>3
    <3> QED BY <3>1
  <2> QED BY <2>1
<1>6. \A i \in 1..m : i \in DOMAIN C /\ C[i] = caps[i]
  BY <1>1, <1>3, <1>4, <1>5
<1>7. \A k \in 1..n : m + k \in DOMAIN C /\ C[m + k] = F[k]
  <2>1. SUFFICES ASSUME NEW k \in 1..n PROVE m + k \in DOMAIN C /\ C[m + k] = F[k]
    OBVIOUS
  <2>2. m + k \in 1..(m + n) /\ m + k > m /\ m + k - m = k
    BY <1>1, <1>4
  <2> HIDE DEF m
  <2> QED BY <1>1, <1>3, <1>5, <2>2 DEF m
<1>8. \A i \in DOMAIN C : i \in 1..m \/ \E k \in 1..n : i = m + k
  <2>1. SUFFICES ASSUME NEW i \in 1..(m + n), i \notin 1..m PROVE \E k \in 1..n : i = m + k
    BY <1>5
  <2>2. i - m \in 1..n /\ i = m + (i - m)
    BY <1>1, <1>4, <2>1
  <2> QED BY <2>2
<1> HIDE DEF m, C
<1> USE DEF T
<1>9. ASSUME NEW i \in DOMAIN C
      PROVE  /\ C[i] = CapFace(Directed(Rim(C[i])), C[i][3])
             /\ C[i][3] \in (given.verts + 1)..(top + 1) /\ Rim(C[i]) \in D
  <2>1. CASE i \in 1..m
    <3>1. given.verts \in Nat
      BY GivenIs, MeshIs
    <3>2. C[i][3] \in (given.verts + 1)..top
      BY <1>3, <1>4, <1>6, <2>1
    <3> QED BY <1>3, <1>4, <1>6, <2>1, <3>1, <3>2
  <2>2. ASSUME NEW k \in 1..n, i = m + k
        PROVE  /\ C[i] = CapFace(Directed(Rim(C[i])), C[i][3])
               /\ C[i][3] \in (given.verts + 1)..(top + 1) /\ Rim(C[i]) \in D
    <3>1. given.verts \in Nat
      BY GivenIs, MeshIs
    <3>2. C[i] = F[k] /\ C[i][3] = top + 1 /\ Rim(C[i]) = LoopEdge(k)
      BY <1>1, <1>7, <2>2
    <3>3. F[k] = CapFace(Directed(LoopEdge(k)), top + 1) /\ LoopEdge(k) \in D
      BY <1>1
    <3>4. top + 1 \in (given.verts + 1)..(top + 1)
      BY <3>1
    <3> QED BY <3>2, <3>3, <3>4
  <2> QED BY <1>8, <2>1, <2>2
<1>10. ASSUME NEW i \in DOMAIN C, NEW j \in DOMAIN C, Rim(C[i]) = Rim(C[j]) PROVE i = j
  <2>1. CASE i \in 1..m /\ j \in 1..m
    BY <1>3, <1>4, <1>6, <1>10, <2>1
  <2>2. ASSUME NEW k \in 1..n, NEW l \in 1..m PROVE Rim(C[l]) # Rim(C[m + k])
    <3>1. Rim(C[l]) = Rim(caps[l]) /\ l \in DOMAIN caps
      BY <1>4, <1>6
    <3>2. Rim(C[m + k]) = LoopEdge(k)
      BY <1>1, <1>7
    <3> QED BY <1>1, <3>1, <3>2
  <2>3. CASE i \in 1..m /\ \E k \in 1..n : j = m + k
    BY <1>10, <2>2, <2>3
  <2>5. CASE j \in 1..m /\ \E k \in 1..n : i = m + k
    BY <1>10, <2>2, <2>5
  <2>4. ASSUME NEW k \in 1..n, NEW l \in 1..n, i = m + k, j = m + l PROVE i = j
    <3>1. LoopEdge(k) = LoopEdge(l)
      BY <1>1, <1>7, <1>10, <2>4
    <3> QED BY <1>1, <2>4, <3>1
  <2> QED BY <1>8, <2>1, <2>3, <2>4, <2>5
<1>11. ASSUME NEW x, NEW w
       PROVE  NoneOrTwo(Spokes(C, x, w))
  <2>1. CASE x # top + 1
    <3>1. \A i : i \in Spokes(C, x, w) <=> i \in Spokes(caps, x, w)
      <4>1. \A i \in 1..m : i \in DOMAIN caps /\ (i \in Spokes(C, x, w) <=> i \in Spokes(caps, x, w))
        BY <1>4, <1>6 DEF Spokes
      <4>2. \A k \in 1..n : m + k \notin Spokes(C, x, w)
        BY <1>1, <1>7, <2>1 DEF Spokes
      <4>3. \A i : i \in Spokes(C, x, w) => i \in DOMAIN C
        BY DEF Spokes
      <4>4. \A i : i \in Spokes(caps, x, w) => i \in 1..m
        BY <1>4 DEF Spokes
      <4> QED BY <1>8, <4>1, <4>2, <4>3, <4>4
    <3>2. Spokes(C, x, w) = Spokes(caps, x, w)
      BY <3>1
    <3>3. NoneOrTwo(Spokes(caps, x, w))
      BY <1>3
    <3> QED BY <3>2, <3>3
  <2>2. CASE x = top + 1
    <3>1. \A i \in 1..m : i \notin Spokes(C, x, w)
      <4>1. given.verts \in Nat
        BY GivenIs, MeshIs
      <4>2. \A i \in 1..m : caps[i][3] # top + 1
        <5>1. SUFFICES ASSUME NEW i \in 1..m PROVE caps[i][3] # top + 1
          OBVIOUS
        <5>2. caps[i][3] \in (given.verts + 1)..top
          BY <1>3, <1>4
        <5> QED BY <4>1, <5>2
      <4> QED BY <1>6, <2>2, <4>2 DEF Spokes
    <3>2. \A k \in 1..n : m + k \in Spokes(C, x, w) <=> w = loop[k] \/ w = loop[Beyond(n, k)]
      <4>1. SUFFICES ASSUME NEW k \in 1..n
                     PROVE  m + k \in Spokes(C, x, w) <=> w = loop[k] \/ w = loop[Beyond(n, k)]
        OBVIOUS
      <4>2. m + k \in DOMAIN C /\ C[m + k] = F[k] /\ F[k][3] = x
            /\ {F[k][1], F[k][2]} = {loop[k], loop[Beyond(n, k)]}
        BY <1>1, <1>7, <2>2
      <4>3. m + k \in Spokes(C, x, w) <=> w \in {F[k][1], F[k][2]}
        BY <4>2 DEF Spokes
      <4> QED BY <4>2, <4>3
    <3>3. \A i : i \in Spokes(C, x, w) <=> \E k \in 1..n : i = m + k /\ (w = loop[k] \/ w = loop[Beyond(n, k)])
      <4>1. \A i : i \in Spokes(C, x, w) => i \in DOMAIN C
        BY DEF Spokes
      <4> QED BY <1>8, <3>1, <3>2, <4>1
    <3>4. \A k \in 1..n : Beyond(n, k) \in 1..n /\ Beyond(n, k) # k
      BY <1>1, RoundIs
    <3>5. CASE \A k \in 1..n : w # loop[k]
      <4>1. \A i : i \notin Spokes(C, x, w)
        BY <3>3, <3>4, <3>5
      <4> QED BY <4>1 DEF NoneOrTwo
    <3>6. ASSUME NEW k \in 1..n, w = loop[k]
          PROVE  NoneOrTwo(Spokes(C, x, w))
      <4>1. PICK l \in 1..n : \A i \in 1..n : Beyond(n, i) = k <=> i = l
        BY <1>1, RoundIs
      <4>2. l # k
        BY <3>4, <4>1
      <4>3. \A i \in 1..n : w = loop[i] \/ w = loop[Beyond(n, i)] <=> i = k \/ i = l
        BY <1>2, <3>4, <3>6, <4>1
      <4>4. \A i : i \in Spokes(C, x, w) <=> i = m + k \/ i = m + l
        BY <3>3, <4>3
      <4>5. m + k # m + l
        BY <1>4, <4>2
      <4>6. Spokes(C, x, w) = {m + k, m + l}
        BY <4>4
      <4> QED BY <4>5, <4>6 DEF NoneOrTwo
    <3> QED BY <3>5, <3>6
  <2> QED BY <2>1, <2>2
<1>12. CapsAre(C, D, top + 1)
  BY <1>5, <1>9, <1>10, <1>11 DEF CapsAre
<1> QED BY <1>12 DEF C, F

-----------------------------------------------------------------------------
(* The mesh with its caps.                                                 *)

(* A face of a cap: its boundary edge the other way, and a new vertex.     *)
LEMMA CapFaceIs ==
    ASSUME given \in Surfaces, NEW C, NEW D, NEW top, CapsAre(C, D, top), D \subseteq Boundary,
           NEW i \in DOMAIN C, NEW e, e = Rim(C[i]), NEW s, s = Directed(e), NEW x, x = C[i][3]
    PROVE  /\ e \in Boundary /\ C[i] = <<s[2], s[1], x>> /\ x \in Nat /\ x > given.verts
           /\ e = <<e[1], e[2]>> /\ e[1] \in 1..given.verts /\ e[2] \in 1..given.verts /\ e[1] < e[2]
           /\ (s[1] = e[1] /\ s[2] = e[2]) \/ (s[1] = e[2] /\ s[2] = e[1])
           /\ s = <<s[1], s[2]>>
           /\ Sides(C[i]) = {<<s[2], s[1]>>, <<s[1], x>>, <<x, s[2]>>}
           /\ \A v : Has(C[i], v) <=> v \in {s[1], s[2], x}
<1>1. C[i] = CapFace(s, x) /\ x \in (given.verts + 1)..top /\ e \in Boundary
  BY DEF CapsAre
<1>2. /\ e = <<e[1], e[2]>> /\ e[1] \in 1..given.verts /\ e[2] \in 1..given.verts /\ e[1] < e[2]
      /\ s = <<s[1], s[2]>> /\ {s[1], s[2]} = {e[1], e[2]}
  BY <1>1, BoundaryIs
<1>3. given.verts \in Nat
  BY GivenIs, MeshIs
<1>4. x \in Nat /\ x > given.verts
  BY <1>1, <1>3
<1>5. C[i] = <<s[2], s[1], x>>
  BY <1>1 DEF CapFace
<1>6. (s[1] = e[1] /\ s[2] = e[2]) \/ (s[1] = e[2] /\ s[2] = e[1])
  <2>1. e[1] # e[2]
    BY <1>2, <1>3
  <2> QED BY <1>2, <2>1
<1>7. /\ Sides(C[i]) = {<<s[2], s[1]>>, <<s[1], x>>, <<x, s[2]>>}
      /\ \A v : Has(C[i], v) <=> v \in {s[1], s[2], x}
  BY <1>5, SidesAre
<1> QED BY <1>1, <1>2, <1>4, <1>5, <1>6, <1>7

(* An edge of the mesh gains the face of the cap that covers it.           *)
Capped(m, C) == m.faces = given.faces \o C
Covering(C, e) == {i \in DOMAIN C : Rim(C[i]) = e}

(* Its faces are those it had, numbered up to n, and after them the caps'. *)
CapsAppended(m, C, n) ==
    /\ n \in Nat
    /\ \A f \in DOMAIN given.faces : f \in 1..n /\ f \in DOMAIN m.faces /\ m.faces[f] = given.faces[f]
    /\ \A i \in DOMAIN C : i \in Nat /\ i > 0 /\ n + i \in DOMAIN m.faces /\ m.faces[n + i] = C[i]
    /\ \A f \in DOMAIN m.faces : f \in DOMAIN given.faces \/ \E i \in DOMAIN C : f = n + i

LEMMA CappedIs ==
    ASSUME given \in Surfaces, NEW C, NEW D, NEW top, CapsAre(C, D, top), NEW m, Capped(m, C)
    PROVE  CapsAppended(m, C, Len(given.faces))
<1> DEFINE T == Nat \X Nat \X Nat
           k == Len(C)
           n == Len(given.faces)
<1>1. n \in Nat /\ DOMAIN given.faces = 1..n
  BY GivenIs, MeshIs
<1>2. given.faces \in Seq(TrianglesOn(given.verts)) /\ C \in Seq(T)
  BY GivenIs DEF Valid, CapsAre
<1>3. k \in Nat /\ DOMAIN C = 1..k
  BY <1>2
<1>4. /\ Len(m.faces) = n + k /\ DOMAIN m.faces = 1..(n + k)
      /\ \A f \in 1..(n + k) : m.faces[f] = IF f <= n THEN given.faces[f] ELSE C[f - n]
  <2> DEFINE U == T \cup TrianglesOn(given.verts)
  <2>1. given.faces \in Seq(U) /\ C \in Seq(U)
    BY <1>2
  <2>2. m.faces = given.faces \o C
    BY DEF Capped
  <2> HIDE DEF U
  <2>3. m.faces \in Seq(U) /\ Len(m.faces) = n + k
        /\ \A f \in 1..(n + k) : m.faces[f] = IF f <= n THEN given.faces[f] ELSE C[f - n]
    BY <2>1, <2>2, ConcatProperties
  <2> HIDE DEF k
  <2>4. DOMAIN m.faces = 1..(n + k)
    BY <2>3
  <2> QED BY <2>3, <2>4
<1> HIDE DEF k, n
<1>5. ASSUME NEW f \in 1..n PROVE f \in DOMAIN m.faces /\ m.faces[f] = given.faces[f]
  BY <1>1, <1>3, <1>4
<1>6. ASSUME NEW i \in 1..k PROVE i \in Nat /\ i > 0 /\ n + i \in DOMAIN m.faces /\ m.faces[n + i] = C[i]
  <2>1. n + i \in 1..(n + k) /\ ~(n + i <= n) /\ (n + i) - n = i
    BY <1>1, <1>3
  <2> QED BY <1>4, <2>1
<1>7. ASSUME NEW f \in 1..(n + k), f \notin 1..n PROVE \E i \in 1..k : f = n + i
  <2>1. f - n \in 1..k /\ f = n + (f - n)
    BY <1>1, <1>3, <1>7
  <2> QED BY <2>1
<1>8. CapsAppended(m, C, n)
  BY <1>1, <1>3, <1>4, <1>5, <1>6, <1>7 DEF CapsAppended
<1> QED BY <1>8 DEF n

LEMMA FacesOfEdge ==
    ASSUME given \in Surfaces, NEW C, NEW top, CapsAre(C, Boundary, top), NEW m, Capped(m, C),
           NEW e \in EdgesOf(given)
    PROVE  FacesAt(m, e) = FacesAt(given, e) \cup {Len(given.faces) + i : i \in Covering(C, e)}
<1> DEFINE n == Len(given.faces)
           S == {n + i : i \in Covering(C, e)}
<1>1. e = <<e[1], e[2]>> /\ e[1] \in 1..given.verts /\ e[2] \in 1..given.verts /\ e[1] < e[2]
  BY GivenIs, EdgesAre
<1>2. given.verts \in Nat
  BY GivenIs, MeshIs
<1>3. CapsAppended(m, C, n)
  BY CappedIs
<1> HIDE DEF n
<1>4. ASSUME NEW i \in DOMAIN C PROVE Has(C[i], e[1]) /\ Has(C[i], e[2]) <=> Rim(C[i]) = e
  <2> DEFINE b == Rim(C[i])
             s == Directed(b)
             x == C[i][3]
  <2>1. /\ x \in Nat /\ x > given.verts
        /\ b = <<b[1], b[2]>> /\ b[1] \in 1..given.verts /\ b[2] \in 1..given.verts /\ b[1] < b[2]
        /\ (s[1] = b[1] /\ s[2] = b[2]) \/ (s[1] = b[2] /\ s[2] = b[1])
        /\ \A v : Has(C[i], v) <=> v \in {s[1], s[2], x}
    BY CapFaceIs
  <2> HIDE DEF b, s, x
  <2>2. \A v \in 1..given.verts : Has(C[i], v) <=> v \in {b[1], b[2]}
    BY <1>2, <2>1
  <2>3. Has(C[i], e[1]) /\ Has(C[i], e[2]) <=> e[1] \in {b[1], b[2]} /\ e[2] \in {b[1], b[2]}
    BY <1>1, <2>2
  <2>4. e[1] \in {b[1], b[2]} /\ e[2] \in {b[1], b[2]} <=> e[1] = b[1] /\ e[2] = b[2]
    BY <1>1, <1>2, <2>1
  <2>5. e[1] = b[1] /\ e[2] = b[2] <=> b = e
    BY <1>1, <2>1
  <2> QED BY <2>3, <2>4, <2>5 DEF b
<1>5. \A f \in DOMAIN given.faces : f \in FacesAt(m, e) <=> f \in FacesAt(given, e)
  BY <1>3 DEF FacesAt, CapsAppended
<1>6. \A i \in DOMAIN C : n + i \in FacesAt(m, e) <=> i \in Covering(C, e)
  BY <1>3, <1>4 DEF FacesAt, Covering, CapsAppended
<1>7. \A f : f \in FacesAt(m, e) => f \in DOMAIN m.faces
  BY DEF FacesAt
<1>8. \A f : f \in FacesAt(given, e) => f \in DOMAIN given.faces
  BY DEF FacesAt
<1>9. \A i : i \in Covering(C, e) => i \in DOMAIN C
  BY DEF Covering
<1>10. \A f : f \in FacesAt(m, e) <=> f \in FacesAt(given, e) \/ \E i \in Covering(C, e) : f = n + i
  <2>1. ASSUME NEW f, f \in FacesAt(m, e) PROVE f \in FacesAt(given, e) \/ \E i \in Covering(C, e) : f = n + i
    BY <1>3, <1>5, <1>6, <1>7, <2>1 DEF CapsAppended
  <2>2. ASSUME NEW f, f \in FacesAt(given, e) PROVE f \in FacesAt(m, e)
    BY <1>5, <1>8, <2>2
  <2>3. ASSUME NEW f, NEW i \in Covering(C, e), f = n + i PROVE f \in FacesAt(m, e)
    BY <1>6, <1>9, <2>3
  <2> QED BY <2>1, <2>2, <2>3
<1>11. FacesAt(m, e) = FacesAt(given, e) \cup S
  BY <1>10
<1> QED BY <1>11 DEF n

(* What HolesClosed says of the mesh m.                                    *)
CapsClosed(m) ==
    /\ \A e \in EdgesOf(given) :
         \/ Count(m, e) = Count(given, e)
         \/ e \in Boundary /\ Along(m, e) = 1 /\ Along(m, <<e[2], e[1]>>) = 1
    /\ \A e \in EdgesOf(m) \ EdgesOf(given) : Count(m, e) = 2
    /\ Oriented(given) /\ (\A v \in 1..given.verts : ~Branches(v)) => Oriented(m)

(* The sides of a face lie along its edges.                                *)
LEMMA SideAt ==
    ASSUME NEW m, NEW f \in DOMAIN m.faces, NEW a, NEW b, NEW e, {e[1], e[2]} = {a, b},
           <<a, b>> \in Sides(m.faces[f])
    PROVE  f \in FacesAt(m, e)
<1>1. Has(m.faces[f], a) /\ Has(m.faces[f], b)
  BY SideHas
<1> QED BY <1>1 DEF FacesAt

(* A covered edge has its old face one way and that of the cap the other.  *)
LEMMA CoveredIs ==
    ASSUME given \in Surfaces, NEW C, NEW top, CapsAre(C, Boundary, top), NEW m, Capped(m, C),
           NEW j \in DOMAIN C, NEW e, e = Rim(C[j])
    PROVE  e \in Boundary /\ Along(m, e) = 1 /\ Along(m, <<e[2], e[1]>>) = 1
<1> DEFINE n == Len(given.faces)
           s == Directed(e)
           r == <<s[2], s[1]>>
           x == C[j][3]
           On(t) == {f \in DOMAIN m.faces : t \in Sides(m.faces[f])}
<1>1. /\ e \in Boundary /\ x \in Nat /\ x > given.verts
      /\ e = <<e[1], e[2]>> /\ e[1] \in 1..given.verts /\ e[2] \in 1..given.verts /\ e[1] < e[2]
      /\ (s[1] = e[1] /\ s[2] = e[2]) \/ (s[1] = e[2] /\ s[2] = e[1])
      /\ s = <<s[1], s[2]>>
      /\ Sides(C[j]) = {<<s[2], s[1]>>, <<s[1], x>>, <<x, s[2]>>}
  <2> HIDE DEF s, x
  <2> QED BY CapFaceIs DEF s, x
<1>2. PICK f \in DOMAIN given.faces :
        FacesAt(given, e) = {f} /\ s \in Sides(given.faces[f]) /\ r \notin Sides(given.faces[f])
  BY <1>1, BoundaryIs
<1>3. CapsAppended(m, C, n)
  BY CappedIs
<1> HIDE DEF n
<1>4. Covering(C, e) = {j}
  <2>1. \A i \in DOMAIN C : Rim(C[i]) = e => i = j
    BY DEF CapsAre
  <2> QED BY <2>1 DEF Covering
<1>5. FacesAt(m, e) = {f, n + j}
  <2>1. e \in EdgesOf(given)
    BY <1>1 DEF Boundary
  <2>2. FacesAt(m, e) = FacesAt(given, e) \cup {n + i : i \in Covering(C, e)}
    BY <2>1, FacesOfEdge DEF n
  <2> QED BY <1>2, <1>4, <2>2
<1>6. given.verts \in Nat /\ s[1] # s[2] /\ x # s[1] /\ x # s[2]
  BY <1>1, GivenIs, MeshIs
<1> HIDE DEF s, x
<1>7. /\ f \in DOMAIN m.faces /\ m.faces[f] = given.faces[f]
      /\ n + j \in DOMAIN m.faces /\ m.faces[n + j] = C[j] /\ f # n + j
  BY <1>3 DEF CapsAppended
<1>8. s \notin Sides(C[j]) /\ r \in Sides(C[j])
  BY <1>1, <1>6
<1>9. {e[1], e[2]} = {s[1], s[2]} /\ {e[1], e[2]} = {s[2], s[1]}
  BY <1>1
<1>10. On(s) = {f}
  <2>1. \A g : g \in On(s) => g \in FacesAt(m, e)
    BY <1>1, <1>9, SideAt
  <2>2. \A g : g \in On(s) <=> g = f
    BY <1>2, <1>5, <1>7, <1>8, <2>1
  <2> HIDE DEF On
  <2> QED BY <2>2
<1>11. On(r) = {n + j}
  <2>1. \A g : g \in On(r) => g \in FacesAt(m, e)
    BY <1>9, SideAt
  <2>2. \A g : g \in On(r) <=> g = n + j
    BY <1>2, <1>5, <1>7, <1>8, <2>1
  <2> HIDE DEF On
  <2> QED BY <2>2
<1>12. \A t : Along(m, t) = Cardinality(On(t))
  BY DEF Along
<1> HIDE DEF On
<1>13. Along(m, s) = 1 /\ Along(m, r) = 1
  <2>1. Cardinality({f}) = 1 /\ Cardinality({n + j}) = 1
    BY FS_Singleton
  <2> QED BY <1>10, <1>11, <1>12, <2>1
<1>14. CASE s[1] = e[1] /\ s[2] = e[2]
  <2>1. e = s /\ <<e[2], e[1]>> = r
    BY <1>1, <1>14
  <2> QED BY <1>1, <1>13, <2>1
<1>15. CASE s[1] = e[2] /\ s[2] = e[1]
  <2>1. e = r /\ <<e[2], e[1]>> = s
    BY <1>1, <1>15
  <2> QED BY <1>1, <1>13, <2>1
<1> QED BY <1>1, <1>14, <1>15

(* An edge that no cap covers has the faces it had.                        *)
LEMMA UncoveredIs ==
    ASSUME given \in Surfaces, NEW C, NEW top, CapsAre(C, Boundary, top), NEW m, Capped(m, C),
           NEW e \in EdgesOf(given), \A j \in DOMAIN C : Rim(C[j]) # e
    PROVE  /\ Count(m, e) = Count(given, e) /\ Along(m, e) = Along(given, e)
           /\ Along(m, <<e[2], e[1]>>) = Along(given, <<e[2], e[1]>>)
<1>1. FacesAt(m, e) = FacesAt(given, e)
  <2>1. Covering(C, e) = {}
    BY DEF Covering
  <2>2. FacesAt(m, e) = FacesAt(given, e) \cup {Len(given.faces) + i : i \in Covering(C, e)}
    BY FacesOfEdge
  <2> QED BY <2>1, <2>2
<1>2. CapsAppended(m, C, Len(given.faces))
  BY CappedIs
<1>3. e = <<e[1], e[2]>>
  BY GivenIs, EdgesAre
<1>4. ASSUME NEW a, NEW b, {e[1], e[2]} = {a, b} PROVE Along(m, <<a, b>>) = Along(given, <<a, b>>)
  <2> DEFINE On(k) == {f \in DOMAIN k.faces : <<a, b>> \in Sides(k.faces[f])}
  <2>1. \A f : f \in On(m) => f \in FacesAt(m, e)
    BY <1>4, SideAt
  <2>2. \A f : f \in FacesAt(given, e) => f \in DOMAIN given.faces
    BY DEF FacesAt
  <2>3. \A f : f \in On(m) <=> f \in On(given)
    BY <1>1, <1>2, <2>1, <2>2 DEF CapsAppended
  <2>4. On(m) = On(given)
    <3> HIDE DEF On
    <3> QED BY <2>3
  <2>5. Along(m, <<a, b>>) = Cardinality(On(m)) /\ Along(given, <<a, b>>) = Cardinality(On(given))
    BY DEF Along
  <2> QED BY <2>4, <2>5
<1>5. Along(m, <<e[1], e[2]>>) = Along(given, <<e[1], e[2]>>)
  BY <1>4
<1>6. Along(m, <<e[2], e[1]>>) = Along(given, <<e[2], e[1]>>)
  BY <1>4
<1> QED BY <1>1, <1>3, <1>5, <1>6 DEF Count

(* An edge the mesh did not have joins the vertex of a cap to one of its   *)
(* loop, where two faces of the cap meet.                                  *)
InsideCap(m, C, e, n) ==
    \E w \in 1..given.verts, x \in Nat, i \in DOMAIN C, k \in DOMAIN C :
      /\ x > given.verts /\ e = <<w, x>> /\ i # k /\ Spokes(C, x, w) = {i, k}
      /\ FacesAt(m, e) = {n + i, n + k}

LEMMA NewEdgeIs ==
    ASSUME given \in Surfaces, NEW C, NEW top, CapsAre(C, Boundary, top), NEW m, Capped(m, C),
           NEW e \in EdgesOf(m), e \notin EdgesOf(given)
    PROVE  InsideCap(m, C, e, Len(given.faces))
<1> DEFINE n == Len(given.faces)
<1>1. CapsAppended(m, C, n)
  BY CappedIs
<1> HIDE DEF n
<1>2. given.verts \in Nat
  BY GivenIs, MeshIs
<1>3. PICK j \in DOMAIN C : \E t \in Sides(C[j]) : e = Edge(t[1], t[2])
  <2>1. PICK f \in DOMAIN m.faces : \E t \in Sides(m.faces[f]) : e = Edge(t[1], t[2])
    BY DEF EdgesOf
  <2>2. f \notin DOMAIN given.faces
    <3>1. SUFFICES ASSUME f \in DOMAIN given.faces PROVE FALSE
      OBVIOUS
    <3>2. \E t \in Sides(given.faces[f]) : e = Edge(t[1], t[2])
      BY <1>1, <2>1, <3>1 DEF CapsAppended
    <3>3. e \in EdgesOf(given)
      BY <3>1, <3>2 DEF EdgesOf
    <3> QED BY <3>3
  <2>3. PICK j \in DOMAIN C : f = n + j
    BY <1>1, <2>2 DEF CapsAppended
  <2>4. m.faces[f] = C[j]
    BY <1>1, <2>3 DEF CapsAppended
  <2> QED BY <2>1, <2>4
<1> DEFINE b == Rim(C[j])
           s == Directed(b)
           x == C[j][3]
<1>4. /\ b \in Boundary /\ x \in Nat /\ x > given.verts
      /\ b = <<b[1], b[2]>> /\ b[1] \in 1..given.verts /\ b[2] \in 1..given.verts /\ b[1] < b[2]
      /\ (s[1] = b[1] /\ s[2] = b[2]) \/ (s[1] = b[2] /\ s[2] = b[1])
      /\ C[j] = <<s[2], s[1], x>>
      /\ Sides(C[j]) = {<<s[2], s[1]>>, <<s[1], x>>, <<x, s[2]>>}
  <2> HIDE DEF b, s, x
  <2> QED BY CapFaceIs DEF b, s, x
<1> HIDE DEF b, s, x
<1>5. s[1] \in 1..given.verts /\ s[2] \in 1..given.verts
  BY <1>4
<1>6. PICK w \in {s[1], s[2]} : e = <<w, x>>
  <2>1. PICK t \in Sides(C[j]) : e = Edge(t[1], t[2])
    BY <1>3
  <2>2. CASE t = <<s[2], s[1]>>
    <3>1. e = Edge(s[2], s[1])
      BY <2>1, <2>2
    <3>2. Edge(s[2], s[1]) = b
      BY <1>2, <1>4 DEF Edge
    <3>3. b \in EdgesOf(given)
      BY <1>4 DEF Boundary
    <3> QED BY <3>1, <3>2, <3>3
  <2>3. CASE t = <<s[1], x>>
    <3>1. e = Edge(s[1], x)
      BY <2>1, <2>3
    <3>2. Edge(s[1], x) = <<s[1], x>>
      BY <1>2, <1>4, <1>5 DEF Edge
    <3> QED BY <3>1, <3>2
  <2>4. CASE t = <<x, s[2]>>
    <3>1. e = Edge(x, s[2])
      BY <2>1, <2>4
    <3>2. Edge(x, s[2]) = <<s[2], x>>
      BY <1>2, <1>4, <1>5 DEF Edge
    <3> QED BY <3>1, <3>2
  <2> QED BY <1>4, <2>1, <2>2, <2>3, <2>4
<1>7. w \in 1..given.verts /\ w # x
  BY <1>2, <1>4, <1>5
<1>8. j \in Spokes(C, x, w)
  BY <1>4, <1>6 DEF Spokes
<1>9. PICK i, k : i # k /\ Spokes(C, x, w) = {i, k}
  <2>1. NoneOrTwo(Spokes(C, x, w))
    BY DEF CapsAre
  <2> QED BY <1>8, <2>1 DEF NoneOrTwo
<1>10. i \in DOMAIN C /\ k \in DOMAIN C
  <2>1. \A l \in Spokes(C, x, w) : l \in DOMAIN C
    BY DEF Spokes
  <2> QED BY <1>9, <2>1
<1>11. ASSUME NEW l \in DOMAIN C PROVE n + l \in FacesAt(m, e) <=> l \in Spokes(C, x, w)
  <2> DEFINE d == Rim(C[l])
             p == Directed(d)
             y == C[l][3]
  <2>1. /\ y \in Nat /\ y > given.verts
        /\ d[1] \in 1..given.verts /\ d[2] \in 1..given.verts
        /\ (p[1] = d[1] /\ p[2] = d[2]) \/ (p[1] = d[2] /\ p[2] = d[1])
        /\ C[l] = <<p[2], p[1], y>>
        /\ \A v : Has(C[l], v) <=> v \in {p[1], p[2], y}
    <3> HIDE DEF d, p, y
    <3> QED BY CapFaceIs DEF d, p, y
  <2> HIDE DEF d, p, y
  <2>2. p[1] \in 1..given.verts /\ p[2] \in 1..given.verts
    BY <2>1
  <2>3. Has(C[l], x) <=> y = x
    BY <1>2, <1>4, <2>1, <2>2
  <2>4. Has(C[l], w) <=> w \in {p[1], p[2]}
    BY <1>2, <1>7, <2>1
  <2>5. n + l \in DOMAIN m.faces /\ m.faces[n + l] = C[l]
    BY <1>1 DEF CapsAppended
  <2>6. n + l \in FacesAt(m, e) <=> Has(C[l], w) /\ Has(C[l], x)
    BY <1>6, <2>5 DEF FacesAt
  <2>7. C[l][1] = p[2] /\ C[l][2] = p[1] /\ C[l][3] = y
    BY <2>1
  <2>8. l \in Spokes(C, x, w) <=> y = x /\ w \in {p[1], p[2]}
    BY <2>7 DEF Spokes
  <2> QED BY <2>3, <2>4, <2>6, <2>8
<1>12. ASSUME NEW f \in DOMAIN given.faces PROVE f \notin FacesAt(m, e)
  <2>1. \A v : Has(given.faces[f], v) => v \in 1..given.verts
    BY GivenIs, MeshIs DEF Has
  <2>2. ~Has(given.faces[f], x)
    BY <1>2, <1>4, <2>1
  <2>3. m.faces[f] = given.faces[f]
    BY <1>1 DEF CapsAppended
  <2> QED BY <1>6, <2>2, <2>3 DEF FacesAt
<1>13. \A f : f \in FacesAt(m, e) <=> f = n + i \/ f = n + k
  <2>1. ASSUME NEW f, f \in FacesAt(m, e) PROVE f = n + i \/ f = n + k
    <3>1. f \in DOMAIN m.faces
      BY <2>1 DEF FacesAt
    <3>2. PICK l \in DOMAIN C : f = n + l
      BY <1>1, <1>12, <2>1, <3>1 DEF CapsAppended
    <3> QED BY <1>9, <1>11, <2>1, <3>2
  <2>2. n + i \in FacesAt(m, e) /\ n + k \in FacesAt(m, e)
    BY <1>9, <1>10, <1>11
  <2> QED BY <2>1, <2>2
<1>14. FacesAt(m, e) = {n + i, n + k}
  BY <1>13
<1>15. InsideCap(m, C, e, n)
  BY <1>4, <1>6, <1>7, <1>9, <1>10, <1>14 DEF InsideCap
<1> QED BY <1>15 DEF n

(* A set without two members has no more than one.                         *)
LEMMA AtMostOne ==
    ASSUME NEW S, \A x, y \in S : x = y
    PROVE  Cardinality(S) <= 1
<1>1. CASE S = {}
  BY <1>1, FS_EmptySet
<1>2. CASE S # {}
  <2>1. PICK x : S = {x}
    BY <1>2
  <2> QED BY <2>1, FS_Singleton
<1> QED BY <1>1, <1>2

(* Where no boundary branches, the faces of a cap at such an edge run along *)
(* it in opposite ways.                                                    *)
LEMMA NewEdgeOnce ==
    ASSUME given \in Surfaces, Oriented(given), \A v \in 1..given.verts : ~Branches(v),
           NEW C, NEW top, CapsAre(C, Boundary, top), NEW m, Capped(m, C),
           NEW e \in EdgesOf(m), e \notin EdgesOf(given)
    PROVE  Along(m, e) <= 1 /\ Along(m, <<e[2], e[1]>>) <= 1
<1> DEFINE n == Len(given.faces)
<1>1. PICK w \in 1..given.verts, x \in Nat, i \in DOMAIN C, k \in DOMAIN C :
        /\ x > given.verts /\ e = <<w, x>> /\ i # k /\ Spokes(C, x, w) = {i, k}
        /\ FacesAt(m, e) = {n + i, n + k}
  BY NewEdgeIs DEF InsideCap
<1>2. CapsAppended(m, C, n)
  BY CappedIs
<1> HIDE DEF n
<1>3. given.verts \in Nat
  BY GivenIs, MeshIs
<1>4. ASSUME NEW l \in {i, k}
      PROVE  /\ Rim(C[l]) \in Boundary /\ w \in {Rim(C[l])[1], Rim(C[l])[2]}
             /\ n + l \in DOMAIN m.faces /\ m.faces[n + l] = C[l]
             /\ <<w, x>> \in Sides(C[l]) => Directed(Rim(C[l]))[1] = w
             /\ <<x, w>> \in Sides(C[l]) => Directed(Rim(C[l]))[2] = w
  <2> DEFINE d == Rim(C[l])
             p == Directed(d)
             y == C[l][3]
  <2>1. l \in DOMAIN C
    BY <1>1
  <2>2. /\ d \in Boundary /\ y \in Nat /\ y > given.verts
        /\ d[1] \in 1..given.verts /\ d[2] \in 1..given.verts
        /\ (p[1] = d[1] /\ p[2] = d[2]) \/ (p[1] = d[2] /\ p[2] = d[1])
        /\ C[l] = <<p[2], p[1], y>>
        /\ Sides(C[l]) = {<<p[2], p[1]>>, <<p[1], y>>, <<y, p[2]>>}
    <3> HIDE DEF d, p, y
    <3> QED BY <2>1, CapFaceIs DEF d, p, y
  <2> HIDE DEF d, p, y
  <2>3. p[1] \in 1..given.verts /\ p[2] \in 1..given.verts
    BY <2>2
  <2>4. l \in Spokes(C, x, w)
    BY <1>1
  <2>5. w \in {p[1], p[2]}
    BY <2>2, <2>4 DEF Spokes
  <2>6. p[1] # x /\ p[2] # x /\ p[1] # y /\ p[2] # y /\ w # x /\ w # y
    BY <1>1, <1>3, <2>2, <2>3
  <2>7. <<w, x>> \in Sides(C[l]) => p[1] = w
    BY <2>2, <2>6
  <2>8. <<x, w>> \in Sides(C[l]) => p[2] = w
    BY <2>2, <2>6
  <2>9. n + l \in DOMAIN m.faces /\ m.faces[n + l] = C[l]
    BY <1>2, <2>1 DEF CapsAppended
  <2>10. w \in {d[1], d[2]}
    BY <2>2, <2>5
  <2> QED BY <2>2, <2>7, <2>8, <2>9, <2>10 DEF d, p
<1>5. Rim(C[i]) # Rim(C[k])
  BY <1>1 DEF CapsAre
<1>6. /\ ~(Directed(Rim(C[i]))[1] = w /\ Directed(Rim(C[k]))[1] = w)
      /\ ~(Directed(Rim(C[i]))[2] = w /\ Directed(Rim(C[k]))[2] = w)
  <2>1. ~Branches(w)
    OBVIOUS
  <2>2. /\ Rim(C[i]) \in Boundary /\ w \in {Rim(C[i])[1], Rim(C[i])[2]}
        /\ Rim(C[k]) \in Boundary /\ w \in {Rim(C[k])[1], Rim(C[k])[2]}
    BY <1>4
  <2> QED BY <1>5, <2>1, <2>2, Through
<1>7. ASSUME NEW a, NEW b, {a, b} = {w, x},
             ~(<<a, b>> \in Sides(C[i]) /\ <<a, b>> \in Sides(C[k]))
      PROVE  Along(m, <<a, b>>) <= 1
  <2> DEFINE On == {f \in DOMAIN m.faces : <<a, b>> \in Sides(m.faces[f])}
  <2>1. {e[1], e[2]} = {a, b}
    BY <1>1, <1>7
  <2>2. \A f \in On : f \in FacesAt(m, e)
    BY <2>1, SideAt
  <2>3. \A f \in On : f = n + i \/ f = n + k
    BY <1>1, <2>2
  <2>4. ~(n + i \in On /\ n + k \in On)
    BY <1>4, <1>7
  <2>5. \A f, g \in On : f = g
    <3> HIDE DEF On
    <3> QED BY <2>3, <2>4
  <2>6. Cardinality(On) <= 1
    <3> HIDE DEF On
    <3> QED BY <2>5, AtMostOne
  <2> QED BY <2>6 DEF Along
<1>8. Along(m, <<w, x>>) <= 1
  BY <1>4, <1>6, <1>7
<1>9. Along(m, <<x, w>>) <= 1
  BY <1>4, <1>6, <1>7
<1> QED BY <1>1, <1>8, <1>9

(* Capping closes holes and nothing else.                                  *)
LEMMA CapsClose ==
    ASSUME given \in Surfaces, NEW C, NEW top, CapsAre(C, Boundary, top), NEW m, Capped(m, C)
    PROVE  CapsClosed(m)
<1>1. ASSUME NEW e \in EdgesOf(given)
      PROVE  \/ Count(m, e) = Count(given, e) /\ Along(m, e) = Along(given, e)
                /\ Along(m, <<e[2], e[1]>>) = Along(given, <<e[2], e[1]>>)
             \/ e \in Boundary /\ Along(m, e) = 1 /\ Along(m, <<e[2], e[1]>>) = 1
  <2>1. CASE \A j \in DOMAIN C : Rim(C[j]) # e
    BY <2>1, UncoveredIs
  <2>2. CASE ~(\A j \in DOMAIN C : Rim(C[j]) # e)
    BY <2>2, CoveredIs
  <2> QED BY <2>1, <2>2
<1>2. ASSUME NEW e \in EdgesOf(m), e \notin EdgesOf(given) PROVE Count(m, e) = 2
  <2> DEFINE n == Len(given.faces)
  <2>1. PICK i \in DOMAIN C, k \in DOMAIN C : i # k /\ FacesAt(m, e) = {n + i, n + k}
    BY <1>2, NewEdgeIs DEF InsideCap
  <2>2. CapsAppended(m, C, n)
    BY CappedIs
  <2> HIDE DEF n
  <2>3. n \in Nat /\ i \in Nat /\ k \in Nat
    BY <2>2 DEF CapsAppended
  <2>4. n + i # n + k
    BY <2>1, <2>3
  <2>5. IsFiniteSet({n + i}) /\ Cardinality({n + i}) = 1
    BY FS_Singleton
  <2>6. Cardinality({n + i} \cup {n + k}) = 2
    <3> DEFINE S == {n + i}
               y == n + k
    <3>1. IsFiniteSet(S) /\ Cardinality(S) = 1 /\ y \notin S
      BY <2>4, <2>5
    <3> HIDE DEF S, y
    <3>2. Cardinality(S \cup {y}) = IF y \in S THEN Cardinality(S) ELSE Cardinality(S) + 1
      BY <3>1, FS_AddElement
    <3>3. Cardinality(S \cup {y}) = 2
      BY <3>1, <3>2
    <3> QED BY <3>3 DEF S, y
  <2>7. {n + i} \cup {n + k} = {n + i, n + k}
    OBVIOUS
  <2> QED BY <2>1, <2>6, <2>7 DEF Count
<1>3. ASSUME Oriented(given), \A v \in 1..given.verts : ~Branches(v) PROVE Oriented(m)
  <2>1. SUFFICES ASSUME NEW e \in EdgesOf(m)
                 PROVE  Along(m, e) <= 1 /\ Along(m, <<e[2], e[1]>>) <= 1
    BY DEF Oriented
  <2>2. CASE e \in EdgesOf(given)
    <3>1. Along(given, e) <= 1 /\ Along(given, <<e[2], e[1]>>) <= 1
      BY <1>3, <2>2 DEF Oriented
    <3> QED BY <1>1, <2>2, <3>1
  <2>3. CASE e \notin EdgesOf(given)
    BY <1>3, <2>3, NewEdgeOnce
  <2> QED BY <2>2, <2>3
<1> QED BY <1>1, <1>2, <1>3 DEF CapsClosed

-----------------------------------------------------------------------------
(* Every step of filling.                                                  *)

(* Edges are gone through twice, first to note neighbours, then for loops. *)
Visited == Boundary \ todo

Unfilled == mesh = given /\ caps = <<>> /\ todo \subseteq Boundary

Capping ==
    /\ mesh = [verts |-> mesh.verts, faces |-> given.faces]
    /\ mesh.verts \in Nat /\ given.verts <= mesh.verts
    /\ todo \subseteq Boundary /\ NearIs(near, Boundary)
    /\ CapsAre(caps, Visited, mesh.verts)

Looping == LoopIs(loop, ahead, Visited, caps, near)

Filling ==
    /\ given \in Surfaces
    /\ step \in {"fill", "repair"} => Unfilled /\ NearIs(near, {})
    /\ step = "mark" => Unfilled /\ todo # {} /\ NearIs(near, Visited)
    /\ step = "settle" => Unfilled /\ NearIs(near, Boundary)
    /\ step \in {"seed", "walk", "cap", "append"} => Capping
    /\ step = "walk" => Looping
    /\ step = "cap" => Looping /\ ahead[2] = loop[1] /\ Len(loop) >= 3
    /\ step = "append" => todo = {}
    /\ step \in {"unite", "split", "check"} => mesh = given
    /\ step = "check" => corners # <<>>
    /\ step = "done" /\ corners = <<>> => CapsClosed(mesh)

(* A mesh without caps.                                                    *)
LEMMA NoCaps == CapsClosed(given)
  BY DEF CapsClosed

(* These are about the mesh of the call, which no step changes.            *)
LEMMA SameHoles ==
    ASSUME given' = given
    PROVE  /\ Boundary' = Boundary
           /\ \A N, D : NearIs(N, D)' = NearIs(N, D)
           /\ \A C, D, top : CapsAre(C, D, top)' = CapsAre(C, D, top)
           /\ \A L, A, D, C, N : LoopIs(L, A, D, C, N)' = LoopIs(L, A, D, C, N)
           /\ \A m : CapsClosed(m)' = CapsClosed(m)
<1>1. EdgesOf(given)' = EdgesOf(given) /\ \A e : Count(given, e)' = Count(given, e)
  BY DEF EdgesOf, Sides, Next3, Edge, Count, FacesAt, Has
<1>2. Boundary' = Boundary
  BY <1>1 DEF Boundary
<1>3. \A e : Directed(e)' = Directed(e)
  BY DEF Directed
<1>4. \A v : Branches(v)' = Branches(v)
  BY <1>2 DEF Branches, OpenEdgesAt
<1>5. \A N, D : NearIs(N, D)' = NearIs(N, D)
  BY DEF NearIs
<1>6. \A C, D, top : CapsAre(C, D, top)' = CapsAre(C, D, top)
  BY <1>3 DEF CapsAre
<1>7. \A L, A, D, C, N : LoopIs(L, A, D, C, N)' = LoopIs(L, A, D, C, N)
  BY DEF LoopIs
<1>8. Oriented(given)' = Oriented(given)
  BY DEF Oriented, EdgesOf, Along
<1>9. \A m : CapsClosed(m)' = CapsClosed(m)
  BY <1>1, <1>2, <1>4, <1>8 DEF CapsClosed
<1> QED BY <1>2, <1>5, <1>6, <1>7, <1>9

(* After a step, what is so of the mesh of the call is so as before it.    *)
LEMMA Afterwards ==
    ASSUME given' = given
    PROVE  /\ NearIs(near', {}) => NearIs(near, {})'
           /\ NearIs(near', Boundary) => NearIs(near, Boundary)'
           /\ NearIs(near', Boundary \ todo') => NearIs(near, Visited)'
           /\ CapsAre(caps', Boundary \ todo', mesh'.verts) => CapsAre(caps, Visited, mesh.verts)'
           /\ LoopIs(loop', ahead', Boundary \ todo', caps', near') => Looping'
           /\ CapsClosed(mesh') => CapsClosed(mesh)'
<1>1. Boundary' = Boundary /\ Visited' = Boundary \ todo'
  BY SameHoles DEF Visited
<1>2. NearIs(near', {}) => NearIs(near, {})'
  BY DEF NearIs
<1>3. NearIs(near', Boundary) => NearIs(near, Boundary)'
  BY <1>1 DEF NearIs
<1>4. NearIs(near', Boundary \ todo') => NearIs(near, Visited)'
  BY <1>1 DEF NearIs
<1>5. CapsAre(caps', Boundary \ todo', mesh'.verts) => CapsAre(caps, Visited, mesh.verts)'
  <2>1. \A e : Directed(e)' = Directed(e)
    BY DEF Directed
  <2> QED BY <1>1, <2>1 DEF CapsAre
<1>6. LoopIs(loop', ahead', Boundary \ todo', caps', near') => Looping'
  BY <1>1 DEF LoopIs, Looping
<1>7. CapsClosed(mesh') => CapsClosed(mesh)'
  BY SameHoles
<1> QED BY <1>2, <1>3, <1>4, <1>5, <1>6, <1>7

LEMMA FillKeeps == ASSUME Filling, Fill PROVE Filling'
<1>1. /\ step = "fill" /\ given' = given /\ mesh' = mesh /\ near' = near /\ caps' = caps
      /\ \/ step' = "failed"
         \/ step' = "done" /\ Boundary = {}
         \/ step' = "mark" /\ todo' = Boundary /\ Boundary # {}
  BY DEF Fill, filling
<1>2. given \in Surfaces /\ mesh = given /\ caps = <<>> /\ NearIs(near, {})
  BY <1>1 DEF Filling, Unfilled
<1>3. CASE step' = "failed"
  BY <1>1, <1>2, <1>3 DEF Filling
<1>4. CASE step' = "done"
  <2>1. CapsClosed(mesh)'
    BY <1>1, <1>2, NoCaps, Afterwards
  <2> QED BY <1>1, <1>2, <1>4, <2>1 DEF Filling
<1>5. CASE step' = "mark"
  <2>1. todo' = Boundary /\ Boundary # {} /\ Boundary' = Boundary
    BY <1>1, <1>5, SameHoles
  <2>2. Boundary \ todo' = {}
    BY <2>1
  <2>3. NearIs(near', Boundary \ todo')
    BY <1>1, <1>2, <2>2
  <2>4. NearIs(near, Visited)'
    BY <1>1, <2>3, Afterwards
  <2>5. Unfilled'
    BY <1>1, <1>2, <2>1 DEF Unfilled
  <2> QED BY <1>1, <1>2, <1>5, <2>1, <2>4, <2>5 DEF Filling
<1> QED BY <1>1, <1>3, <1>4, <1>5

(* The first of the boundary edges to come is one of them.                 *)
LEMMA NextEdge ==
    ASSUME given \in Surfaces, todo \subseteq Boundary, todo # {}, NEW e, e = FirstEdge(todo)
    PROVE  /\ e \in todo /\ e \in Boundary /\ e = <<e[1], e[2]>> /\ e[1] < e[2]
           /\ e[1] \in 1..given.verts /\ e[2] \in 1..given.verts /\ e[1] \in Nat /\ e[2] \in Nat
<1>1. \A x \in Boundary : x \in Nat \X Nat
  <2>1. given.verts \in Nat
    BY GivenIs, MeshIs
  <2>2. ASSUME NEW x \in Boundary PROVE x \in Nat \X Nat
    <3>1. x = <<x[1], x[2]>> /\ x[1] \in 1..given.verts /\ x[2] \in 1..given.verts
      BY BoundaryIs
    <3> QED BY <2>1, <3>1
  <2> QED BY <2>2
<1>2. todo \in SUBSET (Nat \X Nat)
  BY <1>1
<1>3. e \in todo
  BY <1>2, FirstIs
<1>4. e = <<e[1], e[2]>> /\ e[1] < e[2] /\ e[1] \in 1..given.verts /\ e[2] \in 1..given.verts
  BY <1>3, BoundaryIs
<1>5. e[1] \in Nat /\ e[2] \in Nat
  BY <1>1, <1>3
<1> QED BY <1>3, <1>4, <1>5

LEMMA MarkKeeps == ASSUME Filling, Mark PROVE Filling'
<1> DEFINE e == FirstEdge(todo)
           M == Noted(near, e[1], e[2])
           P == Boundary \ todo'
<1>1. /\ step = "mark" /\ given' = given /\ mesh' = mesh /\ caps' = caps
      /\ near' = Noted(M, e[2], e[1]) /\ todo' = todo \ {e}
      /\ step' = IF todo' = {} THEN "settle" ELSE "mark"
  BY DEF Mark
<1>2. /\ given \in Surfaces /\ mesh = given /\ caps = <<>>
      /\ todo \subseteq Boundary /\ todo # {} /\ NearIs(near, Boundary \ todo)
  BY <1>1 DEF Filling, Unfilled, Visited
<1>3. /\ e \in todo /\ e \in Boundary /\ e = <<e[1], e[2]>> /\ e[1] < e[2]
      /\ e[1] \in 1..given.verts /\ e[2] \in 1..given.verts /\ e[1] \in Nat /\ e[2] \in Nat
  <2> HIDE DEF e
  <2> QED BY <1>2, NextEdge DEF e
<1> HIDE DEF e, M
<1>4. Edge(e[1], e[2]) = e /\ Edge(e[2], e[1]) = e
  BY <1>3 DEF Edge
<1>5. Boundary \ todo \subseteq P /\ e \in P /\ e \notin Boundary \ todo
  BY <1>1, <1>3
<1> HIDE DEF P
<1>6. NearIs(M, P) /\ \A u \in 1..given.verts : u # e[1] => M[u] = near[u]
  <2> DEFINE D == Boundary \ todo
  <2>1. Edge(e[1], e[2]) \in P /\ Edge(e[1], e[2]) \notin D
    BY <1>4, <1>5
  <2>2. NearIs(near, D) /\ D \subseteq P
    BY <1>2, <1>5
  <2> HIDE DEF D
  <2> DEFINE a == e[1]
             b == e[2]
  <2>3. /\ a \in 1..given.verts /\ b \in 1..given.verts /\ given \in Surfaces
        /\ Edge(a, b) \in P /\ NotYet(near, D, a, b) /\ M = Noted(near, a, b)
    BY <1>2, <1>3, <2>1 DEF M, NotYet
  <2> HIDE DEF a, b
  <2>4. /\ NearIs(M, P)
        /\ \A u \in 1..given.verts : u # a => M[u] = near[u]
    BY <2>2, <2>3, NotedIs
  <2> QED BY <2>4 DEF a
<1>7. NearIs(near', P)
  <2>1. near[e[2]][1] # e[1] /\ near[e[2]][2] # e[1]
    <3>1. SUFFICES ASSUME NEW i \in {1, 2}, near[e[2]][i] = e[1] PROVE FALSE
      OBVIOUS
    <3>2. near[e[2]][i] > 0
      BY <1>3, <3>1
    <3>3. Edge(e[2], near[e[2]][i]) \in Boundary \ todo
      BY <1>2, <1>3, <3>2 DEF NearIs
    <3> QED BY <1>4, <1>5, <3>1, <3>3
  <2>2. M[e[2]] = near[e[2]]
    BY <1>3, <1>6
  <2>3. NotYet(M, P, e[2], e[1])
    BY <2>1, <2>2 DEF NotYet
  <2>4. Edge(e[2], e[1]) \in P /\ P \subseteq P
    BY <1>4, <1>5
  <2> QED BY <1>1, <1>2, <1>3, <1>6, <2>3, <2>4, NotedIs
<1>8. todo' \subseteq Boundary /\ Boundary' = Boundary
  BY <1>1, <1>2, SameHoles
<1>9. Unfilled'
  BY <1>1, <1>2, <1>8 DEF Unfilled
<1>10. CASE todo' = {}
  <2>1. P = Boundary
    BY <1>10 DEF P
  <2>2. NearIs(near, Boundary)'
    BY <1>1, <1>7, <2>1, Afterwards
  <2> QED BY <1>1, <1>2, <1>9, <1>10, <2>2 DEF Filling
<1>11. CASE todo' # {}
  <2>1. NearIs(near, Visited)'
    BY <1>1, <1>7, Afterwards DEF P
  <2> QED BY <1>1, <1>2, <1>9, <1>11, <2>1 DEF Filling
<1> QED BY <1>10, <1>11

LEMMA SettleKeeps == ASSUME Filling, Settle PROVE Filling'
<1>1. /\ step = "settle" /\ given' = given /\ mesh' = mesh /\ caps' = caps
      /\ near' = [v \in DOMAIN near |->
                    IF near[v][2] = Branching THEN <<Branching, Branching>> ELSE near[v]]
      /\ todo' = Boundary /\ step' = "seed"
  BY DEF Settle
<1>2. given \in Surfaces /\ mesh = given /\ caps = <<>> /\ NearIs(near, Boundary)
  BY <1>1 DEF Filling, Unfilled
<1> DEFINE V == 1..given.verts
<1>3. /\ near \in [V -> Int \X Int]
      /\ \A v \in V : \A i \in {1, 2} :
           near[v][i] > 0 => near[v][i] \in V /\ Edge(v, near[v][i]) \in Boundary
      /\ \A v \in V : near[v][1] > 0 /\ near[v][2] > 0 => near[v][1] # near[v][2]
  BY <1>2 DEF NearIs
<1> HIDE DEF V
<1>4. /\ near' \in [V -> Int \X Int]
      /\ \A v \in V : near'[v] = near[v] \/ near'[v] = <<Branching, Branching>>
  BY <1>1, <1>3 DEF Branching
<1>5. Branching \in Int /\ ~(Branching > 0)
  BY DEF Branching
<1>6. NearIs(near', Boundary)
  <2>1. ASSUME NEW v \in V, NEW i \in {1, 2}, near'[v][i] > 0
        PROVE  near'[v][i] \in V /\ Edge(v, near'[v][i]) \in Boundary
    BY <1>3, <1>4, <1>5, <2>1
  <2>2. ASSUME NEW v \in V, near'[v][1] > 0, near'[v][2] > 0 PROVE near'[v][1] # near'[v][2]
    BY <1>3, <1>4, <1>5, <2>2
  <2> QED BY <1>4, <2>1, <2>2 DEF NearIs, V
<1>7. NearIs(near, Boundary)'
  BY <1>1, <1>6, Afterwards
<1>8. given.verts \in Nat
  BY <1>2, GivenIs, MeshIs
<1>9. given = [verts |-> given.verts, faces |-> given.faces]
  BY <1>2, SurfacesAssumption
<1>10. CapsAre(caps', Boundary \ todo', mesh'.verts)
  <2>1. caps' = <<>> /\ \A x, w : Spokes(<<>>, x, w) = {}
    BY <1>1, <1>2 DEF Spokes
  <2> QED BY <2>1 DEF CapsAre, NoneOrTwo
<1>11. CapsAre(caps, Visited, mesh.verts)'
  BY <1>1, <1>10, Afterwards
<1>12. Boundary' = Boundary
  BY <1>1, SameHoles
<1>13. Capping'
  BY <1>1, <1>2, <1>7, <1>8, <1>9, <1>11, <1>12 DEF Capping
<1> QED BY <1>1, <1>2, <1>13 DEF Filling

(* Fewer edges to come: the caps are still along edges gone through.       *)
LEMMA CapsStay ==
    ASSUME Capping, given' = given, mesh' = mesh, near' = near, caps' = caps,
           todo' \subseteq todo
    PROVE  Capping' /\ Visited \subseteq Boundary \ todo' /\ todo' \subseteq Boundary
<1>1. /\ mesh = [verts |-> mesh.verts, faces |-> given.faces]
      /\ mesh.verts \in Nat /\ given.verts <= mesh.verts
      /\ todo \subseteq Boundary /\ NearIs(near, Boundary)
      /\ CapsAre(caps, Visited, mesh.verts)
  BY DEF Capping
<1>2. Visited \subseteq Boundary \ todo' /\ todo' \subseteq Boundary
  BY <1>1 DEF Visited
<1>3. CapsAre(caps, Boundary \ todo', mesh.verts)
  <2> DEFINE P == Boundary \ todo'
  <2>1. Visited \subseteq P
    BY <1>2
  <2> HIDE DEF P
  <2>2. CapsAre(caps, P, mesh.verts)
    BY <1>1, <2>1, CapsMore
  <2> QED BY <2>2 DEF P
<1>4. CapsAre(caps', Boundary \ todo', mesh'.verts) /\ NearIs(near', Boundary)
  BY <1>1, <1>3
<1>5. CapsAre(caps, Visited, mesh.verts)' /\ NearIs(near, Boundary)' /\ Boundary' = Boundary
  BY <1>4, Afterwards, SameHoles
<1>6. Capping'
  BY <1>1, <1>2, <1>5 DEF Capping
<1> QED BY <1>2, <1>6

LEMMA SeedKeeps == ASSUME Filling, Seed PROVE Filling'
<1> DEFINE e == FirstEdge(todo)
           s == Directed(e)
<1>1. /\ step = "seed" /\ given' = given /\ mesh' = mesh /\ near' = near /\ caps' = caps
      /\ \/ todo = {} /\ step' = "append" /\ todo' = todo
         \/ /\ todo # {} /\ todo' = todo \ {e} /\ loop' = <<s[1]>> /\ ahead' = s
            /\ step' \in {"walk", "seed"}
  BY DEF Seed
<1>2. given \in Surfaces /\ Capping
  BY <1>1 DEF Filling
<1>3. Capping'
  BY <1>1, <1>2, CapsStay
<1>4. CASE step' # "walk"
  BY <1>1, <1>2, <1>3, <1>4 DEF Filling
<1>5. CASE step' = "walk"
  <2>1. todo # {} /\ todo' = todo \ {e} /\ loop' = <<s[1]>> /\ ahead' = s
    BY <1>1, <1>5
  <2>2. todo \subseteq Boundary
    BY <1>2 DEF Capping
  <2>3. e \in todo /\ e \in Boundary /\ e[1] < e[2] /\ e[1] \in Nat /\ e[2] \in Nat
    <3> HIDE DEF e
    <3> QED BY <1>2, <2>1, <2>2, NextEdge DEF e
  <2>4. /\ e = <<e[1], e[2]>> /\ e[1] \in 1..given.verts /\ e[2] \in 1..given.verts
        /\ s = <<s[1], s[2]>> /\ {s[1], s[2]} = {e[1], e[2]}
    <3> HIDE DEF e
    <3> QED BY <1>2, <2>3, BoundaryIs
  <2> HIDE DEF e, s
  <2>5. (s[1] = e[1] /\ s[2] = e[2]) \/ (s[1] = e[2] /\ s[2] = e[1])
    BY <2>3, <2>4
  <2>6. Edge(s[1], s[2]) = e
    BY <2>3, <2>4, <2>5 DEF Edge
  <2> DEFINE P == Boundary \ todo'
             L == <<s[1]>>
  <2>7. e \in P /\ \A j \in DOMAIN caps : Rim(caps[j]) # e
    <3>1. \A j \in DOMAIN caps : Rim(caps[j]) \in Visited
      BY <1>2 DEF Capping, CapsAre
    <3> QED BY <2>1, <2>3, <3>1 DEF Visited
  <2>8. s[1] \in 1..given.verts /\ s[2] \in 1..given.verts
    BY <2>4
  <2>9. L \in Seq(1..given.verts) /\ Len(L) = 1 /\ DOMAIN L = {1} /\ L[1] = s[1]
    BY <2>8
  <2> HIDE DEF P, L
  <2>10. Onto(L, s, 1) = s[2]
    BY <2>9 DEF Onto
  <2>11. LoopIs(L, s, P, caps, near)
    BY <2>4, <2>6, <2>7, <2>8, <2>9, <2>10 DEF LoopIs
  <2>12. LoopIs(loop', ahead', Boundary \ todo', caps', near')
    BY <1>1, <2>1, <2>11 DEF P, L
  <2>13. Looping'
    BY <1>1, <2>12, Afterwards
  <2> QED BY <1>1, <1>2, <1>3, <1>5, <2>13 DEF Filling
<1> QED BY <1>4, <1>5

LEMMA WalkKeeps == ASSUME Filling, Walk PROVE Filling'
<1> DEFINE v == ahead[2]
           o == Other(v, ahead[1])
           edge == Edge(v, o)
<1>1. /\ step = "walk" /\ given' = given /\ mesh' = mesh /\ near' = near /\ caps' = caps
      /\ \/ /\ v = loop[1] /\ step' = (IF Len(loop) >= 3 THEN "cap" ELSE "seed")
            /\ todo' = todo /\ loop' = loop /\ ahead' = ahead
         \/ /\ v # loop[1] /\ loop' = Append(loop, v) /\ Passable(v)
            /\ \E i \in 1..2 : near[v][i] = ahead[1]
            /\ edge \in todo /\ todo' = todo \ {edge} /\ ahead' = <<v, o>>
            /\ step' \in {"seed", "walk"}
         \/ step' = "seed" /\ todo' = todo
  BY DEF Walk
<1>2. given \in Surfaces /\ Capping /\ Looping
  BY <1>1 DEF Filling
<1>3. Capping' /\ Visited \subseteq Boundary \ todo'
  BY <1>1, <1>2, CapsStay
<1>4. CASE step' = "seed"
  BY <1>1, <1>2, <1>3, <1>4 DEF Filling
<1>5. CASE step' = "cap"
  <2>1. /\ v = loop[1] /\ Len(loop) >= 3
        /\ todo' = todo /\ loop' = loop /\ ahead' = ahead
    BY <1>1, <1>5
  <2>2. LoopIs(loop', ahead', Boundary \ todo', caps', near')
    BY <1>1, <1>2, <2>1 DEF Looping, Visited
  <2>3. Looping'
    BY <1>1, <2>2, Afterwards
  <2> QED BY <1>1, <1>2, <1>3, <1>5, <2>1, <2>3 DEF Filling
<1>6. CASE step' = "walk"
  <2>1. /\ v # loop[1] /\ loop' = Append(loop, v) /\ Passable(v)
        /\ \E i \in 1..2 : near[v][i] = ahead[1]
        /\ edge \in todo /\ todo' = todo \ {edge} /\ ahead' = <<v, o>>
    BY <1>1, <1>6
  <2> DEFINE P == Boundary \ todo'
             D == Visited
             top == mesh.verts
  <2>2. edge \in P /\ edge \notin D /\ D \subseteq P /\ D \subseteq Boundary
    BY <1>2, <1>3, <2>1 DEF Visited, Capping
  <2>3. /\ near[v][1] > 0 /\ near[v][2] > 0 /\ (near[v][1] = ahead[1] \/ near[v][2] = ahead[1])
        /\ o = IF near[v][1] = ahead[1] THEN near[v][2] ELSE near[v][1]
    BY <2>1 DEF Passable, Other
  <2>4. NearIs(near, Boundary) /\ LoopIs(loop, ahead, D, caps, near) /\ CapsAre(caps, D, top)
    BY <1>2 DEF Capping, Looping
  <2> HIDE DEF P, D, o, top
  <2>5. LoopIs(Append(loop, v), <<v, o>>, P, caps, near)
    BY <1>2, <2>1, <2>2, <2>3, <2>4, WalkOn
  <2>6. LoopIs(loop', ahead', Boundary \ todo', caps', near')
    BY <1>1, <2>1, <2>5 DEF P
  <2>7. Looping'
    BY <1>1, <2>6, Afterwards
  <2> QED BY <1>1, <1>2, <1>3, <1>6, <2>7 DEF Filling
<1> QED BY <1>1, <1>4, <1>5, <1>6

LEMMA CapKeeps == ASSUME Filling, Cap PROVE Filling'
<1>1. /\ step = "cap" /\ step' = "seed" /\ given' = given /\ todo' = todo /\ near' = near
      /\ \/ mesh' = mesh /\ caps' = caps
         \/ /\ mesh' = [mesh EXCEPT !.verts = @ + 1]
            /\ caps' = caps \o Fan(mesh.verts + 1)
  BY DEF Cap
<1>2. /\ given \in Surfaces /\ Capping /\ Looping /\ ahead[2] = loop[1] /\ Len(loop) >= 3
      /\ mesh = [verts |-> mesh.verts, faces |-> given.faces]
      /\ mesh.verts \in Nat /\ given.verts <= mesh.verts
      /\ todo \subseteq Boundary /\ NearIs(near, Boundary)
      /\ CapsAre(caps, Visited, mesh.verts)
  BY <1>1 DEF Filling, Capping
<1>3. CASE mesh' = mesh /\ caps' = caps
  <2>1. Capping'
    BY <1>1, <1>2, <1>3, CapsStay
  <2> QED BY <1>1, <1>2, <2>1 DEF Filling
<1>4. CASE mesh' = [mesh EXCEPT !.verts = @ + 1] /\ caps' = caps \o Fan(mesh.verts + 1)
  <2> DEFINE top == mesh.verts
             D == Visited
  <2>1. mesh' = [verts |-> top + 1, faces |-> given.faces]
    BY <1>2, <1>4
  <2>2. mesh'.verts = top + 1 /\ mesh'.faces = given.faces
    BY <2>1
  <2>3. D \subseteq Boundary /\ LoopIs(loop, ahead, D, caps, near) /\ top \in Nat /\ given.verts <= top
        /\ CapsAre(caps, D, top)
    BY <1>2 DEF Visited, Looping
  <2>4. CapsAre(caps \o Fan(top + 1), D, top + 1)
    <3> HIDE DEF top, D
    <3> QED BY <1>2, <2>3, FanIs
  <2>5. CapsAre(caps', Boundary \ todo', mesh'.verts)
    BY <1>1, <1>4, <2>2, <2>4 DEF Visited
  <2>6. NearIs(near', Boundary)
    BY <1>1, <1>2
  <2>7. CapsAre(caps, Visited, mesh.verts)' /\ NearIs(near, Boundary)' /\ Boundary' = Boundary
    BY <1>1, <2>5, <2>6, Afterwards, SameHoles
  <2>8. mesh'.verts \in Nat /\ given'.verts <= mesh'.verts
    <3>1. given.verts \in Nat
      BY <1>2, GivenIs, MeshIs
    <3> QED BY <1>1, <1>2, <2>2, <3>1
  <2>9. mesh' = [verts |-> mesh'.verts, faces |-> given'.faces]
    BY <1>1, <2>1, <2>2
  <2>10. Capping'
    BY <1>1, <1>2, <2>7, <2>8, <2>9 DEF Capping
  <2> QED BY <1>1, <1>2, <2>10 DEF Filling
<1> QED BY <1>1, <1>3, <1>4

LEMMA AppendKeeps == ASSUME Filling, AppendCaps PROVE Filling'
<1>1. /\ step = "append" /\ step' = "done" /\ given' = given /\ caps' = caps
      /\ mesh' = [mesh EXCEPT !.faces = @ \o caps]
  BY DEF AppendCaps, filling
<1>2. /\ given \in Surfaces /\ todo = {}
      /\ mesh = [verts |-> mesh.verts, faces |-> given.faces]
      /\ CapsAre(caps, Visited, mesh.verts)
  BY <1>1 DEF Filling, Capping
<1>3. mesh' = [verts |-> mesh.verts, faces |-> given.faces \o caps]
  <2> DEFINE a == mesh.verts
             b == given.faces
  <2>1. mesh = [verts |-> a, faces |-> b]
    BY <1>2
  <2>2. mesh' = [mesh EXCEPT !.faces = @ \o caps]
    BY <1>1
  <2> HIDE DEF a, b
  <2>3. mesh' = [verts |-> a, faces |-> b \o caps]
    BY <2>1, <2>2
  <2> QED BY <2>3 DEF a, b
<1>4. Capped(mesh', caps)
  BY <1>3 DEF Capped
<1>5. CapsAre(caps, Boundary, mesh.verts)
  <2>1. Visited = Boundary
    BY <1>2 DEF Visited
  <2> QED BY <1>2, <2>1
<1> DEFINE m == mesh'
<1> HIDE DEF m
<1>6. CapsClosed(m)
  BY <1>2, <1>4, <1>5, CapsClose DEF m
<1>7. CapsClosed(mesh)'
  BY <1>1, <1>6, Afterwards DEF m
<1> QED BY <1>1, <1>2, <1>7 DEF Filling

LEMMA RepairingKeeps ==
    ASSUME Filling, Splitting, Repair \/ Unite \/ Split \/ Check PROVE Filling'
<1>1. given \in Surfaces /\ given' = given
  BY DEF Filling, Repair, Unite, Split, Check
<1>2. CASE Repair
  <2>1. mesh' = mesh /\ step = "repair" /\ step' \in {"failed", "done", "split", "unite"}
    BY <1>2 DEF Repair
  <2>2. mesh = given
    BY <2>1 DEF Filling, Unfilled
  <2>3. CapsClosed(mesh)'
    BY <1>1, <2>1, <2>2, NoCaps, Afterwards
  <2> QED BY <1>1, <2>1, <2>2, <2>3 DEF Filling
<1>3. CASE Unite
  <2>1. mesh' = mesh /\ step = "unite" /\ step' \in {"split", "unite"}
    BY <1>3 DEF Unite
  <2> QED BY <1>1, <2>1 DEF Filling
<1>4. CASE Split
  <2>1. /\ mesh' = mesh /\ step = "split" /\ step' \in {"split", "check"}
        /\ \E x : corners' = Append(corners, x)
    BY <1>4 DEF Split
  <2>2. corners \in Seq(Nat)
    BY <2>1 DEF Splitting, Coloured
  <2>3. corners' # <<>>
    BY <2>1, <2>2
  <2> QED BY <1>1, <2>1, <2>3 DEF Filling
<1>5. CASE Check
  <2>1. step = "check" /\ step' \in {"done", "failed"} /\ corners' = corners
    BY <1>5 DEF Check, repairing
  <2> QED BY <1>1, <2>1 DEF Filling
<1> QED BY <1>2, <1>3, <1>4, <1>5

LEMMA FillingInit == TopologyInit => Filling
<1>1. SUFFICES ASSUME TopologyInit PROVE Filling
  OBVIOUS
<1>2. /\ given \in Surfaces /\ mesh = given /\ caps = <<>> /\ todo = {} /\ step \in {"fill", "repair"}
      /\ near = [v \in 1..given.verts |-> <<NoNeighbour, NoNeighbour>>]
  BY <1>1 DEF TopologyInit
<1>3. NearIs(near, {})
  <2>1. NoNeighbour \in Int /\ ~(NoNeighbour > 0)
    BY DEF NoNeighbour
  <2> HIDE DEF NoNeighbour
  <2> QED BY <1>2, <2>1 DEF NearIs
<1> QED BY <1>2, <1>3 DEF Filling, Unfilled

LEMMA FillingNext == Filling /\ Splitting /\ [TopologyNext]_topologyVars => Filling'
<1>1. SUFFICES ASSUME Filling, Splitting, [TopologyNext]_topologyVars PROVE Filling'
  OBVIOUS
<1>2. CASE Fill
  BY <1>1, <1>2, FillKeeps
<1>3. CASE Mark
  BY <1>1, <1>3, MarkKeeps
<1>4. CASE Settle
  BY <1>1, <1>4, SettleKeeps
<1>5. CASE Seed
  BY <1>1, <1>5, SeedKeeps
<1>6. CASE Walk
  BY <1>1, <1>6, WalkKeeps
<1>7. CASE Cap
  BY <1>1, <1>7, CapKeeps
<1>8. CASE AppendCaps
  BY <1>1, <1>8, AppendKeeps
<1>9. CASE Repair \/ Unite \/ Split \/ Check
  BY <1>1, <1>9, RepairingKeeps
<1>10. CASE UNCHANGED topologyVars
  <2>1. /\ given' = given /\ mesh' = mesh /\ todo' = todo /\ near' = near /\ loop' = loop
        /\ ahead' = ahead /\ caps' = caps /\ corners' = corners /\ step' = step
    BY <1>10 DEF topologyVars, filling, repairing
  <2>2. Boundary' = Boundary /\ Visited' = Visited
    BY <2>1, SameHoles DEF Visited
  <2>3. /\ NearIs(near, {}) => NearIs(near, {})'
        /\ NearIs(near, Boundary) => NearIs(near, Boundary)'
        /\ NearIs(near, Visited) => NearIs(near, Visited)'
        /\ CapsAre(caps, Visited, mesh.verts) => CapsAre(caps, Visited, mesh.verts)'
        /\ Looping => Looping'
        /\ CapsClosed(mesh) => CapsClosed(mesh)'
    BY <2>1, Afterwards DEF Visited, Looping
  <2>4. (Unfilled => Unfilled') /\ (Capping => Capping')
    BY <2>1, <2>2, <2>3 DEF Unfilled, Capping
  <2> QED BY <1>1, <2>1, <2>3, <2>4 DEF Filling
<1> QED BY <1>1, <1>2, <1>3, <1>4, <1>5, <1>6, <1>7, <1>8, <1>9, <1>10 DEF TopologyNext

(* When filling is done an edge has the faces it had, or was open and has  *)
(* one more that runs along it the other way; an edge of a cap has two     *)
(* faces; and where no boundary branches, faces that agreed which side is  *)
(* out still do with the caps.                                             *)
THEOREM ClosesHoles == TopologySpec => []HolesClosed
<1>1. Filling => HolesClosed
  BY DEF Filling, HolesClosed, CapsClosed
<1> QED BY <1>1, FillingInit, FillingNext, SplittingInit, SplittingNext, PTL DEF TopologySpec

-----------------------------------------------------------------------------
(* Ranks.  Vertices and faces are renumbered by counting those that do not *)
(* come later.                                                             *)

UpTo(K, S, v) == {u \in S : K[u] <= K[v]}

(* The rank of an element is a number from 1 to the size of the set.       *)
LEMMA RankBounds ==
  ASSUME NEW S, IsFiniteSet(S), NEW K \in [S -> Nat], NEW v \in S
  PROVE  Cardinality(UpTo(K, S, v)) \in 1..Cardinality(S)
<1>1. UpTo(K, S, v) \in SUBSET S /\ v \in UpTo(K, S, v)
  BY DEF UpTo
<1>2. IsFiniteSet(UpTo(K, S, v)) /\ Cardinality(UpTo(K, S, v)) <= Cardinality(S)
  BY <1>1, FS_Subset
<1>3. Cardinality(UpTo(K, S, v)) # 0
  BY <1>1, <1>2, FS_EmptySet
<1> QED
  BY <1>2, <1>3, FS_CardinalityType

(* A later element has a greater rank.                                     *)
LEMMA RankGrows ==
  ASSUME NEW S, IsFiniteSet(S), NEW K \in [S -> Nat],
         NEW u \in S, NEW v \in S, K[u] < K[v]
  PROVE  Cardinality(UpTo(K, S, u)) < Cardinality(UpTo(K, S, v))
<1>1. \A w \in S : K[w] \in Nat
  OBVIOUS
<1>2. UpTo(K, S, v) \in SUBSET S /\ UpTo(K, S, u) \in SUBSET UpTo(K, S, v)
  BY <1>1 DEF UpTo
<1>3. v \in UpTo(K, S, v) /\ v \notin UpTo(K, S, u)
  BY <1>1 DEF UpTo
<1>4. IsFiniteSet(UpTo(K, S, v)) /\ IsFiniteSet(UpTo(K, S, u))
  BY <1>2, FS_Subset
<1>5. /\ Cardinality(UpTo(K, S, u)) \in Nat /\ Cardinality(UpTo(K, S, v)) \in Nat
  BY <1>4, FS_CardinalityType
<1>6. /\ Cardinality(UpTo(K, S, u)) <= Cardinality(UpTo(K, S, v))
      /\ Cardinality(UpTo(K, S, v)) # Cardinality(UpTo(K, S, u))
  BY <1>2, <1>3, <1>4, FS_Subset
<1> QED
  BY <1>5, <1>6

(* Every number up to the size of a set of numbers is the rank of one.     *)
LEMMA NthExists ==
  ASSUME NEW S \in SUBSET Nat, IsFiniteSet(S), NEW n \in 1..Cardinality(S)
  PROVE  \E f \in S : Cardinality({g \in S : g <= f}) = n
<1> DEFINE Low(f) == {g \in S : g <= f}
           Missing == {m \in 1..Cardinality(S) : \A f \in S : Cardinality(Low(f)) # m}
<1>1. SUFFICES ASSUME Missing # {} PROVE FALSE
  OBVIOUS
<1>2. Cardinality(S) \in Nat /\ \A x \in S : x \in Nat
  BY FS_CardinalityType
<1>3. PICK m \in Missing : \A d \in Missing : m <= d
  <2>1. Missing \in SUBSET Nat
    BY <1>2
  <2> QED
    BY <1>1, <2>1, LeastNumber
<1>4. m \in Nat /\ m >= 1 /\ m <= Cardinality(S) /\ \A f \in S : Cardinality(Low(f)) # m
  BY <1>2, <1>3
<1>5. CASE m = 1
  <2>1. S # {}
    BY <1>4, FS_EmptySet
  <2>2. PICK g \in S : \A d \in S : g <= d
    BY <2>1, LeastNumber
  <2>3. Low(g) = {g}
    <3>1. \A d \in S : d <= g => d = g
      BY <1>2, <2>2
    <3> QED
      BY <1>2, <2>2, <3>1
  <2> QED
    BY <1>4, <1>5, <2>3, FS_Singleton
<1>6. CASE m # 1
  <2>1. m - 1 \in 1..Cardinality(S) /\ ~(m <= m - 1)
    BY <1>2, <1>4, <1>6
  <2>2. m - 1 \notin Missing
    BY <1>3, <2>1
  <2>3. PICK f \in S : Cardinality(Low(f)) = m - 1
    BY <2>1, <2>2
  <2>4. Low(f) \in SUBSET S /\ IsFiniteSet(Low(f))
    BY FS_Subset
  <2>5. {h \in S : h > f} # {}
    <3>1. SUFFICES ASSUME {h \in S : h > f} = {} PROVE FALSE
      OBVIOUS
    <3>2. \A h \in S : h <= f
      BY <1>2, <2>3, <3>1
    <3>3. Low(f) = S
      BY <3>2
    <3> QED
      BY <1>2, <1>4, <2>3, <3>3
  <2>6. PICK g \in {h \in S : h > f} : \A d \in {h \in S : h > f} : g <= d
    BY <2>5, LeastNumber
  <2>7. Low(g) = Low(f) \cup {g} /\ g \notin Low(f)
    <3>1. g \in S /\ g > f /\ f \in Nat /\ g \in Nat
      BY <1>2, <2>3, <2>6
    <3>2. \A h \in S : h <= g <=> h <= f \/ h = g
      BY <1>2, <2>6, <3>1
    <3>3. ~(g <= f)
      BY <3>1
    <3>4. g \in S
      BY <3>1
    <3>5. Low(g) \subseteq Low(f) \cup {g}
      BY <3>2
    <3>6. Low(f) \cup {g} \subseteq Low(g)
      BY <3>2, <3>4
    <3> QED
      BY <3>3, <3>5, <3>6
  <2> HIDE DEF Low
  <2>8. Cardinality(Low(g)) = Cardinality(Low(f)) + 1
    BY <2>4, <2>7, FS_AddElement
  <2> QED
    BY <1>4, <2>3, <2>6, <2>8
<1> QED
  BY <1>5, <1>6

-----------------------------------------------------------------------------
(* The invariant.                                                          *)

Simple(t) == \A i, j \in Corner : i # j => t[i] # t[j]

(* The corners a face had when the round began.                            *)
Base(f) == {v \in DOMAIN around : f \in around[v]}

(* Outside a collapse the faces are triangles and no thread runs.          *)
Still ==
    pc # "collapse" =>
        /\ \A f \in Faces : Simple(faces[f])
        /\ DOMAIN active = {} /\ vdead = {} /\ fdead = {}

(* No minima are left over from another round.                             *)
Reset == pc \notin {"launch", "collapse"} => DOMAIN prop = {} /\ DOMAIN vertexProp = {}

(* A round is one of the MaxRounds.                                        *)
Budget == pc \in {"propagate", "launch", "collapse"} => rounds < MaxRounds

(* The adjacency a round works with: every edge belongs to a face.         *)
Adjacency ==
    pc \in {"propagate", "launch", "collapse"} =>
        /\ around \in [1..verts -> SUBSET Faces]
        /\ \A e \in Edges : e[1] < e[2] /\ Shared(e) # {}

(* It is that of the faces until a thread changes them.                    *)
Fresh == pc \in {"propagate", "launch"} => \A f \in Faces : At(f) = Base(f)

(* How far the threads of the winners are: those that have gone on are no  *)
(* longer active.                                                          *)
Killed(e) == e \in DOMAIN active => active[e] # "kill"
Dropped(e) == e \in DOMAIN active => active[e] = "retarget"

Untouched(f) == \A e \in Winners : f \in around[e[2]] => e \in DOMAIN active

Progress ==
    pc = "collapse" =>
        /\ DOMAIN active \subseteq Winners
        /\ vdead = {e[2] : e \in {g \in Winners : Killed(g)}}
        /\ fdead = UNION {Shared(e) : e \in {g \in Winners : Dropped(g)}}
        /\ \A f \in Faces : Untouched(f) => At(f) = Base(f) /\ Simple(faces[f])
        /\ \A e \in Winners \ DOMAIN active : \A f \in around[e[2]] :
              /\ At(f) = (Base(f) \ {e[2]}) \cup {e[1]}
              /\ f \notin around[e[1]] => Simple(faces[f])

QemInv == TypeOK /\ Still /\ Reset /\ Budget /\ Adjacency /\ Fresh /\ Progress

-----------------------------------------------------------------------------
(* Facts about one state.                                                  *)

LEMMA CornerTyped ==
  ASSUME TypeOK, NEW f \in Faces
  PROVE  /\ faces[f] \in [Corner -> 1..verts] /\ At(f) \subseteq 1..verts
         /\ Faces = 1..Len(faces) /\ Len(faces) \in Nat /\ Faces \in SUBSET Nat
         /\ IsFiniteSet(Faces)
<1>1. faces \in Seq([Corner -> 1..verts])
  BY DEF TypeOK
<1>2. Len(faces) \in Nat /\ Faces = 1..Len(faces)
  BY <1>1 DEF Faces
<1>3. faces[f] \in [Corner -> 1..verts]
  BY <1>1, <1>2, ElementOfSeq
<1>4. IsFiniteSet(1..Len(faces))
  BY <1>2, FS_Interval
<1> QED
  BY <1>2, <1>3, <1>4 DEF At

(* The order of the packed costs is total, so minima exist.                *)
LEMMA LeastEdge ==
  ASSUME TypeOK, NEW S \in SUBSET Edges, S # {}
  PROVE  Least(S) \in S
<1>1. \A e \in S : cost[e] \in Nat /\ e[1] \in Nat /\ e[2] \in Nat
  BY DEF TypeOK
<1>2. PICK c \in {cost[e] : e \in S} : \A d \in {cost[e] : e \in S} : c <= d
  <2>1. {cost[e] : e \in S} \in SUBSET Nat /\ {cost[e] : e \in S} # {}
    BY <1>1
  <2> QED
    BY <2>1, LeastNumber
<1> DEFINE S1 == {e \in S : cost[e] = c}
<1>3. PICK a \in {e[1] : e \in S1} : \A d \in {e[1] : e \in S1} : a <= d
  <2>1. {e[1] : e \in S1} \in SUBSET Nat /\ {e[1] : e \in S1} # {}
    BY <1>1, <1>2
  <2> QED
    BY <2>1, LeastNumber
<1> DEFINE S2 == {e \in S1 : e[1] = a}
<1>4. PICK b \in {e[2] : e \in S2} : \A d \in {e[2] : e \in S2} : b <= d
  <2>1. {e[2] : e \in S2} \in SUBSET Nat /\ {e[2] : e \in S2} # {}
    BY <1>1, <1>3
  <2> QED
    BY <2>1, LeastNumber
<1>5. PICK e \in S2 : e[2] = b
  BY <1>4
<1>6. \A g \in S : ~Before(g, e)
  <2> SUFFICES ASSUME NEW g \in S, Before(g, e) PROVE FALSE
    OBVIOUS
  <2>1. e \in S /\ cost[e] = c /\ e[1] = a /\ e[2] = b
    BY <1>5
  <2>2. c <= cost[g] /\ (cost[g] = c => a <= g[1]) /\ (cost[g] = c /\ g[1] = a => b <= g[2])
    BY <1>2, <1>3, <1>4
  <2> QED
    BY <1>1, <2>1, <2>2 DEF Before
<1> QED
  BY <1>5, <1>6 DEF Least

(* Two winners have no face in common, hence no vertex either: the faces   *)
(* at a vertex are among those of both edges.                              *)
LEMMA Apart ==
  ASSUME Adjacency, pc \in {"propagate", "launch", "collapse"},
         NEW e \in Winners, NEW g \in Winners, e # g
  PROVE  {e[1], e[2]} \cap {g[1], g[2]} = {} /\ Star(e) \cap Star(g) = {}
<1>1. \A f \in Star(e) : prop[f] = e
  BY DEF Winners, Wins, OwnsFaces
<1>2. \A f \in Star(g) : prop[f] = g
  BY DEF Winners, Wins, OwnsFaces
<1>3. Star(e) \cap Star(g) = {}
  BY <1>1, <1>2
<1>4. Shared(e) # {}
  BY DEF Adjacency, Winners
<1>5. PICK f \in Shared(e) : TRUE
  BY <1>4
<1>6. f \in around[e[1]] /\ f \in around[e[2]]
  BY <1>5 DEF Shared
<1>7. SUFFICES ASSUME NEW v \in {e[1], e[2]}, v \in {g[1], g[2]} PROVE FALSE
  BY <1>3
<1>8. f \in Star(e) /\ f \in Star(g)
  BY <1>6, <1>7 DEF Star
<1> QED
  BY <1>3, <1>8

(* A retargeted triangle has the first end for the second.                 *)
LEMMA RetargetedCorners ==
  ASSUME NEW t, Simple(t), NEW e, \E k \in Corner : t[k] = e[2], e[1] # e[2]
  PROVE  /\ {Retargeted(t, e)[k] : k \in Corner} = ({t[k] : k \in Corner} \ {e[2]}) \cup {e[1]}
         /\ e[1] \notin {t[k] : k \in Corner} => Simple(Retargeted(t, e))
<1>1. PICK k \in Corner : t[k] = e[2]
  OBVIOUS
<1>2. \A j \in Corner : t[j] = e[2] <=> j = k
  BY <1>1 DEF Simple
<1>3. k <= k
  BY DEF Corner
<1>4. \A j \in Corner : Retargeted(t, e)[j] = IF j = k THEN e[1] ELSE t[j]
  BY <1>2, <1>3 DEF Retargeted
<1>5. {Retargeted(t, e)[j] : j \in Corner} = ({t[j] : j \in Corner} \ {e[2]}) \cup {e[1]}
  <2>1. {Retargeted(t, e)[j] : j \in Corner} \subseteq ({t[j] : j \in Corner} \ {e[2]}) \cup {e[1]}
    BY <1>2, <1>4
  <2>2. \A j \in Corner : t[j] # e[2] => Retargeted(t, e)[j] = t[j]
    BY <1>2, <1>4
  <2>3. Retargeted(t, e)[k] = e[1]
    BY <1>4
  <2>4. e[1] \in {Retargeted(t, e)[j] : j \in Corner}
    BY <2>3
  <2>5. {t[j] : j \in Corner} \ {e[2]} \subseteq {Retargeted(t, e)[j] : j \in Corner}
    BY <2>2
  <2> QED
    BY <2>1, <2>4, <2>5
<1>6. ASSUME e[1] \notin {t[j] : j \in Corner} PROVE Simple(Retargeted(t, e))
  BY <1>4, <1>6 DEF Simple
<1> QED
  BY <1>5, <1>6

(* Live vertices get different numbers, from 1 to how many there are.      *)
LEMMA NumberFits ==
  ASSUME TypeOK
  PROVE  /\ Cardinality(Live) \in Nat
         /\ \A v \in Live : Number(v) \in 1..Cardinality(Live)
         /\ \A u, v \in Live : u # v => Number(u) # Number(v)
<1> DEFINE K == [v \in Live |-> v]
<1>1. verts \in Nat /\ Live \subseteq 1..verts
  BY DEF TypeOK, Live
<1>2. IsFiniteSet(Live) /\ K \in [Live -> Nat]
  <2>1. IsFiniteSet(1..verts)
    BY <1>1, FS_Interval
  <2>2. IsFiniteSet(Live)
    BY <1>1, <2>1, FS_Subset
  <2>3. \A v \in Live : v \in Nat
    BY <1>1
  <2> QED
    BY <2>2, <2>3
<1>3. \A v \in Live : Number(v) = Cardinality(UpTo(K, Live, v))
  <2> SUFFICES ASSUME NEW v \in Live PROVE Number(v) = Cardinality(UpTo(K, Live, v))
    OBVIOUS
  <2>1. UpTo(K, Live, v) = {u \in Live : u <= v}
    BY DEF UpTo
  <2> QED
    BY <2>1 DEF Number
<1>4. \A v \in Live : Number(v) \in 1..Cardinality(Live)
  BY <1>2, <1>3, RankBounds
<1>5. Cardinality(Live) \in Nat
  BY <1>2, FS_CardinalityType
<1>6. ASSUME NEW u \in Live, NEW v \in Live, u < v PROVE Number(u) < Number(v)
  <2>1. K[u] < K[v]
    BY <1>6
  <2> HIDE DEF K
  <2> QED
    BY <1>2, <1>3, <2>1, RankGrows
<1>7. \A u, v \in Live : u # v => Number(u) # Number(v)
  <2> SUFFICES ASSUME NEW u \in Live, NEW v \in Live, u # v, Number(u) = Number(v) PROVE FALSE
    OBVIOUS
  <2>1. u \in Nat /\ v \in Nat /\ (u < v \/ v < u)
    BY <1>1
  <2>2. Number(u) \in Nat
    BY <1>4, <1>5
  <2> QED
    BY <1>6, <2>1, <2>2
<1> QED
  BY <1>4, <1>5, <1>7

(* First uses are numbers, and no two vertices share one.                  *)
LEMMA FirstUse ==
  ASSUME TypeOK
  PROVE  /\ [v \in Referenced |-> First(v)] \in [Referenced -> Nat]
         /\ \A u, v \in Referenced : u # v => First(u) # First(v)
<1>1. \A f \in Faces : f \in Nat /\ f >= 1
  BY CornerTyped
<1>2. \A v : Uses(v) \in SUBSET Nat
  <2> SUFFICES ASSUME NEW v, NEW p \in Faces \X Corner PROVE 3 * (p[1] - 1) + p[2] \in Nat
    BY DEF Uses
  <2>1. p[1] \in Nat /\ p[1] >= 1 /\ p[2] \in Nat
    BY <1>1 DEF Corner
  <2> QED
    BY <2>1
<1>3. \A v \in Referenced : Uses(v) # {}
  <2> SUFFICES ASSUME NEW v \in Referenced PROVE Uses(v) # {}
    OBVIOUS
  <2>1. PICK f \in Faces, k \in Corner : faces[f][k] = v
    BY DEF Referenced, At
  <2>2. <<f, k>> \in {q \in Faces \X Corner : faces[q[1]][q[2]] = v}
    BY <2>1
  <2> QED
    BY <2>2 DEF Uses
<1>4. \A v \in Referenced : First(v) \in Uses(v)
  BY <1>2, <1>3, LeastNumber DEF First
<1>5. ASSUME NEW u \in Referenced, NEW v \in Referenced, First(u) = First(v) PROVE u = v
  <2>1. PICK p \in Faces \X Corner : faces[p[1]][p[2]] = u /\ First(u) = 3 * (p[1] - 1) + p[2]
    BY <1>4 DEF Uses
  <2>2. PICK q \in Faces \X Corner : faces[q[1]][q[2]] = v /\ First(v) = 3 * (q[1] - 1) + q[2]
    BY <1>4 DEF Uses
  <2>3. p[1] \in Nat /\ q[1] \in Nat /\ p[2] \in 1..3 /\ q[2] \in 1..3
    BY <1>1 DEF Corner
  <2>4. 3 * (p[1] - 1) + p[2] = 3 * (q[1] - 1) + q[2]
    BY <1>5, <2>1, <2>2
  <2>5. p[1] = q[1] /\ p[2] = q[2]
    <3>1. \A a, c \in Nat, b, d \in 1..3 :
            3 * (a - 1) + b = 3 * (c - 1) + d => a = c /\ b = d
      OBVIOUS
    <3> QED
      BY <2>3, <2>4, <3>1
  <2> QED
    BY <2>1, <2>2, <2>5
<1> QED
  BY <1>2, <1>4, <1>5

(* The result is a mesh again.                                             *)
LEMMA CopiedMesh ==
  ASSUME TypeOK, \A f \in Faces : Simple(faces[f])
  PROVE  Mesh(Copied)
<1> DEFINE K == [v \in Referenced |-> First(v)]
           n == Cardinality(Referenced)
<1>1. Referenced \subseteq 1..verts /\ verts \in Nat
  BY CornerTyped DEF Referenced, TypeOK
<1>2. IsFiniteSet(Referenced) /\ K \in [Referenced -> Nat]
  <2>1. IsFiniteSet(1..verts)
    BY <1>1, FS_Interval
  <2>2. IsFiniteSet(Referenced)
    BY <1>1, <2>1, FS_Subset
  <2> QED
    BY <2>2, FirstUse
<1>3. n \in Nat
  BY <1>2, FS_CardinalityType
<1>4. \A v \in Referenced : Used(v) = Cardinality(UpTo(K, Referenced, v))
  <2> SUFFICES ASSUME NEW v \in Referenced PROVE Used(v) = Cardinality(UpTo(K, Referenced, v))
    OBVIOUS
  <2>1. UpTo(K, Referenced, v) = {u \in Referenced : First(u) <= First(v)}
    BY DEF UpTo
  <2> QED
    BY <2>1 DEF Used
<1> HIDE DEF n
<1>5. \A v \in Referenced : Used(v) \in 1..n
  BY <1>2, <1>4, RankBounds DEF n
<1>6. \A u, v \in Referenced : u # v => Used(u) # Used(v)
  <2> SUFFICES ASSUME NEW u \in Referenced, NEW v \in Referenced, u # v, Used(u) = Used(v)
               PROVE  FALSE
    OBVIOUS
  <2>1. K[u] \in Nat /\ K[v] \in Nat /\ K[u] # K[v]
    BY <1>2, FirstUse
  <2>2. K[u] < K[v] \/ K[v] < K[u]
    BY <2>1
  <2>3. Used(u) \in Nat
    BY <1>3, <1>5
  <2> HIDE DEF K
  <2> QED
    BY <1>2, <1>4, <2>2, <2>3, RankGrows
<1>7. \A f \in Faces : [k \in Corner |-> Used(faces[f][k])] \in Triangles(n)
  <2> SUFFICES ASSUME NEW f \in Faces
               PROVE  [k \in Corner |-> Used(faces[f][k])] \in Triangles(n)
    OBVIOUS
  <2>1. \A k \in Corner : faces[f][k] \in Referenced
    BY DEF Referenced, At
  <2>2. \A i, j \in Corner : i # j => faces[f][i] # faces[f][j]
    BY DEF Simple
  <2> QED
    BY <1>5, <1>6, <2>1, <2>2 DEF Triangles
<1>8. [f \in Faces |-> [k \in Corner |-> Used(faces[f][k])]] \in Seq(Triangles(n))
  <2>1. Faces = 1..Len(faces) /\ Len(faces) \in Nat
    BY DEF TypeOK, Faces
  <2> QED
    BY <1>7, <2>1
<1> QED
  BY <1>3, <1>8 DEF Mesh, Copied, n

(* What compaction leaves are triangles over the new numbers.              *)
LEMMA CompactedFaces ==
  ASSUME TypeOK
  PROVE  Compacted \in Seq(Triangles(Cardinality(Live)))
<1> DEFINE n == Cardinality(Live)
           m == Cardinality(Kept)
<1>1. Kept \in SUBSET Nat /\ IsFiniteSet(Kept)
  <2>1. Faces = 1..Len(faces) /\ Len(faces) \in Nat
    BY DEF TypeOK, Faces
  <2>2. IsFiniteSet(1..Len(faces))
    BY <2>1, FS_Interval
  <2>3. Kept \in SUBSET (1..Len(faces))
    BY <2>1 DEF Kept
  <2>4. IsFiniteSet(Kept)
    BY <2>2, <2>3, FS_Subset
  <2>5. \A f \in 1..Len(faces) : f \in Nat
    BY <2>1
  <2> QED
    BY <2>3, <2>4, <2>5
<1>2. m \in Nat
  BY <1>1, FS_CardinalityType
<1>3. \A i \in 1..m : Nth(Kept, i) \in Kept
  BY <1>1, NthExists DEF Nth
<1> HIDE DEF n
<1>4. \A f \in Kept : Numbered(faces[f]) \in Triangles(n)
  <2> SUFFICES ASSUME NEW f \in Kept PROVE Numbered(faces[f]) \in Triangles(n)
    OBVIOUS
  <2>1. f \in Faces /\ Whole(faces[f])
    BY DEF Kept
  <2>2. \A k \in Corner : faces[f][k] \in Live
    BY <2>1, CornerTyped DEF Whole, Live
  <2>3. \A i, j \in Corner : i # j => faces[f][i] # faces[f][j]
    BY <2>1 DEF Whole
  <2>4. \A k \in Corner : Number(faces[f][k]) \in 1..n
    BY <2>2, NumberFits DEF n
  <2>5. \A i, j \in Corner : i # j => Number(faces[f][i]) # Number(faces[f][j])
    BY <2>2, <2>3, NumberFits
  <2> QED
    BY <2>4, <2>5 DEF Numbered, Triangles
<1> HIDE DEF m
<1>5. [i \in 1..m |-> Numbered(faces[Nth(Kept, i)])] \in [1..m -> Triangles(n)]
  BY <1>3, <1>4
<1> QED
  BY <1>2, <1>5 DEF Compacted, m, n

-----------------------------------------------------------------------------
(* Every step keeps the invariant.                                         *)

USE DEF Phases, Work, round, ladder

LEMMA Begins ==
  ASSUME Init
  PROVE  QemInv
<1>1. Mesh(input)
  BY QemAssumption DEF Init, Mesh
<1>2. faces \in Seq(Triangles(verts)) /\ verts \in Nat
  BY <1>1 DEF Init, Mesh
<1>3. Faces = 1..Len(faces) /\ \A f \in Faces : faces[f] \in Triangles(verts)
  BY <1>2, ElementOfSeq DEF Faces
<1>4. faces \in Seq([Corner -> 1..verts])
  <2>1. Triangles(verts) \subseteq [Corner -> 1..verts]
    BY DEF Triangles
  <2>2. \A f \in 1..Len(faces) : faces[f] \in [Corner -> 1..verts]
    BY <1>3, <2>1
  <2> QED
    BY <1>2, <2>2, IsASeq, LenProperties
<1>5. TypeOK
  BY <1>1, <1>2, <1>4, QemAssumption DEF Init, TypeOK, NoFunction, Edges
<1>6. Still
  BY <1>3 DEF Init, Still, Simple, Triangles, NoFunction
<1> QED
  BY <1>5, <1>6 DEF Init, QemInv, Adjacency, Fresh, Progress, Reset, Budget, NoFunction

LEMMA StartStep ==
  ASSUME QemInv, Start
  PROVE  QemInv'
<1> USE DEF Start, QemInv
<1>1. TypeOK'
  BY DEF TypeOK, Mesh, Triangles, Faces, Edges
<1>2. Still'
  BY DEF Still, Simple, Faces
<1> QED
  BY <1>1, <1>2 DEF Adjacency, Fresh, Progress, Reset, Budget

LEMMA RoundStep ==
  ASSUME QemInv, Round
  PROVE  QemInv'
<1> USE DEF Round, QemInv
<1>1. Still'
  BY DEF Still, Simple, Faces
<1>2. CASE rounds < MaxRounds /\ Len(faces) > Target
  <2>1. /\ around' = [v \in 1..verts |-> {f \in Faces : v \in At(f)}]
        /\ cost' \in [MeshEdges -> Costs] /\ pc' = "propagate"
    BY <1>2
  <2>2. Edges' = MeshEdges
    BY <2>1 DEF Edges
  <2>3. Costs \subseteq Nat
    BY QemAssumption
  <2>4. MeshEdges \subseteq (1..verts) \X (1..verts)
    BY DEF MeshEdges
  <2>5. DOMAIN prop = {} /\ DOMAIN vertexProp = {} /\ DOMAIN active = {}
    BY DEF Reset, Still
  <2>6. prop' \in [DOMAIN prop' -> Edges'] /\ vertexProp' \in [DOMAIN vertexProp' -> Edges']
    BY <2>5 DEF TypeOK
  <2>7. TypeOK'
    <3>1. cost' \in [Edges' -> Nat]
      BY <2>1, <2>2, <2>3
    <3>2. around' \in [DOMAIN around' -> SUBSET Faces']
      BY <2>1 DEF Faces
    <3> QED
      BY <2>1, <2>2, <2>4, <2>5, <2>6, <3>1, <3>2 DEF TypeOK, Mesh, Triangles, Faces, Edges
  <2>8. Adjacency'
    <3>1. around' \in [1..verts -> SUBSET Faces']
      BY <2>1 DEF Faces
    <3>2. ASSUME NEW e \in Edges' PROVE e[1] < e[2] /\ Shared(e)' # {}
      <4>1. PICK f \in Faces : {e[1], e[2]} \subseteq At(f)
        BY <2>2, <3>2 DEF MeshEdges
      <4>2. e[1] \in 1..verts /\ e[2] \in 1..verts /\ e[1] < e[2]
        BY <2>2, <3>2 DEF MeshEdges
      <4>3. f \in around'[e[1]] /\ f \in around'[e[2]]
        BY <2>1, <4>1, <4>2
      <4> QED
        BY <4>2, <4>3 DEF Shared
    <3> QED
      BY <3>1, <3>2 DEF Adjacency
  <2>9. Fresh'
    <3>1. ASSUME NEW f \in Faces PROVE At(f)' = Base(f)'
      <4>1. At(f) \subseteq 1..verts
        BY CornerTyped
      <4>2. Base(f)' = {v \in 1..verts : v \in At(f)}
        BY <2>1 DEF Base
      <4> QED
        BY <4>1, <4>2 DEF At
    <3> QED
      BY <3>1 DEF Fresh, Faces
  <2> QED
    BY <1>1, <2>1, <2>5, <2>7, <2>8, <2>9 DEF Progress, Reset, Budget
<1>3. CASE ~(rounds < MaxRounds /\ Len(faces) > Target)
  <2>1. TypeOK'
    BY <1>3 DEF TypeOK, Mesh, Triangles, Faces, Edges
  <2> QED
    BY <1>1, <1>3, <2>1 DEF Adjacency, Fresh, Progress, Reset, Budget
<1> QED
  BY <1>2, <1>3

LEMMA PropagateStep ==
  ASSUME QemInv, Propagate
  PROVE  QemInv'
<1> USE DEF Propagate, QemInv
<1>1. prop' \in [DOMAIN prop' -> Edges]
  <2>1. ASSUME NEW f \in UNION {Star(e) : e \in Edges}
        PROVE  Least({e \in Edges : f \in Star(e)}) \in Edges
    BY <2>1, LeastEdge
  <2> QED
    BY <2>1
<1>2. vertexProp' \in [DOMAIN vertexProp' -> Edges]
  <2>1. ASSUME NEW v \in UNION {{e[1], e[2]} : e \in Edges}
        PROVE  Least({e \in Edges : v \in {e[1], e[2]}}) \in Edges
    BY <2>1, LeastEdge
  <2> QED
    BY <2>1
<1>3. TypeOK'
  BY <1>1, <1>2 DEF TypeOK, Mesh, Triangles, Faces, Edges
<1>4. Still' /\ Reset'
  BY DEF Still, Reset, Simple, Faces
<1>5. Adjacency' /\ Fresh'
  BY DEF Adjacency, Fresh, Shared, Edges, Faces, At, Base
<1> QED
  BY <1>3, <1>4, <1>5 DEF Progress, Budget

LEMMA LaunchStep ==
  ASSUME QemInv, Launch
  PROVE  QemInv'
<1> USE DEF Launch, QemInv
<1>1. Winners' = Winners /\ Winners \subseteq Edges
  BY DEF Winners, Wins, Cheap, OwnsFaces, OwnsVertices, Star, Edges
<1>2. TypeOK'
  BY <1>1 DEF TypeOK, Mesh, Triangles, Faces, Edges
<1>3. Still' /\ Reset' /\ Fresh'
  BY DEF Still, Reset, Fresh
<1>4. Adjacency'
  BY DEF Adjacency, Shared, Edges, Faces
<1>5. Progress'
  <2>1. vdead' = {} /\ fdead' = {} /\ DOMAIN active' = Winners'
    BY <1>1 DEF Still
  <2>2. \A e \in Winners' : ~Killed(e)' /\ ~Dropped(e)'
    BY <1>1 DEF Killed, Dropped
  <2>3. \A f \in Faces' : At(f)' = Base(f)' /\ Simple(faces[f])'
    BY DEF Still, Fresh, Faces, At, Base, Simple
  <2> QED
    BY <2>1, <2>2, <2>3 DEF Progress
<1> QED
  BY <1>2, <1>3, <1>4, <1>5 DEF Budget

LEMMA KillStep ==
  ASSUME QemInv, NEW e \in Edges, Kill(e)
  PROVE  QemInv'
<1> USE DEF Kill, Does, QemInv
<1>1. Winners' = Winners /\ e \in Winners
  BY DEF Winners, Wins, Cheap, OwnsFaces, OwnsVertices, Star, Edges, Progress
<1>2. e[2] \in 1..verts
  BY DEF TypeOK
<1>3. TypeOK'
  BY <1>2 DEF TypeOK, Mesh, Triangles, Faces, Edges
<1>4. Still' /\ Reset' /\ Fresh'
  BY DEF Still, Reset, Fresh
<1>5. Adjacency'
  BY DEF Adjacency, Shared, Edges, Faces
<1>6. Progress'
  <2>1. DOMAIN active' = DOMAIN active
    OBVIOUS
  <2>2. \A g \in Winners : Killed(g)' <=> Killed(g) \/ g = e
    BY DEF Killed, TypeOK
  <2>3. \A g \in Winners : Dropped(g)' <=> Dropped(g)
    BY DEF Dropped, TypeOK
  <2>4. vdead' = {g[2] : g \in {h \in Winners : Killed(h)'}}
    BY <1>1, <2>2 DEF Progress
  <2>5. fdead' = UNION {Shared(g) : g \in {h \in Winners : Dropped(h)'}}
    BY <2>3 DEF Progress
  <2> QED
    BY <1>1, <2>1, <2>4, <2>5 DEF Progress, Untouched, Faces, At, Base, Simple, Shared
<1> QED
  BY <1>3, <1>4, <1>5, <1>6 DEF Budget

LEMMA DropStep ==
  ASSUME QemInv, NEW e \in Edges, Drop(e)
  PROVE  QemInv'
<1> USE DEF Drop, Does, QemInv
<1>1. Winners' = Winners /\ e \in Winners
  BY DEF Winners, Wins, Cheap, OwnsFaces, OwnsVertices, Star, Edges, Progress
<1>2. Folded(e) = Shared(e)
  <2>1. around \in [1..verts -> SUBSET Faces] /\ e[1] \in 1..verts /\ e[2] \in 1..verts
    BY DEF Adjacency, TypeOK
  <2>2. ASSUME NEW f \in around[e[1]] PROVE At(f) = Base(f)
    <3>1. \A g \in Winners : f \in around[g[2]] => g = e
      BY <1>1, <2>2, Apart DEF Star
    <3>2. Untouched(f)
      BY <3>1 DEF Untouched
    <3> QED
      BY <2>1, <2>2, <3>2 DEF Progress
  <2> QED
    BY <2>1, <2>2 DEF Folded, Shared, Base
<1>3. Shared(e) \subseteq Faces
  BY DEF Shared, Adjacency, TypeOK
<1>4. TypeOK'
  BY <1>2, <1>3 DEF TypeOK, Mesh, Triangles, Faces, Edges
<1>5. Still' /\ Reset' /\ Fresh'
  BY DEF Still, Reset, Fresh
<1>6. Adjacency'
  BY DEF Adjacency, Shared, Edges, Faces
<1>7. Progress'
  <2>1. DOMAIN active' = DOMAIN active
    OBVIOUS
  <2>2. \A g \in Winners : Killed(g)' <=> Killed(g)
    BY DEF Killed, TypeOK
  <2>3. \A g \in Winners : Dropped(g)' <=> Dropped(g) \/ g = e
    BY DEF Dropped, TypeOK
  <2>4. vdead' = {g[2] : g \in {h \in Winners : Killed(h)'}}
    BY <2>2 DEF Progress
  <2>5. fdead' = UNION {Shared(g) : g \in {h \in Winners : Dropped(h)'}}
    BY <1>1, <1>2, <2>3 DEF Progress
  <2> QED
    BY <1>1, <2>1, <2>4, <2>5 DEF Progress, Untouched, Faces, At, Base, Simple, Shared
<1> QED
  BY <1>4, <1>5, <1>6, <1>7 DEF Budget

LEMMA RetargetStep ==
  ASSUME QemInv, NEW e \in Edges, Retarget(e)
  PROVE  QemInv'
<1> USE DEF Retarget, Does, QemInv
<1>1. Winners' = Winners /\ e \in Winners
  BY DEF Winners, Wins, Cheap, OwnsFaces, OwnsVertices, Star, Edges, Progress
<1>2. /\ around \in [1..verts -> SUBSET Faces]
      /\ e[1] \in 1..verts /\ e[2] \in 1..verts /\ e[1] < e[2] /\ e[1] # e[2]
  BY DEF Adjacency, TypeOK
<1>3. Faces' = Faces
  BY DEF Faces
<1>4. \A f \in Faces : f \notin around[e[2]] => faces'[f] = faces[f]
  OBVIOUS
<1>5. \A f \in around[e[2]] : faces'[f] = Retargeted(faces[f], e)
  BY <1>2
<1>6. \A f \in around[e[2]], g \in Winners : f \in Star(g) => g = e
  BY <1>1, Apart DEF Star
<1>7. \A f \in around[e[2]] : At(f) = Base(f) /\ Simple(faces[f])
  <2> SUFFICES ASSUME NEW f \in around[e[2]] PROVE At(f) = Base(f) /\ Simple(faces[f])
    OBVIOUS
  <2>1. Untouched(f)
    BY <1>6 DEF Untouched, Star
  <2> QED
    BY <1>2, <2>1 DEF Progress
<1>8. \A f \in around[e[2]] :
        /\ At(f)' = (Base(f) \ {e[2]}) \cup {e[1]}
        /\ f \notin around[e[1]] => Simple(faces'[f])
  <2> SUFFICES ASSUME NEW f \in around[e[2]]
               PROVE  /\ At(f)' = (Base(f) \ {e[2]}) \cup {e[1]}
                      /\ f \notin around[e[1]] => Simple(faces'[f])
    OBVIOUS
  <2>1. e[2] \in Base(f) /\ (f \notin around[e[1]] => e[1] \notin Base(f))
    BY <1>2 DEF Base
  <2>2. \E k \in Corner : faces[f][k] = e[2]
    BY <1>7, <2>1 DEF At
  <2> DEFINE t == faces[f]
  <2>3. /\ {Retargeted(t, e)[k] : k \in Corner} = ({t[k] : k \in Corner} \ {e[2]}) \cup {e[1]}
        /\ e[1] \notin {t[k] : k \in Corner} => Simple(Retargeted(t, e))
    BY <1>2, <1>7, <2>2, RetargetedCorners
  <2> QED
    BY <1>5, <1>7, <2>1, <2>3 DEF At
<1>9. TypeOK'
  <2>1. \A f \in Faces : faces[f] \in [Corner -> 1..verts]
    BY CornerTyped
  <2>2. \A f \in Faces : Retargeted(faces[f], e) \in [Corner -> 1..verts]
    BY <1>2, <2>1 DEF Retargeted
  <2>3. faces' \in [Faces -> [Corner -> 1..verts]]
    BY <2>1, <2>2
  <2>4. Faces = 1..Len(faces) /\ Len(faces) \in Nat
    BY DEF TypeOK, Faces
  <2>5. faces' \in Seq([Corner -> 1..verts])
    BY <2>3, <2>4
  <2> QED
    BY <1>3, <2>5 DEF TypeOK, Mesh, Triangles, Edges
<1>10. Still' /\ Reset' /\ Fresh'
  BY DEF Still, Reset, Fresh
<1>11. Adjacency'
  BY <1>3 DEF Adjacency, Shared, Edges
<1>12. Progress'
  <2>1. DOMAIN active' = DOMAIN active \ {e}
    OBVIOUS
  <2>2. \A g \in Winners : (Killed(g)' <=> Killed(g)) /\ (Dropped(g)' <=> Dropped(g))
    BY DEF Killed, Dropped, TypeOK
  <2>3. vdead' = {g[2] : g \in {h \in Winners : Killed(h)'}}
    BY <2>2 DEF Progress
  <2>4. fdead' = UNION {Shared(g) : g \in {h \in Winners : Dropped(h)'}}
    BY <2>2 DEF Progress
  <2>5. \A f \in Faces : f \notin around[e[2]] => At(f)' = At(f) /\ Simple(faces'[f]) = Simple(faces[f])
    BY <1>4 DEF At
  <2>6. ASSUME NEW f \in Faces, Untouched(f)' PROVE At(f)' = Base(f) /\ Simple(faces'[f])
    <3>1. \A g \in Winners : f \in around[g[2]] => g \in DOMAIN active /\ g # e
      BY <1>1, <2>1, <2>6 DEF Untouched
    <3>2. f \notin around[e[2]] /\ Untouched(f)
      BY <1>1, <3>1 DEF Untouched
    <3> QED
      BY <2>5, <3>2 DEF Progress
  <2>7. ASSUME NEW g \in Winners \ DOMAIN active', NEW f \in around[g[2]]
        PROVE  /\ At(f)' = (Base(f) \ {g[2]}) \cup {g[1]}
               /\ f \notin around[g[1]] => Simple(faces'[f])
    <3>1. CASE g = e
      BY <1>8, <2>7, <3>1
    <3>2. CASE g # e
      <4>1. g \in Winners \ DOMAIN active
        BY <2>1, <2>7, <3>2
      <4>2. f \notin around[e[2]]
        BY <1>6, <2>7, <3>2 DEF Star
      <4>3. f \in Faces
        BY <1>2, <2>7 DEF TypeOK, Winners
      <4> QED
        BY <2>5, <2>7, <4>1, <4>2, <4>3 DEF Progress
    <3> QED
      BY <3>1, <3>2
  <2>8. \A f : Base(f)' = Base(f)
    BY DEF Base
  <2>9. /\ DOMAIN active' \subseteq Winners'
        /\ vdead' = {g[2] : g \in {h \in Winners' : Killed(h)'}}
        /\ fdead' = UNION {Shared(g)' : g \in {h \in Winners' : Dropped(h)'}}
    BY <1>1, <2>1, <2>3, <2>4 DEF Progress, Shared
  <2>10. \A f \in Faces' : Untouched(f)' => At(f)' = Base(f)' /\ Simple(faces[f])'
    BY <1>3, <2>6, <2>8 DEF Simple
  <2>11. \A g \in Winners' \ DOMAIN active' : \A f \in around'[g[2]] :
           /\ At(f)' = (Base(f)' \ {g[2]}) \cup {g[1]}
           /\ f \notin around'[g[1]] => Simple(faces[f])'
    BY <1>1, <2>7, <2>8 DEF Simple
  <2> QED
    BY <2>9, <2>10, <2>11 DEF Progress
<1> QED
  BY <1>9, <1>10, <1>11, <1>12 DEF Budget

(* Both ways to begin a round anew start from a mesh.                      *)
LEMMA Fit ==
  ASSUME NEW n \in Nat, NEW fs \in Seq(Triangles(n))
  PROVE  /\ fs \in Seq([Corner -> 1..n])
         /\ \A f \in DOMAIN fs : Simple(fs[f])
<1>1. Triangles(n) \subseteq [Corner -> 1..n]
  BY DEF Triangles
<1>2. DOMAIN fs = 1..Len(fs) /\ Len(fs) \in Nat /\ \A f \in DOMAIN fs : fs[f] \in Triangles(n)
  BY ElementOfSeq
<1>3. fs \in [1..Len(fs) -> [Corner -> 1..n]]
  BY <1>1, <1>2
<1> QED
  BY <1>2, <1>3 DEF Triangles, Simple

LEMMA Anew ==
  ASSUME QemInv, NoRound, UNCHANGED <<input, result>>,
         verts' \in Nat, faces' \in Seq(Triangles(verts')),
         device' \in {"gpu", "cpu"}, pc' \in {"round", "copy"},
         level' \in Nat, stalls' \in 0..1, rounds' \in 0..MaxRounds
  PROVE  QemInv'
<1>1. faces' \in Seq([Corner -> 1..verts']) /\ \A f \in Faces' : Simple(faces'[f])
  BY Fit DEF Faces
<1>2. TypeOK'
  BY <1>1 DEF QemInv, TypeOK, NoRound, NoFunction, Mesh, Triangles, Edges
<1>3. Still' /\ Reset'
  BY <1>1 DEF Still, Reset, NoRound, NoFunction, Simple
<1> QED
  BY <1>2, <1>3 DEF QemInv, Adjacency, Fresh, Progress, Budget

LEMMA CompactStep ==
  ASSUME QemInv, Compact
  PROVE  QemInv'
<1> USE DEF Compact, QemInv
<1>1. verts' \in Nat /\ faces' \in Seq(Triangles(verts'))
  BY NumberFits, CompactedFaces
<1>2. level' \in Nat /\ stalls' \in 0..1
  BY DEF Climb, TypeOK
<1>3. rounds' \in 0..MaxRounds
  BY QemAssumption DEF TypeOK, Budget
<1> QED
  BY <1>1, <1>2, <1>3, Anew DEF TypeOK

LEMMA CopyStep ==
  ASSUME QemInv, Copy
  PROVE  QemInv'
<1> USE DEF Copy, QemInv
<1>1. Mesh(result')
  BY CopiedMesh DEF Still
<1>2. TypeOK'
  BY <1>1 DEF TypeOK, Mesh, Triangles, Faces, Edges
<1>3. Still' /\ Reset'
  BY DEF Still, Reset, Simple, Faces
<1> QED
  BY <1>2, <1>3 DEF Adjacency, Fresh, Progress, Budget

LEMMA FailStep ==
  ASSUME QemInv, GpuFails
  PROVE  QemInv'
<1> USE DEF GpuFails, StartOver, QemInv
<1>1. Mesh(input)
  BY DEF TypeOK
<1>2. 0 \in Nat /\ 0 \in 0..1 /\ 0 \in 0..MaxRounds
  BY QemAssumption
<1> QED
  BY <1>1, <1>2, Anew DEF Mesh

-----------------------------------------------------------------------------
(* The theorems.                                                           *)

LEMMA Invariant == Spec => []QemInv
<1>1. Init => QemInv
  BY Begins
<1>2. QemInv /\ [Next]_vars => QemInv'
  <2> SUFFICES ASSUME QemInv, [Next]_vars PROVE QemInv'
    OBVIOUS
  <2>1. CASE UNCHANGED vars
    <3> USE DEF QemInv
    <3>1. UNCHANGED <<input, device, verts, faces, around, cost, prop, vertexProp, active,
                      vdead, fdead, level, stalls, rounds, result, pc>>
      BY <2>1 DEF vars
    <3>2. Winners' = Winners
      BY <3>1 DEF Winners, Wins, Cheap, OwnsFaces, OwnsVertices, Star, Edges
    <3>3. TypeOK'
      BY <3>1 DEF TypeOK, Mesh, Triangles, Faces, Edges
    <3>4. Still' /\ Reset' /\ Budget' /\ Fresh'
      BY <3>1 DEF Still, Reset, Budget, Fresh, Faces, Simple, At, Base
    <3>5. Adjacency'
      BY <3>1 DEF Adjacency, Faces, Edges, Shared
    <3>6. Progress'
      BY <3>1, <3>2 DEF Progress, Killed, Dropped, Untouched, Faces, At, Base, Simple, Shared
    <3> QED
      BY <3>3, <3>4, <3>5, <3>6
  <2>2. CASE Start \/ Round \/ Propagate \/ Launch
    BY <2>2, StartStep, RoundStep, PropagateStep, LaunchStep
  <2>3. ASSUME NEW e \in Edges, Kill(e) \/ Drop(e) \/ Retarget(e) PROVE QemInv'
    BY <2>3, KillStep, DropStep, RetargetStep
  <2>4. CASE Compact \/ Copy \/ GpuFails
    BY <2>4, CompactStep, CopyStep, FailStep
  <2> QED
    BY <2>1, <2>2, <2>3, <2>4 DEF Next
<1> QED
  BY <1>1, <1>2, PTL DEF Spec

(* Every array of the decimation keeps its type: no index ever leaves the  *)
(* mesh, and the result is a mesh of proper triangles.                     *)
THEOREM TypeCorrect == Spec => []TypeOK
<1>1. QemInv => TypeOK
  BY DEF QemInv
<1> QED
  BY <1>1, Invariant, PTL

(* The threads of k_collapse never meet, however they are scheduled: that  *)
(* each owns all faces at its ends is enough.                              *)
THEOREM CollapsesApart == Spec => []RaceFree
<1>1. QemInv => RaceFree
  <2> SUFFICES ASSUME QemInv, NEW e \in DOMAIN active, NEW g \in DOMAIN active, e # g
               PROVE  {e[1], e[2]} \cap {g[1], g[2]} = {} /\ Star(e) \cap Star(g) = {}
    BY DEF RaceFree
  <2>1. pc = "collapse" /\ e \in Winners /\ g \in Winners
    BY DEF QemInv, Still, Progress
  <2> QED
    BY <2>1, Apart DEF QemInv
<1> QED
  BY <1>1, Invariant, PTL

(* At the end of the kernel every face is the image of what it was, which  *)
(* is what one thread after the other leaves.                              *)
LEMMA KernelResult ==
  ASSUME QemInv, pc = "collapse", DOMAIN active = {}
  PROVE  /\ vdead = {e[2] : e \in Winners}
         /\ fdead = UNION {Shared(e) : e \in Winners}
         /\ \A f \in Faces : At(f) = {Image(v) : v \in Base(f)}
         /\ \A f \in Faces \ fdead : Whole(faces[f])
<1>1. \A e \in Winners : Killed(e) /\ Dropped(e)
  BY DEF Killed, Dropped
<1>2. /\ vdead = {e[2] : e \in Winners}
      /\ fdead = UNION {Shared(e) : e \in Winners}
  BY <1>1 DEF QemInv, Progress
<1>3. \A e \in Winners : e[1] \in 1..verts /\ e[2] \in 1..verts /\ e[1] # e[2]
  BY DEF QemInv, Adjacency, TypeOK, Winners
<1>4. \A e, g \in Winners : e[2] = g[2] => e = g
  BY Apart DEF QemInv
<1>5. \A e \in Winners : Image(e[2]) = e[1]
  BY <1>4 DEF Image
<1>6. \A v : (\A e \in Winners : v # e[2]) => Image(v) = v
  BY DEF Image
<1>7. ASSUME NEW f \in Faces, NEW e \in Winners, f \in around[e[2]]
      PROVE  /\ At(f) = (Base(f) \ {e[2]}) \cup {e[1]} /\ e[2] \in Base(f)
             /\ \A g \in Winners : g # e => g[2] \notin Base(f) /\ g[2] # e[1]
             /\ f \notin around[e[1]] => Simple(faces[f])
  <2>1. e[2] \in Base(f)
    BY <1>3, <1>7 DEF Base, QemInv, Adjacency
  <2>2. \A g \in Winners : g # e => g[2] \notin Base(f) /\ g[2] # e[1]
    BY <1>7, Apart DEF Star, Base, QemInv
  <2> QED
    BY <1>7, <2>1, <2>2 DEF QemInv, Progress
<1>8. ASSUME NEW f \in Faces, \A e \in Winners : f \notin around[e[2]]
      PROVE  /\ At(f) = Base(f) /\ Simple(faces[f])
             /\ \A e \in Winners : e[2] \notin Base(f)
  <2>1. Untouched(f)
    BY <1>8 DEF Untouched
  <2> QED
    BY <1>8, <2>1 DEF QemInv, Progress, Base
<1>9. ASSUME NEW f \in Faces PROVE At(f) = {Image(v) : v \in Base(f)}
  <2>1. CASE \A e \in Winners : f \notin around[e[2]]
    <3>1. \A v \in Base(f) : Image(v) = v
      BY <1>6, <1>8, <2>1
    <3> QED
      BY <1>8, <2>1, <3>1
  <2>2. ASSUME NEW e \in Winners, f \in around[e[2]] PROVE At(f) = {Image(v) : v \in Base(f)}
    <3>1. \A v \in Base(f) : v # e[2] => Image(v) = v
      BY <1>6, <1>7, <2>2
    <3>2. e[2] \in Base(f) /\ Image(e[2]) = e[1]
      BY <1>5, <1>7, <2>2
    <3>3. {Image(v) : v \in Base(f)} = (Base(f) \ {e[2]}) \cup {e[1]}
      <4>1. {Image(v) : v \in Base(f)} \subseteq (Base(f) \ {e[2]}) \cup {e[1]}
        BY <3>1, <3>2
      <4>2. Base(f) \ {e[2]} \subseteq {Image(v) : v \in Base(f)}
        BY <3>1
      <4>3. e[1] \in {Image(v) : v \in Base(f)}
        BY <3>2
      <4> QED
        BY <4>1, <4>2, <4>3
    <3> QED
      BY <1>7, <2>2, <3>3
  <2> QED
    BY <2>1, <2>2
<1>10. ASSUME NEW f \in Faces \ fdead PROVE Whole(faces[f])
  <2>1. CASE \A e \in Winners : f \notin around[e[2]]
    BY <1>2, <1>8, <2>1 DEF Whole, Simple, At
  <2>2. ASSUME NEW e \in Winners, f \in around[e[2]] PROVE Whole(faces[f])
    <3>1. f \notin around[e[1]]
      BY <1>2, <1>10, <2>2 DEF Shared
    <3>2. Simple(faces[f]) /\ At(f) = (Base(f) \ {e[2]}) \cup {e[1]}
      BY <1>7, <2>2, <3>1
    <3>3. \A g \in Winners : g[2] \notin At(f)
      BY <1>3, <1>7, <2>2, <3>2
    <3> QED
      BY <1>2, <3>2, <3>3 DEF Whole, Simple, At
  <2> QED
    BY <2>1, <2>2
<1> QED
  BY <1>2, <1>9, <1>10

(* Compaction drops only what a collapse folded away.                      *)
THEOREM SurfaceKept == Spec => []NoHoleMade
<1>1. QemInv => NoHoleMade
  BY KernelResult DEF NoHoleMade
<1> QED
  BY <1>1, Invariant, PTL

(* The GPU and the CPU agree on a round whenever they agree on its costs   *)
(* and the order of its edges.                                             *)
THEOREM OrderDoesNotMatter == Spec => []LikeTheLoop
<1>1. QemInv => LikeTheLoop
  BY KernelResult DEF LikeTheLoop, Base
<1> QED
  BY <1>1, Invariant, PTL
=============================================================================
