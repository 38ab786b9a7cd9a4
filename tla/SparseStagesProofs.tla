------------------------- MODULE SparseStagesProofs -------------------------
(***************************************************************************)
(* SparseStages for any points, contexts and sizes of the networks, and    *)
(* whatever the decoders predict.                                          *)
(***************************************************************************)
EXTENDS SparseStages, TLAPS, FiniteSetTheorems, SequenceTheorems, WellFoundedInduction

-----------------------------------------------------------------------------
(* Flattened sequences.                                                    *)

\* A set of naturals has a least one: what replaces induction below.
LEMMA LeastNumber ==
    ASSUME NEW S \in SUBSET Nat, S # {}
    PROVE  \E n \in S : \A m \in S : n <= m
<1>1. PICK n \in S : \A y \in Nat : <<y, n>> \in OpToRel(<, Nat) => y \notin S
  <2>1. IsWellFoundedOn(OpToRel(<, Nat), Nat)
    BY NatLessThanWellFounded, Zenon
  <2> QED BY <2>1, WFMin, Zenon
<1>2. \A y \in Nat : y < n => y \notin S
  BY <1>1 DEF OpToRel
<1> QED BY <1>2

\* The flattened prefixes of s, as FlattenSeq computes them.
Flat(s) == CHOOSE f : f = [i \in 1..Len(s) |-> IF i = 1 THEN s[i] ELSE f[i - 1] \o s[i]]

\* There is such a function: a least n without one cannot be.
LEMMA FlatExists ==
    ASSUME NEW s
    PROVE  \A n \in Nat : \E f : f = [i \in 1..n |-> IF i = 1 THEN s[i] ELSE f[i - 1] \o s[i]]
<1> DEFINE Is(f, n) == f = [i \in 1..n |-> IF i = 1 THEN s[i] ELSE f[i - 1] \o s[i]]
           S == {n \in Nat : ~ \E f : Is(f, n)}
<1>1. SUFFICES ASSUME S # {} PROVE FALSE
  OBVIOUS
<1>2. PICK n \in S : \A m \in S : n <= m
  BY <1>1, LeastNumber
<1>3. CASE n = 0
  <2> DEFINE e == [i \in 1..0 |-> 0]
  <2>1. Is(e, 0)
    OBVIOUS
  <2> QED BY <1>3, <2>1
<1>4. CASE n > 0
  <2>1. n - 1 \in Nat /\ n - 1 \notin S
    <3> HIDE DEF Is
    <3> QED BY <1>2, <1>4
  <2>2. PICK f : Is(f, n - 1)
    BY <2>1
  <2> DEFINE g == [i \in 1..n |-> IF i = n THEN IF n = 1 THEN s[1] ELSE f[n - 1] \o s[n]
                                  ELSE f[i]]
  <2>3. \A i \in 1..n : g[i] = IF i = 1 THEN s[i] ELSE g[i - 1] \o s[i]
    <3> TAKE i \in 1..n
    <3>1. CASE i = n
      <4>1. n # 1 => n - 1 \in 1..n /\ n - 1 # n
        BY <1>4
      <4> QED BY <3>1, <4>1
    <3>2. CASE i # n
      <4>1. i \in 1..n - 1 /\ g[i] = f[i] /\ (i # 1 => g[i - 1] = f[i - 1])
        BY <3>2
      <4>2. f[i] = IF i = 1 THEN s[i] ELSE f[i - 1] \o s[i]
        BY <2>2, <4>1
      <4> QED BY <4>1, <4>2
    <3> QED BY <3>1, <3>2
  <2>4. Is(g, n)
    <3> DEFINE h == [i \in 1..n |-> IF i = 1 THEN s[i] ELSE g[i - 1] \o s[i]]
    <3>1. DOMAIN g = 1..n /\ DOMAIN h = 1..n /\ \A i \in 1..n : g[i] = h[i]
      BY <2>3
    <3>2. g = [i \in 1..n |-> g[i]] /\ h = [i \in 1..n |-> h[i]]
      OBVIOUS
    <3> HIDE DEF g, h
    <3>3. g = h
      BY <3>1, <3>2
    <3> QED BY <3>3 DEF h
  <2> QED BY <1>2, <2>4
<1> QED BY <1>3, <1>4

\* FlattenSeq is the last of the flattened prefixes.
LEMMA FlatDef ==
    ASSUME NEW s, Len(s) \in Nat
    PROVE  /\ \A i \in 1..Len(s) :
                 Flat(s)[i] = IF i = 1 THEN s[i] ELSE Flat(s)[i - 1] \o s[i]
           /\ Len(s) > 0 => FlattenSeq(s) = Flat(s)[Len(s)]
           /\ Len(s) = 0 => FlattenSeq(s) = s
<1>1. \E f : f = [i \in 1..Len(s) |-> IF i = 1 THEN s[i] ELSE f[i - 1] \o s[i]]
  BY FlatExists
<1>2. Flat(s) = [i \in 1..Len(s) |-> IF i = 1 THEN s[i] ELSE Flat(s)[i - 1] \o s[i]]
  BY <1>1 DEF Flat
<1>3. \A i \in 1..Len(s) : Flat(s)[i] = IF i = 1 THEN s[i] ELSE Flat(s)[i - 1] \o s[i]
  BY <1>2
<1>4. Len(s) > 0 => FlattenSeq(s) = Flat(s)[Len(s)]
  BY DEF FlattenSeq, Flat
<1>5. Len(s) = 0 => FlattenSeq(s) = s
  BY DEF FlattenSeq
<1> QED BY <1>3, <1>4, <1>5

\* The first k sequences of s, joined, and how many elements they are.
Joined(s, k) == FlattenSeq(SubSeq(s, 1, k))
Offset(s, k) == Len(Joined(s, k))

\* A prefix of s has the flattened prefixes of s.
LEMMA FlatPrefix ==
    ASSUME NEW X, NEW s \in Seq(X), NEW k \in 1..Len(s)
    PROVE  \A i \in 1..k : Flat(SubSeq(s, 1, k))[i] = Flat(s)[i]
<1> DEFINE p == SubSeq(s, 1, k)
           S == {i \in 1..k : Flat(p)[i] # Flat(s)[i]}
<1>1. SUFFICES ASSUME S # {} PROVE FALSE
  OBVIOUS
<1>2. PICK i \in S : \A m \in S : i <= m
  <2>1. S \in SUBSET Nat
    OBVIOUS
  <2> QED BY <1>1, <2>1, LeastNumber
<1>3. Len(s) \in Nat /\ Len(p) = k /\ k \in Nat /\ \A j \in 1..k : p[j] = s[j]
  OBVIOUS
<1> HIDE DEF p
<1>4. /\ Flat(p)[i] = IF i = 1 THEN p[i] ELSE Flat(p)[i - 1] \o p[i]
      /\ Flat(s)[i] = IF i = 1 THEN s[i] ELSE Flat(s)[i - 1] \o s[i]
  <2>1. i \in 1..Len(p) /\ i \in 1..Len(s) /\ Len(p) \in Nat
    BY <1>3
  <2> QED BY <1>3, <2>1, FlatDef
<1>5. CASE i = 1
  BY <1>2, <1>3, <1>4, <1>5
<1>6. CASE i # 1
  <2>1. i - 1 \in 1..k /\ i - 1 \notin S
    BY <1>2, <1>6
  <2> QED BY <1>2, <1>3, <1>4, <1>6, <2>1
<1> QED BY <1>5, <1>6

\* Joining one more sequence appends it.
LEMMA JoinedStep ==
    ASSUME NEW X, NEW s \in Seq(Seq(X))
    PROVE  /\ Joined(s, 0) = <<>>
           /\ Joined(s, Len(s)) = FlattenSeq(s)
           /\ \A k \in 1..Len(s) : Joined(s, k) = Joined(s, k - 1) \o s[k]
<1>1. Joined(s, 0) = <<>>
  <2>1. SubSeq(s, 1, 0) = <<>> /\ Len(<<>>) = 0
    OBVIOUS
  <2> QED BY <2>1 DEF Joined, FlattenSeq
<1>2. Joined(s, Len(s)) = FlattenSeq(s)
  <2>1. SubSeq(s, 1, Len(s)) = s
    OBVIOUS
  <2> QED BY <2>1 DEF Joined
<1>0. ASSUME NEW k \in 1..Len(s) PROVE Joined(s, k) = Flat(s)[k]
  <2> DEFINE p == SubSeq(s, 1, k)
  <2>1. Len(p) = k /\ k \in Nat /\ k > 0
    OBVIOUS
  <2>2. Flat(p)[k] = Flat(s)[k]
    BY <2>1, FlatPrefix
  <2>3. Joined(s, k) = FlattenSeq(p)
    BY DEF Joined
  <2> HIDE DEF p
  <2> QED BY <2>1, <2>2, <2>3, FlatDef
<1>3. ASSUME NEW k \in 1..Len(s) PROVE Joined(s, k) = Joined(s, k - 1) \o s[k]
  <2>1. k \in Nat /\ Len(s) \in Nat
    OBVIOUS
  <2>2. Joined(s, k) = Flat(s)[k]
    BY <1>0
  <2>3. Flat(s)[k] = IF k = 1 THEN s[k] ELSE Flat(s)[k - 1] \o s[k]
    BY <2>1, FlatDef
  <2>4. CASE k = 1
    <3>1. s[1] \in Seq(X) /\ <<>> \o s[1] = s[1]
      BY <2>4
    <3> QED BY <1>1, <2>2, <2>3, <2>4, <3>1
  <2>5. CASE k # 1
    <3>1. k - 1 \in 1..Len(s)
      BY <2>5
    <3>2. Joined(s, k - 1) = Flat(s)[k - 1]
      BY <1>0, <3>1
    <3> QED BY <2>2, <2>3, <2>5, <3>2
  <2> QED BY <2>4, <2>5
<1> QED BY <1>1, <1>2, <1>3

\* Joined sequences of X are a sequence of X.
LEMMA JoinedType ==
    ASSUME NEW X, NEW s \in Seq(Seq(X))
    PROVE  \A k \in 0..Len(s) : Joined(s, k) \in Seq(X)
<1> DEFINE S == {k \in 0..Len(s) : Joined(s, k) \notin Seq(X)}
<1>1. SUFFICES ASSUME S # {} PROVE FALSE
  OBVIOUS
<1>2. PICK k \in S : \A m \in S : k <= m
  <2>1. S \in SUBSET Nat
    OBVIOUS
  <2> QED BY <1>1, <2>1, LeastNumber
<1>0. k \in 0..Len(s) /\ Joined(s, k) \notin Seq(X)
  OBVIOUS
<1>3. CASE k = 0
  <2>1. Joined(s, 0) = <<>>
    BY JoinedStep
  <2>2. <<>> \in Seq(X)
    OBVIOUS
  <2> HIDE DEF S
  <2> QED BY <1>0, <1>3, <2>1, <2>2
<1>4. CASE k # 0
  <2>1. k \in 1..Len(s) /\ k - 1 \in 0..Len(s) /\ k - 1 \notin S
    BY <1>2, <1>4
  <2>2. Joined(s, k - 1) \in Seq(X) /\ s[k] \in Seq(X)
    BY <2>1
  <2>3. Joined(s, k) = Joined(s, k - 1) \o s[k]
    BY <2>1, JoinedStep
  <2>4. Joined(s, k - 1) \o s[k] \in Seq(X)
    BY <2>2
  <2> QED BY <1>0, <2>3, <2>4
<1> QED BY <1>3, <1>4

\* The j-th sequence stands in every longer joining at its offset.
LEMMA JoinedAt ==
    ASSUME NEW X, NEW s \in Seq(Seq(X)), NEW j \in 1..Len(s)
    PROVE  \A k \in j..Len(s) :
              /\ Offset(s, j) <= Offset(s, k)
              /\ \A i \in 1..Len(s[j]) : Joined(s, k)[Offset(s, j - 1) + i] = s[j][i]
<1> DEFINE Ok(k) == /\ Offset(s, j) <= Offset(s, k)
                    /\ \A i \in 1..Len(s[j]) : Joined(s, k)[Offset(s, j - 1) + i] = s[j][i]
           S == {k \in j..Len(s) : ~Ok(k)}
<1>1. SUFFICES ASSUME S # {} PROVE FALSE
  OBVIOUS
<1>2. PICK k \in S : \A m \in S : k <= m
  <2>1. S \in SUBSET Nat
    <3> HIDE DEF Ok
    <3> QED OBVIOUS
  <2> QED BY <1>1, <2>1, LeastNumber
<1> HIDE DEF Ok
<1>0. Len(s) \in Nat /\ k \in 1..Len(s) /\ j \in 1..Len(s)
  OBVIOUS
<1>3. /\ \A m \in 1..Len(s) : Joined(s, m) = Joined(s, m - 1) \o s[m]
      /\ \A m \in 1..Len(s) : s[m] \in Seq(X)
  <2>1. \A m \in 1..Len(s) : Joined(s, m) = Joined(s, m - 1) \o s[m]
    BY JoinedStep
  <2>2. \A m \in 1..Len(s) : s[m] \in Seq(X)
    BY <1>0
  <2> QED BY <2>1, <2>2
<1>4. /\ Joined(s, j - 1) \in Seq(X) /\ Joined(s, k - 1) \in Seq(X)
      /\ s[k] \in Seq(X) /\ s[j] \in Seq(X)
      /\ Joined(s, k) = Joined(s, k - 1) \o s[k]
      /\ Joined(s, j) = Joined(s, j - 1) \o s[j]
  <2>1. \A m \in 0..Len(s) : Joined(s, m) \in Seq(X)
    BY JoinedType
  <2>2. j - 1 \in 0..Len(s) /\ k - 1 \in 0..Len(s)
    BY <1>0
  <2> QED BY <1>0, <1>3, <2>1, <2>2
<1>5. CASE k = j
  <2> USE DEF Ok
  <2>1. \A i \in 1..Len(s[j]) :
           (Joined(s, j - 1) \o s[j])[Len(Joined(s, j - 1)) + i] = s[j][i]
    BY <1>4
  <2>2. Offset(s, j) <= Offset(s, k)
    BY <1>4, <1>5 DEF Offset
  <2> QED BY <1>2, <1>4, <1>5, <2>1, <2>2 DEF Offset
<1>6. CASE k # j
  <2>1. k - 1 \in j..Len(s) /\ k - 1 \notin S
    BY <1>2, <1>6
  <2>2. Ok(k - 1)
    BY <2>1
  <2> USE DEF Ok
  <2>3. Len(Joined(s, k)) = Len(Joined(s, k - 1)) + Len(s[k])
        /\ Len(Joined(s, j)) = Len(Joined(s, j - 1)) + Len(s[j])
    BY <1>4
  <2>4. \A i \in 1..Len(Joined(s, k - 1)) : Joined(s, k)[i] = Joined(s, k - 1)[i]
    BY <1>4
  <2>5. Len(Joined(s, k - 1)) \in Nat /\ Len(s[k]) \in Nat /\ Len(Joined(s, j - 1)) \in Nat
        /\ Len(s[j]) \in Nat
    BY <1>4
  <2>8. /\ Offset(s, j) <= Offset(s, k - 1) /\ Offset(s, k) = Offset(s, k - 1) + Len(s[k])
        /\ Offset(s, j) = Offset(s, j - 1) + Len(s[j]) /\ Offset(s, k - 1) = Len(Joined(s, k - 1))
        /\ Offset(s, k - 1) \in Nat /\ Offset(s, j - 1) \in Nat
    BY <2>2, <2>3, <2>5 DEF Offset
  <2>6. \A i \in 1..Len(s[j]) : Offset(s, j - 1) + i \in 1..Len(Joined(s, k - 1))
    <3> DEFINE m == Len(s[j])
               o == Offset(s, j - 1)
               p == Offset(s, j)
               q == Offset(s, k - 1)
    <3>1. m \in Nat /\ o \in Nat /\ p = o + m /\ q \in Nat /\ p <= q
      BY <2>5, <2>8
    <3> HIDE DEF m, o, p, q
    <3>2. \A i \in 1..m : o + i \in 1..q
      BY <3>1
    <3> QED BY <2>8, <3>2 DEF m, o, q
  <2>7. Ok(k)
    <3>1. Offset(s, j) <= Offset(s, k)
      BY <2>5, <2>8
    <3>2. \A i \in 1..Len(s[j]) : Joined(s, k)[Offset(s, j - 1) + i] = s[j][i]
      BY <2>2, <2>4, <2>6
    <3> QED BY <3>1, <3>2
  <2> QED BY <1>2, <2>7
<1> QED BY <1>5, <1>6

\* Where the parts of a flattened sequence stand.
LEMMA Flattened ==
    ASSUME NEW X, NEW s \in Seq(Seq(X))
    PROVE  /\ FlattenSeq(s) \in Seq(X)
           /\ Offset(s, 0) = 0 /\ Offset(s, Len(s)) = Len(FlattenSeq(s))
           /\ \A k \in 0..Len(s) : Offset(s, k) \in Nat /\ Offset(s, k) <= Len(FlattenSeq(s))
           /\ \A k \in 1..Len(s) :
                 /\ Offset(s, k) = Offset(s, k - 1) + Len(s[k])
                 /\ \A i \in 1..Len(s[k]) : FlattenSeq(s)[Offset(s, k - 1) + i] = s[k][i]
<1>0. Len(s) \in Nat
  OBVIOUS
<1>1. FlattenSeq(s) = Joined(s, Len(s)) /\ Joined(s, 0) = <<>>
  BY JoinedStep
<1>2. FlattenSeq(s) \in Seq(X)
  BY <1>0, <1>1, JoinedType
<1>3. Offset(s, 0) = 0 /\ Offset(s, Len(s)) = Len(FlattenSeq(s))
  BY <1>1 DEF Offset
<1>4. \A k \in 0..Len(s) : Offset(s, k) \in Nat
  BY JoinedType DEF Offset
<1>5. ASSUME NEW k \in 1..Len(s)
      PROVE  /\ Offset(s, k) = Offset(s, k - 1) + Len(s[k])
             /\ Offset(s, k) <= Len(FlattenSeq(s))
             /\ \A i \in 1..Len(s[k]) : FlattenSeq(s)[Offset(s, k - 1) + i] = s[k][i]
  <2>0. Joined(s, k) = Joined(s, k - 1) \o s[k] /\ s[k] \in Seq(X)
    <3>1. s[k] \in Seq(X)
      BY <1>0
    <3>2. Joined(s, k) = Joined(s, k - 1) \o s[k]
      BY JoinedStep
    <3> QED BY <3>1, <3>2
  <2>1. Joined(s, k - 1) \in Seq(X)
    <3>1. k - 1 \in 0..Len(s)
      BY <1>0
    <3> QED BY <3>1, JoinedType
  <2>2. Offset(s, k) = Offset(s, k - 1) + Len(s[k])
    BY <2>0, <2>1 DEF Offset
  <2>3. Len(s) \in k..Len(s)
    BY <1>0
  <2>4. /\ Offset(s, k) <= Offset(s, Len(s))
        /\ \A i \in 1..Len(s[k]) : Joined(s, Len(s))[Offset(s, k - 1) + i] = s[k][i]
    BY <2>3, JoinedAt
  <2>5. Offset(s, k) <= Len(FlattenSeq(s))
    BY <1>3, <2>4
  <2>6. \A i \in 1..Len(s[k]) : FlattenSeq(s)[Offset(s, k - 1) + i] = s[k][i]
    BY <1>1, <2>4
  <2> QED BY <2>2, <2>5, <2>6
<1>6. \A k \in 0..Len(s) : k = 0 \/ k \in 1..Len(s)
  BY <1>0
<1>7. Len(FlattenSeq(s)) \in Nat
  BY <1>2
<1>8. \A k \in 0..Len(s) : Offset(s, k) <= Len(FlattenSeq(s))
  BY <1>3, <1>5, <1>6, <1>7
<1> QED BY <1>2, <1>3, <1>4, <1>5, <1>8

\* Every element of a flattened sequence stands in one of its parts.
LEMMA FlatPlace ==
    ASSUME NEW X, NEW s \in Seq(Seq(X)), NEW m \in 1..Len(FlattenSeq(s))
    PROVE  \E k \in 1..Len(s) : \E i \in 1..Len(s[k]) :
              /\ m = Offset(s, k - 1) + i /\ FlattenSeq(s)[m] = s[k][i]
<1> DEFINE S == {k \in 0..Len(s) : m <= Offset(s, k)}
<1>1. /\ Len(s) \in Nat /\ Len(FlattenSeq(s)) \in Nat
      /\ Offset(s, 0) = 0 /\ Offset(s, Len(s)) = Len(FlattenSeq(s))
      /\ \A k \in 0..Len(s) : Offset(s, k) \in Nat
  BY Flattened
<1>2. Len(s) \in S /\ S \in SUBSET Nat
  BY <1>1
<1>3. PICK k \in S : \A j \in S : k <= j
  BY <1>2, LeastNumber
<1>4. k \in 1..Len(s) /\ k - 1 \in 0..Len(s) /\ k - 1 \notin S
  BY <1>1, <1>3
<1>5. m > Offset(s, k - 1) /\ m <= Offset(s, k)
  <2>1. m \in Nat /\ Offset(s, k - 1) \in Nat
    BY <1>1, <1>4
  <2>2. m <= Offset(s, k) /\ ~(m <= Offset(s, k - 1))
    BY <1>4
  <2> QED BY <2>1, <2>2
<1>6. /\ Offset(s, k) = Offset(s, k - 1) + Len(s[k]) /\ Len(s[k]) \in Nat
      /\ \A i \in 1..Len(s[k]) : FlattenSeq(s)[Offset(s, k - 1) + i] = s[k][i]
  BY <1>4, Flattened
<1> DEFINE i == m - Offset(s, k - 1)
<1>7. i \in 1..Len(s[k]) /\ m = Offset(s, k - 1) + i
  BY <1>1, <1>4, <1>5, <1>6
<1> QED BY <1>4, <1>6, <1>7

\* A later part stands behind.
LEMMA OffsetsGrow ==
    ASSUME NEW X, NEW s \in Seq(Seq(X)), NEW j \in 0..Len(s), NEW k \in j..Len(s)
    PROVE  Offset(s, j) <= Offset(s, k)
<1>1. /\ Len(s) \in Nat /\ Offset(s, 0) = 0 /\ \A n \in 0..Len(s) : Offset(s, n) \in Nat
  BY Flattened
<1>2. CASE j = 0
  BY <1>1, <1>2
<1>3. CASE j # 0
  <2>1. j \in 1..Len(s)
    BY <1>3
  <2> QED BY <2>1, JoinedAt
<1> QED BY <1>2, <1>3

\* How many a part holds that is written as a function.
LEMMA LenIs ==
    ASSUME NEW n \in Nat, NEW f, f = [i \in 1..n |-> f[i]]
    PROVE  Len(f) = n /\ DOMAIN f = 1..n /\ \A X : (\A i \in 1..n : f[i] \in X) => f \in Seq(X)
<1>1. f \in [1..n -> {f[i] : i \in 1..n}]
  OBVIOUS
<1>2. f \in Seq({f[i] : i \in 1..n}) /\ DOMAIN f = 1..n
  BY <1>1
<1>3. ASSUME NEW X, \A i \in 1..n : f[i] \in X PROVE f \in Seq(X)
  <2>1. f \in [1..n -> X]
    BY <1>3
  <2> QED BY <2>1
<1> QED BY <1>2, <1>3

-----------------------------------------------------------------------------
(* Finite sets in order, and rows in the order of their batches.           *)

Total(S, order) ==
    /\ \A x \in S : <<x, x>> \notin order
    /\ \A x, y \in S : x # y => <<x, y>> \in order \/ <<y, x>> \in order
    /\ \A x, y, z \in S : <<x, y>> \in order /\ <<y, z>> \in order => <<x, z>> \in order

\* InOrder goes through a set from the first on, and leaves nothing out.
LEMMA InOrderIs ==
    ASSUME NEW S, IsFiniteSet(S), NEW order, Total(S, order)
    PROVE  LET N == Cardinality(S)
               s == InOrder(S, order)
           IN  /\ N \in Nat /\ s = [n \in 1..N |-> s[n]]
               /\ \A n \in 1..N : s[n] \in S
               /\ \A x \in S : \E n \in 1..N : s[n] = x
               /\ \A m, n \in 1..N : m < n => <<s[m], s[n]>> \in order /\ s[m] # s[n]
<1> DEFINE N == Cardinality(S)
           s == InOrder(S, order)
           Before(x) == {y \in S : <<y, x>> \in order}
           rank == [x \in S |-> Cardinality(Before(x)) + 1]
<1>1. N \in Nat
  BY FS_CardinalityType
<1>2. ASSUME NEW x \in S
      PROVE  IsFiniteSet(Before(x)) /\ Cardinality(Before(x)) \in Nat /\ Cardinality(Before(x)) <= N - 1
  <2>1. Before(x) \in SUBSET (S \ {x})
    BY DEF Total
  <2>2. IsFiniteSet(S \ {x}) /\ Cardinality(S \ {x}) = N - 1
    BY FS_RemoveElement
  <2> HIDE DEF Before, N
  <2>3. IsFiniteSet(Before(x)) /\ Cardinality(Before(x)) <= N - 1
    BY <2>1, <2>2, FS_Subset
  <2> QED BY <2>3, FS_CardinalityType
<1>3. ASSUME NEW x \in S, NEW y \in S, <<x, y>> \in order
      PROVE  Cardinality(Before(x)) < Cardinality(Before(y))
  <2>1. x \notin Before(x) /\ Before(x) \cup {x} \in SUBSET Before(y)
    BY <1>3 DEF Total
  <2> HIDE DEF Before
  <2>2. Cardinality(Before(x) \cup {x}) = Cardinality(Before(x)) + 1
    BY <1>2, <2>1, FS_AddElement
  <2>3. Cardinality(Before(x) \cup {x}) <= Cardinality(Before(y))
    BY <1>2, <2>1, FS_Subset
  <2> QED BY <1>2, <2>2, <2>3
<1> HIDE DEF Before, N
<1>4. \A x, y \in S : rank[x] = rank[y] => x = y
  <2> SUFFICES ASSUME NEW x \in S, NEW y \in S, rank[x] = rank[y], x # y PROVE FALSE
    OBVIOUS
  <2>1. <<x, y>> \in order \/ <<y, x>> \in order
    BY DEF Total
  <2>2. Cardinality(Before(x)) = Cardinality(Before(y))
    BY <1>2
  <2>3. Cardinality(Before(x)) \in Nat
    BY <1>2
  <2> QED BY <1>3, <2>1, <2>2, <2>3
<1>5. rank \in Injection(S, 1..N)
  <2>1. rank \in [S -> 1..N]
    BY <1>1, <1>2
  <2> QED BY <1>4, <2>1 DEF Injection, IsInjective
<1>6. rank \in Surjection(S, 1..N)
  <2>1. IsFiniteSet(1..N) /\ Cardinality(1..N) = N
    BY <1>1, FS_Interval
  <2> HIDE DEF rank
  <2>2. Cardinality(S) = N
    BY DEF N
  <2> QED BY <1>5, <2>1, <2>2, FS_Injection
<1>7. \A n \in 1..N : \E x \in S : Cardinality(Before(x)) = n - 1
  <2> SUFFICES ASSUME NEW n \in 1..N PROVE \E x \in S : Cardinality(Before(x)) = n - 1
    OBVIOUS
  <2>1. PICK x \in S : rank[x] = n
    <3> HIDE DEF rank
    <3> QED BY <1>6 DEF Surjection
  <2> QED BY <1>1, <1>2, <2>1
<1>8. \A n \in 1..N : s[n] = CHOOSE x \in S : Cardinality(Before(x)) = n - 1
  BY DEF InOrder, Before, N
<1>9. \A n \in 1..N : s[n] \in S /\ Cardinality(Before(s[n])) = n - 1
  BY <1>7, <1>8
<1>10. s = [n \in 1..N |-> s[n]]
  <2> DEFINE e(n) == CHOOSE x \in S : Cardinality({y \in S : <<y, x>> \in order}) = n - 1
  <2>1. s = [n \in 1..N |-> e(n)]
    BY DEF InOrder, N
  <2> HIDE DEF s, e
  <2> QED BY <2>1
<1> HIDE DEF s
<1>11. ASSUME NEW x \in S PROVE \E n \in 1..N : s[n] = x
  <2> DEFINE n == Cardinality(Before(x)) + 1
  <2>1. n \in 1..N /\ n - 1 = Cardinality(Before(x))
    BY <1>1, <1>2
  <2> HIDE DEF n
  <2>2. s[n] \in S /\ rank[s[n]] = rank[x]
    BY <1>9, <2>1
  <2> QED BY <1>4, <2>1, <2>2
<1>12. ASSUME NEW m \in 1..N, NEW n \in 1..N, m < n
       PROVE  <<s[m], s[n]>> \in order /\ s[m] # s[n]
  <2>1. s[m] \in S /\ s[n] \in S /\ Cardinality(Before(s[m])) < Cardinality(Before(s[n]))
    BY <1>1, <1>9, <1>12
  <2>2. s[m] # s[n]
    BY <1>2, <2>1
  <2>3. <<s[n], s[m]>> \notin order
    <3>1. <<s[n], s[m]>> \in order => Cardinality(Before(s[n])) < Cardinality(Before(s[m]))
      BY <1>3, <2>1
    <3>2. Cardinality(Before(s[n])) \in Nat /\ Cardinality(Before(s[m])) \in Nat
      BY <1>2, <2>1
    <3> QED BY <2>1, <3>1, <3>2
  <2> QED BY <2>1, <2>2, <2>3 DEF Total
<1> QED BY <1>1, <1>9, <1>10, <1>11, <1>12 DEF s, N

\* Keys that never fall: those below a bound come first.
LEMMA RowsBelow ==
    ASSUME NEW n \in Nat, NEW key, \A i \in 1..n : key[i] \in Int,
           \A i \in 1..n : i > 1 => key[i - 1] <= key[i], NEW b \in Int
    PROVE  \E k \in 0..n : \A i \in 1..n : key[i] < b <=> i <= k
<1> DEFINE T == {i \in 1..n + 1 : i = n + 1 \/ ~(key[i] < b)}
<1>1. PICK m \in T : \A i \in T : m <= i
  <2>1. n + 1 \in T /\ T \in SUBSET Nat
    OBVIOUS
  <2> QED BY <2>1, LeastNumber
<1>2. \A i \in 1..n : i < m => key[i] < b
  <2> TAKE i \in 1..n
  <2> HAVE i < m
  <2>1. i \notin T /\ i # n + 1 /\ i \in 1..n + 1
    BY <1>1
  <2> QED BY <2>1
<1>3. \A i \in 1..n : i >= m => ~(key[i] < b)
  <2> DEFINE U == {i \in m..n : key[i] < b}
  <2>1. SUFFICES ASSUME U # {} PROVE FALSE
    OBVIOUS
  <2>2. PICK u \in U : \A i \in U : u <= i
    <3>1. U \in SUBSET Nat
      OBVIOUS
    <3> QED BY <2>1, <3>1, LeastNumber
  <2>3. u # m /\ u \in 1..n /\ u > m /\ key[u] < b
    <3>1. u \in m..n /\ key[u] < b
      OBVIOUS
    <3>2. m = n + 1 \/ ~(key[m] < b)
      OBVIOUS
    <3> QED BY <3>1, <3>2
  <2>4. u - 1 \in m..n /\ u - 1 \notin U /\ u - 1 \in 1..n
    BY <2>2, <2>3
  <2>5. ~(key[u - 1] < b)
    BY <2>4
  <2> QED BY <2>3, <2>4, <2>5
<1>4. m - 1 \in 0..n /\ m \in 1..n + 1
  OBVIOUS
<1> HIDE DEF T
<1>5. \A i \in 1..n : key[i] < b <=> i <= m - 1
  BY <1>2, <1>3, <1>4
<1> QED BY <1>4, <1>5

-----------------------------------------------------------------------------
(* Tensors as the operations hand them on.                                 *)

Tensor(t) ==
    /\ t = [batch |-> t.batch, size |-> t.size, ch |-> t.ch, coords |-> t.coords,
            deps |-> t.deps]
    /\ t.batch \in Nat /\ t.size \in Nat /\ t.ch \in Nat /\ t.coords \in Seq(Point)
    /\ t.deps = [i \in DOMAIN t.coords |-> t.deps[i]]

Good(t) == Tensor(t) /\ Valid(t)

\* The same points with other channels, computed from other things.
With(t, ch, deps) ==
    [batch |-> t.batch, size |-> t.size, ch |-> ch, coords |-> t.coords, deps |-> deps]

ForRows(t, deps) == deps = [i \in DOMAIN t.coords |-> deps[i]]

\* The rows of a batch.
Of(t, b) == {i \in DOMAIN t.coords : t.coords[i][1] = b}

\* What a tensor the cascade computes with is made of.
LEMMA GoodIs ==
    ASSUME NEW t, Good(t)
    PROVE  /\ t.batch \in Nat \ {0} /\ t.size \in Nat \ {0} /\ t.ch \in Nat \ {0}
           /\ t.coords \in Seq(Point) /\ Len(t.coords) \in Nat
           /\ DOMAIN t.coords = 1..Len(t.coords) /\ ForRows(t, t.deps)
           /\ t = With(t, t.ch, t.deps) /\ Len(t.deps) = Len(t.coords)
           /\ \A i \in DOMAIN t.coords :
                 /\ t.coords[i] \in Point /\ t.coords[i][1] \in 0..t.batch - 1
                 /\ \A a \in 2..4 : t.coords[i][a] \in 0..t.size - 1
           /\ \A i, j \in DOMAIN t.coords : t.coords[i] = t.coords[j] => i = j
           /\ \A i \in DOMAIN t.coords : i > 1 => t.coords[i - 1][1] <= t.coords[i][1]
<1>1. t.batch \in Nat \ {0} /\ t.size \in Nat \ {0} /\ t.ch \in Nat \ {0}
  BY DEF Good, Tensor, Valid
<1>2. t.coords \in Seq(Point) /\ ForRows(t, t.deps) /\ t = With(t, t.ch, t.deps)
  BY DEF Good, Tensor, With, ForRows
<1>3. Len(t.coords) \in Nat /\ DOMAIN t.coords = 1..Len(t.coords)
  BY <1>2
<1>4. \A i \in DOMAIN t.coords : t.coords[i] \in Point
  BY <1>2
<1>5. Len(t.deps) = Len(t.coords)
  BY DEF Good, Valid
<1>6. \A i \in DOMAIN t.coords : /\ t.coords[i][1] \in 0..t.batch - 1
                                 /\ \A a \in 2..4 : t.coords[i][a] \in 0..t.size - 1
  BY DEF Good, Valid, InShape
<1>7. \A i, j \in DOMAIN t.coords : t.coords[i] = t.coords[j] => i = j
  BY DEF Good, Valid, IsInjective
<1>8. \A i \in DOMAIN t.coords : i > 1 => t.coords[i - 1][1] <= t.coords[i][1]
  BY DEF Good, Valid
<1> QED BY <1>1, <1>2, <1>3, <1>4, <1>5, <1>6, <1>7, <1>8

\* Other channels, computed row by row, leave a tensor good.
LEMMA WithIsGood ==
    ASSUME NEW t, Good(t), NEW ch \in Nat \ {0}, NEW deps, ForRows(t, deps)
    PROVE  /\ Good(With(t, ch, deps))
           /\ With(t, ch, deps).ch = ch /\ With(t, ch, deps).deps = deps
           /\ With(t, ch, deps).coords = t.coords /\ With(t, ch, deps).batch = t.batch
           /\ With(t, ch, deps).size = t.size
           /\ \A c, d : With(With(t, ch, deps), c, d) = With(t, c, d)
<1> DEFINE u == With(t, ch, deps)
<1>1. /\ u.ch = ch /\ u.deps = deps /\ u.coords = t.coords /\ u.batch = t.batch
      /\ u.size = t.size
  BY DEF With
<1>2. \A c, d : With(u, c, d) = With(t, c, d)
  BY DEF With
<1>3. Tensor(u)
  <2>1. u = [batch |-> u.batch, size |-> u.size, ch |-> u.ch, coords |-> u.coords,
             deps |-> u.deps]
    BY DEF With
  <2> HIDE DEF u
  <2> QED BY <1>1, <2>1, GoodIs DEF Tensor, ForRows
<1>4. Len(u.deps) = Len(u.coords)
  <2> DEFINE n == Len(t.coords)
  <2>1. n \in Nat /\ deps = [i \in 1..n |-> deps[i]]
    BY GoodIs DEF ForRows
  <2> HIDE DEF n
  <2>2. Len(deps) = n
    BY <2>1, LenIs
  <2> QED BY <1>1, <2>2 DEF n
<1>5. Valid(u)
  <2> HIDE DEF u
  <2>1. u.batch > 0 /\ u.ch > 0 /\ u.size > 0
    BY <1>1, GoodIs
  <2>2. \A i \in DOMAIN u.coords : InShape(u, u.coords[i])
    BY <1>1 DEF Good, Valid, InShape
  <2>3. IsInjective(u.coords)
    BY <1>1 DEF Good, Valid
  <2>4. \A i \in DOMAIN u.coords : i > 1 => u.coords[i - 1][1] <= u.coords[i][1]
    BY <1>1 DEF Good, Valid
  <2> QED BY <1>4, <2>1, <2>2, <2>3, <2>4 DEF Valid
<1> QED BY <1>1, <1>2, <1>3, <1>5 DEF Good

\* There are n numbers from 1 to n.
LEMMA CountTo ==
    ASSUME NEW n \in Nat
    PROVE  IsFiniteSet(1..n) /\ Cardinality(1..n) = n
<1>1. 1 \in Int /\ n \in Int
  OBVIOUS
<1>2. IsFiniteSet(1..n) /\ Cardinality(1..n) = IF 1 > n THEN 0 ELSE n - 1 + 1
  BY <1>1, FS_Interval
<1> QED BY <1>2

\* Rows are found by position: what lies before those of a batch is counted.
LEMMA BatchRows ==
    ASSUME NEW t, Good(t), NEW b \in Int
    PROVE  /\ Cardinality({i \in DOMAIN t.coords : t.coords[i][1] < b}) \in Nat
           /\ Cardinality({i \in DOMAIN t.coords : t.coords[i][1] < b}) + 1
                 .. Cardinality({i \in DOMAIN t.coords : t.coords[i][1] < b + 1}) = Of(t, b)
           /\ BatchRange(t, b) = Of(t, b)
<1> DEFINE n == Len(t.coords)
           key == [i \in 1..n |-> t.coords[i][1]]
           count(x) == Cardinality({i \in DOMAIN t.coords : t.coords[i][1] < x})
<1>1. /\ n \in Nat /\ DOMAIN t.coords = 1..n
      /\ \A i \in 1..n : key[i] \in Int /\ key[i] = t.coords[i][1]
      /\ \A i \in 1..n : i > 1 => key[i - 1] <= key[i]
  <2>1. n \in Nat /\ DOMAIN t.coords = 1..n
    BY GoodIs
  <2>2. \A i \in 1..n : t.coords[i][1] \in Int
    BY <2>1, GoodIs
  <2>3. \A i \in 1..n : i > 1 => t.coords[i - 1][1] <= t.coords[i][1]
    BY <2>1, GoodIs
  <2>4. \A i \in 1..n : i > 1 => i - 1 \in 1..n
    BY <2>1
  <2> HIDE DEF n
  <2> QED BY <2>1, <2>2, <2>3, <2>4
<1> HIDE DEF n, key
<1>2. \A x \in Int : \E k \in 0..n : \A i \in 1..n : t.coords[i][1] < x <=> i <= k
  <2> TAKE x \in Int
  <2>1. \E k \in 0..n : \A i \in 1..n : key[i] < x <=> i <= k
    BY <1>1, RowsBelow
  <2> QED BY <1>1, <2>1
<1>3. ASSUME NEW x \in Int, NEW k \in 0..n, \A i \in 1..n : t.coords[i][1] < x <=> i <= k
      PROVE  count(x) = k
  <2>1. {i \in DOMAIN t.coords : t.coords[i][1] < x} = 1..k
    BY <1>1, <1>3
  <2>2. Cardinality(1..k) = k
    BY <1>1, CountTo
  <2> QED BY <2>1, <2>2
<1>4. PICK k \in 0..n : \A i \in 1..n : t.coords[i][1] < b <=> i <= k
  BY <1>2
<1>5. PICK l \in 0..n : \A i \in 1..n : t.coords[i][1] < b + 1 <=> i <= l
  <2>1. b + 1 \in Int
    OBVIOUS
  <2> QED BY <1>2, <2>1
<1>6. count(b) = k /\ count(b + 1) = l
  BY <1>3, <1>4, <1>5
<1> HIDE DEF count
<1>7. \A i \in 1..n : t.coords[i][1] = b <=> i \in k + 1 .. l
  <2>1. \A i \in 1..n : t.coords[i][1] \in Int
    BY <1>1
  <2>2. \A i \in 1..n : t.coords[i][1] = b <=> ~(t.coords[i][1] < b) /\ t.coords[i][1] < b + 1
    BY <2>1
  <2> QED BY <1>1, <1>4, <1>5, <2>2
<1>8. Of(t, b) = k + 1 .. l
  BY <1>1, <1>7 DEF Of
<1>9. BatchRange(t, b) = Of(t, b)
  <2> DEFINE before == {i \in DOMAIN t.coords : \A j \in 1..i : t.coords[j][1] < b}
  <2>1. before = 1..k
    BY <1>1, <1>4
  <2>2. Cardinality(before) + 1 = k + 1
    <3>1. Cardinality(1..k) = k
      BY <1>1, CountTo
    <3> HIDE DEF before
    <3> QED BY <2>1, <3>1
  <2> HIDE DEF before
  <2>3. BatchRange(t, b) = {i \in k + 1 .. n : \A j \in k + 1 .. i : t.coords[j][1] = b}
    BY <2>2 DEF BatchRange, before, n
  <2>4. \A i \in k + 1 .. n : (\A j \in k + 1 .. i : t.coords[j][1] = b) <=> i <= l
    <3> TAKE i \in k + 1 .. n
    <3>1. \A j \in k + 1 .. i : j \in 1..n /\ (t.coords[j][1] = b <=> j <= l)
      BY <1>1, <1>7
    <3>2. i \in k + 1 .. i
      BY <1>1
    <3>3. (\A j \in k + 1 .. i : t.coords[j][1] = b) => i <= l
      BY <3>1, <3>2
    <3>4. ASSUME i <= l, NEW j \in k + 1 .. i PROVE t.coords[j][1] = b
      <4>1. j <= l
        BY <1>1, <3>4
      <4> QED BY <3>1, <4>1
    <3> QED BY <3>3, <3>4
  <2>5. \A i \in k + 1 .. l : i \in k + 1 .. n
    BY <1>1
  <2>6. \A i \in k + 1 .. n : i \in k + 1 .. l <=> i <= l
    BY <1>1
  <2> QED BY <1>8, <2>3, <2>4, <2>5, <2>6
<1> QED BY <1>6, <1>8, <1>9 DEF count

-----------------------------------------------------------------------------
(* The operations, on tensors they accept.                                 *)

\* The channels of all heads.
Split(ch, heads, dim) == ch = heads * dim

\* A linear layer changes the channels only.
LEMMA LinearIs ==
    ASSUME NEW t, Good(t), NEW out \in Nat \ {0}
    PROVE  Linear(t, out) = With(t, out, t.deps)
<1>1. t = With(t, t.ch, t.deps)
  BY GoodIs
<1>2. [With(t, t.ch, t.deps) EXCEPT !.ch = out] = With(t, out, t.deps)
  BY DEF With
<1> QED BY <1>1, <1>2 DEF Linear, Checked, Good

\* Norms and rotary positions keep rows, channels and what rows depend on.
LEMMA NormIs ==
    ASSUME NEW t, Good(t)
    PROVE  /\ LayerNorm(t) = t
           /\ \A heads, dim \in Nat \ {0} : t.ch = heads * dim =>
                 /\ HeadNorm(t, heads, dim) = t
                 /\ dim % 2 = 0 => Rotary(t, heads, dim) = t
BY DEF LayerNorm, HeadNorm, Rotary, Checked, Good

\* So does a slice, but for the channels.
LEMMA SliceIs ==
    ASSUME NEW t, Good(t), NEW ch
    PROVE  Slice(t, ch) = With(t, ch, t.deps)
<1>1. t = With(t, t.ch, t.deps)
  BY GoodIs
<1>2. [With(t, t.ch, t.deps) EXCEPT !.ch = ch] = With(t, ch, t.deps)
  BY DEF With
<1> QED BY <1>1, <1>2 DEF Slice

Timed(t, deps) == [i \in DOMAIN t.coords |-> deps[i] \cup {<<"time", t.coords[i][1]>>}]
Both(t, d, e) == [i \in DOMAIN t.coords |-> d[i] \cup e[i]]

\* What modulation and addition make rows depend on is a row's too.
LEMMA BothAreRows ==
    \A t, d, e : ForRows(t, Timed(t, d)) /\ ForRows(t, Both(t, d, e))
BY DEF ForRows, Timed, Both

\* Modulation adds the time step to what a row depends on.
LEMMA ModulateIs ==
    ASSUME NEW t, Good(t)
    PROVE  Modulate(t) = With(t, t.ch, Timed(t, t.deps))
<1> DEFINE D == [i \in DOMAIN t.deps |-> t.deps[i] \cup {<<"time", t.coords[i][1]>>}]
<1>1. t = With(t, t.ch, t.deps)
  BY GoodIs
<1>2. DOMAIN t.deps = DOMAIN t.coords
  BY GoodIs DEF ForRows
<1>3. D = Timed(t, t.deps)
  BY <1>2 DEF Timed
<1>4. Modulate(t) = [t EXCEPT !.deps = D]
  BY DEF Modulate
<1> HIDE DEF D
<1>5. [With(t, t.ch, t.deps) EXCEPT !.deps = D] = With(t, t.ch, D)
  BY DEF With
<1> QED BY <1>1, <1>3, <1>4, <1>5

\* Adding and concatenating two tensors of the same points succeed.
LEMMA AddIs ==
    ASSUME NEW t, Good(t), NEW ch \in Nat \ {0}, NEW d, NEW e, ForRows(t, d), ForRows(t, e)
    PROVE  /\ Add(With(t, ch, d), With(t, ch, e)) = With(t, ch, Both(t, d, e))
           /\ \A c \in Nat \ {0} :
                 Concat(With(t, ch, d), With(t, c, e)) = With(t, ch + c, Both(t, d, e))
<1>1. ASSUME NEW c \in Nat \ {0}
      PROVE  Add(With(t, c, d), With(t, c, e)) = With(t, c, Both(t, d, e))
  <2> DEFINE u == With(t, c, d)
             v == With(t, c, e)
             D == [i \in DOMAIN u.deps |-> u.deps[i] \cup v.deps[i]]
  <2>1. /\ Good(u) /\ u.ch = c /\ u.deps = d /\ u.coords = t.coords /\ u.batch = t.batch
        /\ u.size = t.size
    BY WithIsGood
  <2>2. /\ v.ch = c /\ v.deps = e /\ v.coords = t.coords /\ v.batch = t.batch
        /\ v.size = t.size
    BY WithIsGood
  <2>3. DOMAIN d = DOMAIN t.coords
    BY DEF ForRows
  <2>4. [u EXCEPT !.deps = D] = With(t, c, D)
    BY DEF With
  <2> HIDE DEF u, v
  <2>5. D = Both(t, d, e)
    <3>1. u.deps = d /\ v.deps = e
      BY <2>1, <2>2
    <3> QED BY <2>3, <3>1 DEF Both
  <2>6. Add(u, v) = [u EXCEPT !.deps = D]
    BY <2>1, <2>2 DEF Add, Checked, SameCoords, Good
  <2> HIDE DEF D
  <2> QED BY <2>4, <2>5, <2>6 DEF u, v
<1>2. ASSUME NEW c \in Nat \ {0}
      PROVE  Concat(With(t, ch, d), With(t, c, e)) = With(t, ch + c, Both(t, d, e))
  <2> DEFINE u == With(t, ch, d)
             v == With(t, c, e)
             w == With(t, 1, Both(t, d, e))
  <2>1. Good(u) /\ Good(v) /\ Good(w) /\ u.ch = ch /\ v.ch = c
    <3>1. 1 \in Nat \ {0} /\ ForRows(t, Both(t, d, e))
      BY BothAreRows
    <3> QED BY <3>1, WithIsGood
  <2>2. /\ [u EXCEPT !.ch = 1] = With(t, 1, d) /\ [v EXCEPT !.ch = 1] = With(t, 1, e)
        /\ [w EXCEPT !.ch = ch + c] = With(t, ch + c, Both(t, d, e))
    BY DEF With
  <2>3. Add(With(t, 1, d), With(t, 1, e)) = w
    <3>1. 1 \in Nat \ {0}
      OBVIOUS
    <3> QED BY <1>1, <3>1
  <2> HIDE DEF u, v, w
  <2>4. Concat(u, v) = [w EXCEPT !.ch = u.ch + v.ch]
    BY <2>1, <2>2, <2>3 DEF Concat, Checked, Good
  <2> QED BY <2>1, <2>2, <2>4 DEF u, v
<1> QED BY <1>1, <1>2

\* Channels can be repeated to a multiple of theirs.
LEMMA RepeatIs ==
    ASSUME NEW t, Good(t), NEW out \in Nat \ {0}, out % t.ch = 0
    PROVE  RepeatChannels(t, out) = With(t, out, t.deps)
<1>1. t = With(t, t.ch, t.deps)
  BY GoodIs
<1>2. [With(t, t.ch, t.deps) EXCEPT !.ch = out] = With(t, out, t.deps)
  BY DEF With
<1> QED BY <1>1, <1>2 DEF RepeatChannels, Checked, Good

\* Everything the rows of the batch of row i were computed from.
OfBatch(t, deps) ==
    [i \in DOMAIN t.coords |->
        deps[i] \cup UNION {deps[j] : j \in Of(t, t.coords[i][1])}]

\* The rows of a batch are all there is to attend to.
LEMMA SelfAttentionIs ==
    ASSUME NEW t, Good(t), NEW ch \in Nat \ {0}, NEW deps, ForRows(t, deps),
           NEW heads \in Nat \ {0}, NEW dim \in Nat \ {0}, Split(ch, heads, dim),
           \A b \in 0..t.batch - 1 : Of(t, b) # {}
    PROVE  SelfAttention(With(t, ch, deps), With(t, ch, deps), With(t, ch, deps), heads, dim)
             = With(t, ch, OfBatch(t, deps))
<1> DEFINE q == With(t, ch, deps)
           keys(b) == UNION {q.deps[i] \cup q.deps[i] : i \in BatchRange(q, b)}
           D == [i \in DOMAIN q.deps |-> q.deps[i] \cup UNION {keys(b) :
                              b \in {c \in 0..q.batch - 1 : i \in BatchRange(q, c)}}]
<1>1. /\ Good(q) /\ q.ch = ch /\ q.deps = deps /\ q.coords = t.coords /\ q.batch = t.batch
  BY WithIsGood
<1> HIDE DEF keys, D
<1>2. [q EXCEPT !.ch = ch] = With(t, ch, deps) /\ [With(t, ch, deps) EXCEPT !.deps = D] = With(t, ch, D)
  BY DEF With
<1> HIDE DEF q
<1>0. [q EXCEPT !.ch = ch, !.deps = D] = [[q EXCEPT !.ch = ch] EXCEPT !.deps = D]
  OBVIOUS
<1>3. \A b \in 0..t.batch - 1 : BatchRange(q, b) = Of(t, b)
  <2> TAKE b \in 0..t.batch - 1
  <2>1. b \in Int
    BY GoodIs
  <2>2. BatchRange(q, b) = Of(q, b)
    BY <1>1, <2>1, BatchRows
  <2>3. Of(q, b) = Of(t, b)
    BY <1>1 DEF Of
  <2> QED BY <2>2, <2>3
<1>4. D = OfBatch(t, deps)
  <2> USE DEF keys, D
  <2>1. DOMAIN deps = DOMAIN t.coords
    BY DEF ForRows
  <2>2. ASSUME NEW i \in DOMAIN t.coords
        PROVE  UNION {keys(b) : b \in {c \in 0..q.batch - 1 : i \in BatchRange(q, c)}}
                 = UNION {deps[j] : j \in Of(t, t.coords[i][1])}
    <3> DEFINE x == t.coords[i][1]
    <3>1. x \in 0..t.batch - 1
      BY GoodIs
    <3>2. \A c \in 0..q.batch - 1 : i \in BatchRange(q, c) <=> c = x
      <4>1. \A c \in 0..q.batch - 1 : i \in Of(t, c) <=> c = x
        BY DEF Of
      <4> QED BY <1>1, <1>3, <4>1
    <3> HIDE DEF x
    <3>3. {c \in 0..q.batch - 1 : i \in BatchRange(q, c)} = {x}
      BY <1>1, <3>1, <3>2
    <3>4. keys(x) = UNION {deps[j] : j \in Of(t, x)}
      <4>1. BatchRange(q, x) = Of(t, x)
        BY <1>3, <3>1
      <4>2. keys(x) = UNION {deps[j] \cup deps[j] : j \in Of(t, x)}
        BY <1>1, <4>1
      <4>3. {deps[j] \cup deps[j] : j \in Of(t, x)} = {deps[j] : j \in Of(t, x)}
        <5>1. \A j : deps[j] \cup deps[j] = deps[j]
          OBVIOUS
        <5> QED BY <5>1
      <4> QED BY <4>2, <4>3
    <3> HIDE DEF keys
    <3>5. {keys(b) : b \in {c \in 0..q.batch - 1 : i \in BatchRange(q, c)}} = {keys(x)}
      BY <3>3
    <3> QED BY <3>4, <3>5 DEF x
  <2> HIDE DEF keys
  <2> QED BY <1>1, <2>1, <2>2 DEF OfBatch
<1> HIDE DEF D
<1>5. SelfAttention(q, q, q, heads, dim) = [q EXCEPT !.ch = ch, !.deps = D]
  <2>1. ch % heads = 0 /\ ch = heads * dim
    BY DEF Split
  <2>2. \A b \in 0..q.batch - 1 : /\ BatchRange(q, b) # {}
                                  /\ Cardinality(BatchRange(q, b)) = Cardinality(BatchRange(q, b))
    BY <1>1, <1>3
  <2> QED BY <1>1, <2>1, <2>2 DEF SelfAttention, Checked, Good, D, keys
<1> QED BY <1>0, <1>2, <1>4, <1>5 DEF q

\* The operations on single rows.
LEMMA RowOps ==
    ASSUME NEW t, Good(t), NEW ch \in Nat \ {0}, NEW d, ForRows(t, d)
    PROVE  /\ Good(With(t, ch, d)) /\ Valid(With(t, ch, d))
           /\ With(t, ch, d).ch = ch /\ With(t, ch, d).deps = d
           /\ With(t, ch, d).coords = t.coords /\ With(t, ch, d).batch = t.batch
           /\ With(t, ch, d).size = t.size
           /\ \A out \in Nat \ {0} : Linear(With(t, ch, d), out) = With(t, out, d)
           /\ \A out : Slice(With(t, ch, d), out) = With(t, out, d)
           /\ LayerNorm(With(t, ch, d)) = With(t, ch, d)
           /\ Modulate(With(t, ch, d)) = With(t, ch, Timed(t, d))
           /\ \A heads, dim \in Nat \ {0} : Split(ch, heads, dim) =>
                 /\ HeadNorm(With(t, ch, d), heads, dim) = With(t, ch, d)
                 /\ dim % 2 = 0 => Rotary(With(t, ch, d), heads, dim) = With(t, ch, d)
<1> DEFINE u == With(t, ch, d)
<1>1. /\ Good(u) /\ u.ch = ch /\ u.deps = d /\ u.coords = t.coords /\ u.batch = t.batch
      /\ u.size = t.size
  BY WithIsGood
<1>2. \A c, e : With(u, c, e) = With(t, c, e)
  BY WithIsGood
<1> HIDE DEF u
<1>3. Valid(u)
  BY <1>1 DEF Good
<1>4. \A out \in Nat \ {0} : Linear(u, out) = With(t, out, d)
  BY <1>1, <1>2, LinearIs
<1>5. \A out : Slice(u, out) = With(t, out, d)
  BY <1>1, <1>2, SliceIs
<1>6. Modulate(u) = With(t, ch, Timed(t, d))
  <2>1. Timed(u, d) = Timed(t, d)
    BY <1>1 DEF Timed
  <2> QED BY <1>1, <1>2, <2>1, ModulateIs
<1>7. /\ LayerNorm(u) = u
      /\ \A heads, dim \in Nat \ {0} : Split(ch, heads, dim) =>
            /\ HeadNorm(u, heads, dim) = u
            /\ dim % 2 = 0 => Rotary(u, heads, dim) = u
  BY <1>1, NormIs DEF Split
<1> QED BY <1>1, <1>3, <1>4, <1>5, <1>6, <1>7 DEF u

\* What the tokens of its batch add to each row.
Seen(t, d, v) ==
    [i \in DOMAIN t.coords |->
        d[i] \cup UNION {v.deps[j] : j \in Tokens(v, t.coords[i][1])}]

\* A row attends to the tokens of its own batch.
LEMMA CrossAttentionIs ==
    ASSUME NEW t, Good(t), NEW ch \in Nat \ {0}, NEW d, ForRows(t, d),
           NEW heads \in Nat \ {0}, NEW dim \in Nat \ {0}, Split(ch, heads, dim),
           NEW k, NEW v, VarLenValid(k), VarLenValid(v), k.batch = v.batch, k.offs = v.offs,
           k.deps = v.deps, k.batch = t.batch, k.ch = ch, v.ch = ch,
           \A b \in 0..t.batch - 1 : Tokens(k, b) # {}
    PROVE  CrossAttention(With(t, ch, d), k, v, heads, dim) = With(t, ch, Seen(t, d, k))
<1> DEFINE q == With(t, ch, d)
           count(b) == Cardinality({i \in DOMAIN q.coords : q.coords[i][1] < b})
           rowsOf(b) == count(b) + 1 .. count(b + 1)
           batchOf(i) == CHOOSE b \in 0..q.batch - 1 : i \in rowsOf(b)
           keys(b) == UNION {k.deps[j] \cup v.deps[j] : j \in Tokens(k, b)}
           D == [i \in DOMAIN q.deps |-> q.deps[i] \cup keys(batchOf(i))]
<1>1. /\ Good(q) /\ q.ch = ch /\ q.deps = d /\ q.coords = t.coords /\ q.batch = t.batch
      /\ Valid(q)
  BY RowOps
<1> HIDE DEF keys, batchOf, D
<1>2. [q EXCEPT !.ch = ch] = With(t, ch, d) /\ [With(t, ch, d) EXCEPT !.deps = D] = With(t, ch, D)
  BY DEF With
<1> HIDE DEF q
<1>3. [q EXCEPT !.ch = ch, !.deps = D] = [[q EXCEPT !.ch = ch] EXCEPT !.deps = D]
  OBVIOUS
<1>4. \A i \in DOMAIN t.coords : batchOf(i) = t.coords[i][1]
  <2> TAKE i \in DOMAIN t.coords
  <2>1. \A b \in 0..q.batch - 1 : rowsOf(b) = Of(q, b)
    <3> TAKE b \in 0..q.batch - 1
    <3>1. b \in Int
      BY <1>1, GoodIs
    <3> QED BY <1>1, <3>1, BatchRows
  <2>2. t.coords[i][1] \in 0..q.batch - 1
    BY <1>1, GoodIs
  <2>3. \A b : i \in Of(q, b) <=> b = t.coords[i][1]
    BY <1>1 DEF Of
  <2> HIDE DEF rowsOf
  <2> QED BY <2>1, <2>2, <2>3 DEF batchOf
<1>5. \A b : keys(b) = UNION {k.deps[j] : j \in Tokens(k, b)}
  <2> TAKE b
  <2>1. \A j : k.deps[j] \cup v.deps[j] = k.deps[j]
    OBVIOUS
  <2> QED BY <2>1 DEF keys
<1>6. D = Seen(t, d, k)
  <2>1. DOMAIN d = DOMAIN t.coords
    BY DEF ForRows
  <2> QED BY <1>1, <1>4, <1>5, <2>1 DEF D, Seen
<1>7. CrossAttention(q, k, v, heads, dim) = [q EXCEPT !.ch = ch, !.deps = D]
  <2>1. ch % heads = 0 /\ ch = heads * dim
    BY DEF Split
  <2> QED BY <1>1, <2>1 DEF CrossAttention, Checked, D, keys, batchOf
<1> QED BY <1>2, <1>3, <1>6, <1>7 DEF q

\* Tokens change their channels only.
LEMMA TokensChange ==
    ASSUME NEW v, v = [batch |-> v.batch, ch |-> v.ch, deps |-> v.deps, offs |-> v.offs],
           VarLenValid(v), NEW ch \in Nat \ {0}, NEW heads \in Nat \ {0}, NEW dim \in Nat \ {0},
           Split(ch, heads, dim), NEW more \in Nat \ {0}
    PROVE  LET u == VarLenSlice(VarLenLinear(v, more), ch)
           IN  /\ u = [v EXCEPT !.ch = ch]
               /\ u.ch = ch /\ u.batch = v.batch /\ u.deps = v.deps /\ u.offs = v.offs
               /\ VarLenValid(u) /\ VarLenHeadNorm(u, heads, dim) = u
<1> DEFINE r == [batch |-> v.batch, ch |-> v.ch, deps |-> v.deps, offs |-> v.offs]
           w == [batch |-> v.batch, ch |-> ch, deps |-> v.deps, offs |-> v.offs]
           m == [batch |-> v.batch, ch |-> more, deps |-> v.deps, offs |-> v.offs]
<1>1. [r EXCEPT !.ch = more] = m /\ [m EXCEPT !.ch = ch] = w /\ [r EXCEPT !.ch = ch] = w
  OBVIOUS
<1>2. w.ch = ch /\ w.batch = v.batch /\ w.deps = v.deps /\ w.offs = v.offs
  OBVIOUS
<1>3. v = r
  OBVIOUS
<1> HIDE DEF r, w, m
<1>4. VarLenLinear(v, more) = m
  BY <1>1, <1>3 DEF VarLenLinear, Checked
<1>5. VarLenSlice(m, ch) = w
  BY <1>1 DEF VarLenSlice
<1>6. VarLenValid(w)
  BY <1>2 DEF VarLenValid
<1>7. VarLenHeadNorm(w, heads, dim) = w
  BY <1>2, <1>6 DEF VarLenHeadNorm, Checked, Split
<1> QED BY <1>1, <1>2, <1>3, <1>4, <1>5, <1>6, <1>7

\* What a block of the flow computes the rows from.
Attended(t, d)        == Both(t, d, Timed(t, OfBatch(t, Timed(t, d))))
Conditioned(t, d, v, p) == Both(t, Attended(t, d), Both(t, Seen(t, Attended(t, d), v), p))
BlockDeps(t, d, v, p) ==
    Both(t, Conditioned(t, d, v, p), Timed(t, Timed(t, Conditioned(t, d, v, p))))

\* What a block accepts.
BlockFits(t, cfg, d, p, ch, heads, dim, v) ==
    /\ Good(t) /\ ForRows(t, d) /\ ForRows(t, p)
    /\ ch \in Nat \ {0} /\ heads \in Nat \ {0} /\ dim \in Nat \ {0}
    /\ cfg.ch = ch /\ cfg.heads = heads /\ ch % heads = 0 /\ ch \div heads = dim
    /\ dim % 2 = 0 /\ cfg.hidden \in Nat \ {0} /\ cfg.proj \in Nat \ {0}
    /\ v = [batch |-> v.batch, ch |-> v.ch, deps |-> v.deps, offs |-> v.offs]
    /\ VarLenValid(v) /\ v.batch = t.batch /\ v.ch = cfg.context
    /\ \A b \in 0..t.batch - 1 : Of(t, b) # {} /\ Tokens(v, b) # {}

\* A block of a flow succeeds, and this is what its rows depend on then.
LEMMA CrossBlockIs ==
    ASSUME NEW t, NEW cfg, NEW d, NEW p, NEW ch, NEW heads, NEW dim, NEW v,
           BlockFits(t, cfg, d, p, ch, heads, dim, v)
    PROVE  CrossBlock(With(t, cfg.ch, d), v, With(t, cfg.proj, p), cfg)
             = With(t, cfg.ch, BlockDeps(t, d, v, p))
<1>0. /\ Good(t) /\ ForRows(t, d) /\ ForRows(t, p)
      /\ ch \in Nat \ {0} /\ heads \in Nat \ {0} /\ dim \in Nat \ {0}
      /\ cfg.ch = ch /\ cfg.heads = heads /\ ch % heads = 0 /\ ch \div heads = dim
      /\ dim % 2 = 0 /\ cfg.hidden \in Nat \ {0} /\ cfg.proj \in Nat \ {0}
      /\ v = [batch |-> v.batch, ch |-> v.ch, deps |-> v.deps, offs |-> v.offs]
      /\ VarLenValid(v) /\ v.batch = t.batch /\ v.ch = cfg.context
      /\ \A b \in 0..t.batch - 1 : Of(t, b) # {} /\ Tokens(v, b) # {}
  BY DEF BlockFits
<1> USE <1>0
<1> DEFINE x    == With(t, cfg.ch, d)
           proj == With(t, cfg.proj, p)
           qkv  == Linear(Modulate(LayerNorm(x)), 3 * cfg.ch)
           part == Slice(qkv, cfg.ch)
           dm   == cfg.ch \div cfg.heads
           qk   == Rotary(HeadNorm(part, cfg.heads, dm), cfg.heads, dm)
           own  == Modulate(Linear(SelfAttention(qk, qk, part, cfg.heads, dm), cfg.ch))
           s    == Add(x, own)
           cq   == HeadNorm(Linear(LayerNorm(s), cfg.ch), cfg.heads, dm)
           kv   == VarLenSlice(VarLenLinear(v, 2 * cfg.ch), cfg.ch)
           ck   == VarLenHeadNorm(kv, cfg.heads, dm)
           att  == Linear(CrossAttention(cq, ck, kv, cfg.heads, dm), cfg.ch)
           c    == Add(s, IF cfg.proj > 0 THEN Add(att, Linear(proj, cfg.ch)) ELSE att)
           mlp  == Modulate(Linear(Linear(Modulate(LayerNorm(c)), cfg.hidden), cfg.ch))
           T    == Timed(t, d)
           A    == Timed(t, OfBatch(t, T))
           S    == Attended(t, d)
           C    == Conditioned(t, d, v, p)
<1>1. dm = dim /\ 3 * ch \in Nat \ {0} /\ 2 * ch \in Nat \ {0} /\ Split(ch, heads, dim)
  BY DEF Split
<1>2. /\ ForRows(t, T) /\ ForRows(t, A) /\ ForRows(t, S) /\ ForRows(t, C)
      /\ ForRows(t, OfBatch(t, T)) /\ ForRows(t, Seen(t, S, v)) /\ ForRows(t, Timed(t, C))
      /\ ForRows(t, Both(t, Seen(t, S, v), p)) /\ ForRows(t, Timed(t, Timed(t, C)))
  BY DEF ForRows, Timed, Both, OfBatch, Attended, Conditioned, Seen
<1>3. qkv = With(t, 3 * ch, T) /\ part = With(t, ch, T)
  <2>1. LayerNorm(x) = x /\ Modulate(x) = With(t, ch, T)
    BY RowOps
  <2>2. qkv = With(t, 3 * ch, T)
    BY <1>1, <1>2, <2>1, RowOps
  <2> HIDE DEF qkv
  <2>3. Slice(With(t, 3 * ch, T), ch) = With(t, ch, T)
    BY <1>1, <1>2, RowOps
  <2> QED BY <2>2, <2>3
<1> HIDE DEF part, qkv
<1>4. qk = With(t, ch, T)
  <2>1. HeadNorm(part, heads, dm) = part /\ Rotary(part, heads, dm) = part
    BY <1>1, <1>2, <1>3, RowOps
  <2> QED BY <1>3, <2>1
<1> HIDE DEF qk
<1>5. own = With(t, ch, A)
  <2>0. SelfAttention(With(t, ch, T), With(t, ch, T), With(t, ch, T), heads, dim)
          = With(t, ch, OfBatch(t, T))
    <3>1. ForRows(t, T) /\ Split(ch, heads, dim) /\ \A b \in 0..t.batch - 1 : Of(t, b) # {}
      BY <1>1, <1>2
    <3> HIDE DEF T, A, S, C, own, s, att, c, mlp, dm, kv, ck, cq
    <3> QED BY <3>1, SelfAttentionIs
  <2>1. SelfAttention(qk, qk, part, heads, dm) = With(t, ch, OfBatch(t, T))
    BY <1>1, <1>3, <1>4, <2>0
  <2>2. Linear(With(t, ch, OfBatch(t, T)), ch) = With(t, ch, OfBatch(t, T))
    BY <1>2, RowOps
  <2>3. Modulate(With(t, ch, OfBatch(t, T))) = With(t, ch, A)
    BY <1>2, RowOps
  <2> QED BY <2>1, <2>2, <2>3
<1> HIDE DEF own
<1>6. s = With(t, ch, S)
  <2>1. Add(With(t, ch, d), With(t, ch, A)) = With(t, ch, Both(t, d, A))
    BY <1>2, AddIs
  <2> QED BY <1>5, <2>1 DEF Attended
<1> HIDE DEF s, S
<1>7. cq = With(t, ch, S)
  <2>1. LayerNorm(s) = s /\ Linear(s, ch) = s /\ HeadNorm(s, heads, dm) = s
    BY <1>1, <1>2, <1>6, RowOps
  <2> QED BY <1>6, <2>1
<1> HIDE DEF cq
<1>8. /\ ck = kv /\ kv.ch = ch /\ kv.batch = v.batch /\ kv.deps = v.deps /\ kv.offs = v.offs
      /\ VarLenValid(kv)
  BY <1>1, TokensChange
<1> HIDE DEF kv, ck
<1>9. att = With(t, ch, Seen(t, S, v))
  <2>1. \A b : Tokens(kv, b) = Tokens(v, b)
    BY <1>8 DEF Tokens
  <2>5. \A b \in 0..t.batch - 1 : Tokens(kv, b) # {}
    BY <2>1
  <2>6. CrossAttention(With(t, ch, S), kv, kv, heads, dim) = With(t, ch, Seen(t, S, kv))
    <3>1. /\ ForRows(t, S) /\ Split(ch, heads, dim) /\ VarLenValid(kv) /\ kv.batch = t.batch
          /\ kv.ch = ch /\ Good(t) /\ ch \in Nat \ {0} /\ heads \in Nat \ {0}
          /\ dim \in Nat \ {0}
      BY <1>1, <1>2, <1>8
    <3> HIDE DEF S, kv, T, A, att, c, mlp, dm
    <3> QED BY ONLY <2>5, <3>1, CrossAttentionIs
  <2>2. CrossAttention(cq, ck, kv, heads, dm) = With(t, ch, Seen(t, S, kv))
    BY <1>1, <1>7, <1>8, <2>6
  <2>3. Seen(t, S, kv) = Seen(t, S, v)
    BY <1>8, <2>1 DEF Seen
  <2>4. Linear(With(t, ch, Seen(t, S, v)), ch) = With(t, ch, Seen(t, S, v))
    BY <1>2, RowOps
  <2> QED BY <2>2, <2>3, <2>4
<1> HIDE DEF att
<1>10. c = With(t, ch, C)
  <2>1. Linear(proj, ch) = With(t, ch, p)
    BY RowOps
  <2>2. Add(att, With(t, ch, p)) = With(t, ch, Both(t, Seen(t, S, v), p))
    BY <1>2, <1>9, AddIs
  <2>3. Add(s, With(t, ch, Both(t, Seen(t, S, v), p))) = With(t, ch, C)
    BY <1>2, <1>6, AddIs DEF Conditioned, S
  <2>4. cfg.proj > 0
    OBVIOUS
  <2> QED BY <2>1, <2>2, <2>3, <2>4
<1> HIDE DEF c, C
<1>11. mlp = With(t, ch, Timed(t, Timed(t, C)))
  <2>1. LayerNorm(c) = c /\ Modulate(c) = With(t, ch, Timed(t, C))
    BY <1>2, <1>10, RowOps
  <2>2. Linear(With(t, ch, Timed(t, C)), cfg.hidden) = With(t, cfg.hidden, Timed(t, C))
    BY <1>2, RowOps
  <2>3. Linear(With(t, cfg.hidden, Timed(t, C)), ch) = With(t, ch, Timed(t, C))
    BY <1>2, RowOps
  <2>4. Modulate(With(t, ch, Timed(t, C))) = With(t, ch, Timed(t, Timed(t, C)))
    BY <1>2, RowOps
  <2> QED BY <2>1, <2>2, <2>3, <2>4
<1> HIDE DEF mlp
<1>12. Add(c, mlp) = With(t, ch, BlockDeps(t, d, v, p))
  BY <1>2, <1>10, <1>11, AddIs DEF BlockDeps, C
<1>13. /\ Valid(x) /\ x.ch = cfg.ch /\ x.batch = t.batch /\ x.coords = t.coords
       /\ proj.ch = cfg.proj /\ proj.batch = t.batch /\ proj.coords = t.coords
  BY RowOps
<1>14. CrossBlock(x, v, proj, cfg) = Add(c, mlp)
  <2> HIDE DEF x, proj
  <2>1. /\ Valid(x) /\ VarLenValid(v)
        /\ cfg.ch > 0 /\ cfg.heads > 0 /\ cfg.ch % cfg.heads = 0
        /\ x.ch = cfg.ch /\ v.ch = cfg.context /\ v.batch = x.batch
        /\ cfg.proj > 0 => proj.ch = cfg.proj /\ SameCoords(x, proj)
    BY <1>1, <1>13 DEF SameCoords
  <2>2. CrossBlock(x, v, proj, cfg) =
           Checked(/\ Valid(x) /\ VarLenValid(v)
                   /\ cfg.ch > 0 /\ cfg.heads > 0 /\ cfg.ch % cfg.heads = 0
                   /\ x.ch = cfg.ch /\ v.ch = cfg.context /\ v.batch = x.batch
                   /\ cfg.proj > 0 => proj.ch = cfg.proj /\ SameCoords(x, proj), Add(c, mlp))
    BY DEF CrossBlock, c, mlp, att, cq, ck, kv, s, own, qk, part, qkv
  <2> QED BY <2>1, <2>2 DEF Checked
<1> QED BY <1>12, <1>14

\* Rows computed from things of their own batch only.
Own(t, d) == \A i \in DOMAIN t.coords : \A x \in d[i] : x[2] = t.coords[i][1]

OwnTokens(v, n) == \A b \in 0..n - 1 : \A j \in Tokens(v, b) : \A x \in v.deps[j] : x[2] = b

\* What a block shows a row: what the rows of its batch were computed from, the
\* tokens of the batch, the time and the row's projected features; nothing of
\* another batch.
LEMMA BlockSees ==
    ASSUME NEW t, Good(t), NEW d, ForRows(t, d), NEW p, ForRows(t, p), NEW v
    PROVE  /\ ForRows(t, BlockDeps(t, d, v, p))
           /\ \A i \in DOMAIN t.coords :
                 /\ d[i] \subseteq BlockDeps(t, d, v, p)[i]
                 /\ p[i] \subseteq BlockDeps(t, d, v, p)[i]
                 /\ <<"time", t.coords[i][1]>> \in BlockDeps(t, d, v, p)[i]
                 /\ \A j \in Of(t, t.coords[i][1]) : d[j] \subseteq BlockDeps(t, d, v, p)[i]
                 /\ \A j \in Tokens(v, t.coords[i][1]) :
                       v.deps[j] \subseteq BlockDeps(t, d, v, p)[i]
           /\ Own(t, d) /\ Own(t, p) /\ OwnTokens(v, t.batch)
                 => Own(t, BlockDeps(t, d, v, p))
<1> DEFINE T == Timed(t, d)
           O == OfBatch(t, T)
           A == Attended(t, d)
           C == Conditioned(t, d, v, p)
           D == BlockDeps(t, d, v, p)
<1>1. ASSUME NEW i \in DOMAIN t.coords
      PROVE  \A x : x \in T[i] <=> x \in d[i] \/ x = <<"time", t.coords[i][1]>>
  BY DEF Timed
<1>2. ASSUME NEW i \in DOMAIN t.coords
      PROVE  \A x : x \in O[i] <=> x \in T[i] \/ \E j \in Of(t, t.coords[i][1]) : x \in T[j]
  BY DEF OfBatch
<1>3. ASSUME NEW i \in DOMAIN t.coords
      PROVE  \A x : x \in A[i] <=> \/ x \in d[i] \/ x \in O[i]
                                   \/ x = <<"time", t.coords[i][1]>>
  BY DEF Attended, Both, Timed
<1>4. ASSUME NEW i \in DOMAIN t.coords
      PROVE  \A x : x \in C[i] <=> \/ x \in A[i] \/ x \in p[i]
                                   \/ \E j \in Tokens(v, t.coords[i][1]) : x \in v.deps[j]
  BY DEF Conditioned, Both, Seen
<1>5. ASSUME NEW i \in DOMAIN t.coords
      PROVE  \A x : x \in D[i] <=> x \in C[i] \/ x = <<"time", t.coords[i][1]>>
  BY DEF BlockDeps, Both, Timed
<1>6. \A i \in DOMAIN t.coords : Of(t, t.coords[i][1]) \subseteq DOMAIN t.coords
  BY DEF Of
<1>7. ForRows(t, D)
  BY DEF ForRows, BlockDeps, Both
<1> HIDE DEF T, O, A, C, D
<1>8. ASSUME NEW i \in DOMAIN t.coords
      PROVE  /\ d[i] \subseteq D[i] /\ p[i] \subseteq D[i]
             /\ <<"time", t.coords[i][1]>> \in D[i]
             /\ \A j \in Of(t, t.coords[i][1]) : d[j] \subseteq D[i]
             /\ \A j \in Tokens(v, t.coords[i][1]) : v.deps[j] \subseteq D[i]
  <2>1. d[i] \subseteq A[i] /\ A[i] \subseteq C[i] /\ C[i] \subseteq D[i]
    BY <1>3, <1>4, <1>5
  <2>2. \A j \in Of(t, t.coords[i][1]) : d[j] \subseteq O[i]
    BY <1>1, <1>2, <1>6
  <2>3. O[i] \subseteq A[i]
    BY <1>3
  <2>4. \A j \in Tokens(v, t.coords[i][1]) : v.deps[j] \subseteq C[i]
    BY <1>4
  <2>5. p[i] \subseteq C[i] /\ <<"time", t.coords[i][1]>> \in D[i]
    BY <1>4, <1>5
  <2> QED BY <2>1, <2>2, <2>3, <2>4, <2>5
<1>9. ASSUME Own(t, d), Own(t, p), OwnTokens(v, t.batch) PROVE Own(t, D)
  <2>1. \A j \in DOMAIN t.coords : \A x \in T[j] : x[2] = t.coords[j][1]
    BY <1>1, <1>9 DEF Own
  <2>2. \A j \in DOMAIN t.coords : \A x \in O[j] : x[2] = t.coords[j][1]
    BY <1>2, <2>1 DEF Of
  <2>3. \A j \in DOMAIN t.coords : \A x \in A[j] : x[2] = t.coords[j][1]
    BY <1>3, <1>9, <2>2 DEF Own
  <2>4. ASSUME NEW j \in DOMAIN t.coords, NEW x \in C[j] PROVE x[2] = t.coords[j][1]
    <3>1. t.coords[j][1] \in 0..t.batch - 1
      BY GoodIs
    <3>2. x \in A[j] \/ x \in p[j] \/ \E k \in Tokens(v, t.coords[j][1]) : x \in v.deps[k]
      BY <1>4
    <3> QED BY <1>9, <2>3, <3>1, <3>2 DEF Own, OwnTokens
  <2> QED BY <1>5, <2>4 DEF Own
<1> QED BY <1>7, <1>8, <1>9 DEF D

-----------------------------------------------------------------------------
(* What the builders hand over.                                            *)

\* The points a behaviour starts from are good, and no batch is empty.
LEMMA InputIs ==
    ASSUME input \in Inputs
    PROVE  /\ Good(input) /\ Own(input, input.deps)
           /\ \A b \in 0..input.batch - 1 : Of(input, b) # {} /\ Context[b] \in Nat \ {0}
<1>1. /\ input \in [batch : Nat, size : Nat, ch : Nat, coords : Seq(Point), deps : Seq({{}})]
      /\ Valid(input)
      /\ \A b \in 0..input.batch - 1 : /\ \E i \in DOMAIN input.coords : input.coords[i][1] = b
                                       /\ Context[b] \in Nat \ {0}
  BY StagesAssumption DEF InputAssumption
<1>2. Len(input.deps) = Len(input.coords) /\ input.deps \in Seq({{}}) /\ input.coords \in Seq(Point)
  BY <1>1 DEF Valid
<1>3. DOMAIN input.deps = DOMAIN input.coords /\ \A i \in DOMAIN input.deps : input.deps[i] = {}
  BY <1>2
<1>4. input.deps = [i \in DOMAIN input.coords |-> input.deps[i]]
  BY <1>2, <1>3
<1>5. Good(input)
  BY <1>1, <1>4 DEF Good, Tensor
<1>6. Own(input, input.deps)
  BY <1>3 DEF Own
<1>7. \A b \in 0..input.batch - 1 : Of(input, b) # {} /\ Context[b] \in Nat \ {0}
  BY <1>1 DEF Of
<1> QED BY <1>5, <1>6, <1>7

\* Rows of the points of the structure with something of their own.
Given(inp, what, stage) ==
    [i \in DOMAIN inp.coords |-> {<<what, inp.coords[i][1], i, stage>>}]

\* What the builders hand over has the points of the input.
LEMMA RowsOfIs ==
    ASSUME input \in Inputs, NEW what, NEW stage, NEW ch
    PROVE  /\ RowsOf(what, stage, ch) = With(input, ch, Given(input, what, stage))
           /\ ForRows(input, Given(input, what, stage)) /\ Own(input, Given(input, what, stage))
<1> DEFINE D == [i \in DOMAIN input.coords |-> {<<what, input.coords[i][1], i, stage>>}]
<1>1. input = With(input, input.ch, input.deps)
  BY InputIs, GoodIs
<1>2. D = Given(input, what, stage)
  BY DEF Given
<1>3. RowsOf(what, stage, ch) = [input EXCEPT !.ch = ch, !.deps = D]
  BY DEF RowsOf
<1> HIDE DEF D
<1>4. [input EXCEPT !.ch = ch, !.deps = D] = [[input EXCEPT !.ch = ch] EXCEPT !.deps = D]
  OBVIOUS
<1>5. /\ [With(input, input.ch, input.deps) EXCEPT !.ch = ch] = With(input, ch, input.deps)
      /\ [With(input, ch, input.deps) EXCEPT !.deps = D] = With(input, ch, D)
  BY DEF With
<1>6. ForRows(input, Given(input, what, stage)) /\ Own(input, Given(input, what, stage))
  BY DEF ForRows, Own, Given
<1> QED BY <1>1, <1>2, <1>3, <1>4, <1>5, <1>6

\* The tokens of batch b are those that GlobalContext has made for it.
LEMMA ContextIs ==
    ASSUME input \in Inputs
    PROVE  LET v == GlobalContext
           IN  /\ v = [batch |-> v.batch, ch |-> v.ch, deps |-> v.deps, offs |-> v.offs]
               /\ VarLenValid(v) /\ v.batch = input.batch /\ v.ch = Flow.cfg.context
               /\ \A b \in 0..input.batch - 1 : Tokens(v, b) # {}
               /\ OwnTokens(v, input.batch)
               /\ \A b \in 0..input.batch - 1 : \A j \in 1..Context[b] :
                     \E k \in Tokens(v, b) : v.deps[k] = {<<"token", b, j>>}
<1> DEFINE n == input.batch
           X == {{<<"token", b, j>>} : b \in Int, j \in Int}
           row(b) == [j \in 1..Context[b - 1] |-> {<<"token", b - 1, j>>}]
           s == [b \in 1..n |-> row(b)]
           deps(m) == FlattenSeq([b \in 1..m |-> row(b)])
           v == GlobalContext
<1>1. n \in Nat \ {0} /\ \A b \in 1..n : b - 1 \in 0..n - 1 /\ Context[b - 1] \in Nat \ {0}
  <2>1. n \in Nat \ {0}
    BY InputIs, GoodIs
  <2>2. \A b \in 1..n : b - 1 \in 0..n - 1
    BY <2>1
  <2> QED BY <2>1, <2>2, InputIs
<1>2. ASSUME NEW b \in 1..n
      PROVE  /\ row(b) \in Seq(X) /\ Len(row(b)) = Context[b - 1]
             /\ \A j \in 1..Context[b - 1] : row(b)[j] = {<<"token", b - 1, j>>}
  <2>1. Context[b - 1] \in Nat /\ \A j \in 1..Context[b - 1] : {<<"token", b - 1, j>>} \in X
    <3>1. b - 1 \in Int /\ Context[b - 1] \in Nat
      BY <1>1
    <3> QED BY <3>1
  <2> HIDE DEF X
  <2>2. row(b) \in [1..Context[b - 1] -> X]
    BY <2>1
  <2> QED BY <2>1, <2>2
<1> HIDE DEF row, X
<1>3. s \in Seq(Seq(X)) /\ Len(s) = n /\ \A b \in 1..n : s[b] = row(b)
  <2>1. s \in [1..n -> Seq(X)]
    BY <1>2
  <2> QED BY <1>1, <2>1
<1>4. \A m \in 0..n : deps(m) = Joined(s, m)
  <2> TAKE m \in 0..n
  <2>1. SubSeq(s, 1, m) = [b \in 1..m |-> row(b)]
    <3>1. SubSeq(s, 1, m) = [b \in 1..m |-> s[b]]
      <4>1. m \in Nat /\ SubSeq(s, 1, m) \in Seq(Seq(X)) /\ Len(SubSeq(s, 1, m)) = m
            /\ \A b \in 1..m : SubSeq(s, 1, m)[b] = s[b]
        BY <1>1, <1>3
      <4> HIDE DEF s
      <4> QED BY <4>1
    <3>2. \A b \in 1..m : b \in 1..n
      BY <1>1
    <3> HIDE DEF s
    <3> QED BY <1>3, <3>1, <3>2
  <2> QED BY <2>1 DEF Joined
<1> HIDE DEF s
<1>5. /\ Offset(s, 0) = 0 /\ Offset(s, n) = Len(deps(n)) /\ deps(n) = FlattenSeq(s)
      /\ \A k \in 0..n : Offset(s, k) \in Nat
      /\ \A k \in 1..n : /\ Offset(s, k) = Offset(s, k - 1) + Context[k - 1]
                         /\ \A i \in 1..Context[k - 1] :
                               deps(n)[Offset(s, k - 1) + i] = {<<"token", k - 1, i>>}
  <2>1. deps(n) = FlattenSeq(s)
    <3>1. n \in 0..n
      BY <1>1
    <3> QED BY <1>3, <1>4, <3>1, JoinedStep
  <2>2. /\ Offset(s, 0) = 0 /\ Offset(s, Len(s)) = Len(FlattenSeq(s))
        /\ \A k \in 0..Len(s) : Offset(s, k) \in Nat
        /\ \A k \in 1..Len(s) :
                 /\ Offset(s, k) = Offset(s, k - 1) + Len(s[k])
                 /\ \A i \in 1..Len(s[k]) : FlattenSeq(s)[Offset(s, k - 1) + i] = s[k][i]
    BY <1>3, Flattened
  <2> HIDE DEF deps
  <2>3. /\ Offset(s, 0) = 0 /\ Offset(s, n) = Len(deps(n))
        /\ \A k \in 0..n : Offset(s, k) \in Nat
    BY <1>3, <2>1, <2>2
  <2>4. ASSUME NEW k \in 1..n
        PROVE  /\ Offset(s, k) = Offset(s, k - 1) + Context[k - 1]
               /\ \A i \in 1..Context[k - 1] :
                     deps(n)[Offset(s, k - 1) + i] = {<<"token", k - 1, i>>}
    <3>1. s[k] = row(k) /\ k \in 1..Len(s) /\ Len(row(k)) = Context[k - 1]
      BY <1>2, <1>3
    <3>2. Offset(s, k) = Offset(s, k - 1) + Len(s[k])
      BY <2>2, <3>1
    <3>3. \A i \in 1..Len(s[k]) : FlattenSeq(s)[Offset(s, k - 1) + i] = s[k][i]
      BY <2>2, <3>1
    <3>4. \A i \in 1..Context[k - 1] : row(k)[i] = {<<"token", k - 1, i>>}
      BY <1>2
    <3> QED BY <2>1, <3>1, <3>2, <3>3, <3>4
  <2> QED BY <2>1, <2>3, <2>4
<1>6. /\ v = [batch |-> n, ch |-> Flow.cfg.context, deps |-> deps(n),
              offs |-> [b \in 1..n + 1 |-> Len(deps(b - 1))]]
      /\ Flow.cfg.context \in Nat \ {0}
  BY StagesAssumption DEF GlobalContext, row, FlowAssumption
<1> HIDE DEF v
<1>7. \A b \in 1..n + 1 : v.offs[b] = Offset(s, b - 1)
  <2> TAKE b \in 1..n + 1
  <2>1. b - 1 \in 0..n
    BY <1>1
  <2>2. v.offs[b] = Len(deps(b - 1))
    <3> HIDE DEF deps
    <3> QED BY <1>6
  <2> QED BY <1>4, <2>1, <2>2 DEF Offset
<1>8. v.batch = n /\ v.ch = Flow.cfg.context /\ v.deps = deps(n) /\ Len(v.offs) = n + 1
  <2> HIDE DEF deps
  <2> DEFINE o == [b \in 1..n + 1 |-> Len(deps(b - 1))]
  <2>1. Len(o) = n + 1
    <3>1. n + 1 \in Nat /\ o = [b \in 1..n + 1 |-> o[b]]
      BY <1>1
    <3> HIDE DEF o
    <3> QED BY <3>1, LenIs
  <2> QED BY <1>6, <2>1
<1> HIDE DEF deps
<1>9. v = [batch |-> v.batch, ch |-> v.ch, deps |-> v.deps, offs |-> v.offs]
  BY <1>6
<1>10. \A b \in 0..n - 1 : /\ Tokens(v, b) = Offset(s, b) + 1 .. Offset(s, b) + Context[b]
                           /\ Offset(s, b) \in Nat /\ Context[b] \in Nat \ {0}
                           /\ Offset(s, b + 1) = Offset(s, b) + Context[b]
  <2> TAKE b \in 0..n - 1
  <2>1. b + 1 \in 1..n /\ b + 1 \in 1..n + 1 /\ b + 2 \in 1..n + 1 /\ b \in 0..n /\ b + 2 - 1 = b + 1
        /\ b + 1 - 1 = b
    BY <1>1
  <2>2. v.offs[b + 1] = Offset(s, b) /\ v.offs[b + 2] = Offset(s, b + 1)
    BY <1>7, <2>1
  <2>3. Offset(s, b + 1) = Offset(s, b) + Context[b] /\ Offset(s, b) \in Nat
        /\ Context[b] \in Nat \ {0}
    BY <1>1, <1>5, <2>1
  <2> QED BY <2>2, <2>3 DEF Tokens
<1>11. VarLenValid(v)
  <2>1. v.batch > 0 /\ v.ch > 0 /\ Len(v.offs) = v.batch + 1
    BY <1>1, <1>6, <1>8
  <2>2. v.offs[1] = 0 /\ v.offs[n + 1] = Offset(s, n)
    <3>1. 1 \in 1..n + 1 /\ n + 1 \in 1..n + 1 /\ n + 1 - 1 = n /\ 1 - 1 = 0
      BY <1>1
    <3>2. \A m \in 0..n : m + 1 \in 1..n + 1 /\ m + 1 - 1 = m
      BY <1>1
    <3>4. \A m \in 0..n : v.offs[m + 1] = Offset(s, m)
      BY <1>7, <3>2
    <3>3. v.offs[1] = Offset(s, 0) /\ v.offs[n + 1] = Offset(s, n)
      <4>1. 0 \in 0..n /\ n \in 0..n /\ 0 + 1 = 1
        BY <1>1
      <4> QED BY <3>4, <4>1
    <3> QED BY <1>5, <3>3
  <2>3. \A b \in 1..n : v.offs[b] <= v.offs[b + 1]
    <3> TAKE b \in 1..n
    <3>1. b - 1 \in 0..n - 1 /\ b \in 1..n + 1 /\ b + 1 \in 1..n + 1 /\ b + 1 - 1 = b
          /\ b - 1 + 1 = b
      BY <1>1
    <3>2. v.offs[b] = Offset(s, b - 1) /\ v.offs[b + 1] = Offset(s, b)
      BY <1>7, <3>1
    <3> QED BY <1>10, <3>1, <3>2
  <2> QED BY <1>5, <1>8, <2>1, <2>2, <2>3 DEF VarLenValid
<1>12. \A b \in 0..n - 1 : \A i \in 1..Context[b] :
          /\ Offset(s, b) + i \in Tokens(v, b)
          /\ v.deps[Offset(s, b) + i] = {<<"token", b, i>>}
  <2> TAKE b \in 0..n - 1
  <2>1. b + 1 \in 1..n /\ b + 1 - 1 = b
    BY <1>1
  <2>2. \A i \in 1..Context[b] : deps(n)[Offset(s, b) + i] = {<<"token", b, i>>}
    BY <1>5, <2>1
  <2>3. \A i \in 1..Context[b] : Offset(s, b) + i \in Tokens(v, b)
    BY <1>10
  <2> QED BY <1>8, <2>2, <2>3
<1>13. OwnTokens(v, n)
  <2> SUFFICES ASSUME NEW b \in 0..n - 1, NEW j \in Tokens(v, b), NEW x \in v.deps[j]
               PROVE  x[2] = b
    BY DEF OwnTokens
  <2> DEFINE i == j - Offset(s, b)
  <2>1. i \in 1..Context[b] /\ Offset(s, b) + i = j
    BY <1>10
  <2>2. v.deps[j] = {<<"token", b, i>>}
    BY <1>12, <2>1
  <2> QED BY <2>2
<1>14. ASSUME NEW b \in 0..n - 1 PROVE Tokens(v, b) # {}
  <2>1. Offset(s, b) + 1 \in Offset(s, b) + 1 .. Offset(s, b) + Context[b]
    BY <1>10
  <2> QED BY <1>10, <2>1
<1>15. \A b \in 0..n - 1 : \A j \in 1..Context[b] :
          \E k \in Tokens(v, b) : v.deps[k] = {<<"token", b, j>>}
  BY <1>12
<1> QED BY <1>8, <1>9, <1>11, <1>13, <1>14, <1>15 DEF v

-----------------------------------------------------------------------------
(* Convolutions, and the step to the points of the next level.             *)

Near(t, d) ==
    [i \in DOMAIN t.coords |->
        UNION {IF Neighbour(t, i, o) = 0 THEN {} ELSE d[Neighbour(t, i, o)] : o \in Offsets}]

\* A neighbour is a point of the same batch.
LEMMA NearIs ==
    ASSUME NEW t, Good(t), NEW d, ForRows(t, d)
    PROVE  ForRows(t, Near(t, d)) /\ (Own(t, d) => Own(t, Near(t, d)))
<1>1. ForRows(t, Near(t, d))
  BY DEF ForRows, Near
<1>2. ASSUME Own(t, d), NEW i \in DOMAIN t.coords, NEW x \in Near(t, d)[i]
      PROVE  x[2] = t.coords[i][1]
  <2>1. PICK o \in Offsets : x \in IF Neighbour(t, i, o) = 0 THEN {} ELSE d[Neighbour(t, i, o)]
    BY <1>2 DEF Near
  <2> DEFINE j == Neighbour(t, i, o)
             c == t.coords[i]
             n == <<c[1], c[2] + o[1], c[3] + o[2], c[4] + o[3]>>
  <2>2. j # 0 /\ x \in d[j]
    BY <2>1
  <2>3. j \in DOMAIN t.coords /\ t.coords[j] = n
    BY <2>2 DEF Neighbour
  <2>4. n[1] = c[1]
    OBVIOUS
  <2> HIDE DEF j, n
  <2> QED BY <1>2, <2>2, <2>3, <2>4 DEF Own
<1> QED BY <1>1, <1>2 DEF Own

\* A convolution makes a row depend on its neighbours in its batch.
LEMMA ConvIs ==
    ASSUME NEW t, Good(t), NEW ch \in Nat \ {0}, NEW d, ForRows(t, d), NEW out \in Nat \ {0}
    PROVE  Conv(With(t, ch, d), out) = With(t, out, Near(t, d))
<1> DEFINE u == With(t, ch, d)
           D == [i \in DOMAIN u.deps |-> UNION {IF Neighbour(u, i, o) = 0 THEN {}
                                                ELSE u.deps[Neighbour(u, i, o)] : o \in Offsets}]
<1>1. Valid(u) /\ u.coords = t.coords /\ u.deps = d
  BY RowOps
<1>2. \A i, o : Neighbour(u, i, o) = Neighbour(t, i, o)
  <2> HIDE DEF u
  <2> QED BY <1>1 DEF Neighbour
<1>3. DOMAIN d = DOMAIN t.coords
  BY DEF ForRows
<1>4. Conv(u, out) = [u EXCEPT !.ch = out, !.deps = D]
  <2> HIDE DEF u
  <2> QED BY <1>1 DEF Conv, Checked
<1>5. D = Near(t, d)
  <2> HIDE DEF u
  <2> QED BY <1>1, <1>2, <1>3 DEF Near
<1> HIDE DEF D
<1>6. [u EXCEPT !.ch = out] = With(t, out, d) /\ [With(t, out, d) EXCEPT !.deps = D] = With(t, out, D)
  BY DEF With
<1> HIDE DEF u
<1>7. [u EXCEPT !.ch = out, !.deps = D] = [[u EXCEPT !.ch = out] EXCEPT !.deps = D]
  OBVIOUS
<1> QED BY <1>4, <1>5, <1>6, <1>7 DEF u

\* A ConvNext block succeeds, and adds its neighbours to a row.
LEMMA ConvNextIs ==
    ASSUME NEW t, Good(t), NEW w, w.kind = "convnext", w.ch = t.ch, w.out = t.ch
    PROVE  ConvNextBlock(t, w) = With(t, t.ch, Both(t, Near(t, t.deps), t.deps))
<1> DEFINE ch == t.ch
           d == t.deps
           n == Near(t, d)
<1>1. ch \in Nat \ {0} /\ 4 * ch \in Nat \ {0} /\ ForRows(t, d) /\ t = With(t, ch, d)
  BY GoodIs
<1>2. ForRows(t, n)
  BY <1>1, NearIs
<1> HIDE DEF n
<1>3. Conv(With(t, ch, d), ch) = With(t, ch, n)
  BY <1>1, ConvIs DEF n
<1>4. LayerNorm(With(t, ch, n)) = With(t, ch, n)
  BY <1>1, <1>2, RowOps
<1>5. Linear(With(t, ch, n), 4 * ch) = With(t, 4 * ch, n)
  BY <1>1, <1>2, RowOps
<1>6. Linear(With(t, 4 * ch, n), ch) = With(t, ch, n)
  BY <1>1, <1>2, RowOps
<1>7. Add(With(t, ch, n), With(t, ch, d)) = With(t, ch, Both(t, n, d))
  BY <1>1, <1>2, AddIs
<1>8. ConvNextBlock(t, w) = Add(Linear(Linear(LayerNorm(Conv(t, ch)), 4 * ch), ch), t)
  BY DEF ConvNextBlock, Checked, Good
<1>9. Conv(t, ch) = With(t, ch, n)
  BY <1>1, <1>3
<1>10. Linear(Linear(LayerNorm(Conv(t, ch)), 4 * ch), ch) = With(t, ch, n)
  BY <1>4, <1>5, <1>6, <1>9
<1> QED BY <1>1, <1>7, <1>8, <1>10 DEF n

\* Subdivisions as a decoder predicts them.
Subdivision(sub) ==
    /\ sub = [batch |-> sub.batch, size |-> sub.size, ch |-> 8, coords |-> sub.coords,
              deps |-> sub.deps, kids |-> sub.kids]
    /\ Good(With(sub, 8, sub.deps))
    /\ sub.kids \in [DOMAIN sub.coords -> SUBSET (0..7)]

\* The children of the points in sub, in the order they are gone through.
Children(sub) ==
    [n \in DOMAIN Selected(sub, sub) |->
        ChildOf(sub.coords[Selected(sub, sub)[n][1]], Selected(sub, sub)[n][2])]

\* The selection goes from point to point and through the children of each.
LEMMA SelectedIs ==
    ASSUME NEW sub, Subdivision(sub)
    PROVE  LET sel == Selected(sub, sub)
           IN  /\ sel \in Seq((DOMAIN sub.coords) \X (0..7))
               /\ \A n \in DOMAIN sel : sel[n][2] \in sub.kids[sel[n][1]]
               /\ \A i \in DOMAIN sub.coords : \A k \in sub.kids[i] :
                     \E n \in DOMAIN sel : sel[n] = <<i, k>>
               /\ \A m, n \in DOMAIN sel : m < n => sel[m][1] <= sel[n][1] /\ sel[m] # sel[n]
<1> DEFINE N == Len(sub.coords)
           kids(i) == IF sub = Bad THEN 0..7 ELSE sub.kids[i]
           kid(i) == InOrder(kids(i), {e \in kids(i) \X kids(i) : e[1] < e[2]})
           part(i) == [n \in DOMAIN kid(i) |-> <<i, kid(i)[n]>>]
           X == (DOMAIN sub.coords) \X (0..7)
           s == [i \in DOMAIN sub.coords |-> part(i)]
           sel == Selected(sub, sub)
<1>1. /\ N \in Nat /\ DOMAIN sub.coords = 1..N
      /\ sub.kids \in [1..N -> SUBSET (0..7)]
  <2> DEFINE g == With(sub, 8, sub.deps)
  <2>1. Good(g) /\ g.coords = sub.coords
    BY DEF Subdivision, With
  <2>2. Len(g.coords) \in Nat /\ DOMAIN g.coords = 1..Len(g.coords)
    BY <2>1, GoodIs
  <2> HIDE DEF g
  <2> QED BY <2>1, <2>2 DEF Subdivision
<1>2. sub # Bad
  <2>1. Good(With(sub, 8, sub.deps)) /\ With(sub, 8, sub.deps).batch = sub.batch
    BY DEF Subdivision, With
  <2>2. sub.batch # 0
    BY <2>1, GoodIs
  <2> QED BY <2>2 DEF Bad
<1>3. \A i \in 1..N : kids(i) = sub.kids[i] /\ kids(i) \in SUBSET (0..7)
  BY <1>1, <1>2
<1> HIDE DEF kids, N
<1>4. ASSUME NEW i \in 1..N
      PROVE  LET C == Cardinality(kids(i))
             IN  /\ C \in Nat /\ kid(i) = [n \in 1..C |-> kid(i)[n]]
                 /\ \A n \in 1..C : kid(i)[n] \in kids(i)
                 /\ \A x \in kids(i) : \E n \in 1..C : kid(i)[n] = x
                 /\ \A m, n \in 1..C : m < n => kid(i)[m] < kid(i)[n]
  <2> DEFINE K == kids(i)
             order == {e \in K \X K : e[1] < e[2]}
  <2>1. IsFiniteSet(K) /\ K \subseteq 0..7
    <3>1. K \subseteq 0..7
      BY <1>3
    <3>2. IsFiniteSet(0..7)
      <4>1. 0 \in Int /\ 7 \in Int
        OBVIOUS
      <4> QED BY <4>1, FS_Interval
    <3> QED BY <3>1, <3>2, FS_Subset
  <2>2. Total(K, order)
    <3> HIDE DEF K
    <3>1. \A x \in K : x \in Int
      BY <2>1
    <3>2. \A x, y \in K : <<x, y>> \in order <=> x < y
      OBVIOUS
    <3> HIDE DEF order
    <3> QED BY <3>1, <3>2 DEF Total
  <2>3. LET C == Cardinality(K)
            q == InOrder(K, order)
        IN  /\ C \in Nat /\ q = [n \in 1..C |-> q[n]]
            /\ \A n \in 1..C : q[n] \in K
            /\ \A x \in K : \E n \in 1..C : q[n] = x
            /\ \A m, n \in 1..C : m < n => <<q[m], q[n]>> \in order /\ q[m] # q[n]
    <3> HIDE DEF K, order
    <3> QED BY <2>1, <2>2, InOrderIs
  <2> DEFINE q == InOrder(K, order)
  <2>4. kid(i) = q
    OBVIOUS
  <2>5. \A x, y : <<x, y>> \in order => x < y
    OBVIOUS
  <2> HIDE DEF q, order, kid
  <2> QED BY <2>3, <2>4, <2>5 DEF q
<1> HIDE DEF kid
<1>5. ASSUME NEW i \in 1..N
      PROVE  /\ part(i) \in Seq(X) /\ Len(part(i)) = Cardinality(kids(i))
             /\ Cardinality(kids(i)) \in Nat
             /\ \A n \in 1..Cardinality(kids(i)) : part(i)[n] = <<i, kid(i)[n]>>
  <2>1. DOMAIN kid(i) = 1..Cardinality(kids(i)) /\ Cardinality(kids(i)) \in Nat
    BY <1>4
  <2>2. ASSUME NEW n \in 1..Cardinality(kids(i)) PROVE <<i, kid(i)[n]>> \in X
    <3>1. kid(i)[n] \in kids(i)
      BY <1>4
    <3>2. i \in DOMAIN sub.coords /\ kid(i)[n] \in 0..7
      BY <1>1, <1>3, <3>1
    <3>3. \A x \in DOMAIN sub.coords, y \in 0..7 : <<x, y>> \in X
      OBVIOUS
    <3> HIDE DEF X
    <3> QED BY <3>2, <3>3
  <2> HIDE DEF X
  <2>3. part(i) \in [1..Cardinality(kids(i)) -> X]
    BY <2>1, <2>2
  <2> QED BY <2>1, <2>3
<1>6. s \in Seq(Seq(X)) /\ Len(s) = N /\ \A i \in 1..N : s[i] = part(i)
  <2> HIDE DEF part, X
  <2>1. s \in [1..N -> Seq(X)]
    BY <1>1, <1>5 DEF N
  <2> QED BY <1>1, <2>1 DEF N
<1>7. sel = FlattenSeq(s)
  BY DEF Selected, part, kid, kids
<1> HIDE DEF s, part, sel
<1>8. sel \in Seq(X)
  BY <1>6, <1>7, Flattened
<1>9. ASSUME NEW m \in DOMAIN sel
      PROVE  \E i \in 1..N : \E n \in 1..Cardinality(kids(i)) :
                m = Offset(s, i - 1) + n /\ sel[m] = <<i, kid(i)[n]>>
  <2>1. m \in 1..Len(FlattenSeq(s))
    BY <1>7, <1>8
  <2>2. PICK i \in 1..Len(s) : \E n \in 1..Len(s[i]) :
              /\ m = Offset(s, i - 1) + n /\ FlattenSeq(s)[m] = s[i][n]
    BY <1>6, <2>1, FlatPlace
  <2>3. PICK n \in 1..Len(s[i]) : m = Offset(s, i - 1) + n /\ FlattenSeq(s)[m] = s[i][n]
    BY <2>2
  <2>4. i \in 1..N /\ s[i] = part(i)
    BY <1>6
  <2>5. n \in 1..Cardinality(kids(i)) /\ s[i][n] = <<i, kid(i)[n]>>
    BY <1>5, <2>4
  <2> QED BY <1>7, <2>3, <2>4, <2>5
<1>10. ASSUME NEW i \in 1..N, NEW n \in 1..Cardinality(kids(i))
       PROVE  Offset(s, i - 1) + n \in DOMAIN sel /\ sel[Offset(s, i - 1) + n] = <<i, kid(i)[n]>>
  <2>1. i \in 1..Len(s) /\ n \in 1..Len(s[i]) /\ s[i][n] = <<i, kid(i)[n]>>
        /\ i - 1 \in 0..Len(s) /\ i \in 0..Len(s)
    <3>1. i \in 1..Len(s) /\ s[i] = part(i)
      BY <1>6
    <3>2. n \in 1..Len(s[i]) /\ s[i][n] = <<i, kid(i)[n]>>
      BY <1>5, <3>1
    <3>3. i - 1 \in 0..Len(s) /\ i \in 0..Len(s)
      BY <1>1, <1>6
    <3> QED BY <3>1, <3>2, <3>3
  <2>2. /\ Offset(s, i) = Offset(s, i - 1) + Len(s[i]) /\ Offset(s, i) <= Len(FlattenSeq(s))
        /\ Offset(s, i - 1) \in Nat /\ FlattenSeq(s)[Offset(s, i - 1) + n] = s[i][n]
    BY <1>6, <2>1, Flattened
  <2>3. Len(s[i]) \in Nat /\ Len(sel) \in Nat /\ DOMAIN sel = 1..Len(sel)
    BY <1>5, <1>6, <1>8
  <2>4. Offset(s, i - 1) + n \in 1..Len(sel)
    BY <1>7, <2>1, <2>2, <2>3
  <2> QED BY <1>7, <2>1, <2>2, <2>3, <2>4
<1>11. \A n \in DOMAIN sel : sel[n][2] \in sub.kids[sel[n][1]]
  BY <1>3, <1>4, <1>9
<1>12. ASSUME NEW i \in DOMAIN sub.coords, NEW k \in sub.kids[i]
       PROVE  \E n \in DOMAIN sel : sel[n] = <<i, k>>
  <2>1. i \in 1..N /\ k \in kids(i)
    BY <1>1, <1>3
  <2>2. PICK n \in 1..Cardinality(kids(i)) : kid(i)[n] = k
    BY <1>4, <2>1
  <2> QED BY <1>10, <2>1, <2>2
<1>13. ASSUME NEW m \in DOMAIN sel, NEW n \in DOMAIN sel, m < n
       PROVE  sel[m][1] <= sel[n][1] /\ sel[m] # sel[n]
  <2>1. PICK i \in 1..N : \E a \in 1..Cardinality(kids(i)) :
             m = Offset(s, i - 1) + a /\ sel[m] = <<i, kid(i)[a]>>
    BY <1>9
  <2>2. PICK a \in 1..Cardinality(kids(i)) :
             m = Offset(s, i - 1) + a /\ sel[m] = <<i, kid(i)[a]>>
    BY <2>1
  <2>3. PICK j \in 1..N : \E b \in 1..Cardinality(kids(j)) :
             n = Offset(s, j - 1) + b /\ sel[n] = <<j, kid(j)[b]>>
    BY <1>9
  <2>4. PICK b \in 1..Cardinality(kids(j)) :
             n = Offset(s, j - 1) + b /\ sel[n] = <<j, kid(j)[b]>>
    BY <2>3
  <2>5. /\ i - 1 \in 0..Len(s) /\ j - 1 \in 0..Len(s) /\ j \in 1..Len(s) /\ i \in Int /\ j \in Int
        /\ Cardinality(kids(i)) \in Nat /\ Cardinality(kids(j)) \in Nat
    <3>1. Cardinality(kids(i)) \in Nat /\ Cardinality(kids(j)) \in Nat
      BY <1>5
    <3>2. i - 1 \in 0..N /\ j - 1 \in 0..N /\ i \in Int /\ j \in Int
      BY <1>1
    <3>3. Len(s) = N
      BY <1>6
    <3> HIDE DEF kids, N
    <3> QED BY <3>1, <3>2, <3>3
  <2>6. Offset(s, i - 1) \in Nat /\ Offset(s, j - 1) \in Nat
        /\ Offset(s, j) = Offset(s, j - 1) + Cardinality(kids(j))
    <3>1. \A k \in 0..Len(s) : Offset(s, k) \in Nat
      BY <1>6, Flattened
    <3>2. Offset(s, j) = Offset(s, j - 1) + Len(s[j])
      BY <1>6, <2>5, Flattened
    <3> QED BY <1>5, <1>6, <2>5, <3>1, <3>2
  <2>7. i <= j
    <3> SUFFICES ASSUME j < i PROVE FALSE
      BY <2>5
    <3>1. j \in 0..Len(s) /\ i - 1 \in j..Len(s)
      BY <1>6, <2>5
    <3>2. Offset(s, j) <= Offset(s, i - 1)
      BY <1>6, <3>1, OffsetsGrow
    <3> QED BY <1>13, <2>2, <2>4, <2>5, <2>6, <3>2
  <2>8. i = j => kid(i)[a] < kid(j)[b]
    <3> HAVE i = j
    <3>1. a < b
      BY <1>13, <2>2, <2>4, <2>5, <2>6
    <3> QED BY <1>4, <2>2, <2>4, <3>1
  <2>9. \A x \in kids(i) : ~(x < x)
    <3>1. kids(i) \subseteq Int
      BY <1>3
    <3> QED BY <3>1
  <2>10. kid(i)[a] \in kids(i)
    BY <1>4
  <2> QED BY <2>2, <2>4, <2>7, <2>8, <2>9, <2>10
<1> QED BY <1>8, <1>11, <1>12, <1>13 DEF sel

\* Which of the eight children is meant, digit by digit.
LEMMA Digits ==
    \A j \in 0..7 : /\ j % 2 \in {0, 1} /\ (j \div 2) % 2 \in {0, 1} /\ j \div 4 \in {0, 1}
                    /\ j = (j % 2) + 2 * ((j \div 2) % 2) + 4 * (j \div 4)
                    /\ (j \div 4) % 2 = j \div 4
<1> TAKE j \in 0..7
<1>1. j = 0 \/ j = 1 \/ j = 2 \/ j = 3 \/ j = 4 \/ j = 5 \/ j = 6 \/ j = 7
  OBVIOUS
<1> QED BY <1>1

\* A point is its four numbers.
LEMMA PointIs ==
    \A d \in Point : d = <<d[1], d[2], d[3], d[4]>> /\ \A a \in 1..4 : d[a] \in Int
BY DEF Point

\* A child leads back to its point.
LEMMA ChildIs ==
    ASSUME NEW c \in Point, NEW k \in 0..7
    PROVE  /\ ChildOf(c, k) \in Point /\ ChildOf(c, k)[1] = c[1]
           /\ \A a \in 2..4 : /\ ChildOf(c, k)[a] \in {2 * c[a], 2 * c[a] + 1}
                              /\ ChildOf(c, k)[a] \div 2 = c[a]
<1> DEFINE x == k % 2
           y == (k \div 2) % 2
           z == k \div 4
<1>1. ChildOf(c, k) = <<c[1], 2 * c[2] + x, 2 * c[3] + y, 2 * c[4] + z>>
  BY DEF ChildOf
<1>2. x \in {0, 1} /\ y \in {0, 1} /\ z \in {0, 1}
  BY Digits
<1>3. \A a \in 1..4 : c[a] \in Int
  BY PointIs
<1> HIDE DEF x, y, z
<1>4. ChildOf(c, k) \in Point /\ ChildOf(c, k)[1] = c[1]
  <2>1. c[1] \in Int /\ 2 * c[2] + x \in Int /\ 2 * c[3] + y \in Int /\ 2 * c[4] + z \in Int
    BY <1>2, <1>3
  <2> QED BY <1>1, <2>1 DEF Point
<1>5. \A n \in Int, b \in {0, 1} : (2 * n + b) \div 2 = n /\ 2 * n + b \in {2 * n, 2 * n + 1}
  OBVIOUS
<1>6. ASSUME NEW a \in 2..4
      PROVE  ChildOf(c, k)[a] \in {2 * c[a], 2 * c[a] + 1} /\ ChildOf(c, k)[a] \div 2 = c[a]
  <2>1. \E b \in {0, 1} : ChildOf(c, k)[a] = 2 * c[a] + b
    <3>1. a = 2 \/ a = 3 \/ a = 4
      OBVIOUS
    <3> QED BY <1>1, <1>2, <3>1
  <2>2. c[a] \in Int
    BY <1>3
  <2> QED BY <1>5, <2>1, <2>2
<1> QED BY <1>4, <1>6

\* No two points have a child in common, and the children of a point differ.
LEMMA ChildrenDiffer ==
    ASSUME NEW c \in Point, NEW k \in 0..7, NEW d \in Point, NEW j \in 0..7,
           ChildOf(c, k) = ChildOf(d, j)
    PROVE  c = d /\ k = j
<1> DEFINE x(n) == n % 2
           y(n) == (n \div 2) % 2
           z(n) == n \div 4
<1>1. \A n \in {j, k} : x(n) \in {0, 1} /\ y(n) \in {0, 1} /\ z(n) \in {0, 1}
                       /\ n = x(n) + 2 * y(n) + 4 * z(n)
  BY Digits
<1>2. /\ c[1] = d[1] /\ 2 * c[2] + x(k) = 2 * d[2] + x(j)
      /\ 2 * c[3] + y(k) = 2 * d[3] + y(j) /\ 2 * c[4] + z(k) = 2 * d[4] + z(j)
  BY DEF ChildOf
<1> HIDE DEF x, y, z
<1>4. \A a \in 1..4 : c[a] \in Int /\ d[a] \in Int
  BY PointIs
<1>5. c[2] = d[2] /\ x(k) = x(j)
  <2> DEFINE m == c[2]
             n == d[2]
             a == x(k)
             b == x(j)
  <2>1. m \in Int /\ n \in Int /\ a \in {0, 1} /\ b \in {0, 1}
    BY <1>1, <1>4
  <2>2. 2 * m + a = 2 * n + b
    BY <1>2
  <2> HIDE DEF m, n, a, b
  <2>3. m = n /\ a = b
    BY <2>1, <2>2
  <2> QED BY <2>3 DEF m, n, a, b
<1>6. c[3] = d[3] /\ y(k) = y(j)
  <2> DEFINE m == c[3]
             n == d[3]
             a == y(k)
             b == y(j)
  <2>1. m \in Int /\ n \in Int /\ a \in {0, 1} /\ b \in {0, 1}
    BY <1>1, <1>4
  <2>2. 2 * m + a = 2 * n + b
    BY <1>2
  <2> HIDE DEF m, n, a, b
  <2>3. m = n /\ a = b
    BY <2>1, <2>2
  <2> QED BY <2>3 DEF m, n, a, b
<1>7. c[4] = d[4] /\ z(k) = z(j)
  <2> DEFINE m == c[4]
             n == d[4]
             a == z(k)
             b == z(j)
  <2>1. m \in Int /\ n \in Int /\ a \in {0, 1} /\ b \in {0, 1}
    BY <1>1, <1>4
  <2>2. 2 * m + a = 2 * n + b
    BY <1>2
  <2> HIDE DEF m, n, a, b
  <2>3. m = n /\ a = b
    BY <2>1, <2>2
  <2> QED BY <2>3 DEF m, n, a, b
<1>8. k = j
  <2>1. k = x(k) + 2 * y(k) + 4 * z(k) /\ j = x(j) + 2 * y(j) + 4 * z(j)
    BY <1>1
  <2> QED BY <1>5, <1>6, <1>7, <2>1
<1>9. c = d
  <2>1. c = <<c[1], c[2], c[3], c[4]>> /\ d = <<d[1], d[2], d[3], d[4]>>
    BY PointIs
  <2> QED BY <1>2, <1>5, <1>6, <1>7, <2>1
<1> QED BY <1>8, <1>9

\* The GPU counts out the same children.
LEMMA GpuChildIs ==
    ASSUME NEW c \in Point, NEW k \in 0..7
    PROVE  LET g == GpuChild(k)
           IN  <<c[1], 2 * c[2] + g[1], 2 * c[3] + g[2], 2 * c[4] + g[3]>> = ChildOf(c, k)
<1>1. (k \div 4) % 2 = k \div 4
  BY Digits
<1> QED BY <1>1 DEF GpuChild, ChildOf

\* The rows of a good tensor are in the order of their batches.
LEMMA BatchesInOrder ==
    ASSUME NEW t, Good(t), NEW i \in DOMAIN t.coords, NEW j \in DOMAIN t.coords, i <= j
    PROVE  t.coords[i][1] <= t.coords[j][1]
<1> DEFINE n == Len(t.coords)
           key == [m \in 1..n |-> t.coords[m][1]]
           b == t.coords[j][1] + 1
<1>1. /\ n \in Nat /\ DOMAIN t.coords = 1..n
      /\ \A m \in 1..n : key[m] = t.coords[m][1] /\ t.coords[m][1] \in Int
      /\ \A m \in 1..n : m > 1 => t.coords[m - 1][1] <= t.coords[m][1]
  <2>1. n \in Nat /\ DOMAIN t.coords = 1..n
    BY GoodIs
  <2>2. \A m \in 1..n : t.coords[m][1] \in Int
    BY <2>1, GoodIs
  <2>3. \A m \in 1..n : m > 1 => t.coords[m - 1][1] <= t.coords[m][1]
    BY <2>1, GoodIs
  <2> HIDE DEF n
  <2> QED BY <2>1, <2>2, <2>3
<1> HIDE DEF n, key
<1>2. \A m \in 1..n : m > 1 => key[m - 1] <= key[m]
  <2>1. \A m \in 1..n : m > 1 => m - 1 \in 1..n
    BY <1>1
  <2> QED BY <1>1, <2>1
<1>3. PICK k \in 0..n : \A m \in 1..n : key[m] < b <=> m <= k
  <2>1. t.coords[j][1] \in Int /\ \A m \in 1..n : key[m] \in Int
    BY <1>1
  <2>2. b \in Int
    BY <2>1
  <2> HIDE DEF b
  <2> QED BY <1>1, <1>2, <2>1, <2>2, RowsBelow
<1>4. j <= k
  BY <1>1, <1>3
<1>5. i \in 1..n /\ j \in 1..n /\ i <= k
  BY <1>1, <1>4
<1>6. key[i] < b
  BY <1>3, <1>5
<1>7. key[i] < key[j] + 1 /\ key[i] \in Int /\ key[j] \in Int
  BY <1>1, <1>5, <1>6
<1>8. key[i] <= key[j]
  BY <1>7
<1> QED BY <1>1, <1>5, <1>8

\* A tensor on the children of the points of t.
Finer(t, sub, ch, d) ==
    [batch |-> t.batch, size |-> 2 * t.size, ch |-> ch, coords |-> Children(sub),
     deps |-> [n \in DOMAIN Selected(sub, sub) |-> d[Selected(sub, sub)[n][1]]]]

\* The children of a good tensor's points make a good one, twice as fine.
LEMMA FinerIsGood ==
    ASSUME NEW t, Good(t), NEW sub, Subdivision(sub), sub.coords = t.coords,
           NEW ch \in Nat \ {0}, NEW d
    PROVE  /\ Good(Finer(t, sub, ch, d))
           /\ Own(t, d) => Own(Finer(t, sub, ch, d), Finer(t, sub, ch, d).deps)
           /\ Len(Children(sub)) = Len(Selected(sub, sub))
           /\ DOMAIN Children(sub) = DOMAIN Selected(sub, sub)
           /\ \A n \in DOMAIN Children(sub) :
                 \E i \in DOMAIN t.coords : \E k \in 0..7 :
                    Children(sub)[n] = ChildOf(t.coords[i], k)
<1> DEFINE sel == Selected(sub, sub)
           u == Finer(t, sub, ch, d)
           cs == Children(sub)
<1>1. /\ sel \in Seq((DOMAIN t.coords) \X (0..7))
      /\ \A m, n \in DOMAIN sel : m < n => sel[m][1] <= sel[n][1] /\ sel[m] # sel[n]
  BY SelectedIs
<1>2. /\ DOMAIN sel = 1..Len(sel) /\ Len(sel) \in Nat
      /\ \A n \in DOMAIN sel : /\ sel[n][1] \in DOMAIN t.coords /\ sel[n][2] \in 0..7
                               /\ sel[n] = <<sel[n][1], sel[n][2]>>
  BY <1>1
<1>3. /\ DOMAIN cs = DOMAIN sel /\ cs = [n \in DOMAIN sel |-> cs[n]]
      /\ \A n \in DOMAIN sel : cs[n] = ChildOf(t.coords[sel[n][1]], sel[n][2])
  BY DEF Children
<1>4. /\ u.batch = t.batch /\ u.size = 2 * t.size /\ u.ch = ch /\ u.coords = cs
      /\ u.deps = [n \in DOMAIN sel |-> d[sel[n][1]]]
      /\ u = [batch |-> u.batch, size |-> u.size, ch |-> u.ch, coords |-> u.coords,
              deps |-> u.deps]
  BY DEF Finer
<1> HIDE DEF sel, u, cs
<1>5. \A n \in DOMAIN sel :
         /\ t.coords[sel[n][1]] \in Point
         /\ cs[n] \in Point /\ cs[n][1] = t.coords[sel[n][1]][1]
         /\ \A a \in 2..4 : cs[n][a] \in {2 * t.coords[sel[n][1]][a], 2 * t.coords[sel[n][1]][a] + 1}
  <2> TAKE n \in DOMAIN sel
  <2>1. t.coords[sel[n][1]] \in Point /\ sel[n][2] \in 0..7
    BY <1>2, GoodIs
  <2> DEFINE c == t.coords[sel[n][1]]
             k == sel[n][2]
  <2>2. cs[n] = ChildOf(c, k)
    BY <1>3
  <2>3. c \in Point /\ k \in 0..7
    BY <2>1
  <2> HIDE DEF c, k
  <2>4. /\ ChildOf(c, k) \in Point /\ ChildOf(c, k)[1] = c[1]
        /\ \A a \in 2..4 : ChildOf(c, k)[a] \in {2 * c[a], 2 * c[a] + 1}
    BY <2>3, ChildIs
  <2> QED BY <2>2, <2>3, <2>4 DEF c
<1>6. cs \in Seq(Point) /\ Len(cs) = Len(sel)
  <2>1. \A n \in 1..Len(sel) : cs[n] \in Point
    BY <1>2, <1>5
  <2>2. cs = [n \in 1..Len(sel) |-> cs[n]]
    BY <1>2, <1>3
  <2> QED BY <1>2, <2>1, <2>2, LenIs
<1>7. Len(u.deps) = Len(sel) /\ u.deps = [n \in DOMAIN cs |-> u.deps[n]]
  <2>1. u.deps = [n \in 1..Len(sel) |-> u.deps[n]]
    BY <1>2, <1>4
  <2>2. Len(u.deps) = Len(sel)
    BY <1>2, <2>1, LenIs
  <2> QED BY <1>2, <1>3, <2>1, <2>2
<1>8. Tensor(u)
  <2>1. u.batch \in Nat /\ u.size \in Nat /\ u.ch \in Nat
    BY <1>4, GoodIs
  <2>2. u.coords \in Seq(Point) /\ u.deps = [n \in DOMAIN u.coords |-> u.deps[n]]
    BY <1>4, <1>6, <1>7
  <2> QED BY <1>4, <2>1, <2>2 DEF Tensor
<1>9. Valid(u)
  <2>1. u.batch > 0 /\ u.ch > 0 /\ u.size > 0 /\ Len(u.deps) = Len(u.coords)
    BY <1>4, <1>6, <1>7, GoodIs
  <2>2. ASSUME NEW n \in DOMAIN u.coords PROVE InShape(u, u.coords[n])
    <3> DEFINE i == sel[n][1]
    <3>1. n \in DOMAIN sel /\ i \in DOMAIN t.coords
      BY <1>2, <1>3, <1>4
    <3>2. t.coords[i][1] \in 0..t.batch - 1 /\ \A a \in 2..4 : t.coords[i][a] \in 0..t.size - 1
      BY <3>1, GoodIs
    <3>3. cs[n][1] \in 0..t.batch - 1
      BY <1>5, <3>1, <3>2
    <3>4. \A a \in 2..4 : cs[n][a] \in 0..2 * t.size - 1
      <4> TAKE a \in 2..4
      <4>1. cs[n][a] \in {2 * t.coords[i][a], 2 * t.coords[i][a] + 1}
        BY <1>5, <3>1
      <4>2. t.coords[i][a] \in 0..t.size - 1 /\ t.size \in Nat
        BY <3>2, GoodIs
      <4> HIDE DEF i
      <4> QED BY <4>1, <4>2
    <3> QED BY <1>4, <3>3, <3>4 DEF InShape
  <2>3. IsInjective(u.coords)
    <3> SUFFICES ASSUME NEW m \in DOMAIN cs, NEW n \in DOMAIN cs, cs[m] = cs[n], m # n PROVE FALSE
      BY <1>4 DEF IsInjective
    <3>1. m \in DOMAIN sel /\ n \in DOMAIN sel
      BY <1>3
    <3>2. t.coords[sel[m][1]] = t.coords[sel[n][1]] /\ sel[m][2] = sel[n][2]
      <4>1. /\ t.coords[sel[m][1]] \in Point /\ t.coords[sel[n][1]] \in Point
            /\ sel[m][2] \in 0..7 /\ sel[n][2] \in 0..7
        BY <1>2, <1>5, <3>1
      <4>2. ChildOf(t.coords[sel[m][1]], sel[m][2]) = ChildOf(t.coords[sel[n][1]], sel[n][2])
        BY <1>3, <3>1
      <4> DEFINE c == t.coords[sel[m][1]]
                 k == sel[m][2]
                 d2 == t.coords[sel[n][1]]
                 j == sel[n][2]
      <4> HIDE DEF c, k, d2, j
      <4>3. c \in Point /\ d2 \in Point /\ k \in 0..7 /\ j \in 0..7 /\ ChildOf(c, k) = ChildOf(d2, j)
        BY <4>1, <4>2 DEF c, k, d2, j
      <4>5. c = d2 /\ k = j
        BY <4>3, ChildrenDiffer
      <4> QED BY <4>5 DEF c, k, d2, j
    <3>3. sel[m][1] = sel[n][1]
      BY <1>2, <3>1, <3>2, GoodIs
    <3>4. sel[m] = sel[n]
      BY <1>2, <3>1, <3>2, <3>3
    <3>5. m < n \/ n < m
      BY <1>2, <3>1
    <3> QED BY <1>1, <3>1, <3>4, <3>5
  <2>4. ASSUME NEW n \in DOMAIN u.coords, n > 1 PROVE u.coords[n - 1][1] <= u.coords[n][1]
    <3>1. n \in DOMAIN sel /\ n - 1 \in DOMAIN sel /\ n - 1 < n
      BY <1>2, <1>3, <1>4, <2>4
    <3>2. sel[n - 1][1] <= sel[n][1] /\ sel[n - 1][1] \in DOMAIN t.coords
          /\ sel[n][1] \in DOMAIN t.coords
      BY <1>1, <1>2, <3>1
    <3>3. t.coords[sel[n - 1][1]][1] <= t.coords[sel[n][1]][1]
      BY <3>2, BatchesInOrder
    <3>4. cs[n - 1][1] = t.coords[sel[n - 1][1]][1] /\ cs[n][1] = t.coords[sel[n][1]][1]
      BY <1>5, <3>1
    <3> QED BY <1>4, <3>3, <3>4
  <2> QED BY <2>1, <2>2, <2>3, <2>4 DEF Valid
<1>10. ASSUME Own(t, d) PROVE Own(u, u.deps)
  <2> SUFFICES ASSUME NEW n \in DOMAIN cs, NEW x \in u.deps[n] PROVE x[2] = cs[n][1]
    BY <1>4 DEF Own
  <2>1. n \in DOMAIN sel /\ x \in d[sel[n][1]] /\ sel[n][1] \in DOMAIN t.coords
    BY <1>2, <1>3, <1>4
  <2> QED BY <1>5, <1>10, <2>1 DEF Own
<1>11. ASSUME NEW n \in DOMAIN cs
       PROVE  \E i \in DOMAIN t.coords : \E k \in 0..7 : cs[n] = ChildOf(t.coords[i], k)
  BY <1>2, <1>3
<1> QED BY <1>3, <1>6, <1>8, <1>9, <1>10, <1>11 DEF Good, u, cs, sel

\* A subdivision is accepted with the points it is about.
LEMMA SubdivisionIs ==
    ASSUME NEW sub, Subdivision(sub)
    PROVE  /\ Valid(sub) /\ sub # Bad /\ sub.ch = 8
           /\ \A t : t.batch = sub.batch /\ t.coords = sub.coords =>
                 SubdivisionFits(t, sub) /\ Selected(t, sub) = Selected(sub, sub)
<1> DEFINE g == With(sub, 8, sub.deps)
<1>1. /\ Valid(g) /\ g.batch = sub.batch /\ g.size = sub.size /\ g.ch = 8
      /\ g.coords = sub.coords /\ g.deps = sub.deps /\ sub.ch = 8
  BY DEF Subdivision, With, Good
<1> HIDE DEF g
<1>2. Valid(sub)
  <2>1. sub.batch > 0 /\ sub.ch > 0 /\ sub.size > 0 /\ Len(sub.deps) = Len(sub.coords)
    BY <1>1 DEF Valid
  <2>2. \A i \in DOMAIN sub.coords : InShape(sub, sub.coords[i])
    BY <1>1 DEF Valid, InShape
  <2>3. IsInjective(sub.coords)
    BY <1>1 DEF Valid
  <2>4. \A i \in DOMAIN sub.coords : i > 1 => sub.coords[i - 1][1] <= sub.coords[i][1]
    BY <1>1 DEF Valid
  <2> QED BY <2>1, <2>2, <2>3, <2>4 DEF Valid
<1>3. sub # Bad
  <2>1. sub.batch # 0
    BY <1>2 DEF Valid
  <2> QED BY <2>1 DEF Bad
<1>4. ASSUME NEW t, t.batch = sub.batch, t.coords = sub.coords
      PROVE  SubdivisionFits(t, sub) /\ Selected(t, sub) = Selected(sub, sub)
  BY <1>1, <1>2, <1>4 DEF SubdivisionFits, Selected
<1> QED BY <1>1, <1>2, <1>3, <1>4

\* Channels are spread over the children when there are eight times as many.
LEMMA ChannelToSpatialIs ==
    ASSUME NEW t, Good(t), NEW ch \in Nat \ {0}, NEW d, ForRows(t, d), NEW sub,
           Subdivision(sub), sub.batch = t.batch, sub.coords = t.coords,
           NEW out \in Nat \ {0}, ch = 8 * out
    PROVE  ChannelToSpatial(With(t, ch, d), sub) = Finer(t, sub, out, d)
<1> DEFINE x == With(t, ch, d)
           sel == Selected(x, sub)
           C == [n \in DOMAIN sel |-> ChildOf(x.coords[sel[n][1]], sel[n][2])]
           D == [n \in DOMAIN sel |-> x.deps[sel[n][1]]]
           c8 == x.ch \div 8
           s2 == 2 * x.size
           u == [x EXCEPT !.ch = c8, !.size = s2, !.coords = C, !.deps = D]
<1>1. /\ Valid(x) /\ x.batch = t.batch /\ x.coords = t.coords /\ x.size = t.size /\ x.ch = ch
      /\ x.deps = d
  <2> HIDE DEF x, sel, C, D, c8, s2, u
  <2>1. /\ Good(With(t, ch, d)) /\ With(t, ch, d).batch = t.batch
        /\ With(t, ch, d).coords = t.coords /\ With(t, ch, d).size = t.size
        /\ With(t, ch, d).ch = ch /\ With(t, ch, d).deps = d
    BY WithIsGood
  <2> QED BY <2>1 DEF x, Good
<1>2. SubdivisionFits(x, sub) /\ sel = Selected(sub, sub)
  <2> HIDE DEF x
  <2> QED BY <1>1, SubdivisionIs
<1>3. c8 = out /\ x.ch % 8 = 0
  <2> HIDE DEF x
  <2> QED BY <1>1
<1>4. C = Children(sub)
  <2> HIDE DEF x, sel
  <2> QED BY <1>1, <1>2 DEF Children
<1>5. D = [n \in DOMAIN Selected(sub, sub) |-> d[Selected(sub, sub)[n][1]]]
  <2> HIDE DEF x, sel
  <2> QED BY <1>1, <1>2
<1>6. ChannelToSpatial(x, sub) = Checked(Valid(x) /\ x.ch % 8 = 0 /\ SubdivisionFits(x, sub) /\ Valid(u), u)
  <2> HIDE DEF x
  <2> QED BY DEF ChannelToSpatial
<1> HIDE DEF C, D, c8, s2, sel
<1>7. u = [[[[x EXCEPT !.ch = c8] EXCEPT !.size = s2] EXCEPT !.coords = C] EXCEPT !.deps = D]
  <2> HIDE DEF x
  <2> QED OBVIOUS
<1>8. /\ [x EXCEPT !.ch = c8] = With(t, c8, d)
      /\ [With(t, c8, d) EXCEPT !.size = s2]
            = [batch |-> t.batch, size |-> s2, ch |-> c8, coords |-> t.coords, deps |-> d]
      /\ [[batch |-> t.batch, size |-> s2, ch |-> c8, coords |-> t.coords, deps |-> d] EXCEPT !.coords = C]
            = [batch |-> t.batch, size |-> s2, ch |-> c8, coords |-> C, deps |-> d]
      /\ [[batch |-> t.batch, size |-> s2, ch |-> c8, coords |-> C, deps |-> d] EXCEPT !.deps = D]
            = [batch |-> t.batch, size |-> s2, ch |-> c8, coords |-> C, deps |-> D]
  BY DEF With
<1> HIDE DEF x, u
<1>9. u = [batch |-> t.batch, size |-> s2, ch |-> c8, coords |-> C, deps |-> D]
  BY <1>7, <1>8
<1>10. u = Finer(t, sub, out, d)
  BY <1>1, <1>3, <1>4, <1>5, <1>9 DEF Finer, s2
<1>11. Valid(Finer(t, sub, out, d))
  BY FinerIsGood DEF Good
<1> QED BY <1>1, <1>2, <1>3, <1>6, <1>10, <1>11 DEF Checked, x

\* What the step to the next level computes, on each engine.
Up(t, out, sub) ==
    LET f == Finer(t, sub, out, t.deps)
        h == Finer(t, sub, out, Near(t, t.deps))
    IN  With(f, out, Both(f, Near(f, h.deps), f.deps))

\* The next level has the children as points, and keeps batches apart.
LEMMA UpIsGood ==
    ASSUME NEW t, Good(t), NEW out \in Nat \ {0}, NEW sub, Subdivision(sub),
           sub.coords = t.coords
    PROVE  LET r == Up(t, out, sub)
           IN  /\ Good(r) /\ r.batch = t.batch /\ r.size = 2 * t.size /\ r.ch = out
               /\ r.coords = Children(sub)
               /\ Own(t, t.deps) => Own(r, r.deps)
               /\ Own(t, t.deps) => \A i \in DOMAIN r.deps : \A x \in r.deps[i] : x[2] = r.coords[i][1]
<1> DEFINE f == Finer(t, sub, out, t.deps)
           h == Finer(t, sub, out, Near(t, t.deps))
           D == Both(f, Near(f, h.deps), f.deps)
           r == With(f, out, D)
<1>1. /\ Good(f) /\ Good(h) /\ f.coords = Children(sub) /\ h.coords = Children(sub)
      /\ f.batch = t.batch /\ f.size = 2 * t.size
  BY FinerIsGood DEF Finer
<1>2. Own(t, t.deps) => Own(f, f.deps) /\ Own(f, h.deps)
  <2> HAVE Own(t, t.deps)
  <2>1. ForRows(t, t.deps)
    BY GoodIs
  <2>2. Own(f, f.deps) /\ Own(h, h.deps)
    BY <2>1, NearIs, FinerIsGood
  <2> HIDE DEF f, h
  <2> QED BY <1>1, <2>2 DEF Own
<1>6. Up(t, out, sub) = r
  BY DEF Up
<1> HIDE DEF f, h
<1>3. ForRows(f, h.deps) /\ ForRows(f, f.deps)
  BY <1>1, GoodIs DEF ForRows
<1>4. ForRows(f, D)
  BY BothAreRows
<1>5. Own(t, t.deps) => Own(f, D)
  <2> HAVE Own(t, t.deps)
  <2>1. Own(f, Near(f, h.deps)) /\ Own(f, f.deps)
    BY <1>1, <1>2, <1>3, NearIs
  <2> QED BY <2>1 DEF Own, Both
<1> HIDE DEF D
<1>7. /\ Good(r) /\ r.ch = out /\ r.deps = D /\ r.coords = f.coords /\ r.batch = f.batch
      /\ r.size = f.size
  BY <1>1, <1>4, WithIsGood
<1> HIDE DEF r
<1>8. Own(t, t.deps) => Own(r, r.deps)
  BY <1>5, <1>7 DEF Own
<1>9. DOMAIN r.deps = DOMAIN r.coords
  BY <1>7, GoodIs DEF ForRows
<1> QED BY <1>1, <1>6, <1>7, <1>8, <1>9 DEF Own

\* What the step to the next level accepts.
UpFits(t, w, out, e, sub) ==
    /\ Good(t) /\ out \in Nat \ {0} /\ e \in Nat \ {0} /\ t.ch = 8 * e /\ out % e = 0
    /\ w.kind = "c2s" /\ w.ch = t.ch /\ w.out = out
    /\ Subdivision(sub) /\ sub.batch = t.batch /\ sub.coords = t.coords

\* Both engines compute the same next level.
LEMMA UpIs ==
    ASSUME NEW t, NEW w, NEW out, NEW e, NEW sub, UpFits(t, w, out, e, sub)
    PROVE  /\ UpBlock(t, w, sub) = Up(t, out, sub)
           /\ Selected(t, sub) # <<>> => GpuUpBlock(t, w, sub) = Up(t, out, sub)
<1> DEFINE d == t.deps
           n == Near(t, d)
           f == Finer(t, sub, out, d)
           h == Finer(t, sub, out, n)
           b8 == out * 8
<1>0. /\ Good(t) /\ out \in Nat \ {0} /\ e \in Nat \ {0} /\ t.ch = 8 * e /\ out % e = 0
      /\ w.kind = "c2s" /\ w.ch = t.ch /\ w.out = out
      /\ Subdivision(sub) /\ sub.batch = t.batch /\ sub.coords = t.coords
  BY DEF UpFits
<1>1. t = With(t, t.ch, d) /\ ForRows(t, d) /\ t.ch \in Nat \ {0}
  BY <1>0, GoodIs
<1>2. ForRows(t, n)
  BY <1>0, <1>1, NearIs
<1>3. Good(f) /\ Good(h) /\ f.ch = out /\ h.ch = out /\ h = With(f, out, h.deps)
      /\ f = With(f, out, f.deps) /\ ForRows(f, f.deps) /\ ForRows(f, h.deps)
  <2>1. Good(f) /\ Good(h)
    BY <1>0, FinerIsGood
  <2>2. f.ch = out /\ h.ch = out /\ f.coords = h.coords /\ h = With(f, out, h.deps)
    BY DEF Finer, With
  <2> HIDE DEF f, h
  <2>3. f = With(f, out, f.deps) /\ ForRows(f, f.deps) /\ ForRows(h, h.deps)
    BY <1>0, <2>1, <2>2, GoodIs
  <2> QED BY <1>0, <2>1, <2>2, <2>3 DEF ForRows
<1>4. b8 \in Nat \ {0} /\ 8 * out = b8 /\ t.ch % 8 = 0 /\ t.ch \div 8 = e
  BY <1>0
<1>5. LayerNorm(t) = t /\ Conv(t, b8) = With(t, b8, n)
  <2>1. LayerNorm(t) = t
    BY <1>0, NormIs
  <2> HIDE DEF b8
  <2>2. Conv(With(t, t.ch, d), b8) = With(t, b8, n)
    BY <1>0, <1>1, <1>4, ConvIs
  <2> QED BY <1>0, <1>1, <2>1, <2>2
<1>6. ChannelToSpatial(With(t, b8, n), sub) = h
  <2> HIDE DEF b8, n
  <2> QED BY <1>0, <1>2, <1>4, ChannelToSpatialIs
<1>7. ChannelToSpatial(t, sub) = Finer(t, sub, e, d)
  <2>1. ChannelToSpatial(With(t, t.ch, d), sub) = Finer(t, sub, e, d)
    BY <1>0, <1>1, ChannelToSpatialIs
  <2> QED BY <1>0, <1>1, <2>1
<1>8. RepeatChannels(Finer(t, sub, e, d), out) = f
  <2> DEFINE g == Finer(t, sub, e, d)
  <2>1. Good(g)
    BY <1>0, FinerIsGood
  <2>2. g.ch = e /\ With(g, out, g.deps) = f
    BY DEF Finer, With
  <2> HIDE DEF g, f
  <2>3. RepeatChannels(g, out) = With(g, out, g.deps)
    BY <1>0, <2>1, <2>2, RepeatIs
  <2> QED BY <1>0, <2>2, <2>3 DEF g
<1>20. Up(t, out, sub) = With(f, out, Both(f, Near(f, h.deps), f.deps))
  BY DEF Up
<1> HIDE DEF f, h
<1>9. Conv(h, out) = With(f, out, Near(f, h.deps)) /\ LayerNorm(h) = h
  <2>1. LayerNorm(h) = h
    BY <1>0, <1>3, NormIs
  <2>2. Conv(With(f, out, h.deps), out) = With(f, out, Near(f, h.deps))
    BY <1>0, <1>3, ConvIs
  <2> QED BY <1>0, <1>3, <2>1, <2>2
<1>10. Add(With(f, out, Near(f, h.deps)), f) = With(f, out, Both(f, Near(f, h.deps), f.deps))
  <2>1. ForRows(f, Near(f, h.deps))
    BY <1>0, <1>3, NearIs
  <2>2. Add(With(f, out, Near(f, h.deps)), With(f, out, f.deps))
          = With(f, out, Both(f, Near(f, h.deps), f.deps))
    BY <1>0, <1>3, <2>1, AddIs
  <2> QED BY <1>0, <1>3, <2>2
<1>11. UpBlock(t, w, sub) = Up(t, out, sub)
  <2>1. UpBlock(t, w, sub) = Add(Conv(LayerNorm(h), out), f)
    <3> HIDE DEF n
    <3> QED BY <1>0, <1>4, <1>5, <1>6, <1>7, <1>8 DEF UpBlock, Checked, Good
  <2> QED BY <1>0, <1>9, <1>10, <1>20, <2>1
<1>12. ASSUME Selected(t, sub) # <<>> PROVE GpuUpBlock(t, w, sub) = Up(t, out, sub)
  <2> DEFINE layout == GpuLayout(t, sub)
             sel == Selected(sub, sub)
             rows(u, ch) == [batch |-> t.batch, size |-> 2 * t.size, ch |-> ch,
                             coords |-> layout.coords,
                             deps |-> [m \in DOMAIN layout.gather |->
                                          u.deps[layout.gather[m] \div 8 + 1]]]
  <2>1. Selected(t, sub) = sel /\ SubdivisionFits(t, sub)
    BY <1>0, SubdivisionIs
  <2>2. sel \in Seq((DOMAIN sub.coords) \X (0..7))
    BY <1>0, SelectedIs
  <2>3. /\ DOMAIN sub.coords = 1..Len(t.coords) /\ Len(t.coords) \in Nat
        /\ \A m \in DOMAIN sel : /\ sel[m][1] \in DOMAIN t.coords /\ sel[m][2] \in 0..7
                                 /\ t.coords[sel[m][1]] \in Point
    <3>1. DOMAIN sub.coords = 1..Len(t.coords) /\ Len(t.coords) \in Nat
      BY <1>0, GoodIs
    <3>2. \A m \in DOMAIN sel : sel[m][1] \in DOMAIN t.coords /\ sel[m][2] \in 0..7
      BY <1>0, <2>2
    <3>3. \A m \in DOMAIN sel : t.coords[sel[m][1]] \in Point
      BY <1>0, <3>2, GoodIs
    <3> QED BY <1>0, <3>1, <3>2, <3>3
  <2>4. layout.ok
    <3>1. layout.ok = (/\ t.ch > 0 /\ t.ch % 8 = 0 /\ SubdivisionFits(t, sub)
                       /\ Selected(t, sub) # <<>>)
      BY DEF GpuLayout
    <3>2. t.ch > 0
      BY <1>0, <1>1
    <3> HIDE DEF layout, sel
    <3> QED BY <1>0, <1>4, <1>12, <2>1, <3>1, <3>2
  <2>5. /\ DOMAIN layout.gather = DOMAIN sel
        /\ \A m \in DOMAIN sel : layout.gather[m] = 8 * (sel[m][1] - 1) + sel[m][2]
    BY <1>0, <2>1 DEF GpuLayout
  <2>6. layout.coords = Children(sub)
    <3> DEFINE L == [m \in DOMAIN sel |->
                       LET c == t.coords[sel[m][1]]
                           k == GpuChild(sel[m][2])
                       IN  <<c[1], 2 * c[2] + k[1], 2 * c[3] + k[2], 2 * c[4] + k[3]>>]
    <3>1. layout.coords = L
      BY <1>0, <2>1 DEF GpuLayout
    <3>2. ASSUME NEW m \in DOMAIN sel PROVE L[m] = ChildOf(sub.coords[sel[m][1]], sel[m][2])
      <4> DEFINE c == t.coords[sel[m][1]]
                 k == sel[m][2]
                 g == GpuChild(k)
      <4>1. L[m] = <<c[1], 2 * c[2] + g[1], 2 * c[3] + g[2], 2 * c[4] + g[3]>>
        BY <1>0
      <4>2. c \in Point /\ k \in 0..7
        BY <1>0, <2>3
      <4> HIDE DEF c, k, L
      <4>3. <<c[1], 2 * c[2] + g[1], 2 * c[3] + g[2], 2 * c[4] + g[3]>> = ChildOf(c, k)
        BY <1>0, <4>2, GpuChildIs
      <4> QED BY <1>0, <4>1, <4>3 DEF c, k
    <3>3. L = [m \in DOMAIN sel |-> L[m]]
      BY <1>0
    <3> HIDE DEF L
    <3> QED BY <1>0, <3>1, <3>2, <3>3 DEF Children
  <2>7. ASSUME NEW m \in DOMAIN sel PROVE layout.gather[m] \div 8 + 1 = sel[m][1]
    <3> DEFINE i == sel[m][1]
               k == sel[m][2]
    <3>1. i \in Int /\ k \in 0..7 /\ layout.gather[m] = 8 * (i - 1) + k
      BY <1>0, <2>3, <2>5
    <3> HIDE DEF i, k
    <3>2. (8 * (i - 1) + k) \div 8 = i - 1
      BY <1>0, <3>1
    <3>3. layout.gather[m] \div 8 + 1 = i
      BY <1>0, <3>1, <3>2
    <3> QED BY <1>0, <3>3 DEF i
  <2> HIDE DEF layout, sel
  <2>8. \A u, ch : rows(u, ch) = Finer(t, sub, ch, u.deps)
    <3> TAKE u, ch
    <3>1. [m \in DOMAIN layout.gather |-> u.deps[layout.gather[m] \div 8 + 1]]
             = [m \in DOMAIN sel |-> u.deps[sel[m][1]]]
      BY <1>0, <2>5, <2>7
    <3> QED BY <1>0, <2>6, <3>1 DEF Finer, sel
  <2>9. rows(Conv(t, b8), out) = h /\ rows(t, out) = f
    <3>1. Conv(t, b8).deps = n
      BY <1>0, <1>5 DEF With
    <3> HIDE DEF rows
    <3> QED BY <1>0, <2>8, <3>1 DEF h, f
  <2>10. GpuUpBlock(t, w, sub) = Add(Conv(h, out), f)
    <3>1. GpuUpBlock(t, w, sub) =
            Checked(/\ w.kind = "c2s" /\ w.ch = t.ch /\ w.out > 0 /\ Valid(t)
                    /\ layout.ok /\ w.out % (t.ch \div 8) = 0,
                    Add(Conv(rows(Conv(t, 8 * w.out), w.out), w.out), rows(t, w.out)))
      BY DEF GpuUpBlock, layout
    <3> HIDE DEF rows, b8
    <3> QED BY <1>0, <1>4, <2>4, <2>9, <3>1 DEF Checked, Good
  <2> QED BY <1>0, <1>9, <1>10, <1>20, <2>10
<1> QED BY <1>0, <1>11, <1>12

-----------------------------------------------------------------------------
(* The weights of a decoder, level after level.                            *)

L == Len(Decoder["shape"].ch)

\* What the configuration of a decoder has to satisfy.
LEMMA DecoderIs ==
    ASSUME NEW stage \in Stages
    PROVE  /\ L \in Nat \ {0}
           /\ Len(Decoder[stage].ch) = L /\ DOMAIN Decoder[stage].ch = 1..L
           /\ \A l \in 1..L : /\ Decoder[stage].ch[l] \in Nat \ {0}
                              /\ Decoder[stage].blocks[l] \in Nat
           /\ \A l \in 1..L : l < L =>
                 /\ Decoder[stage].ch[l] % 8 = 0
                 /\ Decoder[stage].ch[l + 1] % (Decoder[stage].ch[l] \div 8) = 0
           /\ Decoder[stage].latent = Flow.latent /\ Decoder[stage].out \in Nat \ {0}
           /\ Decoder[stage].pred = (stage = "shape")
           /\ Decoder["shape"].out = 7
           /\ \A l \in 1..L : l < L => Foreseen[l] \subseteq SUBSET (0..7)
<1> DEFINE d == Decoder[stage]
<1>1. /\ d.ch \in Seq(Nat \ {0}) /\ d.ch # <<>> /\ d.blocks \in Seq(Nat)
      /\ Len(d.blocks) = Len(d.ch) /\ Len(d.ch) = L
      /\ \A l \in 1..Len(d.ch) - 1 : d.ch[l] % 8 = 0 /\ d.ch[l + 1] % (d.ch[l] \div 8) = 0
      /\ d.latent = Flow.latent /\ d.out \in Nat \ {0} /\ d.pred = (stage = "shape")
  BY StagesAssumption DEF DecoderAssumption, Stages, L
<1>2. Decoder["shape"].out = 7 /\ \A l \in 1..L - 1 : Foreseen[l] \subseteq SUBSET (0..7)
  BY StagesAssumption DEF DecoderAssumption, L
<1> HIDE DEF d
<1>3. L \in Nat \ {0} /\ DOMAIN d.ch = 1..L /\ DOMAIN d.blocks = 1..L
  BY <1>1
<1>4. \A l \in 1..L : d.ch[l] \in Nat \ {0} /\ d.blocks[l] \in Nat
  BY <1>1, <1>3
<1>5. \A l \in 1..L : l < L => l \in 1..L - 1
  BY <1>3
<1> QED BY <1>1, <1>2, <1>3, <1>4, <1>5 DEF d

ConvNext(d, l) == [kind |-> "convnext", ch |-> d.ch[l], out |-> d.ch[l]]
ToNext(d, l)   == [kind |-> "c2s", ch |-> d.ch[l], out |-> d.ch[l + 1]]

\* The blocks of each level; those of level l come after First(d, l) others.
Parts(d) ==
    [l \in DOMAIN d.ch |->
        [k \in 1..d.blocks[l] |-> ConvNext(d, l)]
        \o IF l < Len(d.ch) THEN <<ToNext(d, l)>> ELSE <<>>]
First(d, l) == Offset(Parts(d), l - 1)

\* A block finds its own weight, the step to the next level too, and a decoder
\* that goes through all levels has used every weight.
LEMMA WeightsAt ==
    ASSUME NEW stage \in Stages
    PROVE  LET d == Decoder[stage]
           IN  /\ First(d, 1) = 0
               /\ \A l \in 1..L : /\ First(d, l) \in Nat
                                  /\ \A k \in 1..d.blocks[l] :
                                        Weights(d)[First(d, l) + k] = ConvNext(d, l)
               /\ \A l \in 1..L : l < L =>
                     /\ Weights(d)[First(d, l) + d.blocks[l] + 1] = ToNext(d, l)
                     /\ First(d, l + 1) = First(d, l) + d.blocks[l] + 1
               /\ First(d, L) + d.blocks[L] = Len(Weights(d))
<1> DEFINE d == Decoder[stage]
           blk(l) == [k \in 1..d.blocks[l] |-> ConvNext(d, l)]
           step(l) == IF l < L THEN <<ToNext(d, l)>> ELSE <<>>
           X == {ConvNext(d, l) : l \in 1..L} \cup {ToNext(d, l) : l \in 1..L}
           s == Parts(d)
<1>1. /\ L \in Nat \ {0} /\ Len(d.ch) = L /\ DOMAIN d.ch = 1..L
      /\ \A l \in 1..L : d.blocks[l] \in Nat
  BY DecoderIs
<1>2. Weights(d) = FlattenSeq(s)
  BY DEF Weights, Parts, ConvNext, ToNext
<1>3. s = [l \in 1..L |-> blk(l) \o step(l)]
  <2> HIDE DEF d
  <2> QED BY <1>1 DEF Parts
<1> HIDE DEF d, s
<1>4. ASSUME NEW l \in 1..L
      PROVE  /\ s[l] \in Seq(X)
             /\ \A k \in 1..d.blocks[l] : s[l][k] = ConvNext(d, l)
             /\ l < L => Len(s[l]) = d.blocks[l] + 1 /\ s[l][d.blocks[l] + 1] = ToNext(d, l)
             /\ l = L => Len(s[l]) = d.blocks[l]
             /\ d.blocks[l] \in Nat
  <2> DEFINE n == d.blocks[l]
             a == ConvNext(d, l)
             b == ToNext(d, l)
  <2>1. n \in Nat /\ a \in X /\ b \in X /\ s[l] = [k \in 1..n |-> a] \o step(l)
    BY <1>1, <1>3
  <2> HIDE DEF n, X, a, b
  <2>2. [k \in 1..n |-> a] \in Seq(X) /\ Len([k \in 1..n |-> a]) = n
    BY <2>1
  <2>3. CASE l < L
    <3>1. step(l) = <<b>>
      BY <2>3 DEF b
    <3> HIDE DEF step
    <3>2. /\ s[l] \in Seq(X) /\ Len(s[l]) = n + 1 /\ s[l][n + 1] = b
          /\ \A k \in 1..n : s[l][k] = a
      BY <2>1, <2>2, <3>1
    <3> QED BY <2>1, <2>3, <3>2 DEF n, a, b
  <2>4. CASE l = L
    <3>1. step(l) = <<>>
      BY <2>4, <1>1
    <3> HIDE DEF step
    <3>2. s[l] \in Seq(X) /\ Len(s[l]) = n /\ \A k \in 1..n : s[l][k] = a
      BY <2>1, <2>2, <3>1
    <3>3. ~(l < L)
      BY <2>4, <1>1
    <3> QED BY <2>1, <2>4, <3>2, <3>3 DEF n, a, b
  <2> QED BY <1>1, <2>3, <2>4
<1>5. s \in Seq(Seq(X)) /\ Len(s) = L
  <2>1. s \in [1..L -> Seq(X)]
    <3>1. s = [l \in 1..L |-> s[l]]
      <4> HIDE DEF blk, step
      <4> QED BY <1>3
    <3> HIDE DEF X, s
    <3> QED BY <1>4, <3>1
  <2> HIDE DEF X
  <2> QED BY <1>1, <2>1
<1> HIDE DEF X, blk, step
<1>6. /\ Offset(s, 0) = 0 /\ Offset(s, L) = Len(FlattenSeq(s))
      /\ \A k \in 0..L : Offset(s, k) \in Nat
      /\ \A k \in 1..L :
            /\ Offset(s, k) = Offset(s, k - 1) + Len(s[k])
            /\ \A i \in 1..Len(s[k]) : FlattenSeq(s)[Offset(s, k - 1) + i] = s[k][i]
  BY <1>5, Flattened
<1>7. \A l \in 1..L : First(d, l) = Offset(s, l - 1) /\ First(d, l) \in Nat
  <2>1. \A l \in 1..L : l - 1 \in 0..L
    BY <1>1
  <2> QED BY <1>6, <2>1 DEF First, s
<1>8. First(d, 1) = 0
  <2>1. 1 \in 1..L /\ 1 - 1 = 0
    BY <1>1
  <2> QED BY <1>6, <1>7, <2>1
<1>9. ASSUME NEW l \in 1..L
      PROVE  /\ \A k \in 1..d.blocks[l] : Weights(d)[First(d, l) + k] = ConvNext(d, l)
             /\ l < L => /\ Weights(d)[First(d, l) + d.blocks[l] + 1] = ToNext(d, l)
                         /\ First(d, l + 1) = First(d, l) + d.blocks[l] + 1
  <2> DEFINE n == d.blocks[l]
  <2>1. n \in Nat /\ First(d, l) = Offset(s, l - 1) /\ First(d, l) \in Nat
    BY <1>4, <1>7
  <2>2. \A i \in 1..Len(s[l]) : Weights(d)[First(d, l) + i] = s[l][i]
    BY <1>2, <1>6, <2>1
  <2>3. Len(s[l]) \in {n, n + 1} /\ (l < L => Len(s[l]) = n + 1)
    BY <1>1, <1>4
  <2>4. \A k \in 1..n : Weights(d)[First(d, l) + k] = ConvNext(d, l)
    <3>1. \A k \in 1..n : s[l][k] = ConvNext(d, l)
      BY <1>4
    <3> HIDE DEF n
    <3>2. \A k \in 1..n : k \in 1..Len(s[l])
      BY <2>1, <2>3
    <3> QED BY <2>2, <3>1, <3>2
  <2>5. ASSUME l < L
        PROVE  /\ Weights(d)[First(d, l) + n + 1] = ToNext(d, l)
               /\ First(d, l + 1) = First(d, l) + n + 1
    <3>1. Len(s[l]) = n + 1 /\ s[l][n + 1] = ToNext(d, l)
      BY <1>4, <2>5
    <3>2. l + 1 \in 1..L /\ l + 1 - 1 = l
      BY <1>1, <2>5
    <3>3. First(d, l + 1) = Offset(s, l)
      BY <1>7, <3>2
    <3>4. Offset(s, l) = Offset(s, l - 1) + Len(s[l])
      BY <1>6
    <3> HIDE DEF n
    <3>5. n + 1 \in 1..Len(s[l]) /\ First(d, l) + (n + 1) = First(d, l) + n + 1
      BY <2>1, <3>1
    <3>6. First(d, l + 1) = First(d, l) + n + 1
      BY <2>1, <3>1, <3>3, <3>4, <3>5
    <3>7. Weights(d)[First(d, l) + (n + 1)] = ToNext(d, l)
      BY <2>2, <3>1, <3>5
    <3> QED BY <3>5, <3>6, <3>7
  <2> QED BY <2>4, <2>5
<1>10. First(d, L) + d.blocks[L] = Len(Weights(d))
  <2>1. L \in 1..L
    BY <1>1
  <2>2. Len(s[L]) = d.blocks[L]
    BY <1>4, <2>1
  <2>3. Offset(s, L) = Offset(s, L - 1) + Len(s[L])
    BY <1>6, <2>1
  <2> QED BY <1>2, <1>6, <1>7, <2>1, <2>2, <2>3
<1> QED BY <1>7, <1>8, <1>9, <1>10 DEF d

-----------------------------------------------------------------------------
(* The inductive invariant.                                                *)

Engines == {"cpu", "hybrid", "first"}

\* The size of the tensors of each level, for the points inp.
SizeAt(inp) == CHOOSE s \in [1..L -> 1..Decoder["shape"].res] : Doubles(inp, s)

\* A tensor of the behaviour on inp, each row of its own batch.
OfInput(inp, t, ch, size) ==
    /\ Good(t) /\ Own(t, t.deps)
    /\ t.batch = inp.batch /\ t.ch = ch /\ t.size = size

\* Everything, of the points inp.
AllOf(inp, b, stage) ==
    (UNION {Given(inp, w, stage)[i] : w \in {"noise", "proj"}, i \in Of(inp, b)})
        \cup {<<"token", b, j>> : j \in 1..Context[b]} \cup {<<"time", b>>}

\* A row has seen its own noise at the start of a flow, the noise, the tokens
\* and the time of its batch after a block, and everything after two.
Heard(inp, d, stage, n) ==
    \A i \in DOMAIN inp.coords : LET b == inp.coords[i][1] IN
        /\ Given(inp, "noise", stage)[i] \subseteq d[i]
        /\ n >= 1 => /\ \A j \in Of(inp, b) : Given(inp, "noise", stage)[j] \subseteq d[i]
                     /\ \A j \in 1..Context[b] : <<"token", b, j>> \in d[i]
                     /\ <<"time", b>> \in d[i]
                     /\ Given(inp, "proj", stage)[i] \subseteq d[i]
        /\ n >= 2 => AllOf(inp, b, stage) \subseteq d[i]

\* The points of level l, when the levels before were subdivided by subs.
PointsOf(inp, subs, l) == IF l = 1 THEN inp.coords ELSE Children(subs[l - 1])

Chain(inp, subs) ==
    /\ Len(subs) \in Nat /\ subs = [l \in 1..Len(subs) |-> subs[l]]
    /\ \A l \in 1..Len(subs) :
          /\ Subdivision(subs[l]) /\ subs[l].batch = inp.batch
          /\ subs[l].size = SizeAt(inp)[l] /\ subs[l].coords = PointsOf(inp, subs, l)

\* What an engine is known to predict includes the subdivisions subs.
Agrees(known, subs) ==
    \A l \in 1..Len(subs) : \A i \in DOMAIN subs[l].coords :
        /\ <<l, subs[l].coords[i]>> \in DOMAIN known
        /\ known[<<l, subs[l].coords[i]>>] = subs[l].kids[i]

\* The results, field by field.
Results(d) ==
    d = [latents |-> [s \in Stages |-> d.latents[s]],
         decoded |-> [s \in Stages |-> d.decoded[s]],
         subs |-> d.subs, coords |-> d.coords, by |-> d.by, up |-> d.up, mesh |-> d.mesh]

Control ==
    /\ input \in Inputs /\ mode \in Engines
    /\ pc \in {"idle", "flow", "decode", "failed"}
    /\ OnlyNumbersFail
    /\ hidden # Bad => Good(hidden) /\ Own(hidden, hidden.deps)
    /\ chose = [cpu |-> chose["cpu"], gpu |-> chose["gpu"]]
    /\ Results(done)

Latents ==
    \A s \in Stages : done.latents[s] # Bad =>
        /\ OfInput(input, done.latents[s], Flow.latent, input.size)
        /\ done.latents[s].coords = input.coords
        /\ Heard(input, done.latents[s].deps, s, 2)

\* Nothing comes before the decoded shape that depends on it.
Undecoded ==
    done.decoded["shape"] = Bad =>
        /\ done.subs = <<>> /\ done.coords = <<>> /\ done.up = None /\ done.mesh = None
        /\ done.latents["texture"] = Bad /\ done.decoded["texture"] = Bad

Decoded ==
    done.decoded["shape"] # Bad =>
        /\ done.latents["shape"] # Bad
        /\ done.by \in Engines /\ Chain(input, done.subs) /\ Len(done.subs) = L - 1
        /\ done.coords = [l \in 1..L |-> PointsOf(input, done.subs, l)]
        /\ \A s \in Stages : done.decoded[s] # Bad =>
              /\ OfInput(input, done.decoded[s], Decoder[s].out, SizeAt(input)[L])
              /\ done.decoded[s].coords = PointsOf(input, done.subs, L)
        /\ UpsampledLikeDecoded
        /\ pc \in {"idle", "decode"} /\ done.latents["texture"] = Bad =>
              Agrees(chose[Kind(done.by)], done.subs)

Flowing ==
    pc = "flow" =>
        /\ call.stage \in Stages
        /\ done.latents[call.stage] = Bad
        /\ call.stage = "texture" => done.decoded["shape"] # Bad
        /\ OfInput(input, hidden, Flow.cfg.ch, input.size) /\ hidden.coords = input.coords
        /\ block \in 0..Flow.blocks /\ Heard(input, hidden.deps, call.stage, block)

Decoding ==
    pc = "decode" =>
        /\ call \in Calls /\ engine \in Engines
        /\ done.latents[call.stage] # Bad
        /\ level \in 1..L /\ block \in 0..Hp.blocks[level] /\ at = First(Hp, level) + block
        /\ OfInput(input, hidden, Hp.ch[level], SizeAt(input)[level])
        /\ call.kind = "decode" /\ call.stage = "shape" =>
              /\ done.decoded["shape"] = Bad
              /\ Chain(input, preds) /\ Len(preds) = level - 1
              /\ hidden.coords = PointsOf(input, preds, level)
              /\ Agrees(chose[Kind(engine)], preds)
        /\ call.kind = "decode" /\ call.stage = "texture" =>
              /\ done.decoded["shape"] # Bad
              /\ hidden.coords = PointsOf(input, done.subs, level)
        /\ call.kind = "upsample" =>
              /\ done.decoded["shape"] # Bad /\ done.latents["texture"] = Bad
              /\ level <= call.last
              /\ Kind(engine) = Kind(done.by) => hidden.coords = PointsOf(input, done.subs, level)

IInv == Control /\ Latents /\ Undecoded /\ Decoded /\ Flowing /\ Decoding /\ QuadsCovered

-----------------------------------------------------------------------------
(* What the steps use.                                                     *)

\* No tensor of the cascade stands for a failure.
LEMMA NoneIsBad ==
    /\ \A t : Good(t) => t # Bad
    /\ Bad.coords = <<>> /\ Bad.deps = <<>>
<1>1. ASSUME NEW t, Good(t) PROVE t # Bad
  <2>1. t.batch # 0
    BY <1>1, GoodIs
  <2> QED BY <2>1 DEF Bad
<1> QED BY <1>1 DEF Bad

\* Sizes double from level to level, up to the resolution at most.
LEMMA SizesAre ==
    ASSUME NEW inp \in Inputs
    PROVE  /\ SizeAt(inp)[1] = inp.size
           /\ \A l \in 1..L : SizeAt(inp)[l] \in 1..Decoder["shape"].res
           /\ \A l \in 1..L : l < L => SizeAt(inp)[l + 1] = 2 * SizeAt(inp)[l]
<1> DEFINE R == 1..Decoder["shape"].res
           s == SizeAt(inp)
<1>1. \E x \in [1..L -> R] : Doubles(inp, x)
  <2>1. \E x \in [DOMAIN Decoder["shape"].ch -> 1..Decoder["shape"].res] : Doubles(inp, x)
    BY StagesAssumption DEF DecoderAssumption
  <2>2. DOMAIN Decoder["shape"].ch = 1..L
    BY DecoderIs DEF Stages
  <2> QED BY <2>1, <2>2
<1> HIDE DEF R
<1>2. s \in [1..L -> R] /\ Doubles(inp, s)
  BY <1>1 DEF SizeAt, R
<1> HIDE DEF s
<1>3. s[1] = inp.size /\ \A l \in 1..L - 1 : s[l + 1] = 2 * s[l]
  BY <1>2 DEF Doubles, L
<1>4. \A l \in 1..L : l < L => l \in 1..L - 1
  <2>1. L \in Nat
    BY DecoderIs DEF Stages
  <2> QED BY <2>1
<1> QED BY <1>2, <1>3, <1>4 DEF s, R

\* A result is put down.
PutLatent(d, s, x)  == [d EXCEPT !.latents[s] = x]
PutDecoded(d, s, x) == [d EXCEPT !.decoded[s] = x]
PutUp(d, x)         == [d EXCEPT !.up = x]
PutMesh(d, x)       == [d EXCEPT !.mesh = x]

Fields(lats, decs, subs, coords, by, up, mesh) ==
    [latents |-> lats, decoded |-> decs, subs |-> subs, coords |-> coords, by |-> by,
     up |-> up, mesh |-> mesh]

\* The results one by one, and what replacing one of them leaves.
LEMMA FieldsAre ==
    ASSUME NEW l, NEW c, NEW s, NEW o, NEW b, NEW u, NEW m
    PROVE  LET r == Fields(l, c, s, o, b, u, m)
           IN  /\ r.latents = l /\ r.decoded = c /\ r.subs = s /\ r.coords = o /\ r.by = b
               /\ r.up = u /\ r.mesh = m
               /\ \A x : /\ PutUp(r, x) = Fields(l, c, s, o, b, x, m)
                         /\ PutMesh(r, x) = Fields(l, c, s, o, b, u, x)
               /\ \A y, x : /\ PutLatent(r, y, x) = Fields([l EXCEPT ![y] = x], c, s, o, b, u, m)
                            /\ PutDecoded(r, y, x) = Fields(l, [c EXCEPT ![y] = x], s, o, b, u, m)
BY DEF Fields, PutUp, PutMesh, PutLatent, PutDecoded

\* Results are their fields.
LEMMA ResultsAre ==
    \A d : Results(d) <=>
        /\ d = Fields(d.latents, d.decoded, d.subs, d.coords, d.by, d.up, d.mesh)
        /\ d.latents = [s \in Stages |-> d.latents[s]]
        /\ d.decoded = [s \in Stages |-> d.decoded[s]]
<1>1. ASSUME NEW d, Results(d)
      PROVE  /\ d = Fields(d.latents, d.decoded, d.subs, d.coords, d.by, d.up, d.mesh)
             /\ d.latents = [s \in Stages |-> d.latents[s]]
             /\ d.decoded = [s \in Stages |-> d.decoded[s]]
  <2> DEFINE a == [s \in Stages |-> d.latents[s]]
             c == [s \in Stages |-> d.decoded[s]]
  <2>1. d = Fields(a, c, d.subs, d.coords, d.by, d.up, d.mesh)
    BY <1>1 DEF Results, Fields
  <2>2. a = [s \in Stages |-> a[s]] /\ c = [s \in Stages |-> c[s]]
    OBVIOUS
  <2> HIDE DEF a, c
  <2>3. d.latents = a /\ d.decoded = c
    BY <2>1, FieldsAre
  <2> QED BY <2>1, <2>2, <2>3
<1>2. ASSUME NEW d,
             d = Fields(d.latents, d.decoded, d.subs, d.coords, d.by, d.up, d.mesh),
             d.latents = [s \in Stages |-> d.latents[s]],
             d.decoded = [s \in Stages |-> d.decoded[s]]
      PROVE  Results(d)
  BY <1>2 DEF Results, Fields
<1> QED BY <1>1, <1>2

\* Replacing the upsampled coordinates leaves the other results.
LEMMA PutUpIs ==
    ASSUME NEW d, Results(d), NEW x
    PROVE  /\ Results(PutUp(d, x)) /\ PutUp(d, x).up = x
           /\ PutUp(d, x).latents = d.latents /\ PutUp(d, x).decoded = d.decoded
           /\ PutUp(d, x).subs = d.subs /\ PutUp(d, x).coords = d.coords
           /\ PutUp(d, x).by = d.by /\ PutUp(d, x).mesh = d.mesh
<1> DEFINE f == Fields(d.latents, d.decoded, d.subs, d.coords, d.by, x, d.mesh)
<1>1. PutUp(d, x) = f
  <2> DEFINE g == Fields(d.latents, d.decoded, d.subs, d.coords, d.by, d.up, d.mesh)
  <2>1. PutUp(g, x) = f
    BY FieldsAre
  <2>2. d = g
    BY ResultsAre
  <2> HIDE DEF g, f
  <2> QED BY <2>1, <2>2
<1>2. /\ f.latents = d.latents /\ f.decoded = d.decoded /\ f.subs = d.subs
      /\ f.coords = d.coords /\ f.by = d.by /\ f.up = x /\ f.mesh = d.mesh
  BY FieldsAre
<1>3. f = Fields(f.latents, f.decoded, f.subs, f.coords, f.by, f.up, f.mesh)
  <2>1. f = Fields(d.latents, d.decoded, d.subs, d.coords, d.by, x, d.mesh)
    OBVIOUS
  <2> HIDE DEF f
  <2> QED BY <1>2, <2>1
<1> HIDE DEF f
<1>4. Results(f)
  BY <1>2, <1>3, ResultsAre
<1> QED BY <1>1, <1>2, <1>4

\* Replacing the mesh leaves the other results.
LEMMA PutMeshIs ==
    ASSUME NEW d, Results(d), NEW x
    PROVE  /\ Results(PutMesh(d, x)) /\ PutMesh(d, x).mesh = x
           /\ PutMesh(d, x).latents = d.latents /\ PutMesh(d, x).decoded = d.decoded
           /\ PutMesh(d, x).subs = d.subs /\ PutMesh(d, x).coords = d.coords
           /\ PutMesh(d, x).by = d.by /\ PutMesh(d, x).up = d.up
<1> DEFINE f == Fields(d.latents, d.decoded, d.subs, d.coords, d.by, d.up, x)
<1>1. PutMesh(d, x) = f
  <2> DEFINE g == Fields(d.latents, d.decoded, d.subs, d.coords, d.by, d.up, d.mesh)
  <2>1. PutMesh(g, x) = f
    BY FieldsAre
  <2>2. d = g
    BY ResultsAre
  <2> HIDE DEF g, f
  <2> QED BY <2>1, <2>2
<1>2. /\ f.latents = d.latents /\ f.decoded = d.decoded /\ f.subs = d.subs
      /\ f.coords = d.coords /\ f.by = d.by /\ f.up = d.up /\ f.mesh = x
  BY FieldsAre
<1>3. f = Fields(f.latents, f.decoded, f.subs, f.coords, f.by, f.up, f.mesh)
  <2>1. f = Fields(d.latents, d.decoded, d.subs, d.coords, d.by, d.up, x)
    OBVIOUS
  <2> HIDE DEF f
  <2> QED BY <1>2, <2>1
<1> HIDE DEF f
<1>4. Results(f)
  BY <1>2, <1>3, ResultsAre
<1> QED BY <1>1, <1>2, <1>4

\* Replacing the latents of a stage leaves the other results.
LEMMA PutLatentIs ==
    ASSUME NEW d, Results(d), NEW s \in Stages, NEW x
    PROVE  /\ Results(PutLatent(d, s, x)) /\ PutLatent(d, s, x).latents[s] = x
           /\ \A r \in Stages : r # s => PutLatent(d, s, x).latents[r] = d.latents[r]
           /\ PutLatent(d, s, x).decoded = d.decoded /\ PutLatent(d, s, x).subs = d.subs
           /\ PutLatent(d, s, x).coords = d.coords /\ PutLatent(d, s, x).by = d.by
           /\ PutLatent(d, s, x).up = d.up /\ PutLatent(d, s, x).mesh = d.mesh
<1> DEFINE a == [d.latents EXCEPT ![s] = x]
           f == Fields(a, d.decoded, d.subs, d.coords, d.by, d.up, d.mesh)
<1>1. PutLatent(d, s, x) = f
  <2> DEFINE g == Fields(d.latents, d.decoded, d.subs, d.coords, d.by, d.up, d.mesh)
  <2>1. PutLatent(g, s, x) = f
    BY DEF Fields, PutLatent
  <2>2. d = g
    BY ResultsAre
  <2> HIDE DEF g, f
  <2> QED BY <2>1, <2>2
<1>0. /\ a = [r \in Stages |-> a[r]] /\ a[s] = x
      /\ \A r \in Stages : r # s => a[r] = d.latents[r]
  <2>1. d.latents = [r \in Stages |-> d.latents[r]]
    BY ResultsAre
  <2> QED BY <2>1
<1> HIDE DEF a
<1>2. /\ f.latents = a /\ f.decoded = d.decoded /\ f.subs = d.subs
      /\ f.coords = d.coords /\ f.by = d.by /\ f.up = d.up /\ f.mesh = d.mesh
  BY FieldsAre
<1>3. f = Fields(f.latents, f.decoded, f.subs, f.coords, f.by, f.up, f.mesh)
  <2>1. f = Fields(a, d.decoded, d.subs, d.coords, d.by, d.up, d.mesh)
    OBVIOUS
  <2> HIDE DEF f
  <2> QED BY <1>2, <2>1
<1> HIDE DEF f
<1>4. Results(f)
  BY <1>0, <1>2, <1>3, ResultsAre
<1> QED BY <1>0, <1>1, <1>2, <1>4

\* Replacing the decoded tensor of a stage leaves the other results.
LEMMA PutDecodedIs ==
    ASSUME NEW d, Results(d), NEW s \in Stages, NEW x
    PROVE  /\ Results(PutDecoded(d, s, x)) /\ PutDecoded(d, s, x).decoded[s] = x
           /\ \A r \in Stages : r # s => PutDecoded(d, s, x).decoded[r] = d.decoded[r]
           /\ PutDecoded(d, s, x).latents = d.latents /\ PutDecoded(d, s, x).subs = d.subs
           /\ PutDecoded(d, s, x).coords = d.coords /\ PutDecoded(d, s, x).by = d.by
           /\ PutDecoded(d, s, x).up = d.up /\ PutDecoded(d, s, x).mesh = d.mesh
<1> DEFINE a == [d.decoded EXCEPT ![s] = x]
           f == Fields(d.latents, a, d.subs, d.coords, d.by, d.up, d.mesh)
<1>1. PutDecoded(d, s, x) = f
  <2> DEFINE g == Fields(d.latents, d.decoded, d.subs, d.coords, d.by, d.up, d.mesh)
  <2>1. PutDecoded(g, s, x) = f
    BY DEF Fields, PutDecoded
  <2>2. d = g
    BY ResultsAre
  <2> HIDE DEF g, f
  <2> QED BY <2>1, <2>2
<1>0. /\ a = [r \in Stages |-> a[r]] /\ a[s] = x
      /\ \A r \in Stages : r # s => a[r] = d.decoded[r]
  <2>1. d.decoded = [r \in Stages |-> d.decoded[r]]
    BY ResultsAre
  <2> QED BY <2>1
<1> HIDE DEF a
<1>2. /\ f.latents = d.latents /\ f.decoded = a /\ f.subs = d.subs
      /\ f.coords = d.coords /\ f.by = d.by /\ f.up = d.up /\ f.mesh = d.mesh
  BY FieldsAre
<1>3. f = Fields(f.latents, f.decoded, f.subs, f.coords, f.by, f.up, f.mesh)
  <2>1. f = Fields(d.latents, a, d.subs, d.coords, d.by, d.up, d.mesh)
    OBVIOUS
  <2> HIDE DEF f
  <2> QED BY <1>2, <2>1
<1> HIDE DEF f
<1>4. Results(f)
  BY <1>0, <1>2, <1>3, ResultsAre
<1> QED BY <1>0, <1>1, <1>2, <1>4

\* Tensors on the same points differ by channels and by what they are from.
LEMMA OnSamePoints ==
    ASSUME NEW t, Good(t), NEW u, Good(u), t.coords = u.coords, t.batch = u.batch,
           t.size = u.size
    PROVE  t = With(u, t.ch, t.deps) /\ ForRows(u, t.deps)
BY GoodIs DEF With, ForRows

-----------------------------------------------------------------------------
(* The steps of a flow.                                                    *)

\* What the configuration of a flow has to satisfy.
LEMMA FlowIs ==
    /\ Flow.cfg.ch \in Nat \ {0} /\ Flow.cfg.heads \in Nat \ {0}
    /\ Flow.cfg.hidden \in Nat \ {0} /\ Flow.cfg.proj \in Nat \ {0}
    /\ Flow.cfg.ch % Flow.cfg.heads = 0
    /\ Flow.cfg.ch \div Flow.cfg.heads \in Nat \ {0}
    /\ (Flow.cfg.ch \div Flow.cfg.heads) % 2 = 0
    /\ Flow.blocks \in Nat \ {0, 1} /\ Flow.latent \in Nat \ {0}
    /\ Flow.ins["shape"] = Flow.latent /\ Flow.ins["texture"] = 2 * Flow.latent
<1> DEFINE ch == Flow.cfg.ch
           heads == Flow.cfg.heads
<1>1. ch \in Nat \ {0} /\ heads \in Nat \ {0} /\ ch % heads = 0
  BY StagesAssumption DEF FlowAssumption
<1> HIDE DEF ch, heads
<1>2. ch \div heads \in Nat \ {0}
  BY <1>1
<1> QED BY <1>1, <1>2, StagesAssumption DEF FlowAssumption, ch, heads

\* What a flow starts with is accepted, and each row has its own noise.
LEMMA ModelIs ==
    ASSUME IInv, NEW stage \in Stages, stage = "texture" => done.latents["shape"] # Bad
    PROVE  /\ FlowFits(ModelInput(stage), stage)
           /\ \E d : /\ ForRows(input, d) /\ Own(input, d) /\ Heard(input, d, stage, 0)
                     /\ Linear(ModelInput(stage), Flow.cfg.ch) = With(input, Flow.cfg.ch, d)
<1> DEFINE g == Given(input, "noise", stage)
           l == done.latents["shape"].deps
           m == ModelInput(stage)
           c == Flow.latent
<1>1. input \in Inputs /\ Good(input) /\ ForRows(input, g) /\ Own(input, g) /\ c \in Nat \ {0}
      /\ RowsOf("noise", stage, c) = With(input, c, g)
  BY InputIs, RowsOfIs, FlowIs DEF IInv, Control
<1> HIDE DEF g, c
<1>2. \E d : /\ ForRows(input, d) /\ Own(input, d) /\ \A i \in DOMAIN input.coords : g[i] \subseteq d[i]
             /\ m = With(input, Flow.ins[stage], d) /\ Flow.ins[stage] \in Nat \ {0}
  <2>1. CASE stage = "texture"
    <3> DEFINE t == done.latents["shape"]
    <3>1. /\ Good(t) /\ Own(t, t.deps) /\ t.batch = input.batch /\ t.ch = c
          /\ t.size = input.size /\ t.coords = input.coords
      BY <2>1 DEF IInv, Latents, OfInput, Stages, c
    <3>2. m = Concat(With(input, c, g), t)
      BY <1>1, <2>1 DEF ModelInput, c
    <3> HIDE DEF t, m
    <3>3. t = With(input, c, t.deps) /\ ForRows(input, t.deps) /\ Own(input, t.deps)
      BY <1>1, <3>1, OnSamePoints DEF Own
    <3>4. Concat(With(input, c, g), With(input, c, t.deps))
            = With(input, c + c, Both(input, g, t.deps))
      BY <1>1, <3>3, AddIs
    <3>5. Flow.ins[stage] = c + c /\ c + c \in Nat \ {0}
      BY <1>1, <2>1, FlowIs DEF c
    <3>6. /\ ForRows(input, Both(input, g, t.deps))
          /\ \A i \in DOMAIN input.coords : g[i] \subseteq Both(input, g, t.deps)[i]
      BY DEF ForRows, Both
    <3>7. Own(input, Both(input, g, t.deps))
      BY <1>1, <3>3 DEF Own, Both
    <3> QED BY <3>2, <3>3, <3>4, <3>5, <3>6, <3>7
  <2>2. CASE stage = "shape"
    <3>1. m = With(input, c, g)
      BY <1>1, <2>2 DEF ModelInput, c
    <3>2. Flow.ins[stage] = c
      BY <2>2, FlowIs DEF c
    <3> QED BY <1>1, <3>1, <3>2
  <2> QED BY <2>1, <2>2 DEF Stages
<1>3. PICK d : /\ ForRows(input, d) /\ Own(input, d)
               /\ \A i \in DOMAIN input.coords : g[i] \subseteq d[i]
               /\ m = With(input, Flow.ins[stage], d) /\ Flow.ins[stage] \in Nat \ {0}
  BY <1>2
<1> HIDE DEF m
<1>4. /\ Valid(m) /\ m.ch = Flow.ins[stage] /\ m.batch = input.batch /\ m.coords = input.coords
      /\ Linear(m, Flow.cfg.ch) = With(input, Flow.cfg.ch, d)
  BY <1>1, <1>3, RowOps, FlowIs
<1>5. VarLenValid(GlobalContext) /\ GlobalContext.batch = input.batch
  BY <1>1, ContextIs
<1>6. LET proj == RowsOf("proj", stage, Flow.cfg.proj)
      IN  Valid(proj) /\ proj.coords = input.coords /\ proj.batch = input.batch
  <2> DEFINE p == Given(input, "proj", stage)
  <2>1. RowsOf("proj", stage, Flow.cfg.proj) = With(input, Flow.cfg.proj, p) /\ ForRows(input, p)
    BY <1>1, RowsOfIs
  <2> HIDE DEF p
  <2>2. /\ Valid(With(input, Flow.cfg.proj, p))
        /\ With(input, Flow.cfg.proj, p).coords = input.coords
        /\ With(input, Flow.cfg.proj, p).batch = input.batch
    BY <1>1, <2>1, RowOps, FlowIs
  <2> QED BY <2>1, <2>2
<1>7. FlowFits(m, stage)
  BY <1>4, <1>5, <1>6 DEF FlowFits, SameCoords
<1>8. Heard(input, d, stage, 0)
  BY <1>3 DEF Heard, g
<1> QED BY <1>3, <1>4, <1>7, <1>8 DEF m

\* A flow begins with tensors that fit, and its own rows only.
LEMMA FlowBeginKeeps ==
    ASSUME IInv, NEW stage \in Stages, FlowBegin(stage)
    PROVE  IInv'
<1>1. /\ pc = "idle" /\ done.latents[stage] = Bad
      /\ stage = "texture" => done.decoded["shape"] # Bad
      /\ chose' = Nothing /\ input' = input /\ mode' = mode
  BY DEF FlowBegin
<1>2. stage = "texture" => done.latents["shape"] # Bad
  BY <1>1 DEF IInv, Decoded
<1>3. FlowFits(ModelInput(stage), stage)
  BY <1>2, ModelIs
<1>4. PICK d : /\ ForRows(input, d) /\ Own(input, d) /\ Heard(input, d, stage, 0)
               /\ Linear(ModelInput(stage), Flow.cfg.ch) = With(input, Flow.cfg.ch, d)
  BY <1>2, ModelIs
<1>5. /\ hidden' = With(input, Flow.cfg.ch, d) /\ block' = 0 /\ pc' = "flow" /\ why' = "none"
      /\ call' = [kind |-> "flow", stage |-> stage]
      /\ done' = [done EXCEPT !.up = None, !.mesh = None]
  BY <1>3, <1>4 DEF FlowBegin
<1>6. /\ Good(hidden') /\ hidden'.ch = Flow.cfg.ch /\ hidden'.deps = d
      /\ hidden'.coords = input.coords /\ hidden'.batch = input.batch
      /\ hidden'.size = input.size
  <2>1. Good(input)
    BY InputIs DEF IInv, Control
  <2> QED BY <1>4, <1>5, <2>1, FlowIs, WithIsGood
<1>7. /\ Results(done') /\ done'.up = None /\ done'.mesh = None
      /\ done'.latents = done.latents /\ done'.decoded = done.decoded
      /\ done'.subs = done.subs /\ done'.coords = done.coords /\ done'.by = done.by
  <2> DEFINE e == PutUp(done, None)
             f == PutMesh(e, None)
  <2>1. done' = f
    <3>1. [done EXCEPT !.up = None, !.mesh = None] = [[done EXCEPT !.up = None] EXCEPT !.mesh = None]
      OBVIOUS
    <3> QED BY <1>5, <3>1 DEF PutUp, PutMesh
  <2>2. Results(done)
    BY DEF IInv, Control
  <2>3. /\ Results(e) /\ e.up = None /\ e.latents = done.latents /\ e.decoded = done.decoded
        /\ e.subs = done.subs /\ e.coords = done.coords /\ e.by = done.by
    BY <2>2, PutUpIs
  <2> HIDE DEF e
  <2>4. /\ Results(f) /\ f.mesh = None /\ f.latents = e.latents /\ f.decoded = e.decoded
        /\ f.subs = e.subs /\ f.coords = e.coords /\ f.by = e.by /\ f.up = e.up
    BY <2>3, PutMeshIs
  <2> HIDE DEF f
  <2> QED BY <2>1, <2>3, <2>4
<1>8. Own(input, hidden'.deps) /\ Own(hidden', hidden'.deps)
  BY <1>4, <1>6 DEF Own
<1>9. Control'
  <2>1. chose' = [cpu |-> chose'["cpu"], gpu |-> chose'["gpu"]]
    BY <1>1 DEF Nothing
  <2> QED BY <1>1, <1>5, <1>6, <1>7, <1>8, <2>1 DEF IInv, Control, OnlyNumbersFail
<1>10. Latents'
  BY <1>1, <1>7 DEF IInv, Latents
<1>11. Undecoded'
  BY <1>1, <1>7 DEF IInv, Undecoded
<1>12. Decoded'
  BY <1>1, <1>5, <1>7 DEF IInv, Decoded, UpsampledLikeDecoded
<1>13. Flowing'
  <2>1. call'.stage = stage
    BY <1>5
  <2>2. 0 \in 0..Flow.blocks
    BY FlowIs
  <2> QED BY <1>1, <1>4, <1>5, <1>6, <1>7, <1>8, <2>1, <2>2 DEF Flowing, OfInput
<1>14. Decoding' /\ QuadsCovered'
  BY <1>5, <1>7 DEF Decoding, QuadsCovered
<1> QED BY <1>9, <1>10, <1>11, <1>12, <1>13, <1>14 DEF IInv

\* What a block hears of is what its rows heard of, and its own batch.
LEMMA HeardMore ==
    ASSUME input \in Inputs, NEW stage \in Stages, NEW n \in Nat, NEW d, ForRows(input, d),
           Heard(input, d, stage, n)
    PROVE  Heard(input, BlockDeps(input, d, GlobalContext, Given(input, "proj", stage)), stage,
                 n + 1)
<1> DEFINE v == GlobalContext
           p == Given(input, "proj", stage)
           g == Given(input, "noise", stage)
           D == BlockDeps(input, d, v, p)
<1>1. Good(input) /\ ForRows(input, p)
  BY InputIs, RowsOfIs
<1>2. \A b \in 0..input.batch - 1 : \A j \in 1..Context[b] :
         \E k \in Tokens(v, b) : v.deps[k] = {<<"token", b, j>>}
  BY ContextIs
<1> HIDE DEF v, p
<1>3. \A i \in DOMAIN input.coords :
         /\ d[i] \subseteq D[i] /\ p[i] \subseteq D[i]
         /\ <<"time", input.coords[i][1]>> \in D[i]
         /\ \A j \in Of(input, input.coords[i][1]) : d[j] \subseteq D[i]
         /\ \A j \in Tokens(v, input.coords[i][1]) : v.deps[j] \subseteq D[i]
  BY <1>1, BlockSees
<1> HIDE DEF D, g
<1>4. ASSUME NEW i \in DOMAIN input.coords, NEW b, b = input.coords[i][1]
      PROVE  /\ g[i] \subseteq D[i] /\ p[i] \subseteq D[i] /\ <<"time", b>> \in D[i]
             /\ \A j \in Of(input, b) : g[j] \subseteq D[i]
             /\ \A j \in 1..Context[b] : <<"token", b, j>> \in D[i]
             /\ n + 1 >= 2 => AllOf(input, b, stage) \subseteq D[i]
  <2>1. b \in 0..input.batch - 1
    BY <1>1, <1>4, GoodIs
  <2>2. \A j \in Of(input, b) : j \in DOMAIN input.coords /\ input.coords[j][1] = b
    BY DEF Of
  <2>3. \A j \in DOMAIN input.coords : g[j] \subseteq d[j]
    BY DEF Heard, g
  <2>4. /\ \A j \in Of(input, b) : d[j] \subseteq D[i]
        /\ \A k \in Tokens(v, b) : v.deps[k] \subseteq D[i]
        /\ p[i] \subseteq D[i] /\ <<"time", b>> \in D[i] /\ d[i] \subseteq D[i]
    BY <1>3, <1>4
  <2>5. \A j \in Of(input, b) : g[j] \subseteq D[i]
    BY <2>2, <2>3, <2>4
  <2>6. \A j \in 1..Context[b] : <<"token", b, j>> \in D[i]
    <3> TAKE j \in 1..Context[b]
    <3>1. PICK k \in Tokens(v, b) : v.deps[k] = {<<"token", b, j>>}
      BY <1>2, <2>1
    <3> QED BY <2>4, <3>1
  <2>7. ASSUME n + 1 >= 2 PROVE AllOf(input, b, stage) \subseteq D[i]
    <3>1. n >= 1
      BY <2>7
    <3>2. \A j \in Of(input, b) : p[j] \subseteq d[j]
      BY <2>2, <3>1 DEF Heard, p
    <3>3. \A j \in Of(input, b) : p[j] \subseteq D[i]
      BY <2>4, <3>2
    <3>4. \A j \in Of(input, b) : Given(input, "noise", stage)[j] \subseteq D[i]
      BY <2>5 DEF g
    <3>5. \A j \in Of(input, b) : Given(input, "proj", stage)[j] \subseteq D[i]
      BY <3>3 DEF p
    <3>6. UNION {Given(input, w, stage)[j] : w \in {"noise", "proj"}, j \in Of(input, b)}
            \subseteq D[i]
      BY <3>4, <3>5
    <3>7. {<<"token", b, j>> : j \in 1..Context[b]} \subseteq D[i] /\ {<<"time", b>>} \subseteq D[i]
      BY <2>4, <2>6
    <3> QED BY <3>6, <3>7 DEF AllOf
  <2>8. g[i] \subseteq D[i]
    BY <2>3, <2>4
  <2> QED BY <2>4, <2>5, <2>6, <2>7, <2>8
<1>5. Heard(input, D, stage, n + 1)
  BY <1>4 DEF Heard, g, p
<1> QED BY <1>5 DEF D, v, p

\* Each block fits the tensor, and the second has shown it its batch.
LEMMA FlowBlockKeeps ==
    ASSUME IInv, FlowBlock
    PROVE  IInv'
<1> DEFINE stage == call.stage
           d == hidden.deps
           v == GlobalContext
           p == Given(input, "proj", stage)
           D == BlockDeps(input, d, v, p)
           next == CrossBlock(hidden, v, RowsOf("proj", stage, Flow.cfg.proj), Flow.cfg)
<1>1. /\ pc = "flow" /\ block < Flow.blocks /\ input' = input /\ mode' = mode /\ chose' = chose
      /\ IF next = Bad THEN Fail("shape")
         ELSE /\ hidden' = next /\ block' = block + 1
              /\ UNCHANGED <<pc, call, engine, level, at, preds, done, why>>
  BY DEF FlowBlock
<1>2. /\ stage \in Stages /\ Good(input) /\ input \in Inputs
      /\ Good(hidden) /\ Own(hidden, d) /\ hidden.ch = Flow.cfg.ch /\ hidden.coords = input.coords
      /\ hidden.batch = input.batch /\ hidden.size = input.size
      /\ block \in 0..Flow.blocks /\ Heard(input, d, stage, block)
  BY <1>1, InputIs DEF IInv, Control, Flowing, OfInput
<1>3. hidden = With(input, Flow.cfg.ch, d) /\ ForRows(input, d) /\ Own(input, d)
  BY <1>2, OnSamePoints DEF Own
<1>4. /\ RowsOf("proj", stage, Flow.cfg.proj) = With(input, Flow.cfg.proj, p)
      /\ ForRows(input, p) /\ Own(input, p)
  BY <1>2, RowsOfIs
<1>5. /\ v = [batch |-> v.batch, ch |-> v.ch, deps |-> v.deps, offs |-> v.offs]
      /\ VarLenValid(v) /\ v.batch = input.batch /\ v.ch = Flow.cfg.context
      /\ \A b \in 0..input.batch - 1 : Of(input, b) # {} /\ Tokens(v, b) # {}
      /\ OwnTokens(v, input.batch)
  BY <1>2, ContextIs, InputIs
<1> HIDE DEF v, p, d, stage
<1>6. next = With(input, Flow.cfg.ch, D)
  <2> DEFINE ch == Flow.cfg.ch
             heads == Flow.cfg.heads
             dim == ch \div heads
  <2>1. /\ ch \in Nat \ {0} /\ heads \in Nat \ {0} /\ dim \in Nat \ {0} /\ ch % heads = 0
        /\ ch \div heads = dim /\ dim % 2 = 0 /\ Flow.cfg.ch = ch /\ Flow.cfg.heads = heads
        /\ Flow.cfg.hidden \in Nat \ {0} /\ Flow.cfg.proj \in Nat \ {0}
    BY FlowIs
  <2>2. next = CrossBlock(With(input, Flow.cfg.ch, d), v, With(input, Flow.cfg.proj, p), Flow.cfg)
    BY <1>3, <1>4
  <2> HIDE DEF ch, heads, dim, next, D
  <2>3. CrossBlock(With(input, Flow.cfg.ch, d), v, With(input, Flow.cfg.proj, p), Flow.cfg)
          = With(input, Flow.cfg.ch, BlockDeps(input, d, v, p))
    <3> DEFINE cfg == Flow.cfg
    <3>1. /\ cfg.ch = ch /\ cfg.heads = heads /\ cfg.hidden \in Nat \ {0}
          /\ cfg.proj \in Nat \ {0} /\ v.ch = cfg.context
      BY <1>5, <2>1
    <3>2. /\ ForRows(input, d) /\ ForRows(input, p) /\ Good(input)
          /\ ch \in Nat \ {0} /\ heads \in Nat \ {0} /\ dim \in Nat \ {0} /\ ch % heads = 0
          /\ ch \div heads = dim /\ dim % 2 = 0
          /\ v = [batch |-> v.batch, ch |-> v.ch, deps |-> v.deps, offs |-> v.offs]
          /\ VarLenValid(v) /\ v.batch = input.batch
          /\ \A b \in 0..input.batch - 1 : Of(input, b) # {} /\ Tokens(v, b) # {}
      BY <1>2, <1>3, <1>4, <1>5, <2>1
    <3> HIDE DEF cfg
    <3>3. CrossBlock(With(input, cfg.ch, d), v, With(input, cfg.proj, p), cfg)
            = With(input, cfg.ch, BlockDeps(input, d, v, p))
      <4>1. BlockFits(input, cfg, d, p, ch, heads, dim, v)
        BY <3>1, <3>2 DEF BlockFits
      <4> QED BY <4>1, CrossBlockIs
    <3> QED BY <3>3 DEF cfg
  <2> QED BY <2>2, <2>3 DEF D
<1>7. ForRows(input, D) /\ Own(input, D)
  BY <1>2, <1>3, <1>4, <1>5, BlockSees
<1>8. Heard(input, D, stage, block + 1)
  <2>1. block \in Nat
    BY <1>2
  <2> QED BY <1>2, <1>3, <2>1, HeardMore DEF v, p
<1> HIDE DEF D, next
<1>9. /\ Good(next) /\ next.ch = Flow.cfg.ch /\ next.deps = D /\ next.coords = input.coords
      /\ next.batch = input.batch /\ next.size = input.size
  BY <1>2, <1>6, <1>7, FlowIs, WithIsGood
<1>10. next # Bad
  BY <1>9, NoneIsBad
<1>11. /\ hidden' = next /\ block' = block + 1 /\ pc' = pc /\ call' = call /\ engine' = engine
       /\ done' = done /\ why' = why
  BY <1>1, <1>10
<1>12. Own(next, next.deps)
  BY <1>7, <1>9 DEF Own
<1>13. Control'
  BY <1>1, <1>9, <1>11, <1>12 DEF IInv, Control, OnlyNumbersFail
<1>14. Latents' /\ Undecoded' /\ QuadsCovered'
  BY <1>1, <1>11 DEF IInv, Latents, Undecoded, QuadsCovered
<1>15. Decoded'
  BY <1>1, <1>11 DEF IInv, Decoded, UpsampledLikeDecoded
<1>16. Flowing'
  <2>1. block + 1 \in 0..Flow.blocks
    BY <1>1, <1>2, FlowIs
  <2>2. done.latents[call.stage] = Bad /\ (call.stage = "texture" => done.decoded["shape"] # Bad)
    BY <1>1 DEF IInv, Flowing
  <2> QED BY <1>1, <1>2, <1>8, <1>9, <1>11, <1>12, <2>1, <2>2 DEF Flowing, OfInput, stage
<1>17. Decoding'
  BY <1>1, <1>11 DEF Decoding
<1> QED BY <1>13, <1>14, <1>15, <1>16, <1>17 DEF IInv

\* The latents have the points of the input and depend on all of a batch.
LEMMA FlowEndKeeps ==
    ASSUME IInv, FlowEnd
    PROVE  IInv'
<1> DEFINE s == call.stage
           x == Linear(LayerNorm(hidden), Flow.latent)
<1>1. /\ pc = "flow" /\ block = Flow.blocks /\ done' = PutLatent(done, s, x)
      /\ pc' = "idle" /\ input' = input /\ mode' = mode /\ chose' = chose /\ why' = why
      /\ hidden' = hidden
  BY DEF FlowEnd, PutLatent, walk
<1>2. /\ s \in Stages /\ Good(input) /\ Results(done)
      /\ Good(hidden) /\ Own(hidden, hidden.deps) /\ hidden.coords = input.coords
      /\ hidden.batch = input.batch /\ hidden.size = input.size
      /\ done.latents[s] = Bad /\ (s = "texture" => done.decoded["shape"] # Bad)
      /\ Heard(input, hidden.deps, s, block)
  BY <1>1, InputIs DEF IInv, Control, Flowing, OfInput
<1>3. /\ Good(x) /\ x.ch = Flow.latent /\ x.deps = hidden.deps /\ x.coords = hidden.coords
      /\ x.batch = hidden.batch /\ x.size = hidden.size
  <2>1. x = With(hidden, Flow.latent, hidden.deps)
    BY <1>2, NormIs, LinearIs, FlowIs
  <2>2. Flow.latent \in Nat \ {0} /\ ForRows(hidden, hidden.deps)
    BY <1>2, FlowIs, GoodIs
  <2> HIDE DEF x
  <2> QED BY <1>2, <2>1, <2>2, WithIsGood
<1>4. Heard(input, hidden.deps, s, 2)
  <2>1. block >= 1 /\ block >= 2
    BY <1>1, FlowIs
  <2> QED BY <1>2, <2>1 DEF Heard
<1> HIDE DEF s, x
<1>5. /\ Results(done') /\ done'.latents[s] = x
      /\ \A r \in Stages : r # s => done'.latents[r] = done.latents[r]
      /\ done'.decoded = done.decoded /\ done'.subs = done.subs /\ done'.coords = done.coords
      /\ done'.by = done.by /\ done'.up = done.up /\ done'.mesh = done.mesh
  BY <1>1, <1>2, PutLatentIs
<1>6. x # Bad
  BY <1>3, NoneIsBad
<1>7. Control'
  BY <1>1, <1>5 DEF IInv, Control, OnlyNumbersFail
<1>8. Latents'
  <2> SUFFICES ASSUME NEW r \in Stages, done'.latents[r] # Bad
               PROVE  /\ OfInput(input, done'.latents[r], Flow.latent, input.size)
                      /\ done'.latents[r].coords = input.coords
                      /\ Heard(input, done'.latents[r].deps, r, 2)
    BY <1>1 DEF Latents
  <2>1. CASE r = s
    BY <1>2, <1>3, <1>4, <1>5, <2>1 DEF OfInput, Own
  <2>2. CASE r # s
    BY <1>5, <2>2 DEF IInv, Latents
  <2> QED BY <2>1, <2>2
<1>9. Undecoded'
  <2>1. done.decoded["shape"] = Bad => s # "texture"
    BY <1>2
  <2> QED BY <1>5, <2>1 DEF IInv, Undecoded, Stages
<1>10. Decoded'
  <2> SUFFICES ASSUME done.decoded["shape"] # Bad
               PROVE  Decoded'
    BY <1>5 DEF Decoded
  <2>1. done.latents["shape"] # Bad
    BY DEF IInv, Decoded
  <2>2. s = "texture"
    BY <1>2, <2>1 DEF Stages
  <2>3. done'.latents["shape"] # Bad /\ done'.latents["texture"] # Bad
    BY <1>5, <1>6, <2>1, <2>2 DEF Stages
  <2> QED BY <1>1, <1>5, <2>3 DEF IInv, Decoded, UpsampledLikeDecoded
<1>11. Flowing' /\ Decoding' /\ QuadsCovered'
  BY <1>1, <1>5 DEF IInv, Flowing, Decoding, QuadsCovered
<1> QED BY <1>7, <1>8, <1>9, <1>10, <1>11 DEF IInv

-----------------------------------------------------------------------------
(* The steps of a decoder.                                                 *)

\* What is known stays known.
Grows(old, new) ==
    DOMAIN old \subseteq DOMAIN new /\ \A k \in DOMAIN old : new[k] = old[k]

\* Predictions made later do not change what was predicted before.
LEMMA StillAgrees ==
    ASSUME NEW old, NEW new, Grows(old, new), NEW subs, Agrees(old, subs)
    PROVE  Agrees(new, subs)
<1> SUFFICES ASSUME NEW l \in 1..Len(subs), NEW i \in DOMAIN subs[l].coords
             PROVE  /\ <<l, subs[l].coords[i]>> \in DOMAIN new
                    /\ new[<<l, subs[l].coords[i]>>] = subs[l].kids[i]
  BY DEF Agrees
<1> DEFINE k == <<l, subs[l].coords[i]>>
<1>1. k \in DOMAIN old /\ old[k] = subs[l].kids[i]
  BY DEF Agrees
<1> HIDE DEF k
<1>2. k \in DOMAIN new /\ new[k] = subs[l].kids[i]
  BY <1>1 DEF Grows
<1> QED BY <1>2 DEF k

Known ==
    /\ chose' = [cpu |-> chose'["cpu"], gpu |-> chose'["gpu"]]
    /\ \A e \in Engines : Grows(chose[Kind(e)], chose'[Kind(e)])

\* Nothing is forgotten by an action that predicts nothing.
LEMMA NothingLearnt == ASSUME IInv, chose' = chose PROVE Known
BY DEF Known, Grows, IInv, Control

\* The calls of a decoder: decoding, or upsampling the shape.
LEMMA CallsAre ==
    ASSUME NEW c \in Calls
    PROVE  /\ c.kind \in {"decode", "upsample"} /\ c.stage \in Stages
           /\ c.kind = "upsample" => c.stage = "shape" /\ c.last \in 1..L
BY DEF Calls, Stages, L

\* Results stay right while none of them changes.
LEMMA DecodedStays ==
    ASSUME IInv, Known, input' = input, done' = done, pc \in {"idle", "decode"}
    PROVE  Latents' /\ Undecoded' /\ Decoded' /\ QuadsCovered'
<1>1. Latents' /\ Undecoded' /\ QuadsCovered'
  BY DEF IInv, Latents, Undecoded, QuadsCovered
<1>2. Decoded'
  <2> SUFFICES ASSUME done.decoded["shape"] # Bad PROVE Decoded'
    BY DEF Decoded
  <2>1. done.by \in Engines
    BY DEF IInv, Decoded
  <2>2. ASSUME done.latents["texture"] = Bad
        PROVE  Agrees(chose'[Kind(done.by)], done.subs)
    <3>1. Agrees(chose[Kind(done.by)], done.subs)
      BY <2>2 DEF IInv, Decoded
    <3>2. Grows(chose[Kind(done.by)], chose'[Kind(done.by)])
      BY <2>1 DEF Known
    <3> QED BY <3>1, <3>2, StillAgrees
  <2> QED BY <2>2 DEF IInv, Decoded, UpsampledLikeDecoded
<1> QED BY <1>1, <1>2

\* A decoder starts, on either engine, from latents it fits.
LEMMA StartKeeps ==
    ASSUME IInv, Known, input' = input, mode' = mode, done' = done, pc \in {"idle", "decode"},
           why' \in {"none", "numbers", "empty"},
           NEW c \in Calls, NEW e \in Engines, Start(c, e), done.latents[c.stage] # Bad,
           c.kind = "decode" /\ c.stage = "shape" => done.decoded["shape"] = Bad,
           c.kind = "upsample" => done.decoded["shape"] # Bad /\ done.latents["texture"] = Bad
    PROVE  IInv'
<1> DEFINE d == Decoder[c.stage]
           t == done.latents[c.stage]
           h == Linear(t, d.ch[1])
<1>1. /\ hidden' = h /\ level' = 1 /\ block' = 0 /\ at' = 0 /\ preds' = <<>>
      /\ call' = c /\ engine' = e /\ pc' = "decode"
  BY DEF Start, Cleared
<1>2. c.stage \in Stages /\ (c.kind = "upsample" => c.last \in 1..L) /\ c.kind \in {"decode", "upsample"}
  BY CallsAre
<1>3. /\ L \in Nat \ {0} /\ 1 \in 1..L /\ d.ch[1] \in Nat \ {0} /\ d.blocks[1] \in Nat
  <2>1. L \in Nat \ {0}
    BY <1>2, DecoderIs
  <2>2. 1 \in 1..L
    BY <2>1
  <2> QED BY <1>2, <2>1, <2>2, DecoderIs
<1>4. Good(t) /\ Own(t, t.deps) /\ t.batch = input.batch /\ t.size = input.size /\ t.coords = input.coords
  BY <1>2 DEF IInv, Latents, OfInput
<1>5. /\ Good(h) /\ h.ch = d.ch[1] /\ h.deps = t.deps /\ h.coords = input.coords
      /\ h.batch = input.batch /\ h.size = input.size
  <2> DEFINE ch == d.ch[1]
  <2>1. ch \in Nat \ {0} /\ ForRows(t, t.deps)
    BY <1>3, <1>4, GoodIs
  <2> HIDE DEF ch, t, d
  <2>2. Linear(t, ch) = With(t, ch, t.deps)
    BY <1>4, <2>1, LinearIs
  <2>3. /\ Good(With(t, ch, t.deps)) /\ With(t, ch, t.deps).ch = ch
        /\ With(t, ch, t.deps).deps = t.deps /\ With(t, ch, t.deps).coords = t.coords
        /\ With(t, ch, t.deps).batch = t.batch /\ With(t, ch, t.deps).size = t.size
    BY <1>4, <2>1, WithIsGood
  <2> QED BY <1>4, <2>2, <2>3 DEF ch
<1> HIDE DEF h
<1>6. Own(h, h.deps)
  BY <1>4, <1>5 DEF Own
<1> HIDE DEF t
<1>7. SizeAt(input)[1] = input.size
  BY SizesAre DEF IInv, Control
<1>8. First(d, 1) + 0 = 0 /\ 0 \in 0..d.blocks[1]
  BY <1>2, <1>3, WeightsAt
<1>9. Chain(input, <<>>) /\ Len(<<>>) = 1 - 1 /\ \A k : Agrees(k, <<>>)
  BY DEF Chain, Agrees
<1>10. \A s : PointsOf(input, s, 1) = input.coords
  BY DEF PointsOf
<1> HIDE DEF d
<1>11. Control'
  BY <1>1, <1>5, <1>6 DEF IInv, Control, OnlyNumbersFail, Known
<1>12. Latents' /\ Undecoded' /\ Decoded' /\ QuadsCovered'
  BY DecodedStays
<1>13. Flowing'
  BY <1>1 DEF Flowing
<1>14. Decoding'
  <2>1. Hp' = d
    BY <1>1 DEF Hp, d
  <2>2. OfInput(input, h, d.ch[1], SizeAt(input)[1])
    BY <1>5, <1>6, <1>7 DEF OfInput
  <2>3. c.kind = "decode" /\ c.stage = "texture" => done.decoded["shape"] # Bad
    BY DEF IInv, Undecoded
  <2>4. c.kind = "upsample" => 1 <= c.last
    BY <1>2, <1>3
  <2> QED BY <1>1, <1>3, <1>5, <1>8, <1>9, <1>10, <2>1, <2>2, <2>3, <2>4 DEF Decoding
<1> QED BY <1>11, <1>12, <1>13, <1>14 DEF IInv

\* A call that is given up leaves the results of the earlier ones.
LEMMA GiveUpKeeps ==
    ASSUME IInv, Known, input' = input, mode' = mode, pc = "decode",
           NEW reason \in {"numbers", "empty"}, GiveUp(reason)
    PROVE  IInv'
<1>1. CASE Fail(reason)
  <2>1. pc' = "failed" /\ why' = reason /\ hidden' = hidden /\ done' = done
    BY <1>1 DEF Fail, walk
  <2>2. Control'
    BY <2>1 DEF IInv, Control, OnlyNumbersFail, Known
  <2>3. Latents' /\ Undecoded' /\ Decoded' /\ QuadsCovered'
    BY <2>1, DecodedStays
  <2>4. Flowing' /\ Decoding'
    BY <2>1 DEF Flowing, Decoding
  <2> QED BY <2>2, <2>3, <2>4 DEF IInv
<1>2. CASE Start(call, "cpu") /\ why' = reason /\ UNCHANGED done
  <2>1. /\ call \in Calls /\ done.latents[call.stage] # Bad
        /\ call.kind = "upsample" => done.decoded["shape"] # Bad /\ done.latents["texture"] = Bad
        /\ call.kind = "decode" /\ call.stage = "shape" => done.decoded["shape"] = Bad
    BY DEF IInv, Decoding
  <2>2. "cpu" \in Engines
    BY DEF Engines
  <2> QED BY <1>2, <2>1, <2>2, StartKeeps
<1> QED BY <1>1, <1>2 DEF GiveUp

\* So does an engine that fails on its numbers.
LEMMA BreaksKeeps == ASSUME IInv, Breaks PROVE IInv'
<1>1. /\ pc = "decode" /\ GiveUp("numbers") /\ input' = input /\ mode' = mode /\ chose' = chose
  BY DEF Breaks
<1> QED BY <1>1, NothingLearnt, GiveUpKeeps

\* A call begins on the engine it is to run on, or is refused.
LEMMA DecodeBeginKeeps ==
    ASSUME IInv, NEW c \in Calls, DecodeBegin(c)
    PROVE  IInv'
<1> DEFINE t == done.latents[c.stage]
           d == Decoder[c.stage]
<1>1. /\ pc = "idle" /\ t # Bad /\ input' = input /\ mode' = mode /\ chose' = chose
      /\ c.kind = "decode" => done.decoded[c.stage] = Bad
      /\ c.kind = "upsample" => done.decoded["shape"] # Bad /\ done.latents["texture"] = Bad
      /\ IF Valid(t) /\ t.ch = d.latent /\ (d.pred \/ Len(done.subs) = Len(d.ch) - 1)
         THEN Start(c, mode) /\ why' = "none" /\ UNCHANGED done
         ELSE Fail("shape")
  BY DEF DecodeBegin
<1>2. c.stage \in Stages
  BY CallsAre
<1>3. Valid(t) /\ t.ch = d.latent
  <2>1. Good(t) /\ t.ch = Flow.latent
    BY <1>1, <1>2 DEF IInv, Latents, OfInput
  <2> QED BY <1>2, <2>1, DecoderIs DEF Good
<1>4. d.pred \/ Len(done.subs) = Len(d.ch) - 1
  <2>1. CASE c.stage = "shape"
    BY <1>2, <2>1, DecoderIs
  <2>2. CASE c.stage = "texture"
    <3>1. done.decoded["shape"] # Bad
      BY <1>1, <2>2 DEF IInv, Undecoded
    <3>2. Len(done.subs) = L - 1
      BY <3>1 DEF IInv, Decoded
    <3> QED BY <1>2, <3>2, DecoderIs
  <2> QED BY <1>2, <2>1, <2>2 DEF Stages
<1> HIDE DEF t, d
<1>5. Start(c, mode) /\ why' = "none" /\ UNCHANGED done
  BY <1>1, <1>3, <1>4
<1>6. mode \in Engines /\ Known
  BY <1>1, NothingLearnt DEF IInv, Control
<1> QED BY <1>1, <1>5, <1>6, StartKeeps DEF t

\* Blocks that look at neighbours, and nothing else.
LEMMA DecodeBlockKeeps ==
    ASSUME IInv, DecodeBlock
    PROVE  IInv'
<1> DEFINE d == Hp
           w == Weights(Hp)[at + 1]
           next == ConvNextBlock(hidden, w)
           D == Both(hidden, Near(hidden, hidden.deps), hidden.deps)
<1>1. /\ pc = "decode" /\ block < d.blocks[level] /\ input' = input /\ mode' = mode
      /\ chose' = chose
      /\ IF next = Bad THEN GiveUp("shape")
         ELSE /\ hidden' = next /\ block' = block + 1 /\ at' = at + 1
              /\ UNCHANGED <<pc, call, engine, level, preds, done, why>>
  BY DEF DecodeBlock
<1>2. /\ call \in Calls /\ level \in 1..L /\ block \in 0..d.blocks[level]
      /\ at = First(d, level) + block
      /\ OfInput(input, hidden, d.ch[level], SizeAt(input)[level])
  BY <1>1 DEF IInv, Decoding
<1>3. call.stage \in Stages
  BY <1>2, CallsAre
<1>4. Good(hidden) /\ Own(hidden, hidden.deps) /\ ForRows(hidden, hidden.deps)
  BY <1>2, GoodIs DEF OfInput
<1>5. w = ConvNext(d, level)
  <2>1. First(d, level) \in Nat /\ d.blocks[level] \in Nat
        /\ \A k \in 1..d.blocks[level] : Weights(d)[First(d, level) + k] = ConvNext(d, level)
    BY <1>2, <1>3, WeightsAt, DecoderIs DEF Hp
  <2> DEFINE n == d.blocks[level]
             f == First(d, level)
  <2> HIDE DEF n, f, d
  <2>2. block + 1 \in 1..n /\ at + 1 = f + (block + 1)
    BY <1>1, <1>2, <2>1 DEF n, f
  <2> QED BY <2>1, <2>2 DEF n, f, d
<1>6. w.kind = "convnext" /\ w.ch = hidden.ch /\ w.out = hidden.ch
  <2> HIDE DEF w, d
  <2> QED BY <1>2, <1>5 DEF ConvNext, OfInput
<1>7. next = With(hidden, hidden.ch, D)
  <2> HIDE DEF w
  <2> QED BY <1>4, <1>6, ConvNextIs
<1>8. ForRows(hidden, D) /\ Own(hidden, D)
  <2>1. Own(hidden, Near(hidden, hidden.deps))
    BY <1>4, NearIs
  <2>2. ForRows(hidden, D)
    BY BothAreRows
  <2>3. Own(hidden, D)
    BY <1>4, <2>1 DEF Own, Both
  <2> QED BY <2>2, <2>3
<1> HIDE DEF D, next, d
<1>9. /\ Good(next) /\ next.ch = hidden.ch /\ next.deps = D /\ next.coords = hidden.coords
      /\ next.batch = hidden.batch /\ next.size = hidden.size
  <2>1. hidden.ch \in Nat \ {0}
    BY <1>4, GoodIs
  <2> QED BY <1>4, <1>7, <1>8, <2>1, WithIsGood
<1>10. next # Bad /\ Own(next, next.deps)
  BY <1>8, <1>9, NoneIsBad DEF Own
<1>11. /\ hidden' = next /\ block' = block + 1 /\ at' = at + 1 /\ pc' = pc /\ call' = call
       /\ engine' = engine /\ level' = level /\ preds' = preds /\ done' = done /\ why' = why
  BY <1>1, <1>10
<1>12. Control'
  BY <1>1, <1>9, <1>10, <1>11 DEF IInv, Control, OnlyNumbersFail
<1>13. Latents' /\ Undecoded' /\ Decoded' /\ QuadsCovered'
  BY <1>1, <1>11, NothingLearnt, DecodedStays
<1>14. Flowing'
  BY <1>1, <1>11 DEF Flowing
<1>15. Decoding'
  <2>1. Hp' = d
    BY <1>11 DEF Hp, d
  <2>2. OfInput(input, next, d.ch[level], SizeAt(input)[level])
    BY <1>2, <1>9, <1>10 DEF OfInput
  <2>3. block + 1 \in 0..d.blocks[level] /\ at + 1 = First(d, level) + (block + 1)
    <3>1. First(d, level) \in Nat /\ d.blocks[level] \in Nat
      BY <1>2, <1>3, WeightsAt, DecoderIs DEF Hp, d
    <3> DEFINE n == d.blocks[level]
               f == First(d, level)
    <3> HIDE DEF n, f
    <3>2. block + 1 \in 0..n /\ at + 1 = f + (block + 1)
      BY <1>1, <1>2, <3>1 DEF n, f
    <3> QED BY <3>2 DEF n, f
  <2> QED BY <1>1, <1>2, <1>9, <1>11, <2>1, <2>2, <2>3 DEF IInv, Decoding
<1> QED BY <1>12, <1>13, <1>14, <1>15 DEF IInv

\* The step to the next level by a subdivision.
WentUp(sub) ==
    /\ OfInput(input, hidden', Hp.ch[level + 1], SizeAt(input)[level + 1])
    /\ hidden'.coords = Children(sub)
    /\ level' = level + 1 /\ level + 1 \in 1..L /\ block' = 0
    /\ at' = First(Hp, level + 1) + 0 /\ 0 \in 0..Hp.blocks[level + 1]
    /\ preds' = IF Hp.pred /\ call.kind = "decode" THEN Append(preds, sub) ELSE preds
    /\ pc' = pc /\ call' = call /\ engine' = engine /\ done' = done /\ why' = why

\* The step to the next level works on each engine, unless a GPU is left with
\* no points.
LEMMA GoUpIs ==
    ASSUME IInv, pc = "decode", block = Hp.blocks[level], level < L,
           NEW sub, Subdivision(sub), sub.batch = hidden.batch, sub.coords = hidden.coords,
           GoUp(sub)
    PROVE  \/ GiveUp("empty")
           \/ WentUp(sub)
<1> DEFINE d == Hp
           w == Weights(Hp)[at + 1]
           step(x) == IF engine = "first" THEN GpuUpBlock(hidden, x, sub) ELSE UpBlock(hidden, x, sub)
           next == step(w)
           none == engine # "cpu" /\ Selected(hidden, sub) = <<>>
           r == Up(hidden, d.ch[level + 1], sub)
<1>1. IF next = Bad \/ none THEN GiveUp(IF none THEN "empty" ELSE "shape")
      ELSE /\ hidden' = next /\ level' = level + 1 /\ block' = 0 /\ at' = at + 1
           /\ preds' = IF d.pred /\ call.kind = "decode" THEN Append(preds, sub) ELSE preds
           /\ UNCHANGED <<pc, call, engine, done, why>>
  BY DEF GoUp
<1>2. /\ call \in Calls /\ level \in 1..L /\ at = First(d, level) + block
      /\ OfInput(input, hidden, d.ch[level], SizeAt(input)[level]) /\ engine \in Engines
  BY DEF IInv, Decoding
<1>3. call.stage \in Stages /\ input \in Inputs
  BY <1>2, CallsAre DEF IInv, Control
<1>4. /\ L \in Nat /\ level + 1 \in 1..L /\ d.ch[level] \in Nat \ {0} /\ d.ch[level + 1] \in Nat \ {0}
      /\ d.blocks[level] \in Nat /\ d.blocks[level + 1] \in Nat
      /\ d.ch[level] % 8 = 0 /\ d.ch[level + 1] % (d.ch[level] \div 8) = 0
  <2>1. L \in Nat
    BY <1>3, DecoderIs
  <2>2. level + 1 \in 1..L
    BY <1>2, <2>1
  <2> QED BY <1>2, <1>3, <2>1, <2>2, DecoderIs DEF Hp
<1>5. w = ToNext(d, level) /\ First(d, level + 1) = at + 1
  <2>1. /\ First(d, level) \in Nat
        /\ Weights(d)[First(d, level) + d.blocks[level] + 1] = ToNext(d, level)
        /\ First(d, level + 1) = First(d, level) + d.blocks[level] + 1
    BY <1>2, <1>3, WeightsAt DEF Hp
  <2>2. at = First(d, level) + d.blocks[level]
    BY <1>2
  <2> QED BY <2>1, <2>2
<1> HIDE DEF d, w
<1>6. w.kind = "c2s" /\ w.ch = d.ch[level] /\ w.out = d.ch[level + 1]
  BY <1>5 DEF ToNext
<1>7. Good(hidden) /\ Own(hidden, hidden.deps) /\ hidden.ch = d.ch[level]
      /\ hidden.batch = input.batch /\ hidden.size = SizeAt(input)[level]
  BY <1>2 DEF OfInput
<1>8. /\ UpBlock(hidden, w, sub) = r
      /\ Selected(hidden, sub) # <<>> => GpuUpBlock(hidden, w, sub) = r
  <2> DEFINE ch == d.ch[level]
             out == d.ch[level + 1]
             e == ch \div 8
  <2>1. ch \in Nat \ {0} /\ out \in Nat \ {0} /\ ch % 8 = 0 /\ out % e = 0
    BY <1>4
  <2>2. e \in Nat \ {0} /\ ch = 8 * e
    <3> HIDE DEF ch
    <3> QED BY <2>1
  <2>3. w.kind = "c2s" /\ w.ch = hidden.ch /\ w.out = out /\ hidden.ch = 8 * e
    BY <1>6, <1>7, <2>2
  <2> HIDE DEF ch, out, e
  <2>4. UpBlock(hidden, w, sub) = Up(hidden, out, sub)
        /\ (Selected(hidden, sub) # <<>> => GpuUpBlock(hidden, w, sub) = Up(hidden, out, sub))
    <3>1. Good(hidden) /\ Subdivision(sub) /\ sub.batch = hidden.batch /\ sub.coords = hidden.coords
      BY <1>7
    <3> HIDE DEF w
    <3>2. UpFits(hidden, w, out, e, sub)
      BY <1>7, <2>1, <2>2, <2>3, <3>1 DEF UpFits
    <3> QED BY <3>2, UpIs
  <2> QED BY <2>4 DEF out
<1>9. /\ Good(r) /\ r.batch = hidden.batch /\ r.size = 2 * hidden.size /\ r.ch = d.ch[level + 1]
      /\ r.coords = Children(sub) /\ Own(r, r.deps)
  <2> DEFINE out == d.ch[level + 1]
  <2>1. out \in Nat \ {0}
    BY <1>4
  <2> HIDE DEF out
  <2>2. LET u == Up(hidden, out, sub)
        IN  /\ Good(u) /\ u.batch = hidden.batch /\ u.size = 2 * hidden.size /\ u.ch = out
            /\ u.coords = Children(sub)
            /\ Own(hidden, hidden.deps) => Own(u, u.deps)
    BY <1>7, <2>1, UpIsGood
  <2> QED BY <1>7, <2>2 DEF out
<1>10. SizeAt(input)[level + 1] = 2 * SizeAt(input)[level]
  BY <1>2, <1>3, SizesAre
<1> HIDE DEF r
<1>11. CASE none
  BY <1>1, <1>11
<1>12. CASE ~none
  <2>1. next = r
    BY <1>8, <1>12
  <2>2. next # Bad
    BY <1>9, <2>1, NoneIsBad
  <2>3. /\ hidden' = r /\ level' = level + 1 /\ block' = 0 /\ at' = at + 1
        /\ preds' = IF d.pred /\ call.kind = "decode" THEN Append(preds, sub) ELSE preds
        /\ pc' = pc /\ call' = call /\ engine' = engine /\ done' = done /\ why' = why
    BY <1>1, <1>12, <2>1, <2>2
  <2>4. OfInput(input, r, d.ch[level + 1], SizeAt(input)[level + 1])
    BY <1>7, <1>9, <1>10 DEF OfInput
  <2>5. at + 1 = First(d, level + 1) + 0 /\ 0 \in 0..d.blocks[level + 1]
    <3>1. First(d, level + 1) \in Nat
      BY <1>3, <1>4, WeightsAt DEF Hp, d
    <3> QED BY <1>4, <1>5, <3>1
  <2> QED BY <1>4, <1>9, <2>3, <2>4, <2>5 DEF d, WentUp
<1> QED BY <1>11, <1>12

\* What comes of a step up, when the points are those they should be.
LEMMA WentUpKeeps ==
    ASSUME IInv, Known, input' = input, mode' = mode, pc = "decode", NEW sub, WentUp(sub),
           call.kind = "decode" /\ call.stage = "shape" =>
              /\ Chain(input, preds') /\ Len(preds') = level
              /\ Children(sub) = PointsOf(input, preds', level + 1)
              /\ Agrees(chose'[Kind(engine)], preds'),
           call.kind = "decode" /\ call.stage = "texture" =>
              Children(sub) = PointsOf(input, done.subs, level + 1),
           call.kind = "upsample" =>
              /\ level + 1 <= call.last
              /\ Kind(engine) = Kind(done.by) =>
                    Children(sub) = PointsOf(input, done.subs, level + 1)
    PROVE  IInv'
<1>1. /\ OfInput(input, hidden', Hp.ch[level + 1], SizeAt(input)[level + 1])
      /\ hidden'.coords = Children(sub)
      /\ level' = level + 1 /\ level + 1 \in 1..L /\ block' = 0
      /\ at' = First(Hp, level + 1) + 0 /\ 0 \in 0..Hp.blocks[level + 1]
      /\ pc' = pc /\ call' = call /\ engine' = engine /\ done' = done /\ why' = why
  BY DEF WentUp
<1>2. Control'
  <2>1. Good(hidden') /\ Own(hidden', hidden'.deps)
    BY <1>1 DEF OfInput
  <2> QED BY <1>1, <2>1 DEF IInv, Control, OnlyNumbersFail, Known
<1>3. Latents' /\ Undecoded' /\ Decoded' /\ QuadsCovered'
  BY <1>1, DecodedStays
<1>4. Flowing'
  BY <1>1 DEF Flowing
<1>5. Decoding'
  <2>1. Hp' = Hp
    BY <1>1 DEF Hp
  <2>2. /\ call \in Calls /\ engine \in Engines /\ done.latents[call.stage] # Bad
        /\ call.kind = "decode" /\ call.stage = "shape" => done.decoded["shape"] = Bad
        /\ call.kind = "decode" /\ call.stage = "texture" => done.decoded["shape"] # Bad
        /\ call.kind = "upsample" => done.decoded["shape"] # Bad /\ done.latents["texture"] = Bad
    BY DEF IInv, Decoding
  <2>3. /\ call' \in Calls /\ engine' \in Engines /\ done'.latents[call'.stage] # Bad
        /\ level' \in 1..L /\ block' \in 0..Hp'.blocks[level']
        /\ at' = First(Hp', level') + block'
        /\ OfInput(input', hidden', Hp'.ch[level'], SizeAt(input')[level'])
    BY <1>1, <2>1, <2>2
  <2>4. call'.kind = "decode" /\ call'.stage = "shape" =>
           /\ done'.decoded["shape"] = Bad
           /\ Chain(input', preds') /\ Len(preds') = level' - 1
           /\ hidden'.coords = PointsOf(input', preds', level')
           /\ Agrees(chose'[Kind(engine')], preds')
    <3> SUFFICES ASSUME call.kind = "decode", call.stage = "shape"
                 PROVE  /\ done.decoded["shape"] = Bad
                        /\ Chain(input, preds') /\ Len(preds') = level' - 1
                        /\ Children(sub) = PointsOf(input, preds', level + 1)
                        /\ Agrees(chose'[Kind(engine)], preds')
      BY <1>1
    <3>1. level' - 1 = level
      BY <1>1 DEF IInv, Decoding
    <3> QED BY <2>2, <3>1
  <2>5. call'.kind = "decode" /\ call'.stage = "texture" =>
           /\ done'.decoded["shape"] # Bad
           /\ hidden'.coords = PointsOf(input', done'.subs, level')
    BY <1>1, <2>2
  <2>6. call'.kind = "upsample" =>
           /\ done'.decoded["shape"] # Bad /\ done'.latents["texture"] = Bad
           /\ level' <= call'.last
           /\ Kind(engine') = Kind(done'.by) => hidden'.coords = PointsOf(input', done'.subs, level')
    BY <1>1, <2>2
  <2> QED BY <2>3, <2>4, <2>5, <2>6 DEF Decoding
<1> QED BY <1>2, <1>3, <1>4, <1>5 DEF IInv

\* The same children of the same points are the same.
LEMMA ChildrenSame ==
    ASSUME NEW s, Subdivision(s), NEW r, Subdivision(r), s.coords = r.coords, s.kids = r.kids
    PROVE  Children(s) = Children(r)
<1>1. s # Bad /\ r # Bad
  BY SubdivisionIs
<1>2. Selected(s, s) = Selected(r, r)
  BY <1>1 DEF Selected
<1> QED BY <1>2 DEF Children

\* The subdivisions of a decoder, and one more.
LEMMA OneMore ==
    ASSUME NEW inp, NEW subs, Chain(inp, subs), NEW n \in Nat, Len(subs) = n - 1, n > 0,
           NEW sub, Subdivision(sub), sub.batch = inp.batch, sub.size = SizeAt(inp)[n],
           sub.coords = PointsOf(inp, subs, n),
           NEW known, Agrees(known, subs),
           \A i \in DOMAIN sub.coords : /\ <<n, sub.coords[i]>> \in DOMAIN known
                                        /\ known[<<n, sub.coords[i]>>] = sub.kids[i]
    PROVE  /\ Chain(inp, Append(subs, sub)) /\ Len(Append(subs, sub)) = n
           /\ Children(sub) = PointsOf(inp, Append(subs, sub), n + 1)
           /\ Agrees(known, Append(subs, sub))
<1> DEFINE r == Append(subs, sub)
           X == {subs[l] : l \in 1..Len(subs)} \cup {sub}
<1>1. /\ Len(subs) = n - 1 /\ subs = [l \in 1..n - 1 |-> subs[l]]
      /\ \A l \in 1..n - 1 : /\ Subdivision(subs[l]) /\ subs[l].batch = inp.batch
                             /\ subs[l].size = SizeAt(inp)[l]
                             /\ subs[l].coords = PointsOf(inp, subs, l)
  BY DEF Chain
<1>2. subs \in Seq(X) /\ sub \in X
  <2>1. n - 1 \in Nat /\ \A l \in 1..n - 1 : subs[l] \in X
    BY <1>1
  <2> HIDE DEF X
  <2>2. subs \in Seq(X)
    BY <1>1, <2>1, LenIs
  <2> QED BY <2>2 DEF X
<1> HIDE DEF X
<1>3. /\ Len(r) = n /\ r[n] = sub /\ r \in Seq(X)
      /\ \A l \in 1..n - 1 : r[l] = subs[l]
  BY <1>1, <1>2
<1> HIDE DEF r
<1>4. r = [l \in 1..n |-> r[l]]
  BY <1>3
<1>5. \A l \in 1..n : PointsOf(inp, r, l) = PointsOf(inp, subs, l)
  <2> TAKE l \in 1..n
  <2>1. CASE l = 1
    BY <2>1 DEF PointsOf
  <2>2. CASE l # 1
    <3>1. l - 1 \in 1..n - 1
      BY <2>2
    <3>2. r[l - 1] = subs[l - 1]
      BY <1>3, <3>1
    <3> QED BY <2>2, <3>2 DEF PointsOf
  <2> QED BY <2>1, <2>2
<1>6. PointsOf(inp, r, n + 1) = Children(sub)
  <2>1. n + 1 # 1 /\ n + 1 - 1 = n
    OBVIOUS
  <2> QED BY <1>3, <2>1 DEF PointsOf
<1>7. \A l \in 1..n : l \in 1..n - 1 \/ l = n
  OBVIOUS
<1>8. ASSUME NEW l \in 1..n
      PROVE  /\ Subdivision(r[l]) /\ r[l].batch = inp.batch /\ r[l].size = SizeAt(inp)[l]
             /\ r[l].coords = PointsOf(inp, r, l)
             /\ \A i \in DOMAIN r[l].coords : /\ <<l, r[l].coords[i]>> \in DOMAIN known
                                              /\ known[<<l, r[l].coords[i]>>] = r[l].kids[i]
  <2>1. CASE l \in 1..n - 1
    <3>1. r[l] = subs[l] /\ l \in 1..Len(subs)
      BY <1>1, <1>3, <2>1
    <3>2. PointsOf(inp, r, l) = PointsOf(inp, subs, l)
      BY <1>5
    <3> QED BY <1>1, <2>1, <3>1, <3>2 DEF Agrees
  <2>2. CASE l = n
    <3>1. r[l] = sub /\ PointsOf(inp, r, l) = PointsOf(inp, subs, n)
      BY <1>3, <1>5, <2>2
    <3> QED BY <2>2, <3>1
  <2> QED BY <1>7, <2>1, <2>2
<1>9. Chain(inp, r)
  BY <1>3, <1>4, <1>8 DEF Chain
<1>10. Agrees(known, r)
  BY <1>3, <1>8 DEF Agrees
<1> QED BY <1>3, <1>6, <1>9, <1>10 DEF r

\* A prediction is a subdivision of the points it is made for.
LEMMA PredictionIs ==
    ASSUME IInv, pc = "decode", level < L, NEW p \in Predictions
    PROVE  /\ Subdivision(AsSubdivision(p))
           /\ AsSubdivision(p).batch = hidden.batch /\ AsSubdivision(p).size = hidden.size
           /\ AsSubdivision(p).coords = hidden.coords /\ AsSubdivision(p).kids = p
           /\ DOMAIN p = DOMAIN hidden.coords
<1> DEFINE s == AsSubdivision(p)
<1>1. Good(hidden) /\ level \in 1..L
  BY DEF IInv, Decoding, OfInput
<1>2. Foreseen[level] \subseteq SUBSET (0..7)
  BY <1>1, DecoderIs DEF Stages
<1>3. p \in [DOMAIN hidden.coords -> Foreseen[level]]
  BY DEF Predictions
<1>4. p \in [DOMAIN hidden.coords -> SUBSET (0..7)]
  BY <1>2, <1>3
<1>5. /\ s.batch = hidden.batch /\ s.size = hidden.size /\ s.coords = hidden.coords
      /\ s.kids = p /\ s.deps = hidden.deps /\ s.ch = 8
      /\ s = [batch |-> s.batch, size |-> s.size, ch |-> 8, coords |-> s.coords,
              deps |-> s.deps, kids |-> s.kids]
  BY DEF AsSubdivision
<1> HIDE DEF s
<1>6. Good(With(s, 8, s.deps))
  <2>1. With(s, 8, s.deps) = With(hidden, 8, hidden.deps)
    BY <1>5 DEF With
  <2>2. ForRows(hidden, hidden.deps)
    BY <1>1, GoodIs
  <2>3. Good(With(hidden, 8, hidden.deps))
    BY <1>1, <2>2, WithIsGood
  <2> QED BY <2>1, <2>3
<1>7. Subdivision(s)
  BY <1>4, <1>5, <1>6 DEF Subdivision
<1> QED BY <1>4, <1>5, <1>7 DEF s

\* An engine says the same of a point ever after.
LEMMA RememberIs ==
    ASSUME IInv, pc = "decode", NEW p \in Predictions, DOMAIN p = DOMAIN hidden.coords, Remember(p)
    PROVE  /\ Known
           /\ \A i \in DOMAIN hidden.coords :
                 /\ <<level, hidden.coords[i]>> \in DOMAIN chose'[Kind(engine)]
                 /\ chose'[Kind(engine)][<<level, hidden.coords[i]>>] = p[i]
<1> DEFINE k == Kind(engine)
           old == chose[k]
           key(i) == <<level, hidden.coords[i]>>
           at2(x) == CHOOSE i \in DOMAIN p : hidden.coords[i] = x[2]
           new == [x \in {key(i) : i \in DOMAIN p} |-> p[at2(x)]]
           both == [x \in DOMAIN new \cup DOMAIN old |->
                       IF x \in DOMAIN new THEN new[x] ELSE old[x]]
<1>1. chose' = [chose EXCEPT ![k] = both]
  BY DEF Remember
<1>2. Good(hidden) /\ engine \in Engines
  BY DEF IInv, Decoding, OfInput
<1>3. \A i, j \in DOMAIN p : hidden.coords[i] = hidden.coords[j] => i = j
  BY <1>2, GoodIs
<1>4. \A i \in DOMAIN p : key(i) \in DOMAIN new /\ new[key(i)] = p[i]
  <2> TAKE i \in DOMAIN p
  <2>1. at2(key(i)) \in DOMAIN p /\ hidden.coords[at2(key(i))] = hidden.coords[i]
    OBVIOUS
  <2>2. at2(key(i)) = i
    BY <1>3, <2>1
  <2>3. key(i) \in DOMAIN new /\ new[key(i)] = p[at2(key(i))]
    OBVIOUS
  <2> HIDE DEF at2, key, new
  <2> QED BY <2>2, <2>3
<1>5. \A x \in DOMAIN new : \E i \in DOMAIN p : x = key(i)
  OBVIOUS
<1>6. \A i \in DOMAIN p : key(i) \in DOMAIN old => p[i] = old[key(i)]
  BY DEF Predictions
<1> HIDE DEF new, key, at2
<1>7. Grows(old, both)
  <2>1. ASSUME NEW x \in DOMAIN old PROVE both[x] = old[x]
    <3>1. CASE x \in DOMAIN new
      <4>1. PICK i \in DOMAIN p : x = key(i)
        BY <1>5, <3>1
      <4>2. new[x] = old[x]
        BY <1>4, <1>6, <2>1, <4>1
      <4> QED BY <2>1, <3>1, <4>2
    <3>2. CASE x \notin DOMAIN new
      BY <2>1, <3>2
    <3> QED BY <3>1, <3>2
  <2>2. DOMAIN old \subseteq DOMAIN both
    OBVIOUS
  <2> HIDE DEF both
  <2> QED BY <2>1, <2>2 DEF Grows
<1>8. \A i \in DOMAIN p : key(i) \in DOMAIN both /\ both[key(i)] = p[i]
  BY <1>4
<1> HIDE DEF both
<1>9. /\ chose' = [cpu |-> chose'["cpu"], gpu |-> chose'["gpu"]]
      /\ chose'[k] = both /\ \A r \in {"cpu", "gpu"} : r # k => chose'[r] = chose[r]
  <2>1. chose = [cpu |-> chose["cpu"], gpu |-> chose["gpu"]] /\ k \in {"cpu", "gpu"}
    BY DEF IInv, Control, Kind
  <2> DEFINE a == chose["cpu"]
             b == chose["gpu"]
             c == [cpu |-> a, gpu |-> b]
  <2>2. chose = c /\ chose["cpu"] = a /\ chose["gpu"] = b
    BY <2>1
  <2> HIDE DEF a, b, k
  <2>3. CASE k = "cpu"
    <3>1. [c EXCEPT !["cpu"] = both] = [cpu |-> both, gpu |-> b]
      OBVIOUS
    <3>2. chose' = [cpu |-> both, gpu |-> b]
      BY <1>1, <2>2, <2>3, <3>1
    <3> QED BY <2>2, <2>3, <3>2
  <2>4. CASE k = "gpu"
    <3>1. [c EXCEPT !["gpu"] = both] = [cpu |-> a, gpu |-> both]
      OBVIOUS
    <3>2. chose' = [cpu |-> a, gpu |-> both]
      BY <1>1, <2>2, <2>4, <3>1
    <3> QED BY <2>2, <2>4, <3>2
  <2> QED BY <2>1, <2>3, <2>4
<1>10. Known
  <2>1. ASSUME NEW e \in Engines PROVE Grows(chose[Kind(e)], chose'[Kind(e)])
    <3>1. CASE Kind(e) = k
      BY <1>7, <1>9, <3>1
    <3>2. CASE Kind(e) # k
      <4>1. Kind(e) \in {"cpu", "gpu"}
        BY DEF Kind
      <4>2. chose'[Kind(e)] = chose[Kind(e)]
        BY <1>9, <3>2, <4>1
      <4> QED BY <4>2 DEF Grows
    <3> QED BY <3>1, <3>2
  <2> QED BY <1>9, <2>1 DEF Known
<1>11. \A i \in DOMAIN p : key(i) \in DOMAIN chose'[k] /\ chose'[k][key(i)] = p[i]
  BY <1>8, <1>9
<1> QED BY <1>10, <1>11 DEF key, k

\* A level after the first has the children of the level before.
LEMMA PointsAfter ==
    ASSUME NEW inp, NEW subs, NEW n \in Nat, n > 0
    PROVE  PointsOf(inp, subs, n + 1) = Children(subs[n])
<1>1. PICK m \in Nat : m = n + 1
  OBVIOUS
<1>2. m # 1 /\ m - 1 = n
  BY <1>1
<1>3. PointsOf(inp, subs, m) = Children(subs[n])
  BY <1>2 DEF PointsOf
<1> QED BY <1>1, <1>3

\* The step to the next level fits, predicted or given, on either engine.
LEMMA TransitionKeeps ==
    ASSUME IInv, Transition
    PROVE  IInv'
<1>1. /\ pc = "decode" /\ ~AtEnd /\ block = Hp.blocks[level] /\ level < Len(Hp.ch)
      /\ IF Hp.pred
         THEN \E p \in Predictions : GoUp(AsSubdivision(p)) /\ Remember(p)
         ELSE GoUp(done.subs[level]) /\ UNCHANGED chose
      /\ input' = input /\ mode' = mode
  BY DEF Transition
<1>2. /\ call \in Calls /\ engine \in Engines /\ level \in 1..L
      /\ OfInput(input, hidden, Hp.ch[level], SizeAt(input)[level])
  BY <1>1 DEF IInv, Decoding
<1>3. /\ call.stage \in Stages /\ call.kind \in {"decode", "upsample"}
      /\ call.kind = "upsample" => call.stage = "shape" /\ call.last \in 1..L
  BY <1>2, CallsAre
<1>4. L \in Nat /\ Len(Hp.ch) = L /\ level < L /\ Hp.pred = (call.stage = "shape")
  BY <1>1, <1>3, DecoderIs DEF Hp
<1>5. Good(hidden) /\ hidden.batch = input.batch /\ hidden.size = SizeAt(input)[level]
  BY <1>2 DEF OfInput
<1>6. CASE call.stage = "shape"
  <2>1. PICK p \in Predictions : GoUp(AsSubdivision(p)) /\ Remember(p)
    BY <1>1, <1>4, <1>6
  <2> DEFINE sub == AsSubdivision(p)
  <2>2. /\ Subdivision(sub) /\ sub.batch = hidden.batch /\ sub.size = hidden.size
        /\ sub.coords = hidden.coords /\ sub.kids = p /\ DOMAIN p = DOMAIN hidden.coords
    BY <1>1, <1>4, PredictionIs
  <2>3. Known /\ \A i \in DOMAIN hidden.coords :
           /\ <<level, hidden.coords[i]>> \in DOMAIN chose'[Kind(engine)]
           /\ chose'[Kind(engine)][<<level, hidden.coords[i]>>] = p[i]
    BY <1>1, <2>1, <2>2, RememberIs
  <2>4. p \in [DOMAIN hidden.coords -> Foreseen[level]]
        /\ \A i \in DOMAIN p : <<level, hidden.coords[i]>> \in DOMAIN chose[Kind(engine)]
               => p[i] = chose[Kind(engine)][<<level, hidden.coords[i]>>]
    BY DEF Predictions
  <2>5. GoUp(sub)
    BY <2>1
  <2> HIDE DEF sub
  <2>6. GiveUp("empty") \/ WentUp(sub)
    BY <1>1, <1>4, <2>2, <2>5, GoUpIs
  <2>7. CASE GiveUp("empty")
    BY <1>1, <2>3, <2>7, GiveUpKeeps
  <2>8. CASE WentUp(sub)
    <3>1. ASSUME call.kind = "decode"
          PROVE  /\ Chain(input, preds') /\ Len(preds') = level
                 /\ Children(sub) = PointsOf(input, preds', level + 1)
                 /\ Agrees(chose'[Kind(engine)], preds')
      <4> DEFINE known == chose'[Kind(engine)]
      <4>1. /\ Chain(input, preds) /\ Len(preds) = level - 1
            /\ hidden.coords = PointsOf(input, preds, level)
            /\ Agrees(chose[Kind(engine)], preds)
        BY <1>1, <1>6, <3>1 DEF IInv, Decoding
      <4>2. Agrees(known, preds)
        <5>1. Grows(chose[Kind(engine)], known)
          BY <1>2, <2>3 DEF Known
        <5> HIDE DEF known
        <5> QED BY <4>1, <5>1, StillAgrees
      <4>3. preds' = Append(preds, sub)
        BY <1>4, <1>6, <2>8, <3>1 DEF WentUp
      <4>4. \A i \in DOMAIN sub.coords : /\ <<level, sub.coords[i]>> \in DOMAIN known
                                         /\ known[<<level, sub.coords[i]>>] = sub.kids[i]
        BY <2>2, <2>3
      <4>5. /\ sub.batch = input.batch /\ sub.size = SizeAt(input)[level]
            /\ sub.coords = PointsOf(input, preds, level) /\ level \in Nat /\ level > 0
        BY <1>2, <1>5, <2>2, <4>1
      <4> HIDE DEF known
      <4>6. /\ Chain(input, Append(preds, sub)) /\ Len(Append(preds, sub)) = level
            /\ Children(sub) = PointsOf(input, Append(preds, sub), level + 1)
            /\ Agrees(known, Append(preds, sub))
        BY <2>2, <4>1, <4>2, <4>4, <4>5, OneMore
      <4> QED BY <4>3, <4>6 DEF known
    <3>2. ASSUME call.kind = "upsample"
          PROVE  /\ level + 1 <= call.last
                 /\ Kind(engine) = Kind(done.by) =>
                       Children(sub) = PointsOf(input, done.subs, level + 1)
      <4>1. /\ done.decoded["shape"] # Bad /\ done.latents["texture"] = Bad
            /\ level <= call.last
            /\ Kind(engine) = Kind(done.by) => hidden.coords = PointsOf(input, done.subs, level)
        BY <1>1, <3>2 DEF IInv, Decoding
      <4>2. level # call.last
        BY <1>1, <3>2 DEF AtEnd, Stops
      <4>3. level + 1 <= call.last
        BY <1>2, <1>3, <3>2, <4>1, <4>2
      <4>4. ASSUME Kind(engine) = Kind(done.by)
            PROVE  Children(sub) = PointsOf(input, done.subs, level + 1)
        <5> DEFINE old == chose[Kind(engine)]
                   r == done.subs[level]
        <5>1. Chain(input, done.subs) /\ Len(done.subs) = L - 1 /\ Agrees(old, done.subs)
          BY <1>1, <4>1, <4>4 DEF IInv, Decoded
        <5>2. level \in 1..Len(done.subs)
          BY <1>2, <1>4, <5>1
        <5>3. /\ Subdivision(r) /\ r.coords = hidden.coords
              /\ \A i \in DOMAIN r.coords : /\ <<level, r.coords[i]>> \in DOMAIN old
                                            /\ old[<<level, r.coords[i]>>] = r.kids[i]
          BY <4>1, <4>4, <5>1, <5>2 DEF Chain, Agrees
        <5> HIDE DEF old, r
        <5>4. r.kids \in [DOMAIN r.coords -> SUBSET (0..7)]
          BY <5>3 DEF Subdivision
        <5>5. \A i \in DOMAIN hidden.coords : p[i] = r.kids[i]
          <6> TAKE i \in DOMAIN hidden.coords
          <6>1. i \in DOMAIN p
            BY <2>2
          <6>2. <<level, hidden.coords[i]>> \in DOMAIN old /\ old[<<level, hidden.coords[i]>>] = r.kids[i]
            BY <5>3
          <6> QED BY <2>4, <6>1, <6>2 DEF old
        <5>6. p = r.kids
          BY <2>4, <5>3, <5>4, <5>5
        <5>7. Children(sub) = Children(r)
          BY <2>2, <5>3, <5>6, ChildrenSame
        <5>8. level \in Nat /\ level > 0
          BY <1>2
        <5>9. PointsOf(input, done.subs, level + 1) = Children(done.subs[level])
          BY <5>8, PointsAfter
        <5> QED BY <5>7, <5>9 DEF r
      <4> QED BY <4>3, <4>4
    <3> QED BY <1>1, <1>6, <2>3, <2>8, <3>1, <3>2, WentUpKeeps
  <2> QED BY <2>6, <2>7, <2>8
<1>7. CASE call.stage = "texture"
  <2> DEFINE sub == done.subs[level]
  <2>1. call.kind = "decode" /\ GoUp(sub) /\ chose' = chose
    BY <1>1, <1>3, <1>4, <1>7
  <2>2. done.decoded["shape"] # Bad /\ hidden.coords = PointsOf(input, done.subs, level)
    BY <1>1, <1>7, <2>1 DEF IInv, Decoding
  <2>3. Chain(input, done.subs) /\ Len(done.subs) = L - 1
    BY <2>2 DEF IInv, Decoded
  <2>4. level \in 1..Len(done.subs)
    BY <1>2, <1>4, <2>3
  <2>5. Subdivision(sub) /\ sub.batch = hidden.batch /\ sub.coords = hidden.coords
    BY <1>5, <2>2, <2>3, <2>4 DEF Chain
  <2>6. Known
    BY <2>1, NothingLearnt
  <2> HIDE DEF sub
  <2>7. GiveUp("empty") \/ WentUp(sub)
    BY <1>1, <1>4, <2>1, <2>5, GoUpIs
  <2>8. CASE GiveUp("empty")
    BY <1>1, <2>6, <2>8, GiveUpKeeps
  <2>9. CASE WentUp(sub)
    <3>1. level \in Nat /\ level > 0
      BY <1>2
    <3>2. Children(sub) = PointsOf(input, done.subs, level + 1)
      BY <3>1, PointsAfter DEF sub
    <3> QED BY <1>1, <1>7, <2>1, <2>6, <2>9, <3>2, WentUpKeeps
  <2> QED BY <2>7, <2>8, <2>9
<1> QED BY <1>3, <1>6, <1>7 DEF Stages

\* All that a decoder of the shape puts down.
PutSubs(d, x)   == [d EXCEPT !.subs = x]
PutCoords(d, x) == [d EXCEPT !.coords = x]
PutBy(d, x)     == [d EXCEPT !.by = x]

\* Replacing subdivisions, coordinates and engine leaves the other results.
LEMMA PutChainIs ==
    ASSUME NEW d, Results(d), NEW p, NEW o, NEW e
    PROVE  LET r == PutBy(PutCoords(PutSubs(d, p), o), e)
           IN  /\ Results(r) /\ r.subs = p /\ r.coords = o /\ r.by = e
               /\ r.latents = d.latents /\ r.decoded = d.decoded /\ r.up = d.up
               /\ r.mesh = d.mesh
<1> DEFINE f == Fields(d.latents, d.decoded, p, o, e, d.up, d.mesh)
           r == PutBy(PutCoords(PutSubs(d, p), o), e)
<1>1. r = f
  <2> DEFINE g == Fields(d.latents, d.decoded, d.subs, d.coords, d.by, d.up, d.mesh)
             g1 == Fields(d.latents, d.decoded, p, d.coords, d.by, d.up, d.mesh)
             g2 == Fields(d.latents, d.decoded, p, o, d.by, d.up, d.mesh)
  <2>1. PutSubs(g, p) = g1
    BY DEF Fields, PutSubs
  <2>2. PutCoords(g1, o) = g2
    BY DEF Fields, PutCoords
  <2>3. PutBy(g2, e) = f
    BY DEF Fields, PutBy
  <2>4. d = g
    BY ResultsAre
  <2> HIDE DEF g, g1, g2, f
  <2> QED BY <2>1, <2>2, <2>3, <2>4
<1>2. /\ f.latents = d.latents /\ f.decoded = d.decoded /\ f.subs = p
      /\ f.coords = o /\ f.by = e /\ f.up = d.up /\ f.mesh = d.mesh
  BY FieldsAre
<1>3. f = Fields(f.latents, f.decoded, f.subs, f.coords, f.by, f.up, f.mesh)
  <2>1. f = Fields(d.latents, d.decoded, p, o, e, d.up, d.mesh)
    OBVIOUS
  <2> HIDE DEF f
  <2> QED BY <1>2, <2>1
<1> HIDE DEF f
<1>4. Results(f)
  BY <1>2, <1>3, ResultsAre
<1> QED BY <1>1, <1>2, <1>4

PutShape(d, s, x, p, o, e) ==
    [d EXCEPT !.decoded[s] = x, !.subs = p, !.coords = o, !.by = e]
PutTexture(d, s, x) ==
    [d EXCEPT !.decoded[s] = x, !.subs = @, !.coords = @, !.by = @]

\* What the end of a decoder puts down, one result after the other.
LEMMA PutAllIs ==
    ASSUME NEW d, NEW s, NEW x, NEW p, NEW o, NEW e, NEW q, q = PutDecoded(d, s, x)
    PROVE  /\ PutShape(d, s, x, p, o, e) = PutBy(PutCoords(PutSubs(q, p), o), e)
           /\ PutTexture(d, s, x)
                 = PutBy(PutCoords(PutSubs(q, q.subs), PutSubs(q, q.subs).coords),
                         PutCoords(PutSubs(q, q.subs), PutSubs(q, q.subs).coords).by)
<1>1. PutShape(d, s, x, p, o, e) = PutBy(PutCoords(PutSubs(q, p), o), e)
  BY DEF PutShape, PutBy, PutCoords, PutSubs, PutDecoded
<1>2. PutTexture(d, s, x)
         = PutBy(PutCoords(PutSubs(q, q.subs), PutSubs(q, q.subs).coords),
                 PutCoords(PutSubs(q, q.subs), PutSubs(q, q.subs).coords).by)
  BY DEF PutTexture, PutBy, PutCoords, PutSubs, PutDecoded
<1> QED BY <1>1, <1>2

\* A decoder that is through all levels has used all weights; what it hands over
\* is at the points it went to.
LEMMA LastIs ==
    ASSUME IInv, pc = "decode", AtEnd, call.kind = "decode"
    PROVE  LET x == Linear(LayerNorm(hidden), Hp.out)
           IN  /\ level = L /\ at = Len(Weights(Hp)) /\ call.stage \in Stages
               /\ OfInput(input, x, Decoder[call.stage].out, SizeAt(input)[L])
               /\ x.coords = hidden.coords /\ x # Bad
<1> DEFINE out == Hp.out
           x == Linear(LayerNorm(hidden), out)
<1>1. /\ call \in Calls /\ level \in 1..L /\ at = First(Hp, level) + block
      /\ OfInput(input, hidden, Hp.ch[level], SizeAt(input)[level])
  BY DEF IInv, Decoding
<1>2. call.stage \in Stages
  BY <1>1, CallsAre
<1>3. Len(Hp.ch) = L /\ out \in Nat \ {0}
  BY <1>2, DecoderIs DEF Hp
<1>4. level = L /\ block = Hp.blocks[level]
  BY <1>3 DEF AtEnd
<1>5. at = Len(Weights(Hp))
  <2>1. First(Hp, L) + Hp.blocks[L] = Len(Weights(Hp))
    BY <1>2, WeightsAt DEF Hp
  <2> QED BY <1>1, <1>4, <2>1
<1>6. Good(hidden) /\ Own(hidden, hidden.deps) /\ hidden.batch = input.batch
      /\ hidden.size = SizeAt(input)[L]
  BY <1>1, <1>4 DEF OfInput
<1> HIDE DEF out
<1>7. /\ Good(x) /\ x.ch = out /\ x.deps = hidden.deps /\ x.coords = hidden.coords
      /\ x.batch = hidden.batch /\ x.size = hidden.size
  <2>1. x = With(hidden, out, hidden.deps)
    BY <1>3, <1>6, NormIs, LinearIs
  <2>2. ForRows(hidden, hidden.deps)
    BY <1>6, GoodIs
  <2> HIDE DEF x
  <2> QED BY <1>3, <1>6, <2>1, <2>2, WithIsGood
<1> HIDE DEF x
<1>8. OfInput(input, x, out, SizeAt(input)[L])
  BY <1>6, <1>7 DEF OfInput, Own
<1>9. x # Bad
  BY <1>7, NoneIsBad
<1> QED BY <1>2, <1>4, <1>5, <1>7, <1>8, <1>9 DEF x, out, Hp

\* The coordinates of all levels: of the subdivisions, then the last.
LEMMA CoordsAre ==
    ASSUME NEW inp, NEW subs, Chain(inp, subs), Len(subs) = L - 1, NEW last,
           last = PointsOf(inp, subs, L)
    PROVE  [l \in DOMAIN subs |-> subs[l].coords] \o <<last>>
             = [l \in 1..L |-> PointsOf(inp, subs, l)]
<1> DEFINE s == [l \in DOMAIN subs |-> subs[l].coords]
           n == L - 1
           X == {s[l] : l \in 1..n} \cup {last}
<1>1. L \in Nat \ {0} /\ n \in Nat /\ n + 1 = L
  BY DecoderIs DEF Stages
<1>2. /\ DOMAIN subs = 1..n /\ \A l \in 1..n : subs[l].coords = PointsOf(inp, subs, l)
  <2>1. subs = [l \in 1..Len(subs) |-> subs[l]] /\ Len(subs) = n
        /\ \A l \in 1..Len(subs) : subs[l].coords = PointsOf(inp, subs, l)
    BY DEF Chain
  <2> HIDE DEF n
  <2> QED BY <2>1
<1> HIDE DEF n
<1>3. s = [l \in 1..n |-> s[l]] /\ \A l \in 1..n : s[l] = PointsOf(inp, subs, l) /\ s[l] \in X
  BY <1>2
<1> HIDE DEF s, X
<1>4. s \in Seq(X) /\ Len(s) = n
  BY <1>1, <1>3, LenIs
<1>5. last \in X
  BY DEF X
<1> DEFINE r == s \o <<last>>
<1>6. /\ r \in Seq(X) /\ Len(r) = L /\ r[L] = last /\ \A l \in 1..n : r[l] = s[l]
  BY <1>1, <1>4, <1>5
<1> HIDE DEF r
<1>7. \A l \in 1..L : r[l] = PointsOf(inp, subs, l)
  <2> TAKE l \in 1..L
  <2>1. l \in 1..n \/ l = L
    BY <1>1
  <2> QED BY <1>3, <1>6, <2>1
<1>8. r = [l \in 1..L |-> PointsOf(inp, subs, l)]
  BY <1>6, <1>7
<1> QED BY <1>8 DEF r, s

\* Upsampled coordinates are those decoding will have.
LEMMA UpsampleEndKeeps ==
    ASSUME IInv, DecodeEnd, call.kind = "upsample"
    PROVE  IInv'
<1> DEFINE u == [coords |-> hidden.coords, last |-> call.last, by |-> engine]
<1>1. /\ pc = "decode" /\ AtEnd /\ done' = PutUp(done, u) /\ pc' = "idle" /\ why' = why
      /\ input' = input /\ mode' = mode /\ hidden' = hidden /\ chose' = chose
  BY DEF DecodeEnd, PutUp, walk
<1>2. /\ call \in Calls /\ level \in 1..L /\ engine \in Engines
      /\ done.decoded["shape"] # Bad /\ level <= call.last
      /\ Kind(engine) = Kind(done.by) => hidden.coords = PointsOf(input, done.subs, level)
  BY <1>1 DEF IInv, Decoding
<1>3. call.stage \in Stages /\ call.last \in 1..L /\ L \in Nat /\ Len(Hp.ch) = L
  BY <1>2, CallsAre, DecoderIs DEF Hp
<1>4. level = call.last
  BY <1>1, <1>2, <1>3 DEF AtEnd, Stops
<1>5. done.coords = [l \in 1..L |-> PointsOf(input, done.subs, l)]
  BY <1>2 DEF IInv, Decoded
<1>6. /\ Results(done') /\ done'.up = u
      /\ done'.latents = done.latents /\ done'.decoded = done.decoded
      /\ done'.subs = done.subs /\ done'.coords = done.coords
      /\ done'.by = done.by /\ done'.mesh = done.mesh
  <2>1. Results(done)
    BY DEF IInv, Control
  <2> HIDE DEF u
  <2> QED BY <1>1, <2>1, PutUpIs
<1>7. u.coords = hidden.coords /\ u.last = call.last /\ u.by = engine
  OBVIOUS
<1> HIDE DEF u
<1>8. UpsampledLikeDecoded'
  <2>1. ASSUME Kind(u.by) = Kind(done.by) PROVE u.coords = done.coords[u.last]
    BY <1>2, <1>3, <1>4, <1>5, <1>7, <2>1
  <2> QED BY <1>6, <2>1 DEF UpsampledLikeDecoded
<1>9. Control'
  BY <1>1, <1>6 DEF IInv, Control, OnlyNumbersFail
<1>10. Latents' /\ QuadsCovered'
  BY <1>1, <1>6 DEF IInv, Latents, QuadsCovered
<1>11. Undecoded' /\ Flowing' /\ Decoding'
  BY <1>1, <1>2, <1>6 DEF Undecoded, Flowing, Decoding
<1>12. Decoded'
  BY <1>1, <1>6, <1>8 DEF IInv, Decoded
<1> QED BY <1>9, <1>10, <1>11, <1>12 DEF IInv

\* The decoded tensor has the points of the last level.
LEMMA DecodeEndKeeps ==
    ASSUME IInv, DecodeEnd
    PROVE  IInv'
<1> DEFINE s == call.stage
           x == Linear(LayerNorm(hidden), Hp.out)
           o == [l \in DOMAIN preds |-> preds[l].coords] \o <<hidden.coords>>
           q == PutDecoded(done, s, x)
           b == Hp.pred
<1>1. pc = "decode" /\ AtEnd
  BY DEF DecodeEnd
<1>2. call \in Calls /\ engine \in Engines
  BY <1>1 DEF IInv, Decoding
<1>3. call.kind \in {"decode", "upsample"} /\ s \in Stages
  BY <1>2, CallsAre
<1>4. CASE call.kind = "upsample"
  BY <1>4, UpsampleEndKeeps
<1>5. CASE call.kind = "decode"
  <2>1. /\ level = L /\ at = Len(Weights(Hp))
        /\ OfInput(input, x, Decoder[s].out, SizeAt(input)[L])
        /\ x.coords = hidden.coords /\ x # Bad
    BY <1>1, <1>5, LastIs
  <2>2. /\ pc' = "idle" /\ why' = why /\ input' = input /\ mode' = mode /\ hidden' = hidden
        /\ chose' = chose
        /\ done' = [done EXCEPT !.decoded[s] = x, !.subs = IF b THEN preds ELSE @,
                                !.coords = IF b THEN o ELSE @, !.by = IF b THEN engine ELSE @]
    BY <1>5, <2>1 DEF DecodeEnd, walk
  <2>3. Results(done)
    BY DEF IInv, Control
  <2>4. b = (s = "shape") /\ b \in BOOLEAN
    BY <1>3, DecoderIs DEF Hp
  <2> HIDE DEF x, o, b, s, q
  <2>5. q = PutDecoded(done, s, x)
    BY DEF q
  <2>6. /\ Results(q) /\ q.decoded[s] = x
        /\ \A r \in Stages : r # s => q.decoded[r] = done.decoded[r]
        /\ q.latents = done.latents /\ q.subs = done.subs /\ q.coords = done.coords
        /\ q.by = done.by /\ q.up = done.up /\ q.mesh = done.mesh
    BY <1>3, <2>3, PutDecodedIs DEF q, s
  <2>7. CASE s = "shape"
    <3>1. done' = PutBy(PutCoords(PutSubs(q, preds), o), engine)
      <4>1. done' = PutShape(done, s, x, preds, o, engine)
        BY <2>2, <2>4, <2>7 DEF PutShape
      <4> QED BY <2>5, <4>1, PutAllIs
    <3>2. /\ Results(done') /\ done'.subs = preds /\ done'.coords = o /\ done'.by = engine
          /\ done'.latents = q.latents /\ done'.decoded = q.decoded /\ done'.up = q.up
          /\ done'.mesh = q.mesh
      BY <2>6, <3>1, PutChainIs
    <3>3. /\ done.decoded["shape"] = Bad /\ Chain(input, preds) /\ Len(preds) = L - 1
          /\ hidden.coords = PointsOf(input, preds, L) /\ Agrees(chose[Kind(engine)], preds)
          /\ done.latents["shape"] # Bad
      BY <1>1, <1>5, <2>1, <2>7 DEF IInv, Decoding, s
    <3>4. done.up = None /\ done.mesh = None /\ done.latents["texture"] = Bad
          /\ done.decoded["texture"] = Bad
      BY <3>3 DEF IInv, Undecoded
    <3>5. o = [l \in 1..L |-> PointsOf(input, preds, l)]
      BY <3>3, CoordsAre DEF o
    <3>6. done'.decoded["shape"] = x /\ done'.decoded["texture"] = Bad
      BY <2>6, <2>7, <3>2, <3>4 DEF Stages
    <3>7. Control'
      BY <2>2, <3>2 DEF IInv, Control, OnlyNumbersFail
    <3>8. Latents'
      BY <2>2, <2>6, <3>2 DEF IInv, Latents
    <3>9. QuadsCovered' /\ Undecoded' /\ Flowing' /\ Decoding'
      BY <2>1, <2>2, <2>6, <3>2, <3>4, <3>6 DEF QuadsCovered, Undecoded, Flowing, Decoding
    <3>10. Decoded'
      <4>1. UpsampledLikeDecoded'
        BY <2>6, <3>2, <3>4 DEF UpsampledLikeDecoded
      <4>2. \A r \in Stages : done'.decoded[r] # Bad =>
               /\ OfInput(input, done'.decoded[r], Decoder[r].out, SizeAt(input)[L])
               /\ done'.decoded[r].coords = PointsOf(input, preds, L)
        BY <2>1, <2>7, <3>3, <3>6 DEF Stages
      <4> QED BY <1>2, <2>2, <2>6, <3>2, <3>3, <3>5, <4>1, <4>2 DEF Decoded
    <3> QED BY <3>7, <3>8, <3>9, <3>10 DEF IInv
  <2>8. CASE s = "texture"
    <3>1. done' = PutBy(PutCoords(PutSubs(q, q.subs), PutSubs(q, q.subs).coords),
                        PutCoords(PutSubs(q, q.subs), PutSubs(q, q.subs).coords).by)
      <4>1. done' = PutTexture(done, s, x)
        BY <2>2, <2>4, <2>8 DEF PutTexture
      <4> QED BY <2>5, <4>1, PutAllIs
    <3>2. /\ Results(done') /\ done'.subs = q.subs
          /\ done'.latents = q.latents /\ done'.decoded = q.decoded /\ done'.up = q.up
          /\ done'.mesh = q.mesh /\ done'.coords = PutSubs(q, q.subs).coords
          /\ done'.by = PutCoords(PutSubs(q, q.subs), PutSubs(q, q.subs).coords).by
      BY <2>6, <3>1, PutChainIs
    <3>3. PutSubs(q, q.subs) = q
      <4>1. q = Fields(q.latents, q.decoded, q.subs, q.coords, q.by, q.up, q.mesh)
        BY <2>6, ResultsAre
      <4> QED BY <4>1 DEF Fields, PutSubs
    <3>4. PutCoords(q, q.coords) = q
      <4>1. q = Fields(q.latents, q.decoded, q.subs, q.coords, q.by, q.up, q.mesh)
        BY <2>6, ResultsAre
      <4> QED BY <4>1 DEF Fields, PutCoords
    <3>5. done'.coords = done.coords /\ done'.by = done.by /\ done'.subs = done.subs
          /\ done'.latents = done.latents /\ done'.up = done.up /\ done'.mesh = done.mesh
      BY <2>6, <3>2, <3>3, <3>4
    <3>6. done'.decoded["texture"] = x /\ done'.decoded["shape"] = done.decoded["shape"]
      BY <2>6, <2>8, <3>2 DEF Stages
    <3>7. /\ done.decoded["shape"] # Bad /\ hidden.coords = PointsOf(input, done.subs, L)
          /\ done.latents["texture"] # Bad
      BY <1>1, <1>5, <2>1, <2>8 DEF IInv, Decoding, s
    <3>8. Control'
      BY <2>2, <3>2 DEF IInv, Control, OnlyNumbersFail
    <3>9. Latents' /\ QuadsCovered'
      BY <2>2, <3>5 DEF IInv, Latents, QuadsCovered
    <3>10. Undecoded' /\ Flowing' /\ Decoding'
      BY <2>2, <3>6, <3>7 DEF Undecoded, Flowing, Decoding
    <3>11. Decoded'
      <4>1. UpsampledLikeDecoded'
        BY <3>5, <3>7 DEF UpsampledLikeDecoded, IInv, Decoded
      <4>2. \A r \in Stages : done'.decoded[r] # Bad =>
               /\ OfInput(input, done'.decoded[r], Decoder[r].out, SizeAt(input)[L])
               /\ done'.decoded[r].coords = PointsOf(input, done.subs, L)
        BY <2>1, <2>8, <3>6, <3>7 DEF Stages, IInv, Decoded
      <4> QED BY <2>2, <3>5, <3>7, <4>1, <4>2 DEF IInv, Decoded
    <3> QED BY <3>8, <3>9, <3>10, <3>11 DEF IInv
  <2> QED BY <1>3, <2>7, <2>8 DEF s, Stages
<1> QED BY <1>3, <1>4, <1>5

-----------------------------------------------------------------------------
(* The quads of a mesh.                                                    *)

\* The four voxels around an edge of each axis.
LEMMA AroundIs ==
    ASSUME NEW c \in Point
    PROVE  /\ Around(c, 1)[1] = c /\ Around(c, 2)[1] = c /\ Around(c, 3)[1] = c
           /\ Around(c, 1)[2] = <<c[1], c[2], c[3], c[4] + 1>>
           /\ Around(c, 1)[3] = <<c[1], c[2], c[3] + 1, c[4] + 1>>
           /\ Around(c, 1)[4] = <<c[1], c[2], c[3] + 1, c[4]>>
           /\ Around(c, 2)[2] = <<c[1], c[2] + 1, c[3], c[4]>>
           /\ Around(c, 2)[3] = <<c[1], c[2] + 1, c[3], c[4] + 1>>
           /\ Around(c, 2)[4] = <<c[1], c[2], c[3], c[4] + 1>>
           /\ Around(c, 3)[2] = <<c[1], c[2], c[3] + 1, c[4]>>
           /\ Around(c, 3)[3] = <<c[1], c[2] + 1, c[3] + 1, c[4]>>
           /\ Around(c, 3)[4] = <<c[1], c[2] + 1, c[3], c[4]>>
<1>1. c = <<c[1], c[2], c[3], c[4]>> /\ \A a \in 1..4 : c[a] \in Int
  BY PointIs
<1>2. /\ c[2] \in Int /\ c[3] \in Int /\ c[4] \in Int
      /\ c[2] + 0 = c[2] /\ c[3] + 0 = c[3] /\ c[4] + 0 = c[4]
  BY <1>1
<1>4. /\ Around(c, 1)[1] = <<c[1], c[2] + 0, c[3] + 0, c[4] + 0>>
      /\ Around(c, 1)[2] = <<c[1], c[2] + 0, c[3] + 0, c[4] + 1>>
      /\ Around(c, 1)[3] = <<c[1], c[2] + 0, c[3] + 1, c[4] + 1>>
      /\ Around(c, 1)[4] = <<c[1], c[2] + 0, c[3] + 1, c[4] + 0>>
  BY DEF Around
<1>5. /\ Around(c, 2)[1] = <<c[1], c[2] + 0, c[3] + 0, c[4] + 0>>
      /\ Around(c, 2)[2] = <<c[1], c[2] + 1, c[3] + 0, c[4] + 0>>
      /\ Around(c, 2)[3] = <<c[1], c[2] + 1, c[3] + 0, c[4] + 1>>
      /\ Around(c, 2)[4] = <<c[1], c[2] + 0, c[3] + 0, c[4] + 1>>
  BY DEF Around
<1>6. /\ Around(c, 3)[1] = <<c[1], c[2] + 0, c[3] + 0, c[4] + 0>>
      /\ Around(c, 3)[2] = <<c[1], c[2] + 0, c[3] + 1, c[4] + 0>>
      /\ Around(c, 3)[3] = <<c[1], c[2] + 1, c[3] + 1, c[4] + 0>>
      /\ Around(c, 3)[4] = <<c[1], c[2] + 1, c[3] + 0, c[4] + 0>>
  BY DEF Around
<1> QED BY <1>1, <1>2, <1>4, <1>5, <1>6

\* The way from a voxel to another in one number.
Turn(x, y) == (y[2] - x[2]) + 3 * (y[3] - x[3]) + 9 * (y[4] - x[4])

\* What tells the sides of a quad apart: a number per axis and side.
LEMMA TurnIs ==
    ASSUME NEW c \in Point
    PROVE  /\ Turn(Around(c, 1)[1], Around(c, 1)[2]) = 9
           /\ Turn(Around(c, 1)[1], Around(c, 1)[3]) = 12
           /\ Turn(Around(c, 1)[4], Around(c, 1)[2]) = 6
           /\ Turn(Around(c, 2)[1], Around(c, 2)[2]) = 1
           /\ Turn(Around(c, 2)[1], Around(c, 2)[3]) = 10
           /\ Turn(Around(c, 2)[4], Around(c, 2)[2]) = -8
           /\ Turn(Around(c, 3)[1], Around(c, 3)[2]) = 3
           /\ Turn(Around(c, 3)[1], Around(c, 3)[3]) = 4
           /\ Turn(Around(c, 3)[4], Around(c, 3)[2]) = 2
<1>1. c[2] \in Int /\ c[3] \in Int /\ c[4] \in Int
  BY PointIs
<1>2. /\ Turn(Around(c, 1)[1], Around(c, 1)[2]) = 9
      /\ Turn(Around(c, 1)[1], Around(c, 1)[3]) = 12
      /\ Turn(Around(c, 1)[4], Around(c, 1)[2]) = 6
  BY <1>1, AroundIs DEF Turn
<1>3. /\ Turn(Around(c, 2)[1], Around(c, 2)[2]) = 1
      /\ Turn(Around(c, 2)[1], Around(c, 2)[3]) = 10
      /\ Turn(Around(c, 2)[4], Around(c, 2)[2]) = -8
  BY <1>1, AroundIs DEF Turn
<1>4. /\ Turn(Around(c, 3)[1], Around(c, 3)[2]) = 3
      /\ Turn(Around(c, 3)[1], Around(c, 3)[3]) = 4
      /\ Turn(Around(c, 3)[4], Around(c, 3)[2]) = 2
  BY <1>1, AroundIs DEF Turn
<1> QED BY <1>2, <1>3, <1>4

\* How the triangles of a quad begin.
Sides == {<<1, 2>>, <<1, 3>>, <<4, 2>>}

TurnOf(a, s) ==
    CASE a = 1 -> (IF s = <<1, 2>> THEN 9 ELSE IF s = <<1, 3>> THEN 12 ELSE 6)
      [] a = 2 -> (IF s = <<1, 2>> THEN 1 ELSE IF s = <<1, 3>> THEN 10 ELSE -8)
      [] OTHER -> (IF s = <<1, 2>> THEN 3 ELSE IF s = <<1, 3>> THEN 4 ELSE 2)

\* No two sides of quads have the same.
LEMMA TurnsDiffer ==
    ASSUME NEW a \in 1..3, NEW b \in 1..3, NEW s \in Sides, NEW r \in Sides,
           TurnOf(a, s) = TurnOf(b, r)
    PROVE  a = b /\ s = r
<1>1. \A x \in Sides : x \in {<<1, 2>>, <<1, 3>>, <<4, 2>>}
  BY DEF Sides
<1>2. <<1, 2>> # <<1, 3>> /\ <<1, 2>> # <<4, 2>> /\ <<1, 3>> # <<4, 2>>
  OBVIOUS
<1>3. (a = 1 \/ a = 2 \/ a = 3) /\ (b = 1 \/ b = 2 \/ b = 3)
  OBVIOUS
<1> QED BY <1>1, <1>2, <1>3 DEF TurnOf

\* Two voxels that a triangle begins with belong to one edge only.
LEMMA EdgeFound ==
    ASSUME NEW c \in Point, NEW d \in Point, NEW a \in 1..3, NEW b \in 1..3,
           NEW s \in Sides, NEW r \in Sides,
           Around(c, a)[s[1]] = Around(d, b)[r[1]], Around(c, a)[s[2]] = Around(d, b)[r[2]]
    PROVE  c = d /\ a = b /\ s = r
<1>1. ASSUME NEW x \in Point, NEW i \in 1..3, NEW t \in Sides
      PROVE  Turn(Around(x, i)[t[1]], Around(x, i)[t[2]]) = TurnOf(i, t)
  <2>1. (i = 1 \/ i = 2 \/ i = 3) /\ (t = <<1, 2>> \/ t = <<1, 3>> \/ t = <<4, 2>>)
    BY DEF Sides
  <2>2. <<1, 2>> # <<1, 3>> /\ <<1, 2>> # <<4, 2>> /\ <<1, 3>> # <<4, 2>>
    OBVIOUS
  <2>3. CASE i = 1
    BY <2>1, <2>2, <2>3, TurnIs DEF TurnOf
  <2>4. CASE i = 2
    BY <2>1, <2>2, <2>4, TurnIs DEF TurnOf
  <2>5. CASE i = 3
    BY <2>1, <2>2, <2>5, TurnIs DEF TurnOf
  <2> QED BY <2>1, <2>3, <2>4, <2>5
<1>2. TurnOf(a, s) = TurnOf(b, r)
  <2>1. Turn(Around(c, a)[s[1]], Around(c, a)[s[2]]) = TurnOf(a, s)
    BY <1>1
  <2>2. Turn(Around(d, b)[r[1]], Around(d, b)[r[2]]) = TurnOf(b, r)
    BY <1>1
  <2> QED BY <2>1, <2>2
<1>3. a = b /\ s = r
  BY <1>2, TurnsDiffer
<1>4. Around(c, a)[s[1]] = Around(d, a)[s[1]]
  BY <1>3
<1>5. s[1] = 1 \/ s[1] = 4
  BY DEF Sides
<1>6. c = d
  <2>1. CASE s[1] = 1
    BY <1>4, <2>1, AroundIs
  <2>2. CASE s[1] = 4
    <3>1. /\ c = <<c[1], c[2], c[3], c[4]>> /\ d = <<d[1], d[2], d[3], d[4]>>
          /\ \A i \in 1..4 : c[i] \in Int /\ d[i] \in Int
      BY PointIs
    <3>2. Around(c, a)[4] = Around(d, a)[4] /\ (a = 1 \/ a = 2 \/ a = 3)
      BY <1>4, <2>2
    <3>3. CASE a = 1
      <4>1. <<c[1], c[2], c[3] + 1, c[4]>> = <<d[1], d[2], d[3] + 1, d[4]>>
        BY <3>2, <3>3, AroundIs
      <4>2. c[1] = d[1] /\ c[2] = d[2] /\ c[3] + 1 = d[3] + 1 /\ c[4] = d[4]
        BY <4>1
      <4>3. c[3] = d[3]
        BY <3>1, <4>2
      <4> QED BY <3>1, <4>2, <4>3
    <3>4. CASE a = 2
      <4>1. <<c[1], c[2], c[3], c[4] + 1>> = <<d[1], d[2], d[3], d[4] + 1>>
        BY <3>2, <3>4, AroundIs
      <4>2. c[1] = d[1] /\ c[2] = d[2] /\ c[3] = d[3] /\ c[4] + 1 = d[4] + 1
        BY <4>1
      <4>3. c[4] = d[4]
        BY <3>1, <4>2
      <4> QED BY <3>1, <4>2, <4>3
    <3>5. CASE a = 3
      <4>1. <<c[1], c[2] + 1, c[3], c[4]>> = <<d[1], d[2] + 1, d[3], d[4]>>
        BY <3>2, <3>5, AroundIs
      <4>2. c[1] = d[1] /\ c[2] + 1 = d[2] + 1 /\ c[3] = d[3] /\ c[4] = d[4]
        BY <4>1
      <4>3. c[2] = d[2]
        BY <3>1, <4>2
      <4> QED BY <3>1, <4>2, <4>3
    <3> QED BY <3>2, <3>3, <3>4, <3>5
  <2> QED BY <1>5, <2>1, <2>2
<1> QED BY <1>3, <1>6

\* The voxels around an edge are four, of the batch of its point.
LEMMA AroundDiffer ==
    ASSUME NEW c \in Point, NEW a \in 1..3
    PROVE  /\ \A n \in 1..4 : Around(c, a)[n][1] = c[1]
           /\ \A m, n \in 1..4 : Around(c, a)[m] = Around(c, a)[n] => m = n
<1>1. /\ c = <<c[1], c[2], c[3], c[4]>> /\ c[2] \in Int /\ c[3] \in Int /\ c[4] \in Int
      /\ c[2] + 1 # c[2] /\ c[3] + 1 # c[3] /\ c[4] + 1 # c[4]
  BY PointIs
<1>2. (a = 1 \/ a = 2 \/ a = 3) /\ \A n \in 1..4 : n = 1 \/ n = 2 \/ n = 3 \/ n = 4
  OBVIOUS
<1>3. CASE a = 1
  <2>1. \A n \in 1..4 : Around(c, a)[n][1] = c[1]
    BY <1>2, <1>3, AroundIs
  <2>2. /\ Around(c, a)[1] # Around(c, a)[2] /\ Around(c, a)[1] # Around(c, a)[3]
        /\ Around(c, a)[1] # Around(c, a)[4] /\ Around(c, a)[2] # Around(c, a)[3]
        /\ Around(c, a)[2] # Around(c, a)[4] /\ Around(c, a)[3] # Around(c, a)[4]
    BY <1>1, <1>3, AroundIs
  <2> QED BY <1>2, <2>1, <2>2
<1>4. CASE a = 2
  <2>1. \A n \in 1..4 : Around(c, a)[n][1] = c[1]
    BY <1>2, <1>4, AroundIs
  <2>2. /\ Around(c, a)[1] # Around(c, a)[2] /\ Around(c, a)[1] # Around(c, a)[3]
        /\ Around(c, a)[1] # Around(c, a)[4] /\ Around(c, a)[2] # Around(c, a)[3]
        /\ Around(c, a)[2] # Around(c, a)[4] /\ Around(c, a)[3] # Around(c, a)[4]
    BY <1>1, <1>4, AroundIs
  <2> QED BY <1>2, <2>1, <2>2
<1>5. CASE a = 3
  <2>1. \A n \in 1..4 : Around(c, a)[n][1] = c[1]
    BY <1>2, <1>5, AroundIs
  <2>2. /\ Around(c, a)[1] # Around(c, a)[2] /\ Around(c, a)[1] # Around(c, a)[3]
        /\ Around(c, a)[1] # Around(c, a)[4] /\ Around(c, a)[2] # Around(c, a)[3]
        /\ Around(c, a)[2] # Around(c, a)[4] /\ Around(c, a)[3] # Around(c, a)[4]
    BY <1>1, <1>5, AroundIs
  <2> QED BY <1>2, <2>1, <2>2
<1> QED BY <1>2, <1>3, <1>4, <1>5

\* Small sets of numbers are finite.
LEMMA FewElements ==
    /\ IsFiniteSet(1..2) /\ Cardinality(1..2) = 2
    /\ IsFiniteSet(1..3)
    /\ IsFiniteSet(1..4) /\ Cardinality(1..4) = 4
<1>1. PICK a \in Nat, b \in Nat, c \in Nat : a = 2 /\ b = 3 /\ c = 4
  OBVIOUS
<1>2. /\ IsFiniteSet(1..a) /\ Cardinality(1..a) = a
      /\ IsFiniteSet(1..b) /\ IsFiniteSet(1..c) /\ Cardinality(1..c) = c
  BY CountTo
<1> QED BY <1>1, <1>2

Place(t, c)  == CHOOSE i \in DOMAIN t.coords : t.coords[i] = c
Row(t, b, c) == Cardinality({i \in 1..Place(t, c) : t.coords[i][1] = b})

\* Rows of a batch, counted within it, are the rows of different points.
LEMMA RowsDiffer ==
    ASSUME NEW t, Good(t), NEW b, NEW c, NEW d, c[1] = b, d[1] = b,
           \E i \in DOMAIN t.coords : t.coords[i] = c,
           \E i \in DOMAIN t.coords : t.coords[i] = d,
           Row(t, b, c) = Row(t, b, d)
    PROVE  c = d
<1> DEFINE i == Place(t, c)
           j == Place(t, d)
           Upto(k) == {m \in 1..k : t.coords[m][1] = b}
<1>1. i \in DOMAIN t.coords /\ t.coords[i] = c /\ j \in DOMAIN t.coords /\ t.coords[j] = d
  BY DEF Place
<1>2. i \in Nat /\ j \in Nat /\ i > 0 /\ j > 0
  BY <1>1, GoodIs
<1>3. Cardinality(Upto(i)) = Cardinality(Upto(j))
  BY DEF Row
<1> HIDE DEF i, j
<1>4. ASSUME NEW m \in Nat, NEW n \in Nat, m < n, t.coords[n][1] = b,
             Cardinality(Upto(m)) = Cardinality(Upto(n))
      PROVE  FALSE
  <2>1. IsFiniteSet(1..n)
    BY FS_Interval
  <2>2. Upto(n) \in SUBSET (1..n)
    OBVIOUS
  <2>3. IsFiniteSet(Upto(n))
    BY <2>1, <2>2, FS_Subset
  <2>4. Upto(m) \in SUBSET Upto(n)
    BY <1>4
  <2>5. n \in Upto(n) /\ n \notin Upto(m)
    BY <1>4
  <2> HIDE DEF Upto
  <2>6. Upto(n) = Upto(m)
    BY <1>4, <2>3, <2>4, FS_Subset
  <2> QED BY <2>5, <2>6
<1>5. ~(i < j) /\ ~(j < i)
  <2>1. t.coords[i][1] = b /\ t.coords[j][1] = b
    BY <1>1
  <2> HIDE DEF Upto
  <2> QED BY <1>2, <1>3, <1>4, <2>1
<1>6. i = j
  BY <1>2, <1>5
<1> QED BY <1>1, <1>6

\* The quad of an edge.
QuadOf(t, b, e) == [n \in 1..4 |-> Row(t, b, Around(e[1], e[2])[n])]
Whole(t, b, crossed) ==
    {e \in crossed : e[1][1] = b /\ ToSet(Around(e[1], e[2])) \subseteq ToSet(t.coords)}

\* Quads are those of the edges that have all of their voxels.
LEMMA QuadsAre ==
    ASSUME NEW t, NEW b, NEW crossed
    PROVE  Quads(t, b, crossed) = {QuadOf(t, b, e) : e \in Whole(t, b, crossed)}
BY DEF Quads, QuadOf, Whole, Row, Place

\* The voxels around such an edge are points of its batch.
LEMMA WholeIs ==
    ASSUME NEW t, Good(t), NEW b, NEW crossed, crossed \subseteq Edges(t),
           NEW e \in Whole(t, b, crossed)
    PROVE  /\ e[1] \in Point /\ e[2] \in 1..3 /\ e = <<e[1], e[2]>>
           /\ \A n \in 1..4 : /\ Around(e[1], e[2])[n][1] = b
                              /\ \E i \in DOMAIN t.coords :
                                    t.coords[i] = Around(e[1], e[2])[n]
<1>1. PICK i \in DOMAIN t.coords, a \in 1..3 : e = <<t.coords[i], a>>
  BY DEF Whole, Edges
<1>2. e[1] \in Point /\ e[2] \in 1..3 /\ e = <<e[1], e[2]>>
  BY <1>1, GoodIs
<1>3. e[1][1] = b /\ ToSet(Around(e[1], e[2])) \subseteq ToSet(t.coords)
  BY DEF Whole
<1>4. DOMAIN Around(e[1], e[2]) = 1..4
  BY DEF Around
<1>5. \A n \in 1..4 : Around(e[1], e[2])[n] \in ToSet(t.coords)
  <2> TAKE n \in 1..4
  <2>1. Around(e[1], e[2])[n] \in ToSet(Around(e[1], e[2]))
    BY <1>4 DEF ToSet
  <2> QED BY <1>3, <2>1
<1>6. \A n \in 1..4 : \E j \in DOMAIN t.coords : t.coords[j] = Around(e[1], e[2])[n]
  BY <1>5 DEF ToSet
<1>7. \A n \in 1..4 : Around(e[1], e[2])[n][1] = b
  BY <1>2, <1>3, AroundDiffer
<1> QED BY <1>2, <1>6, <1>7

\* The corners of a quad are four rows.
LEMMA CornersDiffer ==
    ASSUME NEW t, Good(t), NEW b, NEW crossed, crossed \subseteq Edges(t),
           NEW e \in Whole(t, b, crossed)
    PROVE  \A m, n \in 1..4 : QuadOf(t, b, e)[m] = QuadOf(t, b, e)[n] => m = n
<1> DEFINE V == Around(e[1], e[2])
<1> SUFFICES ASSUME NEW m \in 1..4, NEW n \in 1..4, QuadOf(t, b, e)[m] = QuadOf(t, b, e)[n]
             PROVE  m = n
  OBVIOUS
<1>1. /\ e[1] \in Point /\ e[2] \in 1..3
      /\ V[m][1] = b /\ V[n][1] = b
      /\ \E i \in DOMAIN t.coords : t.coords[i] = V[m]
      /\ \E i \in DOMAIN t.coords : t.coords[i] = V[n]
  BY WholeIs
<1>2. Row(t, b, V[m]) = Row(t, b, V[n])
  BY DEF QuadOf
<1> HIDE DEF V
<1>3. V[m] = V[n]
  BY <1>1, <1>2, RowsDiffer
<1> QED BY <1>1, <1>3, AroundDiffer DEF V

\* The two corners a triangle begins with are those of one quad.
LEMMA QuadFound ==
    ASSUME NEW t, Good(t), NEW b, NEW crossed, crossed \subseteq Edges(t),
           NEW e \in Whole(t, b, crossed), NEW g \in Whole(t, b, crossed),
           NEW s \in Sides, NEW r \in Sides,
           QuadOf(t, b, e)[s[1]] = QuadOf(t, b, g)[r[1]],
           QuadOf(t, b, e)[s[2]] = QuadOf(t, b, g)[r[2]]
    PROVE  e = g
<1> DEFINE V == Around(e[1], e[2])
           W == Around(g[1], g[2])
<1>1. s[1] \in 1..4 /\ s[2] \in 1..4 /\ r[1] \in 1..4 /\ r[2] \in 1..4
  BY DEF Sides
<1>2. /\ e[1] \in Point /\ e[2] \in 1..3 /\ e = <<e[1], e[2]>>
      /\ g[1] \in Point /\ g[2] \in 1..3 /\ g = <<g[1], g[2]>>
  BY WholeIs
<1>3. /\ \A n \in 1..4 : V[n][1] = b /\ \E i \in DOMAIN t.coords : t.coords[i] = V[n]
      /\ \A n \in 1..4 : W[n][1] = b /\ \E i \in DOMAIN t.coords : t.coords[i] = W[n]
  BY WholeIs
<1>4. Row(t, b, V[s[1]]) = Row(t, b, W[r[1]]) /\ Row(t, b, V[s[2]]) = Row(t, b, W[r[2]])
  BY <1>1 DEF QuadOf
<1> HIDE DEF V, W
<1>5. V[s[1]] = W[r[1]]
  BY <1>1, <1>3, <1>4, RowsDiffer
<1>6. V[s[2]] = W[r[2]]
  BY <1>1, <1>3, <1>4, RowsDiffer
<1>7. e[1] = g[1] /\ e[2] = g[2]
  BY <1>2, <1>5, <1>6, EdgeFound DEF V, W
<1> QED BY <1>2, <1>7

\* There are finitely many quads.
LEMMA QuadsFinite ==
    ASSUME NEW t, Good(t), NEW b, NEW crossed, crossed \subseteq Edges(t)
    PROVE  IsFiniteSet(Quads(t, b, crossed))
<1> DEFINE D == DOMAIN t.coords
           P == D \X (1..3)
           E == Edges(t)
           W == Whole(t, b, crossed)
           Q == {QuadOf(t, b, e) : e \in W}
           f == [x \in P |-> <<t.coords[x[1]], x[2]>>]
           h == [e \in W |-> QuadOf(t, b, e)]
<1>1. IsFiniteSet(P)
  <2>1. D = 1..Len(t.coords) /\ Len(t.coords) \in Nat
    BY GoodIs
  <2>2. IsFiniteSet(1..Len(t.coords))
    BY <2>1, FS_Interval
  <2>3. IsFiniteSet(1..3)
    BY FewElements
  <2> QED BY <2>1, <2>2, <2>3, FS_Product
<1>2. f \in Surjection(P, E)
  <2>1. \A x \in P : f[x] \in E
    BY DEF Edges
  <2>2. \A y \in E : \E x \in P : f[x] = y
    <3> TAKE y \in E
    <3>1. PICK i \in D, a \in 1..3 : y = <<t.coords[i], a>>
      BY DEF Edges
    <3>2. <<i, a>> \in P /\ f[<<i, a>>] = y
      BY <3>1
    <3> QED BY <3>2
  <2>3. f \in [P -> E]
    BY <2>1
  <2> QED BY <2>2, <2>3 DEF Surjection
<1> HIDE DEF f, P, E
<1>3. IsFiniteSet(E)
  BY <1>1, <1>2, FS_Surjection
<1>4. W \in SUBSET E
  BY DEF Whole, E
<1> HIDE DEF W
<1>5. IsFiniteSet(W)
  BY <1>3, <1>4, FS_Subset
<1>6. h \in Surjection(W, Q)
  BY DEF Surjection
<1> HIDE DEF h, Q
<1>7. IsFiniteSet(Q)
  BY <1>5, <1>6, FS_Surjection
<1> QED BY <1>7, QuadsAre DEF Q, W

\* The two triangles of a quad.
Half(q, first, k) ==
    IF first THEN (IF k = 1 THEN <<q[1], q[2], q[3]>> ELSE <<q[1], q[3], q[4]>>)
             ELSE (IF k = 1 THEN <<q[1], q[2], q[4]>> ELSE <<q[4], q[2], q[3]>>)

\* A quad is cut along one diagonal or the other into two triangles.
LEMMA HalvesAre ==
    ASSUME NEW q, NEW first \in BOOLEAN
    PROVE  /\ Halves(q, first) = {Half(q, first, 1), Half(q, first, 2)}
           /\ \A k \in 1..2 : \E s \in Sides : /\ Half(q, first, k)[1] = q[s[1]]
                                              /\ Half(q, first, k)[2] = q[s[2]]
           /\ q[1] # q[4] /\ q[2] # q[3] => Half(q, first, 1) # Half(q, first, 2)
<1>1. Halves(q, first) = {Half(q, first, 1), Half(q, first, 2)}
  BY DEF Halves, Half
<1>2. \A k \in 1..2 : \E s \in Sides : /\ Half(q, first, k)[1] = q[s[1]]
                                       /\ Half(q, first, k)[2] = q[s[2]]
  <2> TAKE k \in 1..2
  <2>0. <<1, 2>> \in Sides /\ <<1, 3>> \in Sides /\ <<4, 2>> \in Sides
    BY DEF Sides
  <2>1. CASE k = 1
    <3>1. Half(q, first, k)[1] = q[1] /\ Half(q, first, k)[2] = q[2]
      BY <2>1 DEF Half
    <3> QED BY <2>0, <3>1
  <2>2. CASE k = 2 /\ first
    <3>1. Half(q, first, k)[1] = q[1] /\ Half(q, first, k)[2] = q[3]
      BY <2>2 DEF Half
    <3> QED BY <2>0, <3>1
  <2>3. CASE k = 2 /\ ~first
    <3>1. Half(q, first, k)[1] = q[4] /\ Half(q, first, k)[2] = q[2]
      BY <2>3 DEF Half
    <3> QED BY <2>0, <3>1
  <2> QED BY <2>1, <2>2, <2>3
<1>3. ASSUME q[1] # q[4], q[2] # q[3] PROVE Half(q, first, 1) # Half(q, first, 2)
  BY <1>3 DEF Half
<1> QED BY <1>1, <1>2, <1>3

\* Four different corners are four.
LEMMA FourElements ==
    ASSUME NEW q, DOMAIN q = 1..4, \A m, n \in 1..4 : q[m] = q[n] => m = n
    PROVE  Cardinality(ToSet(q)) = 4
<1> DEFINE f == [n \in 1..4 |-> q[n]]
           S == ToSet(q)
<1>1. f \in Bijection(1..4, S)
  <2>1. \A n \in 1..4 : f[n] \in S
    BY DEF ToSet
  <2>2. \A x \in S : \E n \in 1..4 : f[n] = x
    BY DEF ToSet
  <2>3. f \in [1..4 -> S]
    BY <2>1
  <2>4. \A m, n \in DOMAIN f : f[m] = f[n] => m = n
    OBVIOUS
  <2> HIDE DEF f, S
  <2> QED BY <2>2, <2>3, <2>4 DEF Bijection, Injection, Surjection, IsInjective
<1> HIDE DEF f
<1>2. ExistsBijection(1..4, S)
  BY <1>1 DEF ExistsBijection
<1>3. IsFiniteSet(1..4)
  BY FewElements
<1>4. Cardinality(1..4) = 4
  BY FewElements
<1> HIDE DEF S
<1>5. Cardinality(S) = Cardinality(1..4)
  BY <1>2, <1>3, FS_Bijection
<1> QED BY <1>4, <1>5 DEF S

\* The triangles of a quad go around it, whichever way it is cut.
LEMMA GoneAround ==
    ASSUME NEW q, NEW first \in BOOLEAN
    PROVE  \A n \in 1..4 : \E f \in Halves(q, first), m \in 1..3 :
               <<f[m], f[(m % 3) + 1]>> = <<q[n], q[(n % 4) + 1]>>
<1>0. (1 % 3) + 1 = 2 /\ (2 % 3) + 1 = 3 /\ (3 % 3) + 1 = 1
      /\ (1 % 4) + 1 = 2 /\ (2 % 4) + 1 = 3 /\ (3 % 4) + 1 = 4 /\ (4 % 4) + 1 = 1
  OBVIOUS
<1> DEFINE On(f, m, n) == <<f[m], f[(m % 3) + 1]>> = <<q[n], q[(n % 4) + 1]>>
<1>1. CASE first
  <2> DEFINE f == <<q[1], q[2], q[3]>>
             g == <<q[1], q[3], q[4]>>
  <2>1. f \in Halves(q, first) /\ g \in Halves(q, first)
    BY <1>1 DEF Halves
  <2>2. On(f, 1, 1) /\ On(f, 2, 2) /\ On(g, 2, 3) /\ On(g, 3, 4)
    BY <1>0
  <2> HIDE DEF f, g, On
  <2>3. \A n \in 1..4 : \E h \in Halves(q, first), m \in 1..3 : On(h, m, n)
    <3> TAKE n \in 1..4
    <3>1. n = 1 \/ n = 2 \/ n = 3 \/ n = 4
      OBVIOUS
    <3> QED BY <2>1, <2>2, <3>1
  <2> QED BY <2>3 DEF On
<1>2. CASE ~first
  <2> DEFINE f == <<q[1], q[2], q[4]>>
             g == <<q[4], q[2], q[3]>>
  <2>1. f \in Halves(q, first) /\ g \in Halves(q, first)
    BY <1>2 DEF Halves
  <2>2. On(f, 1, 1) /\ On(g, 2, 2) /\ On(g, 3, 3) /\ On(f, 3, 4)
    BY <1>0
  <2> HIDE DEF f, g, On
  <2>3. \A n \in 1..4 : \E h \in Halves(q, first), m \in 1..3 : On(h, m, n)
    <3> TAKE n \in 1..4
    <3>1. n = 1 \/ n = 2 \/ n = 3 \/ n = 4
      OBVIOUS
    <3> QED BY <2>1, <2>2, <3>1
  <2> QED BY <2>3 DEF On
<1> QED BY <1>1, <1>2

\* Two triangles for each quad, and no triangle of two.
LEMMA FacesCounted ==
    ASSUME NEW t, Good(t), NEW b, NEW crossed, crossed \subseteq Edges(t), NEW cut
    PROVE  LET Q == Quads(t, b, crossed)
           IN  /\ \A q \in Q : Cardinality(ToSet(q)) = 4
               /\ Cardinality(Faces(Q, cut)) = 2 * Cardinality(Q)
<1> DEFINE Q == Quads(t, b, crossed)
           W == Whole(t, b, crossed)
           F == Faces(Q, cut)
           P == Q \X (1..2)
           half(q, k) == Half(q, q \in cut, k)
           g == [x \in P |-> half(x[1], x[2])]
<1>1. \A q \in Q : \E e \in W : q = QuadOf(t, b, e)
  BY QuadsAre
<1>2. \A q \in Q : DOMAIN q = 1..4 /\ \A m, n \in 1..4 : q[m] = q[n] => m = n
  <2> TAKE q \in Q
  <2>1. PICK e \in W : q = QuadOf(t, b, e)
    BY <1>1
  <2>2. \A m, n \in 1..4 : QuadOf(t, b, e)[m] = QuadOf(t, b, e)[n] => m = n
    BY CornersDiffer
  <2>3. DOMAIN QuadOf(t, b, e) = 1..4
    BY DEF QuadOf
  <2> QED BY <2>1, <2>2, <2>3
<1>3. IsFiniteSet(Q)
  BY QuadsFinite
<1>4. ASSUME NEW q \in Q, NEW r \in Q, NEW s \in Sides, NEW u \in Sides,
             q[s[1]] = r[u[1]], q[s[2]] = r[u[2]]
      PROVE  q = r
  <2>1. PICK e \in W : q = QuadOf(t, b, e)
    BY <1>1
  <2>2. PICK d \in W : r = QuadOf(t, b, d)
    BY <1>1
  <2>3. e = d
    BY <1>4, <2>1, <2>2, QuadFound
  <2> QED BY <2>1, <2>2, <2>3
<1> HIDE DEF Q, W
<1>5. \A q \in Q : /\ Halves(q, q \in cut) = {half(q, 1), half(q, 2)}
                   /\ half(q, 1) # half(q, 2)
                   /\ \A k \in 1..2 : \E s \in Sides : /\ half(q, k)[1] = q[s[1]]
                                                      /\ half(q, k)[2] = q[s[2]]
  <2> TAKE q \in Q
  <2>1. q[1] # q[4] /\ q[2] # q[3]
    BY <1>2
  <2> DEFINE first == q \in cut
  <2>2. first \in BOOLEAN
    OBVIOUS
  <2> HIDE DEF first
  <2>3. /\ Halves(q, first) = {Half(q, first, 1), Half(q, first, 2)}
        /\ Half(q, first, 1) # Half(q, first, 2)
        /\ \A k \in 1..2 : \E s \in Sides : /\ Half(q, first, k)[1] = q[s[1]]
                                           /\ Half(q, first, k)[2] = q[s[2]]
    BY <2>1, <2>2, HalvesAre
  <2> QED BY <2>3 DEF first
<1> HIDE DEF half
<1>6. \A q \in Q, r \in Q, k \in 1..2, l \in 1..2 : half(q, k) = half(r, l) => q = r /\ k = l
  <2> TAKE q \in Q, r \in Q, k \in 1..2, l \in 1..2
  <2> HAVE half(q, k) = half(r, l)
  <2>1. PICK s \in Sides : half(q, k)[1] = q[s[1]] /\ half(q, k)[2] = q[s[2]]
    BY <1>5
  <2>2. PICK u \in Sides : half(r, l)[1] = r[u[1]] /\ half(r, l)[2] = r[u[2]]
    BY <1>5
  <2>3. q = r
    BY <1>4, <2>1, <2>2
  <2>4. half(q, 1) # half(q, 2) /\ (k = 1 \/ k = 2) /\ (l = 1 \/ l = 2)
    BY <1>5
  <2> QED BY <2>3, <2>4
<1>7. g \in Bijection(P, F)
  <2>1. \A x \in P : g[x] \in F
    <3> TAKE x \in P
    <3>1. x[1] \in Q /\ x[2] \in 1..2 /\ g[x] = half(x[1], x[2])
      OBVIOUS
    <3>2. half(x[1], x[2]) \in Halves(x[1], x[1] \in cut)
      <4>1. x[2] = 1 \/ x[2] = 2
        BY <3>1
      <4> QED BY <1>5, <3>1, <4>1
    <3> HIDE DEF g, P
    <3> QED BY <3>1, <3>2 DEF Faces
  <2>2. \A y \in F : \E x \in P : g[x] = y
    <3> TAKE y \in F
    <3>1. PICK q \in Q : y \in Halves(q, q \in cut)
      BY DEF Faces
    <3>2. y = half(q, 1) \/ y = half(q, 2)
      BY <1>5, <3>1
    <3>3. PICK k \in 1..2 : y = half(q, k)
      BY <3>2
    <3>4. <<q, k>> \in P /\ g[<<q, k>>] = half(q, k)
      OBVIOUS
    <3> QED BY <3>3, <3>4
  <2>3. \A x, y \in P : g[x] = g[y] => x = y
    <3> TAKE x \in P, y \in P
    <3> HAVE g[x] = g[y]
    <3>1. /\ x[1] \in Q /\ x[2] \in 1..2 /\ x = <<x[1], x[2]>> /\ g[x] = half(x[1], x[2])
          /\ y[1] \in Q /\ y[2] \in 1..2 /\ y = <<y[1], y[2]>> /\ g[y] = half(y[1], y[2])
      OBVIOUS
    <3> HIDE DEF g, P
    <3>2. half(x[1], x[2]) = half(y[1], y[2])
      BY <3>1
    <3>3. x[1] = y[1] /\ x[2] = y[2]
      BY <1>6, <3>1, <3>2
    <3> QED BY <3>1, <3>3
  <2>4. DOMAIN g = P /\ g = [x \in P |-> g[x]]
    OBVIOUS
  <2> HIDE DEF g, P, F
  <2>5. g \in [P -> F]
    BY <2>1, <2>4
  <2> QED BY <2>2, <2>3, <2>4, <2>5 DEF Bijection, Injection, Surjection, IsInjective
<1> HIDE DEF g, F
<1>8. ExistsBijection(P, F)
  BY <1>7 DEF ExistsBijection
<1>9. IsFiniteSet(1..2)
  BY FewElements
<1>10. Cardinality(1..2) = 2
  BY FewElements
<1>11. IsFiniteSet(P) /\ Cardinality(P) = Cardinality(Q) * Cardinality(1..2)
  BY <1>3, <1>9, FS_Product
<1>12. Cardinality(Q) \in Nat
  BY <1>3, FS_CardinalityType
<1> HIDE DEF P
<1>13. Cardinality(F) = Cardinality(P)
  BY <1>8, <1>11, FS_Bijection
<1>14. Cardinality(F) = 2 * Cardinality(Q)
  BY <1>10, <1>11, <1>12, <1>13
<1>15. \A q \in Q : Cardinality(ToSet(q)) = 4
  BY <1>2, FourElements
<1> QED BY <1>14, <1>15 DEF Q, F

Covered(p) ==
    /\ \A q \in p.quads :
          /\ Cardinality(ToSet(q)) = 4
          /\ \A n \in 1..4 : \E f \in p.faces, m \in 1..3 :
                <<f[m], f[(m % 3) + 1]>> = <<q[n], q[(n % 4) + 1]>>
    /\ Cardinality(p.faces) = 2 * Cardinality(p.quads)

\* The mesh of each batch: its quads, and their halves.
LEMMA PartsAre ==
    ASSUME NEW t, NEW crossed, NEW cut
    PROVE  LET p == PartsOf(QuadsOf(t, crossed), cut)
           IN  /\ DOMAIN p = 0..t.batch - 1
               /\ \A b \in 0..t.batch - 1 :
                     /\ p[b].quads = Quads(t, b, crossed)
                     /\ p[b].faces = Faces(Quads(t, b, crossed), cut)
<1> DEFINE quads == QuadsOf(t, crossed)
           p == PartsOf(quads, cut)
<1>1. DOMAIN quads = 0..t.batch - 1
      /\ \A b \in 0..t.batch - 1 : quads[b] = Quads(t, b, crossed)
  BY DEF QuadsOf
<1> HIDE DEF quads
<1>2. DOMAIN p = DOMAIN quads
      /\ \A b \in DOMAIN quads : p[b].quads = quads[b] /\ p[b].faces = Faces(quads[b], cut)
  BY DEF PartsOf
<1> HIDE DEF p
<1> QED BY <1>1, <1>2 DEF p, quads

\* The mesh is extracted, and every quad becomes triangles of its own.
LEMMA MeshKeeps ==
    ASSUME IInv, Mesh(Decoder["shape"].res)
    PROVE  IInv'
<1> DEFINE t == done.decoded["shape"]
           res == Decoder["shape"].res
           bad == ~Valid(t) \/ t.ch # 7 \/ res = 0
                     \/ \E i \in DOMAIN t.coords : \E a \in 2..4 : t.coords[i][a] >= res
           B == 0..t.batch - 1
<1>1. /\ pc = "idle" /\ t # Bad /\ input' = input /\ mode' = mode /\ chose' = chose
  BY DEF Mesh
<1>2. Good(t) /\ t.ch = 7 /\ t.size = SizeAt(input)[L]
  BY <1>1, DecoderIs DEF IInv, Decoded, OfInput, Stages
<1>3. res \in Nat /\ t.size \in 1..res
  <2>1. res \in Nat
    BY StagesAssumption DEF DecoderAssumption
  <2>2. L \in 1..L
    <3>1. L \in Nat \ {0}
      BY DecoderIs DEF Stages
    <3> QED BY <3>1
  <2>3. SizeAt(input)[L] \in 1..res
    BY <2>2, SizesAre DEF IInv, Control
  <2> HIDE DEF t, res
  <2> QED BY <1>2, <2>1, <2>3
<1>4. ~bad
  <2> HIDE DEF t, res
  <2>1. Valid(t) /\ t.ch = 7 /\ res # 0
    BY <1>2, <1>3 DEF Good
  <2>2. \A i \in DOMAIN t.coords : \A a \in 2..4 : t.coords[i][a] < res
    <3> TAKE i \in DOMAIN t.coords, a \in 2..4
    <3>1. t.coords[i][a] \in 0..t.size - 1
      BY <1>2, GoodIs
    <3> QED BY <1>3, <3>1
  <2>3. \A i \in DOMAIN t.coords : \A a \in 2..4 : t.coords[i][a] \in Int
    BY <1>2, GoodIs
  <2>4. \A i \in DOMAIN t.coords : \A a \in 2..4 : ~(t.coords[i][a] >= res)
    <3> TAKE i \in DOMAIN t.coords, a \in 2..4
    <3>1. t.coords[i][a] < res /\ t.coords[i][a] \in Int
      BY <2>2, <2>3
    <3> QED BY <1>3, <3>1
  <2> QED BY <2>1, <2>4
<1>5. \/ bad /\ Fail("shape")
      \/ /\ \E crossed \in Crossings(t) :
               \E cut \in SUBSET UNION {QuadsOf(t, crossed)[b] : b \in DOMAIN QuadsOf(t, crossed)} :
                  done' = PutMesh(done, [parts |-> PartsOf(QuadsOf(t, crossed), cut)])
         /\ UNCHANGED <<pc, call, engine, walk, why>>
  BY DEF Mesh, PutMesh
<1> HIDE DEF t, bad, res
<1>20. PICK crossed \in Crossings(t) : \E cut :
          done' = PutMesh(done, [parts |-> PartsOf(QuadsOf(t, crossed), cut)])
  BY <1>4, <1>5
<1>6. PICK cut : done' = PutMesh(done, [parts |-> PartsOf(QuadsOf(t, crossed), cut)])
  BY <1>20
<1>0. pc' = pc /\ why' = why /\ hidden' = hidden
  BY <1>4, <1>5 DEF walk
<1>7. crossed \subseteq Edges(t)
  BY <1>20 DEF Crossings
<1> DEFINE parts == PartsOf(QuadsOf(t, crossed), cut)
           made == [parts |-> parts]
<1>9. /\ made.parts = parts /\ DOMAIN parts = B
      /\ \A b \in B : /\ parts[b].quads = Quads(t, b, crossed)
                      /\ parts[b].faces = Faces(Quads(t, b, crossed), cut)
  BY PartsAre
<1> HIDE DEF parts
<1>8. \A b \in B : Covered(parts[b])
  <2> TAKE b \in B
  <2> DEFINE Q == Quads(t, b, crossed)
             F == Faces(Q, cut)
  <2>1. (\A q \in Q : Cardinality(ToSet(q)) = 4) /\ Cardinality(F) = 2 * Cardinality(Q)
    BY <1>2, <1>7, FacesCounted
  <2>2. parts[b].quads = Q /\ parts[b].faces = F
    BY <1>9
  <2> HIDE DEF Q
  <2>3. \A q \in Q : \A n \in 1..4 : \E f \in F, m \in 1..3 :
           <<f[m], f[(m % 3) + 1]>> = <<q[n], q[(n % 4) + 1]>>
    <3> TAKE q \in Q
    <3>1. \A n \in 1..4 : \E f \in Halves(q, q \in cut), m \in 1..3 :
             <<f[m], f[(m % 3) + 1]>> = <<q[n], q[(n % 4) + 1]>>
      <4>1. (q \in cut) \in BOOLEAN
        OBVIOUS
      <4> QED BY <4>1, GoneAround
    <3>2. Halves(q, q \in cut) \subseteq F
      BY DEF Faces
    <3> QED BY <3>1, <3>2
  <2> HIDE DEF F
  <2> QED BY <2>1, <2>2, <2>3 DEF Covered
<1>10. done' = PutMesh(done, made)
  BY <1>6 DEF parts
<1> HIDE DEF made
<1>11. /\ Results(done') /\ done'.mesh = made
       /\ done'.latents = done.latents /\ done'.decoded = done.decoded
       /\ done'.subs = done.subs /\ done'.coords = done.coords
       /\ done'.by = done.by /\ done'.up = done.up
  <2>1. Results(done)
    BY DEF IInv, Control
  <2> QED BY <1>10, <2>1, PutMeshIs
<1>12. QuadsCovered'
  <2>1. \A b \in DOMAIN done'.mesh.parts : Covered(done'.mesh.parts[b])
    BY <1>8, <1>9, <1>11
  <2> QED BY <2>1 DEF QuadsCovered, Covered
<1>13. Control'
  BY <1>0, <1>1, <1>11 DEF IInv, Control, OnlyNumbersFail
<1>14. Latents'
  BY <1>1, <1>11 DEF IInv, Latents
<1>15. Undecoded' /\ Flowing' /\ Decoding'
  BY <1>0, <1>1, <1>11 DEF Undecoded, Flowing, Decoding, t
<1>16. Decoded'
  BY <1>0, <1>1, <1>11 DEF IInv, Decoded, UpsampledLikeDecoded
<1> QED BY <1>12, <1>13, <1>14, <1>15, <1>16 DEF IInv

-----------------------------------------------------------------------------
(* The invariant.                                                          *)

\* The cascade begins with nothing computed.
LEMMA InitIs == Init => IInv
<1> SUFFICES ASSUME Init PROVE IInv
  OBVIOUS
<1>1. /\ input \in Inputs /\ mode \in Engines /\ pc = "idle" /\ hidden = Bad /\ why = "none"
      /\ chose = Nothing /\ done = Kept
  BY DEF Init, Engines
<1>2. /\ done.decoded["shape"] = Bad /\ done.decoded["texture"] = Bad
      /\ done.latents["shape"] = Bad /\ done.latents["texture"] = Bad
      /\ done.subs = <<>> /\ done.coords = <<>> /\ done.up = None /\ done.mesh = None
  BY <1>1 DEF Kept, Stages
<1>3. Results(done)
  <2> DEFINE a == [s \in Stages |-> Bad]
             f == Fields(a, a, <<>>, <<>>, "none", None, None)
  <2>1. done = f /\ a = [s \in Stages |-> a[s]]
    BY <1>1 DEF Kept, Fields
  <2> HIDE DEF a
  <2>2. /\ f.latents = a /\ f.decoded = a /\ f.subs = <<>> /\ f.coords = <<>>
        /\ f.by = "none" /\ f.up = None /\ f.mesh = None
    BY FieldsAre
  <2>3. f = Fields(f.latents, f.decoded, f.subs, f.coords, f.by, f.up, f.mesh)
    BY <2>2
  <2> HIDE DEF f
  <2> QED BY <2>1, <2>2, <2>3, ResultsAre
<1>4. chose = [cpu |-> chose["cpu"], gpu |-> chose["gpu"]]
  BY <1>1 DEF Nothing
<1>5. Control
  BY <1>1, <1>3, <1>4 DEF Control, OnlyNumbersFail
<1>6. Latents
  BY <1>2 DEF Latents, Stages
<1>7. Undecoded /\ Decoded /\ Flowing /\ Decoding /\ QuadsCovered
  BY <1>1, <1>2 DEF Undecoded, Decoded, Flowing, Decoding, QuadsCovered
<1> QED BY <1>5, <1>6, <1>7 DEF IInv

\* A step that changes nothing changes nothing here.
LEMMA SameKeeps == ASSUME IInv, UNCHANGED vars PROVE IInv'
<1>1. /\ input' = input /\ mode' = mode /\ pc' = pc /\ call' = call /\ engine' = engine
      /\ hidden' = hidden /\ level' = level /\ block' = block /\ at' = at /\ preds' = preds
      /\ chose' = chose /\ done' = done /\ why' = why
  BY DEF vars, walk
<1>2. Control' /\ Latents' /\ Undecoded' /\ Flowing' /\ QuadsCovered'
  BY <1>1 DEF IInv, Control, OnlyNumbersFail, Latents, Undecoded, Flowing, QuadsCovered
<1>3. Decoded'
  BY <1>1 DEF IInv, Decoded, UpsampledLikeDecoded
<1>4. Decoding'
  <2>1. Hp' = Hp
    BY <1>1 DEF Hp
  <2> QED BY <1>1, <2>1 DEF IInv, Decoding
<1> QED BY <1>2, <1>3, <1>4 DEF IInv

\* Every step keeps the invariant.
LEMMA StepKeeps == IInv /\ [Next]_vars => IInv'
<1> SUFFICES ASSUME IInv, [Next]_vars PROVE IInv'
  OBVIOUS
<1>1. ASSUME NEW s \in Stages, FlowBegin(s) PROVE IInv'
  BY <1>1, FlowBeginKeeps
<1>2. CASE FlowBlock
  BY <1>2, FlowBlockKeeps
<1>3. CASE FlowEnd
  BY <1>3, FlowEndKeeps
<1>4. ASSUME NEW c \in Calls, DecodeBegin(c) PROVE IInv'
  BY <1>4, DecodeBeginKeeps
<1>5. CASE DecodeBlock
  BY <1>5, DecodeBlockKeeps
<1>6. CASE Transition
  BY <1>6, TransitionKeeps
<1>7. CASE Breaks
  BY <1>7, BreaksKeeps
<1>8. CASE DecodeEnd
  BY <1>8, DecodeEndKeeps
<1>9. CASE Mesh(Decoder["shape"].res)
  BY <1>9, MeshKeeps
<1>10. CASE UNCHANGED vars
  BY <1>10, SameKeeps
<1>11. CASE Over
  BY <1>11, SameKeeps DEF Over
<1> QED BY <1>1, <1>2, <1>3, <1>4, <1>5, <1>6, <1>7, <1>8, <1>9, <1>10, <1>11 DEF Next

\* The invariant the theorems below are read off from.
THEOREM Sound == Spec => []IInv
BY InitIs, StepKeeps, PTL DEF Spec

-----------------------------------------------------------------------------
(* What follows.                                                           *)

\* All there is about a batch, row by row.
LEMMA EverythingIs ==
    ASSUME input \in Inputs, NEW b, NEW s
    PROVE  Everything(b, s) = AllOf(input, b, s)
<1>1. \A w : \A i : RowsOf(w, s, 1).deps[i] = Given(input, w, s)[i]
  BY RowsOfIs DEF With
<1> DEFINE A == {RowsOf(w, s, 1).deps[i] : w \in {"noise", "proj"},
                    i \in {j \in DOMAIN input.coords : input.coords[j][1] = b}}
           G == {Given(input, w, s)[i] : w \in {"noise", "proj"}, i \in Of(input, b)}
<1>2. A = G
  BY <1>1 DEF Of
<1>3. Everything(b, s)
        = (UNION A) \cup {<<"token", b, j>> : j \in 1..Context[b]} \cup {<<"time", b>>}
  BY DEF Everything
<1>4. AllOf(input, b, s)
        = (UNION G) \cup {<<"token", b, j>> : j \in 1..Context[b]} \cup {<<"time", b>>}
  BY DEF AllOf
<1> HIDE DEF A, G
<1> QED BY <1>2, <1>3, <1>4

\* From the second block on a row has seen all of its batch.
LEMMA HeardAll ==
    ASSUME NEW inp, NEW d, NEW s, Heard(inp, d, s, 2), NEW i \in DOMAIN inp.coords
    PROVE  AllOf(inp, inp.coords[i][1], s) \subseteq d[i]
<1>1. 2 >= 2
  OBVIOUS
<1>2. 2 >= 2 => AllOf(inp, inp.coords[i][1], s) \subseteq d[i]
  BY Zenon DEF Heard
<1> QED BY <1>1, <1>2

\* Batches are apart in every state of the invariant.
LEMMA ApartNow == IInv => BatchesApart
<1> SUFFICES ASSUME IInv PROVE BatchesApart
  OBVIOUS
<1>1. \A i \in DOMAIN hidden.deps : \A d \in hidden.deps[i] : d[2] = hidden.coords[i][1]
  <2>1. CASE hidden = Bad
    <3>1. hidden.deps = <<>> /\ DOMAIN <<>> = {}
      BY <2>1, NoneIsBad
    <3> QED BY <3>1
  <2>2. CASE hidden # Bad
    <3>1. Good(hidden) /\ Own(hidden, hidden.deps)
      BY <2>2 DEF IInv, Control
    <3>2. DOMAIN hidden.deps = DOMAIN hidden.coords
      BY <3>1, GoodIs DEF ForRows
    <3> QED BY <3>1, <3>2 DEF Own
  <2> QED BY <2>1, <2>2
<1>2. ASSUME NEW s \in Stages, NEW i \in DOMAIN done.latents[s].deps
      PROVE  Everything(done.latents[s].coords[i][1], s) \subseteq done.latents[s].deps[i]
  <2> DEFINE t == done.latents[s]
  <2>1. CASE t = Bad
    <3>1. t.deps = <<>> /\ DOMAIN <<>> = {}
      BY <2>1, NoneIsBad
    <3> QED BY <3>1
  <2>2. CASE t # Bad
    <3>1. Good(t) /\ t.coords = input.coords /\ Heard(input, t.deps, s, 2) /\ input \in Inputs
      BY <2>2 DEF IInv, Latents, OfInput, Control
    <3>2. i \in DOMAIN input.coords
      BY <3>1, GoodIs DEF ForRows
    <3> HIDE DEF t
    <3>3. AllOf(input, input.coords[i][1], s) \subseteq t.deps[i]
      BY <3>1, <3>2, HeardAll
    <3> QED BY <3>1, <3>3, EverythingIs DEF t
  <2> QED BY <2>1, <2>2
<1> QED BY <1>1, <1>2 DEF BatchesApart

\* The order of points, coordinate by coordinate.
LEMMA LessIs ==
    ASSUME NEW c \in Point, NEW d \in Point
    PROVE  Less(c, d) <=>
              \/ c[1] < d[1]
              \/ c[1] = d[1] /\ c[2] < d[2]
              \/ c[1] = d[1] /\ c[2] = d[2] /\ c[3] < d[3]
              \/ c[1] = d[1] /\ c[2] = d[2] /\ c[3] = d[3] /\ c[4] < d[4]
<1> DEFINE P(a) == c[a] < d[a] /\ \A e \in 1..a - 1 : c[e] = d[e]
<1>1. Less(c, d) <=> P(1) \/ P(2) \/ P(3) \/ P(4)
  <2>1. \A a \in 1..4 : a = 1 \/ a = 2 \/ a = 3 \/ a = 4
    OBVIOUS
  <2>2. 1 \in 1..4 /\ 2 \in 1..4 /\ 3 \in 1..4 /\ 4 \in 1..4
    OBVIOUS
  <2>3. Less(c, d) <=> \E a \in 1..4 : P(a)
    BY DEF Less
  <2> HIDE DEF P
  <2> QED BY <2>1, <2>2, <2>3
<1>2. 1..1 - 1 = {} /\ 1..2 - 1 = {1} /\ 1..3 - 1 = {1, 2} /\ 1..4 - 1 = {1, 2, 3}
  OBVIOUS
<1>3. /\ P(1) <=> c[1] < d[1]
      /\ P(2) <=> c[1] = d[1] /\ c[2] < d[2]
      /\ P(3) <=> c[1] = d[1] /\ c[2] = d[2] /\ c[3] < d[3]
      /\ P(4) <=> c[1] = d[1] /\ c[2] = d[2] /\ c[3] = d[3] /\ c[4] < d[4]
  BY <1>2
<1> HIDE DEF P
<1> QED BY <1>1, <1>3

\* Points have an order.
LEMMA PointsOrdered ==
    ASSUME NEW S, S \subseteq Point
    PROVE  Total(S, {e \in S \X S : Less(e[1], e[2])})
<1> DEFINE order == {e \in S \X S : Less(e[1], e[2])}
<1>1. \A c \in S : c = <<c[1], c[2], c[3], c[4]>> /\ c[1] \in Int /\ c[2] \in Int
                   /\ c[3] \in Int /\ c[4] \in Int
  BY PointIs
<1>2. \A c, d \in S : <<c, d>> \in order <=> Less(c, d)
  OBVIOUS
<1>3. \A c, d \in S : Less(c, d) <=>
              \/ c[1] < d[1]
              \/ c[1] = d[1] /\ c[2] < d[2]
              \/ c[1] = d[1] /\ c[2] = d[2] /\ c[3] < d[3]
              \/ c[1] = d[1] /\ c[2] = d[2] /\ c[3] = d[3] /\ c[4] < d[4]
  BY LessIs
<1> HIDE DEF order
<1>4. \A c \in S : <<c, c>> \notin order
  <2> TAKE c \in S
  <2>1. ~Less(c, c)
    BY <1>1, <1>3
  <2> QED BY <1>2, <2>1
<1>5. \A c, d \in S : c # d => <<c, d>> \in order \/ <<d, c>> \in order
  <2> TAKE c \in S, d \in S
  <2> HAVE c # d
  <2>1. c[1] # d[1] \/ c[2] # d[2] \/ c[3] # d[3] \/ c[4] # d[4]
    BY <1>1
  <2>2. Less(c, d) \/ Less(d, c)
    BY <1>1, <1>3, <2>1
  <2> QED BY <1>2, <2>2
<1>6. \A c, d, e \in S : <<c, d>> \in order /\ <<d, e>> \in order => <<c, e>> \in order
  <2> TAKE c \in S, d \in S, e \in S
  <2> HAVE <<c, d>> \in order /\ <<d, e>> \in order
  <2>1. Less(c, d) /\ Less(d, e)
    BY <1>2
  <2>2. Less(c, e)
    BY <1>1, <1>3, <2>1
  <2> QED BY <1>2, <2>2
<1> QED BY <1>4, <1>5, <1>6 DEF Total, order

\* A tensor to which a row can be put down, a subdivision too.
Puts(t) ==
    \A a, b, c : LET r == [t EXCEPT !.size = a, !.coords = b, !.deps = c]
                 IN  r.size = a /\ r.coords = b /\ r.batch = t.batch

\* Tensors and subdivisions are records whose rows can be replaced.
LEMMA BothPut ==
    /\ \A t : Good(t) => Puts(t)
    /\ \A s : Subdivision(s) => Puts(s)
<1>1. ASSUME NEW t, Good(t) PROVE Puts(t)
  <2> DEFINE u == [batch |-> t.batch, size |-> t.size, ch |-> t.ch, coords |-> t.coords,
                   deps |-> t.deps]
  <2>1. t = u
    BY <1>1 DEF Good, Tensor
  <2>2. u.batch = t.batch
    OBVIOUS
  <2>3. ASSUME NEW a, NEW b, NEW c
        PROVE  LET r == [u EXCEPT !.size = a, !.coords = b, !.deps = c]
               IN  r.size = a /\ r.coords = b /\ r.batch = u.batch
    OBVIOUS
  <2>4. Puts(u)
    BY <2>3 DEF Puts
  <2> HIDE DEF u
  <2> QED BY <2>1, <2>4
<1>2. ASSUME NEW s, Subdivision(s) PROVE Puts(s)
  <2> DEFINE u == [batch |-> s.batch, size |-> s.size, ch |-> 8, coords |-> s.coords,
                   deps |-> s.deps, kids |-> s.kids]
  <2>1. s = u
    BY <1>2 DEF Subdivision
  <2>3. ASSUME NEW a, NEW b, NEW c
        PROVE  LET r == [u EXCEPT !.size = a, !.coords = b, !.deps = c]
               IN  r.size = a /\ r.coords = b /\ r.batch = u.batch
    OBVIOUS
  <2>4. Puts(u)
    BY <2>3 DEF Puts
  <2> HIDE DEF u
  <2> QED BY <2>1, <2>4
<1> QED BY <1>1, <1>2

Parent(c) == <<c[1], c[2] \div 2, c[3] \div 2, c[4] \div 2>>

\* Averaging pairs leads to the parents.
LEMMA DownIs ==
    ASSUME NEW t, Valid(t), Puts(t), t.batch \in Nat \ {0}, t.coords \in Seq(Point),
           NEW n \in Nat, t.size = 2 * n, NEW S, S \subseteq Point,
           \A i \in DOMAIN t.coords : Parent(t.coords[i]) \in S
    PROVE  LET d == DownsampleMean(t, 2)
           IN  d # Bad /\ d.size = n /\ ToSet(d.coords) \subseteq S
<1> DEFINE D == DOMAIN t.coords
           ps == {Parent(t.coords[i]) : i \in D}
           order == {e \in ps \X ps : Less(e[1], e[2])}
           cs == InOrder(ps, order)
           deps == [k \in DOMAIN cs |->
                       UNION {t.deps[i] : i \in {j \in D : Parent(t.coords[j]) = cs[k]}}]
           m == (t.size + 2 - 1) \div 2
           r == [t EXCEPT !.size = m, !.coords = cs, !.deps = deps]
<1>1. DownsampleMean(t, 2) = Checked(Valid(t) /\ 2 > 0, r)
  BY DEF DownsampleMean, Parent
<1>2. m = n
  OBVIOUS
<1>3. ps \subseteq S /\ ps \subseteq Point
  OBVIOUS
<1>4. IsFiniteSet(ps)
  <2> DEFINE f == [i \in D |-> Parent(t.coords[i])]
  <2>1. f \in Surjection(D, ps)
    BY DEF Surjection
  <2>2. IsFiniteSet(D)
    <3>1. D = 1..Len(t.coords) /\ Len(t.coords) \in Nat
      OBVIOUS
    <3> QED BY <3>1, CountTo
  <2> HIDE DEF f, D, ps
  <2> QED BY <2>1, <2>2, FS_Surjection
<1>5. Total(ps, order)
  BY <1>3, PointsOrdered
<1> HIDE DEF ps, order
<1>6. /\ Cardinality(ps) \in Nat /\ cs = [k \in 1..Cardinality(ps) |-> cs[k]]
      /\ \A k \in 1..Cardinality(ps) : cs[k] \in ps
  BY <1>4, <1>5, InOrderIs
<1> HIDE DEF cs, deps, m
<1>7. r.size = m /\ r.coords = cs /\ r.batch = t.batch
  BY DEF Puts
<1> HIDE DEF r
<1>8. DownsampleMean(t, 2) = r
  BY <1>1 DEF Checked
<1>9. r # Bad
  BY <1>7 DEF Bad
<1>10. ToSet(cs) \subseteq S
  BY <1>3, <1>6 DEF ToSet
<1> QED BY <1>2, <1>7, <1>8, <1>9, <1>10

\* The parent of a child is where it came from.
LEMMA ParentIs ==
    ASSUME NEW c \in Point, NEW k \in 0..7
    PROVE  Parent(ChildOf(c, k)) = c
<1>1. /\ ChildOf(c, k)[1] = c[1]
      /\ \A a \in 2..4 : ChildOf(c, k)[a] \div 2 = c[a]
  BY ChildIs
<1>2. ChildOf(c, k)[2] \div 2 = c[2] /\ ChildOf(c, k)[3] \div 2 = c[3]
      /\ ChildOf(c, k)[4] \div 2 = c[4]
  BY <1>1
<1>3. c = <<c[1], c[2], c[3], c[4]>>
  BY PointIs
<1> QED BY <1>1, <1>2, <1>3 DEF Parent

\* A child is one of the eight of a point.
LEMMA ChildrenAre ==
    ASSUME NEW s, Subdivision(s)
    PROVE  \A i \in DOMAIN Children(s) :
               \E j \in DOMAIN s.coords, x \in 0..7 : Children(s)[i] = ChildOf(s.coords[j], x)
<1> DEFINE g == With(s, 8, s.deps)
<1>1. Good(g) /\ g.coords = s.coords /\ s.coords = g.coords
  BY DEF Subdivision, With
<1>2. 8 \in Nat \ {0}
  OBVIOUS
<1> HIDE DEF g
<1>3. \A i \in DOMAIN Children(s) :
          \E j \in DOMAIN g.coords, x \in 0..7 : Children(s)[i] = ChildOf(g.coords[j], x)
  BY <1>1, <1>2, FinerIsGood
<1> QED BY <1>1, <1>3

\* Levels are nested in every state of the invariant.
LEMMA NestedNow == IInv => LevelsNested
<1> SUFFICES ASSUME IInv PROVE LevelsNested
  OBVIOUS
<1> DEFINE points(l) == IF l \in DOMAIN done.subs THEN done.subs[l] ELSE done.decoded["shape"]
           down(l) == DownsampleMean(points(l), 2)
<1>1. CASE done.decoded["shape"] = Bad
  <2>1. done.coords = <<>>
    BY <1>1 DEF IInv, Undecoded
  <2>2. \A l \in 2..Len(done.coords) : FALSE
    BY <2>1
  <2> QED BY <2>2 DEF LevelsNested
<1>2. CASE done.decoded["shape"] # Bad
  <2> DEFINE subs == done.subs
             size(l) == SizeAt(input)[l]
             t == done.decoded["shape"]
  <2>1. /\ Chain(input, subs) /\ Len(subs) = L - 1 /\ L \in Nat \ {0}
        /\ done.coords = [l \in 1..L |-> PointsOf(input, subs, l)]
        /\ OfInput(input, t, Decoder["shape"].out, size(L)) /\ t.coords = PointsOf(input, subs, L)
        /\ input \in Inputs
    BY <1>2, DecoderIs DEF IInv, Decoded, Stages, Control
  <2>2. /\ DOMAIN subs = 1..L - 1
        /\ \A l \in 1..L - 1 : /\ Subdivision(subs[l]) /\ subs[l].batch = input.batch
                               /\ subs[l].size = size(l) /\ subs[l].coords = PointsOf(input, subs, l)
    BY <2>1 DEF Chain
  <2>3. Len(done.coords) = L /\ \A l \in 1..L : done.coords[l] = PointsOf(input, subs, l)
    <3>1. Len(done.coords) = L
      <4> DEFINE s == done.coords
      <4>1. s = [l \in 1..L |-> s[l]]
        BY <2>1
      <4> HIDE DEF s
      <4>2. Len(s) = L
        BY <2>1, <4>1, LenIs
      <4> QED BY <4>2 DEF s
    <3> QED BY <2>1, <3>1
  <2> HIDE DEF subs, t, size
  <2>4. ASSUME NEW l \in 1..L
        PROVE  /\ Valid(points(l)) /\ Puts(points(l)) /\ points(l).batch \in Nat \ {0}
               /\ points(l).coords \in Seq(Point) /\ points(l).size = size(l)
               /\ points(l).coords = PointsOf(input, subs, l)
    <3>1. CASE l \in 1..L - 1
      <4>1. points(l) = subs[l]
        BY <2>2, <3>1 DEF subs
      <4> DEFINE s == subs[l]
      <4>2. /\ Subdivision(s) /\ s.size = size(l) /\ s.coords = PointsOf(input, subs, l)
        BY <2>2, <3>1
      <4> HIDE DEF s, points
      <4>3. Valid(s) /\ Puts(s)
        BY <4>2, SubdivisionIs, BothPut
      <4>4. s.batch \in Nat \ {0} /\ s.coords \in Seq(Point)
        <5>1. Good(With(s, 8, s.deps))
          BY <4>2 DEF Subdivision
        <5>2. With(s, 8, s.deps).batch = s.batch /\ With(s, 8, s.deps).coords = s.coords
          BY DEF With
        <5> QED BY <5>1, <5>2, GoodIs
      <4> QED BY <4>1, <4>2, <4>3, <4>4 DEF s
    <3>2. CASE l = L
      <4>1. points(l) = t
        BY <2>1, <2>2, <3>2 DEF subs, t
      <4>2. Good(t) /\ t.size = size(L)
        BY <2>1 DEF OfInput, size
      <4> HIDE DEF points
      <4>3. Valid(t) /\ Puts(t) /\ t.batch \in Nat \ {0} /\ t.coords \in Seq(Point)
        BY <4>2, GoodIs, BothPut DEF Good
      <4> QED BY <2>1, <3>2, <4>1, <4>2, <4>3
    <3> QED BY <2>1, <3>1, <3>2
  <2> HIDE DEF points
  <2>5. ASSUME NEW n \in 1..L - 1
        PROVE  /\ n + 1 \in 1..L /\ down(n + 1) # Bad /\ down(n + 1).size = points(n).size
               /\ points(n + 1).coords = done.coords[n + 1]
               /\ ToSet(down(n + 1).coords) \subseteq ToSet(done.coords[n])
    <3>1. n \in 1..L /\ n + 1 \in 1..L /\ n \in Nat /\ n > 0
      BY <2>1
    <3> DEFINE p == points(n + 1)
               s == subs[n]
               k == size(n)
               S == ToSet(s.coords)
    <3>2. /\ Valid(p) /\ Puts(p) /\ p.batch \in Nat \ {0} /\ p.coords \in Seq(Point)
          /\ p.size = size(n + 1) /\ p.coords = PointsOf(input, subs, n + 1)
      BY <2>4, <3>1
    <3>3. p.size = 2 * k /\ k \in Nat /\ points(n).size = k
      <4>1. n < L
        BY <2>1, <3>1
      <4>2. size(n + 1) = 2 * k
        BY <2>1, <3>1, <4>1, SizesAre DEF size
      <4>3. points(n).size = k /\ k \in Nat
        <5>1. points(n).size = k
          BY <2>4, <3>1
        <5>2. k \in 1..Decoder["shape"].res /\ Decoder["shape"].res \in Nat
          BY <2>1, <3>1, SizesAre, StagesAssumption DEF size, DecoderAssumption
        <5> HIDE DEF k
        <5> QED BY <5>1, <5>2
      <4> QED BY <3>2, <4>2, <4>3
    <3>4. p.coords = Children(s)
      BY <3>1, <3>2, PointsAfter
    <3>5. Subdivision(s) /\ s.coords = done.coords[n]
      BY <2>2, <2>3, <3>1
    <3>6. S \subseteq Point /\ \A i \in DOMAIN s.coords : s.coords[i] \in Point /\ s.coords[i] \in S
      <4>1. Good(With(s, 8, s.deps)) /\ With(s, 8, s.deps).coords = s.coords
        BY <3>5 DEF Subdivision, With
      <4>2. \A i \in DOMAIN s.coords : s.coords[i] \in Point
        BY <4>1, GoodIs
      <4> QED BY <4>2 DEF ToSet
    <3>7. \A i \in DOMAIN Children(s) : Parent(Children(s)[i]) \in S
      <4> TAKE i \in DOMAIN Children(s)
      <4>3. PICK j \in DOMAIN s.coords, x \in 0..7 : Children(s)[i] = ChildOf(s.coords[j], x)
        <5> HIDE DEF s
        <5> QED BY <3>5, ChildrenAre
      <4>4. s.coords[j] \in Point /\ s.coords[j] \in S
        BY <3>6
      <4> HIDE DEF S, s
      <4> QED BY <4>3, <4>4, ParentIs
    <3> HIDE DEF p, s, k, S
    <3>8. LET d == DownsampleMean(p, 2) IN d # Bad /\ d.size = k /\ ToSet(d.coords) \subseteq S
      BY <3>2, <3>3, <3>4, <3>6, <3>7, DownIs
    <3>9. p.coords = done.coords[n + 1]
      BY <2>3, <3>1, <3>2
    <3> QED BY <3>1, <3>3, <3>5, <3>8, <3>9 DEF p, S
  <2> HIDE DEF down
  <2>6. ASSUME NEW l \in 2..Len(done.coords)
        PROVE  /\ down(l) # Bad /\ down(l).size = points(l - 1).size
               /\ points(l).coords = done.coords[l]
               /\ ToSet(down(l).coords) \subseteq ToSet(done.coords[l - 1])
    <3>1. l - 1 \in 1..L - 1 /\ l - 1 + 1 = l
      BY <2>1, <2>3
    <3>2. PICK n \in 1..L - 1 : n = l - 1 /\ n + 1 = l
      BY <3>1
    <3> QED BY <2>5, <3>2
  <2> QED BY <2>6 DEF LevelsNested, points, down
<1> QED BY <1>1, <1>2

\* Upsampling, decoding and texturing agree in every state of the invariant.
LEMMA AgreeNow == IInv => LevelsAgree
<1> SUFFICES ASSUME IInv PROVE LevelsAgree
  OBVIOUS
<1>1. UpsampledLikeDecoded
  <2>1. CASE done.decoded["shape"] = Bad
    BY <2>1 DEF IInv, Undecoded, UpsampledLikeDecoded
  <2>2. CASE done.decoded["shape"] # Bad
    BY <2>2 DEF IInv, Decoded
  <2> QED BY <2>1, <2>2
<1>2. TextureFollowsShape
  <2> SUFFICES ASSUME done.decoded["texture"] # Bad
               PROVE  done.decoded["texture"].coords = done.decoded["shape"].coords
    BY DEF TextureFollowsShape
  <2>1. done.decoded["shape"] # Bad
    BY DEF IInv, Undecoded
  <2> QED BY <2>1 DEF IInv, Decoded, Stages
<1> QED BY <1>1, <1>2, NestedNow DEF LevelsAgree

\* A row is computed from its own batch only, and a flow shows it all of it:
\* whatever the numbers of points and tokens of each batch.
THEOREM RowsStayApart == Spec => []BatchesApart
BY Sound, ApartNow, PTL

\* The networks of the cascade fit together, from the points of the structure to
\* the texture of the mesh: nothing but numbers makes a call fail.
THEOREM StagesFit == Spec => []OnlyNumbersFail
<1>1. IInv => OnlyNumbersFail
  BY DEF IInv, Control
<1> QED BY <1>1, Sound, PTL

\* Upsampling, decoding and texturing go through the same points, level by level.
THEOREM SamePoints == Spec => []LevelsAgree
BY Sound, AgreeNow, PTL

\* A quad becomes two triangles of its own that go around it.
THEOREM QuadsAreCovered == Spec => []QuadsCovered
<1>1. IInv => QuadsCovered
  BY DEF IInv
<1> QED BY <1>1, Sound, PTL
=============================================================================
