-------------------------- MODULE BundleFileProofs --------------------------
(***************************************************************************)
(* BundleFile for every set of bundles, savers and readers and for files   *)
(* of any length: the rename protocol, and that what was saved loads as it *)
(* was saved.  Three parts:                                                *)
(*   - the layout: where the header, the stages, the views and the maps of *)
(*     a bundle stand in the flattened blocks a save writes;               *)
(*   - reading: a load of a file that agrees with the image of a bundle,   *)
(*     as far as the file goes, has read exactly what stands there, phase  *)
(*     by phase, and refuses only a file that is not the whole image;      *)
(*   - the protocol: what a lone saver has written so far, and that nobody *)
(*     writes or renames the file of a reader any more.                    *)
(***************************************************************************)
EXTENDS BundleFile, TLAPS, SequenceTheorems, WellFoundedInduction

-----------------------------------------------------------------------------
(* Flattened sequences.                                                    *)

\* A set of naturals has a least one: what replaces induction below.
LEMMA LeastNumber ==
    ASSUME NEW S \in SUBSET Nat, S # {}
    PROVE  \E n \in S : \A m \in S : n <= m
<1>1. PICK n \in S : \A y \in Nat : <<y, n>> \in OpToRel(<, Nat) => y \notin S
  <2>1. IsWellFoundedOn(OpToRel(<, Nat), Nat)
    BY NatLessThanWellFounded, Zenon
  <2> QED BY <2>1, WFMin, Zenon
<1>2. \A y \in Nat : y < n => y \notin S
  BY <1>1 DEF OpToRel
<1> QED BY <1>2

\* The flattened prefixes of s, as FlattenSeq computes them.
Flat(s) == CHOOSE f : f = [i \in 1..Len(s) |-> IF i = 1 THEN s[i] ELSE f[i - 1] \o s[i]]

\* There is such a function: a least n without one cannot be.
LEMMA FlatExists ==
    ASSUME NEW s
    PROVE  \A n \in Nat : \E f : f = [i \in 1..n |-> IF i = 1 THEN s[i] ELSE f[i - 1] \o s[i]]
<1> DEFINE Is(f, n) == f = [i \in 1..n |-> IF i = 1 THEN s[i] ELSE f[i - 1] \o s[i]]
           S == {n \in Nat : ~ \E f : Is(f, n)}
<1>1. SUFFICES ASSUME S # {} PROVE FALSE
  OBVIOUS
<1>2. PICK n \in S : \A m \in S : n <= m
  BY <1>1, LeastNumber
<1>3. CASE n = 0
  <2> DEFINE e == [i \in 1..0 |-> 0]
  <2>1. Is(e, 0)
    OBVIOUS
  <2> QED BY <1>3, <2>1
<1>4. CASE n > 0
  <2>1. n - 1 \in Nat /\ n - 1 \notin S
    <3> HIDE DEF Is
    <3> QED BY <1>2, <1>4
  <2>2. PICK f : Is(f, n - 1)
    BY <2>1
  <2> DEFINE g == [i \in 1..n |-> IF i = n THEN IF n = 1 THEN s[1] ELSE f[n - 1] \o s[n]
                                  ELSE f[i]]
  <2>3. \A i \in 1..n : g[i] = IF i = 1 THEN s[i] ELSE g[i - 1] \o s[i]
    <3> TAKE i \in 1..n
    <3>1. CASE i = n
      <4>1. n # 1 => n - 1 \in 1..n /\ n - 1 # n
        BY <1>4
      <4> QED BY <3>1, <4>1
    <3>2. CASE i # n
      <4>1. i \in 1..n - 1 /\ g[i] = f[i] /\ (i # 1 => g[i - 1] = f[i - 1])
        BY <3>2
      <4>2. f[i] = IF i = 1 THEN s[i] ELSE f[i - 1] \o s[i]
        BY <2>2, <4>1
      <4> QED BY <4>1, <4>2
    <3> QED BY <3>1, <3>2
  <2>4. Is(g, n)
    <3> DEFINE h == [i \in 1..n |-> IF i = 1 THEN s[i] ELSE g[i - 1] \o s[i]]
    <3>1. DOMAIN g = 1..n /\ DOMAIN h = 1..n /\ \A i \in 1..n : g[i] = h[i]
      BY <2>3
    <3>2. g = [i \in 1..n |-> g[i]] /\ h = [i \in 1..n |-> h[i]]
      OBVIOUS
    <3> HIDE DEF g, h
    <3>3. g = h
      BY <3>1, <3>2
    <3> QED BY <3>3 DEF h
  <2> QED BY <1>2, <2>4
<1> QED BY <1>3, <1>4

\* FlattenSeq is the last of the flattened prefixes.
LEMMA FlatDef ==
    ASSUME NEW s, Len(s) \in Nat
    PROVE  /\ \A i \in 1..Len(s) :
                 Flat(s)[i] = IF i = 1 THEN s[i] ELSE Flat(s)[i - 1] \o s[i]
           /\ Len(s) > 0 => FlattenSeq(s) = Flat(s)[Len(s)]
           /\ Len(s) = 0 => FlattenSeq(s) = s
<1>1. \E f : f = [i \in 1..Len(s) |-> IF i = 1 THEN s[i] ELSE f[i - 1] \o s[i]]
  BY FlatExists
<1>2. Flat(s) = [i \in 1..Len(s) |-> IF i = 1 THEN s[i] ELSE Flat(s)[i - 1] \o s[i]]
  BY <1>1 DEF Flat
<1>3. \A i \in 1..Len(s) : Flat(s)[i] = IF i = 1 THEN s[i] ELSE Flat(s)[i - 1] \o s[i]
  BY <1>2
<1>4. Len(s) > 0 => FlattenSeq(s) = Flat(s)[Len(s)]
  BY DEF FlattenSeq, Flat
<1>5. Len(s) = 0 => FlattenSeq(s) = s
  BY DEF FlattenSeq
<1> QED BY <1>3, <1>4, <1>5

\* The first k sequences of s, joined, and how many elements they are.
Joined(s, k) == FlattenSeq(SubSeq(s, 1, k))
Offset(s, k) == Len(Joined(s, k))

\* A prefix of s has the flattened prefixes of s.
LEMMA FlatPrefix ==
    ASSUME NEW X, NEW s \in Seq(X), NEW k \in 1..Len(s)
    PROVE  \A i \in 1..k : Flat(SubSeq(s, 1, k))[i] = Flat(s)[i]
<1> DEFINE p == SubSeq(s, 1, k)
           S == {i \in 1..k : Flat(p)[i] # Flat(s)[i]}
<1>1. SUFFICES ASSUME S # {} PROVE FALSE
  OBVIOUS
<1>2. PICK i \in S : \A m \in S : i <= m
  <2>1. S \in SUBSET Nat
    OBVIOUS
  <2> QED BY <1>1, <2>1, LeastNumber
<1>3. Len(s) \in Nat /\ Len(p) = k /\ k \in Nat /\ \A j \in 1..k : p[j] = s[j]
  OBVIOUS
<1> HIDE DEF p
<1>4. /\ Flat(p)[i] = IF i = 1 THEN p[i] ELSE Flat(p)[i - 1] \o p[i]
      /\ Flat(s)[i] = IF i = 1 THEN s[i] ELSE Flat(s)[i - 1] \o s[i]
  <2>1. i \in 1..Len(p) /\ i \in 1..Len(s) /\ Len(p) \in Nat
    BY <1>3
  <2> QED BY <1>3, <2>1, FlatDef
<1>5. CASE i = 1
  BY <1>2, <1>3, <1>4, <1>5
<1>6. CASE i # 1
  <2>1. i - 1 \in 1..k /\ i - 1 \notin S
    BY <1>2, <1>6
  <2> QED BY <1>2, <1>3, <1>4, <1>6, <2>1
<1> QED BY <1>5, <1>6

\* Joining one more sequence appends it.
LEMMA JoinedStep ==
    ASSUME NEW X, NEW s \in Seq(Seq(X))
    PROVE  /\ Joined(s, 0) = <<>>
           /\ Joined(s, Len(s)) = FlattenSeq(s)
           /\ \A k \in 1..Len(s) : Joined(s, k) = Joined(s, k - 1) \o s[k]
<1>1. Joined(s, 0) = <<>>
  <2>1. SubSeq(s, 1, 0) = <<>> /\ Len(<<>>) = 0
    OBVIOUS
  <2> QED BY <2>1 DEF Joined, FlattenSeq
<1>2. Joined(s, Len(s)) = FlattenSeq(s)
  <2>1. SubSeq(s, 1, Len(s)) = s
    OBVIOUS
  <2> QED BY <2>1 DEF Joined
<1>0. ASSUME NEW k \in 1..Len(s) PROVE Joined(s, k) = Flat(s)[k]
  <2> DEFINE p == SubSeq(s, 1, k)
  <2>1. Len(p) = k /\ k \in Nat /\ k > 0
    OBVIOUS
  <2>2. Flat(p)[k] = Flat(s)[k]
    BY <2>1, FlatPrefix
  <2>3. Joined(s, k) = FlattenSeq(p)
    BY DEF Joined
  <2> HIDE DEF p
  <2> QED BY <2>1, <2>2, <2>3, FlatDef
<1>3. ASSUME NEW k \in 1..Len(s) PROVE Joined(s, k) = Joined(s, k - 1) \o s[k]
  <2>1. k \in Nat /\ Len(s) \in Nat
    OBVIOUS
  <2>2. Joined(s, k) = Flat(s)[k]
    BY <1>0
  <2>3. Flat(s)[k] = IF k = 1 THEN s[k] ELSE Flat(s)[k - 1] \o s[k]
    BY <2>1, FlatDef
  <2>4. CASE k = 1
    <3>1. s[1] \in Seq(X) /\ <<>> \o s[1] = s[1]
      BY <2>4
    <3> QED BY <1>1, <2>2, <2>3, <2>4, <3>1
  <2>5. CASE k # 1
    <3>1. k - 1 \in 1..Len(s)
      BY <2>5
    <3>2. Joined(s, k - 1) = Flat(s)[k - 1]
      BY <1>0, <3>1
    <3> QED BY <2>2, <2>3, <2>5, <3>2
  <2> QED BY <2>4, <2>5
<1> QED BY <1>1, <1>2, <1>3

\* Joined sequences of X are a sequence of X.
LEMMA JoinedType ==
    ASSUME NEW X, NEW s \in Seq(Seq(X))
    PROVE  \A k \in 0..Len(s) : Joined(s, k) \in Seq(X)
<1> DEFINE S == {k \in 0..Len(s) : Joined(s, k) \notin Seq(X)}
<1>1. SUFFICES ASSUME S # {} PROVE FALSE
  OBVIOUS
<1>2. PICK k \in S : \A m \in S : k <= m
  <2>1. S \in SUBSET Nat
    OBVIOUS
  <2> QED BY <1>1, <2>1, LeastNumber
<1>0. k \in 0..Len(s) /\ Joined(s, k) \notin Seq(X)
  OBVIOUS
<1>3. CASE k = 0
  <2>1. Joined(s, 0) = <<>>
    BY JoinedStep
  <2>2. <<>> \in Seq(X)
    OBVIOUS
  <2> HIDE DEF S
  <2> QED BY <1>0, <1>3, <2>1, <2>2
<1>4. CASE k # 0
  <2>1. k \in 1..Len(s) /\ k - 1 \in 0..Len(s) /\ k - 1 \notin S
    BY <1>2, <1>4
  <2>2. Joined(s, k - 1) \in Seq(X) /\ s[k] \in Seq(X)
    BY <2>1
  <2>3. Joined(s, k) = Joined(s, k - 1) \o s[k]
    BY <2>1, JoinedStep
  <2>4. Joined(s, k - 1) \o s[k] \in Seq(X)
    BY <2>2
  <2> QED BY <1>0, <2>3, <2>4
<1> QED BY <1>3, <1>4

\* The j-th sequence stands in every longer joining at its offset.
LEMMA JoinedAt ==
    ASSUME NEW X, NEW s \in Seq(Seq(X)), NEW j \in 1..Len(s)
    PROVE  \A k \in j..Len(s) :
              /\ Offset(s, j) <= Offset(s, k)
              /\ \A i \in 1..Len(s[j]) : Joined(s, k)[Offset(s, j - 1) + i] = s[j][i]
<1> DEFINE Ok(k) == /\ Offset(s, j) <= Offset(s, k)
                    /\ \A i \in 1..Len(s[j]) : Joined(s, k)[Offset(s, j - 1) + i] = s[j][i]
           S == {k \in j..Len(s) : ~Ok(k)}
<1>1. SUFFICES ASSUME S # {} PROVE FALSE
  OBVIOUS
<1>2. PICK k \in S : \A m \in S : k <= m
  <2>1. S \in SUBSET Nat
    <3> HIDE DEF Ok
    <3> QED OBVIOUS
  <2> QED BY <1>1, <2>1, LeastNumber
<1> HIDE DEF Ok
<1>0. Len(s) \in Nat /\ k \in 1..Len(s) /\ j \in 1..Len(s)
  OBVIOUS
<1>3. /\ \A m \in 1..Len(s) : Joined(s, m) = Joined(s, m - 1) \o s[m]
      /\ \A m \in 1..Len(s) : s[m] \in Seq(X)
  <2>1. \A m \in 1..Len(s) : Joined(s, m) = Joined(s, m - 1) \o s[m]
    BY JoinedStep
  <2>2. \A m \in 1..Len(s) : s[m] \in Seq(X)
    BY <1>0
  <2> QED BY <2>1, <2>2
<1>4. /\ Joined(s, j - 1) \in Seq(X) /\ Joined(s, k - 1) \in Seq(X)
      /\ s[k] \in Seq(X) /\ s[j] \in Seq(X)
      /\ Joined(s, k) = Joined(s, k - 1) \o s[k]
      /\ Joined(s, j) = Joined(s, j - 1) \o s[j]
  <2>1. \A m \in 0..Len(s) : Joined(s, m) \in Seq(X)
    BY JoinedType
  <2>2. j - 1 \in 0..Len(s) /\ k - 1 \in 0..Len(s)
    BY <1>0
  <2> QED BY <1>0, <1>3, <2>1, <2>2
<1>5. CASE k = j
  <2> USE DEF Ok
  <2>1. \A i \in 1..Len(s[j]) :
           (Joined(s, j - 1) \o s[j])[Len(Joined(s, j - 1)) + i] = s[j][i]
    BY <1>4
  <2>2. Offset(s, j) <= Offset(s, k)
    BY <1>4, <1>5 DEF Offset
  <2> QED BY <1>2, <1>4, <1>5, <2>1, <2>2 DEF Offset
<1>6. CASE k # j
  <2>1. k - 1 \in j..Len(s) /\ k - 1 \notin S
    BY <1>2, <1>6
  <2>2. Ok(k - 1)
    BY <2>1
  <2> USE DEF Ok
  <2>3. Len(Joined(s, k)) = Len(Joined(s, k - 1)) + Len(s[k])
        /\ Len(Joined(s, j)) = Len(Joined(s, j - 1)) + Len(s[j])
    BY <1>4
  <2>4. \A i \in 1..Len(Joined(s, k - 1)) : Joined(s, k)[i] = Joined(s, k - 1)[i]
    BY <1>4
  <2>5. Len(Joined(s, k - 1)) \in Nat /\ Len(s[k]) \in Nat /\ Len(Joined(s, j - 1)) \in Nat
        /\ Len(s[j]) \in Nat
    BY <1>4
  <2>8. /\ Offset(s, j) <= Offset(s, k - 1) /\ Offset(s, k) = Offset(s, k - 1) + Len(s[k])
        /\ Offset(s, j) = Offset(s, j - 1) + Len(s[j]) /\ Offset(s, k - 1) = Len(Joined(s, k - 1))
        /\ Offset(s, k - 1) \in Nat /\ Offset(s, j - 1) \in Nat
    BY <2>2, <2>3, <2>5 DEF Offset
  <2>6. \A i \in 1..Len(s[j]) : Offset(s, j - 1) + i \in 1..Len(Joined(s, k - 1))
    <3> DEFINE m == Len(s[j])
               o == Offset(s, j - 1)
               p == Offset(s, j)
               q == Offset(s, k - 1)
    <3>1. m \in Nat /\ o \in Nat /\ p = o + m /\ q \in Nat /\ p <= q
      BY <2>5, <2>8
    <3> HIDE DEF m, o, p, q
    <3>2. \A i \in 1..m : o + i \in 1..q
      BY <3>1
    <3> QED BY <2>8, <3>2 DEF m, o, q
  <2>7. Ok(k)
    <3>1. Offset(s, j) <= Offset(s, k)
      BY <2>5, <2>8
    <3>2. \A i \in 1..Len(s[j]) : Joined(s, k)[Offset(s, j - 1) + i] = s[j][i]
      BY <2>2, <2>4, <2>6
    <3> QED BY <3>1, <3>2
  <2> QED BY <1>2, <2>7
<1> QED BY <1>5, <1>6

\* Where the parts of a flattened sequence stand.
LEMMA Flattened ==
    ASSUME NEW X, NEW s \in Seq(Seq(X))
    PROVE  /\ FlattenSeq(s) \in Seq(X)
           /\ Offset(s, 0) = 0 /\ Offset(s, Len(s)) = Len(FlattenSeq(s))
           /\ \A k \in 0..Len(s) : Offset(s, k) \in Nat /\ Offset(s, k) <= Len(FlattenSeq(s))
           /\ \A k \in 1..Len(s) :
                 /\ Offset(s, k) = Offset(s, k - 1) + Len(s[k])
                 /\ \A i \in 1..Len(s[k]) : FlattenSeq(s)[Offset(s, k - 1) + i] = s[k][i]
<1>0. Len(s) \in Nat
  OBVIOUS
<1>1. FlattenSeq(s) = Joined(s, Len(s)) /\ Joined(s, 0) = <<>>
  BY JoinedStep
<1>2. FlattenSeq(s) \in Seq(X)
  BY <1>0, <1>1, JoinedType
<1>3. Offset(s, 0) = 0 /\ Offset(s, Len(s)) = Len(FlattenSeq(s))
  BY <1>1 DEF Offset
<1>4. \A k \in 0..Len(s) : Offset(s, k) \in Nat
  BY JoinedType DEF Offset
<1>5. ASSUME NEW k \in 1..Len(s)
      PROVE  /\ Offset(s, k) = Offset(s, k - 1) + Len(s[k])
             /\ Offset(s, k) <= Len(FlattenSeq(s))
             /\ \A i \in 1..Len(s[k]) : FlattenSeq(s)[Offset(s, k - 1) + i] = s[k][i]
  <2>0. Joined(s, k) = Joined(s, k - 1) \o s[k] /\ s[k] \in Seq(X)
    <3>1. s[k] \in Seq(X)
      BY <1>0
    <3>2. Joined(s, k) = Joined(s, k - 1) \o s[k]
      BY JoinedStep
    <3> QED BY <3>1, <3>2
  <2>1. Joined(s, k - 1) \in Seq(X)
    <3>1. k - 1 \in 0..Len(s)
      BY <1>0
    <3> QED BY <3>1, JoinedType
  <2>2. Offset(s, k) = Offset(s, k - 1) + Len(s[k])
    BY <2>0, <2>1 DEF Offset
  <2>3. Len(s) \in k..Len(s)
    BY <1>0
  <2>4. /\ Offset(s, k) <= Offset(s, Len(s))
        /\ \A i \in 1..Len(s[k]) : Joined(s, Len(s))[Offset(s, k - 1) + i] = s[k][i]
    BY <2>3, JoinedAt
  <2>5. Offset(s, k) <= Len(FlattenSeq(s))
    BY <1>3, <2>4
  <2>6. \A i \in 1..Len(s[k]) : FlattenSeq(s)[Offset(s, k - 1) + i] = s[k][i]
    BY <1>1, <2>4
  <2> QED BY <2>2, <2>5, <2>6
<1>6. \A k \in 0..Len(s) : k = 0 \/ k \in 1..Len(s)
  BY <1>0
<1>7. Len(FlattenSeq(s)) \in Nat
  BY <1>2
<1>8. \A k \in 0..Len(s) : Offset(s, k) <= Len(FlattenSeq(s))
  BY <1>3, <1>5, <1>6, <1>7
<1> QED BY <1>2, <1>3, <1>4, <1>5, <1>8

-----------------------------------------------------------------------------
(* The layout of the file of a bundle.                                     *)

\* The words a save writes.
Word == FloatWords \cup NameWords \cup {U(n) : n \in Nat} \cup {Magic(TRUE), Magic(FALSE)}

\* What the words of a save are: sequences of words, as long as what they hold.
LEMMA GlobalLength ==
    ASSUME NEW v \in View
    PROVE  GlobalWords(v) \in Seq(Word) /\ Len(GlobalWords(v)) = 3 + Len(v.feats)
<1>1. v.feats \in Seq(FloatWords) /\ v.tokens \in Nat /\ v.c \in Nat
  BY DEF View
<1>2. U(v.tokens) \in Word /\ U(v.c) \in Word /\ U(IF HasNaf(v) THEN 2 ELSE 1) \in Word
  BY <1>1 DEF Word
<1>3. FloatWords \subseteq Word
  BY DEF Word
<1> HIDE DEF Word, U, FloatWords, HasNaf
<1>4. v.feats \in Seq(Word)
  BY <1>1, <1>3
<1>5. <<U(v.tokens), U(v.c), U(IF HasNaf(v) THEN 2 ELSE 1)>> \in Seq(Word)
  BY <1>2
<1> QED BY <1>4, <1>5 DEF GlobalWords

\* A map is five words and its features.
LEMMA MapLength ==
    ASSUME NEW m \in FeatureMap, NEW role \in Nat
    PROVE  MapWords(role, m) \in Seq(Word) /\ Len(MapWords(role, m)) = 5 + Len(m.feats)
<1>1. m.feats \in Seq(FloatWords) /\ m.res \in Nat /\ m.h \in Nat /\ m.w \in Nat /\ m.c \in Nat
  BY DEF FeatureMap
<1>2. U(role) \in Word /\ U(m.res) \in Word /\ U(m.h) \in Word /\ U(m.w) \in Word /\ U(m.c) \in Word
  BY <1>1 DEF Word
<1>3. FloatWords \subseteq Word
  BY DEF Word
<1> HIDE DEF Word, U, FloatWords
<1>4. m.feats \in Seq(Word)
  BY <1>1, <1>3
<1>5. <<U(role), U(m.res), U(m.h), U(m.w), U(m.c)>> \in Seq(Word)
  BY <1>2
<1> QED BY <1>4, <1>5 DEF MapWords

\* The maps of a view are words.
LEMMA MapsLength ==
    ASSUME NEW v \in View
    PROVE  MapsWords(v) \in Seq(Word)
<1>1. v.dino \in FeatureMap /\ v.naf \in FeatureMap
  BY DEF View
<1>2. MapWords(DinoMap, v.dino) \in Seq(Word) /\ MapWords(NafMap, v.naf) \in Seq(Word)
  BY <1>1, MapLength DEF DinoMap, NafMap
<1> HIDE DEF Word
<1> QED BY <1>2 DEF MapsWords

\* The camera words of a view and the head of a stage, in either format.
CameraWords(b, v) == IF b.mv THEN <<v.cam.pose, v.cam.scale, U(v.cam.has)>> ELSE <<>>
StageHead(b, s)   == IF b.mv THEN <<U(s.len), s.name, U(Len(s.views))>> ELSE <<U(s.len), s.name>>

\* The camera of a view is words.
LEMMA CameraType ==
    ASSUME NEW v \in View
    PROVE  <<v.cam.pose, v.cam.scale, U(v.cam.has)>> \in Seq(Word)
<1>1. v.cam \in Camera
  BY DEF View
<1>2. v.cam.pose \in Word /\ v.cam.scale \in Word /\ v.cam.has \in Nat
  <2>1. U(0) \in Word /\ FloatWords \subseteq Word
    BY DEF Word
  <2>2. CASE v.cam = NoCamera
    BY <2>1, <2>2 DEF NoCamera
  <2>3. CASE v.cam \in [pose : FloatWords, scale : FloatWords, has : {0, 1}]
    BY <2>1, <2>3
  <2> QED BY <1>1, <2>2, <2>3 DEF Camera
<1>3. U(v.cam.has) \in Word
  BY <1>2 DEF Word
<1> HIDE DEF Word, U
<1> QED BY <1>2, <1>3

\* So is the head of a stage, in either format.
LEMMA HeadType ==
    ASSUME NEW s \in Stage
    PROVE  <<U(s.len), s.name>> \in Seq(Word) /\ <<U(s.len), s.name, U(Len(s.views))>> \in Seq(Word)
<1>1. s.len \in Nat /\ s.name \in NameWords /\ Len(s.views) \in Nat
  BY DEF Stage
<1>2. U(s.len) \in Word /\ s.name \in Word /\ U(Len(s.views)) \in Word
  BY <1>1 DEF Word
<1> HIDE DEF Word, U
<1> QED BY <1>2

\* A view of a P3DMVCON bundle is two blocks.
LEMMA ViewBlocksType ==
    ASSUME NEW v \in View
    PROVE  ViewBlocks(v) \in Seq(Seq(Word)) /\ Len(ViewBlocks(v)) = 2
<1>1. <<v.cam.pose, v.cam.scale, U(v.cam.has)>> \o GlobalWords(v) \in Seq(Word)
  <2>1. <<v.cam.pose, v.cam.scale, U(v.cam.has)>> \in Seq(Word) /\ GlobalWords(v) \in Seq(Word)
    BY CameraType, GlobalLength
  <2> HIDE DEF Word
  <2> DEFINE x == <<v.cam.pose, v.cam.scale, U(v.cam.has)>>
             y == GlobalWords(v)
  <2>2. x \in Seq(Word) /\ y \in Seq(Word)
    BY <2>1
  <2> HIDE DEF x, y
  <2>3. x \o y \in Seq(Word)
    BY <2>2
  <2> QED BY <2>3 DEF x, y
<1>2. MapsWords(v) \in Seq(Word)
  BY MapsLength
<1> DEFINE y == <<v.cam.pose, v.cam.scale, U(v.cam.has)>> \o GlobalWords(v)
           z == MapsWords(v)
<1>3. y \in Seq(Word) /\ z \in Seq(Word) /\ ViewBlocks(v) = <<y, z>>
  BY <1>1, <1>2 DEF ViewBlocks
<1> HIDE DEF y, z, Word
<1> QED BY <1>3

\* A stage of a P3DCOND bundle is two blocks.
LEMMA StageBlocksType ==
    ASSUME NEW s \in Stage, Len(s.views) = 1
    PROVE  StageBlocks(s) \in Seq(Seq(Word)) /\ Len(StageBlocks(s)) = 2
<1>1. s.views[1] \in View
  BY DEF Stage
<1> DEFINE x == <<U(s.len), s.name>>
           y == GlobalWords(s.views[1])
           z == MapsWords(s.views[1])
<1>2. x \in Seq(Word) /\ y \in Seq(Word) /\ z \in Seq(Word)
  BY <1>1, HeadType, GlobalLength, MapsLength
<1>3. StageBlocks(s) = <<x \o y, z>>
  BY DEF StageBlocks
<1> HIDE DEF x, y, z, Word
<1>4. x \o y \in Seq(Word)
  BY <1>2
<1> QED BY <1>2, <1>3, <1>4

\* The blocks of the views of a stage, and of the stages of a bundle.
PerView(s)  == [i \in DOMAIN s.views |-> ViewBlocks(s.views[i])]
PerStage(b) == [i \in DOMAIN b.stages |->
                   IF b.mv THEN StageMVBlocks(b.stages[i]) ELSE StageBlocks(b.stages[i])]

\* There is a sequence of blocks for every view.
LEMMA PerViewType ==
    ASSUME NEW s \in Stage
    PROVE  /\ PerView(s) \in Seq(Seq(Seq(Word))) /\ Len(PerView(s)) = Len(s.views)
           /\ \A j \in 1..Len(s.views) : PerView(s)[j] = ViewBlocks(s.views[j])
<1>1. s.views \in Seq(View)
  BY DEF Stage
<1>2. DOMAIN s.views = 1..Len(s.views) /\ Len(s.views) \in Nat
      /\ \A j \in 1..Len(s.views) : s.views[j] \in View
  BY <1>1
<1>3. \A j \in 1..Len(s.views) : ViewBlocks(s.views[j]) \in Seq(Seq(Word))
  BY <1>2, ViewBlocksType
<1>4. PerView(s) = [j \in 1..Len(s.views) |-> ViewBlocks(s.views[j])]
  BY <1>2 DEF PerView
<1> HIDE DEF Word, PerView
<1> QED BY <1>2, <1>3, <1>4

\* A stage of a P3DMVCON bundle is its head and the blocks of its views.
LEMMA StageMVBlocksType ==
    ASSUME NEW s \in Stage
    PROVE  /\ FlattenSeq(PerView(s)) \in Seq(Seq(Word))
           /\ StageMVBlocks(s) \in Seq(Seq(Word))
           /\ Len(StageMVBlocks(s)) = 1 + Len(FlattenSeq(PerView(s)))
           /\ StageMVBlocks(s)[1] = <<U(s.len), s.name, U(Len(s.views))>>
           /\ \A m \in 1..Len(FlattenSeq(PerView(s))) :
                 StageMVBlocks(s)[1 + m] = FlattenSeq(PerView(s))[m]
<1> DEFINE x == <<U(s.len), s.name, U(Len(s.views))>>
           y == FlattenSeq(PerView(s))
<1>1. x \in Seq(Word)
  BY HeadType
<1>2. y \in Seq(Seq(Word))
  BY PerViewType, Flattened
<1>3. StageMVBlocks(s) = <<x>> \o y
  BY DEF StageMVBlocks, PerView
<1> HIDE DEF x, y, Word
<1>4. <<x>> \in Seq(Seq(Word))
  BY <1>1
<1>5. <<x>> \o y \in Seq(Seq(Word)) /\ Len(<<x>> \o y) = 1 + Len(y) /\ (<<x>> \o y)[1] = x
      /\ \A m \in 1..Len(y) : (<<x>> \o y)[1 + m] = y[m]
  BY <1>2, <1>4
<1> QED BY <1>2, <1>3, <1>5 DEF x, y

\* A bundle is its format and its stages.
LEMMA BundleType ==
    ASSUME NEW b \in Bundles
    PROVE  /\ b.stages \in Seq(Stage) /\ b.mv \in BOOLEAN
           /\ b = [mv |-> b.mv, stages |-> b.stages]
           /\ Len(b.stages) \in Nat /\ DOMAIN b.stages = 1..Len(b.stages)
<1>1. b \in [mv : BOOLEAN, stages : Seq(Stage)]
  BY FilesAssumption DEF Bundle
<1>2. b.stages \in Seq(Stage) /\ b.mv \in BOOLEAN /\ b = [mv |-> b.mv, stages |-> b.stages]
  BY <1>1
<1> QED BY <1>2

\* What a bundle the savers are asked to save consists of.
LEMMA BundleShape ==
    ASSUME NEW b \in Bundles
    PROVE  \A i \in 1..Len(b.stages) :
                 /\ b.stages[i] \in Stage
                 /\ b.stages[i].name # <<"s", "">> => b.stages[i].len > 0
                 /\ ~b.mv => Len(b.stages[i].views) = 1
                 /\ \A j \in 1..Len(b.stages[i].views) :
                       LET v == b.stages[i].views[j] IN
                       /\ v \in View
                       /\ ~b.mv => v.cam = NoCamera
                       /\ ~HasNaf(v) => v.naf = NoMap
<1>1. b \in Bundle
  BY FilesAssumption
<1>3. b.stages \in Seq(Stage)
  BY BundleType
<1>4. DOMAIN b.stages = 1..Len(b.stages) /\ \A i \in 1..Len(b.stages) : b.stages[i] \in Stage
  BY <1>3
<1>5. \A i \in 1..Len(b.stages) : /\ b.stages[i].views \in Seq(View)
                                  /\ DOMAIN b.stages[i].views = 1..Len(b.stages[i].views)
                                  /\ \A j \in 1..Len(b.stages[i].views) :
                                        b.stages[i].views[j] \in View
  BY <1>4 DEF Stage
<1> HIDE DEF Stage, View, HasNaf, NoMap, NoCamera
<1> QED BY <1>1, <1>3, <1>4, <1>5 DEF Bundle

\* There is a sequence of blocks for every stage.
LEMMA StageBlocksAre ==
    ASSUME NEW b \in Bundles
    PROVE  /\ PerStage(b) \in Seq(Seq(Seq(Word))) /\ Len(PerStage(b)) = Len(b.stages)
           /\ \A i \in 1..Len(b.stages) : PerStage(b)[i] = IF b.mv THEN StageMVBlocks(b.stages[i])
                                                           ELSE StageBlocks(b.stages[i])
<1>1. DOMAIN b.stages = 1..Len(b.stages) /\ Len(b.stages) \in Nat
  BY BundleType
<1> DEFINE e(i) == IF b.mv THEN StageMVBlocks(b.stages[i]) ELSE StageBlocks(b.stages[i])
<1>2. \A i \in 1..Len(b.stages) : e(i) \in Seq(Seq(Word))
  <2> TAKE i \in 1..Len(b.stages)
  <2>1. b.stages[i] \in Stage /\ (~b.mv => Len(b.stages[i].views) = 1)
    BY BundleShape
  <2>2. StageMVBlocks(b.stages[i]) \in Seq(Seq(Word))
    BY <2>1, StageMVBlocksType
  <2>3. ~b.mv => StageBlocks(b.stages[i]) \in Seq(Seq(Word))
    BY <2>1, StageBlocksType
  <2> HIDE DEF Word
  <2> QED BY <2>2, <2>3
<1>3. PerStage(b) = [i \in 1..Len(b.stages) |-> e(i)]
  BY <1>1 DEF PerStage
<1> HIDE DEF Word, e
<1>4. PerStage(b) \in Seq(Seq(Seq(Word))) /\ Len(PerStage(b)) = Len(b.stages)
      /\ \A i \in 1..Len(b.stages) : PerStage(b)[i] = e(i)
  BY <1>1, <1>2, <1>3
<1> QED BY <1>4 DEF e

\* The blocks of a bundle are its header and those of its stages.
LEMMA BlocksAre ==
    ASSUME NEW b \in Bundles
    PROVE  /\ FlattenSeq(PerStage(b)) \in Seq(Seq(Word))
           /\ Blocks(b) \in Seq(Seq(Word))
           /\ Len(Blocks(b)) = 1 + Len(FlattenSeq(PerStage(b)))
           /\ Blocks(b)[1] = HeaderWords(b)
           /\ \A m \in 1..Len(FlattenSeq(PerStage(b))) : Blocks(b)[1 + m] = FlattenSeq(PerStage(b))[m]
<1> DEFINE x == HeaderWords(b)
           y == FlattenSeq(PerStage(b))
<1>1. x \in Seq(Word)
  <2>1. U(Version) \in Word /\ U(Len(b.stages)) \in Word
    BY BundleType DEF Word, Version
  <2>2. Magic(b.mv) \in Word
    BY BundleType DEF Word
  <2> HIDE DEF Word, Magic, U
  <2> QED BY <2>1, <2>2 DEF HeaderWords
<1>2. y \in Seq(Seq(Word))
  BY StageBlocksAre, Flattened
<1>3. Blocks(b) = <<x>> \o y
  BY DEF Blocks, PerStage
<1> HIDE DEF x, y, Word
<1>4. <<x>> \in Seq(Seq(Word))
  BY <1>1
<1>5. <<x>> \o y \in Seq(Seq(Word)) /\ Len(<<x>> \o y) = 1 + Len(y) /\ (<<x>> \o y)[1] = x
      /\ \A m \in 1..Len(y) : (<<x>> \o y)[1 + m] = y[m]
  BY <1>2, <1>4
<1> QED BY <1>2, <1>3, <1>5 DEF x, y

\* The words ws stand in the image of b after its first k words.
Stand(b, k, ws) ==
    /\ k \in Nat /\ k + Len(ws) <= Len(Image[b])
    /\ \A i \in 1..Len(ws) : Image[b][k + i] = ws[i]

\* The offset of the k-th block in the image.
At(b, k) == Offset(Blocks(b), k)

\* An image is the words of the blocks, one after the other.
LEMMA ImageType ==
    ASSUME NEW b \in Bundles
    PROVE  Image[b] = FlattenSeq(Blocks(b)) /\ Image[b] \in Seq(Word)
<1>1. Image[b] = FlattenSeq(Blocks(b))
  BY DEF Image, Encoding
<1>2. FlattenSeq(Blocks(b)) \in Seq(Word)
  BY BlocksAre, Flattened
<1> QED BY <1>1, <1>2

\* A block stands where the blocks before it end.
LEMMA BlockStands ==
    ASSUME NEW b \in Bundles, NEW k \in 1..Len(Blocks(b))
    PROVE  /\ Stand(b, At(b, k - 1), Blocks(b)[k])
           /\ At(b, k) = At(b, k - 1) + Len(Blocks(b)[k])
           /\ At(b, k - 1) \in {0} \cup Ends[b]
<1>1. Blocks(b) \in Seq(Seq(Word))
  BY BlocksAre
<1>2. /\ At(b, k) = At(b, k - 1) + Len(Blocks(b)[k])
      /\ \A i \in 1..Len(Blocks(b)[k]) : Image[b][At(b, k - 1) + i] = Blocks(b)[k][i]
  BY <1>1, ImageType, Flattened DEF At
<1>3. \A m \in 0..Len(Blocks(b)) : At(b, m) \in Nat /\ At(b, m) <= Len(Image[b])
  BY <1>1, ImageType, Flattened DEF At
<1>4. Len(Blocks(b)) \in Nat /\ k \in 0..Len(Blocks(b)) /\ k - 1 \in 0..Len(Blocks(b))
  BY <1>1
<1>5. Stand(b, At(b, k - 1), Blocks(b)[k])
  BY <1>2, <1>3, <1>4 DEF Stand
<1>6. At(b, 0) = 0
  BY <1>1, Flattened DEF At
<1>7. k # 1 => At(b, k - 1) \in Ends[b]
  <2> SUFFICES ASSUME k # 1 PROVE At(b, k - 1) \in Ends[b]
    OBVIOUS
  <2>1. k - 1 \in DOMAIN Blocks(b)
    BY <1>1, <1>4
  <2> QED BY <2>1 DEF Ends, At, Offset, Joined
<1> QED BY <1>2, <1>5, <1>6, <1>7

\* An end of a block is the offset of one.
LEMMA EndsAre ==
    ASSUME NEW b \in Bundles
    PROVE  /\ At(b, 0) = 0 /\ At(b, Len(Blocks(b))) = Len(Image[b])
           /\ Ends[b] \subseteq 0..Len(Image[b])
           /\ Len(Image[b]) \in Nat
<1>1. Blocks(b) \in Seq(Seq(Word)) /\ DOMAIN Blocks(b) = 1..Len(Blocks(b))
  BY BlocksAre
<1>2. \A m \in 0..Len(Blocks(b)) : At(b, m) \in Nat /\ At(b, m) <= Len(Image[b])
  BY <1>1, ImageType, Flattened DEF At
<1>3. Ends[b] = {At(b, k) : k \in 1..Len(Blocks(b))}
  BY <1>1 DEF Ends, At, Offset, Joined
<1>4. At(b, 0) = 0 /\ At(b, Len(Blocks(b))) = Len(Image[b])
  BY <1>1, ImageType, Flattened DEF At
<1>5. Len(Image[b]) \in Nat
  BY ImageType
<1> QED BY <1>2, <1>3, <1>4, <1>5

\* Of words that stand somewhere, the first stand there and the rest after them.
LEMMA StandSplit ==
    ASSUME NEW b \in Bundles, NEW k, NEW x \in Seq(Word), NEW y \in Seq(Word),
           Stand(b, k, x \o y)
    PROVE  Stand(b, k, x) /\ Stand(b, k + Len(x), y)
<1>1. Len(x) \in Nat /\ Len(y) \in Nat /\ Len(x \o y) = Len(x) + Len(y) /\ k \in Nat
      /\ Len(Image[b]) \in Nat /\ k + Len(x \o y) <= Len(Image[b])
  BY EndsAre DEF Stand
<1>2. /\ \A i \in 1..Len(x) : (x \o y)[i] = x[i]
      /\ \A i \in 1..Len(y) : (x \o y)[Len(x) + i] = y[i]
  OBVIOUS
<1>3. \A i \in 1..Len(x \o y) : Image[b][k + i] = (x \o y)[i]
  BY DEF Stand
<1> DEFINE z == x \o y
<1> HIDE DEF z
<1>4. Stand(b, k, x)
  <2>1. \A i \in 1..Len(x) : i \in 1..Len(z)
    BY <1>1 DEF z
  <2> QED BY <1>1, <1>2, <1>3, <2>1 DEF Stand, z
<1>5. \A i \in 1..Len(y) : Image[b][(k + Len(x)) + i] = y[i]
  <2> TAKE i \in 1..Len(y)
  <2>1. Len(x) + i \in 1..Len(x \o y) /\ (k + Len(x)) + i = k + (Len(x) + i)
    BY <1>1
  <2> QED BY <1>2, <1>3, <2>1
<1>6. k + Len(x) \in Nat /\ (k + Len(x)) + Len(y) <= Len(Image[b])
  BY <1>1
<1> QED BY <1>4, <1>5, <1>6 DEF Stand

\* The first block of a stage, and where a stage and its views begin: the
\* words of the camera, the global tensor and the maps of a view follow each
\* other, and after its last view comes the next stage.
StageBlock(b, i) == 1 + Offset(PerStage(b), i - 1)
StageAt(b, i)    == At(b, StageBlock(b, i))
ViewBlock(b, i, j) == StageBlock(b, i) + 1 + Offset(PerView(b.stages[i]), j - 1)
ViewAt(b, i, j) == IF b.mv THEN At(b, ViewBlock(b, i, j))
                   ELSE IF j = 1 THEN StageAt(b, i) + 2 ELSE StageAt(b, i + 1)
GlobalAt(b, i, j) == ViewAt(b, i, j) + Len(CameraWords(b, b.stages[i].views[j]))
MapsAt(b, i, j)   == GlobalAt(b, i, j) + Len(GlobalWords(b.stages[i].views[j]))

\* The blocks of a stage are blocks of the bundle.
LEMMA StageFits ==
    ASSUME NEW b \in Bundles, NEW i \in 1..Len(b.stages)
    PROVE  /\ StageBlock(b, i) \in Nat \ {0}
           /\ Len(PerStage(b)[i]) \in Nat
           /\ StageBlock(b, i + 1) = StageBlock(b, i) + Len(PerStage(b)[i])
           /\ StageBlock(b, i + 1) <= Len(Blocks(b))
           /\ \A m \in 1..Len(PerStage(b)[i]) :
                 /\ StageBlock(b, i) + m \in 1..Len(Blocks(b))
                 /\ Blocks(b)[StageBlock(b, i) + m] = PerStage(b)[i][m]
<1> DEFINE s == PerStage(b)
           n == Len(b.stages)
           o == Offset(s, i - 1)
           y == FlattenSeq(s)
<1>1. s \in Seq(Seq(Seq(Word))) /\ Len(s) = n /\ n \in Nat
  BY StageBlocksAre, BundleType
<1>2. s[i] \in Seq(Seq(Word))
  BY <1>1
<1>3. i \in 1..Len(s) /\ i - 1 \in 0..Len(s) /\ i \in 0..Len(s) /\ i + 1 - 1 = i
  BY <1>1
<1>4. o \in Nat /\ Offset(s, i) \in Nat /\ Offset(s, i) <= Len(y)
  BY <1>1, <1>3, Flattened
<1>5. Offset(s, i) = o + Len(s[i]) /\ \A m \in 1..Len(s[i]) : y[o + m] = s[i][m]
  BY <1>1, <1>3, Flattened
<1>6. /\ y \in Seq(Seq(Word)) /\ Len(Blocks(b)) = 1 + Len(y)
      /\ \A m \in 1..Len(y) : Blocks(b)[1 + m] = y[m]
  BY BlocksAre
<1>7. StageBlock(b, i) = 1 + o /\ StageBlock(b, i + 1) = 1 + Offset(s, i)
  BY <1>3 DEF StageBlock
<1> HIDE DEF s, o, y, n, Word
<1>8. Len(s[i]) \in Nat /\ Len(y) \in Nat
  BY <1>2, <1>6
<1>9. \A m \in 1..Len(s[i]) : o + m \in 1..Len(y) /\ (1 + o) + m = 1 + (o + m)
  BY <1>4, <1>5, <1>8
<1>10. \A m \in 1..Len(s[i]) : /\ StageBlock(b, i) + m \in 1..Len(Blocks(b))
                               /\ Blocks(b)[StageBlock(b, i) + m] = s[i][m]
  BY <1>4, <1>5, <1>6, <1>7, <1>8, <1>9
<1>11. StageBlock(b, i) \in Nat \ {0} /\ Len(s[i]) \in Nat
       /\ StageBlock(b, i + 1) = StageBlock(b, i) + Len(s[i])
       /\ StageBlock(b, i + 1) <= Len(Blocks(b))
  <2> DEFINE p == Offset(s, i)
             q == Len(s[i])
             r == Len(y)
  <2>1. p = o + q /\ p <= r /\ Len(Blocks(b)) = 1 + r /\ StageBlock(b, i + 1) = 1 + p
        /\ q \in Nat /\ r \in Nat
    BY <1>4, <1>5, <1>6, <1>7, <1>8
  <2> HIDE DEF p, q, r
  <2>2. /\ StageBlock(b, i) \in Nat \ {0} /\ StageBlock(b, i + 1) = StageBlock(b, i) + q
        /\ StageBlock(b, i + 1) <= Len(Blocks(b))
    BY <1>4, <1>7, <2>1
  <2> QED BY <1>8, <2>2 DEF q
<1> QED BY <1>10, <1>11 DEF s

\* The blocks of a view are blocks of the bundle.
LEMMA ViewFits ==
    ASSUME NEW b \in Bundles, b.mv, NEW i \in 1..Len(b.stages),
           NEW j \in 1..Len(b.stages[i].views)
    PROVE  /\ ViewBlock(b, i, j) \in Nat
           /\ ViewBlock(b, i, j + 1) = ViewBlock(b, i, j) + 2
           /\ \A m \in 1..2 :
                 /\ ViewBlock(b, i, j) + m \in 1..Len(Blocks(b))
                 /\ Blocks(b)[ViewBlock(b, i, j) + m] = ViewBlocks(b.stages[i].views[j])[m]
<1> DEFINE st == b.stages[i]
           s == PerView(st)
           o == Offset(s, j - 1)
           y == FlattenSeq(s)
<1>1. st \in Stage
  BY BundleShape
<1>2. /\ s \in Seq(Seq(Seq(Word))) /\ Len(s) = Len(st.views) /\ s[j] = ViewBlocks(st.views[j])
      /\ Len(st.views) \in Nat
  BY <1>1, PerViewType
<1>3. Len(s[j]) = 2
  <2>1. st.views[j] \in View
    BY <1>1 DEF Stage
  <2> QED BY <1>2, <2>1, ViewBlocksType
<1>4. j \in 1..Len(s) /\ j - 1 \in 0..Len(s) /\ j \in 0..Len(s) /\ j + 1 - 1 = j
  BY <1>2
<1>5. o \in Nat /\ Offset(s, j) \in Nat /\ Offset(s, j) <= Len(y)
  BY <1>2, <1>4, Flattened
<1>6. Offset(s, j) = o + 2 /\ \A m \in 1..2 : y[o + m] = s[j][m]
  <2>1. Offset(s, j) = o + Len(s[j]) /\ \A m \in 1..Len(s[j]) : y[o + m] = s[j][m]
    BY <1>2, <1>4, Flattened
  <2> QED BY <1>3, <2>1
<1>7. PerStage(b)[i] = StageMVBlocks(st)
  BY StageBlocksAre
<1>8. /\ y \in Seq(Seq(Word)) /\ Len(PerStage(b)[i]) = 1 + Len(y)
      /\ \A m \in 1..Len(y) : PerStage(b)[i][1 + m] = y[m]
  BY <1>1, <1>7, StageMVBlocksType
<1>9. ViewBlock(b, i, j) = StageBlock(b, i) + 1 + o
      /\ ViewBlock(b, i, j + 1) = StageBlock(b, i) + 1 + Offset(s, j)
  BY <1>4 DEF ViewBlock
<1>10. /\ StageBlock(b, i) \in Nat
       /\ \A m \in 1..Len(PerStage(b)[i]) :
                 /\ StageBlock(b, i) + m \in 1..Len(Blocks(b))
                 /\ Blocks(b)[StageBlock(b, i) + m] = PerStage(b)[i][m]
  BY StageFits
<1>11. s[j] = ViewBlocks(b.stages[i].views[j])
  BY <1>2
<1> HIDE DEF s, o, y, Word, st
<1>12. ASSUME NEW m \in 1..2
       PROVE  /\ ViewBlock(b, i, j) + m \in 1..Len(Blocks(b))
              /\ Blocks(b)[ViewBlock(b, i, j) + m] = s[j][m]
  <2>1. Len(y) \in Nat /\ o + m \in 1..Len(y) /\ 1 + (o + m) \in 1..Len(PerStage(b)[i])
    BY <1>5, <1>6, <1>8
  <2>2. ViewBlock(b, i, j) + m = StageBlock(b, i) + (1 + (o + m))
    BY <1>5, <1>9, <1>10
  <2>3. PerStage(b)[i][1 + (o + m)] = s[j][m]
    BY <1>6, <1>8, <2>1
  <2> QED BY <1>10, <2>1, <2>2, <2>3
<1>13. ViewBlock(b, i, j) \in Nat /\ ViewBlock(b, i, j + 1) = ViewBlock(b, i, j) + 2
  BY <1>5, <1>6, <1>9, <1>10
<1> QED BY <1>11, <1>12, <1>13

\* The header stands at the beginning, the first stage after it, and the last one
\* ends the file.
LEMMA HeadStands ==
    ASSUME NEW b \in Bundles
    PROVE  /\ Stand(b, 0, HeaderWords(b))
           /\ StageAt(b, 1) = 3
           /\ StageAt(b, Len(b.stages) + 1) = Len(Image[b])
<1>1. Offset(PerStage(b), 0) = 0
      /\ Offset(PerStage(b), Len(PerStage(b))) = Len(FlattenSeq(PerStage(b)))
  BY StageBlocksAre, Flattened
<1>2. StageBlock(b, 1) = 1 /\ StageBlock(b, Len(b.stages) + 1) = Len(Blocks(b))
  <2>1. Len(PerStage(b)) = Len(b.stages) /\ Len(b.stages) \in Nat
        /\ Len(b.stages) + 1 - 1 = Len(b.stages)
    BY StageBlocksAre, BundleType
  <2> QED BY <1>1, <2>1, BlocksAre DEF StageBlock
<1>3. 1 \in 1..Len(Blocks(b)) /\ Blocks(b)[1] = HeaderWords(b)
  BY BlocksAre
<1>4. Stand(b, 0, HeaderWords(b)) /\ At(b, 1) = 0 + Len(HeaderWords(b))
  <2>1. At(b, 0) = 0 /\ 1 - 1 = 0
    BY EndsAre
  <2> QED BY <1>3, <2>1, BlockStands
<1>5. Len(HeaderWords(b)) = 3
  BY DEF HeaderWords
<1>6. StageAt(b, Len(b.stages) + 1) = Len(Image[b])
  BY <1>2, EndsAre DEF StageAt
<1> QED BY <1>2, <1>4, <1>5, <1>6 DEF StageAt

\* A stage begins with its head and its first view.
LEMMA StageStands ==
    ASSUME NEW b \in Bundles, NEW i \in 1..Len(b.stages)
    PROVE  /\ Stand(b, StageAt(b, i), StageHead(b, b.stages[i]))
           /\ StageAt(b, i) \in {0} \cup Ends[b]
           /\ ViewAt(b, i, 1) = StageAt(b, i) + Len(StageHead(b, b.stages[i]))
           /\ ViewAt(b, i, Len(b.stages[i].views) + 1) = StageAt(b, i + 1)
<1> DEFINE st == b.stages[i]
           k == StageBlock(b, i)
           B == PerStage(b)[i]
<1>1. /\ st \in Stage /\ (~b.mv => Len(st.views) = 1)
      /\ Len(st.views) \in Nat
  <2>1. st \in Stage /\ (~b.mv => Len(st.views) = 1)
    BY BundleShape
  <2> QED BY <2>1 DEF Stage
<1>2. k \in Nat /\ Len(B) \in Nat /\ StageBlock(b, i + 1) = k + Len(B)
  BY StageFits
<1>3. Len(B) > 0 => k + 1 \in 1..Len(Blocks(b)) /\ Blocks(b)[k + 1] = B[1]
  BY <1>2, StageFits
<1>4. CASE b.mv
  <2> DEFINE y == FlattenSeq(PerView(st))
  <2>1. B = StageMVBlocks(st)
    BY <1>4, StageBlocksAre
  <2>2. Len(B) = 1 + Len(y) /\ B[1] = StageHead(b, st) /\ Len(y) \in Nat
    BY <1>1, <1>4, <2>1, StageMVBlocksType DEF StageHead
  <2>3. k + 1 \in 1..Len(Blocks(b)) /\ Blocks(b)[k + 1] = StageHead(b, st) /\ (k + 1) - 1 = k
    BY <1>2, <1>3, <2>2
  <2>4. /\ Stand(b, At(b, k), StageHead(b, st))
        /\ At(b, k + 1) = At(b, k) + Len(StageHead(b, st))
        /\ At(b, k) \in {0} \cup Ends[b]
    BY <2>3, BlockStands
  <2>5. ViewAt(b, i, 1) = At(b, k + 1)
    <3>1. Offset(PerView(st), 0) = 0
      BY <1>1, PerViewType, Flattened
    <3>2. 1 - 1 = 0 /\ k + 1 + 0 = k + 1
      BY <1>2
    <3> QED BY <1>4, <3>1, <3>2 DEF ViewAt, ViewBlock
  <2>6. ViewAt(b, i, Len(st.views) + 1) = StageAt(b, i + 1)
    <3>1. Offset(PerView(st), Len(st.views)) = Len(y)
      BY <1>1, PerViewType, Flattened
    <3>2. Len(st.views) + 1 - 1 = Len(st.views)
      BY <1>1
    <3>3. ViewBlock(b, i, Len(st.views) + 1) = k + 1 + Len(y)
      BY <3>1, <3>2 DEF ViewBlock
    <3>4. StageBlock(b, i + 1) = k + 1 + Len(y)
      BY <1>2, <2>2
    <3> QED BY <1>4, <3>3, <3>4 DEF ViewAt, StageAt
  <2> QED BY <2>4, <2>5, <2>6 DEF StageAt
<1>5. CASE ~b.mv
  <2> DEFINE x == <<U(st.len), st.name>>
             g == GlobalWords(st.views[1])
  <2>1. B = StageBlocks(st)
    BY <1>5, StageBlocksAre
  <2>2. Len(B) = 2 /\ B[1] = x \o g
    BY <1>1, <1>5, <2>1, StageBlocksType DEF StageBlocks
  <2>3. k + 1 \in 1..Len(Blocks(b)) /\ Blocks(b)[k + 1] = x \o g /\ (k + 1) - 1 = k
    BY <1>2, <1>3, <2>2
  <2>4. Stand(b, At(b, k), x \o g) /\ At(b, k) \in {0} \cup Ends[b]
    BY <2>3, BlockStands
  <2>5. x \in Seq(Word) /\ g \in Seq(Word)
    <3>1. st.views[1] \in View
      BY <1>1, <1>5 DEF Stage
    <3> QED BY <1>1, <3>1, HeadType, GlobalLength
  <2>6. Stand(b, At(b, k), x)
    BY <2>4, <2>5, StandSplit
  <2>7. StageHead(b, st) = x /\ Len(x) = 2
    BY <1>5 DEF StageHead
  <2>8. ViewAt(b, i, 1) = StageAt(b, i) + 2 /\ ViewAt(b, i, Len(st.views) + 1) = StageAt(b, i + 1)
    <3>1. ViewAt(b, i, 1) = StageAt(b, i) + 2 /\ ViewAt(b, i, 2) = StageAt(b, i + 1)
      BY <1>5 DEF ViewAt
    <3>2. Len(st.views) = 1 /\ 1 + 1 = 2
      <4>1. Len(st.views) = 1
        BY <1>1, <1>5, Zenon
      <4> QED BY <4>1
    <3> QED BY <3>1, <3>2
  <2> HIDE DEF x
  <2> QED BY <2>4, <2>6, <2>7, <2>8 DEF StageAt
<1> QED BY <1>4, <1>5

\* A view is its camera, its global tensor and its maps.
LEMMA ViewStands ==
    ASSUME NEW b \in Bundles, NEW i \in 1..Len(b.stages),
           NEW j \in 1..Len(b.stages[i].views)
    PROVE  /\ Stand(b, ViewAt(b, i, j), CameraWords(b, b.stages[i].views[j]))
           /\ Stand(b, GlobalAt(b, i, j), GlobalWords(b.stages[i].views[j]))
           /\ Stand(b, MapsAt(b, i, j), MapsWords(b.stages[i].views[j]))
           /\ ViewAt(b, i, j + 1) = MapsAt(b, i, j) + Len(MapsWords(b.stages[i].views[j]))
<1> DEFINE st == b.stages[i]
           v == st.views[j]
           g == GlobalWords(v)
           z == MapsWords(v)
<1>1. st \in Stage /\ v \in View /\ (~b.mv => Len(st.views) = 1)
  BY BundleShape
<1>2. g \in Seq(Word) /\ z \in Seq(Word)
  BY <1>1, GlobalLength, MapsLength
<1>3. CASE b.mv
  <2> DEFINE k == ViewBlock(b, i, j)
             x == <<v.cam.pose, v.cam.scale, U(v.cam.has)>>
  <2>1. /\ k \in Nat /\ ViewBlock(b, i, j + 1) = k + 2
        /\ k + 1 \in 1..Len(Blocks(b)) /\ Blocks(b)[k + 1] = ViewBlocks(v)[1]
        /\ k + 2 \in 1..Len(Blocks(b)) /\ Blocks(b)[k + 2] = ViewBlocks(v)[2]
    <3>1. /\ k \in Nat /\ ViewBlock(b, i, j + 1) = k + 2
          /\ \A m \in 1..2 : /\ k + m \in 1..Len(Blocks(b))
                             /\ Blocks(b)[k + m] = ViewBlocks(v)[m]
      BY <1>3, ViewFits
    <3> HIDE DEF k, v
    <3> QED BY <3>1, SMTT(30)
  <2>2. x \in Seq(Word) /\ CameraWords(b, v) = x
    BY <1>1, <1>3, CameraType DEF CameraWords
  <2>3. ViewBlocks(v)[1] = x \o g /\ ViewBlocks(v)[2] = z
    BY DEF ViewBlocks
  <2>4. (k + 1) - 1 = k /\ (k + 2) - 1 = k + 1
    BY <2>1
  <2>5. Stand(b, At(b, k), x \o g) /\ At(b, k + 1) = At(b, k) + Len(x \o g)
    BY <2>1, <2>3, <2>4, BlockStands
  <2>6. Stand(b, At(b, k + 1), z) /\ At(b, k + 2) = At(b, k + 1) + Len(z)
    BY <2>1, <2>3, <2>4, BlockStands
  <2>7. Stand(b, At(b, k), x) /\ Stand(b, At(b, k) + Len(x), g)
    BY <1>2, <2>2, <2>5, StandSplit
  <2>8. ViewAt(b, i, j) = At(b, k) /\ ViewAt(b, i, j + 1) = At(b, k + 2)
    BY <1>3, <2>1 DEF ViewAt
  <2>9. GlobalAt(b, i, j) = At(b, k) + Len(x)
    BY <2>2, <2>8 DEF GlobalAt
  <2>10. MapsAt(b, i, j) = At(b, k + 1)
    <3> HIDE DEF x, g
    <3>1. Len(x \o g) = Len(x) + Len(g) /\ Len(x) \in Nat /\ Len(g) \in Nat
      BY <1>2, <2>2
    <3>2. At(b, k) \in Nat
      BY <2>5 DEF Stand
    <3> QED BY <2>5, <2>9, <3>1, <3>2 DEF MapsAt, g
  <2> QED BY <2>2, <2>6, <2>7, <2>8, <2>9, <2>10
<1>4. CASE ~b.mv
  <2> DEFINE k == StageBlock(b, i)
             x == <<U(st.len), st.name>>
             B == PerStage(b)[i]
  <2>1. j = 1 /\ Len(st.views) = 1
    BY <1>1, <1>4
  <2>2. Len(B) = 2 /\ B[1] = x \o g /\ B[2] = z
    <3>1. B = StageBlocks(st) /\ Len(StageBlocks(st)) = 2
      BY <1>1, <1>4, StageBlocksAre, StageBlocksType
    <3>2. StageBlocks(st) = <<x \o g, z>>
      BY <2>1 DEF StageBlocks
    <3> HIDE DEF B, x, g, z
    <3> QED BY <3>1, <3>2
  <2>3. /\ k \in Nat /\ StageBlock(b, i + 1) = k + 2
        /\ k + 1 \in 1..Len(Blocks(b)) /\ Blocks(b)[k + 1] = x \o g
        /\ k + 2 \in 1..Len(Blocks(b)) /\ Blocks(b)[k + 2] = z
    <3>1. /\ k \in Nat \ {0} /\ StageBlock(b, i + 1) = k + Len(B)
          /\ \A m \in 1..Len(B) : k + m \in 1..Len(Blocks(b)) /\ Blocks(b)[k + m] = B[m]
      BY StageFits
    <3> HIDE DEF k, B, x, g, z
    <3>2. k + 1 \in 1..Len(Blocks(b)) /\ Blocks(b)[k + 1] = B[1]
      BY <2>2, <3>1
    <3>3. k + 2 \in 1..Len(Blocks(b)) /\ Blocks(b)[k + 2] = B[2]
      BY <2>2, <3>1
    <3> QED BY <2>2, <3>1, <3>2, <3>3
  <2>4. (k + 1) - 1 = k /\ (k + 2) - 1 = k + 1
    BY <2>3
  <2>5. Stand(b, At(b, k), x \o g) /\ At(b, k + 1) = At(b, k) + Len(x \o g)
    BY <2>3, <2>4, BlockStands
  <2>6. Stand(b, At(b, k + 1), z) /\ At(b, k + 2) = At(b, k + 1) + Len(z)
    BY <2>3, <2>4, BlockStands
  <2>7. x \in Seq(Word) /\ Len(x) = 2
    BY <1>1, HeadType
  <2>8. Stand(b, At(b, k) + 2, g)
    <3>1. Stand(b, At(b, k) + Len(x), g)
      BY <1>2, <2>5, <2>7, StandSplit
    <3> QED BY <2>7, <3>1
  <2>9. ViewAt(b, i, j) = At(b, k) + 2 /\ ViewAt(b, i, j + 1) = At(b, k + 2)
    BY <1>4, <2>1, <2>3 DEF ViewAt, StageAt
  <2>10. CameraWords(b, v) = <<>> /\ Len(<<>>) = 0
    BY <1>4 DEF CameraWords
  <2>11. At(b, k) \in Nat /\ Len(g) \in Nat
    BY <1>2, <2>5 DEF Stand
  <2>12. GlobalAt(b, i, j) = At(b, k) + 2
    BY <2>9, <2>10, <2>11 DEF GlobalAt
  <2>13. MapsAt(b, i, j) = At(b, k + 1)
    <3>1. x \in Seq(Word) /\ g \in Seq(Word)
      BY <1>2, <2>7
    <3>2. MapsAt(b, i, j) = At(b, k) + 2 + Len(g)
      BY <2>12 DEF MapsAt
    <3> HIDE DEF x, g, k, Word
    <3>3. Len(x \o g) = Len(x) + Len(g)
      BY <3>1
    <3> QED BY <2>5, <2>7, <2>11, <3>2, <3>3
  <2>14. Stand(b, ViewAt(b, i, j), <<>>)
    <3> HIDE DEF g
    <3> QED BY <2>8, <2>9, <2>10, <2>11, EndsAre DEF Stand
  <2> HIDE DEF k, x, B
  <2> QED BY <2>6, <2>8, <2>9, <2>10, <2>12, <2>13, <2>14
<1> QED BY <1>3, <1>4

-----------------------------------------------------------------------------
(* Reading a file that agrees with the image of a bundle.                  *)

\* A bundle that a save can write to its end.
Good(b) == /\ Valid(b)
           /\ \A i \in 1..Len(b.stages) : b.stages[i].len <= MaxName

\* The content c is the image of b as far as both go, and is no other one of
\* its length.
Agrees(c, b) == /\ c \in Seq(AllWords) /\ Len(c) \in Nat
                /\ \A i \in 1..Len(c) : i <= Len(Image[b]) => c[i] = Image[b][i]
                /\ c # Image[b] => Len(c) # Len(Image[b])

\* How far a reader of c is through the image of b, by the code's phases.
AtStage(rd, b, i) ==
    /\ i \in 1..Len(b.stages)
    /\ rd.mv = b.mv
    /\ rd.stages = Len(b.stages) - i + 1
    /\ rd.out = SubSeq(b.stages, 1, i - 1)

AtView(rd, b, i, j) ==
    /\ AtStage(rd, b, i)
    /\ j \in 1..Len(b.stages[i].views)
    /\ rd.views = Len(b.stages[i].views) - j + 1
    /\ rd.stage = [len |-> b.stages[i].len, name |-> b.stages[i].name,
                   views |-> SubSeq(b.stages[i].views, 1, j - 1)]

WithMaps(v, dino, naf) ==
    [cam |-> v.cam, tokens |-> v.tokens, c |-> v.c, feats |-> v.feats,
     dino |-> dino, naf |-> naf]

MapsCount(v) == IF HasNaf(v) THEN 2 ELSE 1

MapsRead(rd, v, k) ==
    \/ /\ rd.have = {} /\ rd.maps = MapsCount(v) /\ rd.pos = k
       /\ rd.view = WithMaps(v, NoMap, NoMap)
    \/ /\ rd.have = {DinoMap} /\ rd.maps = MapsCount(v) - 1
       /\ rd.pos = k + Len(MapWords(DinoMap, v.dino))
       /\ rd.view = WithMaps(v, v.dino, NoMap)
    \/ /\ HasNaf(v) /\ DinoMap \in rd.have /\ rd.maps = 0
       /\ rd.pos = k + Len(MapsWords(v))
       /\ rd.view = WithMaps(v, v.dino, v.naf)

FollowsHead(rd)      == rd.pc = "head" /\ rd.pos = 0 /\ rd.out = <<>>
FollowsStage(rd, b)  == rd.pc = "stage" /\ \E i : AtStage(rd, b, i) /\ rd.pos = StageAt(b, i)
FollowsCamera(rd, b) == rd.pc = "camera" /\ b.mv
                        /\ \E i, j : AtView(rd, b, i, j) /\ rd.pos = ViewAt(b, i, j)
FollowsView(rd, b)   == rd.pc = "view"
                        /\ \E i, j : /\ AtView(rd, b, i, j) /\ rd.pos = GlobalAt(b, i, j)
                                     /\ b.mv => rd.view = b.stages[i].views[j].cam
FollowsMap(rd, b)    == rd.pc = "map"
                        /\ \E i, j : /\ AtView(rd, b, i, j)
                                     /\ MapsRead(rd, b.stages[i].views[j], MapsAt(b, i, j))
FollowsEnd(rd, b)    == /\ rd.pc = "end" /\ rd.mv = b.mv /\ rd.out = b.stages
                        /\ rd.pos = Len(Image[b])

Follows(rd, c, b) ==
    /\ rd.pc \in {"head", "stage", "camera", "view", "map", "end"} => rd.pos <= Len(c)
    /\ \/ FollowsHead(rd) \/ FollowsStage(rd, b) \/ FollowsCamera(rd, b)
       \/ FollowsView(rd, b) \/ FollowsMap(rd, b) \/ FollowsEnd(rd, b)
       \/ rd.pc = "loaded" /\ rd.out = b /\ c = Image[b]
       \/ rd.pc = "refused" /\ (c = Image[b] => rd.mv # b.mv)
       \/ rd.pc = "idle"

\* Every field of a reader is there, whatever it holds.
Fields == {"pc", "file", "pos", "mv", "stages", "views", "maps", "have", "view", "stage", "out"}

\* What a reader whose file is no other saver's goes by.
Reads(r, b) ==
    /\ r \in Readers /\ b \in Bundles /\ Good(b)
    /\ DOMAIN readers = Readers /\ DOMAIN readers[r] = Fields /\ readers[r].mv \in BOOLEAN
    /\ Agrees(Words(r), b)
    /\ Follows(readers[r], Words(r), b)

\* What is read where words of b stand.
LEMMA WordsRead ==
    ASSUME NEW r, NEW b, Reads(r, b), NEW ws \in Seq(Word), Stand(b, readers[r].pos, ws),
           NEW n \in 1..Len(ws)
    PROVE  /\ Has(r, n) => \A i \in 1..n : WordAt(r, i) = ws[i]
           /\ Words(r) = Image[b] => Has(r, n)
<1> DEFINE c == Words(r)
           k == readers[r].pos
<1>0. Agrees(c, b) /\ b \in Bundles
  BY DEF Reads
<1>1. k \in Nat /\ Len(ws) \in Nat /\ k + Len(ws) <= Len(Image[b]) /\ Len(c) \in Nat
      /\ Len(Image[b]) \in Nat
  BY <1>0, EndsAre DEF Stand, Agrees
<1>2. \A m \in Nat : Has(r, m) <=> Len(c) >= k + m
  BY DEF Has
<1>3. \A i \in Nat : WordAt(r, i) = c[k + i]
  BY DEF WordAt
<1>4. \A i \in 1..Len(c) : i <= Len(Image[b]) => c[i] = Image[b][i]
  BY <1>0 DEF Agrees
<1>5. \A i \in 1..Len(ws) : Image[b][k + i] = ws[i]
  BY DEF Stand
<1> HIDE DEF c, k
<1>6. ASSUME Len(c) >= k + n, NEW i \in 1..n
      PROVE  c[k + i] = ws[i]
  <2>1. k + i \in 1..Len(c) /\ k + i <= Len(Image[b]) /\ i \in 1..Len(ws)
    BY <1>1, <1>6
  <2> QED BY <1>4, <1>5, <2>1
<1>7. c = Image[b] => Has(r, n)
  <2>1. n \in Nat /\ n <= Len(ws)
    BY <1>1
  <2>2. c = Image[b] => Len(c) >= k + n
    BY <1>1, <2>1
  <2> QED BY <1>2, <2>1, <2>2
<1>8. n \in Nat /\ \A i \in 1..n : i \in Nat
  BY <1>1
<1> QED BY <1>2, <1>3, <1>6, <1>7, <1>8 DEF c

\* An integer is read back as it was written.
LEMMA AsIntOfU == ASSUME NEW n PROVE AsInt(U(n)) = n
BY DEF AsInt, U

\* The fields a phase of the reader leaves alone.
LEMMA GoesTo ==
    ASSUME NEW r \in Readers, NEW state, DOMAIN readers = Readers, Goes(r, state)
    PROVE  readers'[r] = state
BY DEF Goes

\* A refusal is right unless the whole file of the right format is there.
LEMMA RefuseFollows ==
    ASSUME NEW r \in Readers, NEW b, DOMAIN readers = Readers, Refuse(r),
           Words(r) = Image[b] => readers[r].mv # b.mv
    PROVE  Follows(readers'[r], Words(r), b)
<1> DEFINE st == [IdleReader EXCEPT !.pc = "refused", !.file = readers[r].file,
                                    !.mv = readers[r].mv]
<1>1. readers'[r] = st
  BY DEF Refuse
<1>2. st.pc = "refused" /\ st.mv = readers[r].mv
  BY DEF IdleReader
<1> HIDE DEF st
<1> QED BY <1>1, <1>2 DEF Follows

\* The header: what ReadHead accepts is the header of b, and it accepts that.
LEMMA HeadFollows ==
    ASSUME NEW r, NEW b, Reads(r, b), ReadHead(r)
    PROVE  Follows(readers'[r], Words(r), b)
<1> DEFINE rd == readers[r]
           c  == Words(r)
           ok == /\ Has(r, 3) /\ WordAt(r, 1) = Magic(rd.mv) /\ IntAt(r, 2) = Version
                 /\ IntAt(r, 3) \in 1..MaxStages
<1>1. /\ r \in Readers /\ b \in Bundles /\ Good(b) /\ DOMAIN readers = Readers
      /\ DOMAIN rd = Fields /\ Agrees(c, b)
  BY DEF Reads
<1>2. rd.pc = "head" /\ rd.pos = 0 /\ rd.out = <<>>
  BY DEF Reads, ReadHead, Follows, FollowsHead, FollowsStage, FollowsCamera, FollowsView,
         FollowsMap, FollowsEnd
<1>3. /\ HeaderWords(b) \in Seq(Word) /\ Len(HeaderWords(b)) = 3
      /\ HeaderWords(b)[1] = Magic(b.mv) /\ HeaderWords(b)[2] = U(1)
      /\ HeaderWords(b)[3] = U(Len(b.stages))
  <2>1. HeaderWords(b) \in Seq(Word)
    <3>1. Blocks(b) \in Seq(Seq(Word)) /\ 1 \in 1..Len(Blocks(b)) /\ Blocks(b)[1] = HeaderWords(b)
      BY <1>1, BlocksAre
    <3> QED BY <3>1
  <2> QED BY <2>1 DEF HeaderWords, Version
<1>4. Stand(b, rd.pos, HeaderWords(b))
  BY <1>1, <1>2, HeadStands
<1>5. Has(r, 3) => WordAt(r, 1) = Magic(b.mv) /\ IntAt(r, 2) = 1 /\ IntAt(r, 3) = Len(b.stages)
  <2> SUFFICES ASSUME Has(r, 3)
               PROVE  WordAt(r, 1) = Magic(b.mv) /\ IntAt(r, 2) = 1 /\ IntAt(r, 3) = Len(b.stages)
    OBVIOUS
  <2>1. \A i \in 1..3 : WordAt(r, i) = HeaderWords(b)[i]
    <3>1. 3 \in 1..Len(HeaderWords(b))
      BY <1>3
    <3> QED BY <1>3, <1>4, <3>1, WordsRead
  <2> QED BY <1>3, <2>1, AsIntOfU DEF IntAt
<1>6. c = Image[b] => Has(r, 3)
  <2>1. 3 \in 1..Len(HeaderWords(b))
    BY <1>3
  <2> QED BY <1>3, <1>4, <2>1, WordsRead
<1>7. Len(b.stages) \in 1..MaxStages
  BY <1>1 DEF Good, Valid, BundleValid, BundleMVValid
<1>8. CASE ok
  <2> DEFINE st == [rd EXCEPT !.pc = "stage", !.pos = 3, !.stages = IntAt(r, 3)]
  <2>1. readers'[r] = st
    BY <1>1, <1>8, GoesTo DEF ReadHead
  <2>2. st.pc = "stage" /\ st.pos = 3 /\ st.stages = Len(b.stages) /\ st.out = <<>> /\ st.mv = rd.mv
    BY <1>1, <1>2, <1>5, <1>8 DEF Fields
  <2>3. rd.mv = b.mv
    <3>1. Magic(rd.mv) = Magic(b.mv)
      BY <1>5, <1>8
    <3>2. (IF rd.mv THEN "P3DMVCON" ELSE "P3DCOND") = (IF b.mv THEN "P3DMVCON" ELSE "P3DCOND")
      BY <3>1 DEF Magic
    <3>3. rd.mv \in BOOLEAN /\ b.mv \in BOOLEAN
      BY <1>1, BundleType DEF Reads
    <3> QED BY <3>2, <3>3
  <2>4. AtStage(st, b, 1)
    <3>1. SubSeq(b.stages, 1, 1 - 1) = <<>>
      BY <1>1, BundleType
    <3>2. Len(b.stages) - 1 + 1 = Len(b.stages) /\ 1 \in 1..Len(b.stages)
      BY <1>7
    <3> HIDE DEF st
    <3> QED BY <2>2, <2>3, <3>1, <3>2 DEF AtStage
  <2>5. st.pos <= Len(c) /\ st.pos = StageAt(b, 1)
    <3>1. 3 <= Len(c)
      BY <1>1, <1>2, <1>8 DEF Has, Agrees
    <3> HIDE DEF st
    <3> QED BY <1>1, <2>2, <3>1, HeadStands
  <2> HIDE DEF st, c, ok
  <2>6. FollowsStage(st, b)
    BY <2>2, <2>4, <2>5 DEF FollowsStage
  <2>7. Follows(st, c, b)
    BY <2>2, <2>5, <2>6 DEF Follows
  <2> QED BY <2>1, <2>7 DEF c
<1>9. CASE ~ok
  <2>1. Refuse(r)
    BY <1>9 DEF ReadHead
  <2>2. c = Image[b] => rd.mv # b.mv
    BY <1>5, <1>6, <1>7, <1>9 DEF Version
  <2> QED BY <1>1, <2>1, <2>2, RefuseFollows
<1> QED BY <1>8, <1>9

\* What a save has checked of every stage and every view.
LEMMA GoodParts ==
    ASSUME NEW b \in Bundles, Good(b), NEW i \in 1..Len(b.stages)
    PROVE  /\ b.stages[i].len \in 1..MaxName /\ Len(b.stages[i].views) \in Nat \ {0}
           /\ b.mv => StageMVValid(b.stages[i]) /\ Len(b.stages[i].views) \in 1..MaxViews
           /\ ~b.mv => StageValid(b.stages[i]) /\ Len(b.stages[i].views) = 1
           /\ \A j \in 1..Len(b.stages[i].views) :
                 /\ b.stages[i].views[j] \in View
                 /\ GlobalValid(b.stages[i].views[j])
                 /\ MapValid(b.stages[i].views[j].dino)
                 /\ HasNaf(b.stages[i].views[j]) => MapValid(b.stages[i].views[j].naf)
                 /\ ~HasNaf(b.stages[i].views[j]) => b.stages[i].views[j].naf = NoMap
                 /\ b.mv => CameraValid(b.stages[i].views[j].cam)
                 /\ b.mv => ViewValid(b.stages[i].views[j])
                 /\ ~b.mv => b.stages[i].views[j].cam = NoCamera
<1> DEFINE st == b.stages[i]
<1>1. /\ st \in Stage /\ (st.name # <<"s", "">> => st.len > 0)
      /\ (~b.mv => Len(st.views) = 1)
  BY BundleShape
<1>2. /\ \A j \in 1..Len(st.views) : st.views[j] \in View
      /\ \A j \in 1..Len(st.views) : ~b.mv => st.views[j].cam = NoCamera
      /\ \A j \in 1..Len(st.views) : ~HasNaf(st.views[j]) => st.views[j].naf = NoMap
  BY BundleShape
<1>3. /\ st.len \in Nat /\ Len(st.views) \in Nat /\ st.len <= MaxName
      /\ DOMAIN st.views = 1..Len(st.views)
  <2>1. st.len \in Nat /\ st.views \in Seq(View)
    BY <1>1 DEF Stage
  <2>2. st.len <= MaxName
    BY DEF Good
  <2> HIDE DEF st
  <2> QED BY <2>1, <2>2
<1>4. DOMAIN b.stages = 1..Len(b.stages)
  BY BundleType
<1> HIDE DEF st
<1>5. CASE b.mv
  <2>1. StageMVValid(st)
    BY <1>4, <1>5 DEF Good, Valid, BundleMVValid, st
  <2>2. st.name # <<"s", "">> /\ Len(st.views) \in 1..MaxViews
        /\ \A j \in 1..Len(st.views) : ViewValid(st.views[j])
    BY <1>3, <2>1 DEF StageMVValid
  <2>3. \A j \in 1..Len(st.views) :
           /\ CameraValid(st.views[j].cam) /\ GlobalValid(st.views[j]) /\ MapValid(st.views[j].dino)
           /\ HasNaf(st.views[j]) => MapValid(st.views[j].naf)
    BY <2>2 DEF ViewValid
  <2>4. st.len \in 1..MaxName /\ Len(st.views) \in Nat \ {0}
    <3>1. st.len > 0 /\ MaxName \in Nat /\ MaxViews \in Nat
      BY <1>1, <2>2, LimitsAssumption
    <3>2. st.len \in 1..MaxName
      BY <1>3, <3>1
    <3>3. \A n \in 1..MaxViews : n # 0
      OBVIOUS
    <3> QED BY <1>3, <2>2, <3>2, <3>3
  <2> QED BY <1>2, <1>5, <2>1, <2>2, <2>3, <2>4 DEF st
<1>6. CASE ~b.mv
  <2>1. StageValid(st)
    BY <1>4, <1>6 DEF Good, Valid, BundleValid, st
  <2>2. Len(st.views) = 1
    BY <1>1, <1>6, Zenon
  <2>3. \A j \in 1..Len(st.views) :
           /\ GlobalValid(st.views[j]) /\ MapValid(st.views[j].dino)
           /\ HasNaf(st.views[j]) => MapValid(st.views[j].naf)
    <3>1. \A j \in 1..Len(st.views) : j = 1
      BY <2>2
    <3> QED BY <2>1, <3>1 DEF StageValid
  <2>4. st.len \in 1..MaxName /\ Len(st.views) \in Nat \ {0}
    <3>1. st.len > 0 /\ MaxName \in Nat
      BY <1>1, <2>1, LimitsAssumption DEF StageValid
    <3> QED BY <1>3, <2>2, <3>1
  <2> QED BY <1>2, <1>6, <2>1, <2>2, <2>3, <2>4 DEF st
<1> QED BY <1>5, <1>6

\* The parts of Reads that every step needs.
LEMMA ReadsParts ==
    ASSUME NEW r, NEW b, Reads(r, b)
    PROVE  /\ r \in Readers /\ b \in Bundles /\ Good(b) /\ DOMAIN readers = Readers
           /\ DOMAIN readers[r] = Fields /\ Agrees(Words(r), b) /\ Len(Words(r)) \in Nat
           /\ readers[r].mv \in BOOLEAN /\ b.mv \in BOOLEAN
BY BundleType DEF Reads, Agrees

\* The head of a stage.
LEMMA StageFollows ==
    ASSUME NEW r, NEW b, Reads(r, b), ReadStage(r)
    PROVE  Follows(readers'[r], Words(r), b)
<1> DEFINE rd == readers[r]
           c  == Words(r)
           n  == IF rd.mv THEN 3 ELSE 2
           ok == Has(r, n) /\ IntAt(r, 1) \in 1..MaxName /\ (rd.mv => IntAt(r, 3) \in 1..MaxViews)
<1>1. /\ r \in Readers /\ b \in Bundles /\ Good(b) /\ DOMAIN readers = Readers
      /\ DOMAIN rd = Fields /\ Agrees(c, b) /\ Len(c) \in Nat
      /\ rd.mv \in BOOLEAN /\ b.mv \in BOOLEAN
  BY ReadsParts
<1>2. FollowsStage(rd, b)
  BY DEF Reads, ReadStage, Follows, FollowsHead, FollowsStage, FollowsCamera, FollowsView,
         FollowsMap, FollowsEnd
<1>3. PICK i : AtStage(rd, b, i) /\ rd.pos = StageAt(b, i)
  BY <1>2 DEF FollowsStage
<1> DEFINE s == b.stages[i]
           h == StageHead(b, s)
<1>4. i \in 1..Len(b.stages) /\ rd.mv = b.mv
  BY <1>3 DEF AtStage
<1>5. /\ s.len \in 1..MaxName /\ Len(s.views) \in Nat \ {0}
      /\ (b.mv => Len(s.views) \in 1..MaxViews) /\ (~b.mv => Len(s.views) = 1)
  BY <1>1, <1>4, GoodParts
<1>6. /\ h \in Seq(Word) /\ Len(h) = n /\ n \in 1..Len(h) /\ 1 \in 1..n /\ 2 \in 1..n
      /\ h[1] = U(s.len) /\ h[2] = s.name /\ (rd.mv => 3 \in 1..n /\ h[3] = U(Len(s.views)))
  <2>1. s \in Stage
    BY <1>1, <1>4, BundleShape
  <2>2. CASE b.mv
    <3>1. h = <<U(s.len), s.name, U(Len(s.views))>> /\ n = 3
      BY <1>4, <2>2 DEF StageHead
    <3> HIDE DEF h, n
    <3> QED BY <2>1, <3>1, HeadType
  <2>3. CASE ~b.mv
    <3>1. h = <<U(s.len), s.name>> /\ n = 2
      BY <1>4, <2>3 DEF StageHead
    <3> HIDE DEF h, n
    <3> QED BY <1>4, <2>1, <2>3, <3>1, HeadType
  <2> QED BY <1>1, <2>2, <2>3
<1>7. Stand(b, rd.pos, h) /\ ViewAt(b, i, 1) = StageAt(b, i) + Len(h) /\ StageAt(b, i) \in Nat
  BY <1>1, <1>3, <1>4, StageStands DEF Stand
<1>8. /\ Has(r, n) => \A m \in 1..n : WordAt(r, m) = h[m]
      /\ c = Image[b] => Has(r, n)
  <2> HIDE DEF n, h, s, c, rd
  <2>1. Stand(b, readers[r].pos, h)
    BY <1>7 DEF rd
  <2> QED BY <1>6, <2>1, WordsRead DEF c
<1>9. Has(r, n) => /\ IntAt(r, 1) = s.len /\ WordAt(r, 2) = s.name
                   /\ rd.mv => IntAt(r, 3) = Len(s.views)
  <2> HIDE DEF n, h, s
  <2> QED BY <1>6, <1>8, AsIntOfU DEF IntAt
<1>10. CASE ok
  <2> DEFINE to == [rd EXCEPT !.pc = IF rd.mv THEN "camera" ELSE "view",
                               !.pos = @ + n,
                               !.views = IF rd.mv THEN IntAt(r, 3) ELSE 1,
                               !.stage = [len |-> IntAt(r, 1), name |-> WordAt(r, 2),
                                          views |-> <<>>]]
  <2>1. readers'[r] = to
    BY <1>1, <1>10, GoesTo DEF ReadStage
  <2>2. /\ to.pc = (IF rd.mv THEN "camera" ELSE "view") /\ to.pos = rd.pos + n
        /\ to.views = (IF rd.mv THEN IntAt(r, 3) ELSE 1)
        /\ to.stage = [len |-> IntAt(r, 1), name |-> WordAt(r, 2), views |-> <<>>]
        /\ to.mv = rd.mv /\ to.stages = rd.stages /\ to.out = rd.out
    <3> HIDE DEF n, rd
    <3> QED BY <1>1 DEF Fields, rd
  <2>3. AtStage(to, b, i)
    <3> HIDE DEF to
    <3> QED BY <1>3, <2>2 DEF AtStage
  <2>4. to.views = Len(s.views) /\ Len(s.views) - 1 + 1 = Len(s.views) /\ 1 \in 1..Len(s.views)
    <3> HIDE DEF to, n
    <3>1. to.views = Len(s.views)
      BY <1>4, <1>5, <1>9, <1>10, <2>2
    <3> QED BY <1>5, <3>1
  <2>5. to.stage = [len |-> s.len, name |-> s.name, views |-> SubSeq(s.views, 1, 1 - 1)]
    <3>1. SubSeq(s.views, 1, 1 - 1) = <<>>
      <4>1. s.views \in Seq(View)
        <5>1. s \in Stage
          BY <1>1, <1>4, BundleShape
        <5> QED BY <5>1 DEF Stage
      <4> QED BY <4>1
    <3> HIDE DEF to, n, s
    <3> QED BY <1>9, <1>10, <2>2, <3>1
  <2>6. AtView(to, b, i, 1)
    <3> HIDE DEF to
    <3> QED BY <2>3, <2>4, <2>5 DEF AtView
  <2>7. to.pos = ViewAt(b, i, 1) /\ to.pos <= Len(c)
    <3>1. Len(c) >= rd.pos + n
      BY <1>10 DEF Has
    <3> HIDE DEF to, n
    <3> QED BY <1>3, <1>6, <1>7, <2>2, <3>1
  <2>8. ASSUME b.mv PROVE FollowsCamera(to, b)
    <3> HIDE DEF to, rd
    <3> QED BY <1>4, <2>2, <2>6, <2>7, <2>8 DEF FollowsCamera
  <2>9. ASSUME ~b.mv PROVE FollowsView(to, b)
    <3>1. GlobalAt(b, i, 1) = ViewAt(b, i, 1)
      <4>1. CameraWords(b, b.stages[i].views[1]) = <<>> /\ Len(<<>>) = 0
        BY <2>9 DEF CameraWords
      <4>2. ViewAt(b, i, 1) \in Nat
        BY <1>6, <1>7
      <4> QED BY <4>1, <4>2 DEF GlobalAt
    <3> HIDE DEF to, rd
    <3> QED BY <1>4, <2>2, <2>6, <2>7, <2>9, <3>1 DEF FollowsView
  <2> HIDE DEF to, c, ok
  <2>10. FollowsCamera(to, b) \/ FollowsView(to, b)
    BY <1>1, <2>8, <2>9
  <2>11. Follows(to, c, b)
    BY <2>7, <2>10 DEF Follows
  <2> QED BY <2>1, <2>11 DEF c
<1>11. CASE ~ok
  <2>1. Refuse(r)
    BY <1>11 DEF ReadStage
  <2>2. c # Image[b]
    <3> HIDE DEF n, s, c, rd
    <3> QED BY <1>4, <1>5, <1>8, <1>9, <1>11
  <2> QED BY <1>1, <2>1, <2>2, RefuseFollows
<1> QED BY <1>10, <1>11

\* The camera of a view.
LEMMA CameraFollows ==
    ASSUME NEW r, NEW b, Reads(r, b), ReadCamera(r)
    PROVE  Follows(readers'[r], Words(r), b)
<1> DEFINE rd == readers[r]
           c  == Words(r)
           ok == Has(r, 3) /\ IntAt(r, 3) = 1
<1>1. /\ r \in Readers /\ b \in Bundles /\ Good(b) /\ DOMAIN readers = Readers
      /\ DOMAIN rd = Fields /\ Agrees(c, b) /\ Len(c) \in Nat
  BY ReadsParts
<1>2. FollowsCamera(rd, b)
  BY DEF Reads, ReadCamera, Follows, FollowsHead, FollowsStage, FollowsCamera, FollowsView,
         FollowsMap, FollowsEnd
<1>3. PICK i, j : AtView(rd, b, i, j) /\ rd.pos = ViewAt(b, i, j)
  BY <1>2 DEF FollowsCamera
<1> DEFINE v == b.stages[i].views[j]
           h == CameraWords(b, v)
<1>4. i \in 1..Len(b.stages) /\ j \in 1..Len(b.stages[i].views) /\ b.mv
  BY <1>2, <1>3 DEF AtStage, AtView, FollowsCamera
<1>5. v \in View /\ v.cam.has = 1
  BY <1>1, <1>4, GoodParts DEF CameraValid
<1>6. /\ h \in Seq(Word) /\ Len(h) = 3 /\ 3 \in 1..Len(h)
      /\ h[1] = v.cam.pose /\ h[2] = v.cam.scale /\ h[3] = U(1)
  <2>1. h = <<v.cam.pose, v.cam.scale, U(v.cam.has)>>
    BY <1>4 DEF CameraWords
  <2>2. h \in Seq(Word)
    BY <1>5, <2>1, CameraType
  <2> HIDE DEF h, v
  <2> QED BY <1>5, <2>1, <2>2
<1>7. Stand(b, rd.pos, h) /\ GlobalAt(b, i, j) = rd.pos + 3 /\ rd.pos \in Nat
  <2>1. Stand(b, ViewAt(b, i, j), h)
    BY <1>1, <1>4, ViewStands
  <2> QED BY <1>3, <1>6, <2>1 DEF GlobalAt, Stand
<1>8. /\ Has(r, 3) => \A m \in 1..3 : WordAt(r, m) = h[m]
      /\ c = Image[b] => Has(r, 3)
  <2> HIDE DEF h, c
  <2> QED BY <1>6, <1>7, WordsRead DEF c
<1>9. Has(r, 3) => WordAt(r, 1) = v.cam.pose /\ WordAt(r, 2) = v.cam.scale /\ IntAt(r, 3) = 1
  <2> HIDE DEF h, v
  <2> QED BY <1>6, <1>8, AsIntOfU DEF IntAt
<1>10. CASE ok
  <2> DEFINE to == [rd EXCEPT !.pc = "view", !.pos = @ + 3,
                               !.view = [pose |-> WordAt(r, 1), scale |-> WordAt(r, 2),
                                         has |-> 1]]
  <2>1. readers'[r] = to
    BY <1>1, <1>10, GoesTo DEF ReadCamera
  <2>2. /\ to.pc = "view" /\ to.pos = rd.pos + 3
        /\ to.view = [pose |-> WordAt(r, 1), scale |-> WordAt(r, 2), has |-> 1]
        /\ to.mv = rd.mv /\ to.stages = rd.stages /\ to.out = rd.out
        /\ to.views = rd.views /\ to.stage = rd.stage
    <3> HIDE DEF rd
    <3> QED BY <1>1 DEF Fields, rd
  <2>3. AtView(to, b, i, j)
    <3> HIDE DEF to
    <3> QED BY <1>3, <2>2 DEF AtStage, AtView
  <2>4. to.view = v.cam
    <3>1. v.cam = [pose |-> v.cam.pose, scale |-> v.cam.scale, has |-> v.cam.has]
      <4>1. v.cam \in Camera
        BY <1>5 DEF View
      <4> HIDE DEF v
      <4> QED BY <4>1 DEF Camera, NoCamera
    <3> HIDE DEF to, v
    <3> QED BY <1>5, <1>9, <1>10, <2>2, <3>1
  <2>5. to.pos = GlobalAt(b, i, j) /\ to.pos <= Len(c)
    <3>1. Len(c) >= rd.pos + 3
      BY <1>10 DEF Has
    <3> HIDE DEF to
    <3> QED BY <1>7, <2>2, <3>1
  <2>6. FollowsView(to, b)
    <3> HIDE DEF to
    <3> QED BY <2>2, <2>3, <2>4, <2>5 DEF FollowsView
  <2> HIDE DEF to, c, ok
  <2>7. Follows(to, c, b)
    BY <2>5, <2>6 DEF Follows
  <2> QED BY <2>1, <2>7 DEF c
<1>11. CASE ~ok
  <2>1. Refuse(r)
    BY <1>11 DEF ReadCamera
  <2>2. c # Image[b]
    BY <1>8, <1>9, <1>11
  <2> QED BY <1>1, <2>1, <2>2, RefuseFollows
<1> QED BY <1>10, <1>11

\* A payload of the length that stands in the file is all finite and is read
\* as it stands.
LEMMA PayloadRead ==
    ASSUME NEW r, NEW b, Reads(r, b), NEW ws \in Seq(Word), Stand(b, readers[r].pos, ws),
           NEW k \in Nat, NEW feats \in Seq(FloatWords), Len(ws) = k + Len(feats),
           \A i \in 1..Len(feats) : ws[k + i] = feats[i] /\ IsFinite(feats[i]),
           k > 0
    PROVE  /\ Has(r, k + Len(feats)) => PayloadReadable(r, k, Len(feats))
                                        /\ Payload(r, k, Len(feats)) = feats
           /\ Words(r) = Image[b] => Has(r, k + Len(feats))
<1> DEFINE n == Len(feats)
<1>1. n \in Nat /\ k + n \in 1..Len(ws)
  OBVIOUS
<1>2. /\ Has(r, k + n) => \A m \in 1..k + n : WordAt(r, m) = ws[m]
      /\ Words(r) = Image[b] => Has(r, k + n)
  BY <1>1, WordsRead
<1>3. ASSUME Has(r, k + n)
      PROVE  PayloadReadable(r, k, n) /\ Payload(r, k, n) = feats
  <2>1. \A i \in 1..n : WordAt(r, k + i) = feats[i]
    <3> TAKE i \in 1..n
    <3>1. k + i \in 1..k + n
      BY <1>1
    <3> QED BY <1>2, <1>3, <3>1
  <2>2. PayloadReadable(r, k, n)
    BY <1>3, <2>1 DEF PayloadReadable
  <2>3. Payload(r, k, n) = feats
    <3> DEFINE c == Words(r)
               p == readers[r].pos
    <3>1. p \in Nat /\ Len(c) \in Nat /\ Len(c) >= p + (k + n)
      BY <1>3, ReadsParts DEF Stand, Has
    <3>2. \A i \in 1..n : c[p + (k + i)] = feats[i]
      BY <2>1 DEF WordAt
    <3>3. c \in Seq(AllWords)
      BY DEF Reads, Agrees
    <3>4. Payload(r, k, n) = SubSeq(c, p + k + 1, p + k + n)
      BY DEF Payload
    <3> HIDE DEF c, p, n
    <3>5. p + k + 1 \in 1..Len(c) + 1 /\ p + k + n \in (p + k + 1) - 1 .. Len(c)
          /\ (p + k + n) - (p + k + 1) + 1 = n
      BY <1>1, <3>1
    <3>6. /\ Payload(r, k, n) \in Seq(AllWords) /\ Len(Payload(r, k, n)) = n
          /\ \A i \in 1..n : Payload(r, k, n)[i] = c[(p + k + 1) + i - 1]
      BY <3>3, <3>4, <3>5, SubSeqProperties
    <3>7. \A i \in 1..n : c[(p + k + 1) + i - 1] = feats[i]
      <4> TAKE i \in 1..n
      <4>1. (p + k + 1) + i - 1 = p + (k + i)
        BY <1>1, <3>1
      <4> QED BY <3>2, <4>1
    <3>8. Len(feats) = n /\ \A i \in 1..n : Payload(r, k, n)[i] = feats[i]
      BY <3>6, <3>7 DEF n
    <3> QED BY <3>6, <3>8, SeqEqual
  <2> QED BY <2>2, <2>3
<1> QED BY <1>2, <1>3

\* The words of a valid global tensor.
LEMMA GlobalWordsAre ==
    ASSUME NEW v \in View, GlobalValid(v)
    PROVE  /\ v.feats \in Seq(FloatWords) /\ Len(v.feats) \in Nat
           /\ v.tokens \in Nat \ {0} /\ v.c \in Nat \ {0}
           /\ GlobalWords(v)[1] = U(v.tokens) /\ GlobalWords(v)[2] = U(v.c)
           /\ GlobalWords(v)[3] = U(MapsCount(v))
           /\ \A x \in 1..Len(v.feats) : /\ GlobalWords(v)[3 + x] = v.feats[x]
                                         /\ IsFinite(v.feats[x])
<1>1. v.feats \in Seq(FloatWords) /\ v.tokens \in Nat /\ v.c \in Nat
  BY DEF View
<1> DEFINE f == v.feats
           x3 == <<U(v.tokens), U(v.c), U(MapsCount(v))>>
           S == {U(v.tokens), U(v.c), U(MapsCount(v))} \cup FloatWords
<1>2. f \in Seq(S) /\ DOMAIN f = 1..Len(f) /\ Len(f) \in Nat
  BY <1>1
<1>3. /\ x3 \in Seq(S) /\ Len(x3) = 3
      /\ x3[1] = U(v.tokens) /\ x3[2] = U(v.c) /\ x3[3] = U(MapsCount(v))
  OBVIOUS
<1>4. GlobalWords(v) = x3 \o f
  BY DEF GlobalWords, MapsCount
<1>5. v.tokens > 0 /\ v.c > 0 /\ \A x \in 1..Len(f) : IsFinite(f[x])
  BY <1>2 DEF GlobalValid
<1> HIDE DEF f, x3, S
<1>6. /\ (x3 \o f)[1] = x3[1] /\ (x3 \o f)[2] = x3[2] /\ (x3 \o f)[3] = x3[3]
      /\ \A x \in 1..Len(f) : (x3 \o f)[3 + x] = f[x]
  <2>1. /\ \A i \in 1..Len(x3) : (x3 \o f)[i] = x3[i]
        /\ \A x \in 1..Len(f) : (x3 \o f)[Len(x3) + x] = f[x]
    <3>1. x3 \in Seq(S) /\ f \in Seq(S)
      BY <1>2, <1>3
    <3> QED BY <3>1
  <2> DEFINE y == x3 \o f
  <2> HIDE DEF y
  <2>2. 1 \in 1..Len(x3) /\ 2 \in 1..Len(x3) /\ 3 \in 1..Len(x3)
    BY <1>3
  <2>3. y[1] = x3[1] /\ y[2] = x3[2] /\ y[3] = x3[3]
    BY <2>1, <2>2 DEF y
  <2>4. \A x \in 1..Len(f) : y[3 + x] = f[x]
    <3>1. \A x \in 1..Len(f) : y[Len(x3) + x] = f[x]
      BY <2>1 DEF y
    <3>2. Len(x3) = 3
      BY <1>3
    <3> QED BY <3>1, <3>2
  <2> QED BY <2>3, <2>4 DEF y
<1>7. /\ f \in Seq(FloatWords) /\ Len(f) \in Nat
      /\ v.tokens \in Nat \ {0} /\ v.c \in Nat \ {0}
  BY <1>1, <1>2, <1>5 DEF f
<1> QED BY <1>3, <1>4, <1>5, <1>6, <1>7 DEF f

\* The global tensor of a view, whose size is read from the file.
LEMMA GlobalFollows ==
    ASSUME NEW r, NEW b, Reads(r, b), ReadGlobal(r)
    PROVE  Follows(readers'[r], Words(r), b)
<1> DEFINE rd == readers[r]
           c  == Words(r)
           n  == IntAt(r, 1) * IntAt(r, 2)
           ok == /\ Has(r, 3)
                 /\ IntAt(r, 1) > 0 /\ IntAt(r, 2) > 0 /\ IntAt(r, 3) \in {1, 2}
                 /\ PayloadReadable(r, 3, n)
<1>1. /\ r \in Readers /\ b \in Bundles /\ Good(b) /\ DOMAIN readers = Readers
      /\ DOMAIN rd = Fields /\ Agrees(c, b) /\ Len(c) \in Nat
      /\ rd.mv \in BOOLEAN /\ b.mv \in BOOLEAN
  BY ReadsParts
<1>2. FollowsView(rd, b)
  BY DEF Reads, ReadGlobal, Follows, FollowsHead, FollowsStage, FollowsCamera, FollowsView,
         FollowsMap, FollowsEnd
<1>3. PICK i, j : AtView(rd, b, i, j) /\ rd.pos = GlobalAt(b, i, j)
                  /\ (b.mv => rd.view = b.stages[i].views[j].cam)
  BY <1>2 DEF FollowsView
<1> DEFINE v == b.stages[i].views[j]
           h == GlobalWords(v)
           m == Len(v.feats)
<1>4. i \in 1..Len(b.stages) /\ j \in 1..Len(b.stages[i].views) /\ rd.mv = b.mv
  BY <1>3 DEF AtStage, AtView
<1>5. v \in View /\ GlobalValid(v) /\ (~b.mv => v.cam = NoCamera)
  BY <1>1, <1>4, GoodParts
<1>6. /\ v.feats \in Seq(FloatWords) /\ m \in Nat /\ v.tokens \in Nat \ {0} /\ v.c \in Nat \ {0}
      /\ h[1] = U(v.tokens) /\ h[2] = U(v.c) /\ h[3] = U(MapsCount(v))
      /\ \A x \in 1..m : h[3 + x] = v.feats[x] /\ IsFinite(v.feats[x])
  BY <1>5, GlobalWordsAre
<1>7. h \in Seq(Word) /\ Len(h) = 3 + m
  BY <1>5, GlobalLength
<1>8. Stand(b, rd.pos, h) /\ rd.pos \in Nat /\ MapsAt(b, i, j) = rd.pos + 3 + m
  <2>1. Stand(b, GlobalAt(b, i, j), h)
    BY <1>1, <1>4, ViewStands
  <2>2. rd.pos \in Nat
    BY <1>3, <2>1 DEF Stand
  <2>3. MapsAt(b, i, j) = rd.pos + (3 + m)
    BY <1>3, <1>7 DEF MapsAt
  <2>4. m \in Nat
    BY <1>6
  <2> HIDE DEF h, m, rd
  <2> QED BY <1>3, <2>1, <2>2, <2>3, <2>4
<1>9. /\ Has(r, 3) => \A x \in 1..3 : WordAt(r, x) = h[x]
      /\ c = Image[b] => Has(r, 3)
  <2>1. 3 \in 1..Len(h)
    <3>1. m \in Nat
      BY <1>6
    <3> HIDE DEF h, m
    <3> QED BY <1>7, <3>1
  <2> HIDE DEF h, c
  <2> QED BY <1>7, <1>8, <2>1, WordsRead DEF c
<1>10. Has(r, 3) => /\ IntAt(r, 1) = v.tokens /\ IntAt(r, 2) = v.c
                    /\ IntAt(r, 3) = MapsCount(v) /\ n = m
  <2> HIDE DEF h, v, m
  <2>1. Has(r, 3) => /\ IntAt(r, 1) = v.tokens /\ IntAt(r, 2) = v.c
                     /\ IntAt(r, 3) = MapsCount(v)
    BY <1>6, <1>9, AsIntOfU DEF IntAt
  <2>2. m = v.tokens * v.c
    BY <1>5 DEF GlobalValid, m
  <2> QED BY <2>1, <2>2
<1>11. /\ Has(r, 3 + m) => PayloadReadable(r, 3, m) /\ Payload(r, 3, m) = v.feats
       /\ c = Image[b] => Has(r, 3 + m)
  <2> DEFINE f == v.feats
  <2>1. f \in Seq(FloatWords) /\ Len(h) = 3 + Len(f) /\ 3 \in Nat /\ 3 > 0
        /\ \A x \in 1..Len(f) : h[3 + x] = f[x] /\ IsFinite(f[x])
    <3>1. f \in Seq(FloatWords) /\ \A x \in 1..Len(f) : h[3 + x] = f[x] /\ IsFinite(f[x])
      BY <1>6
    <3>2. Len(h) = 3 + Len(f)
      BY <1>7
    <3> QED BY <3>1, <3>2
  <2> HIDE DEF h, f
  <2>2. /\ Has(r, 3 + Len(f)) => PayloadReadable(r, 3, Len(f)) /\ Payload(r, 3, Len(f)) = f
        /\ Words(r) = Image[b] => Has(r, 3 + Len(f))
    BY <1>7, <1>8, <2>1, PayloadRead
  <2> QED BY <2>2 DEF f
<1>12. CASE ok
  <2>0. Has(r, 3) /\ n = m /\ Has(r, 3 + m)
    <3>1. Has(r, 3) /\ PayloadReadable(r, 3, n)
      BY <1>12
    <3>2. n = m
      BY <1>10, <3>1
    <3> HIDE DEF n, m
    <3> QED BY <3>1, <3>2 DEF PayloadReadable
  <2> DEFINE to == [rd EXCEPT !.pc = "map", !.pos = @ + 3 + n,
                               !.maps = IntAt(r, 3), !.have = {},
                               !.view = [cam |-> IF rd.mv THEN rd.view ELSE NoCamera,
                                         tokens |-> IntAt(r, 1), c |-> IntAt(r, 2),
                                         feats |-> Payload(r, 3, n),
                                         dino |-> NoMap, naf |-> NoMap]]
  <2>1. readers'[r] = to
    BY <1>1, <1>12, GoesTo DEF ReadGlobal
  <2>2. /\ to.pc = "map" /\ to.pos = rd.pos + 3 + n /\ to.maps = IntAt(r, 3) /\ to.have = {}
        /\ to.view = [cam |-> IF rd.mv THEN rd.view ELSE NoCamera,
                      tokens |-> IntAt(r, 1), c |-> IntAt(r, 2),
                      feats |-> Payload(r, 3, n), dino |-> NoMap, naf |-> NoMap]
        /\ to.mv = rd.mv /\ to.stages = rd.stages /\ to.out = rd.out
        /\ to.views = rd.views /\ to.stage = rd.stage
    <3> HIDE DEF rd, n
    <3> QED BY <1>1 DEF Fields, rd
  <2>3. AtView(to, b, i, j)
    <3> HIDE DEF to
    <3> QED BY <1>3, <2>2 DEF AtStage, AtView
  <2>4. to.view = WithMaps(v, NoMap, NoMap)
    <3>1. (IF rd.mv THEN rd.view ELSE NoCamera) = v.cam
      BY <1>1, <1>3, <1>4, <1>5
    <3> HIDE DEF to, v, n, m, rd
    <3> QED BY <1>10, <1>11, <2>0, <2>2, <3>1 DEF WithMaps
  <2>5. to.pos = MapsAt(b, i, j) /\ to.pos <= Len(c)
    <3>1. Len(c) >= rd.pos + (3 + m)
      BY <2>0 DEF Has
    <3>2. m \in Nat /\ rd.pos \in Nat /\ Len(c) \in Nat /\ to.pos = rd.pos + 3 + m
      BY <1>1, <1>6, <1>8, <2>0, <2>2
    <3> HIDE DEF to, n, m, rd, c
    <3> QED BY <1>8, <3>1, <3>2
  <2>6. FollowsMap(to, b)
    <3>1. MapsRead(to, v, MapsAt(b, i, j))
      <4> HIDE DEF to, v
      <4> QED BY <1>10, <2>0, <2>2, <2>4, <2>5 DEF MapsRead
    <3> HIDE DEF to
    <3> QED BY <2>2, <2>3, <3>1 DEF FollowsMap
  <2> HIDE DEF to, c, ok
  <2>7. Follows(to, c, b)
    BY <2>5, <2>6 DEF Follows
  <2> QED BY <2>1, <2>7 DEF c
<1>13. CASE ~ok
  <2>1. Refuse(r)
    BY <1>13 DEF ReadGlobal
  <2>2. c # Image[b]
    <3>1. MapsCount(v) \in {1, 2}
      BY DEF MapsCount
    <3> HIDE DEF n, m, v, c, h
    <3> QED BY <1>6, <1>9, <1>10, <1>11, <1>13, <3>1
  <2> QED BY <1>1, <2>1, <2>2, RefuseFollows
<1> QED BY <1>12, <1>13

\* The words of a valid map.
LEMMA MapWordsAre ==
    ASSUME NEW m \in FeatureMap, MapValid(m), NEW role \in Nat
    PROVE  /\ m.feats \in Seq(FloatWords) /\ Len(m.feats) \in Nat
           /\ m = [res |-> m.res, h |-> m.h, w |-> m.w, c |-> m.c, feats |-> m.feats]
           /\ MapWords(role, m)[1] = U(role) /\ MapWords(role, m)[2] = U(m.res)
           /\ MapWords(role, m)[3] = U(m.h) /\ MapWords(role, m)[4] = U(m.w)
           /\ MapWords(role, m)[5] = U(m.c)
           /\ \A x \in 1..Len(m.feats) : /\ MapWords(role, m)[5 + x] = m.feats[x]
                                         /\ IsFinite(m.feats[x])
<1>1. /\ m.feats \in Seq(FloatWords)
      /\ m = [res |-> m.res, h |-> m.h, w |-> m.w, c |-> m.c, feats |-> m.feats]
  BY DEF FeatureMap
<1> DEFINE f == m.feats
           x5 == <<U(role), U(m.res), U(m.h), U(m.w), U(m.c)>>
           S == {U(role), U(m.res), U(m.h), U(m.w), U(m.c)} \cup FloatWords
<1>2. f \in Seq(S) /\ DOMAIN f = 1..Len(f) /\ Len(f) \in Nat /\ f \in Seq(FloatWords)
  BY <1>1
<1>3. /\ x5 \in Seq(S) /\ Len(x5) = 5
      /\ x5[1] = U(role) /\ x5[2] = U(m.res) /\ x5[3] = U(m.h) /\ x5[4] = U(m.w) /\ x5[5] = U(m.c)
  OBVIOUS
<1>4. MapWords(role, m) = x5 \o f
  BY DEF MapWords
<1>5. \A x \in 1..Len(f) : IsFinite(f[x])
  BY <1>2 DEF MapValid
<1> HIDE DEF f, x5, S
<1>6. /\ \A i \in 1..Len(x5) : (x5 \o f)[i] = x5[i]
      /\ \A x \in 1..Len(f) : (x5 \o f)[Len(x5) + x] = f[x]
  <2>1. x5 \in Seq(S) /\ f \in Seq(S)
    BY <1>2, <1>3
  <2> QED BY <2>1
<1> DEFINE y == MapWords(role, m)
<1> HIDE DEF y
<1>7. y[1] = x5[1] /\ y[2] = x5[2] /\ y[3] = x5[3] /\ y[4] = x5[4] /\ y[5] = x5[5]
  <2>1. 1 \in 1..Len(x5) /\ 2 \in 1..Len(x5) /\ 3 \in 1..Len(x5) /\ 4 \in 1..Len(x5) /\ 5 \in 1..Len(x5)
    BY <1>3
  <2>2. \A i \in 1..Len(x5) : y[i] = x5[i]
    BY <1>4, <1>6 DEF y
  <2> QED BY <2>1, <2>2
<1>8. \A x \in 1..Len(f) : y[5 + x] = f[x]
  <2>1. \A x \in 1..Len(f) : y[Len(x5) + x] = f[x]
    BY <1>4, <1>6 DEF y
  <2>2. Len(x5) = 5
    BY <1>3
  <2> QED BY <2>1, <2>2
<1> QED BY <1>1, <1>2, <1>3, <1>5, <1>7, <1>8 DEF f, y

\* What a reader finds where the words of a valid map stand.
TheMap(r) ==
    [res |-> IntAt(r, 2), h |-> IntAt(r, 3), w |-> IntAt(r, 4), c |-> IntAt(r, 5),
     feats |-> Payload(r, 5, IntAt(r, 3) * IntAt(r, 4) * IntAt(r, 5))]
MapReadable(r) ==
    /\ Has(r, 5)
    /\ IntAt(r, 1) \in {DinoMap, NafMap} \ readers[r].have
    /\ \A i \in 2..5 : IntAt(r, i) > 0
    /\ PayloadReadable(r, 5, IntAt(r, 3) * IntAt(r, 4) * IntAt(r, 5))

\* A valid map is read as it was saved, and only a file that holds all of it is
\* read that far.
LEMMA MapIsRead ==
    ASSUME NEW r, NEW b, Reads(r, b), NEW role \in {DinoMap, NafMap}, role \notin readers[r].have,
           NEW m \in FeatureMap, MapValid(m), Stand(b, readers[r].pos, MapWords(role, m))
    PROVE  /\ MapReadable(r) => /\ IntAt(r, 1) = role /\ TheMap(r) = m
                                /\ IntAt(r, 3) * IntAt(r, 4) * IntAt(r, 5) = Len(m.feats)
                                /\ Len(Words(r)) >= readers[r].pos + Len(MapWords(role, m))
           /\ Words(r) = Image[b] => MapReadable(r)
<1> DEFINE f == m.feats
           n == Len(f)
           h == MapWords(role, m)
           p == IntAt(r, 3) * IntAt(r, 4) * IntAt(r, 5)
<1>0. role \in Nat
  BY DEF DinoMap, NafMap
<1>1. /\ f \in Seq(FloatWords) /\ n \in Nat
      /\ m = [res |-> m.res, h |-> m.h, w |-> m.w, c |-> m.c, feats |-> m.feats]
      /\ h[1] = U(role) /\ h[2] = U(m.res) /\ h[3] = U(m.h) /\ h[4] = U(m.w) /\ h[5] = U(m.c)
      /\ \A x \in 1..n : h[5 + x] = f[x] /\ IsFinite(f[x])
  BY <1>0, MapWordsAre
<1>2. h \in Seq(Word) /\ Len(h) = 5 + n
  BY <1>0, MapLength
<1>3. m.res > 0 /\ m.h > 0 /\ m.w > 0 /\ m.c > 0 /\ n = m.h * m.w * m.c
  BY DEF MapValid
<1>4. Stand(b, readers[r].pos, h)
  OBVIOUS
<1> HIDE DEF f, h
<1>5. /\ Has(r, 5) => \A x \in 1..5 : WordAt(r, x) = h[x]
      /\ Words(r) = Image[b] => Has(r, 5)
  <2>1. 5 \in 1..Len(h)
    <3> HIDE DEF n
    <3> QED BY <1>1, <1>2
  <2> QED BY <1>2, <1>4, <2>1, WordsRead
<1>6. Has(r, 5) => /\ IntAt(r, 1) = role /\ IntAt(r, 2) = m.res /\ IntAt(r, 3) = m.h
                   /\ IntAt(r, 4) = m.w /\ IntAt(r, 5) = m.c
  BY <1>1, <1>5, AsIntOfU DEF IntAt
<1>7. Has(r, 5) => p = n
  <2> HIDE DEF n
  <2> QED BY <1>3, <1>6
<1>8. /\ Has(r, 5 + n) => PayloadReadable(r, 5, n) /\ Payload(r, 5, n) = f
      /\ Words(r) = Image[b] => Has(r, 5 + n)
  <2>1. 5 \in Nat /\ 5 > 0 /\ \A x \in 1..Len(f) : h[5 + x] = f[x] /\ IsFinite(f[x])
    BY <1>1
  <2>2. h \in Seq(Word) /\ Len(h) = 5 + Len(f) /\ f \in Seq(FloatWords)
    BY <1>1, <1>2
  <2>3. /\ Has(r, 5 + Len(f)) => PayloadReadable(r, 5, Len(f)) /\ Payload(r, 5, Len(f)) = f
        /\ Words(r) = Image[b] => Has(r, 5 + Len(f))
    BY <1>4, <2>1, <2>2, PayloadRead
  <2> QED BY <2>3
<1> HIDE DEF n, p
<1>9. ASSUME MapReadable(r)
      PROVE  /\ IntAt(r, 1) = role /\ TheMap(r) = m /\ p = n
             /\ Len(Words(r)) >= readers[r].pos + Len(h)
  <2>1. Has(r, 5) /\ PayloadReadable(r, 5, p)
    BY <1>9 DEF MapReadable, p
  <2>2. p = n /\ Has(r, 5 + n)
    BY <1>7, <2>1 DEF PayloadReadable
  <2>3. TheMap(r) = m
    <3>1. TheMap(r) = [res |-> m.res, h |-> m.h, w |-> m.w, c |-> m.c, feats |-> f]
      BY <1>6, <1>8, <2>1, <2>2 DEF TheMap, p
    <3> QED BY <1>1, <3>1 DEF f
  <2>4. Len(Words(r)) >= readers[r].pos + Len(h)
    BY <1>2, <2>2 DEF Has
  <2> QED BY <1>6, <2>1, <2>2, <2>3, <2>4
<1>10. ASSUME Words(r) = Image[b] PROVE MapReadable(r)
  <2>1. Has(r, 5) /\ p = n /\ PayloadReadable(r, 5, n)
    BY <1>5, <1>7, <1>8, <1>10
  <2>2. IntAt(r, 2) > 0 /\ IntAt(r, 3) > 0 /\ IntAt(r, 4) > 0 /\ IntAt(r, 5) > 0
    BY <1>3, <1>6, <2>1
  <2>3. \A i \in 2..5 : IntAt(r, i) > 0
    <3>1. \A i \in 2..5 : i = 2 \/ i = 3 \/ i = 4 \/ i = 5
      OBVIOUS
    <3> QED BY <2>2, <3>1
  <2>4. IntAt(r, 1) \in {DinoMap, NafMap} \ readers[r].have
    BY <1>6, <2>1
  <2> QED BY <2>1, <2>3, <2>4 DEF MapReadable, p
<1> QED BY <1>9, <1>10 DEF n, p, h, f

\* Where the maps of a view stand.
LEMMA MapsStand ==
    ASSUME NEW b \in Bundles, NEW v \in View, NEW k, Stand(b, k, MapsWords(v))
    PROVE  /\ Stand(b, k, MapWords(DinoMap, v.dino)) /\ k \in Nat
           /\ Len(MapWords(DinoMap, v.dino)) \in Nat
           /\ HasNaf(v) =>
                 /\ Stand(b, k + Len(MapWords(DinoMap, v.dino)), MapWords(NafMap, v.naf))
                 /\ Len(MapWords(NafMap, v.naf)) \in Nat
                 /\ Len(MapsWords(v)) = Len(MapWords(DinoMap, v.dino)) + Len(MapWords(NafMap, v.naf))
           /\ ~HasNaf(v) => Len(MapsWords(v)) = Len(MapWords(DinoMap, v.dino))
<1> DEFINE x == MapWords(DinoMap, v.dino)
           y == MapWords(NafMap, v.naf)
           z == IF HasNaf(v) THEN y ELSE <<>>
<1>1. x \in Seq(Word) /\ y \in Seq(Word)
  BY MapLength DEF View, DinoMap, NafMap
<1>2. MapsWords(v) = x \o z
  BY DEF MapsWords
<1> HIDE DEF x, y, Word
<1>3. z \in Seq(Word)
  BY <1>1
<1>4. Stand(b, k, x) /\ Stand(b, k + Len(x), z)
  <2> HIDE DEF z
  <2> QED BY <1>1, <1>2, <1>3, StandSplit
<1>5. Len(x) \in Nat /\ Len(y) \in Nat /\ Len(z) \in Nat /\ Len(x \o z) = Len(x) + Len(z)
  BY <1>1, <1>3
<1>6. ~HasNaf(v) => Len(z) = 0
  OBVIOUS
<1>7. k \in Nat
  BY DEF Stand
<1>8. ASSUME HasNaf(v) PROVE z = y
  BY <1>8
<1>9. ASSUME ~HasNaf(v) PROVE z = <<>>
  BY <1>9
<1>10. HasNaf(v) => Stand(b, k + Len(x), y) /\ Len(MapsWords(v)) = Len(x) + Len(y)
  <2> SUFFICES ASSUME HasNaf(v)
               PROVE  Stand(b, k + Len(x), y) /\ Len(MapsWords(v)) = Len(x) + Len(y)
    OBVIOUS
  <2>1. z = y
    BY <1>8
  <2> HIDE DEF z
  <2> QED BY <1>2, <1>4, <1>5, <2>1
<1>11. ~HasNaf(v) => Len(MapsWords(v)) = Len(x)
  <2> SUFFICES ASSUME ~HasNaf(v) PROVE Len(MapsWords(v)) = Len(x)
    OBVIOUS
  <2>1. z = <<>> /\ Len(<<>>) = 0
    BY <1>9
  <2>2. Len(z) = 0
    BY <2>1
  <2> HIDE DEF z
  <2> QED BY <1>2, <1>5, <2>2
<1> HIDE DEF z
<1> QED BY <1>4, <1>5, <1>7, <1>10, <1>11 DEF x, y

\* What ReadMap stores where a map is readable, and that it refuses elsewhere.
AfterMap(r) ==
    LET rd == readers[r]
        n  == IntAt(r, 3) * IntAt(r, 4) * IntAt(r, 5)
    IN  [rd EXCEPT !.pos = @ + 5 + n, !.maps = @ - 1,
                   !.have = @ \cup {IntAt(r, 1)},
                   !.view = IF IntAt(r, 1) = DinoMap
                            THEN [@ EXCEPT !.dino = TheMap(r)]
                            ELSE [@ EXCEPT !.naf = TheMap(r)]]

\* ReadMap in two cases, as a state and a condition.
LEMMA ReadMapDoes ==
    ASSUME NEW r, ReadMap(r)
    PROVE  /\ MapReadable(r) => Goes(r, AfterMap(r))
           /\ ~MapReadable(r) => Refuse(r)
<1>1. /\ TheMap(r) = [res |-> IntAt(r, 2), h |-> IntAt(r, 3), w |-> IntAt(r, 4),
                      c |-> IntAt(r, 5),
                      feats |-> Payload(r, 5, IntAt(r, 3) * IntAt(r, 4) * IntAt(r, 5))]
      /\ MapReadable(r) <=> /\ Has(r, 5)
                            /\ IntAt(r, 1) \in {DinoMap, NafMap} \ readers[r].have
                            /\ \A i \in 2..5 : IntAt(r, i) > 0
                            /\ PayloadReadable(r, 5, IntAt(r, 3) * IntAt(r, 4) * IntAt(r, 5))
  BY DEF TheMap, MapReadable
<1> HIDE DEF TheMap, MapReadable
<1> QED BY <1>1 DEF ReadMap, AfterMap

AddMap(view, role, m) == IF role = DinoMap THEN [view EXCEPT !.dino = m]
                         ELSE [view EXCEPT !.naf = m]

\* The fields ReadMap changes, for a map of n features that it takes for role.
LEMMA AfterMapIs ==
    ASSUME NEW r, DOMAIN readers[r] = Fields, NEW role, NEW m, NEW n \in Nat,
           IntAt(r, 1) = role, TheMap(r) = m,
           IntAt(r, 3) * IntAt(r, 4) * IntAt(r, 5) = n
    PROVE  /\ AfterMap(r).pos = readers[r].pos + 5 + n
           /\ AfterMap(r).maps = readers[r].maps - 1
           /\ AfterMap(r).have = readers[r].have \cup {role}
           /\ AfterMap(r).view = AddMap(readers[r].view, role, m)
           /\ AfterMap(r).pc = readers[r].pc /\ AfterMap(r).mv = readers[r].mv
           /\ AfterMap(r).stages = readers[r].stages /\ AfterMap(r).out = readers[r].out
           /\ AfterMap(r).views = readers[r].views /\ AfterMap(r).stage = readers[r].stage
<1> DEFINE rd == readers[r]
           v == AddMap(rd.view, role, m)
<1>1. AfterMap(r) = [rd EXCEPT !.pos = @ + 5 + n, !.maps = @ - 1, !.have = @ \cup {role},
                               !.view = v]
  BY DEF AfterMap, AddMap
<1> HIDE DEF rd, v
<1>2. DOMAIN rd = Fields
  BY DEF rd
<1>3. /\ AfterMap(r).pos = rd.pos + 5 + n
      /\ AfterMap(r).maps = rd.maps - 1
      /\ AfterMap(r).have = rd.have \cup {role}
      /\ AfterMap(r).view = v
      /\ AfterMap(r).pc = rd.pc /\ AfterMap(r).mv = rd.mv
      /\ AfterMap(r).stages = rd.stages /\ AfterMap(r).out = rd.out
      /\ AfterMap(r).views = rd.views /\ AfterMap(r).stage = rd.stage
  BY <1>1, <1>2 DEF Fields
<1> QED BY <1>3 DEF rd, v

\* A view whose DINO map, or NAF map, was just read.
LEMMA WithMap ==
    ASSUME NEW v, NEW m
    PROVE  /\ AddMap(WithMaps(v, NoMap, NoMap), DinoMap, m) = WithMaps(v, m, NoMap)
           /\ AddMap(WithMaps(v, v.dino, NoMap), NafMap, m) = WithMaps(v, v.dino, m)
<1>1. /\ [WithMaps(v, NoMap, NoMap) EXCEPT !.dino = m] = WithMaps(v, m, NoMap)
      /\ [WithMaps(v, v.dino, NoMap) EXCEPT !.naf = m] = WithMaps(v, v.dino, m)
  BY DEF WithMaps
<1>2. NafMap # DinoMap
  BY DEF NafMap, DinoMap
<1> QED BY <1>1, <1>2 DEF AddMap

\* The maps of a view, in the order they were written.
LEMMA MapFollows ==
    ASSUME NEW r, NEW b, Reads(r, b), ReadMap(r)
    PROVE  Follows(readers'[r], Words(r), b)
<1> DEFINE rd == readers[r]
           c  == Words(r)
           to == AfterMap(r)
<1>1. /\ r \in Readers /\ b \in Bundles /\ Good(b) /\ DOMAIN readers = Readers
      /\ DOMAIN rd = Fields /\ Agrees(c, b) /\ Len(c) \in Nat
  BY ReadsParts
<1>2. FollowsMap(rd, b) /\ rd.maps > 0
  BY DEF Reads, ReadMap, Follows, FollowsHead, FollowsStage, FollowsCamera, FollowsView,
         FollowsMap, FollowsEnd
<1>3. PICK i, j : /\ AtView(rd, b, i, j)
                  /\ MapsRead(rd, b.stages[i].views[j], MapsAt(b, i, j))
  BY <1>2 DEF FollowsMap
<1> DEFINE v == b.stages[i].views[j]
           k == MapsAt(b, i, j)
           x == MapWords(DinoMap, v.dino)
           y == MapWords(NafMap, v.naf)
<1>4. i \in 1..Len(b.stages) /\ j \in 1..Len(b.stages[i].views)
  BY <1>3 DEF AtStage, AtView
<1>5. v \in View /\ MapValid(v.dino) /\ (HasNaf(v) => MapValid(v.naf))
  BY <1>1, <1>4, GoodParts
<1>6. v.dino \in FeatureMap /\ v.naf \in FeatureMap
  BY <1>5 DEF View
<1>7. Stand(b, k, MapsWords(v))
  BY <1>1, <1>4, ViewStands
<1> HIDE DEF v, k
<1>8. /\ Stand(b, k, x) /\ k \in Nat /\ Len(x) \in Nat
      /\ HasNaf(v) => /\ Stand(b, k + Len(x), y) /\ Len(y) \in Nat
                      /\ Len(MapsWords(v)) = Len(x) + Len(y)
  BY <1>1, <1>5, <1>7, MapsStand
<1>9. MapsRead(rd, v, k)
  BY <1>3 DEF v, k
<1>10. Len(x) = 5 + Len(v.dino.feats) /\ Len(y) = 5 + Len(v.naf.feats)
       /\ Len(v.dino.feats) \in Nat /\ Len(v.naf.feats) \in Nat
  <2>1. v.dino.feats \in Seq(FloatWords) /\ v.naf.feats \in Seq(FloatWords)
    BY <1>6 DEF FeatureMap
  <2>2. DinoMap \in Nat /\ NafMap \in Nat
    BY DEF DinoMap, NafMap
  <2>3. Len(x) = 5 + Len(v.dino.feats)
    BY <1>6, <2>2, MapLength
  <2>4. Len(y) = 5 + Len(v.naf.feats)
    BY <1>6, <2>2, MapLength
  <2>5. Len(v.dino.feats) \in Nat /\ Len(v.naf.feats) \in Nat
    BY <2>1
  <2> QED BY <2>3, <2>4, <2>5
<1> HIDE DEF x, y
<1>11. MapsCount(v) \in {1, 2} /\ (MapsCount(v) = 2 => HasNaf(v))
  BY DEF MapsCount
<1>12. CASE rd.have = {} /\ rd.maps = MapsCount(v) /\ rd.pos = k
            /\ rd.view = WithMaps(v, NoMap, NoMap)
  <2>1. DinoMap \in {DinoMap, NafMap} /\ DinoMap \notin readers[r].have
    BY <1>12
  <2>2. Stand(b, readers[r].pos, MapWords(DinoMap, v.dino))
    BY <1>8, <1>12 DEF x
  <2>3. /\ MapReadable(r) => /\ IntAt(r, 1) = DinoMap /\ TheMap(r) = v.dino
                             /\ IntAt(r, 3) * IntAt(r, 4) * IntAt(r, 5) = Len(v.dino.feats)
                             /\ Len(c) >= rd.pos + Len(x)
        /\ c = Image[b] => MapReadable(r)
    BY <1>5, <1>6, <2>1, <2>2, MapIsRead DEF x
  <2>4. ASSUME MapReadable(r) PROVE Follows(readers'[r], c, b)
    <3>1. readers'[r] = to
      BY <1>1, <2>4, ReadMapDoes, GoesTo
    <3>2. /\ to.pos = rd.pos + 5 + Len(v.dino.feats) /\ to.maps = rd.maps - 1
          /\ to.have = rd.have \cup {DinoMap}
          /\ to.view = AddMap(rd.view, DinoMap, v.dino)
          /\ to.pc = rd.pc /\ to.mv = rd.mv /\ to.stages = rd.stages /\ to.out = rd.out
          /\ to.views = rd.views /\ to.stage = rd.stage
      BY <1>1, <1>10, <2>3, <2>4, AfterMapIs
    <3>3. to.view = WithMaps(v, v.dino, NoMap)
      <4>1. rd.view = WithMaps(v, NoMap, NoMap) /\ to.view = AddMap(rd.view, DinoMap, v.dino)
        BY <1>12, <3>2
      <4> QED BY <4>1, WithMap
    <3>4. to.pos = k + Len(x) /\ to.pos <= Len(c)
      <4>1. /\ to.pos = rd.pos + 5 + Len(v.dino.feats) /\ rd.pos = k
            /\ Len(c) >= rd.pos + Len(x) /\ k \in Nat
        BY <1>8, <1>12, <2>3, <2>4, <3>2
      <4>2. Len(x) = 5 + Len(v.dino.feats) /\ Len(v.dino.feats) \in Nat
        BY <1>10
      <4>3. to.pos = k + Len(x) /\ to.pos <= Len(c)
        <5>1. Len(c) \in Nat /\ Len(c) >= k + Len(x) /\ to.pos = k + 5 + Len(v.dino.feats)
          BY <1>1, <4>1
        <5> DEFINE N == Len(v.dino.feats)
                   L == Len(x)
                   Q == to.pos
                   E == Len(c)
        <5>2. k \in Nat /\ N \in Nat /\ L = 5 + N /\ Q = k + 5 + N /\ E >= k + L /\ E \in Nat
          BY <4>1, <4>2, <5>1
        <5> HIDE DEF N, L, Q, E
        <5>3. Q = k + L /\ Q <= E
          BY <5>2
        <5> QED BY <5>3 DEF Q, L, E
      <4> QED BY <4>3
    <3>5. to.maps = MapsCount(v) - 1 /\ to.have = {DinoMap}
      BY <1>12, <3>2
    <3> HIDE DEF to
    <3>6. MapsRead(to, v, k)
      BY <3>3, <3>4, <3>5 DEF MapsRead, x
    <3>7. AtView(to, b, i, j)
      BY <1>3, <3>2 DEF AtStage, AtView
    <3>8. FollowsMap(to, b)
      BY <1>2, <3>2, <3>6, <3>7 DEF FollowsMap, v, k
    <3> QED BY <3>1, <3>4, <3>8 DEF Follows
  <2>5. ASSUME ~MapReadable(r) PROVE Follows(readers'[r], c, b)
    <3>1. Refuse(r) /\ c # Image[b]
      BY <2>3, <2>5, ReadMapDoes
    <3> QED BY <1>1, <3>1, RefuseFollows
  <2> QED BY <2>4, <2>5
<1>13. CASE /\ rd.have = {DinoMap} /\ rd.maps = MapsCount(v) - 1
            /\ rd.pos = k + Len(x)
            /\ rd.view = WithMaps(v, v.dino, NoMap)
  <2>0. HasNaf(v) /\ rd.maps = 1
    BY <1>2, <1>11, <1>13
  <2>1. NafMap \in {DinoMap, NafMap} /\ NafMap \notin readers[r].have /\ NafMap # DinoMap
    BY <1>13 DEF NafMap, DinoMap
  <2>2. Stand(b, readers[r].pos, MapWords(NafMap, v.naf))
    BY <1>8, <1>13, <2>0 DEF y
  <2>3. /\ MapReadable(r) => /\ IntAt(r, 1) = NafMap /\ TheMap(r) = v.naf
                             /\ IntAt(r, 3) * IntAt(r, 4) * IntAt(r, 5) = Len(v.naf.feats)
                             /\ Len(c) >= rd.pos + Len(y)
        /\ c = Image[b] => MapReadable(r)
    BY <1>5, <1>6, <2>0, <2>1, <2>2, MapIsRead DEF y
  <2>4. ASSUME MapReadable(r) PROVE Follows(readers'[r], c, b)
    <3>1. readers'[r] = to
      BY <1>1, <2>4, ReadMapDoes, GoesTo
    <3>2. /\ to.pos = rd.pos + 5 + Len(v.naf.feats) /\ to.maps = rd.maps - 1
          /\ to.have = rd.have \cup {NafMap}
          /\ to.view = AddMap(rd.view, NafMap, v.naf)
          /\ to.pc = rd.pc /\ to.mv = rd.mv /\ to.stages = rd.stages /\ to.out = rd.out
          /\ to.views = rd.views /\ to.stage = rd.stage
      BY <1>1, <1>10, <2>3, <2>4, AfterMapIs
    <3>3. to.view = WithMaps(v, v.dino, v.naf)
      <4>1. rd.view = WithMaps(v, v.dino, NoMap) /\ to.view = AddMap(rd.view, NafMap, v.naf)
        BY <1>13, <3>2
      <4> QED BY <4>1, WithMap
    <3>4. to.pos = k + Len(MapsWords(v)) /\ to.pos <= Len(c)
      <4>1. /\ to.pos = rd.pos + 5 + Len(v.naf.feats) /\ rd.pos = k + Len(x)
            /\ Len(c) >= rd.pos + Len(y) /\ k \in Nat /\ Len(x) \in Nat
        BY <1>8, <1>13, <2>3, <2>4, <3>2
      <4>2. Len(y) = 5 + Len(v.naf.feats) /\ Len(v.naf.feats) \in Nat
        BY <1>10
      <4>3. Len(MapsWords(v)) = Len(x) + Len(y)
        BY <1>8, <2>0
      <4> DEFINE P == Len(x)
                 N == Len(v.naf.feats)
                 L == Len(y)
                 Q == to.pos
                 E == Len(c)
                 M == Len(MapsWords(v))
      <4>4. k \in Nat /\ P \in Nat /\ N \in Nat /\ L = 5 + N /\ Q = k + P + 5 + N
            /\ E >= k + P + L /\ E \in Nat /\ M = P + L
        <5>1. Len(c) \in Nat
          BY <1>1
        <5> HIDE DEF c, to
        <5> QED BY <4>1, <4>2, <4>3, <5>1
      <4> HIDE DEF P, N, L, Q, E, M
      <4>5. Q = k + M /\ Q <= E
        BY <4>4
      <4> QED BY <4>5 DEF Q, M, E
    <3>5. to.maps = 0 /\ DinoMap \in to.have
      BY <1>13, <2>0, <3>2
    <3> HIDE DEF to
    <3>6. MapsRead(to, v, k)
      BY <2>0, <3>3, <3>4, <3>5 DEF MapsRead
    <3>7. AtView(to, b, i, j)
      BY <1>3, <3>2 DEF AtStage, AtView
    <3>8. FollowsMap(to, b)
      BY <1>2, <3>2, <3>6, <3>7 DEF FollowsMap, v, k
    <3> QED BY <3>1, <3>4, <3>8 DEF Follows
  <2>5. ASSUME ~MapReadable(r) PROVE Follows(readers'[r], c, b)
    <3>1. Refuse(r) /\ c # Image[b]
      BY <2>3, <2>5, ReadMapDoes
    <3> QED BY <1>1, <3>1, RefuseFollows
  <2> QED BY <2>4, <2>5
<1>14. rd.maps # 0
  BY <1>2
<1> QED BY <1>9, <1>12, <1>13, <1>14 DEF MapsRead, x

\* A prefix and the element after it.
LEMMA NextPrefix ==
    ASSUME NEW S, NEW s \in Seq(S), NEW j \in 1..Len(s)
    PROVE  /\ Append(SubSeq(s, 1, j - 1), s[j]) = SubSeq(s, 1, j)
           /\ SubSeq(s, 1, Len(s)) = s
<1>1. /\ SubSeq(s, 1, j - 1) \in Seq(S) /\ Len(SubSeq(s, 1, j - 1)) = j - 1
      /\ \A i \in 1..j - 1 : SubSeq(s, 1, j - 1)[i] = s[i]
  OBVIOUS
<1>2. /\ SubSeq(s, 1, j) \in Seq(S) /\ Len(SubSeq(s, 1, j)) = j
      /\ \A i \in 1..j : SubSeq(s, 1, j)[i] = s[i]
  OBVIOUS
<1> DEFINE x == SubSeq(s, 1, j - 1)
           y == SubSeq(s, 1, j)
<1>3. s[j] \in S /\ j \in Nat /\ j - 1 \in Nat
  OBVIOUS
<1> HIDE DEF x, y
<1>4. /\ Append(x, s[j]) \in Seq(S) /\ Len(Append(x, s[j])) = j
      /\ \A i \in 1..j : Append(x, s[j])[i] = s[i]
  <2>1. x \in Seq(S) /\ Len(x) = j - 1 /\ \A i \in 1..j - 1 : x[i] = s[i]
    BY <1>1 DEF x
  <2> QED BY <1>3, <2>1
<1>5. Append(x, s[j]) = y
  <2>1. y \in Seq(S) /\ Len(y) = j /\ \A i \in 1..j : y[i] = s[i]
    BY <1>2 DEF y
  <2> QED BY <1>4, <2>1, SeqEqual
<1>6. SubSeq(s, 1, Len(s)) = s
  OBVIOUS
<1> QED BY <1>5, <1>6 DEF x, y

\* When its maps are read a view is as it was saved, and the next one follows.
LEMMA ViewIsRead ==
    ASSUME NEW rd, NEW b \in Bundles, Good(b), NEW i \in 1..Len(b.stages),
           NEW j \in 1..Len(b.stages[i].views), rd.maps = 0,
           MapsRead(rd, b.stages[i].views[j], MapsAt(b, i, j))
    PROVE  /\ rd.view = b.stages[i].views[j] /\ DinoMap \in rd.have
           /\ rd.pos = ViewAt(b, i, j + 1)
<1> DEFINE v == b.stages[i].views[j]
           k == MapsAt(b, i, j)
           x == MapWords(DinoMap, v.dino)
<1>1. v \in View /\ (~HasNaf(v) => v.naf = NoMap)
  BY GoodParts
<1>2. Stand(b, k, MapsWords(v)) /\ ViewAt(b, i, j + 1) = k + Len(MapsWords(v))
  BY ViewStands
<1> HIDE DEF v, k
<1>3. MapsRead(rd, v, k)
  BY DEF v, k
<1>4. v = WithMaps(v, v.dino, v.naf)
  BY <1>1 DEF View, WithMaps
<1>5. ~HasNaf(v) => Len(MapsWords(v)) = Len(x)
  BY <1>1, <1>2, MapsStand
<1>6. HasNaf(v) => MapsCount(v) = 2
  BY DEF MapsCount
<1>7. ~HasNaf(v) => MapsCount(v) = 1
  BY DEF MapsCount
<1> HIDE DEF x
<1>8. CASE rd.have = {} /\ rd.maps = MapsCount(v)
  BY <1>6, <1>7, <1>8
<1>9. CASE /\ rd.have = {DinoMap} /\ rd.maps = MapsCount(v) - 1
           /\ rd.pos = k + Len(x) /\ rd.view = WithMaps(v, v.dino, NoMap)
  <2>1. ~HasNaf(v)
    BY <1>6, <1>9
  <2>2. rd.view = v
    BY <1>1, <1>4, <1>9, <2>1
  <2>3. rd.pos = ViewAt(b, i, j + 1)
    BY <1>2, <1>5, <1>9, <2>1
  <2> QED BY <1>9, <2>2, <2>3 DEF v
<1>10. CASE /\ DinoMap \in rd.have
            /\ rd.pos = k + Len(MapsWords(v)) /\ rd.view = WithMaps(v, v.dino, v.naf)
  BY <1>2, <1>4, <1>10 DEF v
<1> QED BY <1>3, <1>8, <1>9, <1>10 DEF MapsRead, x

\* The views of a stage read so far are a prefix of it, and all of them are it.
LEMMA StageSoFar ==
    ASSUME NEW s \in Stage, NEW j \in 1..Len(s.views), NEW t,
           t = [len |-> s.len, name |-> s.name, views |-> SubSeq(s.views, 1, j - 1)]
    PROVE  /\ [t EXCEPT !.views = Append(@, s.views[j])]
                  = [len |-> s.len, name |-> s.name, views |-> SubSeq(s.views, 1, j)]
           /\ j = Len(s.views) => [t EXCEPT !.views = Append(@, s.views[j])] = s
<1>1. s.views \in Seq(View) /\ s = [len |-> s.len, name |-> s.name, views |-> s.views]
  BY DEF Stage
<1>2. Append(SubSeq(s.views, 1, j - 1), s.views[j]) = SubSeq(s.views, 1, j)
      /\ SubSeq(s.views, 1, Len(s.views)) = s.views
  <2> DEFINE w == s.views
  <2>1. w \in Seq(View) /\ j \in 1..Len(w)
    BY <1>1
  <2> HIDE DEF w
  <2>2. Append(SubSeq(w, 1, j - 1), w[j]) = SubSeq(w, 1, j) /\ SubSeq(w, 1, Len(w)) = w
    BY <2>1, NextPrefix
  <2> QED BY <2>2 DEF w
<1>3. [t EXCEPT !.views = Append(@, s.views[j])]
        = [len |-> s.len, name |-> s.name, views |-> Append(SubSeq(s.views, 1, j - 1), s.views[j])]
  <2> DEFINE l == s.len
             n == s.name
             w == SubSeq(s.views, 1, j - 1)
             e == s.views[j]
  <2>1. t = [len |-> l, name |-> n, views |-> w]
    OBVIOUS
  <2> HIDE DEF l, n, w, e
  <2>2. t.views = w
    BY <2>1
  <2> DEFINE y == Append(w, e)
  <2>3. Append(t.views, e) = y
    BY <2>2
  <2> HIDE DEF y
  <2>4. [t EXCEPT !.views = y] = [len |-> l, name |-> n, views |-> y]
    BY <2>1
  <2> QED BY <2>3, <2>4 DEF l, n, w, e, y
<1> QED BY <1>1, <1>2, <1>3

\* The end of a view, of a stage and of the last stage: what was read is what was
\* saved, so that the checks made here accept it.
LEMMA EndViewFollows ==
    ASSUME NEW r, NEW b, Reads(r, b), EndView(r)
    PROVE  Follows(readers'[r], Words(r), b)
<1> DEFINE rd == readers[r]
           c  == Words(r)
           st == [rd.stage EXCEPT !.views = Append(@, rd.view)]
           last == rd.views = 1
<1>1. /\ r \in Readers /\ b \in Bundles /\ Good(b) /\ DOMAIN readers = Readers
      /\ DOMAIN rd = Fields /\ Agrees(c, b) /\ Len(c) \in Nat
      /\ rd.mv \in BOOLEAN /\ b.mv \in BOOLEAN
  BY ReadsParts
<1>2. FollowsMap(rd, b) /\ rd.maps = 0 /\ rd.pos <= Len(c)
  BY DEF Reads, EndView, Follows, FollowsHead, FollowsStage, FollowsCamera, FollowsView,
         FollowsMap, FollowsEnd
<1>3. PICK i, j : /\ AtView(rd, b, i, j)
                  /\ MapsRead(rd, b.stages[i].views[j], MapsAt(b, i, j))
  BY <1>2 DEF FollowsMap
<1> DEFINE s == b.stages[i]
           v == s.views[j]
<1>4. /\ i \in 1..Len(b.stages) /\ j \in 1..Len(s.views) /\ rd.mv = b.mv
      /\ rd.views = Len(s.views) - j + 1 /\ rd.stages = Len(b.stages) - i + 1
      /\ rd.out = SubSeq(b.stages, 1, i - 1)
      /\ rd.stage = [len |-> s.len, name |-> s.name, views |-> SubSeq(s.views, 1, j - 1)]
  BY <1>3 DEF AtStage, AtView
<1>5. rd.view = v /\ DinoMap \in rd.have /\ rd.pos = ViewAt(b, i, j + 1)
  BY <1>1, <1>2, <1>3, <1>4, ViewIsRead
<1>6. s \in Stage /\ Len(s.views) \in Nat /\ Len(b.stages) \in Nat /\ b.stages \in Seq(Stage)
  BY <1>1, <1>4, BundleShape, BundleType, GoodParts
<1>7. /\ (b.mv => StageMVValid(s) /\ ViewValid(v))
      /\ (~b.mv => StageValid(s) /\ Len(s.views) = 1)
  BY <1>1, <1>4, GoodParts
<1>8. /\ st = [len |-> s.len, name |-> s.name, views |-> SubSeq(s.views, 1, j)]
      /\ j = Len(s.views) => st = s
  <2> DEFINE t == rd.stage
             u == [t EXCEPT !.views = Append(@, s.views[j])]
  <2>1. t = [len |-> s.len, name |-> s.name, views |-> SubSeq(s.views, 1, j - 1)]
    BY <1>4
  <2>2. st = u
    BY <1>5
  <2>0. s \in Stage /\ j \in 1..Len(s.views)
    BY <1>4, <1>6
  <2> HIDE DEF t, s
  <2>3. /\ u = [len |-> s.len, name |-> s.name, views |-> SubSeq(s.views, 1, j)]
        /\ j = Len(s.views) => u = s
    BY <2>0, <2>1, StageSoFar
  <2> HIDE DEF u, st
  <2> QED BY <2>2, <2>3
<1> HIDE DEF s, v, st, rd
<1>9. (last <=> j = Len(s.views)) /\ (~b.mv => last)
  <2> DEFINE n == Len(s.views)
             w == rd.views
  <2>1. n \in Nat /\ j \in 1..n /\ w = n - j + 1 /\ (~b.mv => n = 1)
    BY <1>4, <1>6, <1>7
  <2> HIDE DEF n, w
  <2>2. w = 1 <=> j = n
    BY <2>1
  <2>3. n = 1 => w = 1
    BY <2>1
  <2> QED BY <2>1, <2>2, <2>3 DEF n, w
<1> HIDE DEF last
<1>10. /\ DinoMap \in rd.have
       /\ IF rd.mv THEN ViewValid(rd.view) /\ (last => StageMVValid(st)) ELSE StageValid(st)
  <2>1. ASSUME b.mv PROVE ViewValid(rd.view) /\ (last => StageMVValid(st))
    BY <1>5, <1>7, <1>8, <1>9, <2>1
  <2>2. ASSUME ~b.mv PROVE StageValid(st)
    BY <1>7, <1>8, <1>9, <2>2
  <2> QED BY <1>4, <1>5, <2>1, <2>2
<1> DEFINE to == [rd EXCEPT
               !.views = @ - 1, !.view = <<>>,
               !.stage = IF last THEN <<>> ELSE st,
               !.stages = IF last THEN @ - 1 ELSE @,
               !.out = IF last THEN Append(@, st) ELSE @,
               !.pc = IF ~last THEN "camera" ELSE IF rd.stages > 1 THEN "stage" ELSE "end"]
<1>11. readers'[r] = to
  <2>1. Goes(r, to)
    BY <1>10 DEF EndView, rd, st, last
  <2> HIDE DEF to
  <2> QED BY <1>1, <2>1, GoesTo
<1>12. /\ to.views = rd.views - 1 /\ to.stage = (IF last THEN <<>> ELSE st)
       /\ to.stages = (IF last THEN rd.stages - 1 ELSE rd.stages)
       /\ to.out = (IF last THEN Append(rd.out, st) ELSE rd.out)
       /\ to.pc = (IF ~last THEN "camera" ELSE IF rd.stages > 1 THEN "stage" ELSE "end")
       /\ to.mv = rd.mv /\ to.pos = rd.pos
  BY <1>1 DEF Fields
<1> HIDE DEF to
<1>13. CASE ~last
  <2>1. b.mv /\ j + 1 \in 1..Len(s.views) /\ (j + 1) - 1 = j
    BY <1>1, <1>4, <1>6, <1>9, <1>13
  <2>2. AtStage(to, b, i)
    BY <1>3, <1>12, <1>13 DEF AtView, AtStage
  <2>3. to.views = Len(s.views) - (j + 1) + 1
    BY <1>4, <1>6, <1>12
  <2>4. AtView(to, b, i, j + 1)
    <3>1. to.stage = [len |-> s.len, name |-> s.name, views |-> SubSeq(s.views, 1, (j + 1) - 1)]
      BY <1>8, <1>12, <1>13, <2>1
    <3> QED BY <2>1, <2>2, <2>3, <3>1 DEF AtView, s
  <2>5. FollowsCamera(to, b) /\ to.pos <= Len(c)
    BY <1>2, <1>5, <1>12, <1>13, <2>1, <2>4 DEF FollowsCamera
  <2> QED BY <1>11, <2>5 DEF Follows
<1>14. CASE last
  <2>1. st = s /\ j = Len(s.views) /\ rd.pos = StageAt(b, i + 1)
    <3>1. st = s /\ j = Len(s.views)
      BY <1>8, <1>9, <1>14
    <3>2. ViewAt(b, i, Len(s.views) + 1) = StageAt(b, i + 1)
      BY <1>1, <1>4, StageStands DEF s
    <3> QED BY <1>5, <3>1, <3>2
  <2>2. to.out = SubSeq(b.stages, 1, i)
    <3>1. Append(SubSeq(b.stages, 1, i - 1), b.stages[i]) = SubSeq(b.stages, 1, i)
      BY <1>4, <1>6, NextPrefix
    <3> QED BY <1>4, <1>12, <1>14, <2>1, <3>1 DEF s
  <2>3. to.stages = Len(b.stages) - i /\ (rd.stages > 1 <=> i < Len(b.stages))
    BY <1>4, <1>6, <1>12, <1>14
  <2>4. CASE i < Len(b.stages)
    <3>1. to.pc = "stage" /\ i + 1 \in 1..Len(b.stages) /\ (i + 1) - 1 = i
          /\ to.stages = Len(b.stages) - (i + 1) + 1
      BY <1>4, <1>6, <1>12, <1>14, <2>3, <2>4
    <3>2. AtStage(to, b, i + 1)
      BY <1>4, <1>12, <2>2, <3>1 DEF AtStage
    <3>3. FollowsStage(to, b) /\ to.pos <= Len(c)
      BY <1>2, <1>12, <2>1, <3>1, <3>2 DEF FollowsStage
    <3> QED BY <1>11, <3>3 DEF Follows
  <2>5. CASE i = Len(b.stages)
    <3>1. to.pc = "end"
      BY <1>12, <1>14, <2>3, <2>5
    <3>2. to.out = b.stages
      BY <1>4, <1>6, <2>2, <2>5, NextPrefix
    <3>3. to.pos = Len(Image[b])
      BY <1>1, <1>12, <2>1, <2>5, HeadStands
    <3>4. FollowsEnd(to, b) /\ to.pos <= Len(c)
      BY <1>2, <1>4, <1>12, <3>1, <3>2, <3>3 DEF FollowsEnd
    <3> QED BY <1>11, <3>4 DEF Follows
  <2> QED BY <1>4, <1>6, <2>4, <2>5
<1> QED BY <1>13, <1>14

\* The end of the file: only the whole image ends where the last stage does.
LEMMA EndFollows ==
    ASSUME NEW r, NEW b, Reads(r, b), LoadEnd(r)
    PROVE  Follows(readers'[r], Words(r), b)
<1> DEFINE rd == readers[r]
           c  == Words(r)
           x  == [mv |-> rd.mv, stages |-> rd.out]
<1>1. /\ r \in Readers /\ b \in Bundles /\ Good(b) /\ DOMAIN readers = Readers
      /\ DOMAIN rd = Fields /\ Agrees(c, b) /\ Len(c) \in Nat
  BY ReadsParts
<1>2. FollowsEnd(rd, b) /\ rd.pos <= Len(c)
  BY DEF Reads, LoadEnd, Follows, FollowsHead, FollowsStage, FollowsCamera, FollowsView,
         FollowsMap, FollowsEnd
<1>3. x = b /\ Valid(x)
  <2>1. x = b
    BY <1>1, <1>2, BundleType DEF FollowsEnd
  <2> QED BY <1>1, <2>1 DEF Good
<1>4. AtEnd(r) <=> c = Image[b]
  <2>1. AtEnd(r) <=> ~(Len(c) >= rd.pos + 1)
    BY DEF AtEnd, Has
  <2>2. rd.pos = Len(Image[b]) /\ Len(Image[b]) \in Nat
    BY <1>1, <1>2, EndsAre DEF FollowsEnd
  <2>3. c # Image[b] => Len(c) # Len(Image[b])
    BY <1>1 DEF Agrees
  <2> HIDE DEF c
  <2> QED BY <1>1, <1>2, <2>1, <2>2, <2>3
<1>5. CASE AtEnd(r)
  <2> DEFINE to == [rd EXCEPT !.pc = "loaded", !.out = x]
  <2>1. readers'[r] = to
    BY <1>1, <1>3, <1>5, GoesTo DEF LoadEnd
  <2>2. to.pc = "loaded" /\ to.out = x
    BY <1>1 DEF Fields
  <2> HIDE DEF to, c, x
  <2> QED BY <1>3, <1>4, <1>5, <2>1, <2>2 DEF Follows, c
<1>6. CASE ~AtEnd(r)
  <2>1. Refuse(r)
    BY <1>6 DEF LoadEnd
  <2> QED BY <1>1, <1>4, <1>6, <2>1, RefuseFollows
<1> QED BY <1>5, <1>6

\* A step of a load keeps following.
LEMMA LoadFollows ==
    ASSUME NEW r, NEW b, Reads(r, b),
           ReadHead(r) \/ ReadStage(r) \/ ReadCamera(r) \/ ReadGlobal(r) \/ ReadMap(r)
           \/ EndView(r) \/ LoadEnd(r)
    PROVE  Follows(readers'[r], Words(r), b)
BY HeadFollows, StageFollows, CameraFollows, GlobalFollows, MapFollows, EndViewFollows, EndFollows

-----------------------------------------------------------------------------
(* The rename protocol.                                                    *)

\* The words of b up to length n.
Prefix(b, n) == [i \in 1..n |-> Image[b][i]]

\* What an active saver knows of its file while no other is active.
SaverKnows(s) ==
    LET w == savers[s] IN
    /\ w.b \in Bundles
    /\ w.file \in 1..Len(files)
    /\ w.at \in 0..Len(Image[w.b])
    /\ w.pc = "closed" => w.at = Len(Image[w.b])
    /\ dir.part # 0 => dir.part \in torn \/ dir.part = w.file
    /\ w.file \notin torn => /\ holds[w.file] = NoBundle
                             /\ files[w.file] = Prefix(w.b, w.at)

\* Two active savers have both their files in torn, the .part file that is
\* not torn was not published, and nor was the one an active saver writes.
IInv ==
    /\ TypeOK
    /\ \A s \in Active : SaverKnows(s)
    /\ \A s, t \in Active : s # t => savers[s].file \in torn
    /\ dir.part \notin torn \cup {0} => holds[dir.part] = NoBundle
    /\ PublishedIsWhole

\* An image is the function of its words.
LEMMA ImageIsSequence ==
    ASSUME NEW b \in Bundles
    PROVE  /\ Len(Image[b]) \in Nat
           /\ Prefix(b, Len(Image[b])) = Image[b]
           /\ \A i \in 1..Len(Image[b]) : Image[b][i] \in AllWords
<1>1. Image[b] \in Seq(Word)
  BY ImageType
<1> HIDE DEF Image
<1>2. Len(Image[b]) \in Nat /\ DOMAIN Image[b] = 1..Len(Image[b])
  BY <1>1
<1>3. Image[b] = [i \in 1..Len(Image[b]) |-> Image[b][i]]
  BY <1>1, <1>2
<1> QED BY <1>2, <1>3 DEF Prefix, AllWords

\* Overwriting a prefix of an image with its next words is a longer prefix.
LEMMA OverwrittenPrefix ==
    ASSUME NEW b \in Bundles, NEW k \in 0..Len(Image[b]), NEW m \in 1..Len(Image[b]), k < m
    PROVE  Overwritten(Prefix(b, k), k, Image[b], m) = Prefix(b, m)
<1>1. Len(Image[b]) \in Nat
  BY ImageIsSequence
<1> HIDE DEF Image
<1>2. Len(Prefix(b, k)) = k
  <2>1. \A i \in 1..k : Image[b][i] \in {Image[b][j] : j \in 1..k}
    OBVIOUS
  <2>2. Prefix(b, k) \in Seq({Image[b][j] : j \in 1..k}) /\ DOMAIN Prefix(b, k) = 1..k
    BY <1>1, <2>1, SMTT(30) DEF Prefix
  <2> QED BY <1>1, <2>2
<1>3. \A i \in 1..m : (IF i \in k + 1 .. m THEN Image[b][i]
                       ELSE IF i <= k THEN Prefix(b, k)[i] ELSE U(0)) = Image[b][i]
  BY <1>1 DEF Prefix
<1> QED BY <1>1, <1>2, <1>3 DEF Overwritten, Prefix

\* What a write leaves is a sequence of words, whoever wrote what before.
LEMMA OverwrittenType ==
    ASSUME NEW b \in Bundles, NEW c \in Seq(AllWords), NEW k \in Nat,
           NEW m \in 1..Len(Image[b])
    PROVE  Overwritten(c, k, Image[b], m) \in Seq(AllWords)
<1>1. Len(Image[b]) \in Nat /\ \A i \in 1..Len(Image[b]) : Image[b][i] \in AllWords
  BY ImageIsSequence
<1>2. U(0) \in AllWords
  BY DEF AllWords
<1> HIDE DEF Image, AllWords, U
<1> DEFINE n == IF Len(c) > m THEN Len(c) ELSE m
           v(i) == IF i \in k + 1 .. m THEN Image[b][i] ELSE IF i <= Len(c) THEN c[i] ELSE U(0)
<1>3. n \in Nat /\ \A i \in 1..n : v(i) \in AllWords
  BY <1>1, <1>2
<1>4. Overwritten(c, k, Image[b], m) = [i \in 1..n |-> v(i)]
  BY DEF Overwritten
<1> HIDE DEF n, v
<1> QED BY <1>3, <1>4

\* At the beginning there is no file and no active saver.
LEMMA InitIInv == Init => IInv
  BY FilesAssumption DEF Init, IInv, TypeOK, Active, IdleSaver, PublishedIsWhole

-----------------------------------------------------------------------------
(* One lemma per kind of step.                                             *)

\* A save that begins, first the types.
LEMMA BeginKeepsType ==
    ASSUME IInv, NEW s \in Savers, NEW b \in Bundles, SaveBegin(s, b)
    PROVE  TypeOK'
<1>1. <<>> \in Seq(AllWords)
  BY DEF AllWords
<1>2. /\ files \in Seq(Seq(AllWords))
      /\ holds \in Seq(Bundles \cup {NoBundle}) /\ Len(holds) = Len(files)
      /\ dir \in [path : 0..Len(files), part : 0..Len(files)]
      /\ torn \subseteq 1..Len(files) /\ begun \in 0..MaxSaves
  BY DEF IInv, TypeOK
<1> HIDE DEF AllWords
<1>3. /\ files' \in Seq(Seq(AllWords))
      /\ holds' \in Seq(Bundles \cup {NoBundle}) /\ Len(holds') = Len(files')
      /\ dir' \in [path : 0..Len(files'), part : 1..Len(files')]
      /\ Len(files) \in Nat /\ Len(files') \in Nat /\ Len(files) <= Len(files')
  <2>1. CASE dir.part # 0
    <3>1. /\ files' = [files EXCEPT ![dir.part] = <<>>]
          /\ UNCHANGED <<dir, holds>>
      BY <2>1 DEF SaveBegin, Opened
    <3> QED BY <1>1, <1>2, <2>1, <3>1
  <2>2. CASE dir.part = 0
    <3>1. /\ files' = Append(files, <<>>)
          /\ holds' = Append(holds, NoBundle)
          /\ dir' = [dir EXCEPT !.part = Len(files) + 1]
      BY <2>2 DEF SaveBegin
    <3>2. files' \in Seq(Seq(AllWords)) /\ Len(files') = Len(files) + 1
      BY <1>1, <1>2, <3>1
    <3>3. holds' \in Seq(Bundles \cup {NoBundle}) /\ Len(holds') = Len(holds) + 1
      BY <1>2, <3>1
    <3> QED BY <1>2, <3>1, <3>2, <3>3, SMTT(30)
  <2> QED BY <2>1, <2>2
<1>4. savers' \in [Savers -> [pc : {"idle", "writing", "closed"},
                              b : Bundles \cup {NoBundle},
                              file : 0..Len(files'), at : Nat]]
  <2>1. savers' = [savers EXCEPT ![s] = [pc |-> "writing", b |-> b,
                                         file |-> dir'.part, at |-> 0]]
    BY DEF SaveBegin
  <2>2. savers \in [Savers -> [pc : {"idle", "writing", "closed"},
                               b : Bundles \cup {NoBundle},
                               file : 0..Len(files), at : Nat]]
    BY DEF IInv, TypeOK
  <2> QED BY <1>3, <2>1, <2>2
<1>5. torn' \subseteq 1..Len(files')
  <2>1. \A a \in Active : savers[a].file \in 1..Len(files)
    BY DEF IInv, SaverKnows
  <2> DEFINE held == {savers[a].file : a \in Active}
  <2>2. torn' = torn \/ torn' = torn \cup {dir'.part} \cup held
    BY DEF SaveBegin
  <2>3. torn \subseteq 1..Len(files') /\ dir'.part \in 1..Len(files')
        /\ \A a \in Active : savers[a].file \in 1..Len(files')
    BY <1>2, <1>3, <2>1
  <2>4. held \subseteq 1..Len(files')
    BY <2>3
  <2> HIDE DEF held
  <2> QED BY <2>2, <2>3, <2>4
<1>6. begun' \in 0..MaxSaves
  BY <1>2, FilesAssumption DEF SaveBegin
<1> QED BY <1>3, <1>4, <1>5, <1>6 DEF TypeOK

\* It truncates or creates a file that no reader was promised anything of.
LEMMA BeginKeeps ==
    ASSUME IInv, NEW s \in Savers, NEW b \in Bundles, SaveBegin(s, b)
    PROVE  IInv'
<1>1. TypeOK'
  BY BeginKeepsType
<1> USE DEF IInv
<1>2. Len(Image[b]) \in Nat
  BY ImageIsSequence
<1> HIDE DEF Image, AllWords
<1> DEFINE f == dir'.part
<1>3. f \in 1..Len(files') /\ files'[f] = <<>> /\ dir' = [dir EXCEPT !.part = f]
  BY <1>1 DEF SaveBegin, TypeOK, Opened
<1>4. \A g \in 1..Len(files) : g # f => files'[g] = files[g] /\ holds'[g] = holds[g]
  BY DEF SaveBegin, TypeOK
<1>5. torn \subseteq torn' /\ Len(files) <= Len(files') /\ Len(files) \in Nat
  BY <1>1 DEF SaveBegin, TypeOK
<1>6. f \notin torn' => holds'[f] = NoBundle
  BY <1>1 DEF SaveBegin, TypeOK
<1>7. Active' = Active \cup {s} /\ s \notin Active
  BY DEF SaveBegin, Active, TypeOK
<1>8. \A t \in Active : savers'[t] = savers[t] /\ savers[t].file \in torn' /\ f \in torn'
  BY <1>7 DEF SaveBegin, TypeOK, Active
<1>9. savers'[s] = [pc |-> "writing", b |-> b, file |-> f, at |-> 0]
  BY DEF SaveBegin, TypeOK
<1>10. \A t \in Active' : SaverKnows(t)'
  <2>1. SaverKnows(s)'
    BY <1>2, <1>3, <1>6, <1>9 DEF SaverKnows, Prefix
  <2>2. \A t \in Active : SaverKnows(t)'
    BY <1>3, <1>5, <1>8 DEF SaverKnows
  <2> QED BY <1>7, <2>1, <2>2
<1>11. (\A x, y \in Active : x # y => savers[x].file \in torn)'
  BY <1>7, <1>8, <1>9
<1>12. PublishedIsWhole'
  BY <1>3, <1>4, <1>5, <1>6 DEF PublishedIsWhole, SaveBegin, TypeOK
<1> QED BY <1>1, <1>3, <1>6, <1>10, <1>11, <1>12

\* A write makes the prefix its saver has written longer.
LEMMA WriteKeeps ==
    ASSUME IInv, NEW s \in Savers, WriteBlock(s)
    PROVE  IInv'
<1> USE DEF IInv
<1> DEFINE w == savers[s]
<1>1. s \in Active /\ SaverKnows(s) /\ w.b \in Bundles
  BY DEF WriteBlock, Active, SaverKnows
<1>2. PICK m \in Ends[w.b] :
          /\ m > w.at
          /\ files' = [files EXCEPT ![w.file] = Overwritten(@, w.at, Image[w.b], m)]
          /\ savers' = [savers EXCEPT ![s].at = m]
  BY DEF WriteBlock
<1>3. m \in 1..Len(Image[w.b]) /\ Len(Image[w.b]) \in Nat
  <2>1. w.at \in Nat
    BY <1>1 DEF SaverKnows
  <2>2. Ends[w.b] \subseteq 0..Len(Image[w.b]) /\ Len(Image[w.b]) \in Nat
    BY <1>1, EndsAre
  <2> QED BY <1>2, <2>1, <2>2
<1> HIDE DEF Image, AllWords, Ends
<1>4. files' \in Seq(Seq(AllWords)) /\ Len(files') = Len(files)
  <2>1. files[w.file] \in Seq(AllWords) /\ w.at \in Nat
    BY <1>1 DEF SaverKnows, TypeOK
  <2>2. Overwritten(files[w.file], w.at, Image[w.b], m) \in Seq(AllWords)
    BY <1>1, <1>3, <2>1, OverwrittenType
  <2> QED BY <1>1, <1>2, <2>2 DEF TypeOK, SaverKnows
<1>5. \A t \in Active : savers'[t].b = savers[t].b /\ savers'[t].file = savers[t].file
                        /\ savers'[t].pc = savers[t].pc
  BY <1>2 DEF TypeOK, Active
<1>6. Active' = Active
  BY <1>2 DEF TypeOK, Active
<1>7. TypeOK'
  <2>1. savers' \in [Savers -> [pc : {"idle", "writing", "closed"},
                                b : Bundles \cup {NoBundle},
                                file : 0..Len(files), at : Nat]]
    <3>1. m \in Nat
      BY <1>3
    <3>2. savers' = [savers EXCEPT ![s].at = m]
      BY <1>2
    <3>3. savers \in [Savers -> [pc : {"idle", "writing", "closed"},
                                 b : Bundles \cup {NoBundle},
                                 file : 0..Len(files), at : Nat]]
      BY DEF TypeOK
    <3> QED BY <3>1, <3>2, <3>3
  <2> QED BY <1>4, <2>1 DEF TypeOK, WriteBlock
<1>8. \A t \in Active : t # s => savers'[t] = savers[t]
  BY <1>2 DEF TypeOK, Active
<1>9. \A f \in 1..Len(files) : f # w.file => files'[f] = files[f]
  BY <1>2 DEF TypeOK
<1>10. w.file \notin torn => files'[w.file] = Prefix(w.b, m)
  <2>1. w.file \notin torn => files'[w.file] = Overwritten(Prefix(w.b, w.at), w.at, Image[w.b], m)
    BY <1>1, <1>2 DEF SaverKnows, TypeOK
  <2> QED BY <1>1, <1>2, <1>3, <2>1, OverwrittenPrefix DEF SaverKnows
<1>11. SaverKnows(s)'
  BY <1>1, <1>2, <1>3, <1>4, <1>5, <1>10 DEF SaverKnows, WriteBlock, TypeOK
<1>12. \A t \in Active : t # s => SaverKnows(t)'
  BY <1>1, <1>4, <1>8, <1>9 DEF SaverKnows, WriteBlock
<1>13. PublishedIsWhole'
  BY <1>1, <1>4, <1>9 DEF PublishedIsWhole, SaverKnows, WriteBlock, TypeOK
<1>14. (\A x, y \in Active : x # y => savers[x].file \in torn)'
  BY <1>5, <1>6 DEF WriteBlock
<1>15. (dir.part \notin torn \cup {0} => holds[dir.part] = NoBundle)'
  BY DEF WriteBlock
<1> QED BY <1>6, <1>7, <1>11, <1>12, <1>13, <1>14, <1>15

\* A saver that stops, by an error or by dying, writes nothing more; .part
\* may be gone.
LEMMA StopKeeps ==
    ASSUME IInv, NEW s \in Savers, savers' = [savers EXCEPT ![s] = IdleSaver],
           dir' = dir \/ dir' = [dir EXCEPT !.part = 0],
           UNCHANGED <<files, readers, holds, torn, begun>>
    PROVE  IInv'
<1> USE DEF IInv
<1>1. Active' = Active \ {s} /\ \A t \in Active \ {s} : savers'[t] = savers[t]
  BY DEF TypeOK, Active, IdleSaver
<1>2. TypeOK'
  BY DEF TypeOK, IdleSaver
<1>3. \A t \in Active' : SaverKnows(t)'
  BY <1>1 DEF SaverKnows, TypeOK
<1> QED BY <1>1, <1>2, <1>3 DEF PublishedIsWhole, TypeOK

\* Flushing and closing writes nothing.
LEMMA CloseKeeps ==
    ASSUME IInv, NEW s \in Savers, FlushAndClose(s)
    PROVE  IInv'
<1> USE DEF IInv
<1>1. Active' = Active /\ s \in Active
  BY DEF TypeOK, Active, FlushAndClose
<1>2. TypeOK'
  BY DEF TypeOK, FlushAndClose
<1>3. \A t \in Active : /\ savers'[t].b = savers[t].b /\ savers'[t].file = savers[t].file
                        /\ savers'[t].at = savers[t].at
                        /\ t # s => savers'[t].pc = savers[t].pc
  BY DEF TypeOK, FlushAndClose, Active
<1>4. \A t \in Active : SaverKnows(t)'
  BY <1>1, <1>3 DEF SaverKnows, FlushAndClose
<1> QED BY <1>1, <1>2, <1>3, <1>4 DEF PublishedIsWhole, FlushAndClose

\* What a rename publishes was written to its end, or savers overlapped.
LEMMA RenameKeeps ==
    ASSUME IInv, NEW s \in Savers, Rename(s)
    PROVE  IInv'
<1> USE DEF IInv
<1> DEFINE w == savers[s]
<1>1. s \in Active /\ SaverKnows(s) /\ w.b \in Bundles
  BY DEF Rename, Active, SaverKnows
<1>2. Active' = Active \ {s} /\ \A t \in Active \ {s} : savers'[t] = savers[t]
  BY DEF TypeOK, Active, IdleSaver, Rename
<1>3. TypeOK'
  BY <1>1 DEF TypeOK, IdleSaver, Rename
<1>4. dir.part \notin torn => dir.part = w.file /\ files[w.file] = Image[w.b]
  <2>1. Prefix(w.b, Len(Image[w.b])) = Image[w.b]
    BY <1>1, ImageIsSequence
  <2> HIDE DEF Image
  <2> QED BY <1>1, <2>1 DEF SaverKnows, Rename
<1>5. PublishedIsWhole'
  BY <1>1, <1>4 DEF PublishedIsWhole, Rename, TypeOK
<1>6. \A t \in Active \ {s} : SaverKnows(t)'
  BY <1>1, <1>2 DEF SaverKnows, Rename, TypeOK
<1> QED BY <1>2, <1>3, <1>5, <1>6 DEF Rename

\* A damaged copy is a new file.
LEMMA DamageKeeps ==
    ASSUME IInv, Damage
    PROVE  IInv'
<1> USE DEF IInv
<1>1. PICK d : /\ d \in {SubSeq(files[dir.path], 1, k) : k \in 0..Len(files[dir.path]) - 1}
                       \cup {Append(files[dir.path], U(0))}
               /\ files' = Append(files, d)
  BY DEF Damage
<1>2. d \in Seq(AllWords)
  <2>1. U(0) \in AllWords
    BY DEF AllWords
  <2> HIDE DEF AllWords, U
  <2>2. files[dir.path] \in Seq(AllWords)
    BY DEF Damage, TypeOK
  <2>3. \A k \in 0..Len(files[dir.path]) - 1 : SubSeq(files[dir.path], 1, k) \in Seq(AllWords)
    BY <2>2
  <2>4. Append(files[dir.path], U(0)) \in Seq(AllWords)
    BY <2>1, <2>2
  <2> QED BY <1>1, <2>3, <2>4
<1> HIDE DEF AllWords
<1>3. files' \in Seq(Seq(AllWords)) /\ Len(files') = Len(files) + 1
  BY <1>1, <1>2 DEF TypeOK
<1>4. holds' \in Seq(Bundles \cup {NoBundle}) /\ Len(holds') = Len(files) + 1
       /\ holds'[Len(files) + 1] = NoBundle
  BY DEF Damage, TypeOK
<1>5. \A f \in 1..Len(files) : files'[f] = files[f] /\ holds'[f] = holds[f]
                                  /\ (f \in torn' <=> f \in torn)
  BY <1>1 DEF Damage, TypeOK
<1>6. TypeOK'
  <2>1. torn' \subseteq 1..Len(files') /\ begun' \in 0..MaxSaves
    BY <1>3 DEF TypeOK, Damage
  <2>2. dir' \in [path : 0..Len(files'), part : 0..Len(files')]
    <3>1. dir' = [dir EXCEPT !.path = Len(files) + 1] /\ Len(files) \in Nat
      BY DEF Damage, TypeOK
    <3>2. dir \in [path : 0..Len(files), part : 0..Len(files)]
      BY DEF TypeOK
    <3> QED BY <1>3, <3>1, <3>2
  <2>3. savers' \in [Savers -> [pc : {"idle", "writing", "closed"},
                                b : Bundles \cup {NoBundle},
                                file : 0..Len(files'), at : Nat]]
    BY <1>3 DEF TypeOK, Damage
  <2> QED BY <1>3, <1>4, <2>1, <2>2, <2>3 DEF TypeOK
<1>7. Active' = Active
  BY DEF Damage, Active
<1>8. \A t \in Active : SaverKnows(t)'
  BY <1>3, <1>5 DEF SaverKnows, Damage, TypeOK
<1>9. PublishedIsWhole'
  <2>1. \A f \in 1..Len(files') : f \in 1..Len(files) \/ f = Len(files) + 1
    BY <1>3 DEF TypeOK
  <2> QED BY <1>4, <1>5, <2>1 DEF PublishedIsWhole
<1>10. (\A x, y \in Active : x # y => savers[x].file \in torn)'
  BY <1>7 DEF Damage
<1>11. (dir.part \notin torn \cup {0} => holds[dir.part] = NoBundle)'
  BY <1>5 DEF Damage, TypeOK
<1> QED BY <1>6, <1>7, <1>8, <1>9, <1>10, <1>11

\* So every step keeps the invariant.
LEMMA NextKeeps == IInv /\ [Next]_vars => IInv'
<1> SUFFICES ASSUME IInv, [Next]_vars PROVE IInv'
  OBVIOUS
<1>1. ASSUME NEW s \in Savers, Save(s) PROVE IInv'
  <2>1. ASSUME NEW b \in Bundles, SaveBegin(s, b) PROVE IInv'
    BY <2>1, BeginKeeps
  <2>2. CASE WriteBlock(s)
    BY <2>2, WriteKeeps
  <2>3. CASE SaveFails(s)
    BY <2>3, StopKeeps DEF SaveFails
  <2>4. CASE FlushAndClose(s)
    BY <2>4, CloseKeeps
  <2>5. CASE Rename(s)
    BY <2>5, RenameKeeps
  <2>6. CASE RenameFails(s)
    BY <2>6, StopKeeps DEF RenameFails
  <2>7. CASE Crash(s)
    BY <2>7, StopKeeps DEF Crash
  <2> QED BY <1>1, <2>1, <2>2, <2>3, <2>4, <2>5, <2>6, <2>7 DEF Save
<1>2. ASSUME NEW r \in Readers, Load(r) PROVE IInv'
  BY <1>2 DEF Load, IInv, TypeOK, Active, SaverKnows, PublishedIsWhole
<1>3. CASE Damage
  BY <1>3, DamageKeeps
<1>4. CASE UNCHANGED vars
  BY <1>4 DEF vars, IInv, TypeOK, Active, SaverKnows, PublishedIsWhole
<1> QED BY <1>1, <1>2, <1>3, <1>4 DEF Next

\* And it always holds.
LEMMA IInvAlways == Spec => []IInv
<1>1. Init => IInv
  BY InitIInv
<1>2. IInv /\ [Next]_vars => IInv'
  BY NextKeeps
<1> QED BY <1>1, <1>2, PTL DEF Spec

\* Every file, name and saver keeps its type, files of any length included.
THEOREM TypeCorrect == Spec => []TypeOK
<1>1. IInv => TypeOK
  BY DEF IInv
<1> QED BY <1>1, IInvAlways, PTL

\* The promise of the rename protocol, whatever fails or dies: a published
\* file is the whole bundle it was published for unless savers overlapped.
THEOREM PublishedStaysWhole == Spec => []PublishedIsWhole
<1>1. IInv => PublishedIsWhole
  BY DEF IInv
<1> QED BY <1>1, IInvAlways, PTL

-----------------------------------------------------------------------------
(* Loads while the path is replaced.                                       *)

\* What may become of a file that holds the image of b: it is cut off, or a
\* word follows.
Damaged(c, b) ==
    \/ \E k \in 0..Len(Image[b]) - 1 : c = SubSeq(Image[b], 1, k)
    \/ c = Append(Image[b], U(0))

\* A file of content c that was published for h, or is a damaged copy, has to
\* do with b.
Content(h, c, b) ==
    /\ Good(b)
    /\ \/ h = b /\ c = Image[b]
       \/ h = NoBundle /\ Damaged(c, b)

\* No saver writes the file any more, nor will one rename it.
Settled(f) ==
    /\ f \in 1..Len(files) /\ f # dir.part
    /\ \A s \in Active : savers[s].file # f
    /\ \E b \in Bundles : Content(holds[f], files[f], b)

\* What a saver has checked of its bundle so far.
SaverChecked(s) ==
    LET w == savers[s] IN
    /\ Valid(w.b)
    /\ \A k \in {0} \cup Ends[w.b] : k < w.at => ~NameTooLong(w.b, k)

ReaderKnows(r) ==
    LET rd == readers[r] IN
    /\ DOMAIN rd = Fields /\ rd.mv \in BOOLEAN
    /\ rd.file \in 0..Len(files)
    /\ rd.pc = "idle" => rd = IdleReader
    /\ rd.file = 0 => rd.pc \in {"idle", "refused"}
    /\ rd.file \notin torn \cup {0} =>
          /\ Settled(rd.file)
          /\ \E b \in Bundles : /\ Content(holds[rd.file], files[rd.file], b)
                               /\ Follows(rd, files[rd.file], b)

LoadInv ==
    /\ IInv
    /\ \A s \in Active : SaverChecked(s)
    /\ dir.path \notin torn \cup {0} => Settled(dir.path)
    /\ DOMAIN readers = Readers
    /\ \A r \in Readers : ReaderKnows(r)

\* A saver that reached the end saw no name that is too long.
LEMMA CheckedIsGood ==
    ASSUME NEW b \in Bundles, Valid(b),
           \A k \in {0} \cup Ends[b] : k < Len(Image[b]) => ~NameTooLong(b, k)
    PROVE  Good(b)
<1> SUFFICES ASSUME NEW i \in 1..Len(b.stages) PROVE b.stages[i].len <= MaxName
  BY DEF Good
<1> DEFINE s == b.stages[i]
           h == StageHead(b, s)
           k == StageAt(b, i)
<1>1. Stand(b, k, h) /\ k \in {0} \cup Ends[b]
  BY StageStands
<1>2. s.len \in Nat
  <2>1. s \in Stage
    BY BundleShape
  <2> HIDE DEF s
  <2> QED BY <2>1 DEF Stage
<1>3. 1 \in 1..Len(h) /\ Len(h) \in Nat /\ h[1] = U(s.len)
  <2>1. CASE b.mv
    BY <2>1 DEF StageHead
  <2>2. CASE ~b.mv
    BY <2>2 DEF StageHead
  <2> QED BY <2>1, <2>2
<1> HIDE DEF h, k, s
<1>4. k \in Nat /\ k + Len(h) <= Len(Image[b]) /\ Image[b][k + 1] = U(s.len)
  BY <1>1, <1>3 DEF Stand
<1>5. k < Len(Image[b])
  BY <1>3, <1>4, EndsAre
<1>6. ~(U(s.len)[1] = "u" /\ U(s.len)[2] > MaxName)
  BY <1>1, <1>4, <1>5 DEF NameTooLong
<1>7. U(s.len)[1] = "u" /\ U(s.len)[2] = s.len
  BY DEF U
<1>8. MaxName \in Nat
  BY LimitsAssumption
<1> QED BY <1>2, <1>6, <1>7, <1>8 DEF s

\* A damaged copy is not the image, and its length says so.
LEMMA DamagedAgrees ==
    ASSUME NEW b \in Bundles, NEW c \in Seq(AllWords), Damaged(c, b)
    PROVE  Agrees(c, b) /\ c # Image[b]
<1>1. Image[b] \in Seq(Word) /\ Len(c) \in Nat
  BY ImageType
<1> DEFINE e == Image[b]
<1> HIDE DEF e
<1>2. e \in Seq(Word) /\ Len(e) \in Nat
  BY <1>1 DEF e
<1>3. ASSUME NEW k \in 0..Len(e) - 1, c = SubSeq(e, 1, k)
      PROVE  Len(c) # Len(e) /\ \A i \in 1..Len(c) : i <= Len(e) => c[i] = e[i]
  <2>1. Len(c) = k /\ \A i \in 1..k : c[i] = e[i]
    BY <1>2, <1>3
  <2> QED BY <1>2, <2>1
<1>4. ASSUME c = Append(e, U(0))
      PROVE  Len(c) # Len(e) /\ \A i \in 1..Len(c) : i <= Len(e) => c[i] = e[i]
  <2> DEFINE z == U(0)
  <2> HIDE DEF z
  <2>1. Len(c) = Len(e) + 1 /\ \A i \in 1..Len(e) : c[i] = e[i]
    <3>1. c = Append(e, z)
      BY <1>4 DEF z
    <3> QED BY <1>2, <3>1
  <2> QED BY <1>2, <2>1
<1>5. Len(c) # Len(e) /\ \A i \in 1..Len(c) : i <= Len(e) => c[i] = e[i]
  BY <1>3, <1>4 DEF Damaged, e
<1> QED BY <1>1, <1>5 DEF Agrees, e

\* What a file has to do with a bundle is enough to read it by.
LEMMA ContentAgrees ==
    ASSUME NEW h, NEW c \in Seq(AllWords), NEW b \in Bundles, Content(h, c, b)
    PROVE  /\ Agrees(c, b)
           /\ h = b <=> c = Image[b]
           /\ h \in {b, NoBundle} /\ b # NoBundle
<1>1. Len(c) \in Nat /\ b # NoBundle
  BY FilesAssumption
<1>2. CASE h = b /\ c = Image[b]
  BY <1>1, <1>2 DEF Agrees
<1>3. CASE h = NoBundle /\ Damaged(c, b)
  BY <1>1, <1>3, DamagedAgrees
<1> QED BY <1>1, <1>2, <1>3 DEF Content

\* A saver's step leaves the settled files alone.
SettledKept ==
    \A f \in 1..Len(files) :
       Settled(f) => /\ f \in 1..Len(files') /\ files'[f] = files[f]
                     /\ holds'[f] = holds[f] /\ f # dir'.part
                     /\ \A s \in Active' : savers'[s].file # f

\* A step that leaves the settled files alone leaves the readers right.
LEMMA ReadersKeep ==
    ASSUME LoadInv, SettledKept, UNCHANGED readers, torn \subseteq torn',
           Len(files) \in Nat, Len(files') \in Nat, Len(files) <= Len(files')
    PROVE  \A r \in Readers : ReaderKnows(r)'
<1> SUFFICES ASSUME NEW r \in Readers PROVE ReaderKnows(r)'
  OBVIOUS
<1>0. PICK rd : rd = readers[r]
  OBVIOUS
<1>1. ReaderKnows(r) /\ readers'[r] = rd
  BY <1>0 DEF LoadInv
<1>2. /\ DOMAIN rd = Fields /\ rd.mv \in BOOLEAN /\ rd.file \in 0..Len(files)
      /\ rd.pc = "idle" => rd = IdleReader
      /\ rd.file = 0 => rd.pc \in {"idle", "refused"}
  BY <1>0, <1>1 DEF ReaderKnows
<1>3. ASSUME rd.file \notin torn' \cup {0}
      PROVE  /\ Settled(rd.file)'
             /\ \E b \in Bundles : /\ Content(holds'[rd.file], files'[rd.file], b)
                                   /\ Follows(rd, files'[rd.file], b)
  <2>1. /\ Settled(rd.file)
        /\ \E b \in Bundles : /\ Content(holds[rd.file], files[rd.file], b)
                              /\ Follows(rd, files[rd.file], b)
    BY <1>0, <1>1, <1>3 DEF ReaderKnows
  <2>2. rd.file \in 1..Len(files)
    BY <1>2, <1>3
  <2>3. /\ rd.file \in 1..Len(files') /\ files'[rd.file] = files[rd.file]
        /\ holds'[rd.file] = holds[rd.file] /\ rd.file # dir'.part
        /\ \A s \in Active' : savers'[s].file # rd.file
    BY <2>1, <2>2 DEF SettledKept
  <2> QED BY <2>1, <2>3 DEF Settled
<1>4. rd.file \in 0..Len(files')
  BY <1>2
<1> QED BY <1>1, <1>2, <1>3, <1>4 DEF ReaderKnows, Settled

\* And the path settled.
LEMMA PathKeeps ==
    ASSUME LoadInv, SettledKept, dir'.path = dir.path, torn \subseteq torn',
           dir'.path \notin torn' \cup {0}
    PROVE  Settled(dir.path)'
<1>1. PICK f : f = dir.path
  OBVIOUS
<1>2. Settled(f)
  BY <1>1 DEF LoadInv
<1>3. /\ f \in 1..Len(files') /\ files'[f] = files[f]
      /\ holds'[f] = holds[f] /\ f # dir'.part
      /\ \A s \in Active' : savers'[s].file # f
  BY <1>2 DEF SettledKept, Settled
<1>4. dir'.path = f
  BY <1>1
<1> QED BY <1>2, <1>3, <1>4 DEF Settled

\* What a step of a saver, or damage, has to keep besides IInv.
LEMMA SaversKeep ==
    ASSUME LoadInv, IInv', SettledKept, UNCHANGED readers, torn \subseteq torn',
           Len(files) <= Len(files'),
           \A s \in Active' : SaverChecked(s)',
           (dir.path \notin torn \cup {0} => Settled(dir.path))'
    PROVE  LoadInv'
<1>1. Len(files) \in Nat /\ Len(files') \in Nat
  BY DEF LoadInv, IInv, TypeOK
<1>2. \A r \in Readers : ReaderKnows(r)'
  BY <1>1, ReadersKeep
<1>3. (\A r \in Readers : ReaderKnows(r))'
  BY <1>2
<1>4. (\A s \in Active : SaverChecked(s))'
  OBVIOUS
<1>5. (DOMAIN readers = Readers)'
  BY DEF LoadInv
<1> QED BY <1>3, <1>4, <1>5 DEF LoadInv

\* One lemma per kind of step again: a save that begins.
LEMMA BeginKeepsLoads ==
    ASSUME LoadInv, NEW s \in Savers, NEW b \in Bundles, SaveBegin(s, b)
    PROVE  LoadInv'
<1>1. IInv'
  BY BeginKeeps DEF LoadInv
<1>2. TypeOK /\ TypeOK'
  BY <1>1 DEF LoadInv, IInv
<1> HIDE DEF AllWords
<1> DEFINE g == dir'.part
<1>3. /\ Len(files) \in Nat /\ Len(files) <= Len(files') /\ torn \subseteq torn'
      /\ (g = dir.part \/ g = Len(files) + 1)
  BY <1>2 DEF SaveBegin, TypeOK
<1>4. \A f \in 1..Len(files) : f # g => files'[f] = files[f] /\ holds'[f] = holds[f]
  <2>1. /\ files \in Seq(Seq(AllWords)) /\ holds \in Seq(Bundles \cup {NoBundle})
        /\ Len(holds) = Len(files)
    BY <1>2 DEF TypeOK
  <2>2. CASE dir.part # 0
    <3>1. files' = [files EXCEPT ![g] = <<>>] /\ holds' = holds
      BY <2>2 DEF SaveBegin, Opened
    <3> HIDE DEF g
    <3> QED BY <2>1, <3>1
  <2>3. CASE dir.part = 0
    <3>1. files' = Append(files, <<>>) /\ holds' = Append(holds, NoBundle)
      BY <2>3 DEF SaveBegin
    <3> QED BY <2>1, <3>1
  <2> QED BY <2>2, <2>3
<1>5. /\ \A t \in Active' : t = s \/ (t \in Active /\ savers'[t] = savers[t])
      /\ savers'[s] = [pc |-> "writing", b |-> b, file |-> g, at |-> 0]
  BY <1>2 DEF SaveBegin, Active, TypeOK
<1>6. SettledKept
  <2> SUFFICES ASSUME NEW f \in 1..Len(files), Settled(f)
               PROVE  /\ f \in 1..Len(files') /\ files'[f] = files[f]
                      /\ holds'[f] = holds[f] /\ f # g
                      /\ \A t \in Active' : savers'[t].file # f
    BY DEF SettledKept
  <2>1. f # g
    BY <1>3 DEF Settled
  <2>2. \A t \in Active' : savers'[t].file # f
    BY <1>5, <2>1 DEF Settled
  <2>3. f \in 1..Len(files')
    BY <1>2, <1>3 DEF TypeOK
  <2> QED BY <1>4, <2>1, <2>2, <2>3
<1>7. \A t \in Active' : SaverChecked(t)'
  <2>1. Ends[b] \subseteq 0..Len(Image[b]) /\ Len(Image[b]) \in Nat
    BY EndsAre
  <2> HIDE DEF Image, Ends
  <2>2. \A k \in {0} \cup Ends[b] : ~(k < 0)
    BY <2>1
  <2>3. SaverChecked(s)'
    BY <1>5, <2>2 DEF SaverChecked, SaveBegin
  <2>4. \A t \in Active : SaverChecked(t)
    BY DEF LoadInv
  <2> QED BY <1>5, <2>3, <2>4 DEF SaverChecked
<1>8. dir'.path = dir.path
  BY <1>2 DEF SaveBegin, TypeOK
<1>9. (dir.path \notin torn \cup {0} => Settled(dir.path))'
  BY <1>3, <1>6, <1>8, PathKeeps
<1> QED BY <1>1, <1>3, <1>6, <1>7, <1>9, SaversKeep DEF SaveBegin

\* A block that is written was checked.
LEMMA WriteKeepsLoads ==
    ASSUME LoadInv, NEW s \in Savers, WriteBlock(s)
    PROVE  LoadInv'
<1>1. IInv'
  BY WriteKeeps DEF LoadInv
<1>2. TypeOK /\ s \in Active /\ SaverKnows(s) /\ SaverChecked(s)
  BY DEF LoadInv, IInv, WriteBlock, Active
<1> DEFINE w == savers[s]
<1>3. PICK m \in Ends[w.b] :
          /\ m > w.at /\ \A n \in Ends[w.b] : n > w.at => m <= n
          /\ ~NameTooLong(w.b, w.at)
          /\ files' = [files EXCEPT ![w.file] = Overwritten(@, w.at, Image[w.b], m)]
          /\ savers' = [savers EXCEPT ![s].at = m]
  BY DEF WriteBlock
<1>4. /\ Ends[w.b] \subseteq 0..Len(Image[w.b]) /\ Len(Image[w.b]) \in Nat
      /\ w.at \in Nat /\ w.b \in Bundles
  BY <1>2, EndsAre DEF SaverKnows
<1> HIDE DEF AllWords, Image, Ends
<1>5. Active' = Active /\ \A t \in Active : savers'[t].file = savers[t].file /\ savers'[t].b = savers[t].b
  BY <1>2, <1>3 DEF TypeOK, Active
<1>6. /\ Len(files') = Len(files)
      /\ \A f \in 1..Len(files) : f # w.file => files'[f] = files[f]
  BY <1>2, <1>3 DEF TypeOK
<1>7. SettledKept
  <2> SUFFICES ASSUME NEW f \in 1..Len(files), Settled(f)
               PROVE  /\ f \in 1..Len(files') /\ files'[f] = files[f]
                      /\ holds'[f] = holds[f] /\ f # dir'.part
                      /\ \A t \in Active' : savers'[t].file # f
    BY DEF SettledKept
  <2>1. f # w.file
    BY <1>2 DEF Settled
  <2> QED BY <1>5, <1>6, <2>1 DEF Settled, WriteBlock
<1>8. \A t \in Active' : SaverChecked(t)'
  <2>1. savers'[s].at = m /\ savers'[s].b = w.b
    BY <1>2, <1>3 DEF TypeOK
  <2>2. \A k \in {0} \cup Ends[w.b] : k < m => ~NameTooLong(w.b, k)
    <3> TAKE k \in {0} \cup Ends[w.b]
    <3> HAVE k < m
    <3>1. CASE k < w.at
      BY <1>2, <3>1 DEF SaverChecked
    <3>2. CASE k = w.at
      BY <1>3, <3>2
    <3>3. k \in Nat /\ m \in Nat
      BY <1>4
    <3>4. ~(k > w.at)
      BY <1>3, <1>4, <3>3
    <3> QED BY <1>4, <3>1, <3>2, <3>3, <3>4
  <2>3. SaverChecked(s)'
    BY <1>2, <2>1, <2>2 DEF SaverChecked
  <2>4. \A t \in Active : t # s => savers'[t] = savers[t] /\ SaverChecked(t)
    BY <1>2, <1>3 DEF TypeOK, Active, LoadInv
  <2> QED BY <1>5, <2>3, <2>4 DEF SaverChecked
<1>9. (dir.path \notin torn \cup {0} => Settled(dir.path))'
  BY <1>7, PathKeeps DEF WriteBlock
<1>10. Len(files) <= Len(files')
  BY <1>2, <1>6 DEF TypeOK
<1> QED BY <1>1, <1>7, <1>8, <1>9, <1>10, SaversKeep DEF WriteBlock

\* A saver that stops.
LEMMA StopKeepsLoads ==
    ASSUME LoadInv, NEW s \in Savers, savers' = [savers EXCEPT ![s] = IdleSaver],
           dir' = dir \/ dir' = [dir EXCEPT !.part = 0],
           UNCHANGED <<files, readers, holds, torn, begun>>
    PROVE  LoadInv'
<1>1. IInv'
  BY StopKeeps DEF LoadInv
<1>2. TypeOK
  BY DEF LoadInv, IInv
<1>3. \A t \in Active' : t \in Active /\ savers'[t] = savers[t]
  BY <1>2 DEF TypeOK, Active, IdleSaver
<1>4. Len(files) \in Nat /\ dir'.path = dir.path /\ dir'.part \in {dir.part, 0}
  BY <1>2 DEF TypeOK
<1>5. SettledKept
  <2> SUFFICES ASSUME NEW f \in 1..Len(files), Settled(f)
               PROVE  /\ f \in 1..Len(files') /\ files'[f] = files[f]
                      /\ holds'[f] = holds[f] /\ f # dir'.part
                      /\ \A t \in Active' : savers'[t].file # f
    BY DEF SettledKept
  <2> QED BY <1>3, <1>4 DEF Settled
<1>6. \A t \in Active' : SaverChecked(t)'
  <2>1. \A t \in Active : SaverChecked(t)
    BY DEF LoadInv
  <2> QED BY <1>3, <2>1 DEF SaverChecked
<1>7. (dir.path \notin torn \cup {0} => Settled(dir.path))'
  BY <1>4, <1>5, PathKeeps
<1>8. Len(files) <= Len(files')
  BY <1>4
<1> QED BY <1>1, <1>5, <1>6, <1>7, <1>8, SaversKeep

\* A saver that closes its file.
LEMMA CloseKeepsLoads ==
    ASSUME LoadInv, NEW s \in Savers, FlushAndClose(s)
    PROVE  LoadInv'
<1>1. IInv'
  BY CloseKeeps DEF LoadInv
<1>2. TypeOK
  BY DEF LoadInv, IInv
<1>3. Active' = Active /\ \A t \in Active : /\ savers'[t].file = savers[t].file
                                            /\ savers'[t].b = savers[t].b
                                            /\ savers'[t].at = savers[t].at
  BY <1>2 DEF TypeOK, Active, FlushAndClose
<1>4. SettledKept
  BY <1>3 DEF SettledKept, Settled, FlushAndClose
<1>5. \A t \in Active' : SaverChecked(t)'
  <2>1. \A t \in Active : SaverChecked(t)
    BY DEF LoadInv
  <2> QED BY <1>3, <2>1 DEF SaverChecked
<1>6. (dir.path \notin torn \cup {0} => Settled(dir.path))'
  BY <1>4, PathKeeps DEF FlushAndClose
<1>7. Len(files) <= Len(files')
  BY <1>2 DEF TypeOK, FlushAndClose
<1> QED BY <1>1, <1>4, <1>5, <1>6, <1>7, SaversKeep DEF FlushAndClose

\* The file that a rename publishes holds its bundle, which was checked to
\* the end.
LEMMA RenameKeepsLoads ==
    ASSUME LoadInv, NEW s \in Savers, Rename(s)
    PROVE  LoadInv'
<1> DEFINE w == savers[s]
           f == dir.part
<1>1. IInv'
  BY RenameKeeps DEF LoadInv
<1>2. TypeOK /\ s \in Active /\ SaverKnows(s) /\ SaverChecked(s) /\ w.b \in Bundles
  BY DEF LoadInv, IInv, Rename, Active, SaverKnows
<1>3. \A t \in Active' : t \in Active \ {s} /\ savers'[t] = savers[t]
  BY <1>2 DEF TypeOK, Active, IdleSaver, Rename
<1>4. /\ f \in 1..Len(files) /\ dir'.path = f /\ dir'.part = 0
      /\ holds' = [holds EXCEPT ![f] = w.b] /\ files' = files /\ Len(files) \in Nat
      /\ torn' = torn /\ Len(holds) = Len(files) /\ holds \in Seq(Bundles \cup {NoBundle})
  BY <1>2 DEF TypeOK, Rename
<1>5. SettledKept
  <2> SUFFICES ASSUME NEW g \in 1..Len(files), Settled(g)
               PROVE  /\ g \in 1..Len(files') /\ files'[g] = files[g]
                      /\ holds'[g] = holds[g] /\ g # dir'.part
                      /\ \A t \in Active' : savers'[t].file # g
    BY DEF SettledKept
  <2>1. g # f
    BY DEF Settled
  <2> HIDE DEF f
  <2> QED BY <1>3, <1>4, <2>1 DEF Settled
<1>6. \A t \in Active' : SaverChecked(t)'
  <2>1. \A t \in Active : SaverChecked(t)
    BY DEF LoadInv
  <2> QED BY <1>3, <2>1 DEF SaverChecked
<1>7. ASSUME dir'.path \notin torn' \cup {0} PROVE Settled(dir.path)'
  <2>1. f \notin torn
    BY <1>4, <1>7
  <2>2. f = w.file /\ w.at = Len(Image[w.b]) /\ files[f] = Prefix(w.b, w.at)
    BY <1>2, <1>4, <2>1 DEF SaverKnows, Rename
  <2>3. Prefix(w.b, Len(Image[w.b])) = Image[w.b]
    BY <1>2, ImageIsSequence
  <2>4. Good(w.b)
    <3> DEFINE b == w.b
    <3>1. Valid(b) /\ \A k \in {0} \cup Ends[b] : k < Len(Image[b]) => ~NameTooLong(b, k)
      BY <1>2, <2>2 DEF SaverChecked
    <3>2. b \in Bundles
      BY <1>2
    <3> HIDE DEF b
    <3>3. Good(b)
      BY <3>1, <3>2, CheckedIsGood
    <3> QED BY <3>3 DEF b
  <2> HIDE DEF Image
  <2>5. Content(holds'[f], files'[f], w.b)
    BY <1>4, <2>2, <2>3, <2>4 DEF Content
  <2>6. \A t \in Active' : savers'[t].file # f
    <3>1. \A t \in Active \ {s} : savers[s].file \in torn
      BY <1>2 DEF LoadInv, IInv
    <3> QED BY <1>3, <2>1, <2>2, <3>1
  <2>7. f \in 1..Len(files') /\ f # dir'.part
    BY <1>4
  <2>8. PICK g : g = f
    OBVIOUS
  <2>9. /\ g \in 1..Len(files') /\ g # dir'.part /\ \A t \in Active' : savers'[t].file # g
        /\ Content(holds'[g], files'[g], w.b) /\ dir'.path = g
    BY <1>4, <2>5, <2>6, <2>7, <2>8
  <2> HIDE DEF f, w
  <2> QED BY <1>2, <2>9 DEF Settled
<1>8. Len(files) <= Len(files') /\ torn \subseteq torn'
  BY <1>4
<1> QED BY <1>1, <1>5, <1>6, <1>7, <1>8, SaversKeep DEF Rename

\* A damaged copy of a settled file is one.
LEMMA DamageKeepsLoads ==
    ASSUME LoadInv, Damage
    PROVE  LoadInv'
<1>1. IInv'
  BY DamageKeeps DEF LoadInv
<1>2. TypeOK /\ TypeOK'
  BY <1>1 DEF LoadInv, IInv
<1> HIDE DEF AllWords
<1>3. PICK d : /\ \/ \E k \in 0..Len(files[dir.path]) - 1 : d = SubSeq(files[dir.path], 1, k)
                  \/ d = Append(files[dir.path], U(0))
               /\ files' = Append(files, d)
  BY DEF Damage
<1> DEFINE n == Len(files) + 1
<1>4. /\ Len(files) \in Nat /\ n \in 1..Len(files') /\ Len(files') = n /\ files'[n] = d
      /\ \A f \in 1..Len(files) : files'[f] = files[f]
  BY <1>2, <1>3 DEF TypeOK
<1>5. /\ holds'[n] = NoBundle
      /\ \A f \in 1..Len(files) : holds'[f] = holds[f]
  BY <1>2 DEF TypeOK, Damage
<1>6. dir'.path = n /\ dir'.part = dir.part /\ dir.part \in 0..Len(files)
      /\ savers' = savers /\ Active' = Active
      /\ \A s \in Active : savers[s].file \in 0..Len(files)
  BY <1>2 DEF TypeOK, Damage, Active
<1>7. SettledKept
  <2> SUFFICES ASSUME NEW f \in 1..Len(files), Settled(f)
               PROVE  /\ f \in 1..Len(files') /\ files'[f] = files[f]
                      /\ holds'[f] = holds[f] /\ f # dir'.part
                      /\ \A t \in Active' : savers'[t].file # f
    BY DEF SettledKept
  <2> QED BY <1>4, <1>5, <1>6 DEF Settled
<1>8. \A t \in Active' : SaverChecked(t)'
  <2>1. \A t \in Active : SaverChecked(t)
    BY DEF LoadInv
  <2> QED BY <1>6, <2>1 DEF SaverChecked
<1>9. ASSUME dir'.path \notin torn' \cup {0} PROVE Settled(dir.path)'
  <2>1. dir.path \notin torn \cup {0}
    BY <1>6, <1>9 DEF Damage
  <2>2. Settled(dir.path)
    BY <2>1 DEF LoadInv
  <2>3. PICK b \in Bundles : Content(holds[dir.path], files[dir.path], b)
    BY <2>2 DEF Settled
  <2>4. holds[dir.path] # NoBundle
    BY DEF Damage
  <2>5. files[dir.path] = Image[b] /\ Good(b)
    BY <2>3, <2>4 DEF Content
  <2> HIDE DEF Image, n
  <2>6. Damaged(d, b)
    BY <1>3, <2>5 DEF Damaged
  <2>7. Content(holds'[n], files'[n], b)
    BY <1>4, <1>5, <2>5, <2>6 DEF Content
  <2>8. n # dir'.part /\ \A s \in Active' : savers'[s].file # n
    BY <1>4, <1>6 DEF n
  <2>9. PICK g : g = n
    OBVIOUS
  <2>10. /\ g \in 1..Len(files') /\ g # dir'.part /\ \A s \in Active' : savers'[s].file # g
         /\ Content(holds'[g], files'[g], b) /\ dir'.path = g
    BY <1>4, <1>6, <2>7, <2>8, <2>9
  <2> QED BY <2>10 DEF Settled
<1>10. Len(files) <= Len(files') /\ torn \subseteq torn'
  <2>1. torn \subseteq torn'
    BY DEF Damage
  <2> QED BY <1>4, <2>1
<1> QED BY <1>1, <1>7, <1>8, <1>9, <1>10, SaversKeep DEF Damage

\* A refusal, and every phase of a load, leave the file, the format and the
\* other readers alone.
Keeps(r) ==
    /\ DOMAIN readers' = Readers /\ \A q \in Readers : q # r => readers'[q] = readers[q]
    /\ DOMAIN readers'[r] = Fields /\ readers'[r].pc # "idle"
    /\ readers'[r].mv = readers[r].mv /\ readers'[r].file = readers[r].file

\* A refusal does.
LEMMA RefuseKeeps ==
    ASSUME NEW r \in Readers, DOMAIN readers = Readers, Refuse(r)
    PROVE  Keeps(r)
<1> DEFINE to == [IdleReader EXCEPT !.pc = "refused", !.file = readers[r].file,
                                    !.mv = readers[r].mv]
<1>1. readers' = [readers EXCEPT ![r] = to]
  BY DEF Refuse
<1>2. /\ DOMAIN to = Fields /\ to.pc = "refused" /\ to.mv = readers[r].mv
      /\ to.file = readers[r].file
  BY DEF IdleReader, Fields
<1> HIDE DEF to
<1> QED BY <1>1, <1>2 DEF Keeps

\* So does a step to a state with the same file and format.
LEMMA GoesKeeps ==
    ASSUME NEW r \in Readers, DOMAIN readers = Readers, NEW to, Goes(r, to),
           DOMAIN to = Fields, to.pc # "idle", to.mv = readers[r].mv,
           to.file = readers[r].file
    PROVE  Keeps(r)
BY DEF Goes, Keeps

\* And so does every phase of a load.
LEMMA PhaseKeeps ==
    ASSUME NEW r \in Readers, DOMAIN readers = Readers, DOMAIN readers[r] = Fields,
           ReadHead(r) \/ ReadStage(r) \/ ReadCamera(r) \/ ReadGlobal(r) \/ ReadMap(r)
           \/ EndView(r) \/ LoadEnd(r)
    PROVE  Keeps(r) /\ readers[r].pc \notin {"idle", "loaded", "refused"}
<1> DEFINE rd == readers[r]
           Kept(to) == /\ DOMAIN to = Fields /\ to.pc # "idle" /\ to.mv = rd.mv
                       /\ to.file = rd.file
<1>0. readers[r].pc \notin {"idle", "loaded", "refused"}
  BY DEF ReadHead, ReadStage, ReadCamera, ReadGlobal, ReadMap, EndView, LoadEnd
<1>1. SUFFICES Refuse(r) \/ \E to : Goes(r, to) /\ Kept(to)
  BY <1>0, RefuseKeeps, GoesKeeps
<1>2. CASE ReadHead(r)
  <2> DEFINE to == [rd EXCEPT !.pc = "stage", !.pos = 3, !.stages = IntAt(r, 3)]
  <2>1. Refuse(r) \/ Goes(r, to)
    BY <1>2 DEF ReadHead
  <2>2. Kept(to)
    BY DEF Fields
  <2> HIDE DEF to, Kept
  <2> QED BY <2>1, <2>2
<1>3. CASE ReadStage(r)
  <2> DEFINE to == [rd EXCEPT !.pc = IF rd.mv THEN "camera" ELSE "view",
                               !.pos = @ + (IF rd.mv THEN 3 ELSE 2),
                               !.views = IF rd.mv THEN IntAt(r, 3) ELSE 1,
                               !.stage = [len |-> IntAt(r, 1), name |-> WordAt(r, 2),
                                          views |-> <<>>]]
  <2>1. Refuse(r) \/ Goes(r, to)
    BY <1>3 DEF ReadStage
  <2>2. Kept(to)
    BY DEF Fields
  <2> HIDE DEF to, Kept
  <2> QED BY <2>1, <2>2
<1>4. CASE ReadCamera(r)
  <2> DEFINE to == [rd EXCEPT !.pc = "view", !.pos = @ + 3,
                               !.view = [pose |-> WordAt(r, 1), scale |-> WordAt(r, 2),
                                         has |-> 1]]
  <2>1. Refuse(r) \/ Goes(r, to)
    BY <1>4 DEF ReadCamera
  <2>2. Kept(to)
    BY DEF Fields
  <2> HIDE DEF to, Kept
  <2> QED BY <2>1, <2>2
<1>5. CASE ReadGlobal(r)
  <2> DEFINE to == [rd EXCEPT !.pc = "map", !.pos = @ + 3 + IntAt(r, 1) * IntAt(r, 2),
                               !.maps = IntAt(r, 3), !.have = {},
                               !.view = [cam |-> IF rd.mv THEN rd.view ELSE NoCamera,
                                         tokens |-> IntAt(r, 1), c |-> IntAt(r, 2),
                                         feats |-> Payload(r, 3, IntAt(r, 1) * IntAt(r, 2)),
                                         dino |-> NoMap, naf |-> NoMap]]
  <2>1. Refuse(r) \/ Goes(r, to)
    BY <1>5 DEF ReadGlobal
  <2>2. Kept(to)
    BY DEF Fields
  <2> HIDE DEF to, Kept
  <2> QED BY <2>1, <2>2
<1>6. CASE ReadMap(r)
  <2>1. Refuse(r) \/ Goes(r, AfterMap(r))
    BY <1>6, ReadMapDoes
  <2>2. Kept(AfterMap(r))
    BY <1>6 DEF Fields, AfterMap, ReadMap
  <2> HIDE DEF Kept
  <2> QED BY <2>1, <2>2
<1>7. CASE EndView(r)
  <2> DEFINE to == [rd EXCEPT !.views = @ - 1, !.view = <<>>,
               !.stage = IF rd.views = 1 THEN <<>>
                         ELSE [rd.stage EXCEPT !.views = Append(@, rd.view)],
               !.stages = IF rd.views = 1 THEN @ - 1 ELSE @,
               !.out = IF rd.views = 1
                       THEN Append(@, [rd.stage EXCEPT !.views = Append(@, rd.view)]) ELSE @,
               !.pc = IF ~(rd.views = 1) THEN "camera"
                      ELSE IF rd.stages > 1 THEN "stage" ELSE "end"]
  <2>1. Refuse(r) \/ Goes(r, to)
    BY <1>7 DEF EndView
  <2>2. Kept(to)
    BY DEF Fields
  <2> HIDE DEF to, Kept
  <2> QED BY <2>1, <2>2
<1>8. CASE LoadEnd(r)
  <2> DEFINE to == [rd EXCEPT !.pc = "loaded", !.out = [mv |-> rd.mv, stages |-> rd.out]]
  <2>1. Refuse(r) \/ Goes(r, to)
    BY <1>8 DEF LoadEnd
  <2>2. Kept(to)
    BY DEF Fields
  <2> HIDE DEF to, Kept
  <2> QED BY <2>1, <2>2
<1> QED BY <1>2, <1>3, <1>4, <1>5, <1>6, <1>7, <1>8

\* What a load keeps: nothing but its reader changes.
LEMMA ReaderMoves ==
    ASSUME LoadInv, NEW r \in Readers, UNCHANGED <<files, dir, savers, holds, torn, begun>>,
           DOMAIN readers' = Readers, \A q \in Readers : q # r => readers'[q] = readers[q],
           ReaderKnows(r)'
    PROVE  LoadInv'
<1>1. IInv'
  BY DEF LoadInv, IInv, TypeOK, Active, SaverKnows, PublishedIsWhole
<1>2. Active' = Active
  BY DEF Active
<1>3. \A q \in Readers : ReaderKnows(q)'
  <2> SUFFICES ASSUME NEW q \in Readers, q # r PROVE ReaderKnows(q)'
    OBVIOUS
  <2>1. readers'[q] = readers[q] /\ ReaderKnows(q)
    BY DEF LoadInv
  <2> QED BY <1>2, <2>1 DEF ReaderKnows, Settled
<1>4. \A s \in Active' : SaverChecked(s)'
  BY <1>2 DEF LoadInv, SaverChecked
<1>5. (dir.path \notin torn \cup {0} => Settled(dir.path))'
  BY <1>2 DEF LoadInv, Settled
<1> QED BY <1>1, <1>3, <1>4, <1>5 DEF LoadInv

\* A load that begins is at the header of a settled file, if there is one.
LEMMA BeginLoadKeeps ==
    ASSUME LoadInv, NEW r \in Readers, NEW mv \in BOOLEAN, LoadBegin(r, mv),
           UNCHANGED <<files, dir, savers, holds, torn, begun>>
    PROVE  LoadInv'
<1>1. /\ DOMAIN readers = Readers /\ ReaderKnows(r) /\ readers[r] = IdleReader
      /\ dir.path \in 0..Len(files) /\ Len(files) \in Nat
  BY DEF LoadInv, ReaderKnows, LoadBegin, IInv, TypeOK
<1>2. CASE dir.path = 0
  <2>1. Refuse(r)
    BY <1>2 DEF LoadBegin
  <2>2. Keeps(r) /\ readers'[r].pc = "refused"
    BY <1>1, <2>1, RefuseKeeps DEF Refuse, IdleReader
  <2>3. readers[r].mv \in BOOLEAN /\ readers[r].file = 0
    BY <1>1 DEF IdleReader
  <2>4. readers'[r].file = 0 /\ readers'[r].mv \in BOOLEAN /\ DOMAIN readers'[r] = Fields
    BY <2>2, <2>3 DEF Keeps
  <2>5. ReaderKnows(r)'
    BY <1>1, <2>2, <2>4 DEF ReaderKnows
  <2> QED BY <2>2, <2>5, ReaderMoves DEF Keeps
<1>3. CASE dir.path # 0
  <2> DEFINE new == [IdleReader EXCEPT !.pc = "head", !.file = dir.path, !.mv = mv]
  <2>1. Goes(r, new)
    BY <1>3 DEF LoadBegin
  <2>2. readers'[r] = new /\ DOMAIN readers' = Readers
        /\ \A q \in Readers : q # r => readers'[q] = readers[q]
    <3> HIDE DEF new
    <3> QED BY <1>1, <2>1 DEF Goes
  <2>3. /\ DOMAIN new = Fields /\ new.mv = mv /\ new.file = dir.path /\ new.pc = "head"
        /\ new.pos = 0 /\ new.out = <<>>
    BY DEF IdleReader, Fields
  <2>4. PICK to : to = new
    OBVIOUS
  <2> HIDE DEF new
  <2>5. /\ readers'[r] = to /\ DOMAIN to = Fields /\ to.mv = mv /\ to.file = dir.path
        /\ to.pc = "head" /\ to.pos = 0 /\ to.out = <<>>
    BY <2>2, <2>3, <2>4
  <2>6. ASSUME to.file \notin torn \cup {0}
        PROVE  /\ Settled(to.file)
               /\ \E b \in Bundles : /\ Content(holds[to.file], files[to.file], b)
                                     /\ Follows(to, files[to.file], b)
    <3>1. Settled(to.file)
      BY <2>5, <2>6 DEF LoadInv
    <3>2. PICK b \in Bundles : Content(holds[to.file], files[to.file], b)
      BY <3>1 DEF Settled
    <3>3. Len(files[to.file]) \in Nat
      BY <2>6, <3>1 DEF LoadInv, IInv, TypeOK, Settled
    <3>4. Follows(to, files[to.file], b)
      BY <2>5, <3>3 DEF Follows, FollowsHead
    <3> QED BY <3>1, <3>2, <3>4
  <2>7. Active' = Active /\ files' = files /\ holds' = holds /\ torn' = torn /\ dir' = dir
        /\ savers' = savers
    BY DEF Active
  <2>8. ReaderKnows(r)'
    BY <1>1, <1>3, <2>5, <2>6, <2>7 DEF ReaderKnows, Settled
  <2> QED BY <2>2, <2>8, ReaderMoves
<1> QED BY <1>2, <1>3

\* A load that returns knows of no file.
LEMMA ReturnKeeps ==
    ASSUME LoadInv, NEW r \in Readers, LoadReturn(r),
           UNCHANGED <<files, dir, savers, holds, torn, begun>>
    PROVE  LoadInv'
<1>1. /\ readers'[r] = IdleReader /\ DOMAIN readers' = Readers
      /\ \A q \in Readers : q # r => readers'[q] = readers[q]
  BY DEF LoadInv, LoadReturn, Goes
<1>2. /\ DOMAIN IdleReader = Fields /\ IdleReader.mv \in BOOLEAN /\ IdleReader.file = 0
      /\ IdleReader.pc = "idle"
  BY DEF IdleReader, Fields
<1>3. Len(files') \in Nat
  BY DEF LoadInv, IInv, TypeOK
<1> HIDE DEF IdleReader
<1>4. ReaderKnows(r)'
  BY <1>1, <1>2, <1>3 DEF ReaderKnows
<1> QED BY <1>1, <1>4, ReaderMoves

\* A phase of a load goes on following the bundle its file has to do with.
LEMMA PhaseKeepsLoads ==
    ASSUME LoadInv, NEW r \in Readers,
           ReadHead(r) \/ ReadStage(r) \/ ReadCamera(r) \/ ReadGlobal(r) \/ ReadMap(r)
           \/ EndView(r) \/ LoadEnd(r),
           UNCHANGED <<files, dir, savers, holds, torn, begun>>
    PROVE  LoadInv'
<1>1. DOMAIN readers = Readers /\ ReaderKnows(r) /\ TypeOK
  BY DEF LoadInv, IInv
<1>2. /\ DOMAIN readers[r] = Fields /\ readers[r].mv \in BOOLEAN
      /\ readers[r].file \in 0..Len(files)
      /\ (readers[r].file = 0 => readers[r].pc \in {"idle", "refused"})
  BY <1>1 DEF ReaderKnows
<1>3. Keeps(r) /\ readers[r].pc \notin {"idle", "loaded", "refused"}
  BY <1>1, <1>2, PhaseKeeps
<1>4. PICK f : f = readers[r].file
  OBVIOUS
<1>5. PICK to : to = readers'[r]
  OBVIOUS
<1>6. /\ DOMAIN to = Fields /\ to.pc # "idle" /\ to.mv \in BOOLEAN /\ to.file = f
      /\ f \in 1..Len(files)
  <2>1. f # 0
    BY <1>2, <1>3, <1>4
  <2>2. f \in 0..Len(files) /\ Len(files) \in Nat
    BY <1>1, <1>2, <1>4 DEF TypeOK
  <2> QED BY <1>2, <1>3, <1>4, <1>5, <2>1, <2>2 DEF Keeps
<1>7. ASSUME f \notin torn
      PROVE  /\ Settled(f)
             /\ \E b \in Bundles : Content(holds[f], files[f], b) /\ Follows(to, files[f], b)
  <2>1. Settled(f) /\ \E b \in Bundles : /\ Content(holds[f], files[f], b)
                                        /\ Follows(readers[r], files[f], b)
    BY <1>1, <1>4, <1>6, <1>7 DEF ReaderKnows
  <2>2. PICK b \in Bundles : /\ Content(holds[f], files[f], b)
                             /\ Follows(readers[r], files[f], b)
    BY <2>1
  <2>3. files[f] \in Seq(AllWords)
    BY <1>1, <1>6 DEF TypeOK
  <2>4. Agrees(files[f], b) /\ Good(b)
    BY <2>2, <2>3, ContentAgrees DEF Content
  <2>5. Words(r) = files[f]
    BY <1>4 DEF Words
  <2>6. Reads(r, b)
    BY <1>1, <1>2, <2>2, <2>4, <2>5 DEF Reads
  <2>7. Follows(to, files[f], b)
    BY <1>5, <2>5, <2>6, LoadFollows
  <2> QED BY <2>1, <2>2, <2>7
<1>8. Active' = Active /\ files' = files /\ holds' = holds /\ torn' = torn /\ dir' = dir
      /\ savers' = savers
  BY DEF Active
<1>9. ReaderKnows(r)'
  BY <1>5, <1>6, <1>7, <1>8 DEF ReaderKnows, Settled
<1> QED BY <1>3, <1>9, ReaderMoves DEF Keeps

\* So readers are always right about the file they read.
LEMMA LoadInvAlways == Spec => []LoadInv
<1>1. Init => LoadInv
  <2> SUFFICES ASSUME Init PROVE LoadInv
    OBVIOUS
  <2>1. IInv /\ Active = {}
    BY InitIInv DEF Init, Active, IdleSaver
  <2>2. DOMAIN readers = Readers /\ \A r \in Readers : readers[r] = IdleReader
    BY DEF Init
  <2>3. /\ DOMAIN IdleReader = Fields /\ IdleReader.mv \in BOOLEAN /\ IdleReader.file = 0
        /\ IdleReader.pc = "idle"
    BY DEF IdleReader, Fields
  <2>4. Len(files) \in Nat /\ dir.path = 0
    BY DEF Init
  <2> HIDE DEF IdleReader
  <2>5. \A r \in Readers : ReaderKnows(r)
    BY <2>2, <2>3, <2>4 DEF ReaderKnows
  <2> QED BY <2>1, <2>2, <2>4, <2>5 DEF LoadInv
<1>2. LoadInv /\ [Next]_vars => LoadInv'
  <2> SUFFICES ASSUME LoadInv, [Next]_vars PROVE LoadInv'
    OBVIOUS
  <2>1. ASSUME NEW s \in Savers, Save(s) PROVE LoadInv'
    <3>1. ASSUME NEW b \in Bundles, SaveBegin(s, b) PROVE LoadInv'
      BY <3>1, BeginKeepsLoads
    <3>2. CASE WriteBlock(s)
      BY <3>2, WriteKeepsLoads
    <3>3. CASE SaveFails(s)
      BY <3>3, StopKeepsLoads DEF SaveFails
    <3>4. CASE FlushAndClose(s)
      BY <3>4, CloseKeepsLoads
    <3>5. CASE Rename(s)
      BY <3>5, RenameKeepsLoads
    <3>6. CASE RenameFails(s)
      BY <3>6, StopKeepsLoads DEF RenameFails
    <3>7. CASE Crash(s)
      BY <3>7, StopKeepsLoads DEF Crash
    <3> QED BY <2>1, <3>1, <3>2, <3>3, <3>4, <3>5, <3>6, <3>7 DEF Save
  <2>2. ASSUME NEW r \in Readers, Load(r) PROVE LoadInv'
    <3>1. UNCHANGED <<files, dir, savers, holds, torn, begun>>
      BY <2>2 DEF Load
    <3>2. ASSUME NEW mv \in BOOLEAN, LoadBegin(r, mv) PROVE LoadInv'
      BY <3>1, <3>2, BeginLoadKeeps
    <3>3. CASE LoadReturn(r)
      BY <3>1, <3>3, ReturnKeeps
    <3>4. CASE ReadHead(r) \/ ReadStage(r) \/ ReadCamera(r) \/ ReadGlobal(r) \/ ReadMap(r)
               \/ EndView(r) \/ LoadEnd(r)
      BY <3>1, <3>4, PhaseKeepsLoads
    <3> QED BY <2>2, <3>2, <3>3, <3>4 DEF Load
  <2>3. CASE Damage
    BY <2>3, DamageKeepsLoads
  <2>4. CASE UNCHANGED vars
    <3>1. UNCHANGED <<files, dir, savers, holds, torn, begun>> /\ readers' = readers
      BY <2>4 DEF vars
    <3>2. IInv'
      BY <3>1 DEF LoadInv, IInv, TypeOK, Active, SaverKnows, PublishedIsWhole
    <3> QED BY <3>1, <3>2 DEF LoadInv, SaverChecked, Settled, ReaderKnows, Active
  <2> QED BY <2>1, <2>2, <2>3, <2>4 DEF Next
<1> QED BY <1>1, <1>2, PTL DEF Spec

\* Whatever is saved over the path while it is read, and whatever copies of it
\* are cut off or grow: a load either hands out the very bundle its file was
\* published for or refuses, and refuses a published one only when it is of
\* the other format.
THEOREM WhatWasSavedLoads == Spec => []LoadsAsSaved
<1>1. LoadInv => LoadsAsSaved
  <2> SUFFICES ASSUME LoadInv, NEW r \in Readers, readers[r].file \notin torn,
                      readers[r].pc \in {"loaded", "refused"}
               PROVE  /\ readers[r].pc = "loaded" => readers[r].out = holds[readers[r].file]
                      /\ readers[r].pc = "refused" /\ readers[r].file # 0
                            /\ holds[readers[r].file] # NoBundle
                            => readers[r].mv # holds[readers[r].file].mv
    BY DEF LoadsAsSaved, LoadedIsWhole, SavedIsLoadable
  <2> DEFINE f == readers[r].file
  <2>1. ReaderKnows(r) /\ TypeOK
    BY DEF LoadInv, IInv
  <2>2. SUFFICES ASSUME f # 0
                 PROVE  /\ readers[r].pc = "loaded" => readers[r].out = holds[f]
                        /\ readers[r].pc = "refused" /\ holds[f] # NoBundle
                              => readers[r].mv # holds[f].mv
    BY <2>1 DEF ReaderKnows
  <2>3. f \in 1..Len(files) /\ files[f] \in Seq(AllWords)
    BY <2>1, <2>2 DEF ReaderKnows, TypeOK
  <2>4. PICK b \in Bundles : Content(holds[f], files[f], b) /\ Follows(readers[r], files[f], b)
    BY <2>1, <2>2 DEF ReaderKnows
  <2> HIDE DEF f
  <2>5. /\ holds[f] = b <=> files[f] = Image[b]
        /\ holds[f] \in {b, NoBundle}
    BY <2>3, <2>4, ContentAgrees
  <2>6. /\ readers[r].pc = "loaded" => readers[r].out = b /\ files[f] = Image[b]
        /\ readers[r].pc = "refused" => (files[f] = Image[b] => readers[r].mv # b.mv)
    BY <2>4 DEF Follows, FollowsHead, FollowsStage, FollowsCamera, FollowsView, FollowsMap,
                FollowsEnd
  <2> QED BY <2>5, <2>6
<1> QED BY <1>1, LoadInvAlways, PTL
=============================================================================
