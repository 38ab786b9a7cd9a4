-------------------------- MODULE MeshExportProofs --------------------------
(***************************************************************************)
(* What MeshExport promises, for any decoded meshes and limits.  The flood *)
(* of clean_mesh finds one winding for every patch that has one, and what  *)
(* is done to the faces up to the decimation keeps it; and the caller of   *)
(* xatlas never takes away what an abandoned charting thread works on.     *)
(***************************************************************************)
EXTENDS MeshExport, TLAPS, FiniteSetTheorems, WellFoundedInduction

(* Every non-empty set of numbers has a least element.                     *)
LEMMA LeastNumber ==
  ASSUME NEW S \in SUBSET Nat, S # {}
  PROVE  \E m \in S : \A d \in S : m <= d
<1>1. PICK m \in S : \A d \in S : <<d, m>> \notin OpToRel(<, Nat)
  BY NatLessThanWellFounded, WFMin
<1>2. \A d \in S : ~(d < m)
  BY <1>1 DEF OpToRel
<1> QED
  BY <1>2

(* Faces as the decimation takes them: three different vertices.           *)
Triangles == {t \in [1..3 -> Nat] : Proper(t)}

-----------------------------------------------------------------------------
(* Edges of triangles.                                                     *)

LEMMA SidesAre ==
  ASSUME NEW t
  PROVE  Sides(t) = {<<t[1], t[2]>>, <<t[2], t[3]>>, <<t[3], t[1]>>}
<1>1. After(1) = 2 /\ After(2) = 3 /\ After(3) = 1
  BY DEF After
<1>2. /\ DOMAIN Around(t) = 1..3
      /\ Around(t)[1] = <<t[1], t[2]>>
      /\ Around(t)[2] = <<t[2], t[3]>>
      /\ Around(t)[3] = <<t[3], t[1]>>
  BY <1>1 DEF Around
<1>3. Sides(t) = {Around(t)[j] : j \in 1..3}
  BY <1>2 DEF Sides, ToSet
<1> HIDE DEF Around
<1> QED
  BY <1>2, <1>3

(* Turning a triangle over turns its edges round.                          *)
LEMMA Opposite ==
  ASSUME NEW t \in Triangles, NEW e \in Nat \X Nat
  PROVE  /\ Flip(t) \in Triangles /\ Flip(Flip(t)) = t
         /\ e \in Sides(Flip(t)) <=> Back(e) \in Sides(t)
         /\ ~(e \in Sides(t) /\ Back(e) \in Sides(t))
         /\ Back(e) \in Nat \X Nat /\ Back(Back(e)) = e
<1>1. t \in [1..3 -> Nat] /\ t[1] # t[2] /\ t[2] # t[3] /\ t[1] # t[3]
  BY DEF Triangles, Proper
<1>2. Flip(t) \in Triangles /\ Flip(Flip(t)) = t
  BY <1>1 DEF Flip, Triangles, Proper
<1>3. PICK a \in Nat, b \in Nat : e = <<a, b>>
  OBVIOUS
<1>4. Back(e) = <<b, a>> /\ Back(Back(e)) = e
  BY <1>3 DEF Back
<1>5. Sides(t) = {<<t[1], t[2]>>, <<t[2], t[3]>>, <<t[3], t[1]>>}
  BY SidesAre
<1>6. Sides(Flip(t)) = {<<t[1], t[3]>>, <<t[3], t[2]>>, <<t[2], t[1]>>}
  BY SidesAre DEF Flip
<1> QED
  BY <1>1, <1>2, <1>3, <1>4, <1>5, <1>6

LEMMA SidesArePairs ==
  ASSUME NEW t \in Triangles
  PROVE  Sides(t) \subseteq Nat \X Nat
  BY SidesAre DEF Triangles

(* The same faces run along an edge whichever way they are wound.          *)
Turn(fs, T) == [f \in DOMAIN fs |-> IF f \in T THEN Flip(fs[f]) ELSE fs[f]]

LEMMA TurnType ==
  ASSUME NEW fs \in Seq(Triangles), NEW T
  PROVE  Turn(fs, T) \in Seq(Triangles) /\ DOMAIN Turn(fs, T) = DOMAIN fs
<1>1. \A f \in DOMAIN fs : fs[f] \in Triangles /\ Flip(fs[f]) \in Triangles
  <2>1. <<0, 0>> \in Nat \X Nat
    OBVIOUS
  <2> QED
    BY <2>1, Opposite
<1> QED
  BY <1>1 DEF Turn

LEMMA Turned ==
  ASSUME NEW fs \in Seq(Triangles), NEW T, NEW e \in Nat \X Nat
  PROVE  /\ Turn(fs, T) \in Seq(Triangles) /\ DOMAIN Turn(fs, T) = DOMAIN fs
         /\ \A f \in DOMAIN fs :
              e \in Sides(Turn(fs, T)[f]) <=> IF f \in T THEN Back(e) \in Sides(fs[f])
                                                        ELSE e \in Sides(fs[f])
         /\ Beside(Turn(fs, T), e) = Beside(fs, e)
         /\ Beside(fs, Back(e)) = Beside(fs, e)
<1>1. \A f \in DOMAIN fs : fs[f] \in Triangles /\ Flip(fs[f]) \in Triangles
  BY Opposite
<1>2. Turn(fs, T) \in Seq(Triangles) /\ DOMAIN Turn(fs, T) = DOMAIN fs
  BY <1>1 DEF Turn
<1>3. Back(e) \in Nat \X Nat /\ Back(Back(e)) = e
  BY DEF Back
<1>4. \A d \in Nat \X Nat : \A f \in DOMAIN fs :
        d \in Sides(Turn(fs, T)[f]) <=> IF f \in T THEN Back(d) \in Sides(fs[f])
                                                  ELSE d \in Sides(fs[f])
  BY <1>1, Opposite DEF Turn
<1>5. \A f \in DOMAIN fs : f \in Beside(Turn(fs, T), e) <=> f \in Beside(fs, e)
  BY <1>2, <1>3, <1>4 DEF Beside, Along
<1>6. Beside(Turn(fs, T), e) = Beside(fs, e)
  BY <1>2, <1>5 DEF Beside, Along
<1>7. Beside(fs, Back(e)) = Beside(fs, e)
  BY <1>3 DEF Beside, Along
<1> QED
  BY <1>2, <1>4, <1>6, <1>7

-----------------------------------------------------------------------------
(* Two faces that an edge joins, with no third one at that edge; and that  *)
(* they run along it in opposite directions once the faces of T are        *)
(* turned over.                                                            *)

Joined(fs, f, g, e) == f # g /\ e \in Sides(fs[f]) /\ Beside(fs, e) = {f, g}
Suits(fs, T, f, g, e) == e \in Sides(fs[g]) <=> ~(f \in T <=> g \in T)

LEMMA TwoBeside ==
  ASSUME NEW fs \in Seq(Triangles), NEW f \in DOMAIN fs, NEW e, f \in Beside(fs, e)
  PROVE  /\ Cardinality(Beside(fs, e)) = 2 <=>
              \E g \in DOMAIN fs : f # g /\ Beside(fs, e) = {f, g}
         /\ Cardinality(Beside(fs, e) \ {f}) = 1 <=>
              \E g \in DOMAIN fs : f # g /\ Beside(fs, e) = {f, g}
<1> DEFINE B == Beside(fs, e)
<1>1. DOMAIN fs = 1..Len(fs) /\ Len(fs) \in Nat
  OBVIOUS
<1>2. B \in SUBSET (1..Len(fs)) /\ f \in B
  BY <1>1 DEF Beside, Along
<1> HIDE DEF B
<1>3. IsFiniteSet(B)
  <2>1. IsFiniteSet(1..Len(fs))
    BY <1>1, FS_Interval
  <2> QED
    BY <1>2, <2>1, FS_Subset
<1>4. /\ IsFiniteSet(B \ {f}) /\ Cardinality(B \ {f}) = Cardinality(B) - 1
      /\ Cardinality(B) \in Nat
  BY <1>2, <1>3, FS_RemoveElement, FS_CardinalityType
<1>5. Cardinality(B \ {f}) = 1 <=> \E g : B \ {f} = {g}
  BY <1>4, FS_Singleton
<1>6. (\E g : B \ {f} = {g}) <=> \E g \in DOMAIN fs : f # g /\ B = {f, g}
  <2>1. ASSUME NEW g, B \ {f} = {g} PROVE g \in DOMAIN fs /\ f # g /\ B = {f, g}
    BY <2>1, <1>1, <1>2
  <2>2. ASSUME NEW g \in DOMAIN fs, f # g, B = {f, g} PROVE B \ {f} = {g}
    BY <2>2
  <2> QED
    BY <2>1, <2>2
<1>7. /\ Cardinality(B) = 2 <=> \E g \in DOMAIN fs : f # g /\ B = {f, g}
      /\ Cardinality(B \ {f}) = 1 <=> \E g \in DOMAIN fs : f # g /\ B = {f, g}
  <2>1. Cardinality(B) = 2 <=> Cardinality(B \ {f}) = 1
    BY <1>4
  <2> QED
    BY <2>1, <1>5, <1>6
<1> QED
  BY <1>7 DEF B

LEMMA AgreeMeans ==
  ASSUME NEW fs \in Seq(Triangles), NEW P \in SUBSET DOMAIN fs
  PROVE  Agree(fs, P) <=>
           \A f \in P, g \in DOMAIN fs, e \in Nat \X Nat :
              Joined(fs, f, g, e) => e \notin Sides(fs[g])
<1>1. \A f \in P : /\ f \in DOMAIN fs /\ fs[f] \in Triangles
                    /\ \A e \in Sides(fs[f]) : e \in Nat \X Nat /\ f \in Along(fs, e)
                                                             /\ f \in Beside(fs, e)
  BY SidesArePairs DEF Along, Beside
<1>2. ASSUME NEW f \in P, NEW g \in DOMAIN fs, NEW e \in Sides(fs[f]), Joined(fs, f, g, e)
      PROVE  Cardinality(Along(fs, e)) = 1 <=> e \notin Sides(fs[g])
  <2>1. Along(fs, e) \subseteq {f, g} /\ f \in Along(fs, e) /\ f # g
        /\ (g \in Along(fs, e) <=> e \in Sides(fs[g]))
    BY <1>1, <1>2 DEF Joined, Beside, Along
  <2>2. CASE e \notin Sides(fs[g])
    <3>1. Along(fs, e) = {f}
      BY <2>1, <2>2
    <3> QED
      BY <3>1, <2>2, FS_Singleton
  <2>3. CASE e \in Sides(fs[g])
    <3>1. Along(fs, e) = {f, g}
      BY <2>1, <2>3
    <3>2. IsFiniteSet(Along(fs, e))
      <4>1. Along(fs, e) \subseteq 1..Len(fs) /\ IsFiniteSet(1..Len(fs))
        BY FS_Interval DEF Along
      <4> QED
        BY <4>1, FS_Subset
    <3>3. \A x : Along(fs, e) # {x}
      BY <2>1, <3>1
    <3>4. Cardinality(Along(fs, e)) # 1
      BY <3>2, <3>3, FS_Singleton
    <3> QED
      BY <3>4, <2>3
  <2> QED
    BY <2>2, <2>3
<1>3. ASSUME NEW f \in P, NEW e \in Sides(fs[f])
      PROVE  Cardinality(Beside(fs, e)) = 2 <=> \E g \in DOMAIN fs : Joined(fs, f, g, e)
  <2>1. f \in DOMAIN fs /\ f \in Beside(fs, e)
    BY <1>1
  <2>2. Cardinality(Beside(fs, e)) = 2 <=> \E g \in DOMAIN fs : f # g /\ Beside(fs, e) = {f, g}
    BY <2>1, TwoBeside
  <2> QED
    BY <2>2 DEF Joined
<1> QED
  BY <1>1, <1>2, <1>3 DEF Agree, Joined

(* What an edge joins after faces were turned over, and how U suits it.    *)
Over(F, f, e) == IF f \in F THEN Back(e) ELSE e
Both(fs, U, F) == {h \in DOMAIN fs : ~(h \in U <=> h \in F)}

LEMMA JoinedTurned ==
  ASSUME NEW fs \in Seq(Triangles), NEW F, NEW U,
         NEW f \in DOMAIN fs, NEW g \in DOMAIN fs, NEW e \in Nat \X Nat
  PROVE  /\ Over(F, f, e) \in Nat \X Nat /\ Over(F, f, Over(F, f, e)) = e
         /\ Joined(fs, f, g, e) <=> Joined(Turn(fs, F), f, g, Over(F, f, e))
         /\ Joined(fs, f, g, e) =>
              (Suits(Turn(fs, F), U, f, g, Over(F, f, e)) <=> Suits(fs, Both(fs, U, F), f, g, e))
<1> DEFINE ts == Turn(fs, F)
<1>1. Back(e) \in Nat \X Nat /\ Back(Back(e)) = e
  BY DEF Back
<1>2. /\ \A h \in DOMAIN fs :
           /\ e \in Sides(ts[h]) <=> IF h \in F THEN Back(e) \in Sides(fs[h])
                                               ELSE e \in Sides(fs[h])
           /\ Back(e) \in Sides(ts[h]) <=> IF h \in F THEN e \in Sides(fs[h])
                                                     ELSE Back(e) \in Sides(fs[h])
      /\ Beside(ts, e) = Beside(fs, e) /\ Beside(ts, Back(e)) = Beside(fs, e)
  <2>1. \A d \in Nat \X Nat :
          /\ \A h \in DOMAIN fs :
               d \in Sides(ts[h]) <=> IF h \in F THEN Back(d) \in Sides(fs[h])
                                                 ELSE d \in Sides(fs[h])
          /\ Beside(ts, d) = Beside(fs, d) /\ Beside(fs, Back(d)) = Beside(fs, d)
    <3> TAKE d \in Nat \X Nat
    <3>1. \A h \in DOMAIN fs :
             d \in Sides(ts[h]) <=> IF h \in F THEN Back(d) \in Sides(fs[h])
                                               ELSE d \in Sides(fs[h])
      BY Turned
    <3>2. Beside(ts, d) = Beside(fs, d)
      BY Turned
    <3>3. Beside(fs, Back(d)) = Beside(fs, d)
      BY Turned
    <3> QED
      BY <3>1, <3>2, <3>3
  <2> HIDE DEF ts
  <2> QED
    BY <2>1, <1>1
<1>3. fs[f] \in Triangles /\ fs[g] \in Triangles
  OBVIOUS
<1>4. ~(e \in Sides(fs[g]) /\ Back(e) \in Sides(fs[g]))
  BY <1>3, Opposite
<1>5. g \in Beside(fs, e) => e \in Sides(fs[g]) \/ Back(e) \in Sides(fs[g])
  BY DEF Beside, Along
<1> HIDE DEF ts
<1>6. Over(F, f, e) \in Nat \X Nat /\ Over(F, f, Over(F, f, e)) = e
  BY <1>1 DEF Over
<1>7. Joined(fs, f, g, e) <=> Joined(ts, f, g, Over(F, f, e))
  BY <1>1, <1>2, <1>3 DEF Joined, Over
<1>8. Joined(fs, f, g, e) => (Suits(ts, U, f, g, Over(F, f, e)) <=> Suits(fs, Both(fs, U, F), f, g, e))
  BY <1>1, <1>2, <1>4, <1>5 DEF Joined, Suits, Over, Both
<1> QED
  BY <1>6, <1>7, <1>8 DEF ts

(* A patch that joined faces do not leave, and the faces T of it that are  *)
(* to be turned over so that it is wound one way.                          *)
Closed(fs, P) == \A f \in P, g \in DOMAIN fs, e \in Nat \X Nat : Joined(fs, f, g, e) => g \in P
Wound(fs, P, T) ==
    /\ P \in SUBSET DOMAIN fs /\ Closed(fs, P)
    /\ \A f \in P, g \in DOMAIN fs, e \in Nat \X Nat : Joined(fs, f, g, e) => Suits(fs, T, f, g, e)
Consistent(fs) == \A P, T \in SUBSET DOMAIN fs : Wound(fs, P, T) => Wound(fs, P, {})

LEMMA WoundTurned ==
  ASSUME NEW fs \in Seq(Triangles), NEW F, NEW U, NEW P \in SUBSET DOMAIN fs
  PROVE  Wound(Turn(fs, F), P, U) <=>
           Wound(fs, P, Both(fs, U, F))
<1> DEFINE ts == Turn(fs, F)
<1>1. \A f, g \in DOMAIN fs : \A e \in Nat \X Nat :
        /\ Over(F, f, e) \in Nat \X Nat /\ Over(F, f, Over(F, f, e)) = e
        /\ Joined(fs, f, g, e) <=> Joined(ts, f, g, Over(F, f, e))
        /\ Joined(fs, f, g, e) =>
             (Suits(ts, U, f, g, Over(F, f, e)) <=> Suits(fs, Both(fs, U, F), f, g, e))
  <2> TAKE f, g \in DOMAIN fs
  <2> TAKE e \in Nat \X Nat
  <2>1. Over(F, f, e) \in Nat \X Nat
    BY JoinedTurned
  <2>2. Over(F, f, Over(F, f, e)) = e
    BY DEF Over, Back
  <2>3. Joined(fs, f, g, e) <=> Joined(ts, f, g, Over(F, f, e))
    BY JoinedTurned
  <2>4. Joined(fs, f, g, e) =>
          (Suits(ts, U, f, g, Over(F, f, e)) <=> Suits(fs, Both(fs, U, F), f, g, e))
    BY JoinedTurned
  <2> QED
    BY <2>1, <2>2, <2>3, <2>4
<1>2. DOMAIN ts = DOMAIN fs
  BY DEF Turn
<1> HIDE DEF ts
<1>3. Closed(ts, P) <=> Closed(fs, P)
  BY <1>1, <1>2 DEF Closed
<1>4. (\A f \in P, g \in DOMAIN ts, e \in Nat \X Nat : Joined(ts, f, g, e) => Suits(ts, U, f, g, e))
      <=> (\A f \in P, g \in DOMAIN fs, e \in Nat \X Nat :
              Joined(fs, f, g, e) => Suits(fs, Both(fs, U, F), f, g, e))
  BY <1>1, <1>2
<1>5. Wound(ts, P, U) <=> Wound(fs, P, Both(fs, U, F))
  BY <1>2, <1>3, <1>4 DEF Wound
<1> QED
  BY <1>5 DEF ts

(* The clause of ReadyToSimplify, by joined faces.                         *)
LEMMA ReadyMeans ==
  ASSUME NEW fs \in Seq(Triangles), Consistent(fs)
  PROVE  \A patch \in SUBSET DOMAIN fs :
           /\ \A f \in patch : \A e \in Sides(fs[f]) :
                 Cardinality(Beside(fs, e)) = 2 => Beside(fs, e) \subseteq patch
           /\ \E turned \in SUBSET patch : Agree(Turn(fs, turned), patch)
           => Agree(fs, patch)
<1> SUFFICES ASSUME NEW P \in SUBSET DOMAIN fs, NEW T \in SUBSET P,
                    \A f \in P : \A e \in Sides(fs[f]) :
                       Cardinality(Beside(fs, e)) = 2 => Beside(fs, e) \subseteq P,
                    Agree(Turn(fs, T), P)
             PROVE  Agree(fs, P)
  OBVIOUS
<1>1. \A U : (\A f \in P, g \in DOMAIN fs, e \in Nat \X Nat : Joined(fs, f, g, e) => Suits(fs, U, f, g, e))
             <=> Agree(Turn(fs, U), P)
  <2> TAKE U
  <2> DEFINE ts == Turn(fs, U)
  <2>1. \A f, g \in DOMAIN fs : \A e \in Nat \X Nat :
          /\ Over(U, f, e) \in Nat \X Nat /\ Over(U, f, Over(U, f, e)) = e
          /\ Joined(fs, f, g, e) <=> Joined(ts, f, g, Over(U, f, e))
          /\ Joined(fs, f, g, e) =>
               (Over(U, f, e) \notin Sides(ts[g]) <=> Suits(fs, U, f, g, e))
    <3> TAKE f, g \in DOMAIN fs
    <3> TAKE e \in Nat \X Nat
    <3>1. Over(U, f, e) \in Nat \X Nat
      BY JoinedTurned
    <3>2. Over(U, f, Over(U, f, e)) = e
      BY DEF Over, Back
    <3>3. Joined(fs, f, g, e) <=> Joined(ts, f, g, Over(U, f, e))
      BY JoinedTurned
    <3>4. Joined(fs, f, g, e) =>
            (Suits(ts, {}, f, g, Over(U, f, e)) <=>
               Suits(fs, Both(fs, {}, U), f, g, e))
      BY JoinedTurned
    <3> HIDE DEF ts
    <3>5. Suits(ts, {}, f, g, Over(U, f, e)) <=> Over(U, f, e) \notin Sides(ts[g])
      BY DEF Suits
    <3>6. Suits(fs, Both(fs, {}, U), f, g, e) <=> Suits(fs, U, f, g, e)
      BY DEF Suits, Both
    <3> QED
      BY <3>1, <3>2, <3>3, <3>4, <3>5, <3>6
  <2>2. ts \in Seq(Triangles) /\ DOMAIN ts = DOMAIN fs
    BY TurnType
  <2> HIDE DEF ts
  <2>3. Agree(ts, P) <=> \A f \in P, g \in DOMAIN fs, e \in Nat \X Nat :
                            Joined(ts, f, g, e) => e \notin Sides(ts[g])
    BY <2>2, AgreeMeans
  <2>4. (\A f \in P, g \in DOMAIN fs, e \in Nat \X Nat : Joined(fs, f, g, e) => Suits(fs, U, f, g, e))
        <=> Agree(ts, P)
    BY <2>1, <2>3
  <2> QED
    BY <2>4 DEF ts
<1>2. Closed(fs, P)
  <2> SUFFICES ASSUME NEW f \in P, NEW g \in DOMAIN fs, NEW e \in Nat \X Nat, Joined(fs, f, g, e)
               PROVE  g \in P
    BY DEF Closed
  <2>1. f \in DOMAIN fs /\ f \in Beside(fs, e) /\ f # g /\ Beside(fs, e) = {f, g} /\ e \in Sides(fs[f])
    BY DEF Joined
  <2>2. Cardinality(Beside(fs, e)) = 2 <=> \E h \in DOMAIN fs : f # h /\ Beside(fs, e) = {f, h}
    BY <2>1, TwoBeside
  <2> QED
    BY <2>1, <2>2
<1>3. Wound(fs, P, T) /\ T \in SUBSET DOMAIN fs
  BY <1>1, <1>2 DEF Wound
<1>4. Wound(fs, P, {})
  BY <1>3 DEF Consistent
<1>5. \A f \in P, g \in DOMAIN fs, e \in Nat \X Nat : Joined(fs, f, g, e) => e \notin Sides(fs[g])
  BY <1>4 DEF Wound, Suits
<1> QED
  BY <1>5, AgreeMeans

-----------------------------------------------------------------------------
(* The flood.  Visited faces that are off the stack have no neighbour that *)
(* is not; the patches before the present one are done, and in the present *)
(* one the faces to be turned are those of any good choice, or the others. *)

Done(fs, vis, stack) ==
    \A f \in vis \ ToSet(stack), g \in DOMAIN fs, e \in Nat \X Nat : Joined(fs, f, g, e) => g \in vis
Like(fs, vis, flip) ==
    \A P, T \in SUBSET DOMAIN fs : Wound(fs, P, T) => \A f, g \in vis :
        /\ f \in P <=> g \in P
        /\ f \in P => ((f \in T <=> f \in flip) <=> (g \in T <=> g \in flip))
Turns(fs, vis, flip) ==
    \A P, T \in SUBSET DOMAIN fs : Wound(fs, P, T) =>
        \A f \in P \cap vis, g \in DOMAIN fs, e \in Nat \X Nat :
            Joined(fs, f, g, e) => Suits(fs, flip, f, g, e)
Patch(fs, old, s) ==
    /\ old \in SUBSET s.vis /\ Closed(fs, old) /\ \A i \in DOMAIN s.stack : s.stack[i] \notin old
    /\ Turns(fs, old, s.flip)
    /\ Like(fs, s.vis \ old, s.flip)
FloodType(fs, s) ==
    /\ s \in [vis : SUBSET DOMAIN fs, flip : SUBSET DOMAIN fs, stack : Seq(DOMAIN fs)]
    /\ s.flip \subseteq s.vis /\ ToSet(s.stack) \subseteq s.vis
FloodInv(fs, s) ==
    /\ FloodType(fs, s)
    /\ Done(fs, s.vis, s.stack)
    /\ \E old \in SUBSET s.vis : Patch(fs, old, s)

LEMMA JoinedBack ==
  ASSUME NEW fs \in Seq(Triangles), NEW f \in DOMAIN fs, NEW g, NEW e \in Nat \X Nat,
         Joined(fs, f, g, e)
  PROVE  /\ g \in DOMAIN fs
         /\ \E d \in Nat \X Nat : Joined(fs, g, f, d)
         /\ (e \in Sides(fs[g])) # (Back(e) \in Sides(fs[g]))
<1>1. f # g /\ g \in Beside(fs, e) /\ Beside(fs, e) = {g, f}
  BY DEF Joined
<1>2. g \in DOMAIN fs /\ fs[g] \in Triangles /\ (e \in Sides(fs[g]) \/ Back(e) \in Sides(fs[g]))
  BY <1>1 DEF Beside, Along
<1>3. Beside(fs, Back(e)) = Beside(fs, e)
  BY Turned
<1>4. Back(e) \in Nat \X Nat /\ ~(e \in Sides(fs[g]) /\ Back(e) \in Sides(fs[g]))
  BY <1>2, Opposite
<1>5. Joined(fs, g, f, e) \/ Joined(fs, g, f, Back(e))
  BY <1>1, <1>2, <1>3 DEF Joined
<1> QED
  BY <1>2, <1>4, <1>5

(* One side of a face that the flood has taken from the stack.  What was   *)
(* true stays true, and the face beyond, if it is the only one, is visited.*)
Beyond(fs, f, s, e) == \A g \in DOMAIN fs : Joined(fs, f, g, e) => g \in s.vis
Taken(fs, f, s) ==
    /\ FloodType(fs, s) /\ f \in s.vis
    /\ \A h \in s.vis \ (ToSet(s.stack) \cup {f}), g \in DOMAIN fs, e \in Nat \X Nat :
          Joined(fs, h, g, e) => g \in s.vis
    /\ \E old \in SUBSET s.vis : f \notin old /\ Patch(fs, old, s)

LEMMA ExtendedStack ==
  ASSUME NEW S, NEW stack \in Seq(S), NEW g
  PROVE  /\ ToSet(Append(stack, g)) = ToSet(stack) \cup {g}
         /\ \A i \in DOMAIN Append(stack, g) : Append(stack, g)[i] \in ToSet(stack) \cup {g}
<1>1. /\ DOMAIN Append(stack, g) = 1..(Len(stack) + 1) /\ DOMAIN stack = 1..Len(stack)
      /\ Len(stack) \in Nat
      /\ \A i \in 1..Len(stack) : Append(stack, g)[i] = stack[i]
      /\ Append(stack, g)[Len(stack) + 1] = g
  OBVIOUS
<1>2. \A i \in DOMAIN Append(stack, g) : Append(stack, g)[i] \in ToSet(stack) \cup {g}
  <2> TAKE i \in DOMAIN Append(stack, g)
  <2>1. i = Len(stack) + 1 \/ i \in 1..Len(stack)
    BY <1>1
  <2> QED
    BY <2>1, <1>1 DEF ToSet
<1>3. \A x \in ToSet(stack) \cup {g} : \E i \in DOMAIN Append(stack, g) : Append(stack, g)[i] = x
  <2>1. \A i \in 1..Len(stack) : i \in DOMAIN Append(stack, g) /\ Append(stack, g)[i] = stack[i]
    BY <1>1
  <2>2. Len(stack) + 1 \in DOMAIN Append(stack, g)
    BY <1>1
  <2> QED
    BY <2>1, <2>2, <1>1 DEF ToSet
<1> QED
  BY <1>2, <1>3 DEF ToSet

LEMMA CrossedOver ==
  ASSUME faces \in Seq(Triangles), NEW f \in DOMAIN faces, NEW s, Taken(faces, f, s),
         NEW e \in Nat \X Nat, Over(s.flip, f, e) \in Sides(faces[f]),
         NEW g \in DOMAIN faces, f # g, Beside(faces, e) = {f, g}, g \notin s.vis,
         NEW t, t = [vis |-> s.vis \cup {g},
                     flip |-> s.flip \cup (IF e \in Sides(faces[g]) THEN {g} ELSE {}),
                     stack |-> Append(s.stack, g)]
  PROVE  Taken(faces, f, t)
<1> DEFINE e0 == Over(s.flip, f, e)
<1>1. /\ e0 \in Nat \X Nat /\ Joined(faces, f, g, e0)
      /\ e0 = IF f \in s.flip THEN Back(e) ELSE e
  <2>1. Beside(faces, Back(e)) = Beside(faces, e) /\ Back(e) \in Nat \X Nat
    BY Turned, Opposite DEF Back
  <2> QED
    BY <2>1 DEF Joined, Over
<1>2. /\ FloodType(faces, s) /\ f \in s.vis
      /\ s \in [vis : SUBSET DOMAIN faces, flip : SUBSET DOMAIN faces, stack : Seq(DOMAIN faces)]
      /\ s.flip \subseteq s.vis /\ ToSet(s.stack) \subseteq s.vis
  BY DEF Taken, FloodType
<1>3. /\ ToSet(t.stack) = ToSet(s.stack) \cup {g}
      /\ \A i \in DOMAIN t.stack : t.stack[i] \in ToSet(s.stack) \cup {g}
  <2>1. s.stack \in Seq(DOMAIN faces) /\ t.stack = Append(s.stack, g)
    BY <1>2
  <2> QED
    BY <2>1, ExtendedStack
<1>4. /\ FloodType(faces, t) /\ f \in t.vis
      /\ t.vis = s.vis \cup {g}
      /\ \A h \in s.vis : h \in t.flip <=> h \in s.flip
      /\ g \in t.flip <=> e \in Sides(faces[g])
  BY <1>2, <1>3 DEF FloodType
<1>5. \A h \in t.vis \ (ToSet(t.stack) \cup {f}), k \in DOMAIN faces, d \in Nat \X Nat :
        Joined(faces, h, k, d) => k \in t.vis
  BY <1>3, <1>4 DEF Taken
<1>6. PICK old \in SUBSET s.vis : f \notin old /\ Patch(faces, old, s)
  BY DEF Taken
<1>7. \A P, T \in SUBSET DOMAIN faces : Wound(faces, P, T) =>
         /\ f \in P <=> g \in P
         /\ f \in P => ((f \in T <=> f \in t.flip) <=> (g \in T <=> g \in t.flip))
  <2> SUFFICES ASSUME NEW P \in SUBSET DOMAIN faces, NEW T \in SUBSET DOMAIN faces,
                      Wound(faces, P, T)
               PROVE  /\ f \in P <=> g \in P
                      /\ f \in P => ((f \in T <=> f \in t.flip) <=> (g \in T <=> g \in t.flip))
    OBVIOUS
  <2>1. PICK d \in Nat \X Nat : Joined(faces, g, f, d)
    BY <1>1, JoinedBack
  <2>2. f \in P <=> g \in P
    BY <1>1, <2>1 DEF Wound, Closed
  <2>3. f \in P => (e0 \in Sides(faces[g]) <=> ~(f \in T <=> g \in T))
    BY <1>1 DEF Wound, Suits
  <2>4. (e \in Sides(faces[g])) # (Back(e) \in Sides(faces[g]))
    <3>1. (e0 \in Sides(faces[g])) # (Back(e0) \in Sides(faces[g]))
      BY <1>1, JoinedBack
    <3>2. Back(Back(e)) = e
      BY DEF Back
    <3> QED
      BY <1>1, <3>1, <3>2
  <2>5. e0 \in Sides(faces[g]) <=> ~(f \in t.flip <=> g \in t.flip)
    BY <1>1, <1>2, <1>4, <2>4
  <2> QED
    BY <2>2, <2>3, <2>5
<1>8. Patch(faces, old, t) /\ old \in SUBSET t.vis
  <2>1. /\ old \in SUBSET t.vis /\ Closed(faces, old) /\ g \notin old
        /\ \A i \in DOMAIN s.stack : s.stack[i] \notin old
    BY <1>4, <1>6 DEF Patch
  <2>2. \A i \in DOMAIN t.stack : t.stack[i] \notin old
    BY <1>3, <2>1 DEF ToSet
  <2>3. Turns(faces, old, t.flip)
    <3> SUFFICES ASSUME NEW P \in SUBSET DOMAIN faces, NEW T \in SUBSET DOMAIN faces,
                        Wound(faces, P, T), NEW h \in P \cap old, NEW k \in DOMAIN faces,
                        NEW d \in Nat \X Nat, Joined(faces, h, k, d)
                 PROVE  Suits(faces, t.flip, h, k, d)
      BY DEF Turns
    <3>1. h \in s.vis /\ k \in s.vis
      BY <2>1, <1>6 DEF Closed
    <3>2. Suits(faces, s.flip, h, k, d)
      BY <1>6 DEF Patch, Turns
    <3> QED
      BY <1>4, <3>1, <3>2 DEF Suits
  <2>4. Like(faces, t.vis \ old, t.flip)
    <3> SUFFICES ASSUME NEW P \in SUBSET DOMAIN faces, NEW T \in SUBSET DOMAIN faces,
                        Wound(faces, P, T)
                 PROVE  \A x, y \in t.vis \ old :
                          /\ x \in P <=> y \in P
                          /\ x \in P => ((x \in T <=> x \in t.flip) <=> (y \in T <=> y \in t.flip))
      BY DEF Like
    <3>1. \A x \in s.vis \ old :
             /\ x \in P <=> f \in P
             /\ x \in P => ((x \in T <=> x \in s.flip) <=> (f \in T <=> f \in s.flip))
      BY <1>2, <1>6 DEF Patch, Like
    <3>2. \A x \in t.vis \ old :
             /\ x \in P <=> f \in P
             /\ x \in P => ((x \in T <=> x \in t.flip) <=> (f \in T <=> f \in t.flip))
      <4> TAKE x \in t.vis \ old
      <4>1. CASE x = g
        BY <4>1, <1>7
      <4>2. CASE x # g
        <5>1. x \in s.vis \ old /\ (x \in t.flip <=> x \in s.flip) /\ (f \in t.flip <=> f \in s.flip)
          BY <4>2, <1>2, <1>4
        <5> QED
          BY <5>1, <3>1
      <4> QED
        BY <4>1, <4>2
    <3> QED
      BY <3>2
  <2> QED
    BY <2>1, <2>2, <2>3, <2>4 DEF Patch
<1> QED
  BY <1>4, <1>5, <1>6, <1>8 DEF Taken

LEMMA Crossed ==
  ASSUME faces \in Seq(Triangles), NEW f \in DOMAIN faces, NEW s, Taken(faces, f, s),
         NEW e \in Nat \X Nat, Over(s.flip, f, e) \in Sides(faces[f]),
         NEW t, t = Cross(f, s, e)
  PROVE  /\ Taken(faces, f, t)
         /\ f \in t.flip <=> f \in s.flip
         /\ s.vis \subseteq t.vis
         /\ Beyond(faces, f, t, e) /\ Beyond(faces, f, t, Back(e))
<1> DEFINE other == Beside(faces, e) \ {f}
           g == CHOOSE h \in other : TRUE
<1>1. Beside(faces, Back(e)) = Beside(faces, e) /\ f \in Beside(faces, e)
  <2>1. Beside(faces, Back(e)) = Beside(faces, e)
    BY Turned
  <2>2. Back(Back(e)) = e
    BY DEF Back
  <2> QED
    BY <2>1, <2>2 DEF Over, Beside, Along
<1>2. Cardinality(other) = 1 <=> \E h \in DOMAIN faces : f # h /\ Beside(faces, e) = {f, h}
  BY <1>1, TwoBeside
<1>3. \A h : Joined(faces, f, h, e) \/ Joined(faces, f, h, Back(e)) =>
              f # h /\ Beside(faces, e) = {f, h}
  BY <1>1 DEF Joined
<1>4. CASE Cardinality(other) # 1
  <2>1. t = s
    BY <1>4 DEF Cross
  <2> QED
    BY <2>1, <1>2, <1>3, <1>4 DEF Beyond
<1>5. CASE Cardinality(other) = 1
  <2>1. PICK h \in DOMAIN faces : f # h /\ Beside(faces, e) = {f, h}
    BY <1>2, <1>5
  <2>2. g = h
    <3>1. other = {h}
      BY <2>1
    <3> QED
      BY <3>1
  <2>3. \A k \in DOMAIN faces :
           Joined(faces, f, k, e) \/ Joined(faces, f, k, Back(e)) => k = h
    <3>1. \A k : f # k /\ {f, h} = {f, k} => k = h
      OBVIOUS
    <3> QED
      BY <1>3, <2>1, <3>1
  <2>4. CASE h \in s.vis
    <3>1. t = s
      BY <2>2, <2>4 DEF Cross
    <3> QED
      BY <3>1, <2>3, <2>4 DEF Beyond
  <2>5. CASE h \notin s.vis
    <3>1. t = [vis |-> s.vis \cup {h},
               flip |-> s.flip \cup (IF e \in Sides(faces[h]) THEN {h} ELSE {}),
               stack |-> Append(s.stack, h)]
      BY <1>5, <2>2, <2>5 DEF Cross
    <3>2. Taken(faces, f, t)
      BY <2>1, <2>5, <3>1, CrossedOver
    <3> QED
      BY <3>1, <3>2, <2>1, <2>3 DEF Beyond
  <2> QED
    BY <2>4, <2>5
<1> QED
  BY <1>4, <1>5

LEMMA SeedStep == ASSUME faces \in Seq(Triangles), FloodInv(faces, flood), Seed
                  PROVE  FloodInv(faces, flood')
<1> DEFINE left == DOMAIN faces \ flood.vis
           seed == CHOOSE f \in left : \A g \in left : f <= g
<1>1. seed \in left
  <2>1. left # {}
    BY DEF Seed, FloodInv, FloodType
  <2>2. left \in SUBSET Nat
    OBVIOUS
  <2>3. \E f \in left : \A g \in left : f <= g
    BY <2>1, <2>2, LeastNumber
  <2> QED
    BY <2>3
<1> HIDE DEF seed
<1>2. flood.stack = <<>> /\ flood' = [flood EXCEPT !.vis = @ \cup {seed}, !.stack = <<seed>>]
  BY DEF Seed, seed
<1>3. FloodType(faces, flood)
      /\ flood \in [vis : SUBSET DOMAIN faces, flip : SUBSET DOMAIN faces, stack : Seq(DOMAIN faces)]
      /\ flood.flip \subseteq flood.vis
  BY DEF FloodInv, FloodType
<1>4. /\ flood'.vis = flood.vis \cup {seed} /\ flood'.flip = flood.flip /\ flood'.stack = <<seed>>
      /\ ToSet(flood'.stack) = {seed}
      /\ flood' \in [vis : SUBSET DOMAIN faces, flip : SUBSET DOMAIN faces, stack : Seq(DOMAIN faces)]
  <2>1. <<seed>> \in Seq(DOMAIN faces) /\ ToSet(<<seed>>) = {seed}
    BY <1>1 DEF ToSet
  <2> QED
    BY <1>2, <1>3, <1>1, <2>1
<1>5. Closed(faces, flood.vis)
  <2>1. ToSet(flood.stack) = {}
    BY <1>2 DEF ToSet
  <2> QED
    BY <2>1 DEF FloodInv, Done, Closed
<1>6. Turns(faces, flood.vis, flood.flip)
  <2>1. PICK old \in SUBSET flood.vis : Patch(faces, old, flood)
    BY DEF FloodInv
  <2> SUFFICES ASSUME NEW P \in SUBSET DOMAIN faces, NEW T \in SUBSET DOMAIN faces,
                      Wound(faces, P, T), NEW f \in P \cap flood.vis, NEW g \in DOMAIN faces,
                      NEW e \in Nat \X Nat, Joined(faces, f, g, e)
               PROVE  Suits(faces, flood.flip, f, g, e)
    BY DEF Turns
  <2>2. CASE f \in old
    BY <2>1, <2>2 DEF Patch, Turns
  <2>3. CASE f \notin old
    <3>1. f \in DOMAIN faces
      BY <1>3
    <3>2. PICK d \in Nat \X Nat : Joined(faces, g, f, d)
      BY <3>1, JoinedBack
    <3>3. g \notin old /\ g \in flood.vis
      BY <2>1, <2>3, <3>1, <3>2, <1>5 DEF Patch, Closed
    <3>4. Suits(faces, T, f, g, e)
      BY DEF Wound
    <3>5. (f \in T <=> f \in flood.flip) <=> (g \in T <=> g \in flood.flip)
      BY <2>1, <2>3, <3>3 DEF Patch, Like
    <3> QED
      BY <3>4, <3>5 DEF Suits
  <2> QED
    BY <2>2, <2>3
<1>7. Patch(faces, flood.vis, flood') /\ flood.vis \in SUBSET flood'.vis
  <2>1. \A i \in DOMAIN flood'.stack : flood'.stack[i] \notin flood.vis
    BY <1>1, <1>4 DEF ToSet
  <2>2. flood'.vis \ flood.vis = {seed}
    BY <1>1, <1>4
  <2>3. Like(faces, flood'.vis \ flood.vis, flood'.flip)
    BY <2>2 DEF Like
  <2> QED
    BY <1>4, <1>5, <1>6, <2>1, <2>3 DEF Patch
<1>8. Done(faces, flood'.vis, flood'.stack)
  BY <1>4, <1>5 DEF Done, Closed
<1> QED
  BY <1>3, <1>4, <1>7, <1>8 DEF FloodInv, FloodType

(* Popping the last face of the stack.                                     *)
LEMMA Popped ==
  ASSUME NEW S, NEW stack \in Seq(S), stack # <<>>
  PROVE  /\ Last(stack) \in S /\ Last(stack) \in ToSet(stack) /\ Front(stack) \in Seq(S)
         /\ ToSet(stack) = ToSet(Front(stack)) \cup {Last(stack)}
         /\ \A i \in DOMAIN Front(stack) : \E k \in DOMAIN stack : stack[k] = Front(stack)[i]
<1>0. PICK n : n = Len(stack)
  OBVIOUS
<1>1. n \in Nat /\ n >= 1 /\ DOMAIN stack = 1..n /\ \A i \in 1..n : stack[i] \in S
  BY <1>0
<1>2. /\ Front(stack) \in Seq(S) /\ DOMAIN Front(stack) = 1..(n - 1)
      /\ \A i \in 1..(n - 1) : Front(stack)[i] = stack[i]
  BY <1>0, <1>1 DEF Front
<1>3. Last(stack) = stack[n] /\ n \in 1..n
  BY <1>0, <1>1 DEF Last
<1>4. \A x : x \in ToSet(stack) <=> x \in ToSet(Front(stack)) \cup {Last(stack)}
  <2>1. \A i \in 1..n : i = n \/ i \in 1..(n - 1)
    BY <1>1, SMT
  <2>2. \A i \in 1..(n - 1) : i \in 1..n
    BY <1>1, SMT
  <2> QED
    BY <1>1, <1>2, <1>3, <2>1, <2>2 DEF ToSet
<1> QED
  BY <1>1, <1>2, <1>3, <1>4 DEF ToSet

LEMMA FloodStep == ASSUME faces \in Seq(Triangles), FloodInv(faces, flood), Flood
                   PROVE  FloodInv(faces, flood')
<1> DEFINE f == Last(flood.stack)
           t == Corrected(f)
           s0 == [flood EXCEPT !.stack = Front(@)]
           s1 == Cross(f, s0, <<t[1], t[2]>>)
           s2 == Cross(f, s1, <<t[2], t[3]>>)
           s3 == Cross(f, s2, <<t[3], t[1]>>)
           Way(s, e) == e \in Nat \X Nat /\ Over(s.flip, f, e) \in Sides(faces[f])
<1>1. flood.stack # <<>> /\ flood' = s3
  <2>1. After(1) = 2 /\ After(2) = 3 /\ After(3) = 1
    BY DEF After
  <2>2. /\ Around(t)[1] = <<t[1], t[2]>> /\ Around(t)[2] = <<t[2], t[3]>>
        /\ Around(t)[3] = <<t[3], t[1]>>
    BY <2>1 DEF Around
  <2> QED
    BY <2>2 DEF Flood
<1>2. /\ flood \in [vis : SUBSET DOMAIN faces, flip : SUBSET DOMAIN faces, stack : Seq(DOMAIN faces)]
      /\ flood.flip \subseteq flood.vis /\ ToSet(flood.stack) \subseteq flood.vis
  BY DEF FloodInv, FloodType
<1>3. /\ f \in DOMAIN faces /\ f \in flood.vis /\ Front(flood.stack) \in Seq(DOMAIN faces)
      /\ ToSet(flood.stack) = ToSet(Front(flood.stack)) \cup {f}
      /\ \A i \in DOMAIN Front(flood.stack) :
            \E k \in DOMAIN flood.stack : flood.stack[k] = Front(flood.stack)[i]
  <2>1. flood.stack \in Seq(DOMAIN faces)
    BY <1>2
  <2> QED
    BY <2>1, <1>1, <1>2, Popped
<1>4. /\ t \in Triangles
      /\ Sides(t) = {<<t[1], t[2]>>, <<t[2], t[3]>>, <<t[3], t[1]>>}
      /\ \A e \in Nat \X Nat : Back(e) \in Nat \X Nat /\ Back(Back(e)) = e
      /\ \A e \in Nat \X Nat : e \in Sides(t) <=> Over(flood.flip, f, e) \in Sides(faces[f])
  <2>1. faces[f] \in Triangles
    BY <1>3
  <2>2. \A e \in Nat \X Nat : /\ Flip(faces[f]) \in Triangles
                              /\ e \in Sides(Flip(faces[f])) <=> Back(e) \in Sides(faces[f])
                              /\ Back(e) \in Nat \X Nat /\ Back(Back(e)) = e
    BY <2>1, Opposite
  <2>3. t = IF f \in flood.flip THEN Flip(faces[f]) ELSE faces[f]
    BY DEF Corrected
  <2>4. <<0, 0>> \in Nat \X Nat
    OBVIOUS
  <2>5. t \in Triangles
    BY <2>1, <2>2, <2>3, <2>4
  <2>6. \A e \in Nat \X Nat : e \in Sides(t) <=> Over(flood.flip, f, e) \in Sides(faces[f])
    BY <2>2, <2>3 DEF Over
  <2>7. Sides(t) = {<<t[1], t[2]>>, <<t[2], t[3]>>, <<t[3], t[1]>>}
    BY SidesAre
  <2> QED
    BY <2>2, <2>5, <2>6, <2>7
<1>5. /\ s0.vis = flood.vis /\ s0.flip = flood.flip /\ s0.stack = Front(flood.stack)
      /\ s0 \in [vis : SUBSET DOMAIN faces, flip : SUBSET DOMAIN faces, stack : Seq(DOMAIN faces)]
  BY <1>2, <1>3
<1>6. Taken(faces, f, s0)
  <2>1. FloodType(faces, s0) /\ f \in s0.vis
    BY <1>2, <1>3, <1>5 DEF FloodType
  <2>2. PICK old \in SUBSET flood.vis : Patch(faces, old, flood)
    BY DEF FloodInv
  <2>3. f \notin old
    BY <2>2, <1>3 DEF Patch, ToSet
  <2>4. Patch(faces, old, s0)
    BY <2>2, <1>3, <1>5 DEF Patch
  <2>5. \A h \in s0.vis \ (ToSet(s0.stack) \cup {f}), g \in DOMAIN faces, e \in Nat \X Nat :
          Joined(faces, h, g, e) => g \in s0.vis
    BY <1>3, <1>5 DEF FloodInv, Done
  <2> QED
    BY <2>1, <2>2, <2>3, <2>4, <2>5, <1>5 DEF Taken
<1>7. \A e \in Sides(t) : Way(s0, e)
  BY <1>4, <1>5, SidesArePairs
<1> HIDE DEF f, t, s0, s1, s2, s3
<1>8. ASSUME NEW s, NEW e \in Sides(t), Taken(faces, f, s), (f \in s.flip) <=> (f \in s0.flip)
      PROVE  LET c == Cross(f, s, e)
             IN  /\ Taken(faces, f, c) /\ ((f \in c.flip) <=> (f \in s0.flip))
                 /\ s.vis \subseteq c.vis
                 /\ Beyond(faces, f, c, e) /\ Beyond(faces, f, c, Back(e))
  <2>1. e \in Nat \X Nat /\ Over(s.flip, f, e) \in Sides(faces[f])
    BY <1>7, <1>8 DEF Over
  <2> QED
    BY <2>1, <1>3, <1>8, Crossed
<1>9. /\ Taken(faces, f, s1) /\ ((f \in s1.flip) <=> (f \in s0.flip))
      /\ Beyond(faces, f, s1, <<t[1], t[2]>>) /\ Beyond(faces, f, s1, Back(<<t[1], t[2]>>))
  BY <1>4, <1>6, <1>8 DEF s1
<1>10. /\ Taken(faces, f, s2) /\ ((f \in s2.flip) <=> (f \in s0.flip)) /\ s1.vis \subseteq s2.vis
       /\ Beyond(faces, f, s2, <<t[2], t[3]>>) /\ Beyond(faces, f, s2, Back(<<t[2], t[3]>>))
  BY <1>4, <1>9, <1>8 DEF s2
<1>11. /\ Taken(faces, f, s3) /\ s2.vis \subseteq s3.vis
       /\ Beyond(faces, f, s3, <<t[3], t[1]>>) /\ Beyond(faces, f, s3, Back(<<t[3], t[1]>>))
  BY <1>4, <1>10, <1>8 DEF s3
<1>12. \A e \in Sides(t) : Beyond(faces, f, s3, e) /\ Beyond(faces, f, s3, Back(e))
  BY <1>4, <1>9, <1>10, <1>11 DEF Beyond
<1>13. \A g \in DOMAIN faces, e \in Nat \X Nat : Joined(faces, f, g, e) => g \in s3.vis
  <2> SUFFICES ASSUME NEW g \in DOMAIN faces, NEW e \in Nat \X Nat, Joined(faces, f, g, e)
               PROVE  g \in s3.vis
    OBVIOUS
  <2>1. e \in Sides(faces[f])
    BY DEF Joined
  <2>2. e \in Sides(t) \/ Back(e) \in Sides(t)
    BY <1>4, <2>1 DEF Over
  <2>3. Back(Back(e)) = e
    BY <1>4
  <2> QED
    BY <1>12, <2>2, <2>3 DEF Beyond
<1>14. Done(faces, s3.vis, s3.stack)
  BY <1>11, <1>13 DEF Done, Taken
<1> QED
  BY <1>1, <1>11, <1>14 DEF FloodInv, Taken

(* When every face was visited, the faces turned over are wound alike      *)
(* wherever any choice does it.                                            *)
LEMMA FloodedStep == ASSUME faces \in Seq(Triangles), FloodInv(faces, flood), Flooded
                     PROVE  faces' \in Seq(Triangles) /\ Consistent(faces')
<1>1. /\ flood.stack = <<>> /\ flood.vis = DOMAIN faces /\ faces' = Turn(faces, flood.flip)
      /\ flood.flip \subseteq DOMAIN faces
  BY DEF Flooded, Turn, FloodInv, FloodType
<1>2. faces' \in Seq(Triangles) /\ DOMAIN faces' = DOMAIN faces
  BY <1>1, TurnType
<1>3. PICK old \in SUBSET DOMAIN faces : Patch(faces, old, flood)
  BY <1>1 DEF FloodInv
<1>4. ASSUME NEW P \in SUBSET DOMAIN faces, NEW T \in SUBSET DOMAIN faces, Wound(faces, P, T)
      PROVE  Wound(faces, P, flood.flip)
  <2> SUFFICES ASSUME NEW f \in P, NEW g \in DOMAIN faces, NEW e \in Nat \X Nat, Joined(faces, f, g, e)
               PROVE  Suits(faces, flood.flip, f, g, e)
    BY <1>4 DEF Wound
  <2>1. CASE f \in old
    BY <1>3, <1>4, <2>1 DEF Patch, Turns
  <2>2. CASE f \notin old
    <3>1. PICK d \in Nat \X Nat : Joined(faces, g, f, d)
      BY JoinedBack
    <3>2. g \notin old
      BY <1>3, <2>2, <3>1 DEF Patch, Closed
    <3>3. (f \in T <=> f \in flood.flip) <=> (g \in T <=> g \in flood.flip)
      BY <1>1, <1>3, <1>4, <2>2, <3>2 DEF Patch, Like
    <3>4. Suits(faces, T, f, g, e)
      BY <1>4 DEF Wound
    <3> QED
      BY <3>3, <3>4 DEF Suits
  <2> QED
    BY <2>1, <2>2
<1>5. ASSUME NEW P \in SUBSET DOMAIN faces, NEW U \in SUBSET DOMAIN faces, Wound(faces', P, U)
      PROVE  Wound(faces', P, {})
  <2>1. Wound(faces, P, Both(faces, U, flood.flip))
    BY <1>1, <1>5, WoundTurned
  <2>2. Wound(faces, P, flood.flip)
    <3>1. Both(faces, U, flood.flip) \in SUBSET DOMAIN faces
      BY DEF Both
    <3> QED
      BY <1>4, <2>1, <3>1
  <2>3. Both(faces, {}, flood.flip) = flood.flip
    BY <1>1 DEF Both
  <2> QED
    BY <1>1, <2>2, <2>3, WoundTurned
<1> QED
  BY <1>2, <1>5 DEF Consistent

-----------------------------------------------------------------------------
(* Choosing faces and numbering their vertices anew.                       *)

(* Ascending lists each member of a set once.                              *)
LEMMA Listed ==
  ASSUME NEW S \in SUBSET Nat, IsFiniteSet(S)
  PROVE  /\ Cardinality(S) \in Nat /\ DOMAIN Ascending(S) = 1..Cardinality(S)
         /\ \A k \in DOMAIN Ascending(S) : Ascending(S)[k] \in S
         /\ \A k, l \in DOMAIN Ascending(S) : Ascending(S)[k] = Ascending(S)[l] => k = l
         /\ \A i \in S : \E k \in DOMAIN Ascending(S) : Ascending(S)[k] = i
<1> DEFINE n == Cardinality(S)
           Low(i) == {j \in S : j < i}
           rank == [i \in S |-> Cardinality(Low(i)) + 1]
           asc == Ascending(S)
<1>1. n \in Nat
  BY FS_CardinalityType
<1>2. ASSUME NEW i \in S
      PROVE  IsFiniteSet(Low(i)) /\ Cardinality(Low(i)) \in Nat /\ Cardinality(Low(i)) + 1 <= n
  <2>1. Low(i) \in SUBSET S /\ i \notin Low(i)
    OBVIOUS
  <2> HIDE DEF Low
  <2>2. IsFiniteSet(Low(i)) /\ Cardinality(Low(i)) \in Nat
    BY <2>1, FS_Subset, FS_CardinalityType
  <2>3. Cardinality(Low(i) \cup {i}) = Cardinality(Low(i)) + 1
    BY <2>1, <2>2, FS_AddElement
  <2>4. Low(i) \cup {i} \in SUBSET S
    BY <2>1
  <2>5. Cardinality(Low(i) \cup {i}) <= n
    BY <2>4, FS_Subset
  <2> QED
    BY <2>2, <2>3, <2>5
<1>3. ASSUME NEW i \in S, NEW j \in S, i < j
      PROVE  Cardinality(Low(i)) < Cardinality(Low(j))
  <2>1. Low(i) \cup {i} \in SUBSET Low(j) /\ i \notin Low(i)
    <3>1. \A x \in S : x \in Nat
      OBVIOUS
    <3>2. \A x \in S : x < i => x < j
      BY <3>1, <1>3
    <3>3. ~(i < i)
      BY <3>1
    <3> QED
      BY <3>2, <3>3, <1>3
  <2> HIDE DEF Low
  <2>2. Cardinality(Low(i) \cup {i}) = Cardinality(Low(i)) + 1
    BY <2>1, <1>2, FS_AddElement
  <2>3. Cardinality(Low(i) \cup {i}) <= Cardinality(Low(j))
    BY <2>1, <1>2, FS_Subset
  <2> QED
    BY <2>2, <2>3, <1>2
<1> HIDE DEF n, Low
<1>4. rank \in Injection(S, 1..n)
  <2>1. \A i \in S : rank[i] \in 1..n
    BY <1>1, <1>2
  <2>2. ASSUME NEW i \in S, NEW j \in S, rank[i] = rank[j] PROVE i = j
    <3>1. Cardinality(Low(i)) = Cardinality(Low(j))
      BY <2>2, <1>2
    <3>2. ~(i < j) /\ ~(j < i)
      BY <3>1, <1>2, <1>3
    <3> QED
      BY <3>2
  <2> QED
    BY <2>1, <2>2 DEF Injection, IsInjective
<1>5. rank \in Surjection(S, 1..n)
  <2>1. IsFiniteSet(1..n) /\ Cardinality(1..n) = n
    BY <1>1, FS_Interval
  <2> QED
    BY <1>4, <2>1, FS_Injection DEF n
<1>6. \A k \in 1..n : \E i \in S : Cardinality(Low(i)) = k - 1
  <2> TAKE k \in 1..n
  <2>1. PICK i \in S : rank[i] = k
    BY <1>5 DEF Surjection
  <2> QED
    BY <2>1, <1>1, <1>2
<1>7. DOMAIN asc = 1..n /\ \A k \in 1..n : asc[k] \in S /\ Cardinality(Low(asc[k])) = k - 1
  BY <1>6 DEF Ascending, Low, n
<1> HIDE DEF asc, rank
<1>8. \A k, l \in DOMAIN asc : asc[k] = asc[l] => k = l
  <2> SUFFICES ASSUME NEW k \in 1..n, NEW l \in 1..n, asc[k] = asc[l] PROVE k = l
    BY <1>7
  <2>1. k - 1 = l - 1
    BY <1>7
  <2> QED
    BY <2>1, <1>1
<1>9. \A i \in S : \E k \in 1..n : asc[k] = i
  <2> TAKE i \in S
  <2>1. Cardinality(Low(i)) + 1 \in 1..n
    BY <1>1, <1>2
  <2>2. Cardinality(Low(asc[Cardinality(Low(i)) + 1])) = Cardinality(Low(i))
    BY <2>1, <1>7, <1>2
  <2>3. PICK j \in S : j = asc[Cardinality(Low(i)) + 1] /\ Cardinality(Low(j)) = Cardinality(Low(i))
    BY <2>1, <2>2, <1>7
  <2>4. ~(i < j) /\ ~(j < i)
    BY <2>3, <1>2, <1>3
  <2> QED
    BY <2>1, <2>3, <2>4
<1> QED
  BY <1>1, <1>7, <1>8, <1>9 DEF asc, n

LEMMA ChosenFaces ==
  ASSUME NEW S, NEW fs \in Seq(S), NEW K \in SUBSET DOMAIN fs
  PROVE  /\ Cardinality(K) \in Nat /\ DOMAIN Ascending(K) = 1..Cardinality(K)
         /\ DOMAIN Chosen(fs, K) = 1..Cardinality(K)
         /\ \A k \in 1..Cardinality(K) : /\ Ascending(K)[k] \in K
                                         /\ Chosen(fs, K)[k] = fs[Ascending(K)[k]]
         /\ \A k, l \in 1..Cardinality(K) : Ascending(K)[k] = Ascending(K)[l] => k = l
         /\ \A i \in K : \E k \in 1..Cardinality(K) : Ascending(K)[k] = i
<1>1. K \in SUBSET Nat /\ IsFiniteSet(K)
  <2>1. K \in SUBSET (1..Len(fs)) /\ IsFiniteSet(1..Len(fs))
    BY FS_Interval
  <2> QED
    BY <2>1, FS_Subset
<1>2. /\ Cardinality(K) \in Nat /\ DOMAIN Ascending(K) = 1..Cardinality(K)
      /\ \A k \in DOMAIN Ascending(K) : Ascending(K)[k] \in K
      /\ \A k, l \in DOMAIN Ascending(K) : Ascending(K)[k] = Ascending(K)[l] => k = l
      /\ \A i \in K : \E k \in DOMAIN Ascending(K) : Ascending(K)[k] = i
  BY <1>1, Listed
<1> QED
  BY <1>2 DEF Chosen

(* Where the corner j of the face f is among the corners of all.           *)
LEMMA CornerNumbers ==
  ASSUME NEW n \in Nat, NEW f \in 1..n, NEW j \in 1..3
  PROVE  LET i == 3 * f + j - 3
         IN  i \in 1..(3 * n) /\ (i + 2) \div 3 = f /\ ((i - 1) % 3) + 1 = j
<1> DEFINE i == 3 * f + j - 3
<1>1. /\ (3 * f + 1) \div 3 = f /\ (3 * f + 2) \div 3 = f /\ (3 * f) \div 3 = f
      /\ (3 * f) % 3 = 0 /\ (3 * f + 1) % 3 = 1 /\ (3 * f + 2) % 3 = 2
      /\ (3 * f - 3) % 3 = 0 /\ (3 * f - 2) % 3 = 1 /\ (3 * f - 1) % 3 = 2
  OBVIOUS
<1>2. i \in 1..(3 * n)
  OBVIOUS
<1>3. CASE j = 1
  <2>1. i + 2 = 3 * f /\ i - 1 = 3 * f - 3
    BY <1>3
  <2> QED
    BY <1>1, <1>2, <1>3, <2>1
<1>4. CASE j = 2
  <2>1. i + 2 = 3 * f + 1 /\ i - 1 = 3 * f - 2
    BY <1>4
  <2> QED
    BY <1>1, <1>2, <1>4, <2>1
<1>5. CASE j = 3
  <2>1. i + 2 = 3 * f + 2 /\ i - 1 = 3 * f - 1
    BY <1>5
  <2> QED
    BY <1>1, <1>2, <1>5, <2>1
<1> QED
  BY <1>3, <1>4, <1>5

(* FirstUse lists each vertex of the faces once.                           *)
LEMMA EachVertex ==
  ASSUME NEW fs \in Seq([1..3 -> Nat])
  PROVE  \A f \in DOMAIN fs, j \in 1..3 : /\ Position(FirstUse(fs), fs[f][j]) \in Nat
                                          /\ FirstUse(fs)[Position(FirstUse(fs), fs[f][j])] = fs[f][j]
<1> DEFINE c == Corners(fs)
           New == {i \in DOMAIN c : \A j \in 1..(i - 1) : c[j] # c[i]}
           order == FirstUse(fs)
<1>0. Len(fs) \in Nat /\ DOMAIN fs = 1..Len(fs) /\ \A f \in DOMAIN fs : fs[f] \in [1..3 -> Nat]
  OBVIOUS
<1>1. DOMAIN c = 1..(3 * Len(fs)) /\ 3 * Len(fs) \in Nat
  BY <1>0 DEF Corners
<1>2. ASSUME NEW f \in DOMAIN fs, NEW j \in 1..3
      PROVE  \E i \in DOMAIN c : c[i] = fs[f][j]
  <2> DEFINE i == 3 * f + j - 3
  <2>0. Len(fs) \in Nat /\ f \in 1..Len(fs)
    BY <1>0
  <2>1. i \in 1..(3 * Len(fs)) /\ (i + 2) \div 3 = f /\ ((i - 1) % 3) + 1 = j
    BY <2>0, CornerNumbers
  <2> HIDE DEF i
  <2>2. c[i] = fs[(i + 2) \div 3][((i - 1) % 3) + 1]
    BY <2>1 DEF Corners
  <2> QED
    BY <2>1, <2>2, <1>1
<1>3. ASSUME NEW i \in DOMAIN c PROVE \E l \in New : c[l] = c[i]
  <2> DEFINE same == {l \in DOMAIN c : c[l] = c[i]}
  <2>1. same # {}
    OBVIOUS
  <2>2. same \in SUBSET Nat
    BY <1>1
  <2>3. PICK l \in same : \A d \in same : l <= d
    BY <2>1, <2>2, LeastNumber
  <2>4. l \in DOMAIN c /\ l \in Nat /\ l <= 3 * Len(fs) /\ c[l] = c[i]
    BY <2>3, <1>1
  <2>5. ASSUME NEW j \in 1..(l - 1), c[j] = c[l] PROVE FALSE
    <3>1. j \in DOMAIN c /\ ~(l <= j)
      BY <2>4, <1>1
    <3> QED
      BY <3>1, <2>3, <2>4, <2>5
  <2> QED
    BY <2>4, <2>5
<1>4. New \in SUBSET Nat /\ IsFiniteSet(New)
  <2>1. New \in SUBSET (1..(3 * Len(fs))) /\ IsFiniteSet(1..(3 * Len(fs)))
    BY <1>1, FS_Interval
  <2>2. 1..(3 * Len(fs)) \subseteq Nat
    OBVIOUS
  <2> HIDE DEF New
  <2> QED
    BY <2>1, <2>2, FS_Subset
<1> HIDE DEF c
<1>5. order = [k \in DOMAIN Ascending(New) |-> c[Ascending(New)[k]]]
  BY DEF FirstUse, c
<1> HIDE DEF order, New
<1>6. /\ DOMAIN Ascending(New) \subseteq Nat
      /\ \A i \in New : \E k \in DOMAIN Ascending(New) : Ascending(New)[k] = i
  <2>1. Cardinality(New) \in Nat /\ DOMAIN Ascending(New) = 1..Cardinality(New)
    BY <1>4, Listed
  <2>2. \A i \in New : \E k \in DOMAIN Ascending(New) : Ascending(New)[k] = i
    BY <1>4, Listed
  <2> QED
    BY <2>1, <2>2
<1>7. ASSUME NEW f \in DOMAIN fs, NEW j \in 1..3
      PROVE  Position(order, fs[f][j]) \in Nat /\ order[Position(order, fs[f][j])] = fs[f][j]
  <2>1. PICK l \in New : c[l] = fs[f][j]
    BY <1>2, <1>3
  <2>2. PICK k \in DOMAIN order : order[k] = fs[f][j]
    BY <2>1, <1>5, <1>6
  <2> QED
    BY <2>2, <1>5, <1>6 DEF Position
<1> QED
  BY <1>7 DEF order

(* Faces taken as they lie, under other numbers and with their vertices    *)
(* under other numbers, are joined as they were.                           *)
Relabels(fs, hs, n, K, m, V, r) ==
    /\ fs \in Seq(Triangles) /\ n \in Nat /\ K \in SUBSET DOMAIN fs
    /\ \A f \in K, g \in DOMAIN fs \ K : ToSet(fs[f]) \cap ToSet(fs[g]) = {}
    /\ \A k \in 1..n : m[k] \in K
    /\ \A k, l \in 1..n : m[k] = m[l] => k = l
    /\ \A f \in K : \E k \in 1..n : m[k] = f
    /\ V = {fs[f][j] : f \in K, j \in 1..3}
    /\ \A v \in V : r[v] \in Nat
    /\ \A v, w \in V : r[v] = r[w] => v = w
    /\ hs = [k \in 1..n |-> [j \in 1..3 |-> r[fs[m[k]][j]]]]

LEMMA Relabelled ==
  ASSUME NEW fs, NEW hs, NEW n, NEW K, NEW m, NEW V, NEW r,
         Relabels(fs, hs, n, K, m, V, r)
  PROVE  /\ hs \in Seq(Triangles)
         /\ Consistent(fs) => Consistent(hs)
<1> DEFINE R(e) == <<r[e[1]], r[e[2]]>>
           Of(k) == fs[m[k]]
<1>1. /\ fs \in Seq(Triangles) /\ n \in Nat /\ K \in SUBSET DOMAIN fs
      /\ \A f \in DOMAIN fs : fs[f] \in Triangles /\ fs[f] \in [1..3 -> Nat] /\ Proper(fs[f])
  <2>1. fs \in Seq(Triangles) /\ n \in Nat /\ K \in SUBSET DOMAIN fs
    BY DEF Relabels
  <2>2. \A f \in DOMAIN fs : fs[f] \in Triangles
    BY <2>1
  <2> QED
    BY <2>1, <2>2 DEF Triangles
<1>2. /\ \A k \in 1..n : m[k] \in K /\ m[k] \in DOMAIN fs
      /\ \A k, l \in 1..n : m[k] = m[l] => k = l
      /\ \A f \in K : \E k \in 1..n : m[k] = f
  BY <1>1 DEF Relabels
<1>3. /\ V = {fs[f][j] : f \in K, j \in 1..3} /\ V \subseteq Nat
      /\ \A v \in V : r[v] \in Nat
      /\ \A v, w \in V : r[v] = r[w] => v = w
  <2>1. V = {fs[f][j] : f \in K, j \in 1..3}
    BY DEF Relabels
  <2>2. V \subseteq Nat
    BY <1>1, <2>1
  <2>3. \A v \in V : r[v] \in Nat
    BY DEF Relabels
  <2>4. \A v, w \in V : r[v] = r[w] => v = w
    BY DEF Relabels
  <2> QED
    BY <2>1, <2>2, <2>3, <2>4
<1>4. \A k \in 1..n : /\ hs[k] = [j \in 1..3 |-> r[Of(k)[j]]]
                      /\ \A j \in 1..3 : Of(k)[j] \in V
                      /\ \A i, j \in 1..3 : i # j => Of(k)[i] # Of(k)[j]
  <2> TAKE k \in 1..n
  <2>1. hs[k] = [j \in 1..3 |-> r[Of(k)[j]]]
    BY DEF Relabels
  <2> QED
    BY <1>1, <1>2, <1>3, <2>1 DEF Proper
<1>4a. DOMAIN hs = 1..n /\ hs \in Seq(Triangles)
  <2>1. ASSUME NEW k \in 1..n PROVE hs[k] \in Triangles
    <3>1. /\ hs[k] = [j \in 1..3 |-> r[Of(k)[j]]]
          /\ \A j \in 1..3 : Of(k)[j] \in V
          /\ \A i, j \in 1..3 : i # j => Of(k)[i] # Of(k)[j]
      BY <1>4
    <3> HIDE DEF Of
    <3>2. hs[k] \in [1..3 -> Nat] /\ \A j \in 1..3 : hs[k][j] = r[Of(k)[j]]
      BY <3>1, <1>3
    <3>3. \A i, j \in 1..3 : i # j => hs[k][i] # hs[k][j]
      <4> TAKE i, j \in 1..3
      <4>1. /\ hs[k][i] = r[Of(k)[i]] /\ hs[k][j] = r[Of(k)[j]]
            /\ Of(k)[i] \in V /\ Of(k)[j] \in V
            /\ i # j => Of(k)[i] # Of(k)[j]
        BY <3>1, <3>2
      <4> QED
        BY <4>1, <1>3
    <3> QED
      BY <3>2, <3>3 DEF Triangles, Proper
  <2>2. hs = [k \in 1..n |-> hs[k]]
    BY DEF Relabels
  <2> HIDE DEF Of
  <2> QED
    BY <2>1, <2>2, <1>1
<1>5. \A k \in 1..n :
        /\ Sides(fs[m[k]]) \subseteq V \X V
        /\ \A e \in V \X V : e \in Sides(fs[m[k]]) <=> R(e) \in Sides(hs[k])
        /\ \A d \in Sides(hs[k]) : \E e \in V \X V : d = R(e) /\ e \in Sides(fs[m[k]])
  <2> TAKE k \in 1..n
  <2>1. PICK a \in V, b \in V, c \in V :
           /\ a = fs[m[k]][1] /\ b = fs[m[k]][2] /\ c = fs[m[k]][3]
           /\ hs[k][1] = r[a] /\ hs[k][2] = r[b] /\ hs[k][3] = r[c]
    <3>1. hs[k] = [j \in 1..3 |-> r[Of(k)[j]]] /\ \A j \in 1..3 : Of(k)[j] \in V
      BY <1>4
    <3> QED
      BY <3>1
  <2>2. Sides(fs[m[k]]) = {<<a, b>>, <<b, c>>, <<c, a>>}
    BY <2>1, SidesAre
  <2>3. Sides(hs[k]) = {<<r[a], r[b]>>, <<r[b], r[c]>>, <<r[c], r[a]>>}
    BY <2>1, SidesAre
  <2>4. Sides(fs[m[k]]) \subseteq V \X V
    BY <2>2
  <2>5. ASSUME NEW e \in V \X V PROVE e \in Sides(fs[m[k]]) <=> R(e) \in Sides(hs[k])
    <3>1. PICK x \in V, y \in V : e = <<x, y>>
      OBVIOUS
    <3>2. R(e) = <<r[x], r[y]>>
      BY <3>1
    <3>3. \A u, v \in V : <<r[x], r[y]>> = <<r[u], r[v]>> <=> <<x, y>> = <<u, v>>
      BY <1>3
    <3> HIDE DEF R
    <3> QED
      BY <2>2, <2>3, <3>1, <3>2, <3>3
  <2>6. ASSUME NEW d \in Sides(hs[k])
        PROVE  \E e \in V \X V : d = R(e) /\ e \in Sides(fs[m[k]])
    <3>1. /\ R(<<a, b>>) = <<r[a], r[b]>> /\ R(<<b, c>>) = <<r[b], r[c]>>
          /\ R(<<c, a>>) = <<r[c], r[a]>>
      OBVIOUS
    <3> HIDE DEF R
    <3> QED
      BY <2>2, <2>3, <3>1
  <2> QED
    BY <2>4, <2>5, <2>6
<1>6. \A e \in V \X V : /\ Back(e) \in V \X V /\ Back(R(e)) = R(Back(e))
                        /\ R(e) \in Nat \X Nat /\ e \in Nat \X Nat
  BY <1>3 DEF Back
<1>7. ASSUME NEW e \in V \X V PROVE Beside(fs, e) \subseteq K
  <2>1. \A f \in DOMAIN fs, d \in V \X V : d \in Sides(fs[f]) => f \in K
    <3> SUFFICES ASSUME NEW f \in DOMAIN fs, NEW d \in V \X V, d \in Sides(fs[f]), f \notin K
                 PROVE  FALSE
      OBVIOUS
    <3>1. PICK v \in V : v = d[1]
      OBVIOUS
    <3>2. PICK j \in 1..3 : v = fs[f][j]
      <4>1. d \in {<<fs[f][1], fs[f][2]>>, <<fs[f][2], fs[f][3]>>, <<fs[f][3], fs[f][1]>>}
        BY SidesAre
      <4> QED
        BY <3>1, <4>1
    <3>3. PICK g \in K, i \in 1..3 : v = fs[g][i]
      BY <1>3
    <3>4. v \in ToSet(fs[f]) /\ v \in ToSet(fs[g])
      <4>1. DOMAIN fs[f] = 1..3 /\ DOMAIN fs[g] = 1..3
        BY <1>1
      <4> QED
        BY <4>1, <3>2, <3>3 DEF ToSet
    <3>5. ToSet(fs[f]) \cap ToSet(fs[g]) = {}
      BY DEF Relabels
    <3> QED
      BY <3>4, <3>5
  <2> QED
    BY <2>1, <1>6 DEF Beside, Along
<1>8. \A e \in V \X V, k \in 1..n : k \in Beside(hs, R(e)) <=> m[k] \in Beside(fs, e)
  <2> TAKE e \in V \X V, k \in 1..n
  <2>1. \A d \in V \X V : k \in Along(hs, R(d)) <=> m[k] \in Along(fs, d)
    BY <1>2, <1>4a, <1>5 DEF Along
  <2>2. Back(e) \in V \X V /\ Back(R(e)) = R(Back(e))
    BY <1>6
  <2> HIDE DEF R
  <2> QED
    BY <2>1, <2>2 DEF Beside
<1> HIDE DEF R
<1>9. \A k, l \in 1..n, e \in V \X V : Joined(hs, k, l, R(e)) <=> Joined(fs, m[k], m[l], e)
  <2> TAKE k, l \in 1..n, e \in V \X V
  <2>1. Beside(hs, R(e)) \subseteq 1..n
    BY <1>4a DEF Beside, Along
  <2>2. Beside(hs, R(e)) = {k, l} <=> Beside(fs, e) = {m[k], m[l]}
    <3> DEFINE A == Beside(hs, R(e))
               B == Beside(fs, e)
    <3>1. A \subseteq 1..n /\ B \subseteq K /\ \A i \in 1..n : i \in A <=> m[i] \in B
      BY <2>1, <1>7, <1>8
    <3> HIDE DEF A, B
    <3>2. ASSUME A = {k, l} PROVE B = {m[k], m[l]}
      <4>1. m[k] \in B /\ m[l] \in B
        BY <3>1, <3>2
      <4>2. \A f \in B : f = m[k] \/ f = m[l]
        <5> TAKE f \in B
        <5>1. PICK i \in 1..n : m[i] = f
          BY <1>2, <3>1
        <5>2. i = k \/ i = l
          BY <5>1, <3>1, <3>2
        <5> QED
          BY <5>1, <5>2
      <4> QED
        BY <4>1, <4>2
    <3>3. ASSUME B = {m[k], m[l]} PROVE A = {k, l}
      <4>1. k \in A /\ l \in A
        BY <3>1, <3>3
      <4>2. \A i \in A : i = k \/ i = l
        <5> TAKE i \in A
        <5>1. i \in 1..n /\ (m[i] = m[k] \/ m[i] = m[l])
          BY <3>1, <3>3
        <5> QED
          BY <1>2, <5>1
      <4> QED
        BY <4>1, <4>2
    <3> QED
      BY <3>2, <3>3 DEF A, B
  <2> QED
    BY <1>2, <1>5, <2>2 DEF Joined
<1>10. \A k \in 1..n, g \in DOMAIN fs, e \in Nat \X Nat :
         Joined(fs, m[k], g, e) => e \in V \X V /\ \E l \in 1..n : g = m[l]
  <2> SUFFICES ASSUME NEW k \in 1..n, NEW g \in DOMAIN fs, NEW e \in Nat \X Nat,
                      Joined(fs, m[k], g, e)
               PROVE  e \in V \X V /\ \E l \in 1..n : g = m[l]
    OBVIOUS
  <2>1. e \in Sides(fs[m[k]]) /\ Beside(fs, e) = {m[k], g}
    BY DEF Joined
  <2>2. e \in V \X V
    BY <1>5, <2>1
  <2>3. g \in K
    BY <1>7, <2>1, <2>2
  <2>4. \E l \in 1..n : m[l] = g
    BY <1>2, <2>3
  <2> QED
    BY <2>2, <2>4
<1>11. \A k, l \in 1..n, d \in Nat \X Nat : Joined(hs, k, l, d) => \E e \in V \X V : d = R(e)
  BY <1>5 DEF Joined
<1>12. ASSUME NEW Q \in SUBSET (1..n), NEW U, NEW T,
              \A k \in 1..n : k \in U <=> m[k] \in T
       PROVE  Wound(hs, Q, U) <=> Wound(fs, {m[k] : k \in Q}, T)
  <2> DEFINE P == {m[k] : k \in Q}
  <2>1. P \in SUBSET DOMAIN fs /\ \A k \in 1..n : k \in Q <=> m[k] \in P
    <3>1. \A k \in Q : k \in 1..n /\ m[k] \in DOMAIN fs
      BY <1>2
    <3>2. \A k \in 1..n : m[k] \in P => k \in Q
      BY <1>2
    <3> QED
      BY <3>1, <3>2
  <2>2. \A k, l \in 1..n, e \in V \X V : Joined(fs, m[k], m[l], e) =>
          (Suits(hs, U, k, l, R(e)) <=> Suits(fs, T, m[k], m[l], e))
    BY <1>5, <1>12 DEF Suits
  <2> HIDE DEF P
  <2>3. ASSUME Wound(hs, Q, U) PROVE Wound(fs, P, T)
    <3> SUFFICES ASSUME NEW f \in P, NEW g \in DOMAIN fs, NEW e \in Nat \X Nat, Joined(fs, f, g, e)
                 PROVE  g \in P /\ Suits(fs, T, f, g, e)
      BY <2>1 DEF Wound, Closed
    <3>1. PICK k \in 1..n : k \in Q /\ f = m[k]
      BY DEF P
    <3>2. PICK l \in 1..n : g = m[l] /\ e \in V \X V
      <4>1. Joined(fs, m[k], g, e)
        BY <3>1
      <4> QED
        BY <4>1, <1>10
    <3>3. Joined(hs, k, l, R(e)) /\ R(e) \in Nat \X Nat
      BY <1>6, <1>9, <3>1, <3>2
    <3>4. l \in Q /\ Suits(hs, U, k, l, R(e))
      BY <1>4a, <2>3, <3>1, <3>3 DEF Wound, Closed
    <3> QED
      BY <2>1, <2>2, <3>1, <3>2, <3>4
  <2>4. ASSUME Wound(fs, P, T) PROVE Wound(hs, Q, U)
    <3> SUFFICES ASSUME NEW k \in Q, NEW l \in 1..n, NEW d \in Nat \X Nat, Joined(hs, k, l, d)
                 PROVE  l \in Q /\ Suits(hs, U, k, l, d)
      BY <1>4a DEF Wound, Closed
    <3>1. PICK e \in V \X V : d = R(e)
      <4>1. k \in 1..n
        OBVIOUS
      <4> QED
        BY <4>1, <1>11
    <3>2. Joined(fs, m[k], m[l], e) /\ m[k] \in P /\ m[l] \in DOMAIN fs /\ e \in Nat \X Nat
      BY <1>2, <1>6, <1>9, <2>1, <3>1
    <3>3. m[l] \in P /\ Suits(fs, T, m[k], m[l], e)
      BY <2>4, <3>2 DEF Wound, Closed
    <3> QED
      BY <2>1, <2>2, <3>1, <3>2, <3>3
  <2> QED
    BY <2>3, <2>4 DEF P
<1>13. ASSUME Consistent(fs), NEW Q \in SUBSET (1..n), NEW U \in SUBSET (1..n), Wound(hs, Q, U)
       PROVE  Wound(hs, Q, {})
  <2>1. /\ {m[k] : k \in U} \in SUBSET DOMAIN fs /\ {m[k] : k \in Q} \in SUBSET DOMAIN fs
        /\ \A k \in 1..n : k \in U <=> m[k] \in {m[l] : l \in U}
    BY <1>2
  <2>2. Wound(fs, {m[k] : k \in Q}, {m[k] : k \in U})
    BY <1>12, <1>13, <2>1
  <2>3. Wound(fs, {m[k] : k \in Q}, {})
    BY <1>13, <2>1, <2>2 DEF Consistent
  <2> QED
    BY <1>12, <2>3
<1> QED
  BY <1>4a, <1>13 DEF Consistent

LEMMA Renumbering ==
  ASSUME NEW fs \in Seq(Triangles), NEW K \in SUBSET DOMAIN fs,
         \A f \in K, g \in DOMAIN fs \ K : ToSet(fs[f]) \cap ToSet(fs[g]) = {}
  PROVE  /\ Renumbered(Chosen(fs, K)) \in Seq(Triangles)
         /\ Consistent(fs) => Consistent(Renumbered(Chosen(fs, K)))
<1> DEFINE kept == Chosen(fs, K)
           order == FirstUse(kept)
           n == Cardinality(K)
           m == Ascending(K)
           V == {fs[f][j] : f \in K, j \in 1..3}
           r == [v \in V |-> Position(order, v)]
           hs == Renumbered(kept)
<1>1. /\ n \in Nat /\ DOMAIN kept = 1..n
      /\ \A k \in 1..n : m[k] \in K /\ kept[k] = fs[m[k]]
      /\ \A k, l \in 1..n : m[k] = m[l] => k = l
      /\ \A f \in K : \E k \in 1..n : m[k] = f
  BY ChosenFaces
<1>2. \A f \in DOMAIN fs : fs[f] \in [1..3 -> Nat]
  BY DEF Triangles
<1>3. kept \in Seq([1..3 -> Nat])
  <2>1. \A k \in 1..n : fs[m[k]] \in [1..3 -> Nat]
    BY <1>1, <1>2
  <2>2. kept = [k \in 1..n |-> fs[m[k]]]
    BY ChosenFaces DEF Chosen
  <2> HIDE DEF kept, n, m
  <2> QED
    BY <2>1, <2>2, <1>1
<1>4. \A k \in DOMAIN kept, j \in 1..3 : /\ Position(order, kept[k][j]) \in Nat
                                         /\ order[Position(order, kept[k][j])] = kept[k][j]
  BY <1>3, EachVertex
<1> HIDE DEF kept, order, n, m
<1>5. \A v \in V : Position(order, v) \in Nat /\ order[Position(order, v)] = v
  <2> TAKE v \in V
  <2>1. PICK f \in K, j \in 1..3 : v = fs[f][j]
    OBVIOUS
  <2>2. PICK k \in 1..n : m[k] = f
    BY <1>1
  <2>3. k \in DOMAIN kept /\ kept[k][j] = v
    BY <2>1, <2>2, <1>1
  <2> QED
    BY <2>3, <1>4
<1>6. hs = [k \in 1..n |-> [j \in 1..3 |-> r[fs[m[k]][j]]]]
  <2>1. \A k \in 1..n, j \in 1..3 : Position(order, kept[k][j]) = r[fs[m[k]][j]]
    BY <1>1
  <2>2. hs = [k \in DOMAIN kept |-> [j \in 1..3 |-> Position(order, kept[k][j])]]
    BY DEF Renumbered, order
  <2> HIDE DEF r, hs
  <2> QED
    BY <2>1, <2>2, <1>1
<1>7. Relabels(fs, hs, n, K, m, V, r)
  <2>1. \A v \in V : r[v] \in Nat
    BY <1>5
  <2>2. \A v, w \in V : r[v] = r[w] => v = w
    BY <1>5
  <2> HIDE DEF r, hs
  <2>3. V = {fs[f][j] : f \in K, j \in 1..3}
    OBVIOUS
  <2> HIDE DEF V
  <2> QED
    BY <1>1, <1>6, <2>1, <2>2, <2>3 DEF Relabels
<1> QED
  BY <1>7, Relabelled DEF kept

(* A union of components touches no other face.                            *)
LEMMA ComponentsApart ==
  ASSUME NEW fs, NEW cs \in SUBSET Components(fs)
  PROVE  /\ UNION cs \in SUBSET DOMAIN fs
         /\ \A f \in UNION cs, g \in DOMAIN fs \ UNION cs : ToSet(fs[f]) \cap ToSet(fs[g]) = {}
  BY DEF Components, Detached

-----------------------------------------------------------------------------
(* The invariant: what the faces are at each step up to the decimation.    *)

ReadyInv ==
    /\ mesh \in Meshes
    /\ pc = "begin" => remap = <<>> /\ points = <<>>
    /\ pc \in {"begin", "weld"} =>
          /\ remap \in Seq(Nat) /\ Len(remap) <= Len(mesh.points)
          /\ points \in Seq(ToSet(mesh.points))
          /\ flood = [vis |-> {}, flip |-> {}, stack |-> <<>>]
    /\ pc \in {"flood", "drop", "decimate"} => faces \in Seq(Triangles)
    /\ pc = "flood" => FloodInv(faces, flood)
    /\ pc \in {"drop", "decimate"} => Consistent(faces)

LEMMA ReadyBegins == Init => ReadyInv
<1> SUFFICES ASSUME Init PROVE ReadyInv
  OBVIOUS
<1>1. mesh.points \in Seq(ToSet(mesh.points))
  BY ExportAssumption DEF Init
<1>2. Len(mesh.points) \in Nat
  BY <1>1
<1> QED
  BY <1>2 DEF Init, ReadyInv

LEMMA WeldStep == ASSUME ReadyInv, Weld PROVE ReadyInv'
<1>1. /\ pc = "weld" /\ remap \in Seq(Nat) /\ points \in Seq(ToSet(mesh.points))
      /\ mesh.points \in Seq(ToSet(mesh.points)) /\ Len(remap) + 1 <= Len(mesh.points)
  BY ExportAssumption DEF ReadyInv, Weld
<1>2. mesh.points[Len(remap) + 1] \in ToSet(mesh.points)
  BY <1>1 DEF ToSet
<1>3. \A k \in Nat : Append(remap, k) \in Seq(Nat) /\ Len(Append(remap, k)) = Len(remap) + 1
  BY <1>1
<1>4. \/ \E k \in DOMAIN points : remap' = Append(remap, k) /\ UNCHANGED points
      \/ /\ points' = Append(points, mesh.points[Len(remap) + 1])
         /\ remap' = Append(remap, Len(points'))
  BY DEF Weld
<1>5. points' \in Seq(ToSet(mesh.points)) /\ remap' \in Seq(Nat) /\ Len(remap') = Len(remap) + 1
  <2>1. CASE \E k \in DOMAIN points : remap' = Append(remap, k) /\ UNCHANGED points
    BY <1>1, <1>3, <2>1
  <2>2. CASE /\ points' = Append(points, mesh.points[Len(remap) + 1])
             /\ remap' = Append(remap, Len(points'))
    <3>1. points' \in Seq(ToSet(mesh.points))
      BY <1>1, <1>2, <2>2
    <3>2. Len(points') \in Nat
      BY <3>1
    <3> QED
      BY <1>3, <2>2, <3>1, <3>2
  <2> QED
    BY <1>4, <2>1, <2>2
<1> QED
  BY <1>1, <1>5 DEF ReadyInv, Weld

LEMMA NoFaces ==
  /\ <<>> \in Seq(Triangles) /\ Consistent(<<>>)
  /\ \A fs \in Seq(Triangles) :
        FloodInv(fs, [vis |-> {}, flip |-> {}, stack |-> <<>>])
<1>1. Consistent(<<>>)
  BY DEF Consistent, Wound
<1>2. ASSUME NEW fs \in Seq(Triangles)
      PROVE  FloodInv(fs, [vis |-> {}, flip |-> {}, stack |-> <<>>])
  <2> DEFINE s == [vis |-> {}, flip |-> {}, stack |-> <<>>]
  <2>1. s.vis = {} /\ s.flip = {} /\ s.stack = <<>> /\ ToSet(s.stack) = {}
    BY DEF ToSet
  <2>2. FloodType(fs, s)
    BY <2>1 DEF FloodType
  <2> HIDE DEF s
  <2>3. Done(fs, s.vis, s.stack)
    BY <2>1 DEF Done
  <2>4. Patch(fs, {}, s)
    BY <2>1 DEF Patch, Closed, Turns, Like
  <2> QED
    BY <2>1, <2>2, <2>3, <2>4 DEF FloodInv, s
<1> QED
  BY <1>1, <1>2

LEMMA WeldedStep == ASSUME ReadyInv, Welded PROVE ReadyInv'
<1> DEFINE fs == [f \in DOMAIN mesh.faces |-> [j \in 1..3 |-> remap[mesh.faces[f][j]]]]
           K == {f \in DOMAIN fs : Proper(fs[f])}
<1>1. /\ pc = "weld" /\ remap \in Seq(Nat) /\ mesh \in Meshes
      /\ flood = [vis |-> {}, flip |-> {}, stack |-> <<>>]
      /\ Len(remap) = Len(mesh.points) /\ mesh.points \in Seq(ToSet(mesh.points))
      /\ mesh.faces \in Seq([1..3 -> DOMAIN mesh.points])
  BY ExportAssumption DEF ReadyInv, Welded
<1>2. fs \in Seq([1..3 -> Nat])
  <2>1. ASSUME NEW f \in DOMAIN mesh.faces PROVE fs[f] \in [1..3 -> Nat]
    <3>1. mesh.faces[f] \in [1..3 -> DOMAIN mesh.points]
      BY <1>1
    <3>2. \A j \in 1..3 : mesh.faces[f][j] \in DOMAIN remap
      <4>1. DOMAIN remap = DOMAIN mesh.points
        BY <1>1
      <4> QED BY <3>1, <4>1
    <3>0. \A i \in DOMAIN remap : remap[i] \in Nat
      <4>1. remap \in Seq(Nat)
        BY <1>1
      <4> QED BY <4>1
    <3>3. \A j \in 1..3 : remap[mesh.faces[f][j]] \in Nat
      BY <3>0, <3>2
    <3> QED
      BY <3>3
  <2>2. PICK n \in Nat : DOMAIN mesh.faces = 1..n
    BY <1>1
  <2>3. \A f \in 1..n : [j \in 1..3 |-> remap[mesh.faces[f][j]]] \in [1..3 -> Nat]
    BY <2>1, <2>2
  <2> QED
    BY <2>2, <2>3
<1> HIDE DEF fs
<1>3. Chosen(fs, K) \in Seq(Triangles)
  <2> DEFINE n == Cardinality(K)
             m == Ascending(K)
  <2>1. n \in Nat /\ \A k \in 1..n : m[k] \in K
    BY <1>2, ChosenFaces
  <2>2. \A k \in 1..n : fs[m[k]] \in Triangles
    <3>1. \A f \in K : fs[f] \in Triangles
      BY <1>2 DEF Triangles
    <3> QED
      BY <2>1, <3>1
  <2>3. Chosen(fs, K) = [k \in 1..n |-> fs[m[k]]]
    BY <1>2, ChosenFaces DEF Chosen
  <2> HIDE DEF n, m
  <2> QED
    BY <2>1, <2>2, <2>3
<1>4. /\ faces' = Chosen(fs, K) /\ mesh' = mesh /\ flood' = flood
      /\ pc' = IF faces' = <<>> THEN "drop" ELSE "flood"
  BY DEF Welded, fs
<1> HIDE DEF K
<1>5. faces' \in Seq(Triangles) /\ mesh' \in Meshes
  BY <1>1, <1>3, <1>4
<1>6. FloodInv(faces', flood')
  BY <1>1, <1>4, <1>5, NoFaces
<1>7. pc' = "drop" => Consistent(faces')
  BY <1>4, NoFaces
<1> QED
  BY <1>4, <1>5, <1>6, <1>7 DEF ReadyInv

LEMMA DropStep == ASSUME ReadyInv, Drop PROVE ReadyInv'
<1>1. /\ faces \in Seq(Triangles) /\ Consistent(faces) /\ mesh \in Meshes /\ pc' = "decimate"
      /\ mesh' = mesh
  BY DEF ReadyInv, Drop
<1>2. \/ faces' = faces
      \/ \E cs \in SUBSET Components(faces) : faces' = Renumbered(Chosen(faces, UNION cs))
  BY DEF Drop
<1>3. faces' \in Seq(Triangles) /\ Consistent(faces')
  <2>1. ASSUME NEW cs \in SUBSET Components(faces), faces' = Renumbered(Chosen(faces, UNION cs))
        PROVE  faces' \in Seq(Triangles) /\ Consistent(faces')
    <3>1. /\ UNION cs \in SUBSET DOMAIN faces
          /\ \A f \in UNION cs, g \in DOMAIN faces \ UNION cs :
                ToSet(faces[f]) \cap ToSet(faces[g]) = {}
      BY ComponentsApart
    <3> QED
      BY <1>1, <2>1, <3>1, Renumbering
  <2> QED
    BY <1>1, <1>2, <2>1
<1> QED
  BY <1>1, <1>3 DEF ReadyInv

LEMMA ReadyKept == ASSUME ReadyInv, [Next]_vars PROVE ReadyInv'
<1>1. CASE Begin
  BY <1>1 DEF Begin, ReadyInv, Return
<1>2. CASE Weld
  BY <1>2, WeldStep
<1>3. CASE Welded
  BY <1>3, WeldedStep
<1>4. CASE Seed
  <2>1. FloodInv(faces, flood')
    BY <1>4, SeedStep DEF ReadyInv, Seed
  <2>2. pc = "flood" /\ UNCHANGED <<faces, pc, mesh>>
    BY <1>4 DEF Seed
  <2> QED
    BY <2>1, <2>2 DEF ReadyInv
<1>5. CASE Flood
  <2>1. FloodInv(faces, flood')
    BY <1>5, FloodStep DEF ReadyInv, Flood
  <2>2. pc = "flood" /\ UNCHANGED <<faces, pc, mesh>>
    BY <1>5 DEF Flood
  <2> QED
    BY <2>1, <2>2 DEF ReadyInv
<1>6. CASE Flooded
  <2>1. faces' \in Seq(Triangles) /\ Consistent(faces')
    BY <1>6, FloodedStep DEF ReadyInv, Flooded
  <2>2. pc' = "drop" /\ mesh' = mesh
    BY <1>6 DEF Flooded
  <2> QED
    BY <2>1, <2>2 DEF ReadyInv
<1>7. CASE Drop
  BY <1>7, DropStep
<1>8. CASE \/ Decimate \/ Rims \/ PassEnds \/ Triage \/ Merge \/ AddMeshes
           \/ \E v : WalkFrom(v) \/ Walk(v)
  <2>1. mesh' = mesh /\ pc' \notin {"begin", "weld", "flood", "drop", "decimate"}
    BY <1>8 DEF Decimate, Rims, PassEnds, Triage, Merge, AddMeshes, WalkFrom, Walk, Return
  <2> QED
    BY <2>1 DEF ReadyInv
<1>9. CASE Poll \/ Look \/ Join \/ Pack \/ Emit \/ Strip \/ Baked \/ Encode \/ WriteGlb
  <2>1. mesh' = mesh /\ pc' \notin {"begin", "weld", "flood", "drop", "decimate"}
    BY <1>9 DEF Poll, Look, Join, Pack, Emit, Strip, Baked, Encode, WriteGlb, Return
  <2> QED
    BY <2>1 DEF ReadyInv
<1>10. CASE Expire \/ ChartsComputed \/ StoreDone \/ UNCHANGED vars
  <2>1. UNCHANGED <<mesh, points, faces, remap, flood>> /\ (UNCHANGED pc)
    BY <1>10 DEF Expire, ChartsComputed, StoreDone, vars
  <2> QED
    BY <2>1 DEF ReadyInv
<1> QED
  BY <1>1, <1>2, <1>3, <1>4, <1>5, <1>6, <1>7, <1>8, <1>9, <1>10 DEF Next, Caller, Returned

(* The decimation gets triangles, and wherever a patch of them can be      *)
(* wound one way at all, it is: for any mesh, whatever the order of its    *)
(* faces, where the flood starts, and whichever components are dropped.    *)
THEOREM WoundAlike == Spec => []ReadyToSimplify
<1>1. ReadyInv => ReadyToSimplify
  <2> SUFFICES ASSUME ReadyInv, pc = "decimate"
               PROVE  /\ \A f \in DOMAIN faces : Proper(faces[f])
                      /\ \A patch \in SUBSET DOMAIN faces :
                           /\ \A f \in patch : \A e \in Sides(faces[f]) :
                                 Cardinality(Beside(faces, e)) = 2 => Beside(faces, e) \subseteq patch
                           /\ \E turned \in SUBSET patch : Agree(Turn(faces, turned), patch)
                           => Agree(faces, patch)
    BY DEF ReadyToSimplify, Turn
  <2>1. faces \in Seq(Triangles) /\ Consistent(faces)
    BY DEF ReadyInv
  <2>2. \A f \in DOMAIN faces : Proper(faces[f])
    BY <2>1 DEF Triangles
  <2> QED
    BY <2>1, <2>2, ReadyMeans
<1> QED
  BY <1>1, ReadyBegins, ReadyKept, PTL DEF Spec

-----------------------------------------------------------------------------
(* The charting thread and what it works on, at each step of its caller.   *)
BeforeThread == {"begin", "weld", "flood", "drop", "decimate", "rims", "fill", "walk",
                 "triage", "merge"}
AfterThread == {"pack", "emit", "encode", "write"}

ThreadInv ==
    /\ pc \in BeforeThread => worker = "none"
    /\ pc \in {"poll", "look", "join"} => worker # "none"
    /\ worker \in {"charting", "storing"} => atlas = "alive" /\ done = "false"
    /\ pc = "join" => done = "true"
    /\ done = "true" => worker = "ended"
    /\ pc \in AfterThread => worker = "ended"

(* How the caller and the thread move, one case per action.                *)
LEMMA ThreadKept == ASSUME ThreadInv, [Next]_vars PROVE ThreadInv'
<1> USE DEF ThreadInv, BeforeThread, AfterThread
<1>1. CASE Begin \/ Weld \/ Welded \/ Seed \/ Flood \/ Flooded \/ Drop \/ Decimate
  BY <1>1 DEF Begin, Weld, Welded, Seed, Flood, Flooded, Drop, Decimate, Return, bake, thread
<1>2. CASE Rims \/ PassEnds \/ (\E v : WalkFrom(v) \/ Walk(v)) \/ Triage \/ Merge
  BY <1>2 DEF Rims, PassEnds, WalkFrom, Walk, Triage, Merge, bake, thread
<1>3. CASE AddMeshes
  BY <1>3 DEF AddMeshes, Return
<1>4. CASE Poll \/ Look \/ Join \/ Pack \/ Baked
  BY <1>4 DEF Poll, Look, Join, Pack, Baked, Return, bake, thread, MayStop, Abandoned
<1>5. CASE Emit \/ Strip \/ Encode \/ WriteGlb
  BY <1>5 DEF Emit, Strip, Encode, WriteGlb, Return, bake, thread
<1>6. CASE Expire \/ ChartsComputed \/ StoreDone
  BY <1>6 DEF Expire, ChartsComputed, StoreDone
<1>7. CASE UNCHANGED vars
  BY <1>7 DEF vars, bake, thread
<1> QED
  BY <1>1, <1>2, <1>3, <1>4, <1>5, <1>6, <1>7 DEF Next, Caller, Returned

(* While the charting thread lives, abandoned or not, the atlas and the    *)
(* flag it works on live; the caller uses the atlas only after it ended.   *)
THEOREM WorkerKeeps == Spec => []WorkerKeepsItsOwn
<1>1. Init => ThreadInv
  BY DEF Init, ThreadInv, BeforeThread, AfterThread
<1>2. ThreadInv /\ [Next]_vars => ThreadInv'
  BY ThreadKept
<1>3. ThreadInv => WorkerKeepsItsOwn
  BY DEF ThreadInv, AfterThread, WorkerKeepsItsOwn
<1> QED
  BY <1>1, <1>2, <1>3, PTL DEF Spec
=============================================================================
