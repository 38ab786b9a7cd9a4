--------------------------- MODULE CascadeProofs ---------------------------
(***************************************************************************)
(* Theorems about Cascade, for any grid and any set of runs: whatever the  *)
(* builders return and wherever a run fails, the tensors of a stage belong *)
(* together, the limits hold, and memory and files are left as promised.   *)
(* And about SlatFlow, for any coordinate sets, contexts and number of     *)
(* sampler steps of one of its flows: what the graph computes with is      *)
(* current, what it needs is in place, and everything is given back in the *)
(* right order.                                                            *)
(***************************************************************************)
EXTENDS Cascade, SlatFlow, TLAPS, FiniteSetTheorems, WellFoundedInduction

(* A finite set of numbers has a greatest element: a smallest set without  *)
(* one would have none after the removal of an element either.             *)
LEMMA Greatest ==
  ASSUME NEW S \in SUBSET Nat, IsFiniteSet(S), S # {}
  PROVE  \E m \in S : \A d \in S : d <= m
<1> DEFINE Topless == {X \in FiniteSubsetsOf(Nat) :
                         X # {} /\ \A m \in X : \E d \in X : ~(d <= m)}
<1>1. SUFFICES ASSUME Topless # {} PROVE FALSE
  BY DEF FiniteSubsetsOf
<1>2. PICK X \in Topless : \A Y \in Topless : <<Y, X>> \notin StrictSubsetOrdering(Nat)
  <2>1. Topless \subseteq FiniteSubsetsOf(Nat)
    OBVIOUS
  <2> QED
    BY <1>1, <2>1, FS_StrictSubsetOrderingWellFounded, WFMin
<1>3. X \in SUBSET Nat /\ IsFiniteSet(X) /\ X # {}
  BY DEF FiniteSubsetsOf
<1>4. PICK x \in X : TRUE
  BY <1>3
<1>5. X \ {x} \in FiniteSubsetsOf(Nat) /\ <<X \ {x}, X>> \in StrictSubsetOrdering(Nat)
  BY <1>3, <1>4, FS_RemoveElement DEF FiniteSubsetsOf, StrictSubsetOrdering
<1>6. X \ {x} \notin Topless
  BY <1>2, <1>5
<1>7. CASE X \ {x} = {}
  <2>1. X = {x} /\ x \in Nat
    BY <1>3, <1>4, <1>7
  <2> QED
    BY <1>2, <2>1
<1>8. ASSUME NEW m \in X \ {x}, \A d \in X \ {x} : d <= m PROVE FALSE
  <2>1. \A d \in X : d <= m \/ d = x
    BY <1>8
  <2>2. CASE x <= m
    BY <1>2, <1>3, <1>8, <2>1, <2>2
  <2>3. CASE ~(x <= m)
    <3>1. \A d \in X : d <= x
      BY <1>3, <1>4, <1>8, <2>1, <2>3
    <3> QED
      BY <1>2, <1>4, <3>1
  <2> QED
    BY <2>2, <2>3
<1> QED
  BY <1>5, <1>6, <1>7, <1>8

(* Every non-empty set of numbers has a least element.                     *)
LEMMA Least ==
  ASSUME NEW S \in SUBSET Nat, S # {}
  PROVE  \E m \in S : \A d \in S : m <= d
<1>1. PICK m \in S : \A d \in S : <<d, m>> \notin OpToRel(<, Nat)
  BY NatLessThanWellFounded, WFMin
<1>2. \A d \in S : ~(d < m)
  BY <1>1 DEF OpToRel
<1> QED
  BY <1>2

Limits == config.cap \in Nat /\ config.tokens \in Nat

LEMMA ConfigTyped == ASSUME config \in Configs PROVE Limits
  BY CascadeAssumption DEF Limits

Below(c, S) == {d \in S : d < c}

(* A smaller number has fewer numbers below it.                            *)
LEMMA BelowGrows ==
  ASSUME NEW S \in SUBSET Nat, IsFiniteSet(S), NEW c \in S, NEW d \in S, c < d
  PROVE  /\ Cardinality(Below(c, S)) \in Nat /\ Cardinality(Below(d, S)) \in Nat
         /\ Cardinality(Below(c, S)) < Cardinality(Below(d, S))
<1>1. Below(d, S) \in SUBSET S /\ Below(c, S) \in SUBSET Below(d, S)
  <2>1. \A x \in S : x < c => x < d
    <3>1. \A x \in S : x \in Nat
      OBVIOUS
    <3> QED
      BY <3>1
  <2> QED
    BY <2>1 DEF Below
<1>2. c \in Below(d, S) /\ c \notin Below(c, S)
  BY DEF Below
<1>3. IsFiniteSet(Below(d, S)) /\ IsFiniteSet(Below(c, S))
  BY <1>1, FS_Subset
<1>4. /\ Cardinality(Below(c, S)) \in Nat /\ Cardinality(Below(d, S)) \in Nat
  BY <1>3, FS_CardinalityType
<1>5. /\ Cardinality(Below(c, S)) <= Cardinality(Below(d, S))
      /\ Cardinality(Below(d, S)) # Cardinality(Below(c, S))
  BY <1>1, <1>2, <1>3, FS_Subset
<1> QED
  BY <1>4, <1>5

(* No more than n numbers have less than n below them.                     *)
LEMMA FirstOnes ==
  ASSUME NEW S \in SUBSET Nat, IsFiniteSet(S), NEW n \in Nat \ {0}
  PROVE  Cardinality({c \in S : Cardinality(Below(c, S)) < n}) <= n
<1> DEFINE First == {c \in S : Cardinality(Below(c, S)) < n}
           f == [c \in First |-> Cardinality(Below(c, S))]
<1>1. IsFiniteSet(0 .. (n - 1)) /\ Cardinality(0 .. (n - 1)) = n
  BY FS_Interval
<1>2. \A c \in S : Cardinality(Below(c, S)) \in Nat
  <2>1. \A c \in S : Below(c, S) \in SUBSET S
    BY DEF Below
  <2> QED
    BY <2>1, FS_Subset, FS_CardinalityType
<1>3. f \in [First -> 0 .. (n - 1)]
  <2>1. \A c \in First : Cardinality(Below(c, S)) \in 0 .. (n - 1)
    BY <1>2
  <2> QED
    BY <2>1
<1>4. \A c, d \in First : c # d => f[c] # f[d]
  <2> SUFFICES ASSUME NEW c \in First, NEW d \in First, c # d PROVE f[c] # f[d]
    OBVIOUS
  <2>1. c < d \/ d < c
    OBVIOUS
  <2> QED
    BY <2>1, BelowGrows
<1>5. f \in Injection(First, 0 .. (n - 1))
  BY <1>3, <1>4 DEF Injection, IsInjective
<1>6. Cardinality(First) <= Cardinality(0 .. (n - 1))
  BY <1>1, <1>5, FS_Injection
<1> QED
  BY <1>1, <1>6

(* The choice of the point at the centre is not vacuous.                   *)
LEMMA CentreExists ==
  ASSUME NEW S \in SUBSET Nat, IsFiniteSet(S), S # {}
  PROVE  \E c \in S : \A d \in S :
            \/ Distance(c, S) < Distance(d, S)
            \/ Distance(c, S) = Distance(d, S) /\ c <= d
<1> DEFINE top == CHOOSE m \in S : \A d \in S : d <= m
<1>1. top \in S
  BY Greatest
<1>2. top \div 2 \in Nat
  <2>1. \A m \in Nat : m \div 2 \in Nat
    OBVIOUS
  <2> HIDE DEF top
  <2> QED
    BY <1>1, <2>1
<1>3. \A c \in S : Distance(c, S) \in Nat
  BY <1>2 DEF Distance
<1> DEFINE Near == {Distance(c, S) : c \in S}
<1>4. PICK n \in Near : \A x \in Near : n <= x
  BY <1>3, Least
<1> DEFINE Nearest == {c \in S : Distance(c, S) = n}
<1>5. PICK c \in Nearest : \A d \in Nearest : c <= d
  BY Least
<1>6. ASSUME NEW d \in S
      PROVE  \/ Distance(c, S) < Distance(d, S)
             \/ Distance(c, S) = Distance(d, S) /\ c <= d
  BY <1>3, <1>4, <1>5
<1> QED
  BY <1>5, <1>6

(* What max_structure_points leaves: some of the points, at least one and  *)
(* no more than the limit.                                                 *)
LEMMA CappedFacts ==
  ASSUME config \in Configs, NEW occupied \in SUBSET Cells
  PROVE  /\ Capped(occupied) \in SUBSET Cells
         /\ occupied # {} => Capped(occupied) # {}
         /\ config.cap # 0 => Cardinality(Capped(occupied)) <= config.cap
<1>1. /\ occupied \in SUBSET Nat /\ IsFiniteSet(occupied) /\ config.cap \in Nat
      /\ Cardinality(occupied) \in Nat
  BY CascadeAssumption, ConfigTyped, FS_Subset, FS_CardinalityType DEF Limits
<1>2. CASE config.cap = 0 \/ Cardinality(occupied) <= config.cap
  BY <1>1, <1>2 DEF Capped
<1>3. CASE config.cap # 0 /\ ~(Cardinality(occupied) <= config.cap)
  <2>1. occupied # {}
    BY <1>1, <1>3, FS_EmptySet
  <2>2. CASE config.cap = 1
    <3> DEFINE centre == CHOOSE c \in occupied : \A d \in occupied :
                           \/ Distance(c, occupied) < Distance(d, occupied)
                           \/ Distance(c, occupied) = Distance(d, occupied) /\ c <= d
    <3>1. centre \in occupied
      BY <1>1, <2>1, CentreExists
    <3>2. Capped(occupied) = {centre}
      BY <1>3, <2>2 DEF Capped
    <3> HIDE DEF centre
    <3> QED
      BY <2>2, <3>1, <3>2, FS_Singleton
  <2>3. CASE config.cap # 1
    <3>1. Capped(occupied) = {c \in occupied : Cardinality(Below(c, occupied)) < config.cap}
      BY <1>3, <2>3 DEF Capped, Below
    <3>2. PICK c \in occupied : \A d \in occupied : c <= d
      BY <1>1, <2>1, Least
    <3>3. Below(c, occupied) = {}
      <4>1. \A d \in occupied : c \in Nat /\ d \in Nat /\ c <= d
        BY <1>1, <3>2
      <4>2. \A d \in occupied : ~(d < c)
        BY <4>1
      <4> QED
        BY <4>2 DEF Below
    <3>4. c \in Capped(occupied)
      BY <1>1, <1>3, <3>1, <3>3, FS_EmptySet
    <3> QED
      BY <1>1, <1>3, <3>1, <3>4, FirstOnes
  <2> QED
    BY <2>2, <2>3
<1> QED
  BY <1>2, <1>3

-----------------------------------------------------------------------------
InStage == pc \in {"noise", "condition", "sample", "sampling"}
Writing == pc \in {"write", "writing", "close"}
Decoded == pc \in {"decode", "paint", "mesh"} \/ Writing \/ (pc = "return" /\ why = "none")
Using == InStage \/ pc \in {"upsample", "decode", "paint", "mesh"}

(* Nothing has gone wrong until the cascade returns, and what it uses it   *)
(* has loaded.                                                             *)
WalkInv ==
    /\ pc \notin {"return", "failed", "exit"} => why = "none"
    /\ pc \in {"preflight", "dino", "naf", "encode", "estimate"} => at = 1
    /\ pc = "upsample" => at = 2
    /\ pc = "load" => \A i \in 1..7 : i < at => Loading[i] \in loaded
    /\ Using => CascadeModels \subseteq loaded

GuardInv ==
    /\ GuardBeforeLoading
    /\ pc \in {"dino", "naf", "load"} => config.fits

GpuInv ==
    /\ SlatFlows \cap vram \subseteq IF pc = "sampling" THEN {FlowOf[at]} ELSE {}
    /\ Writing => vram \subseteq Vision

(* The tensors of a stage are checked in the order they are built.         *)
StageInv ==
    /\ pc \in {"condition", "sample", "sampling"} => noise = Requested
    /\ pc \in {"sample", "sampling"} => condition \in {noise, {}}
    /\ pc \in {"sample", "sampling"} /\ condition = {} /\ config.projected => strayed

(* What the stages before have left for this one.                          *)
OutInv ==
    /\ InStage /\ at = 2 => out["structure"] # {}
    /\ InStage /\ at \in 3..4 => out["high"] # {}
    /\ InStage /\ at = 4 => out["shape"] = out["high"]
    /\ Decoded => out["shape"] = out["high"] /\ out["texture"] = out["high"]
    /\ Decoded /\ pc # "decode" => out["guide"] = out["shape"]
    /\ Decoded /\ pc \notin {"decode", "paint"} => out["painted"] = out["decoded"]
    /\ Decoded /\ pc \notin {"decode", "paint", "mesh"} => out["mesh"] = out["decoded"]

LimitInv ==
    /\ InStage /\ at = 2 /\ config.cap # 0 => Cardinality(out["structure"]) <= config.cap
    /\ InStage /\ at \in 3..4 /\ config.tokens # 0
          => Cardinality(out["high"]) <= config.tokens

FileInv ==
    file # "old" =>
        pc \in {"writing", "close", "exit"} /\ why = "none" /\ out["mesh"] = out["decoded"]

CascadeInv ==
    /\ TypeOK /\ WalkInv /\ GuardInv /\ GpuInv
    /\ StageInv /\ OutInv /\ LimitInv /\ FileInv /\ BuildersBlamed

(* The models behind the numbers used in loading and sampling.             *)
LEMMA Numbered ==
  /\ \A i \in 1..7 : Loading[i] \in CascadeModels
  /\ \A m \in CascadeModels : \E i \in 1..7 : m = Loading[i]
  /\ Loading[1] \notin SlatFlows /\ Loading[2] \notin SlatFlows
  /\ \A i \in 1..4 : FlowOf[i] \in CascadeModels
  /\ SlatFlows \subseteq CascadeModels /\ CascadeModels \cap Vision = {}
  /\ {"shape_decoder", "texture_decoder"} \subseteq CascadeModels \ SlatFlows
<1>1. \A i \in 1..7 : Loading[i] \in CascadeModels
  BY DEF CascadeModels
<1>2. \A m \in CascadeModels : \E i \in 1..7 : m = Loading[i]
  BY DEF CascadeModels
<1>3. CascadeModels = {"ss_flow", "ss_decoder", "shape_flow_low", "shape_flow_high",
                       "texture_flow", "shape_decoder", "texture_decoder"}
  <2>1. \A i \in 1..7 : i = 1 \/ i = 2 \/ i = 3 \/ i = 4 \/ i = 5 \/ i = 6 \/ i = 7
    OBVIOUS
  <2>2. Loading[1] = "ss_flow" /\ Loading[2] = "ss_decoder"
        /\ Loading[3] = "shape_flow_low" /\ Loading[4] = "shape_flow_high"
        /\ Loading[5] = "texture_flow" /\ Loading[6] = "shape_decoder"
        /\ Loading[7] = "texture_decoder"
    BY DEF Loading
  <2>3. \A m : m \in CascadeModels <=>
            m \in {Loading[1], Loading[2], Loading[3], Loading[4], Loading[5],
                   Loading[6], Loading[7]}
    BY <2>1 DEF CascadeModels
  <2> QED
    BY <2>2, <2>3
<1>4. \A i \in 1..4 : FlowOf[i] \in CascadeModels
  <2>1. \A i \in 1..4 : i = 1 \/ i = 2 \/ i = 3 \/ i = 4
    OBVIOUS
  <2>2. FlowOf[1] = "ss_flow" /\ FlowOf[2] = "shape_flow_low"
        /\ FlowOf[3] = "shape_flow_high" /\ FlowOf[4] = "texture_flow"
    BY DEF FlowOf
  <2> QED
    BY <1>3, <2>1, <2>2
<1>5. Loading[1] \notin SlatFlows /\ Loading[2] \notin SlatFlows
  BY DEF Loading, SlatFlows
<1> QED
  BY <1>1, <1>2, <1>3, <1>4, <1>5 DEF SlatFlows, Vision

(* A decoder that is loaded comes and goes; no other model moves.          *)
LEMMA DecoderMoves ==
  ASSUME TypeOK, CascadeModels \subseteq loaded,
         NEW m \in {"shape_decoder", "texture_decoder"}, Decoder(m)
  PROVE  /\ vram' \subseteq loaded /\ SlatFlows \cap vram' = SlatFlows \cap vram
         /\ attempted' \subseteq {"shape_decoder", "texture_decoder"}
  BY Numbered DEF Decoder, TypeOK

(* CascadeInv holds: one case per step of a run.                           *)
THEOREM CascadeInvariant == Spec => []CascadeInv
<1> USE CascadeAssumption
<1>1. Init => CascadeInv
  <2> SUFFICES ASSUME Init PROVE CascadeInv
    OBVIOUS
  <2>1. TypeOK
    <3>1. strayed \in BOOLEAN
      BY Zenon DEF Init
    <3> QED
      BY <3>1 DEF Init, TypeOK, Steps, Reasons
  <2>2. WalkInv /\ GuardInv /\ GpuInv
    BY DEF Init, WalkInv, GuardInv, GpuInv, GuardBeforeLoading, InStage, Writing, Using
  <2>3. StageInv /\ OutInv /\ LimitInv /\ FileInv /\ BuildersBlamed
    BY DEF Init, StageInv, OutInv, LimitInv, FileInv, BuildersBlamed, InStage, Writing,
           Decoded
  <2> QED
    BY <2>1, <2>2, <2>3 DEF CascadeInv
<1>2. CascadeInv /\ [Next]_vars => CascadeInv'
  <2> SUFFICES ASSUME CascadeInv, [Next]_vars PROVE CascadeInv'
    OBVIOUS
  <2> USE DEF CascadeInv, TypeOK, WalkInv, GuardInv, GuardBeforeLoading, GpuInv,
        StageInv, OutInv, LimitInv, FileInv, BuildersBlamed, InStage, Writing, Decoded,
        Using, Steps, Reasons, Fields, run, models, built, Goto, Exit, Fail
  <2>1. CASE Preflight
    BY <2>1 DEF Preflight, Fits
  <2>2. CASE LoadDino
    BY <2>2, Numbered DEF LoadDino, LoadVision, Vision
  <2>3. CASE LoadNaf
    BY <2>3, Numbered DEF LoadNaf, LoadVision, Vision
  <2>4. CASE Encode
    BY <2>4 DEF Encode
  <2>5. CASE Estimate
    BY <2>5 DEF Estimate
  <2>6. CASE Load
    BY <2>6, Numbered DEF Load
  <2>7. CASE Return
    BY <2>7, Numbered DEF Return, Report, Freed
  <2>8. CASE Failed
    BY <2>8 DEF Failed
  <2>9. CASE BuildNoise
    <3>a. Requested' = Requested
      BY <2>9 DEF BuildNoise, Requested
    <3>b. Requested # {}
      BY <2>9 DEF BuildNoise, Requested
    <3>1. TypeOK'
      BY <2>9, <3>a, <3>b DEF BuildNoise, SameCoords
    <3>2. (WalkInv /\ GuardInv)'
      BY <2>9, <3>a, <3>b DEF BuildNoise, SameCoords
    <3>3. GpuInv'
      BY <2>9, <3>a, <3>b DEF BuildNoise, SameCoords
    <3>4. (StageInv /\ OutInv)'
      BY <2>9, <3>a, <3>b DEF BuildNoise, SameCoords
    <3>5. (LimitInv /\ FileInv /\ BuildersBlamed)'
      BY <2>9, <3>a, <3>b DEF BuildNoise, SameCoords
    <3> QED
      BY <3>1, <3>2, <3>3, <3>4, <3>5
  <2>10. CASE BuildCondition
    <3>a. Requested' = Requested
      BY <2>10 DEF BuildCondition, Requested
    <3>b. Requested # {}
      BY <2>10 DEF BuildCondition, Requested
    <3>1. TypeOK'
      BY <2>10, <3>a, <3>b DEF BuildCondition, SameCoords
    <3>2. (WalkInv /\ GuardInv)'
      BY <2>10, <3>a, <3>b DEF BuildCondition, SameCoords
    <3>3. GpuInv'
      BY <2>10, <3>a, <3>b DEF BuildCondition, SameCoords
    <3>4. (StageInv /\ OutInv)'
      BY <2>10, <3>a, <3>b DEF BuildCondition, SameCoords
    <3>5. (LimitInv /\ FileInv /\ BuildersBlamed)'
      BY <2>10, <3>a, <3>b DEF BuildCondition, SameCoords
    <3> QED
      BY <3>1, <3>2, <3>3, <3>4, <3>5
  <2>11. CASE Sample
    BY <2>11, Numbered DEF Sample, Aligned, SameCoords, Requested
  <2>12. CASE Sampled
    BY <2>12, Numbered, CappedFacts DEF Sampled, Released, NextStage, Requested
  <2>13. CASE Upsample
    <3>a. /\ vram' \subseteq loaded' /\ SlatFlows \cap vram' = SlatFlows \cap vram
          /\ attempted' \subseteq {"shape_decoder", "texture_decoder"}
      BY <2>13, DecoderMoves DEF Upsample
    <3>1. CASE Fail("compute") \/ Fail("tokens")
      <4>1. UNCHANGED out
        BY <2>13, <3>1 DEF Upsample, NextStage
      <4> QED
        BY <2>13, <3>1, <3>a, <4>1 DEF Upsample
    <3>2. ASSUME NEW coords \in SUBSET Cells, ~TooMany(coords),
                 out' = [out EXCEPT !["high"] = coords],
                 IF coords = {} THEN Fail("empty") ELSE NextStage("noise")
          PROVE  CascadeInv'
      <4>1. Cardinality(coords) \in Nat /\ config.tokens \in Nat
        BY FS_Subset, FS_CardinalityType, ConfigTyped DEF Limits
      <4>2. config.tokens # 0 => Cardinality(coords) <= config.tokens
        BY <3>2, <4>1 DEF TooMany
      <4>3. out' \in [Fields -> SUBSET Cells] /\ out'["high"] = coords
            /\ out'["mesh"] = out["mesh"] /\ out'["decoded"] = out["decoded"]
        BY <3>2
      <4> QED
        BY <2>13, <3>2, <3>a, <4>2, <4>3 DEF Upsample, NextStage
    <3> QED
      BY <2>13, <3>1, <3>2 DEF Upsample
  <2>14. CASE Decode
    <3>a. /\ vram' \subseteq loaded' /\ SlatFlows \cap vram' = SlatFlows \cap vram
          /\ attempted' \subseteq {"shape_decoder", "texture_decoder"}
      BY <2>14, DecoderMoves DEF Decode
    <3>1. CASE Fail("compute") /\ UNCHANGED out
      BY <2>14, <3>1, <3>a DEF Decode
    <3>2. ASSUME NEW kept \in SUBSET Cells, Goto("paint"),
                 out' = [out EXCEPT !["guide"] = Latent, !["decoded"] = kept]
          PROVE  CascadeInv'
      <4>1. out' \in [Fields -> SUBSET Cells] /\ out'["guide"] = out["shape"]
            /\ \A f \in Fields \ {"guide", "decoded"} : out'[f] = out[f]
        BY <3>2 DEF Latent
      <4> QED
        BY <2>14, <3>2, <3>a, <4>1 DEF Decode
    <3> QED
      BY <2>14, <3>1, <3>2 DEF Decode
  <2>15. CASE Paint
    <3>a. /\ vram' \subseteq loaded' /\ SlatFlows \cap vram' = SlatFlows \cap vram
          /\ attempted' \subseteq {"shape_decoder", "texture_decoder"}
      BY <2>15, DecoderMoves DEF Paint
    <3>b. out["guide"] = out["texture"]
      BY <2>15 DEF Paint
    <3>1. ASSUME Fail("compute"), out' \in {out, [f \in Fields |-> {}]} PROVE CascadeInv'
      <4>1. out' \in [Fields -> SUBSET Cells]
        BY <3>1
      <4> QED
        BY <2>15, <3>1, <3>a, <4>1 DEF Paint
    <3>2. ASSUME Goto("mesh"), out' = [out EXCEPT !["painted"] = out["decoded"]]
          PROVE  CascadeInv'
      <4>1. out' \in [Fields -> SUBSET Cells] /\ out'["painted"] = out["decoded"]
            /\ \A f \in Fields \ {"painted"} : out'[f] = out[f]
        BY <3>2
      <4> QED
        BY <2>15, <3>2, <3>a, <4>1 DEF Paint
    <3> QED
      BY <2>15, <3>1, <3>2, <3>b DEF Paint, SameCoords
  <2>16. CASE Mesh
    BY <2>16 DEF Mesh
  <2>17. CASE Open
    BY <2>17 DEF Open
  <2>18. CASE Write
    BY <2>18 DEF Write
  <2>19. CASE Close
    BY <2>19 DEF Close
  <2>20. CASE UNCHANGED vars
    BY <2>20 DEF vars, Requested
  <2> QED
    BY <2>1, <2>2, <2>3, <2>4, <2>5, <2>6, <2>7, <2>8, <2>9, <2>10, <2>11, <2>12,
       <2>13, <2>14, <2>15, <2>16, <2>17, <2>18, <2>19, <2>20 DEF Next
<1>3. QED
  BY <1>1, <1>2, PTL DEF Spec

(* Every variable keeps its type; what is on the GPU has been loaded.      *)
THEOREM TypeCorrect == Spec => []TypeOK
<1>1. CascadeInv => TypeOK
  BY DEF CascadeInv
<1>2. QED
  BY <1>1, CascadeInvariant, PTL

(* A sampler gets noise, condition and shape latent of the same points,    *)
(* however the builders answer.                                            *)
THEOREM InputsMatch == Spec => []SampledTogether
<1>1. CascadeInv => SampledTogether
  BY DEF CascadeInv, StageInv, OutInv, SampledTogether, InStage, Requested, TypeOK
<1>2. QED
  BY <1>1, CascadeInvariant, PTL

(* What is written has material and mesh from the same coordinates.        *)
THEOREM MaterialMatches == Spec => []TextureOnShape
<1>1. CascadeInv => TextureOnShape
  BY DEF CascadeInv, OutInv, WalkInv, Decoded, Writing, TextureOnShape
<1>2. QED
  BY <1>1, CascadeInvariant, PTL

(* Coordinates are complained of only after a builder returned wrong ones. *)
THEOREM OnlyBuildersBlamed == Spec => []BuildersBlamed
<1>1. CascadeInv => BuildersBlamed
  BY DEF CascadeInv
<1>2. QED
  BY <1>1, CascadeInvariant, PTL

(* The three SLat samplers are on the GPU one at a time, and nothing of the*)
(* cascade is there when the mesh is written.                              *)
THEOREM FlowsTakeTurns == Spec => []OneFlowOnGpu
<1>1. CascadeInv => OneFlowOnGpu
  BY DEF CascadeInv, GpuInv, Writing, OneFlowOnGpu
<1>2. QED
  BY <1>1, CascadeInvariant, PTL

(* No model is loaded when the estimate exceeds the limit.                 *)
THEOREM GuardedLoading == Spec => []GuardBeforeLoading
<1>1. CascadeInv => GuardBeforeLoading
  BY DEF CascadeInv, GuardInv
<1>2. QED
  BY <1>1, CascadeInvariant, PTL

(* No sampler sees more points than the two limits allow.                  *)
THEOREM SamplersWithinLimits == Spec => []WithinLimits
<1>1. CascadeInv => WithinLimits
  BY DEF CascadeInv, StageInv, LimitInv, TypeOK, InStage, Requested, WithinLimits
<1>2. QED
  BY <1>1, CascadeInvariant, PTL

(* A run touches the output file only with a complete mesh in its hands.   *)
THEOREM ResultsKept == Spec => []OldFileKept
<1>1. CascadeInv => OldFileKept
  BY DEF CascadeInv, FileInv, OldFileKept
<1>2. QED
  BY <1>1, CascadeInvariant, PTL

(* What is sampled, painted and written belongs together: the same points, *)
(* the same mesh, and any mismatch is a builder's.                         *)
THEOREM EverythingTogether == Spec => []TensorsTogether
<1>1. SampledTogether /\ TextureOnShape /\ BuildersBlamed => TensorsTogether
  BY DEF TensorsTogether
<1>2. QED
  BY <1>1, InputsMatch, MaterialMatches, OnlyBuildersBlamed, PTL

(* The memory limit and the limits on points hold in every run, and the    *)
(* samplers take turns on the GPU.                                         *)
THEOREM BoundsKept == Spec => []WithinBounds
<1>1. GuardBeforeLoading /\ WithinLimits /\ OneFlowOnGpu => WithinBounds
  BY DEF WithinBounds
<1>2. QED
  BY <1>1, GuardedLoading, SamplersWithinLimits, FlowsTakeTurns, PTL

-----------------------------------------------------------------------------
(* The GPU stage of a flow.                                                *)

GpuSteps == {"enter", "rope", "build", "upload", "compute"}
Closing == {"closeRuntime", "closeWeights", "closeManager"}

(* What is open at each step of opening, computing and closing.            *)
StageHeld ==
    /\ step \in GpuSteps => manager /\ weights
    /\ ManagerOutlives
    /\ step \in {"open", "closeWeights", "closeManager"} => ~scheduler
    /\ step \in {"open", "closeManager"} => ~weights

(* A cached graph has its buffers, and is for this call once it is used.   *)
GraphKept ==
    /\ key # None => scheduler
    /\ step = "rope" => key \in {None, Wanted}
    /\ step = "build" => key = None
    /\ step \in {"upload", "compute"} => key = Wanted /\ key # None

(* Tables count as uploaded only while the graph that holds them is there. *)
TablesKept ==
    /\ uploaded => key # None /\ ropeOnGpu = ropeCoords
    /\ step \in {"build", "upload", "compute"} => ropeCoords = call.coords
    /\ step = "compute" => uploaded

(* The GPU is used, and left for the CPU, only as the policy allows.       *)
PolicyKept ==
    /\ policy = "cpu" => ~manager /\ ~weights
    /\ step \in GpuSteps \cup {"init", "open"} => policy \in {"auto", "gpu"}
    /\ step \in Closing /\ after = "open" => policy \in {"auto", "gpu"}
    /\ step \in Closing /\ after = "cpu" => policy = "auto"

FlowStageInv ==
    FlowTypeOK /\ StageHeld /\ GraphKept /\ TablesKept /\ PolicyKept /\ CpuAlone
           /\ IdleAfterSample

(* The shapes of a call are a key a graph may be cached under.             *)
LEMMA WantedIsKey ==
    ASSUME call \in Calls
    PROVE  Wanted \in Keys /\ Wanted # None
  BY FlowAssumption DEF Wanted, Calls, Keys

(* Every variable keeps its type: no step leaves a call in a state the     *)
(* code does not have, and a sampler does not run out of its steps.        *)
THEOREM FlowTypeCorrect == FlowSpec => []FlowTypeOK
<1>1. FlowInit => FlowTypeOK
  BY DEF FlowInit, FlowTypeOK, FlowSteps
<1>2. FlowTypeOK /\ [FlowNext]_flowVars => FlowTypeOK'
  <2> SUFFICES ASSUME FlowTypeOK, [FlowNext]_flowVars PROVE FlowTypeOK'
    OBVIOUS
  <2> USE FlowAssumption, WantedIsKey
      DEF FlowTypeOK, FlowSteps, stage, graph, rope, CloseGpu, GiveUp, ReturnCall
  <2>1. ASSUME NEW c \in Calls, Begin(c) PROVE FlowTypeOK'
    BY <2>1 DEF Begin
  <2>2. CASE Choose
    BY <2>2 DEF Choose
  <2>3. CASE InitGpu
    BY <2>3 DEF InitGpu
  <2>4. CASE OpenGpu
    BY <2>4 DEF OpenGpu
  <2>5. CASE Enter
    BY <2>5 DEF Enter, CloseRuntime, ForgetRope
  <2>6. CASE Rope
    <3>1. CASE UNCHANGED rope
      BY <2>6, <3>1 DEF Rope
    <3>2. CASE ropeCoords' = call.coords /\ uploaded' = Recomputed
      <4>1. call \in Calls /\ call.coords \in Coords
        BY <2>6 DEF Rope, Calls
      <4> QED BY <2>6, <3>2, <4>1 DEF Rope, Recomputed
    <3> QED BY <2>6, <3>1, <3>2 DEF Rope
  <2>7. CASE Build
    BY <2>7 DEF Build, CloseRuntime, ForgetRope
  <2>8. CASE Upload
    BY <2>8 DEF Upload
  <2>9. CASE Compute
    BY <2>9 DEF Compute
  <2>10. CASE OnCpu
    BY <2>10 DEF OnCpu
  <2>11. CASE Returned
    BY <2>11 DEF Returned, More, Calls
  <2>12. CASE FailedCall
    BY <2>12 DEF FailedCall
  <2>13. CASE FreeRuntime
    BY <2>13 DEF FreeRuntime, CloseRuntime, ForgetRope
  <2>14. CASE FreeWeights
    BY <2>14 DEF FreeWeights
  <2>15. CASE CloseManager
    BY <2>15 DEF CloseManager
  <2>16. CASE UNCHANGED flowVars
    BY <2>16 DEF flowVars
  <2> QED
    BY <2>1, <2>2, <2>3, <2>4, <2>5, <2>6, <2>7, <2>8, <2>9, <2>10, <2>11, <2>12,
       <2>13, <2>14, <2>15, <2>16 DEF FlowNext, Step
<1>3. QED
  BY <1>1, <1>2, PTL DEF FlowSpec

(* FlowStageInv holds: one case per step of a call.                            *)
THEOREM FlowStageInvariant == FlowSpec => []FlowStageInv
<1> DEFINE Parts == StageHeld /\ GraphKept /\ TablesKept /\ PolicyKept /\ CpuAlone
                              /\ IdleAfterSample
<1>1. FlowInit => Parts
  BY DEF FlowInit, StageHeld, ManagerOutlives, GraphKept, TablesKept, PolicyKept, CpuAlone,
         IdleAfterSample, GpuSteps, Closing
<1>2. FlowTypeOK /\ Parts /\ [FlowNext]_flowVars => Parts'
  <2> SUFFICES ASSUME FlowTypeOK, Parts, [FlowNext]_flowVars PROVE Parts'
    OBVIOUS
  <2> USE WantedIsKey
      DEF FlowTypeOK, StageHeld, ManagerOutlives, GraphKept, TablesKept, PolicyKept,
          CpuAlone, IdleAfterSample, GpuSteps, Closing, stage, graph, rope,
          CloseGpu, GiveUp, ReturnCall
  <2>1. ASSUME NEW c \in Calls, Begin(c) PROVE Parts'
    BY <2>1 DEF Begin
  <2>2. CASE Choose
    BY <2>2 DEF Choose
  <2>3. CASE InitGpu
    BY <2>3 DEF InitGpu
  <2>4. CASE OpenGpu
    BY <2>4 DEF OpenGpu
  <2>5. CASE Enter
    BY <2>5 DEF Enter, CloseRuntime, ForgetRope, Wanted
  <2>6. CASE Rope
    BY <2>6 DEF Rope, Recomputed, Wanted
  <2>7. CASE Build
    BY <2>7 DEF Build, CloseRuntime, ForgetRope, Wanted
  <2>8. CASE Upload
    BY <2>8 DEF Upload, Wanted
  <2>9. CASE Compute
    BY <2>9 DEF Compute
  <2>10. CASE OnCpu
    BY <2>10 DEF OnCpu
  <2>11. CASE Returned
    BY <2>11 DEF Returned, More
  <2>12. CASE FailedCall
    BY <2>12 DEF FailedCall
  <2>13. CASE FreeRuntime
    BY <2>13 DEF FreeRuntime, CloseRuntime, ForgetRope
  <2>14. CASE FreeWeights
    BY <2>14 DEF FreeWeights
  <2>15. CASE CloseManager
    BY <2>15 DEF CloseManager
  <2>16. CASE UNCHANGED flowVars
    BY <2>16 DEF flowVars, Wanted
  <2> QED
    BY <2>1, <2>2, <2>3, <2>4, <2>5, <2>6, <2>7, <2>8, <2>9, <2>10, <2>11, <2>12,
       <2>13, <2>14, <2>15, <2>16 DEF FlowNext, Step
<1>3. QED
  BY <1>1, <1>2, FlowTypeCorrect, PTL DEF FlowSpec, FlowStageInv

(* The rotary tables on the GPU are those of the coordinates of the call.  *)
THEOREM RopeCurrent == FlowSpec => []RopeIsCurrent
<1>1. FlowStageInv => RopeIsCurrent
  BY DEF FlowStageInv, TablesKept, RopeIsCurrent
<1>2. QED
  BY <1>1, FlowStageInvariant, PTL

(* A graph is computed only for the shapes it was built for, with its      *)
(* weights, buffers and backends in place.                                 *)
THEOREM GraphFitting == FlowSpec => []GraphFits
<1>1. FlowStageInv => GraphFits
  BY DEF FlowStageInv, StageHeld, GraphKept, GraphFits, GpuSteps, Wanted
<1>2. QED
  BY <1>1, FlowStageInvariant, PTL

(* The backends outlive the weights and the graph in every teardown.       *)
THEOREM ManagerLast == FlowSpec => []ManagerOutlives
<1>1. FlowStageInv => ManagerOutlives
  BY DEF FlowStageInv, StageHeld
<1>2. QED
  BY <1>1, FlowStageInvariant, PTL

(* The CPU takes over only from a closed GPU and never under a gpu policy. *)
THEOREM CpuTakesOver == FlowSpec => []CpuAlone
<1>1. FlowStageInv => CpuAlone
  BY DEF FlowStageInv
<1>2. QED
  BY <1>1, FlowStageInvariant, PTL

(* After sample() nothing of the stage is left on the GPU.                 *)
THEOREM SampleGivesBack == FlowSpec => []IdleAfterSample
<1>1. FlowStageInv => IdleAfterSample
  BY DEF FlowStageInv
<1>2. QED
  BY <1>1, FlowStageInvariant, PTL

(* Both together: the stage is torn down in order and never left behind.   *)
THEOREM StageGivesBack == FlowSpec => []GivenBack
<1>1. ManagerOutlives /\ IdleAfterSample => GivenBack
  BY DEF GivenBack
<1>2. QED
  BY <1>1, ManagerLast, SampleGivesBack, PTL
=============================================================================
