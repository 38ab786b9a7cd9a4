---------------------------- MODULE BundleFormat ----------------------------
(***************************************************************************)
(* The condition bundles of src/src/condition.cpp: what a valid bundle is  *)
(* and the words a save writes for it.  A P3DCOND bundle holds one view    *)
(* per stage, a P3DMVCON bundle up to MaxViews views with their cameras.   *)
(*                                                                         *)
(* A file is a sequence of words <<kind, value>>: "u" an unsigned integer, *)
(* "f" a float (NotFinite is the only value the code tells apart), "s" the *)
(* magic or the bytes of a name.  A word read as the wrong kind is what    *)
(* its bytes are: a float or a name read as an integer is Huge, anything   *)
(* but NotFinite read as a float is a finite float.                        *)
(***************************************************************************)
EXTENDS Integers, Sequences, SequencesExt

CONSTANTS Floats,     \* the values of a payload and of a camera
          Names,      \* the names of stages
          NotFinite,  \* the float a payload must not hold
          Huge,       \* what float bits are as an integer: above every limit
          MaxStages,  \* stages of a bundle (condition.cpp:350, 380)
          MaxName,    \* bytes of a name (condition.cpp:423)
          MaxViews    \* views of a stage (condition.cpp:278)

ASSUME LimitsAssumption == /\ {Huge, MaxStages, MaxName, MaxViews} \subseteq Nat \ {0}
                           /\ Huge > MaxStages /\ Huge > MaxName /\ Huge > MaxViews

Version == 1
DinoMap == 0
NafMap  == 1
Magic(mv) == <<"s", IF mv THEN "P3DMVCON" ELSE "P3DCOND">>
U(n) == <<"u", n>>

\* An integer and a float read from a word of any kind.
AsInt(w)    == IF w[1] = "u" THEN w[2] ELSE Huge
IsFinite(w) == w # <<"f", NotFinite>>

-----------------------------------------------------------------------------
(* What a bundle is made of: the structs of condition.h.                   *)

FloatWords == {"f"} \X Floats
NameWords  == {"s"} \X Names

\* A feature map: image resolution, height, width, channels, features.  NoMap
\* is the map of a stage without NAF features.
FeatureMap == [res : Nat, h : Nat, w : Nat, c : Nat, feats : Seq(FloatWords)]
NoMap == [res |-> 0, h |-> 0, w |-> 0, c |-> 0, feats |-> <<>>]

\* A camera of a multi-view bundle: angle, distance and matrix are one word,
\* its mesh scale another, and whether it has a matrix.  A P3DCOND bundle has
\* no cameras.
NoCamera == [pose |-> U(0), scale |-> U(0), has |-> 0]
Camera   == [pose : FloatWords, scale : FloatWords, has : {0, 1}] \cup {NoCamera}

\* A view: its camera, the global tensor and the maps.  The rows of a global
\* tensor are offsets 0 and tokens, so its size is tokens * channels.
View   == [cam : Camera, tokens : Nat, c : Nat, feats : Seq(FloatWords),
           dino : FeatureMap, naf : FeatureMap]
HasNaf(v) == v.naf.feats # <<>>

\* A stage: its name, the bytes of the name and its views, which a P3DCOND
\* bundle has one of.  A map that is not given is empty.
Stage  == [len : Nat, name : NameWords, views : Seq(View)]
Bundle == {b \in [mv : BOOLEAN, stages : Seq(Stage)] :
              \A i \in DOMAIN b.stages :
                 LET s == b.stages[i] IN
                 /\ s.name # <<"s", "">> => s.len > 0
                 /\ ~b.mv => Len(s.views) = 1
                 /\ \A j \in DOMAIN s.views :
                       /\ ~b.mv => s.views[j].cam = NoCamera
                       /\ ~HasNaf(s.views[j]) => s.views[j].naf = NoMap}

-----------------------------------------------------------------------------
(* What valid() accepts.                                                   *)

MapValid(m) ==
    /\ m.res > 0 /\ m.h > 0 /\ m.w > 0 /\ m.c > 0
    /\ Len(m.feats) = m.h * m.w * m.c
    /\ \A i \in DOMAIN m.feats : IsFinite(m.feats[i])

GlobalValid(v) ==
    /\ v.tokens > 0 /\ v.c > 0 /\ Len(v.feats) = v.tokens * v.c
    /\ \A i \in DOMAIN v.feats : IsFinite(v.feats[i])

StageValid(s) ==
    /\ s.name # <<"s", "">>
    /\ GlobalValid(s.views[1])
    /\ MapValid(s.views[1].dino)
    /\ HasNaf(s.views[1]) => MapValid(s.views[1].naf)

CameraValid(cam) ==
    /\ IsFinite(cam.pose) /\ IsFinite(cam.scale)
    /\ cam.has = 1

ViewValid(v) ==
    /\ CameraValid(v.cam)
    /\ GlobalValid(v)
    /\ MapValid(v.dino)
    /\ HasNaf(v) => MapValid(v.naf)

\* The views of a stage must have the shapes and the scale of its first view.
SameShape(v, w) ==
    /\ v.c = w.c /\ v.tokens = w.tokens
    /\ v.dino.c = w.dino.c
    /\ HasNaf(v) = HasNaf(w) /\ v.naf.c = w.naf.c
    /\ v.cam.scale = w.cam.scale

StageMVValid(s) ==
    /\ s.name # <<"s", "">>
    /\ Len(s.views) \in 1..MaxViews
    /\ \A i \in DOMAIN s.views : /\ ViewValid(s.views[i])
                                 /\ SameShape(s.views[i], s.views[1])

NamesDistinct(b) ==
    \A i, j \in DOMAIN b.stages : b.stages[i].name = b.stages[j].name => i = j

BundleValid(b) ==
    /\ Len(b.stages) \in 1..MaxStages
    /\ NamesDistinct(b)
    /\ \A i \in DOMAIN b.stages : StageValid(b.stages[i])

BundleMVValid(b) ==
    /\ Len(b.stages) \in 1..MaxStages
    /\ NamesDistinct(b)
    /\ \A i \in DOMAIN b.stages :
          /\ StageMVValid(b.stages[i])
          /\ Len(b.stages[i].views) = Len(b.stages[1].views)

Valid(b) == IF b.mv THEN BundleMVValid(b) ELSE BundleValid(b)

-----------------------------------------------------------------------------
(* What a save writes: a sequence of blocks, one per test of the stream.   *)

HeaderWords(b) == <<Magic(b.mv), U(Version), U(Len(b.stages))>>

MapWords(role, m) == <<U(role), U(m.res), U(m.h), U(m.w), U(m.c)>> \o m.feats

\* The maps of a view: DINO first, then NAF when there is one.
MapsWords(v) ==
    MapWords(DinoMap, v.dino) \o (IF HasNaf(v) THEN MapWords(NafMap, v.naf) ELSE <<>>)

GlobalWords(v) ==
    <<U(v.tokens), U(v.c), U(IF HasNaf(v) THEN 2 ELSE 1)>> \o v.feats

StageBlocks(s) ==
    << <<U(s.len), s.name>> \o GlobalWords(s.views[1]), MapsWords(s.views[1]) >>

ViewBlocks(v) ==
    << <<v.cam.pose, v.cam.scale, U(v.cam.has)>> \o GlobalWords(v), MapsWords(v) >>

StageMVBlocks(s) ==
    << <<U(s.len), s.name, U(Len(s.views))>> >>
        \o FlattenSeq([i \in DOMAIN s.views |-> ViewBlocks(s.views[i])])

Blocks(b) ==
    <<HeaderWords(b)>> \o FlattenSeq([i \in DOMAIN b.stages |->
        IF b.mv THEN StageMVBlocks(b.stages[i]) ELSE StageBlocks(b.stages[i])])

\* The whole file of a bundle.
Encoding(b) == FlattenSeq(Blocks(b))
=============================================================================
