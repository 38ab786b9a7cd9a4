---------------------------- MODULE MCBundleFile ----------------------------
(***************************************************************************)
(* Two savers and one reader of one path.  The bundles: a P3DCOND one with *)
(* two stages and NAF maps, one whose name is too long to be read back,    *)
(* one with a non-finite feature, a P3DMVCON one with two views, and one   *)
(* whose views differ in scale.                                            *)
(***************************************************************************)
EXTENDS BundleFile, TLC

Map(v)      == [res |-> 4, h |-> 1, w |-> 1, c |-> 1, feats |-> << <<"f", v>> >>]
AView(v, cam, naf) == [cam |-> cam, tokens |-> 1, c |-> 1, feats |-> << <<"f", v>> >>,
                       dino |-> Map(v), naf |-> IF naf THEN Map(v) ELSE NoMap]
Single(n, len, v, naf) == [len |-> len, name |-> <<"s", n>>,
                           views |-> <<AView(v, NoCamera, naf)>>]
Cam(scale)  == [pose |-> <<"f", "pose">>, scale |-> <<"f", scale>>, has |-> 1]
Multi(v, w) == [len |-> 5, name |-> <<"s", "shape">>,
                views |-> <<AView(v, Cam("1"), FALSE), AView(v, Cam(w), FALSE)>>]

TwoStage == [mv |-> FALSE, stages |-> <<Single("shape", 5, "two", TRUE),
                                        Single("tex", 3, "two", FALSE)>>]
LongName == [mv |-> FALSE, stages |-> <<Single("long", 7, "old", FALSE)>>]
BadValue == [mv |-> FALSE, stages |-> <<Single("shape", 5, "nan", FALSE)>>]
TwoViews == [mv |-> TRUE, stages |-> <<Multi("new", "1")>>]
TwoScales == [mv |-> TRUE, stages |-> <<Multi("new", "2")>>]

MCFloats == {"two", "old", "nan", "new", "pose", "1", "2"}
MCNames  == {"shape", "tex", "long"}
MCBundles == {TwoStage, TwoViews, LongName, BadValue, TwoScales}
SavedSymmetry == Permutations(Savers)
=============================================================================
