--------------------------- MODULE MCSparseStages ---------------------------
(***************************************************************************)
(* Two inputs: a point in each of two batches, and two neighbours in one.  *)
(* Decoders of three levels; some points of a level may be dropped.        *)
(***************************************************************************)
EXTENDS SparseStages

Points(b, cs) == [batch |-> b, size |-> 2, ch |-> 1, coords |-> cs,
                  deps |-> [i \in DOMAIN cs |-> {}]]
MCInputs == {Points(2, << <<0,0,0,0>>, <<1,0,0,0>> >>),
             Points(1, << <<0,0,0,0>>, <<0,1,0,0>> >>)}
MCContext == (0 :> 2) @@ (1 :> 1)
MCFlow == [latent |-> 2, blocks |-> 2, ins |-> [shape |-> 2, texture |-> 4],
           cfg |-> [ch |-> 4, heads |-> 2, hidden |-> 8, context |-> 3, proj |-> 5]]
Sizes(pred) == [ch |-> <<16, 16, 8>>, blocks |-> <<1, 1, 1>>, latent |-> 2,
                out |-> IF pred THEN 7 ELSE 6, pred |-> pred, res |-> 8]
MCDecoder == [s \in {"shape", "texture"} |-> Sizes(s = "shape")]
\* All edges are crossed, or those along one axis.
MCCrossed(sign, e) == sign = 0 \/ e[2] = sign
MCForeseen == << {{}, {2, 5}}, {{}, {0, 1, 2, 3}} >>
=============================================================================
