--------------------------- MODULE MCModelGraphs ----------------------------
(* The instance of ModelGraphs for TLC; its constants are in the cfg.      *)
EXTENDS ModelGraphs
=============================================================================
