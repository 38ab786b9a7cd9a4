----------------------------- MODULE MCCascade -----------------------------
(* Instances of Cascade for TLC: both commands, both formats, every kind   *)
(* of limit, an estimate that fits and one that does not.                  *)
EXTENDS Cascade

MCConfig(image, obj, fits, projected, cap, tokens) ==
    [image |-> image, obj |-> obj, fits |-> fits, projected |-> projected,
     cap |-> cap, tokens |-> tokens]

MCConfigs ==
    { MCConfig(TRUE, FALSE, TRUE, TRUE, 0, 2),
      MCConfig(FALSE, TRUE, TRUE, FALSE, 1, 0),
      MCConfig(FALSE, FALSE, TRUE, TRUE, 2, 2),
      MCConfig(TRUE, TRUE, FALSE, TRUE, 0, 0),
      MCConfig(FALSE, FALSE, FALSE, TRUE, 0, 0) }
=============================================================================
