--------------------------- MODULE GraphScheduler ---------------------------
(***************************************************************************)
(* BackendScheduler of src/backend.cpp, as operators on what one scheduler *)
(* knows: whether ggml made it, whether the graph's core operations are    *)
(* required on the primary backend, and where ggml has put them.  A policy *)
(* gpu:N makes the primary backend mandatory.  What can fail is a set of   *)
(* outcomes; timing, traces and messages are not represented.              *)
(***************************************************************************)

Placements == {"primary", "mixed"}

Schedulers == [valid : BOOLEAN, required : BOOLEAN, placed : Placements \cup {"none"}]

(* BackendScheduler{}, and what a scheduler that was moved from is left as. *)
NoScheduler == [valid |-> FALSE, required |-> FALSE, placed |-> "none"]

(* The constructor: ggml may refuse, and does over a manager that is not open. *)
Constructed(open) ==
    {NoScheduler} \cup {[NoScheduler EXCEPT !.valid = TRUE] : o \in {TRUE} \cap {open}}

(* require_primary_graph: every core operation of the graph.               *)
RequirePrimary(s) == [s EXCEPT !.required = s.valid]

(* preflight: required operations are ones the primary backend supports.   *)
Preflight(s, mandatory, supported) == mandatory /\ s.required => supported

(* Fault: the placement is not looked at.                                  *)
Fault_PlacedRight(s, mandatory) == s.valid

(* validate_placement.                                                     *)
PlacedRight(s, mandatory) == mandatory /\ s.required => s.placed = "primary"

(* allocate_graph: ggml is asked for the primary backend, and may fail or  *)
(* still put a required operation elsewhere.                               *)
Allocated(s, mandatory, supported) ==
    {[ok |-> FALSE, sched |-> s]} \cup
    {[ok |-> PlacedRight(t, mandatory), sched |-> t] :
        t \in {u \in {[s EXCEPT !.placed = p] : p \in Placements} :
                 s.valid /\ Preflight(s, mandatory, supported)}}

(* compute: both checks again, then ggml, which may fail.                  *)
CanCompute(s, mandatory, supported) ==
    s.valid /\ Preflight(s, mandatory, supported) /\ PlacedRight(s, mandatory)
=============================================================================
