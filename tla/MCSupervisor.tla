---------------------------- MODULE MCSupervisor -----------------------------
(* Supervisor on small sets.  Nodes are interchangeable, which the run of   *)
(* the safety properties uses; the run of the liveness properties does not. *)
EXTENDS Supervisor, TLC

PathSymmetry == Permutations(Paths)

==============================================================================
