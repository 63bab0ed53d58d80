-------------------------- MODULE MC_TrajectoryTask --------------------------
EXTENDS TrajectoryTask

(* Two weight vectors: the constructor's and one a caller sets.            *)
MCWeights == {"ctor", "user"}

=============================================================================
