--------------------------- MODULE TrajectoryTask ---------------------------
(***************************************************************************)
(* mc_tasks::TrajectoryTask (src/src/mc_tasks/TrajectoryTask.cpp).         *)
(*                                                                         *)
(* The task owns a tasks::qp::TrajectoryTask object (transTrajTask) that   *)
(* the QP solver holds by raw pointer while the task is in the solver.    *)
(* The joint-selector operations rebuild that object with make_shared,    *)
(* which destroys the previous one, so they take the task out of the      *)
(* solver first and put it back after.  The weights of the QP object and  *)
(* the time of the trajectory are the state the properties are about; the *)
(* B-spline, poses and gains are data no property distinguishes.          *)
(***************************************************************************)
EXTENDS Integers

CONSTANTS
  Weights,       \* dimension weight vectors a caller may pass to dimWeight()
  InitWeight,    \* dimWeight_ built by the constructor from oriWeight/posWeight
  Duration,      \* duration, in units of timeStep's granularity
  TimeStep,      \* timeStep, in the same units
  MaxRebuilds    \* bound on the number of transTrajTask objects created

ASSUME /\ InitWeight \in Weights
       /\ Duration \in Nat /\ TimeStep \in Nat \ {0}
       /\ MaxRebuilds \in Nat \ {0}

VARIABLES
  inSolver,      \* TrajectoryTask::inSolver
  solver,        \* identities of the task objects registered in the QP solver
  traj,          \* identity of the object transTrajTask points to
  trajWeight,    \* the dimension weight that object uses
  dimWeight_,    \* TrajectoryTask::dimWeight_
  selector,      \* "none", "active" or "unactive": the selectorT in use
  t,             \* TrajectoryTask::t
  target,        \* the time at which update() last sampled the trajectory, or -1
  requested      \* history: the weight last asked for through dimWeight()

vars == <<inSolver, solver, traj, trajWeight, dimWeight_, selector, t,
          target, requested>>

-----------------------------------------------------------------------------
(* The constructor: one transTrajTask built with dimWeight_, not in the    *)
(* solver, t = 0.                                                          *)
Init ==
  /\ inSolver = FALSE /\ solver = {}
  /\ traj = 1 /\ trajWeight = InitWeight /\ dimWeight_ = InitWeight
  /\ selector = "none" /\ t = 0 /\ target = -1
  /\ requested = InitWeight

addToSolver ==
  /\ ~inSolver
  /\ solver' = solver \cup {traj}
  /\ inSolver' = TRUE
  /\ UNCHANGED <<traj, trajWeight, dimWeight_, selector, t, target, requested>>

removeFromSolver ==
  /\ inSolver
  /\ solver' = solver \ {traj}
  /\ inSolver' = FALSE
  /\ UNCHANGED <<traj, trajWeight, dimWeight_, selector, t, target, requested>>

(* Mutant: t grows by timeStep with no std::min clamp.                     *)
updateUnclamped ==
  /\ Duration > 0
  /\ target' = t
  /\ t' = t + TimeStep
  /\ UNCHANGED <<inSolver, solver, traj, trajWeight, dimWeight_, selector,
                 requested>>

(* Mutant: t only advances by whole steps that stay within duration.      *)
updateStopsShort ==
  /\ Duration > 0
  /\ target' = t
  /\ t' = IF t + TimeStep <= Duration THEN t + TimeStep ELSE t
  /\ UNCHANGED <<inSolver, solver, traj, trajWeight, dimWeight_, selector,
                 requested>>

(* update(): the target is sampled at t (interpolate(..., t/duration)),   *)
(* then t = std::min(t + timeStep, duration).                              *)
update ==
  /\ Duration > 0
  /\ target' = t
  /\ t' = IF t + TimeStep < Duration THEN t + TimeStep ELSE Duration
  /\ UNCHANGED <<inSolver, solver, traj, trajWeight, dimWeight_, selector,
                 requested>>

timeElapsed == t >= Duration

(* Mutant: the task is not taken out of the solver around the rebuild.    *)
RebuildNoPutBack(sel) ==
  /\ traj < MaxRebuilds
  /\ traj' = traj + 1
  /\ trajWeight' = dimWeight_
  /\ selector' = sel
  /\ UNCHANGED <<inSolver, solver, dimWeight_, t, target, requested>>

(* The body shared by selectActiveJoints, selectUnactiveJoints and        *)
(* resetJointsSelector: putBack = inSolver; removeFromSolver if putBack;  *)
(* a new selector and a new transTrajTask with dimWeight(dimWeight_);     *)
(* addToSolver if putBack.                                                 *)
RebuildTrajTask(sel) ==
  /\ traj < MaxRebuilds
  /\ traj' = traj + 1
  /\ trajWeight' = dimWeight_
  /\ selector' = sel
  /\ solver' = IF inSolver THEN (solver \ {traj}) \cup {traj + 1} ELSE solver
  /\ UNCHANGED <<inSolver, dimWeight_, t, target, requested>>

selectActiveJoints   == RebuildTrajTask("active")
selectUnactiveJoints == RebuildTrajTask("unactive")
resetJointsSelector  == RebuildTrajTask("none")

(* dimWeight(dimW): transTrajTask->dimWeight(dimW); dimWeight_ is left    *)
(* as it was.                                                              *)
dimWeight(w) ==
  /\ trajWeight' = w
  /\ requested' = w
  /\ UNCHANGED <<inSolver, solver, traj, dimWeight_, selector, t, target>>

Next ==
  \/ addToSolver \/ removeFromSolver \/ update
  \/ selectActiveJoints \/ selectUnactiveJoints \/ resetJointsSelector
  \/ \E w \in Weights : dimWeight(w)

(* The controller calls update() at every iteration while the task is     *)
(* used.                                                                    *)
Spec == Init /\ [][Next]_vars /\ WF_vars(update)

-----------------------------------------------------------------------------
(* Properties                                                               *)

TypeOK ==
  /\ inSolver \in BOOLEAN /\ solver \subseteq 1..MaxRebuilds
  /\ traj \in 1..MaxRebuilds /\ trajWeight \in Weights
  /\ dimWeight_ \in Weights /\ requested \in Weights
  /\ selector \in {"none", "active", "unactive"}
  /\ t \in 0..Duration /\ target \in -1..Duration

(* The QP solver never holds a transTrajTask that a selector rebuild has  *)
(* destroyed, and inSolver tells whether the live one is registered: the  *)
(* remove/re-add around each make_shared keeps the raw pointers valid.    *)
SolverHoldsLiveTask ==
  /\ solver \subseteq {traj}
  /\ inSolver <=> traj \in solver

(* The weights the QP task uses are the ones last given with dimWeight(), *)
(* whatever joint selection is made afterwards.                            *)
WeightPersists == trajWeight = requested

(* With update() called at every iteration, the trajectory is eventually  *)
(* sampled at its end time, so the target reaches X_0_t.                   *)
TargetReachesEnd == <>[](target = Duration)

=============================================================================
