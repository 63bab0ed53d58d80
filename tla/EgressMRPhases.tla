--------------------------- MODULE EgressMRPhases ---------------------------
(***************************************************************************)
(* The egress phases of the multi-robot egress controller                  *)
(* (src/src/mc_control/mc_mr_egress_phases.cpp).                           *)
(*                                                                         *)
(* The controller owns a list of phases and calls the current phase's      *)
(* run(ctl) once per control iteration.  Each run() is a chain of stages   *)
(* guarded by monotone flags (started, done_x, done_y, ...): the model     *)
(* keeps the number of flags already set in `stage`.  A stage ends when    *)
(* the QP task it waits for has converged, when a contact force has been   *)
(* above a threshold for more than forceIter iterations, or when its       *)
(* iteration counter passes its timeout.  Convergence and force readings   *)
(* come from the robot and are chosen freely at every iteration (`conv`).  *)
(*                                                                         *)
(* The state the phases share through `ctl` is what the properties are    *)
(* about: the end-effector task (efTask, re-created with reset()), the     *)
(* tasks registered in the QP solver, the egressContacts vector, the       *)
(* contacts given to the solver with setContacts, and the contacts given  *)
(* a free degree of freedom with addDofContact.  Positions, orientations, *)
(* weights and stiffnesses are data the properties do not distinguish.    *)
(***************************************************************************)
EXTENDS Integers, Sequences, SequencesExt, FiniteSets

CONSTANTS
  PhaseOrders,     \* the controllers' phase sequences, each phase [kind, surf, maxWiggles, autoTransit]
  InitContacts,    \* ctl.egressContacts when the first phase starts: <<r1Surface, r2Surface>>
  TimeoutUnit,     \* control iterations per second: the 500 of "timeoutIter > 15*500"
  ForceIterN,      \* the 40 of "forceIter > 40"
  OpenStep,        \* the 0.005 of "percentOpen += 0.005", in thousandths
  OpenFull,        \* the 1. of "percentOpen >= 1.", in thousandths
  InitPercentOpen, \* possible openings of the right gripper when the egress starts
  MaxIdleIter      \* bound on PlaceRightFoot's counter, which keeps counting once done

Kinds == {"Start", "RotateLazy", "ReplaceLeftFoot", "PutDownRightFoot",
          "ReplaceRightFoot", "PlaceRightFoot", "OpenRightGripper",
          "RemoveRightGripper", "Standup", "MoveComSurf", "CenterCom",
          "MoveComForce", "ReplaceRightHand"}

ASSUME /\ \A o \in PhaseOrders :
            /\ o \in Seq([kind : Kinds, surf : STRING,
                          maxWiggles : Int, autoTransit : BOOLEAN])
            /\ Len(o) > 0
       /\ TimeoutUnit \in Nat \ {0} /\ ForceIterN \in Nat
       /\ OpenStep \in Nat \ {0} /\ OpenFull \in Nat \ {0}
       /\ InitPercentOpen \subseteq 0..OpenFull /\ MaxIdleIter \in Nat

VARIABLES
  order,           \* the phase sequence of this controller, fixed at construction
  cur,             \* index in order of the phase whose run() is called
  stage,           \* number of the phase's stage flags (started, done_...) already set
  timeoutIter,     \* timeoutIter (iter_, nrIter_ in the phases that name it so)
  forceIter,       \* consecutive iterations with the contact force above threshold
  wiggles,         \* EgressRemoveRightGripperPhase::wiggles_
  wiggleDir,       \* commanded gripper rotation about X, in multiples of deg
  percentOpen,     \* ctl.rgripper->percentOpen, in thousandths
  efTask,          \* identity of the EndEffectorTask object ctl.efTask points to
  efBody,          \* the body that end-effector task moves
  solverTasks,     \* tasks registered in the QP solver: <<"ef", id>>, <<"com",0>>, <<"torso",0>>
  egressContacts,  \* ctl.egressContacts
  otherContacts,   \* the running phase's otherContacts member
  solverContacts,  \* the contacts last passed to ctl.mrqpsolver->setContacts
  dofContacts,     \* contacts passed to addDofContact since the last resetDofContacts
  fault            \* "none", or the undefined/throwing access a run() made

phaseVars   == <<cur, stage, timeoutIter, forceIter, wiggles, wiggleDir>>
taskVars    == <<efTask, efBody, solverTasks>>
contactVars == <<egressContacts, otherContacts, solverContacts, dofContacts>>
vars == <<order, phaseVars, percentOpen, taskVars, contactVars, fault>>

Contact == STRING \X STRING

-----------------------------------------------------------------------------
(* The running phase and the shape of its run().                           *)

Phase == order[cur]
Kind == Phase.kind

(* Timeout of each timed stage, in seconds, as written in the stage's      *)
(* condition "timeoutIter > s*500"; stage i of a phase is its i-th done_   *)
(* flag.  EgressRemoveRightGripperPhase and EgressOpenRightGripperPhase    *)
(* have no timed stage.                                                    *)
TimeoutSeconds ==
  [k \in Kinds |->
     CASE k = "RotateLazy"       -> <<10, 10, 15, 15, 15>>
       [] k = "ReplaceLeftFoot"  -> <<15, 15, 15>>
       [] k = "PutDownRightFoot" -> <<15, 15, 15, 15>>
       [] k = "ReplaceRightFoot" -> <<15, 15, 15, 15, 30>>
       [] k = "PlaceRightFoot"   -> <<15, 15, 15>>
       [] k = "Standup"          -> <<5>>
       [] k \in {"MoveComSurf", "CenterCom", "MoveComForce"} -> <<10>>
       [] k = "ReplaceRightHand" -> <<10, 10>>
       [] OTHER                  -> << >>]

(* Stages that end on the contact force rather than on convergence.       *)
ForceStages == {<<"RotateLazy", 5>>, <<"ReplaceLeftFoot", 3>>,
                <<"PutDownRightFoot", 4>>, <<"ReplaceRightFoot", 5>>}

(* Number of stage flags of each phase: once `stage` reaches it, run()    *)
(* only returns false, and the phase has logged "can transit".            *)
StageCount ==
  [k \in Kinds |->
     CASE k = "Start"              -> 0
       [] k = "OpenRightGripper"   -> 2
       [] k = "RemoveRightGripper" -> 3
       [] OTHER                    -> Len(TimeoutSeconds[k]) + 1]

Timed == stage \in 1..Len(TimeoutSeconds[Kind])

(* forceIter after this iteration's reading: "forceIter++" while the force *)
(* is above forceStart + threshold, "forceIter = 0" otherwise.            *)
NextForceIter(above) == IF above THEN forceIter + 1 ELSE 0

(* The condition that closes the current timed stage, evaluated after     *)
(* "timeoutIter++" (and the forceIter update in a force stage).            *)
StageEnds(conv) ==
  LET timedOut == timeoutIter + 1 > TimeoutSeconds[Kind][stage] * TimeoutUnit
  IN IF <<Kind, stage>> \in ForceStages
     THEN NextForceIter(conv) > ForceIterN \/ timedOut
     ELSE conv \/ timedOut

-----------------------------------------------------------------------------
(* Operations on the shared controller state.                              *)

EfEntry(id) == <<"ef", id>>

(* ctl.efTask->removeFromSolver(solver); a task not in the solver is left  *)
(* alone, as mc_tasks' removeFromSolver guards with inSolver.              *)
WithoutEf(tasks) == tasks \ {EfEntry(efTask)}

(* ctl.efTask.reset(new EndEffectorTask(body, ...)): a new object.        *)
NewEf(body) == efTask' = efTask + 1 /\ efBody' = body

(* The new end-effector task, after NewEf, added to the solver.           *)
WithNewEf(tasks) == tasks \cup {EfEntry(efTask + 1)}

(* ctl.mrqpsolver->setContacts(cs)                                          *)
SetContacts(cs) == solverContacts' = ToSet(cs)

(* A run() that throws std::out_of_range (vector::at) or dereferences or  *)
(* erases a vector's end(): the iteration is lost, the controller state   *)
(* is undefined from then on.                                              *)
Throw(kind) ==
  /\ fault' = kind
  /\ UNCHANGED <<phaseVars, percentOpen, taskVars, contactVars>>

(* Bodies carrying the contact surfaces the phases name.                   *)
SurfaceBody == [LFullSole |-> "LLEG_LINK5", RFullSole |-> "RLEG_LINK5",
                RightGripper |-> "RARM_LINK6"]

-----------------------------------------------------------------------------
(* Mutant: the stage's "timeoutIter++" is missing.                        *)
StageWaitNoCount(conv) ==
  /\ Timed
  /\ ~StageEnds(conv)
  /\ forceIter' = IF <<Kind, stage>> \in ForceStages
                  THEN NextForceIter(conv) ELSE forceIter
  /\ UNCHANGED <<cur, stage, timeoutIter, wiggles, wiggleDir, percentOpen,
                 taskVars, contactVars, fault>>

(* A timed stage that does not end this iteration: only its counters move. *)
StageWait(conv) ==
  /\ Timed
  /\ ~StageEnds(conv)
  /\ timeoutIter' = timeoutIter + 1
  /\ forceIter' = IF <<Kind, stage>> \in ForceStages
                  THEN NextForceIter(conv) ELSE forceIter
  /\ UNCHANGED <<cur, stage, wiggles, wiggleDir, percentOpen, taskVars,
                 contactVars, fault>>

(* The common part of a stage's end: its flag is set.                     *)
EndStage ==
  /\ stage' = stage + 1
  /\ UNCHANGED <<cur, wiggles, wiggleDir, percentOpen>>


-----------------------------------------------------------------------------
(* EgressRotateLazyPhase::run                                              *)

(* !started: a new end-effector task on the right foot, added to the      *)
(* solver; the task ctl.efTask held before is dropped without a           *)
(* removeFromSolver.                                                       *)
RotateLazyStart ==
  /\ Kind = "RotateLazy" /\ stage = 0
  /\ NewEf("RLEG_LINK5")
  /\ solverTasks' = WithNewEf(solverTasks)
  /\ timeoutIter' = 0
  /\ EndStage
  /\ UNCHANGED <<forceIter, contactVars, fault>>

(* done_move_foot: the foot task leaves the solver, the knee posture is   *)
(* bent.                                                                   *)
RotateLazyMoveFoot(conv) ==
  /\ Kind = "RotateLazy" /\ stage = 1 /\ StageEnds(conv)
  /\ solverTasks' = WithoutEf(solverTasks)
  /\ timeoutIter' = 0
  /\ EndStage
  /\ UNCHANGED <<forceIter, efTask, efBody, contactVars, fault>>

(* done_change_knee: a new right-foot task moves and turns the foot.      *)
RotateLazyChangeKnee(conv) ==
  /\ Kind = "RotateLazy" /\ stage = 2 /\ StageEnds(conv)
  /\ NewEf("RLEG_LINK5")
  /\ solverTasks' = WithNewEf(solverTasks)
  /\ timeoutIter' = 0
  /\ EndStage
  /\ UNCHANGED <<forceIter, contactVars, fault>>

(* Mutant: the old foot task is not removed before the reset.             *)
RotateLazyRotateKeepsOld(conv) ==
  /\ Kind = "RotateLazy" /\ stage \in {3, 4} /\ StageEnds(conv)
  /\ NewEf("RLEG_LINK5")
  /\ solverTasks' = WithNewEf(solverTasks)
  /\ timeoutIter' = 0
  /\ forceIter' = IF stage = 4 THEN 0 ELSE forceIter
  /\ EndStage
  /\ UNCHANGED <<contactVars, fault>>

(* done_rotate and done_reorient: the foot task is replaced by a new one  *)
(* (remove, reset, add); done_reorient also starts the force watch.       *)
RotateLazyRotate(conv) ==
  /\ Kind = "RotateLazy" /\ stage \in {3, 4} /\ StageEnds(conv)
  /\ NewEf("RLEG_LINK5")
  /\ solverTasks' = WithNewEf(WithoutEf(solverTasks))
  /\ timeoutIter' = 0
  /\ forceIter' = IF stage = 4 THEN 0 ELSE forceIter
  /\ EndStage
  /\ UNCHANGED <<contactVars, fault>>

(* done_putdown: the right sole touches the floor; the task leaves the    *)
(* solver and the RFullSole/left_floor contact is appended.               *)
RotateLazyPutdown(conv) ==
  /\ Kind = "RotateLazy" /\ stage = 5 /\ StageEnds(conv)
  /\ solverTasks' = WithoutEf(solverTasks)
  /\ egressContacts' = Append(egressContacts, <<"RFullSole", "left_floor">>)
  /\ SetContacts(egressContacts')
  /\ timeoutIter' = timeoutIter + 1
  /\ forceIter' = NextForceIter(conv)
  /\ EndStage
  /\ UNCHANGED <<efTask, efBody, otherContacts, dofContacts, fault>>

-----------------------------------------------------------------------------
(* EgressReplaceLeftFootPhase::run, with lfc_index = 0                      *)

(* Mutant: lfc_index off by one. *)
LfcIndexOffByOne == 1

LfcIndex == 0

(* !started: a new left-foot task; lfc = egressContacts.at(lfc_index) and *)
(* otherContacts = {at(1), at(2)}; the left-foot contact is given a free  *)
(* degree of freedom.                                                      *)
ReplaceLeftFootStart ==
  /\ Kind = "ReplaceLeftFoot" /\ stage = 0
  /\ IF Len(egressContacts) < 3
     THEN Throw("at_out_of_range")
     ELSE /\ NewEf("LLEG_LINK5")
          /\ solverTasks' = WithNewEf(WithoutEf(solverTasks))
          /\ otherContacts' = otherContacts \o <<egressContacts[2], egressContacts[3]>>
          /\ SetContacts(egressContacts)
          /\ dofContacts' = Append(dofContacts, egressContacts[LfcIndex + 1])
          /\ timeoutIter' = 0
          /\ EndStage
          /\ UNCHANGED <<forceIter, egressContacts, fault>>

(* done_removing: the foot is lifted; only otherContacts stay in the QP.  *)
ReplaceLeftFootRemoving(conv) ==
  /\ Kind = "ReplaceLeftFoot" /\ stage = 1 /\ StageEnds(conv)
  /\ SetContacts(otherContacts)
  /\ timeoutIter' = 0
  /\ EndStage
  /\ UNCHANGED <<forceIter, taskVars, egressContacts, otherContacts,
                 dofContacts, fault>>

(* done_rotating: the left-foot contact is erased from egressContacts at  *)
(* lfc_index and the rest is given to the solver.                         *)
ReplaceLeftFootRotating(conv) ==
  /\ Kind = "ReplaceLeftFoot" /\ stage = 2 /\ StageEnds(conv)
  /\ IF Len(egressContacts) <= LfcIndex
     THEN Throw("erase_end")
     ELSE /\ egressContacts' = RemoveAt(egressContacts, LfcIndex + 1)
          /\ SetContacts(egressContacts')
          /\ timeoutIter' = 0
          /\ forceIter' = 0
          /\ EndStage
          /\ UNCHANGED <<taskVars, otherContacts, dofContacts, fault>>

(* Mutant: the new left-foot contact is not appended.                      *)
ReplaceLeftFootContactingNoAppend(conv) ==
  /\ Kind = "ReplaceLeftFoot" /\ stage = 3 /\ StageEnds(conv)
  /\ dofContacts' = << >>
  /\ SetContacts(egressContacts)
  /\ timeoutIter' = timeoutIter + 1
  /\ forceIter' = NextForceIter(conv)
  /\ EndStage
  /\ UNCHANGED <<taskVars, egressContacts, otherContacts, fault>>

(* done_contacting: the free degrees of freedom are reset, the            *)
(* LFullSole/AllGround contact is appended and run() returns true.        *)
ReplaceLeftFootContacting(conv) ==
  /\ Kind = "ReplaceLeftFoot" /\ stage = 3 /\ StageEnds(conv)
  /\ dofContacts' = << >>
  /\ egressContacts' = Append(egressContacts, <<"LFullSole", "AllGround">>)
  /\ SetContacts(egressContacts')
  /\ timeoutIter' = timeoutIter + 1
  /\ forceIter' = NextForceIter(conv)
  /\ EndStage
  /\ UNCHANGED <<taskVars, otherContacts, fault>>


-----------------------------------------------------------------------------
(* EgressPutDownRightFootPhase::run                                         *)

(* Index of the first contact whose r1Surface is surf, as std::find_if    *)
(* finds it; 0 when find_if returns end().                                *)
FindContact(cs, surf) == SelectInSeq(cs, LAMBDA c : c[1] = surf)

(* !started: a new right-foot task and the torso orientation task enter   *)
(* the solver; rfc = find_if(RFullSole) is given a free degree of freedom *)
(* and erased from egressContacts, with no check against end().           *)
PutDownRightFootStart ==
  LET rfc == FindContact(egressContacts, "RFullSole") IN
  /\ Kind = "PutDownRightFoot" /\ stage = 0
  /\ IF rfc = 0
     THEN Throw("end_deref")
     ELSE /\ NewEf("RLEG_LINK5")
          /\ solverTasks' = WithNewEf(WithoutEf(solverTasks)) \cup {<<"torso", 0>>}
          /\ SetContacts(egressContacts)
          /\ dofContacts' = Append(dofContacts, egressContacts[rfc])
          /\ egressContacts' = RemoveAt(egressContacts, rfc)
          /\ timeoutIter' = 0
          /\ EndStage
          /\ UNCHANGED <<forceIter, otherContacts, fault>>

(* done_removing, done_moving, done_rotating: the foot moves over the     *)
(* floor; done_removing and done_rotating pass egressContacts to the      *)
(* solver, done_rotating starts the force watch.                           *)
PutDownRightFootMove(conv) ==
  /\ Kind = "PutDownRightFoot" /\ stage \in {1, 2, 3} /\ StageEnds(conv)
  /\ IF stage \in {1, 3} THEN SetContacts(egressContacts)
                         ELSE UNCHANGED solverContacts
  /\ timeoutIter' = 0
  /\ forceIter' = IF stage = 3 THEN 0 ELSE forceIter
  /\ EndStage
  /\ UNCHANGED <<taskVars, egressContacts, otherContacts, dofContacts, fault>>

(* done_contacting: free degrees of freedom reset, RFullSole/AllGround    *)
(* appended and given to the solver.                                       *)
PutDownRightFootContacting(conv) ==
  /\ Kind = "PutDownRightFoot" /\ stage = 4 /\ StageEnds(conv)
  /\ dofContacts' = << >>
  /\ egressContacts' = Append(egressContacts, <<"RFullSole", "AllGround">>)
  /\ SetContacts(egressContacts')
  /\ timeoutIter' = timeoutIter + 1
  /\ forceIter' = NextForceIter(conv)
  /\ EndStage
  /\ UNCHANGED <<taskVars, otherContacts, fault>>

-----------------------------------------------------------------------------
(* EgressReplaceRightFootPhase::run, with rfc_index = 2                     *)

(* Mutant: rfc_index off by one. *)
RfcIndexOffByOne == 1

RfcIndex == 2

(* rfc = egressContacts.at(rfc_index); at(0) and at(1) are appended to    *)
(* otherContacts; rfc is given a free degree of freedom.                   *)
FreeRightFoot ==
  /\ otherContacts' = otherContacts \o <<egressContacts[1], egressContacts[2]>>
  /\ SetContacts(egressContacts)
  /\ dofContacts' = Append(dofContacts, egressContacts[RfcIndex + 1])

(* !started: a new right-foot task, then FreeRightFoot.                    *)
ReplaceRightFootStart ==
  /\ Kind = "ReplaceRightFoot" /\ stage = 0
  /\ IF Len(egressContacts) <= RfcIndex
     THEN Throw("at_out_of_range")
     ELSE /\ NewEf("RLEG_LINK5")
          /\ solverTasks' = WithNewEf(WithoutEf(solverTasks))
          /\ FreeRightFoot
          /\ timeoutIter' = 0
          /\ EndStage
          /\ UNCHANGED <<forceIter, egressContacts, fault>>

(* done_premoving passes otherContacts to the solver; done_removing and   *)
(* done_moving only move the foot's target.                                *)
ReplaceRightFootMove(conv) ==
  /\ Kind = "ReplaceRightFoot" /\ stage \in {1, 2, 3} /\ StageEnds(conv)
  /\ IF stage = 1 THEN SetContacts(otherContacts) ELSE UNCHANGED solverContacts
  /\ timeoutIter' = 0
  /\ EndStage
  /\ UNCHANGED <<forceIter, taskVars, egressContacts, otherContacts,
                 dofContacts, fault>>

(* done_rotating: the foot task is replaced by a new one, and rfc =       *)
(* at(rfc_index) is freed again (FreeRightFoot) with no reset in between. *)
ReplaceRightFootRotating(conv) ==
  /\ Kind = "ReplaceRightFoot" /\ stage = 4 /\ StageEnds(conv)
  /\ IF Len(egressContacts) <= RfcIndex
     THEN Throw("at_out_of_range")
     ELSE /\ NewEf("RLEG_LINK5")
          /\ solverTasks' = WithNewEf(WithoutEf(solverTasks))
          /\ FreeRightFoot
          /\ timeoutIter' = 0
          /\ forceIter' = 0
          /\ EndStage
          /\ UNCHANGED <<egressContacts, fault>>

(* done_contacting: free degrees of freedom reset, egressContacts to the  *)
(* solver.                                                                 *)
ReplaceRightFootContacting(conv) ==
  /\ Kind = "ReplaceRightFoot" /\ stage = 5 /\ StageEnds(conv)
  /\ dofContacts' = << >>
  /\ SetContacts(egressContacts)
  /\ timeoutIter' = timeoutIter + 1
  /\ forceIter' = NextForceIter(conv)
  /\ EndStage
  /\ UNCHANGED <<taskVars, egressContacts, otherContacts, fault>>

-----------------------------------------------------------------------------
(* EgressPlaceRightFootPhase::run                                           *)

(* Mutant: the previous phase's task is left in the solver.               *)
PlaceRightFootStartKeepsOld ==
  /\ Kind = "PlaceRightFoot" /\ stage = 0
  /\ NewEf("RLEG_LINK5")
  /\ solverTasks' = WithNewEf(solverTasks)
  /\ timeoutIter' = 0
  /\ EndStage
  /\ UNCHANGED <<forceIter, contactVars, fault>>

(* !started: a new right-foot task in the solver.                          *)
PlaceRightFootStart ==
  /\ Kind = "PlaceRightFoot" /\ stage = 0
  /\ NewEf("RLEG_LINK5")
  /\ solverTasks' = WithNewEf(WithoutEf(solverTasks))
  /\ timeoutIter' = 0
  /\ EndStage
  /\ UNCHANGED <<forceIter, contactVars, fault>>

(* done_lifting, done_rotating, done_contacting; done_contacting appends  *)
(* RFullSole/exit_platform and gives egressContacts to the solver.         *)
PlaceRightFootMove(conv) ==
  /\ Kind = "PlaceRightFoot" /\ stage \in {1, 2, 3} /\ StageEnds(conv)
  /\ IF stage = 3
     THEN /\ egressContacts' = Append(egressContacts, <<"RFullSole", "exit_platform">>)
          /\ SetContacts(egressContacts')
     ELSE UNCHANGED <<egressContacts, solverContacts>>
  /\ timeoutIter' = 0
  /\ EndStage
  /\ UNCHANGED <<forceIter, taskVars, otherContacts, dofContacts, fault>>

(* Once every flag is set, run() still executes "timeoutIter++".           *)
PlaceRightFootIdle ==
  /\ Kind = "PlaceRightFoot" /\ stage = 4
  /\ timeoutIter < MaxIdleIter
  /\ timeoutIter' = timeoutIter + 1
  /\ UNCHANGED <<cur, stage, forceIter, wiggles, wiggleDir, percentOpen,
                 taskVars, contactVars, fault>>


-----------------------------------------------------------------------------
(* EgressOpenRightGripperPhase::run                                         *)

OpenRightGripperStart ==
  /\ Kind = "OpenRightGripper" /\ stage = 0
  /\ stage' = 1
  /\ UNCHANGED <<cur, timeoutIter, forceIter, wiggles, wiggleDir, percentOpen,
                 taskVars, contactVars, fault>>

(* !done_opening: the opening grows by 0.005 per iteration; once it is at *)
(* least 1 it is set to 1 and run() returns true.                          *)
OpenRightGripperOpening ==
  /\ Kind = "OpenRightGripper" /\ stage = 1
  /\ IF percentOpen >= OpenFull
     THEN /\ percentOpen' = OpenFull
          /\ stage' = 2
     ELSE /\ percentOpen' = percentOpen + OpenStep
          /\ UNCHANGED stage
  /\ UNCHANGED <<cur, timeoutIter, forceIter, wiggles, wiggleDir, taskVars,
                 contactVars, fault>>

-----------------------------------------------------------------------------
(* EgressRemoveRightGripperPhase::run; its stages have no timeout.         *)

(* !started: a new task on the right wrist turned by rot (+deg); the      *)
(* RightGripper contact is erased when find_if finds it.                   *)
RemoveRightGripperStart ==
  LET rgc == FindContact(egressContacts, "RightGripper") IN
  /\ Kind = "RemoveRightGripper" /\ stage = 0
  /\ NewEf("RARM_LINK6")
  /\ solverTasks' = WithNewEf(WithoutEf(solverTasks))
  /\ wiggleDir' = 1
  /\ egressContacts' = IF rgc = 0 THEN egressContacts
                       ELSE RemoveAt(egressContacts, rgc)
  /\ SetContacts(egressContacts')
  /\ stage' = 1
  /\ UNCHANGED <<cur, timeoutIter, forceIter, wiggles, percentOpen,
                 otherContacts, dofContacts, fault>>

(* Mutant: the !done_rotating test is missing, rotation goes on after it.  *)
RemoveRightGripperRotatingUnguarded(conv) ==
  /\ Kind = "RemoveRightGripper" /\ stage >= 1 /\ conv
  /\ IF wiggles > Phase.maxWiggles
     THEN /\ stage' = stage + 1 /\ UNCHANGED wiggles
     ELSE /\ wiggles' = wiggles + 1 /\ UNCHANGED stage
  /\ wiggleDir' = IF wiggles' % 2 = 1 THEN wiggleDir - 2 ELSE wiggleDir + 2
  /\ UNCHANGED <<cur, timeoutIter, forceIter, percentOpen, taskVars,
                 contactVars, fault>>

(* Mutant: birot and birot.inv() swapped.                                   *)
RemoveRightGripperRotatingSwapped(conv) ==
  /\ Kind = "RemoveRightGripper" /\ stage = 1 /\ conv
  /\ IF wiggles > Phase.maxWiggles
     THEN /\ stage' = 2 /\ UNCHANGED wiggles
     ELSE /\ wiggles' = wiggles + 1 /\ UNCHANGED stage
  /\ wiggleDir' = IF wiggles' % 2 = 1 THEN wiggleDir + 2 ELSE wiggleDir - 2
  /\ UNCHANGED <<cur, timeoutIter, forceIter, percentOpen, taskVars,
                 contactVars, fault>>

(* !done_rotating, on convergence of the orientation: the stage ends once *)
(* wiggles_ > maxWiggles_, otherwise wiggles_ grows; in both cases the    *)
(* wrist is lifted and turned by birot^-1 (odd wiggles_) or birot (even)  *)
(* from where it is, i.e. by -2 or +2 deg.                                  *)
RemoveRightGripperRotating(conv) ==
  /\ Kind = "RemoveRightGripper" /\ stage = 1 /\ conv
  /\ IF wiggles > Phase.maxWiggles
     THEN /\ stage' = 2 /\ UNCHANGED wiggles
     ELSE /\ wiggles' = wiggles + 1 /\ UNCHANGED stage
  /\ wiggleDir' = IF wiggles' % 2 = 1 THEN wiggleDir - 2 ELSE wiggleDir + 2
  /\ UNCHANGED <<cur, timeoutIter, forceIter, percentOpen, taskVars,
                 contactVars, fault>>

(* Mutant: "done_removing = true" is missing.                              *)
RemoveRightGripperRemovingNoFlag(conv) ==
  /\ Kind = "RemoveRightGripper" /\ stage = 2 /\ conv
  /\ SetContacts(egressContacts)
  /\ solverTasks' = WithoutEf(solverTasks)
  /\ UNCHANGED <<cur, stage, timeoutIter, forceIter, wiggles, wiggleDir,
                 percentOpen, efTask, efBody, egressContacts, otherContacts,
                 dofContacts, fault>>

(* !done_removing, on convergence of the position: egressContacts to the  *)
(* solver, the wrist task leaves it.                                       *)
RemoveRightGripperRemoving(conv) ==
  /\ Kind = "RemoveRightGripper" /\ stage = 2 /\ conv
  /\ SetContacts(egressContacts)
  /\ solverTasks' = WithoutEf(solverTasks)
  /\ stage' = 3
  /\ UNCHANGED <<cur, timeoutIter, forceIter, wiggles, wiggleDir, percentOpen,
                 efTask, efBody, egressContacts, otherContacts, dofContacts,
                 fault>>

-----------------------------------------------------------------------------
(* EgressMRStandupPhase::run                                                *)

(* !started: a new BODY task; otherContacts = at(1), at(2), at(3) go to   *)
(* the solver, so the contact at(0) is released.                           *)
StandupStart ==
  /\ Kind = "Standup" /\ stage = 0
  /\ IF Len(egressContacts) < 4
     THEN Throw("at_out_of_range")
     ELSE /\ NewEf("BODY")
          /\ solverTasks' = WithNewEf(WithoutEf(solverTasks))
          /\ otherContacts' = otherContacts \o SubSeq(egressContacts, 2, 4)
          /\ SetContacts(otherContacts')
          /\ timeoutIter' = 0
          /\ EndStage
          /\ UNCHANGED <<forceIter, egressContacts, dofContacts, fault>>

(* !done_standup: the BODY task leaves the solver and                      *)
(* egressContacts.erase(begin()) drops the released contact.               *)
StandupDone(conv) ==
  /\ Kind = "Standup" /\ stage = 1 /\ StageEnds(conv)
  /\ IF egressContacts = << >>
     THEN Throw("erase_end")
     ELSE /\ solverTasks' = WithoutEf(solverTasks)
          /\ egressContacts' = Tail(egressContacts)
          /\ timeoutIter' = timeoutIter + 1
          /\ EndStage
          /\ UNCHANGED <<forceIter, efTask, efBody, otherContacts,
                         solverContacts, dofContacts, fault>>

-----------------------------------------------------------------------------
(* EgressMoveComSurfPhase::run: the CoM task enters the solver and the    *)
(* phase waits for it (iter_).                                              *)

MoveComStart ==
  /\ Kind = "MoveComSurf" /\ stage = 0
  /\ solverTasks' = solverTasks \cup {<<"com", 0>>}
  /\ EndStage
  /\ UNCHANGED <<timeoutIter, forceIter, efTask, efBody, contactVars, fault>>

(* !done_com: the posture task takes the current posture and run()       *)
(* returns auto_transit.                                                    *)
MoveComDone(conv) ==
  /\ Kind = "MoveComSurf" /\ stage = 1 /\ StageEnds(conv)
  /\ timeoutIter' = timeoutIter + 1
  /\ EndStage
  /\ UNCHANGED <<forceIter, taskVars, contactVars, fault>>

-----------------------------------------------------------------------------
(* EgressCenterComPhase::run: the same over the midpoint of the soles;    *)
(* run() returns false once done.                                           *)

CenterComStart ==
  /\ Kind = "CenterCom" /\ stage = 0
  /\ solverTasks' = solverTasks \cup {<<"com", 0>>}
  /\ EndStage
  /\ UNCHANGED <<timeoutIter, forceIter, efTask, efBody, contactVars, fault>>

CenterComDone(conv) ==
  /\ Kind = "CenterCom" /\ stage = 1 /\ StageEnds(conv)
  /\ timeoutIter' = timeoutIter + 1
  /\ EndStage
  /\ UNCHANGED <<forceIter, taskVars, contactVars, fault>>

-----------------------------------------------------------------------------
(* EgressMoveComForcePhase::run: the CoM goes over surf while the other   *)
(* foot's task lifts that foot as the CoM approaches.                      *)

(* The constructor's otherSurf_ and bodyName_; both stay empty when surf   *)
(* is neither sole.                                                         *)
OtherSurf(surf) == CASE surf = "LFullSole" -> "RFullSole"
                     [] surf = "RFullSole" -> "LFullSole"
                     [] OTHER              -> ""
OtherBody(surf) == CASE surf = "LFullSole" -> "RLEG_LINK5"
                     [] surf = "RFullSole" -> "LLEG_LINK5"
                     [] OTHER              -> ""

(* !started: CoM task in, a new task on bodyName_; lfc = find_if(otherSurf_) *)
(* is dereferenced without a check against end(), the free degrees of     *)
(* freedom are reset and lfc is freed.                                      *)
MoveComForceStart ==
  LET lfc == FindContact(egressContacts, OtherSurf(Phase.surf)) IN
  /\ Kind = "MoveComForce" /\ stage = 0
  /\ IF lfc = 0
     THEN Throw("end_deref")
     ELSE /\ NewEf(OtherBody(Phase.surf))
          /\ solverTasks' = WithNewEf(WithoutEf(solverTasks \cup {<<"com", 0>>}))
          /\ SetContacts(egressContacts)
          /\ dofContacts' = << egressContacts[lfc] >>
          /\ EndStage
          /\ UNCHANGED <<timeoutIter, forceIter, egressContacts, otherContacts, fault>>

(* !done_com: free degrees of freedom reset.  While it is not done, the   *)
(* lifted foot's target follows the CoM (StageWait).                        *)
MoveComForceDone(conv) ==
  /\ Kind = "MoveComForce" /\ stage = 1 /\ StageEnds(conv)
  /\ dofContacts' = << >>
  /\ timeoutIter' = timeoutIter + 1
  /\ EndStage
  /\ UNCHANGED <<forceIter, taskVars, egressContacts, otherContacts,
                 solverContacts, fault>>

-----------------------------------------------------------------------------
(* EgressReplaceRightHandPhase::run                                         *)

(* !started: a new task on the right wrist, in the solver.                 *)
ReplaceRightHandStart ==
  /\ Kind = "ReplaceRightHand" /\ stage = 0
  /\ NewEf("RARM_LINK6")
  /\ solverTasks' = WithNewEf(WithoutEf(solverTasks))
  /\ EndStage
  /\ UNCHANGED <<timeoutIter, forceIter, contactVars, fault>>

(* !done_moving: the wrist task leaves the solver, the posture goes back  *)
(* to the stance, nrIter_ = 0.  !done_posturing: nothing but the flag.     *)
ReplaceRightHandMove(conv) ==
  /\ Kind = "ReplaceRightHand" /\ stage \in {1, 2} /\ StageEnds(conv)
  /\ IF stage = 1
     THEN solverTasks' = WithoutEf(solverTasks) /\ timeoutIter' = 0
     ELSE UNCHANGED solverTasks /\ timeoutIter' = timeoutIter + 1
  /\ EndStage
  /\ UNCHANGED <<forceIter, efTask, efBody, contactVars, fault>>


-----------------------------------------------------------------------------
(* The controller: one run() of the current phase per control iteration,   *)
(* and the move to the next phase once the current one has nothing left   *)
(* to do (it returned true, or logged that it "can transit").              *)

Init ==
  /\ order \in PhaseOrders
  /\ cur = 1 /\ stage = 0 /\ timeoutIter = 0 /\ forceIter = 0
  /\ wiggles = 0 /\ wiggleDir = 0
  /\ percentOpen \in InitPercentOpen
  /\ efTask = 0 /\ efBody = "none" /\ solverTasks = {}
  /\ egressContacts = InitContacts /\ otherContacts = << >>
  /\ solverContacts = ToSet(InitContacts) /\ dofContacts = << >>
  /\ fault = "none"

(* One call of the current phase's run(ctl); conv is what the robot's     *)
(* sensors and the QP tasks report in this iteration.                      *)
Run(conv) ==
  /\ fault = "none" /\ UNCHANGED order
  /\ \/ StageWait(conv)
     \/ RotateLazyStart \/ RotateLazyMoveFoot(conv) \/ RotateLazyChangeKnee(conv)
     \/ RotateLazyRotate(conv) \/ RotateLazyPutdown(conv)
     \/ ReplaceLeftFootStart \/ ReplaceLeftFootRemoving(conv)
     \/ ReplaceLeftFootRotating(conv) \/ ReplaceLeftFootContacting(conv)
     \/ PutDownRightFootStart \/ PutDownRightFootMove(conv)
     \/ PutDownRightFootContacting(conv)
     \/ ReplaceRightFootStart \/ ReplaceRightFootMove(conv)
     \/ ReplaceRightFootRotating(conv) \/ ReplaceRightFootContacting(conv)
     \/ PlaceRightFootStart \/ PlaceRightFootMove(conv) \/ PlaceRightFootIdle
     \/ OpenRightGripperStart \/ OpenRightGripperOpening
     \/ RemoveRightGripperStart \/ RemoveRightGripperRotating(conv)
     \/ RemoveRightGripperRemoving(conv)
     \/ StandupStart \/ StandupDone(conv)
     \/ MoveComStart \/ MoveComDone(conv)
     \/ CenterComStart \/ CenterComDone(conv)
     \/ MoveComForceStart \/ MoveComForceDone(conv)
     \/ ReplaceRightHandStart \/ ReplaceRightHandMove(conv)

(* Mutant: the next phase starts with the previous phase's flags.         *)
NextPhaseKeepsStage ==
  /\ fault = "none"
  /\ stage = StageCount[Kind]
  /\ cur < Len(order)
  /\ cur' = cur + 1
  /\ timeoutIter' = 0 /\ forceIter' = 0
  /\ wiggles' = 0 /\ wiggleDir' = 0
  /\ otherContacts' = << >>
  /\ UNCHANGED <<order, stage, percentOpen, taskVars, egressContacts,
                 solverContacts, dofContacts, fault>>

(* The controller constructs the next phase object: its flags false, its  *)
(* counters and otherContacts empty.                                        *)
NextPhase ==
  /\ fault = "none"
  /\ stage = StageCount[Kind]
  /\ cur < Len(order)
  /\ cur' = cur + 1
  /\ stage' = 0 /\ timeoutIter' = 0 /\ forceIter' = 0
  /\ wiggles' = 0 /\ wiggleDir' = 0
  /\ otherContacts' = << >>
  /\ UNCHANGED <<order, percentOpen, taskVars, egressContacts, solverContacts,
                 dofContacts, fault>>

Next == (\E conv \in BOOLEAN : Run(conv)) \/ NextPhase

(* The control loop calls run() at every iteration and moves on when a    *)
(* phase is over; nothing makes the robot converge or push on a contact:  *)
(* only the iterations that need no convergence, Run(FALSE), are fair.     *)
Fairness == WF_vars(Run(FALSE)) /\ WF_vars(NextPhase)

Spec == Init /\ [][Next]_vars /\ Fairness

-----------------------------------------------------------------------------
(* Properties                                                               *)

Finished == cur = Len(order) /\ stage = StageCount[Kind]

TypeOK ==
  /\ order \in PhaseOrders /\ cur \in 1..Len(order)
  /\ stage \in 0..StageCount[Kind]
  /\ timeoutIter \in Nat /\ forceIter \in Nat
  /\ wiggles \in Nat /\ wiggleDir \in Int
  /\ percentOpen \in 0..(OpenFull + OpenStep)
  /\ efTask \in Nat
  /\ solverTasks \subseteq ({"ef"} \X Nat) \cup {<<"com", 0>>, <<"torso", 0>>}
  /\ egressContacts \in Seq(Contact) /\ otherContacts \in Seq(Contact)
  /\ solverContacts \subseteq Contact /\ dofContacts \in Seq(Contact)
  /\ fault \in {"none", "at_out_of_range", "end_deref", "erase_end"}

(* No run() indexes egressContacts out of range (vector::at throws) or    *)
(* dereferences or erases the end() a find_if returned: the hard-coded    *)
(* indexes lfc_index, rfc_index, at(1..3) and the surface searches find a *)
(* contact in the vector the earlier phases left.                          *)
NoContactFault == fault = "none"

(* ctl.efTask.reset() destroys the previous end-effector task while the   *)
(* QP solver keeps a raw pointer to every task added to it: every         *)
(* end-effector task registered in the solver is the live ctl.efTask.     *)
NoStaleEfTask == \A t \in solverTasks : t[1] = "ef" => t[2] = efTask

(* A contact given a free degree of freedom (addDofContact) is the        *)
(* contact of the limb the live end-effector task moves: the hard-coded   *)
(* lfc_index and rfc_index still designate the foot the phase lifts.       *)
FreedContactOnMovedLimb ==
  \A i \in 1..Len(dofContacts) :
     /\ dofContacts[i][1] \in DOMAIN SurfaceBody
     /\ SurfaceBody[dofContacts[i][1]] = efBody

(* "NB : When using dof contacts, do not add twice !" (the comment above  *)
(* the resetDofContacts calls): between two resets no contact is freed    *)
(* twice.                                                                  *)
DofContactAddedOnce ==
  \A i, j \in 1..Len(dofContacts) : i < j => dofContacts[i] # dofContacts[j]

(* The stages of EgressRemoveRightGripperPhase: they have no timeout and  *)
(* end only when the wrist task converges.                                  *)
ConvergenceOnly == Kind = "RemoveRightGripper" /\ stage \in {1, 2}

(* With the control loop running and the robot never assumed to converge, *)
(* the timeouts end every other stage: the egress reaches its last        *)
(* phase's end, or waits for ever in a stage that only convergence ends.   *)
EgressCompletes == <>Finished \/ <>[]ConvergenceOnly

(* Where the tasks a stage waits for converge whenever they are run often *)
(* enough, the egress always reaches its last phase's end: the stages     *)
(* without a timeout do not keep it from completing either.                 *)
EgressCompletesIfConverging == SF_vars(Run(TRUE)) => <>Finished

(* EgressRemoveRightGripperPhase wiggles the wrist out of the wheel: while *)
(* it rotates, the commanded rotation alternates between +deg and -deg    *)
(* about the grasp; the rotation stage ends after maxWiggles_ + 1 wiggles, *)
(* and the final command repeats the last direction, so the wrist is      *)
(* lifted out turned by 3 deg.                                             *)
WiggleEnvelope ==
  Kind = "RemoveRightGripper" =>
    /\ stage = 1 => wiggleDir \in {-1, 1}
    /\ stage >= 2 => /\ wiggles = Phase.maxWiggles + 1
                     /\ wiggleDir \in {-3, 3}

(* Gripper::setTargetOpening (generic_gripper.h:69) documents the        *)
(* opening as ranging from 0 (closed) to 1 (open): the opening             *)
(* EgressOpenRightGripperPhase commands stays within it.                   *)
GripperOpeningInRange == percentOpen \in 0..OpenFull

=============================================================================
