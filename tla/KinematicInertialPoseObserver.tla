------------------- MODULE KinematicInertialPoseObserver -------------------
(***************************************************************************)
(* mc_observers::KinematicInertialPoseObserver                             *)
(* (src/src/mc_observers/KinematicInertialPoseObserver.cpp): estimates the *)
(* floating base pose of the real robot.  Roll and pitch come from the IMU *)
(* reading carried to the base through the real robot's kinematics, yaw   *)
(* from the control robot; the position puts the real robot's anchor (the *)
(* frame halfway between its feet) on the control robot's anchor.          *)
(* updateRobot writes the estimate into the real robot's posW.             *)
(*                                                                         *)
(* Orientations are the 24 rotations that map axes to axes, as exact      *)
(* integer matrices, so that roll, pitch and yaw are multiples of 90 deg   *)
(* and the gimbal lock (pitch +-90 deg) is among the cases checked.        *)
(* Matrices and transforms follow SpaceVecAlg (sva): a rotation E maps     *)
(* world coordinates to body coordinates, and a PTransformd [E, r] holds   *)
(* the frame's orientation E and origin r.  Translations are integer       *)
(* vectors.  The control loop calling run() and updateRobot() is outside  *)
(* the repository: the calls and the changes of the robots' state         *)
(* interleave freely.                                                      *)
(***************************************************************************)
EXTENDS Integers, Sequences, FiniteSets

CONSTANTS
  TrueOrientations,   \* orientations the real base may really have
  ControlPoses,       \* posW of the control robot: [E, r]
  FeetChoices,        \* <<left, right>> sole positions in the base frame
  ImuMounts,          \* orientations of the IMU's body in the base frame
  MaxMoves            \* bound on the number of times the robots move

VARIABLES
  cPos, cFeet,        \* the control robot: posW and its soles in its base frame
  rPos, rFeet, rImu,  \* the real robot: posW, soles and IMU body in the base frame
  trueBase,           \* the real base's actual orientation, which the IMU reads
  orientation_,       \* the observer's members
  position_,
  fresh,              \* no reading changed since the last run()
  moves               \* times the robots moved so far

vars == <<cPos, cFeet, rPos, rFeet, rImu, trueBase, orientation_, position_,
          fresh, moves>>

-----------------------------------------------------------------------------
(* Rotations and transforms as sva defines them.                          *)

Angles == {-90, 0, 90, 180}
Cos(t) == CASE t = 0 -> 1 [] t = 180 -> -1 [] OTHER -> 0
Sin(t) == CASE t = 90 -> 1 [] t = -90 -> -1 [] OTHER -> 0

Identity == <<<<1, 0, 0>>, <<0, 1, 0>>, <<0, 0, 1>>>>
Zero == <<0, 0, 0>>
RotX(t) == <<<<1, 0, 0>>, <<0, Cos(t), Sin(t)>>, <<0, -Sin(t), Cos(t)>>>>
RotY(t) == <<<<Cos(t), 0, -Sin(t)>>, <<0, 1, 0>>, <<Sin(t), 0, Cos(t)>>>>
RotZ(t) == <<<<Cos(t), Sin(t), 0>>, <<-Sin(t), Cos(t), 0>>, <<0, 0, 1>>>>

MatMul(A, B) == [i \in 1..3 |-> [j \in 1..3 |-> A[i][1] * B[1][j] + A[i][2] * B[2][j]
                                                + A[i][3] * B[3][j]]]
Transpose(A) == [i \in 1..3 |-> [j \in 1..3 |-> A[j][i]]]
MatVec(A, v) == [i \in 1..3 |-> A[i][1] * v[1] + A[i][2] * v[2] + A[i][3] * v[3]]
Plus(u, v) == [i \in 1..3 |-> u[i] + v[i]]
Minus(u, v) == [i \in 1..3 |-> u[i] - v[i]]

(* sva::PTransformd's product and inverse.                                 *)
PT(E, r) == [E |-> E, r |-> r]
Mul(X, Y) == PT(MatMul(X.E, Y.E), Plus(Y.r, MatVec(Transpose(Y.E), X.r)))
Inv(X) == PT(Transpose(X.E), [i \in 1..3 |-> -MatVec(X.E, X.r)[i]])

(* mc_rbdyn::rpyToMat and rpyFromMat: E = RotX(r) RotY(p) RotZ(y); roll   *)
(* atan2(E(1,2), E(2,2)), pitch -asin(E(0,2)), yaw atan2(E(0,1), E(0,0)). *)
(* On these matrices atan2 takes one non-zero argument at most, and       *)
(* atan2(0, 0) = 0.                                                         *)
rpyToMat(r, p, y) == MatMul(MatMul(RotX(r), RotY(p)), RotZ(y))
Atan2(s, c) == CASE c = 1 -> 0 [] c = -1 -> 180 [] s = 1 -> 90 [] s = -1 -> -90
                 [] OTHER -> 0
rpyFromMat(E) == <<Atan2(E[2][3], E[3][3]), -90 * E[1][3], Atan2(E[1][2], E[1][1])>>

Rotations == {rpyToMat(r, p, y) : r, p, y \in Angles}

-----------------------------------------------------------------------------
(* The robots' frames.                                                      *)

(* Robot::bodyPosW of a body whose pose in the base frame is X_b.          *)
BodyPosW(X_b, posW) == Mul(X_b, posW)

(* getAnchorFrame: the soles' frames interpolated at leftFootRatio_ 0.5.  *)
(* Only its translation is used, the midpoint of the soles' origins: the  *)
(* soles are placed so that it is an integer vector.                       *)
getAnchorFrame(feet, posW) ==
  LET l == BodyPosW(PT(Identity, feet[1]), posW).r
      r == BodyPosW(PT(Identity, feet[2]), posW).r
  IN  PT(Identity, [i \in 1..3 |-> (l[i] + r[i]) \div 2])

(* What the IMU reads: its own orientation, E_0_IMU = E_base_IMU E_0_base. *)
ImuReading == MatMul(rImu, trueBase)

-----------------------------------------------------------------------------
(* The observer.                                                            *)

(* The constructor: orientation_ the identity, position_ zero.             *)
Init ==
  /\ cPos \in ControlPoses /\ cFeet \in FeetChoices
  /\ rPos = PT(Identity, Zero) /\ rFeet \in FeetChoices /\ rImu \in ImuMounts
  /\ trueBase \in TrueOrientations
  /\ orientation_ = Identity /\ position_ = Zero
  /\ fresh = FALSE /\ moves = 0

(* Mutant: the IMU-to-base transform composed the other way round.        *)
EstimatedOrientationSwapped ==
  LET X_0_rBase    == rPos
      X_0_rIMU     == BodyPosW(PT(rImu, Zero), rPos)
      X_rIMU_rBase == Mul(X_0_rIMU, Inv(X_0_rBase))
      E_0_mBase    == MatMul(X_rIMU_rBase.E, ImuReading)
  IN  rpyToMat(rpyFromMat(E_0_mBase)[1], rpyFromMat(E_0_mBase)[2],
               rpyFromMat(cPos.E)[3])

(* estimateOrientation: the IMU reading carried to the base through the   *)
(* real robot's kinematics; its roll and pitch with the control base's yaw. *)
EstimatedOrientation ==
  LET X_0_rBase    == rPos
      X_0_rIMU     == BodyPosW(PT(rImu, Zero), rPos)
      X_rIMU_rBase == Mul(X_0_rBase, Inv(X_0_rIMU))
      E_0_mBase    == MatMul(X_rIMU_rBase.E, ImuReading)
      cRPY         == rpyFromMat(cPos.E)
      mRPY         == rpyFromMat(E_0_mBase)
  IN  rpyToMat(mRPY[1], mRPY[2], cRPY[3])

(* estimatePosition, with the orientation just estimated: the control     *)
(* anchor minus the real anchor's offset from the real base, rotated by   *)
(* the estimate.                                                           *)
EstimatedPosition(orientation) ==
  LET X_0_c    == getAnchorFrame(cFeet, cPos)
      X_0_s    == getAnchorFrame(rFeet, rPos)
      X_real_s == Mul(X_0_s, Inv(rPos))
  IN  Minus(X_0_c.r, MatVec(Transpose(orientation), X_real_s.r))

(* Mutant: estimatePosition before estimateOrientation.                    *)
runPositionFirst ==
  /\ orientation_' = EstimatedOrientation
  /\ position_' = EstimatedPosition(orientation_)
  /\ fresh' = TRUE
  /\ UNCHANGED <<cPos, cFeet, rPos, rFeet, rImu, trueBase, moves>>

(* run(), which reset() also calls: estimateOrientation, then              *)
(* estimatePosition.                                                        *)
run ==
  /\ orientation_' = EstimatedOrientation
  /\ position_' = EstimatedPosition(orientation_')
  /\ fresh' = TRUE
  /\ UNCHANGED <<cPos, cFeet, rPos, rFeet, rImu, trueBase, moves>>

(* updateRobot: the real robot's posW becomes the estimate.                *)
updateRobot ==
  /\ rPos' = PT(orientation_, position_)
  /\ UNCHANGED <<cPos, cFeet, rFeet, rImu, trueBase, orientation_, position_, fresh,
                 moves>>

(* The robots move: the real base turns, the control robot's base or      *)
(* either robot's joints change.                                            *)
Move ==
  /\ moves < MaxMoves /\ moves' = moves + 1
  /\ \/ trueBase' \in TrueOrientations /\ UNCHANGED <<cPos, cFeet, rFeet, rImu>>
     \/ cPos' \in ControlPoses /\ UNCHANGED <<cFeet, rFeet, rImu, trueBase>>
     \/ /\ cFeet' \in FeetChoices /\ rFeet' \in FeetChoices /\ rImu' \in ImuMounts
        /\ UNCHANGED <<cPos, trueBase>>
  /\ fresh' = FALSE
  /\ UNCHANGED <<rPos, orientation_, position_>>

Next == run \/ updateRobot \/ Move

Spec == Init /\ [][Next]_vars

-----------------------------------------------------------------------------
(* Properties                                                               *)

(* The coordinates of the world's vertical in a base frame of orientation *)
(* E: what roll and pitch determine and yaw does not change.               *)
Tilt(E) == MatVec(E, <<0, 0, 1>>)

(* Once run() has seen the current readings, the estimate is tilted as    *)
(* the IMU finds the real base tilted, through the real robot's           *)
(* kinematics: the world's vertical has the same coordinates in the       *)
(* estimated and in the actual base frame, also at pitch +-90 deg where   *)
(* rpyFromMat can no longer tell roll from yaw and the yaw is replaced.    *)
EstimateKeepsImuTilt == fresh => Tilt(orientation_) = Tilt(trueBase)

(* Once run() has seen the current readings and updateRobot has written   *)
(* its estimate, the real robot's anchor, halfway between its soles, is   *)
(* where the control robot's anchor is.                                     *)
AnchorsCoincide ==
  fresh /\ rPos = PT(orientation_, position_)
    => getAnchorFrame(rFeet, rPos).r = getAnchorFrame(cFeet, cPos).r

=============================================================================
