--------------- MODULE MC_KinematicInertialPoseObserver ---------------
(***************************************************************************)
(* Robots for checking KinematicInertialPoseObserver: the real base may   *)
(* have any of the 24 orientations, the control base one of four headings *)
(* or a tilt; two stances of the soles and two IMU mountings, one of them *)
(* turned so that carrying the reading to the base matters.                *)
(***************************************************************************)
EXTENDS KinematicInertialPoseObserver

MCTrueOrientations == Rotations
MCControlPoses == {PT(RotZ(y), <<1, 0, 0>>) : y \in Angles} \cup {PT(RotX(90), Zero)}
MCFeetChoices == { << <<0, 1, -2>>, <<0, -1, -2>> >>, << <<2, 1, -2>>, <<0, -1, -2>> >> }
MCImuMounts == {Identity, RotX(90)}

=============================================================================
