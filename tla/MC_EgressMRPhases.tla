------------------------- MODULE MC_EgressMRPhases -------------------------
(***************************************************************************)
(* Phase lists and starting contacts for checking EgressMRPhases.  The     *)
(* controller that builds the phase list is not part of the repository:   *)
(* the lists below are the orders in which the phases' own contact         *)
(* bookkeeping fits together (see README.md).                              *)
(***************************************************************************)
EXTENDS EgressMRPhases

Ph(k) == [kind |-> k, surf |-> "", maxWiggles |-> 0, autoTransit |-> FALSE]

(* Seated in the vehicle: left sole on the exit platform, seat, right     *)
(* gripper on the steering wheel.                                          *)
SeatedContacts == << <<"LFullSole", "exit_platform">>,
                     <<"Butthock", "left_seat">>,
                     <<"RightGripper", "bar_wheel">> >>

(* Turn on the lazy susan, put both feet down, stand, shift the CoM.      *)
LazySusanOrder ==
  << Ph("Start"), Ph("RotateLazy"), Ph("ReplaceLeftFoot"),
     Ph("PutDownRightFoot"), Ph("Standup"),
     [Ph("MoveComForce") EXCEPT !.surf = "LFullSole"],
     [Ph("MoveComSurf") EXCEPT !.surf = "LFullSole", !.autoTransit = TRUE],
     Ph("CenterCom"), Ph("ReplaceRightHand") >>

(* The variant that moves the right foot onto the exit platform.           *)
RightFootOrder ==
  << Ph("Start"), Ph("RotateLazy"), Ph("ReplaceLeftFoot"),
     Ph("ReplaceRightFoot"), Ph("PlaceRightFoot") >>

(* Release the steering wheel: open the gripper, wiggle it out, bring the *)
(* hand back.                                                               *)
GripperOrder ==
  << Ph("Start"), Ph("OpenRightGripper"),
     [Ph("RemoveRightGripper") EXCEPT !.maxWiggles = 2],
     Ph("ReplaceRightHand") >>

(* The egresses from the seated posture: the two that lift the feet and  *)
(* the release of the steering wheel; the foot-moving variant alone; the  *)
(* gripper egress alone.                                                    *)
EgressOrders == {LazySusanOrder, RightFootOrder, GripperOrder}
RightFootOrders == {RightFootOrder}
GripperOrders == {GripperOrder}

=============================================================================
