------------------------- MODULE MCCompensatedPose --------------------------
(* A headset 0 and a tracker 1 on a platform that turns by quarters and
   thirds of a turn about different axes, and shifts.  HandPose comes along
   with its constants in millimetres. *)
EXTENDS CompensatedPose, HandPose

Devices == {0, 3}
Requests ==
  {[type |-> "MotionCompensationMode", mc |-> 0, rt |-> 3, mode |-> m] :
     m \in CompensationMode}
  \cup {[type |-> "ResetRefZeroPose"]}

QuarterTurn == [pos |-> Vec(1, 0, 0), rot |-> Quat(1, 0, 1, 0)]
ThirdTurn == [pos |-> Vec(0, 0, 2), rot |-> Quat(1, 1, 1, 1)]
Poses == {QuarterTurn, ThirdTurn}

Heads == {Quat(1, 1, 0, 0)}
World == [pos |-> Vec(0, 3, 1), rot |-> Quat(1, 0, 0, 1)]
=============================================================================
