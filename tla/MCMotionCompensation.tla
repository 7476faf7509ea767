------------------------ MODULE MCMotionCompensation ------------------------
(* A headset 0, whose mode every frame writes, a tracker 1, which the GUI may
   take for a hand, and a tracker 3, which it does not know; requests as the
   overlay makes them. *)
EXTENDS MotionCompensation

Mode(mc, rt, mode) ==
  [type |-> "MotionCompensationMode", mc |-> mc, rt |-> rt, mode |-> mode]

Devices == {0, 1, 3}
Trackers == Devices \ {0}

Enabling == {Mode(0, t, "ReferenceTracker") : t \in Trackers}
Disabling == {Mode(0, t, "Disabled") : t \in Trackers}
Resetting == {[type |-> "ResetRefZeroPose"]}
Reading == {[type |-> "GetDeviceInfo", id |-> 0]}
Logging == [type : {"DebugLogger"}, enabled : BOOLEAN]

AllRequests == Enabling \cup Disabling \cup Resetting \cup Reading \cup Logging
Switches == Enabling \cup Disabling
Changes == Enabling \cup Resetting
=============================================================================
