------------------------- MODULE MotionCompensation -------------------------
(***************************************************************************)
(* The driver's motion compensation by a reference tracker: what the       *)
(* requests of the overlay do to the MotionCompensationManager and to the  *)
(* modes of the devices, while the devices report poses on threads of      *)
(* their own and the server's frames write modes as well: that of device 0 *)
(* each time, those of devices 1 and 2 as the GUI asks.                    *)
(*                                                                         *)
(* A request is handled by the IPC thread as a sequence of assignments to  *)
(* fields that the pose threads read at any time; no lock spans two of     *)
(* them.  The pose of a tracker takes a step for each section it executes  *)
(* under a lock.  Positions, rotations and filters are abstracted to the   *)
(* device they come from.                                                  *)
(***************************************************************************)
EXTENDS Integers, Sequences

CONSTANTS Device,   \* OpenVR ids of the devices that have a handle
          Request,  \* what the overlay may ask
          WarmUp    \* frames before a reference pose is valid (100)

Off == -1           \* a device id that is none, as in _McDeviceID = -1

(* Modes that requests set, and modes that the server's frames set.  Hand is
   whatever mode a message of the GUI has given to a hand: an interaction's,
   or the Default that ends it. *)
DeviceMode == {"Default", "MotionCompensated", "ReferenceTracker"}
FrameMode == {"HMDTracking", "Hand"}
CompensationMode == {"Disabled", "ReferenceTracker"}

(* Handlers look ids up before they test for null, so that an id without a
   handle has no defined outcome: requests name devices that have one. *)
RequestType ==
  [type : {"GetDeviceInfo"}, id : Device]
    \cup [type : {"MotionCompensationMode"}, mc : Device, rt : Device,
          mode : CompensationMode]
    \cup [type : {"SetProperties", "ResetRefZeroPose", "SetOffsets"}]
    \cup [type : {"DebugLogger"}, enabled : BOOLEAN]

ASSUME DeviceAssumption == Device \subseteq Nat
ASSUME RequestAssumption == Request \subseteq RequestType
ASSUME WarmUpAssumption == WarmUp \in Nat

VARIABLES mcm,         \* fields of the MotionCompensationManager
          deviceMode,  \* m_deviceMode of each handle
          request,     \* requests in hand: at most one
          todo,        \* assignments the handler has still to make
          pose,        \* where each device's pose thread is
          counted,     \* the frame counter as each of them has read it
          refPosOf, refRotOf,  \* devices the reference comes from
          frames       \* history: updates by the tracker since it became one

managerVars == <<mcm, deviceMode>>
requestVars == <<request, todo>>
poseVars == <<pose, counted, refPosOf, refRotOf>>
vars == <<managerVars, requestVars, poseVars, frames>>

Manager ==
  [Mode : CompensationMode, Enabled : BOOLEAN,
   McDeviceID : Device \cup {Off}, RtDeviceID : Device \cup {Off},
   RefPoseValid : BOOLEAN,
   RefPoseValidCounter : 0..WarmUp + 1, ZeroPoseValid : BOOLEAN,
   DebuggerRunning : BOOLEAN]

Assignment ==
  [field : {"Mode"}, to : CompensationMode]
    \cup [field : {"McDeviceID", "RtDeviceID"}, to : Device \cup {Off}]
    \cup [field : {"Enabled", "RefPoseValid", "ZeroPoseValid", "DebuggerRunning"},
             to : BOOLEAN]
    \cup [field : {"RefPoseValidCounter"}, to : {0}]
    \cup [device : Device, to : DeviceMode]

PoseStep == {"idle", "setZeroPose", "position", "rotation", "counter", "validity"}

Init ==
  /\ mcm = [Mode |-> "Disabled", Enabled |-> FALSE,
            McDeviceID |-> Off, RtDeviceID |-> Off,
            RefPoseValid |-> FALSE, RefPoseValidCounter |-> 0,
            ZeroPoseValid |-> FALSE, DebuggerRunning |-> FALSE]
  /\ deviceMode = [d \in Device |-> "Default"]
  /\ request = {}
  /\ todo = <<>>
  /\ pose = [d \in Device |-> "idle"]
  /\ counted = [d \in Device |-> 0]
  /\ refPosOf = Off
  /\ refRotOf = Off
  /\ frames = 0

-----------------------------------------------------------------------------
(* What a request assigns, in order. *)

Set(field, value) == [field |-> field, to |-> value]
setMotionCompensationDeviceMode(d, mode) == [device |-> d, to |-> mode]

setNewReferenceTracker(d) ==
  <<Set("RtDeviceID", d), Set("RefPoseValid", FALSE),
    Set("ZeroPoseValid", FALSE)>>

(* Bug: the old ids stay when compensation is switched off, and on. *)
setMotionCompensationModeWithoutIds(mode, mc, rt) ==
  (IF mode = "ReferenceTracker"
     THEN <<Set("RefPoseValid", FALSE), Set("RefPoseValidCounter", 0),
            Set("ZeroPoseValid", FALSE), Set("Enabled", TRUE)>>
     ELSE <<Set("Enabled", FALSE)>>)
  \o (IF mcm.McDeviceID = Off
        THEN <<Set("McDeviceID", mc), Set("RtDeviceID", rt)>> ELSE <<>>)
  \o <<Set("Mode", mode)>>

setMotionCompensationMode(mode, mc, rt) ==
  (IF mode = "ReferenceTracker"
     THEN <<Set("RefPoseValid", FALSE), Set("RefPoseValidCounter", 0),
            Set("ZeroPoseValid", FALSE), Set("Enabled", TRUE)>>
     ELSE <<Set("Enabled", FALSE)>>)
  \o <<Set("McDeviceID", mc), Set("RtDeviceID", rt), Set("Mode", mode)>>

(* The new device to be compensated, when it differs from the old one.  The
   manager is told as if it were a new reference tracker. *)
ChangeMCdevice(mc) ==
  IF mcm.McDeviceID = mc THEN <<>>
  ELSE <<setMotionCompensationDeviceMode(mcm.McDeviceID, "Default"),
         setMotionCompensationDeviceMode(mc, "MotionCompensated")>>
       \o setNewReferenceTracker(mc)

(* Bug: the manager is told of the new device before the old one is looked
   up in it. *)
ChangeRTdeviceTooEarly(oldRt, rt) ==
  IF oldRt = rt THEN <<>>
  ELSE setNewReferenceTracker(rt)
       \o <<setMotionCompensationDeviceMode(rt, "ReferenceTracker"),
            setMotionCompensationDeviceMode(rt, "Default")>>

ChangeRTdevice(oldRt, rt) ==
  IF oldRt = rt THEN <<>>
  ELSE <<setMotionCompensationDeviceMode(oldRt, "Default"),
         setMotionCompensationDeviceMode(rt, "ReferenceTracker")>>
       \o setNewReferenceTracker(rt)

Enable(mc, rt) ==
  IF mcm.Mode = "ReferenceTracker"
    THEN ChangeMCdevice(mc)
         \o ChangeRTdevice(IF mcm.McDeviceID = mc THEN mcm.RtDeviceID ELSE mc, rt)
    ELSE <<setMotionCompensationDeviceMode(mc, "MotionCompensated"),
           setMotionCompensationDeviceMode(rt, "ReferenceTracker")>>
         \o setMotionCompensationMode("ReferenceTracker", mc, rt)

Disable(mc, rt) ==
  <<setMotionCompensationDeviceMode(mc, "Default"),
    setMotionCompensationDeviceMode(rt, "Default")>>
  \o setMotionCompensationMode("Disabled", Off, Off)

CanStartDebugData == mcm.Mode = "ReferenceTracker" /\ ~mcm.DebuggerRunning

DebugSettings(enabled) ==
  IF enabled /\ ~CanStartDebugData THEN <<>>
  ELSE <<Set("DebuggerRunning", enabled)>>

(* GetDeviceInfo only reads; properties and offsets are filter parameters
   and an entry of shared memory, which nothing here depends on. *)
Assignments(r) ==
  CASE r.type = "MotionCompensationMode" ->
         IF r.mode = "ReferenceTracker" THEN Enable(r.mc, r.rt)
                                        ELSE Disable(r.mc, r.rt)
    [] r.type = "ResetRefZeroPose" -> <<Set("ZeroPoseValid", FALSE)>>
    [] r.type = "DebugLogger" -> DebugSettings(r.enabled)
    [] OTHER -> <<>>

-----------------------------------------------------------------------------
(* The IPC thread. *)

Receive(r) ==
  /\ request = {}
  /\ request' = {r}
  /\ todo' = Assignments(r)
  /\ UNCHANGED <<managerVars, poseVars, frames>>

(* One assignment.  A device that becomes the tracker starts the count. *)
Assign ==
  /\ todo # <<>>
  /\ todo' = Tail(todo)
  /\ LET a == Head(todo) IN
       IF "device" \in DOMAIN a
         THEN /\ deviceMode' = [deviceMode EXCEPT ![a.device] = a.to]
              /\ frames' = IF a.to = "ReferenceTracker" THEN 0 ELSE frames
              /\ UNCHANGED mcm
         ELSE /\ mcm' = [mcm EXCEPT ![a.field] = a.to]
              /\ UNCHANGED <<deviceMode, frames>>
  /\ UNCHANGED <<request, poseVars>>

Reply ==
  /\ request # {}
  /\ todo = <<>>
  /\ request' = {}
  /\ UNCHANGED <<managerVars, todo, poseVars, frames>>

-----------------------------------------------------------------------------
(* The server's thread.  In every frame the headset is put into HMDTracking;
   a message of the GUI sets the modes of the two hands, which are the devices
   of ids 1 and 2 whatever they are, one after the other. *)

RunFrame(d) ==
  /\ \/ d = 0 /\ deviceMode' = [deviceMode EXCEPT ![d] = "HMDTracking"]
     \/ d \in {1, 2} /\ deviceMode' = [deviceMode EXCEPT ![d] = "Hand"]
  /\ UNCHANGED <<mcm, requestVars, poseVars, frames>>

-----------------------------------------------------------------------------
(* The pose threads.  A pose of a device in another mode than
   ReferenceTracker does not touch the reference. *)

HandlePoseUpdate(d) ==
  /\ pose[d] = "idle"
  /\ deviceMode[d] = "ReferenceTracker"
  /\ pose' = [pose EXCEPT ![d] = IF mcm.ZeroPoseValid THEN "position"
                                                      ELSE "setZeroPose"]
  /\ UNCHANGED <<managerVars, requestVars, counted, refPosOf, refRotOf, frames>>

(* Bug: the zero point is stored and not marked valid. *)
SetZeroPoseUnmarked(d) ==
  /\ pose[d] = "setZeroPose"
  /\ pose' = [pose EXCEPT ![d] = "idle"]
  /\ UNCHANGED <<managerVars, requestVars, counted, refPosOf, refRotOf, frames>>

SetZeroPose(d) ==
  /\ pose[d] = "setZeroPose"
  /\ pose' = [pose EXCEPT ![d] = "idle"]
  /\ mcm' = [mcm EXCEPT !.ZeroPoseValid = TRUE]
  /\ UNCHANGED <<deviceMode, requestVars, counted, refPosOf, refRotOf, frames>>

UpdateRefPosition(d) ==
  /\ pose[d] = "position"
  /\ pose' = [pose EXCEPT ![d] = "rotation"]
  /\ refPosOf' = d
  /\ UNCHANGED <<managerVars, requestVars, counted, refRotOf, frames>>

UpdateRefRotation(d) ==
  /\ pose[d] = "rotation"
  /\ pose' = [pose EXCEPT ![d] = "counter"]
  /\ refRotOf' = d
  /\ UNCHANGED <<managerVars, requestVars, counted, refPosOf, frames>>

(* The counter is read, and written back, without a lock. *)
ReadCounter(d) ==
  /\ pose[d] = "counter"
  /\ pose' = [pose EXCEPT ![d] = "validity"]
  /\ counted' = [counted EXCEPT ![d] = mcm.RefPoseValidCounter]
  /\ UNCHANGED <<managerVars, requestVars, refPosOf, refRotOf, frames>>

(* Bug: the warm-up counter has no upper end. *)
UpdateRefValidityUncapped(d) ==
  /\ pose[d] = "validity"
  /\ pose' = [pose EXCEPT ![d] = "idle"]
  /\ counted' = [counted EXCEPT ![d] = 0]
  /\ mcm' = [mcm EXCEPT !.RefPoseValid = counted[d] > WarmUp,
                        !.RefPoseValidCounter = counted[d] + 1]
  /\ UNCHANGED <<deviceMode, requestVars, refPosOf, refRotOf, frames>>

UpdateRefValidity(d) ==
  /\ pose[d] = "validity"
  /\ pose' = [pose EXCEPT ![d] = "idle"]
  /\ counted' = [counted EXCEPT ![d] = 0]
  /\ mcm' = IF counted[d] > WarmUp
              THEN [mcm EXCEPT !.RefPoseValid = TRUE]
              ELSE [mcm EXCEPT !.RefPoseValidCounter = counted[d] + 1]
  /\ frames' = IF deviceMode[d] = "ReferenceTracker" /\ frames <= WarmUp
                 THEN frames + 1 ELSE frames
  /\ UNCHANGED <<deviceMode, requestVars, refPosOf, refRotOf>>

PoseThread(d) ==
  \/ SetZeroPose(d) \/ UpdateRefPosition(d)
  \/ UpdateRefRotation(d) \/ ReadCounter(d) \/ UpdateRefValidity(d)

Next ==
  \/ \E r \in Request : Receive(r)
  \/ Assign
  \/ Reply
  \/ \E d \in Device : RunFrame(d)
  \/ \E d \in Device : HandlePoseUpdate(d)
  \/ \E d \in Device : PoseThread(d)

(* Handlers and poses that have begun finish, and devices go on reporting. *)
Fairness ==
  /\ WF_vars(Assign)
  /\ WF_vars(Reply)
  /\ \A d \in Device : WF_vars(HandlePoseUpdate(d) \/ PoseThread(d))

Spec == Init /\ [][Next]_vars /\ Fairness

-----------------------------------------------------------------------------
(* Every variable has a value of its type; the warm-up counter stops one
   past its limit (_RefPoseValidCounter in updateRefPose). *)
TypeOK ==
  /\ mcm \in Manager
  /\ deviceMode \in [Device -> DeviceMode \cup FrameMode]
  /\ request \in SUBSET Request
  /\ todo \in Seq(Assignment)
  /\ pose \in [Device -> PoseStep]
  /\ counted \in [Device -> 0..WarmUp + 1]
  /\ refPosOf \in Device \cup {Off}
  /\ refRotOf \in Device \cup {Off}
  /\ frames \in 0..WarmUp + 1

(* Nothing but a frame, which knows three devices, has taken device d out of
   mode m since a request put it there. *)
Holds(d, m) ==
  \/ deviceMode[d] = m
  \/ d \in {0, 1, 2} /\ deviceMode[d] \in FrameMode

(* When a request to compensate mc by rt is answered, the manager compensates
   with those two ids and the devices are in the modes it asked for (the
   handler of MotionCompensationMode in driver_ipc_shm.cpp, which compares
   with the ids stored before): unless a frame has set the mode of one since.
   To the headset that happens in the next frame, to a device 1 or 2 when the
   GUI asks; a tracker with another id keeps its mode. *)
RequestTakesEffect ==
  \A r \in request :
    todo = <<>> /\ r.type = "MotionCompensationMode" /\ r.mode = "ReferenceTracker" =>
      /\ mcm.Mode = "ReferenceTracker"
      /\ mcm.McDeviceID = r.mc /\ mcm.RtDeviceID = r.rt
      /\ Holds(r.mc, "MotionCompensated")
      /\ Holds(r.rt, "ReferenceTracker")

(* Between requests the ids the manager stores name devices in the modes for
   those roles, but for what frames have written since, so that the next
   change finds the device it has to put back (line 224 of
   driver_ipc_shm.cpp), and no lookup is made of the id -1. *)
IdsNameRoles ==
  request = {} /\ mcm.Mode = "ReferenceTracker" =>
    /\ mcm.McDeviceID \in Device /\ mcm.RtDeviceID \in Device
    /\ Holds(mcm.McDeviceID, "MotionCompensated")
    /\ Holds(mcm.RtDeviceID, "ReferenceTracker")

(* Once requests cease with the tracker the only device in that mode, the
   whole reference, which updateRefPose writes in two sections, is in the end
   its alone, and valid, whatever poses of the old tracker were under way:
   unless the GUI takes it for a hand, or another device was left in the mode
   (DisabledIsDefault). *)
TrackerTakesOver ==
  <>[](/\ request = {} /\ mcm.Mode = "ReferenceTracker"
       /\ \A d \in Device : deviceMode[d] = "ReferenceTracker" <=> d = mcm.RtDeviceID)
    => <>[](refPosOf = mcm.RtDeviceID /\ refRotOf = mcm.RtDeviceID /\ mcm.RefPoseValid)

(* "Wait 100 frames before setting reference pose to valid"
   (MotionCompensationManager.cpp:313): a valid reference pose has been
   updated by the present tracker as often as that. *)
ValidAfterWarmUp == mcm.RefPoseValid /\ request = {} => frames >= WarmUp

(* "Reset and set some vars for every device" (driver_ipc_shm.cpp:249): with
   motion compensation off, no device is left in a mode of it (one that no
   frame has written since, that is). *)
DisabledIsDefault ==
  mcm.Mode = "Disabled" /\ request = {} =>
    \A d \in Device : Holds(d, "Default")
=============================================================================
