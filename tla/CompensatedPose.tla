--------------------------- MODULE CompensatedPose ---------------------------
(***************************************************************************)
(* What a reference tracker's poses and the headset's come to: the control *)
(* of MotionCompensation with the poses themselves, on a platform that     *)
(* moves at any time.  Tracker and headset are on the platform, the        *)
(* tracker fixed to it, and belong to drivers with one world-from-driver   *)
(* transform; position and rotation filters are switched off (fewer than 2 *)
(* samples, a beta above 0.9999).                                          *)
(*                                                                         *)
(* Each action is one of MotionCompensation with what it does to the poses *)
(* beside it; the headset's thread is new.                                 *)
(***************************************************************************)
EXTENDS MotionCompensation, PoseMath

CONSTANTS PlatformPose,     \* where the platform may be, in driver space
          HeadRotation,     \* rotations of the head on the platform
          WorldFromDriver   \* qWorldFromDriverRotation, vecWorldFromDriverTranslation

PoseType == [pos : Vector, rot : Quaternion]

ASSUME PlatformAssumption == PlatformPose \subseteq PoseType /\ PlatformPose # {}
ASSUME HeadAssumption == HeadRotation \subseteq Quaternion
ASSUME WorldAssumption == WorldFromDriver \in PoseType

VARIABLES platform,   \* where the platform is
          newPose,    \* the pose each tracker's thread has in hand
          zero,       \* _ZeroPos and _ZeroRot
          ref,        \* _RefPos and _RefRot
          headPose,   \* the headset's pose on its way into the compensation
          shown       \* that pose when it has been compensated

dataVars == <<newPose, zero, ref>>
headVars == <<headPose, shown>>
allVars == <<vars, platform, dataVars, headVars>>

One == Quat(1, 0, 0, 0)
Origin == Vec(0, 0, 0)
Rest == [pos |-> Origin, rot |-> One]

PoseInit ==
  /\ Init
  /\ platform \in PlatformPose
  /\ newPose = [d \in Device |-> Rest]
  /\ zero = Rest
  /\ ref = Rest
  /\ headPose = {}
  /\ shown = {}

-----------------------------------------------------------------------------
MovePlatform(p) ==
  /\ platform # p
  /\ platform' = p
  /\ UNCHANGED <<vars, dataVars, headVars>>

(* The IPC thread, which touches no pose. *)
HandleRequest ==
  /\ (\E r \in Request : Receive(r)) \/ Assign \/ Reply
  /\ UNCHANGED <<platform, dataVars, headVars>>

(* The server's thread, which touches none either. *)
FrameStep ==
  /\ \E d \in Device : RunFrame(d)
  /\ UNCHANGED <<platform, dataVars, headVars>>

(* A tracker reports: the thread works on the pose of that moment. *)
TrackerPose(d) ==
  /\ HandlePoseUpdate(d)
  /\ newPose' = [newPose EXCEPT ![d] = platform]
  /\ UNCHANGED <<platform, zero, ref, headVars>>

setZeroPose(d) ==
  /\ SetZeroPose(d)
  /\ zero' = [pos |-> AppPosition(WorldFromDriver, newPose[d].pos),
              rot |-> AppRotation(WorldFromDriver, newPose[d].rot)]
  /\ newPose' = [newPose EXCEPT ![d] = Rest]
  /\ UNCHANGED <<platform, ref, headVars>>

UpdateRefPos(d) ==
  /\ UpdateRefPosition(d)
  /\ ref' = [ref EXCEPT !.pos = AppPosition(WorldFromDriver, newPose[d].pos)]
  /\ UNCHANGED <<platform, newPose, zero, headVars>>

(* Bug: the rotation is not taken relative to the zero point. *)
UpdateRefRotAbsolute(d) ==
  /\ UpdateRefRotation(d)
  /\ ref' = [ref EXCEPT !.rot = AppRotation(WorldFromDriver, newPose[d].rot)]
  /\ newPose' = [newPose EXCEPT ![d] = Rest]
  /\ UNCHANGED <<platform, zero, headVars>>

(* The pose in hand is not needed after this. *)
UpdateRefRot(d) ==
  /\ UpdateRefRotation(d)
  /\ ref' = [ref EXCEPT !.rot =
               RefRotation(WorldFromDriver, newPose[d].rot, zero.rot)]
  /\ newPose' = [newPose EXCEPT ![d] = Rest]
  /\ UNCHANGED <<platform, zero, headVars>>

FinishRef(d) ==
  /\ ReadCounter(d) \/ UpdateRefValidity(d)
  /\ UNCHANGED <<platform, dataVars, headVars>>

-----------------------------------------------------------------------------
(* The headset reports.  What is tested here is not looked at again. *)
HeadsetPose(r) ==
  /\ headPose = {}
  /\ headPose' =
       IF mcm.Enabled /\ mcm.ZeroPoseValid /\ mcm.RefPoseValid
         THEN {[head |-> r, rot |-> platform.rot ** r]} ELSE {}
  /\ shown' = {}
  /\ UNCHANGED <<vars, platform, dataVars>>

TakeHeadPose == headPose # {} /\ headPose' = {}

(* Both locks are held while zero point and reference are used.  Line 351
   has put the position at the driver's origin, whatever it was. *)
applyMotionCompensation ==
  /\ TakeHeadPose
  /\ shown' =
       {[head |-> h.head,
         pos |-> CompensatedPosition(WorldFromDriver, zero.pos, ref, Origin),
         rot |-> CompensatedRotation(WorldFromDriver, ref, h.rot)] : h \in headPose}
  /\ UNCHANGED <<vars, platform, dataVars>>

Tracker(d) ==
  \/ setZeroPose(d) \/ UpdateRefPos(d) \/ UpdateRefRot(d) \/ FinishRef(d)

PoseNext ==
  \/ \E p \in PlatformPose : MovePlatform(p)
  \/ HandleRequest
  \/ FrameStep
  \/ \E d \in Device : TrackerPose(d)
  \/ \E d \in Device : Tracker(d)
  \/ \E r \in HeadRotation : HeadsetPose(r)
  \/ applyMotionCompensation

(* As in MotionCompensation; the headset goes on reporting, too. *)
PoseFairness ==
  /\ Fairness
  /\ \A r \in HeadRotation : WF_headVars(HeadsetPose(r))
  /\ WF_headPose(TakeHeadPose)

PoseSpec == PoseInit /\ [][PoseNext]_allVars /\ PoseFairness

-----------------------------------------------------------------------------
Settled ==
  /\ request = {} /\ mcm.Mode = "ReferenceTracker"
  /\ deviceMode[mcm.RtDeviceID] = "ReferenceTracker"

(* A pose of the headset, taken from the platform as it is to the platform
   as it was at the zero point. *)
AtZero(h) ==
  LET seen == RotateBack(platform.rot, Origin \ominus platform.pos)
  IN [pos |-> DriverPosition(WorldFromDriver, zero.pos \oplus Rotate(zero.rot, seen)),
      rot |-> DriverRotation(WorldFromDriver, zero.rot ** h)]

ShownAtZero ==
  \A s \in shown :
    LET there == AtZero(s.head)
    IN s.pos = there.pos /\ SameRotation(s.rot, there.rot)

(* Once requests cease with compensation on, the GUI leaves the tracker its
   mode and the platform stands still, where the platform is makes no
   difference to the headset any more: each pose of it is passed on as it
   would have been on the platform of the zero point, although zero point and
   reference are written in several sections between which the platform
   moves, requests and frames arrive and headset poses are compensated.  As
   line 351 has it, the position is that of the driver's origin, the rotation
   the headset's own (setZeroPose, updateRefPose and applyMotionCompensation
   in MotionCompensationManager.cpp). *)
StillPlatformIsCancelled ==
  <>[]Settled /\ <>[][platform' = platform]_platform
    => <>[]ShownAtZero /\ []<>(shown # {})
=============================================================================
