---------------------------- MODULE ServerDriver ----------------------------
(***************************************************************************)
(* The driver as the GUI drives it: GUIController sends commands and, all  *)
(* the time, its sliders; the UDP link keeps the last message; RunFrame,   *)
(* on the server's main thread, turns it into a mode for each device and   *)
(* into the two parameter slots of MotionCompensationManager; and, on      *)
(* threads of their own, the devices report poses that are rewritten       *)
(* according to mode and slot.                                             *)
(*                                                                         *)
(* Nothing but the mailbox separates these threads, so RunFrame is split   *)
(* at the points where a pose update or an activation can get in between:  *)
(* its block for the left device, its block for the right one, its gamepad *)
(* block.                                                                  *)
(*                                                                         *)
(* A pose is a device and a place in the order of its reports.  What one   *)
(* message writes into a slot (CD ratio, offsets, rotation, punch          *)
(* distance) is one value, with the hand whose keys it was read from.      *)
(***************************************************************************)
EXTENDS Naturals

CONSTANTS Interactions,  \* those the GUI's list offers
          Values,        \* positions of the GUI's sliders
          PadValues,     \* positions of a trigger and stick of the gamepad
          MaxPresses,    \* bound: command buttons pressed in a behaviour
          MaxPoses       \* bound: valid poses per device in a behaviour

InteractionType ==
  {"go-go", "go-go-with-accel", "deactivate", "delay", "saber",
   "gamepad-boxing", "gamepad-saber"}

ASSUME InteractionsAssumption == Interactions \subseteq InteractionType
ASSUME PadAssumption == 0 \in PadValues
ASSUME BoundsAssumption == MaxPresses \in Nat /\ MaxPoses \in Nat

VARIABLES selected,         \* the GUI's i_interaction_idx
          sliders,
          presses,          \* command buttons pressed so far
          box, pending,     \* the UDP link, see Mailbox
          msg,              \* the last message RunFrame took from it
          frame,            \* where RunFrame is
          gamepad,
          deviceActivated,
          deviceMode,       \* m_deviceMode of the handle of each device
          isGoGoActive,
          reported,         \* valid poses each device has reported
          lastPos, goGoRefPos, params, pad,   \* the two slots
          shared, buttons,  \* saber rotation and stick sensitivity; A and B
          hmdPos

guiVars == <<selected, sliders, presses>>
linkVars == <<box, pending, msg>>
handleVars == <<deviceMode, isGoGoActive>>
slotVars == <<lastPos, goGoRefPos, params, pad, shared, buttons, hmdPos>>
vars == <<guiVars, linkVars, frame, gamepad, deviceActivated, handleVars,
          reported, slotVars>>

-----------------------------------------------------------------------------
(* Devices, modes, slots and messages *)

hmd == 0
left == 1
right == 2
Device == {hmd, left, right}
Slot == {0, 1}

(* The modes whose pose handlers work on slot 0 and on slot 1.             *)
Slot0Mode == {"MotionCompensated", "GoGo_accel", "Delay", "Saber",
              "GamepadBoxing", "GamepadSaber"}
Slot1Mode == {"MotionCompensated1", "GoGo_accel1", "Delay1", "Saber1",
              "GamepadBoxing1", "GamepadSaber1"}
Mode == {"Default", "HMDTracking"} \cup Slot0Mode \cup Slot1Mode

(* Bug: RunFrame knows no "saber", and mode stays uninitialised.            *)
modeUninitialised(type) ==
  CASE type = "go-go"            -> "MotionCompensated"
    [] type = "go-go-with-accel" -> "GoGo_accel"
    [] type = "deactivate"       -> "Default"
    [] type = "delay"            -> "Delay"
    [] type = "gamepad-boxing"   -> "GamepadBoxing"
    [] type = "gamepad-saber"    -> "GamepadSaber"
    [] OTHER                     -> "garbage"

(* mode and mode1 of RunFrame, by type_interaction.                        *)
mode(type) ==
  CASE type = "go-go"            -> "MotionCompensated"
    [] type = "go-go-with-accel" -> "GoGo_accel"
    [] type = "deactivate"       -> "Default"
    [] type = "delay"            -> "Delay"
    [] type = "saber"            -> "Saber"
    [] type = "gamepad-boxing"   -> "GamepadBoxing"
    [] type = "gamepad-saber"    -> "GamepadSaber"

mode1(type) ==
  CASE type = "go-go"            -> "MotionCompensated1"
    [] type = "go-go-with-accel" -> "GoGo_accel1"
    [] type = "deactivate"       -> "Default"
    [] type = "delay"            -> "Delay1"
    [] type = "saber"            -> "Saber1"
    [] type = "gamepad-boxing"   -> "GamepadBoxing1"
    [] type = "gamepad-saber"    -> "GamepadSaber1"

NoMessage == [kind |-> "none"]
Command == [kind : {"SetRefPos", "ActivateGoGo", "DeactivateGoGo"}]
Parameters == [kind : {"params"}, type : Interactions, values : Values]
Message == Command \cup Parameters

Link == INSTANCE Mailbox WITH Empty <- NoMessage, seen <- msg

NoHand == "none"
NoPose == [device |-> hmd, n |-> 0]
Pose == [device : Device, n : 0 .. MaxPoses]
Unset == [hand |-> NoHand]
SlotParams == {Unset} \cup [hand : {"left", "right"}, values : Values]

Init ==
  /\ selected \in Interactions
  /\ sliders \in Values
  /\ presses = 0
  /\ Link!Init
  /\ frame = "idle"
  /\ gamepad = [left |-> 0, right |-> 0, button |-> "none"]
  /\ deviceActivated = [d \in Device |-> FALSE]
  /\ deviceMode = [d \in Device |-> "Default"]
  /\ isGoGoActive = [d \in Device |-> TRUE]
  /\ reported = [d \in Device |-> 0]
  /\ lastPos = [s \in Slot |-> NoPose]
  /\ goGoRefPos = [s \in Slot |-> NoPose]
  /\ params = [s \in Slot |-> Unset]
  /\ pad = [s \in Slot |-> [hand |-> NoHand, value |-> 0]]
  /\ shared = Unset
  /\ buttons = "none"
  /\ hmdPos = NoPose

-----------------------------------------------------------------------------
(* GUIController *)

ListInteraction(i) ==
  /\ selected' = i
  /\ UNCHANGED <<sliders, presses, linkVars, frame, gamepad, deviceActivated,
                 handleVars, reported, slotVars>>

MoveSliders(v) ==
  /\ sliders' = v
  /\ UNCHANGED <<selected, presses, linkVars, frame, gamepad, deviceActivated,
                 handleVars, reported, slotVars>>

(* A command button is pressed; its datagram may get lost.                 *)
Press(c) ==
  /\ presses < MaxPresses
  /\ presses' = presses + 1
  /\ Link!Store(c) \/ UNCHANGED linkVars
  /\ UNCHANGED <<selected, sliders, frame, gamepad, deviceActivated,
                 handleVars, reported, slotVars>>

(* draw() sends the list's choice and the sliders every send_intval ms.    *)
(* (That datagram getting lost is a step that changes nothing.)            *)
SendParams ==
  /\ Link!Store([kind |-> "params", type |-> selected, values |-> sliders])
  /\ UNCHANGED <<guiVars, frame, gamepad, deviceActivated, handleVars,
                 reported, slotVars>>

-----------------------------------------------------------------------------
(* RunFrame *)

(* gamepad.Refresh(): a pad that does not answer keeps the last trigger    *)
(* and stick positions, but its buttons read as released.  (Button A wins  *)
(* over B, so "A" stands for both as well.)                                *)
Refresh ==
  \/ gamepad' \in [left : PadValues, right : PadValues,
                   button : IF PadValues = {0} THEN {"none"}
                            ELSE {"none", "A", "B"}]
  \/ gamepad' = [gamepad EXCEPT !.button = "none"]

(* Refreshes the gamepad, polls the UDP link, and puts the HMD's handle    *)
(* into tracking mode.                                                     *)
BeginFrame ==
  /\ frame = "idle"
  /\ Refresh
  /\ \/ Link!Read /\ frame' = "left"
     \/ frame' = "gamepad" /\ UNCHANGED linkVars
  /\ deviceMode' = IF deviceActivated[hmd]
                   THEN [deviceMode EXCEPT ![hmd] = "HMDTracking"]
                   ELSE deviceMode
  /\ UNCHANGED <<guiVars, deviceActivated, isGoGoActive, reported, slotVars>>

(* The message was torn by the receiver thread: json::parse throws, nobody *)
(* catches, and the server is gone.                                        *)
FrameThrows ==
  /\ frame = "idle"
  /\ pending
  /\ frame' = "crashed"
  /\ UNCHANGED <<guiVars, linkVars, gamepad, deviceActivated, handleVars,
                 reported, slotVars>>

(* Bug: a controller that was deactivated ignores the selection.           *)
NewModeIfActive(d, m) ==
  CASE m.kind = "DeactivateGoGo" \/ ~isGoGoActive[d] -> "Default"
    [] m.kind = "ActivateGoGo" ->
         IF d = left THEN "MotionCompensated1" ELSE "MotionCompensated"
    [] m.kind = "params" -> IF d = left THEN mode1(m.type) ELSE mode(m.type)

(* The mode that message m gives to controller d.                          *)
NewMode(d, m) ==
  CASE m.kind = "DeactivateGoGo" -> "Default"
    [] m.kind = "ActivateGoGo" ->
         IF d = left THEN "MotionCompensated1" ELSE "MotionCompensated"
    [] m.kind = "params" -> IF d = left THEN mode1(m.type) ELSE mode(m.type)

(* What RunFrame does with message m for controller d: s is the slot its   *)
(* setters write, h the hand whose keys it reads.                          *)
HandleMessage(m, d, s, h) ==
  IF ~deviceActivated[d]
  THEN UNCHANGED <<handleVars, slotVars>>
  ELSE
    \/ /\ m.kind = "SetRefPos"
       /\ goGoRefPos' = [goGoRefPos EXCEPT ![s] = lastPos[s]]
       /\ UNCHANGED <<handleVars, lastPos, params, pad, shared, buttons,
                      hmdPos>>
    \/ /\ m.kind \in {"ActivateGoGo", "DeactivateGoGo"}
       /\ goGoRefPos' = [goGoRefPos EXCEPT ![s] = lastPos[s]]
       /\ deviceMode' = [deviceMode EXCEPT ![d] = NewMode(d, m)]
       /\ isGoGoActive' = [isGoGoActive EXCEPT
                             ![d] = (m.kind = "ActivateGoGo")]
       /\ UNCHANGED <<lastPos, params, pad, shared, buttons, hmdPos>>
    \/ /\ m.kind = "params"
       /\ deviceMode' = [deviceMode EXCEPT ![d] = NewMode(d, m)]
       /\ params' = [params EXCEPT ![s] = [hand |-> h, values |-> m.values]]
       /\ shared' = m.values
       /\ UNCHANGED <<isGoGoActive, lastPos, goGoRefPos, pad, buttons, hmdPos>>

(* Bug: the left device's block writes slot 1, "its own".                  *)
LeftBlockIntoSlot1 ==
  /\ frame = "left"
  /\ frame' = "right"
  /\ HandleMessage(msg, left, 1, "right")
  /\ UNCHANGED <<guiVars, linkVars, gamepad, deviceActivated, reported>>

LeftBlock ==
  /\ frame = "left"
  /\ frame' = "right"
  /\ HandleMessage(msg, left, 0, "right")
  /\ UNCHANGED <<guiVars, linkVars, gamepad, deviceActivated, reported>>

(* Bug: the right device's block looks at the link again.                  *)
RightBlockPollsAgain ==
  /\ frame = "right"
  /\ frame' = "gamepad"
  /\ HandleMessage(box, right, 1, "left")
  /\ UNCHANGED <<guiVars, linkVars, gamepad, deviceActivated, reported>>

RightBlock ==
  /\ frame = "right"
  /\ frame' = "gamepad"
  /\ HandleMessage(msg, right, 1, "left")
  /\ UNCHANGED <<guiVars, linkVars, gamepad, deviceActivated, reported>>

(* Bug: the left side of the pad goes to the slot written for the left     *)
(* device.                                                                 *)
PadSideByDevice(s) ==
  IF s = 0 THEN [hand |-> "left", value |-> gamepad.left]
  ELSE [hand |-> "right", value |-> gamepad.right]

(* The side of the gamepad whose trigger and stick go to slot s.           *)
PadSide(s) ==
  IF s = 0 THEN [hand |-> "right", value |-> gamepad.right]
  ELSE [hand |-> "left", value |-> gamepad.left]

(* Every frame, the gamepad's sides go to the two slots, by way of the     *)
(* devices that are active, and the buttons by way of the left one.        *)
GamepadBlock ==
  /\ frame = "gamepad"
  /\ frame' = "idle"
  /\ pad' = [s \in Slot |->
               IF deviceActivated[IF s = 0 THEN left ELSE right]
               THEN PadSide(s) ELSE pad[s]]
  /\ buttons' = IF deviceActivated[left] THEN gamepad.button ELSE buttons
  /\ UNCHANGED <<guiVars, linkVars, gamepad, deviceActivated, handleVars,
                 reported, lastPos, goGoRefPos, params, shared, hmdPos>>

RunFrame == BeginFrame \/ LeftBlock \/ RightBlock \/ GamepadBlock

-----------------------------------------------------------------------------
(* The hooked server interface *)

Alive == frame # "crashed"

(* A device is activated under its OpenVR id.                              *)
Activate(d) ==
  /\ Alive
  /\ ~deviceActivated[d]
  /\ deviceActivated' = [deviceActivated EXCEPT ![d] = TRUE]
  /\ UNCHANGED <<guiVars, linkVars, frame, gamepad, handleVars, reported,
                 slotVars>>

(* handlePoseUpdate() for a valid pose (it ignores any other): each slot   *)
(* mode records the pose in its slot before it rewrites the position.      *)
HandlePoseUpdate(d) ==
  /\ Alive
  /\ deviceActivated[d]
  /\ reported[d] < MaxPoses
  /\ reported' = [reported EXCEPT ![d] = @ + 1]
  /\ LET pose == [device |-> d, n |-> reported[d] + 1] IN
     \/ /\ deviceMode[d] \in Slot0Mode
        /\ lastPos' = [lastPos EXCEPT ![0] = pose]
        /\ UNCHANGED hmdPos
     \/ /\ deviceMode[d] \in Slot1Mode
        /\ lastPos' = [lastPos EXCEPT ![1] = pose]
        /\ UNCHANGED hmdPos
     \/ /\ deviceMode[d] = "HMDTracking"
        /\ hmdPos' = pose
        /\ UNCHANGED lastPos
     \/ /\ deviceMode[d] = "Default"
        /\ UNCHANGED <<lastPos, hmdPos>>
  /\ UNCHANGED <<guiVars, linkVars, frame, gamepad, deviceActivated,
                 handleVars, goGoRefPos, params, pad, shared, buttons>>

-----------------------------------------------------------------------------
Gui ==
  \/ \E i \in Interactions : ListInteraction(i)
  \/ \E v \in Values : MoveSliders(v)
  \/ \E c \in Command : Press(c)
  \/ SendParams

Devices == \E d \in Device : Activate(d) \/ HandlePoseUpdate(d)

Next == Gui \/ RunFrame \/ FrameThrows \/ Devices

(***************************************************************************)
(* The server calls RunFrame for as long as it runs; the GUI keeps sending *)
(* its parameters, and the loopback interface does not lose all of them.   *)
(* A frame may find the flag not yet raised, but a stored message is taken *)
(* in the end (MyUDPManager, StoredIsDelivered).  Nobody has to press a    *)
(* button, activate a device or report a pose.                             *)
(***************************************************************************)
Fairness ==
  /\ WF_vars(SendParams)
  /\ WF_vars(RunFrame)
  /\ SF_vars(BeginFrame /\ frame' = "left")

Spec == Init /\ [][Next]_vars

FairSpec == Spec /\ Fairness

-----------------------------------------------------------------------------
TypeOK ==
  /\ selected \in Interactions
  /\ sliders \in Values
  /\ presses \in 0 .. MaxPresses
  /\ box \in Message \cup {NoMessage}
  /\ msg \in Message \cup {NoMessage}
  /\ pending \in BOOLEAN
  /\ frame \in {"idle", "left", "right", "gamepad", "crashed"}
  /\ gamepad \in [left : PadValues, right : PadValues,
                  button : {"none", "A", "B"}]
  /\ deviceActivated \in [Device -> BOOLEAN]
  /\ deviceMode \in [Device -> Mode]
  /\ isGoGoActive \in [Device -> BOOLEAN]
  /\ reported \in [Device -> 0 .. MaxPoses]
  /\ lastPos \in [Slot -> Pose]
  /\ goGoRefPos \in [Slot -> Pose]
  /\ params \in [Slot -> SlotParams]
  /\ pad \in [Slot -> [hand : {NoHand, "left", "right"}, value : PadValues]]
  /\ shared \in Values \cup {Unset}
  /\ buttons \in {"none", "A", "B"}
  /\ hmdPos \in Pose

(* The device whose poses go through a slot, and its hand.                 *)
DeviceOf(s) == IF s = 0 THEN right ELSE left
HandOf(s) == IF s = 0 THEN "right" ELSE "left"

(* The two hands never mix, although modes, reference positions, sliders   *)
(* and gamepad reach a slot by four different routes, the first in the     *)
(* block of one device and the others in the block of the other: the poses *)
(* recorded in a slot and its reference are those of one device, and its   *)
(* parameters and gamepad side are those of the same hand.  The HMD's      *)
(* poses go through no slot.                                               *)
HandsDoNotMix ==
  /\ deviceMode[hmd] \in {"Default", "HMDTracking"}
  /\ deviceMode[left] \in Slot1Mode \cup {"Default"}
  /\ deviceMode[right] \in Slot0Mode \cup {"Default"}
  /\ \A s \in Slot :
       /\ lastPos[s] # NoPose => lastPos[s].device = DeviceOf(s)
       /\ goGoRefPos[s] # NoPose => goGoRefPos[s].device = DeviceOf(s)
       /\ params[s].hand \in {NoHand, HandOf(s)}
       /\ pad[s].hand \in {NoHand, HandOf(s)}

(* The modes of the right and of the left device in one interaction.       *)
Counterparts ==
  {<<"MotionCompensated", "MotionCompensated1">>, <<"GoGo_accel", "GoGo_accel1">>,
   <<"Delay", "Delay1">>, <<"Saber", "Saber1">>,
   <<"GamepadBoxing", "GamepadBoxing1">>, <<"GamepadSaber", "GamepadSaber1">>}

(* Between messages the two controllers are never in modes of different    *)
(* interactions, nor on sliders of different messages, whenever in the     *)
(* course of a frame either of them was activated.                         *)
HandsAgree ==
  frame \in {"idle", "gamepad"} =>
    /\ deviceMode[left] # "Default" /\ deviceMode[right] # "Default"
         => <<deviceMode[right], deviceMode[left]>> \in Counterparts
    /\ params[0] # Unset /\ params[1] # Unset
         => params[0].values = params[1].values

-----------------------------------------------------------------------------
ModesAre(i) ==
  /\ deviceActivated[left] => deviceMode[left] = mode1(i)
  /\ deviceActivated[right] => deviceMode[right] = mode(i)

(* An interaction that stays selected in the GUI ends up in force on every *)
(* active controller and stays in force, whatever commands were sent and   *)
(* lost, repeated or overwritten on the way (while the server is alive).   *)
SelectionTakesEffect ==
  \A i \in Interactions :
    <>[](selected = i /\ Alive) => <>[](frame = "idle" => ModesAre(i))
=============================================================================
