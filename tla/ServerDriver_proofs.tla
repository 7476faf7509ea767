------------------------ MODULE ServerDriver_proofs ------------------------
(***************************************************************************)
(* Proofs about ServerDriver, for every list of interactions, any sliders  *)
(* and gamepad, and any number of commands and poses.                      *)
(***************************************************************************)
EXTENDS ServerDriver, TLAPS

-----------------------------------------------------------------------------
(* What the frame loop and the link rely on between their steps *)

(* Only what was stored is taken, and RunFrame's blocks work on a message. *)
TakenIsMessage ==
  /\ pending => box \in Message
  /\ frame \in {"left", "right"} => msg \in Message

(* What was not activated was not touched.                                 *)
DormantIsUntouched ==
  /\ \A d \in Device : ~deviceActivated[d] => deviceMode[d] = "Default"
  /\ ~deviceActivated[left] => params[0] = Unset
  /\ ~deviceActivated[right] => params[1] = Unset

ModesAgree ==
  deviceMode[left] # "Default" /\ deviceMode[right] # "Default"
    => <<deviceMode[right], deviceMode[left]>> \in Counterparts

ParamsAgree ==
  params[0] # Unset /\ params[1] # Unset
    => params[0].values = params[1].values

(* Between the two blocks, the left device is ahead of the right one by    *)
(* what the message says.                                                  *)
LeftIsAhead ==
  /\ IF msg.kind = "SetRefPos" THEN ModesAgree
     ELSE deviceMode[left] \in {"Default", NewMode(left, msg)}
  /\ IF msg.kind = "params"
     THEN params[0] # Unset => params[0].values = msg.values
     ELSE ParamsAgree

AgreeInv ==
  /\ frame # "right" => ModesAgree /\ ParamsAgree
  /\ frame = "right" => LeftIsAhead

IInv ==
  /\ TypeOK
  /\ TakenIsMessage
  /\ DormantIsUntouched
  /\ HandsDoNotMix
  /\ AgreeInv

-----------------------------------------------------------------------------
(* Lemmas about modes and messages *)

(* In every interaction the right device gets a mode of slot 0 and the     *)
(* left one its counterpart of slot 1, or both get none.                   *)
LEMMA ModePairs ==
  ASSUME NEW i \in InteractionType
  PROVE  \/ mode(i) = "Default" /\ mode1(i) = "Default"
         \/ /\ mode(i) \in Slot0Mode
            /\ mode1(i) \in Slot1Mode
            /\ <<mode(i), mode1(i)>> \in Counterparts
  BY DEF InteractionType, mode, mode1, Slot0Mode, Slot1Mode, Counterparts

LEMMA MessageParts ==
  ASSUME NEW m \in Message
  PROVE  /\ m.kind \in {"SetRefPos", "ActivateGoGo", "DeactivateGoGo", "params"}
         /\ m.kind = "params" => m.type \in InteractionType /\ m.values \in Values
  BY InteractionsAssumption DEF Message, Command, Parameters

(* The same for what a message other than "SetRefPos" gives them.          *)
LEMMA NewModePairs ==
  ASSUME NEW m \in Message, m.kind # "SetRefPos"
  PROVE  \/ NewMode(right, m) = "Default" /\ NewMode(left, m) = "Default"
         \/ /\ NewMode(right, m) \in Slot0Mode
            /\ NewMode(left, m) \in Slot1Mode
            /\ <<NewMode(right, m), NewMode(left, m)>> \in Counterparts
  <1>1. CASE m.kind = "ActivateGoGo"
    BY <1>1 DEF NewMode, Slot0Mode, Slot1Mode, Counterparts, left, right
  <1>2. CASE m.kind = "DeactivateGoGo"
    BY <1>2 DEF NewMode
  <1>3. CASE m.kind = "params"
    <2>1. /\ NewMode(right, m) = mode(m.type)
          /\ NewMode(left, m) = mode1(m.type)
      BY <1>3 DEF NewMode, left, right
    <2>2. m.type \in InteractionType
      BY <1>3, MessageParts
    <2> QED BY <2>1, <2>2, ModePairs
  <1> QED BY <1>1, <1>2, <1>3, MessageParts

LEMMA SlotModesAreModes ==
  /\ Slot0Mode \cup Slot1Mode \subseteq Mode
  /\ "Default" \in Mode /\ "HMDTracking" \in Mode
  /\ Slot0Mode \cap Slot1Mode = {}
  /\ "Default" \notin Slot0Mode \cup Slot1Mode
  /\ "HMDTracking" \notin Slot0Mode \cup Slot1Mode
  BY DEF Mode, Slot0Mode, Slot1Mode

-----------------------------------------------------------------------------
(* A block of RunFrame *)

(* What a block leaves alone whatever the message is, and the types of     *)
(* what it writes.                                                         *)
LEMMA HandleMessageEffect ==
  ASSUME TypeOK, NEW m \in Message, NEW d \in {left, right}, NEW s \in Slot,
         NEW h \in {"left", "right"}, HandleMessage(m, d, s, h)
  PROVE  /\ UNCHANGED <<lastPos, pad, buttons, hmdPos>>
         /\ deviceMode' \in [Device -> Mode]
         /\ isGoGoActive' \in [Device -> BOOLEAN]
         /\ goGoRefPos' \in [Slot -> Pose]
         /\ params' \in [Slot -> SlotParams]
         /\ shared' \in Values \cup {Unset}
         /\ deviceMode' = IF deviceActivated[d] /\ m.kind # "SetRefPos"
                          THEN [deviceMode EXCEPT ![d] = NewMode(d, m)]
                          ELSE deviceMode
         /\ params' = IF deviceActivated[d] /\ m.kind = "params"
                      THEN [params EXCEPT ![s] = [hand |-> h, values |-> m.values]]
                      ELSE params
         /\ \/ goGoRefPos' = goGoRefPos
            \/ goGoRefPos' = [goGoRefPos EXCEPT ![s] = lastPos[s]]
  <1>1. CASE ~deviceActivated[d]
    BY <1>1 DEF HandleMessage, TypeOK, handleVars, slotVars
  <1>2. CASE deviceActivated[d] /\ m.kind = "SetRefPos"
    <2>1. /\ goGoRefPos' = [goGoRefPos EXCEPT ![s] = lastPos[s]]
          /\ UNCHANGED <<deviceMode, isGoGoActive, lastPos, params, pad, shared,
                         buttons, hmdPos>>
      BY <1>2 DEF HandleMessage, handleVars
    <2> QED BY <1>2, <2>1 DEF TypeOK
  <1>3. CASE deviceActivated[d] /\ m.kind # "SetRefPos"
    <2>1. NewMode(d, m) \in Mode
      BY <1>3, NewModePairs, SlotModesAreModes
    <2>2. d \in Device
      BY DEF Device, left, right
    <2>3. CASE m.kind \in {"ActivateGoGo", "DeactivateGoGo"}
      <3>1. /\ goGoRefPos' = [goGoRefPos EXCEPT ![s] = lastPos[s]]
            /\ deviceMode' = [deviceMode EXCEPT ![d] = NewMode(d, m)]
            /\ isGoGoActive' = [isGoGoActive EXCEPT
                                  ![d] = (m.kind = "ActivateGoGo")]
            /\ UNCHANGED <<lastPos, params, pad, shared, buttons, hmdPos>>
        BY <1>3, <2>3 DEF HandleMessage
      <3>2. isGoGoActive' \in [Device -> BOOLEAN]
        BY <3>1, <2>2, Zenon DEF TypeOK
      <3> QED BY <1>3, <2>1, <2>2, <2>3, <3>1, <3>2 DEF TypeOK
    <2>4. CASE m.kind = "params"
      <3>1. /\ deviceMode' = [deviceMode EXCEPT ![d] = NewMode(d, m)]
            /\ params' = [params EXCEPT
                            ![s] = [hand |-> h, values |-> m.values]]
            /\ shared' = m.values
            /\ UNCHANGED <<isGoGoActive, lastPos, goGoRefPos, pad, buttons, hmdPos>>
        BY <1>3, <2>4 DEF HandleMessage
      <3>2. m.values \in Values
        BY <2>4, MessageParts
      <3>3. [hand |-> h, values |-> m.values] \in SlotParams
        BY <3>2 DEF SlotParams
      <3> QED BY <1>3, <2>1, <2>2, <2>4, <3>1, <3>2, <3>3 DEF TypeOK
    <2> QED BY <1>3, <2>3, <2>4, MessageParts
  <1> QED BY <1>1, <1>2, <1>3

-----------------------------------------------------------------------------
(* Initially, and step by step *)

LEMMA InitIInv == Init => IInv
  <1> SUFFICES ASSUME Init PROVE IInv
    OBVIOUS
  <1> USE DEF Init
  <1>1. TypeOK
    <2>1. NoPose \in Pose
      BY BoundsAssumption DEF NoPose, Pose, Device, hmd
    <2>2. "Default" \in Mode
      BY DEF Mode
    <2>3. Unset \in SlotParams
      BY DEF SlotParams
    <2>4. gamepad \in [left : PadValues, right : PadValues,
                       button : {"none", "A", "B"}]
      BY PadAssumption
    <2>5. [hand |-> NoHand, value |-> 0]
            \in [hand : {NoHand, "left", "right"}, value : PadValues]
      BY PadAssumption
    <2>6. presses \in 0 .. MaxPresses /\ 0 \in 0 .. MaxPoses
      BY BoundsAssumption
    <2> QED BY <2>1, <2>2, <2>3, <2>4, <2>5, <2>6, BoundsAssumption
            DEF TypeOK, Link!Init
  <1>2. TakenIsMessage
    BY DEF TakenIsMessage, Link!Init
  <1>3. DormantIsUntouched
    BY DEF DormantIsUntouched, Slot
  <1>4. HandsDoNotMix
    BY DEF HandsDoNotMix, Device, Slot, Unset, hmd, left, right
  <1>5. AgreeInv
    BY DEF AgreeInv, ModesAgree, ParamsAgree, Device, left, right, Slot
  <1> QED BY <1>1, <1>2, <1>3, <1>4, <1>5 DEF IInv

(* Steps that touch neither a device's mode nor a slot.                    *)
LEMMA UntouchedStep ==
  ASSUME IInv, TypeOK', TakenIsMessage',
         UNCHANGED <<deviceMode, slotVars>>,
         \A d \in Device : deviceActivated[d] => deviceActivated'[d],
         \/ UNCHANGED <<msg, frame>>
         \/ frame # "right" /\ frame' # "right"
  PROVE  IInv'
  <1> USE DEF IInv, slotVars
  <1>1. DormantIsUntouched'
    BY DEF DormantIsUntouched, Device, left, right
  <1>2. HandsDoNotMix'
    BY DEF HandsDoNotMix
  <1>3. AgreeInv'
    <2>1. UNCHANGED <<ModesAgree, ParamsAgree>>
      BY DEF ModesAgree, ParamsAgree
    <2>2. CASE UNCHANGED <<msg, frame>>
      <3>1. NewMode(left, msg)' = NewMode(left, msg)
        BY <2>2 DEF NewMode
      <3>2. LeftIsAhead' = LeftIsAhead
        BY <2>1, <2>2, <3>1 DEF LeftIsAhead
      <3> QED BY <2>1, <2>2, <3>2 DEF AgreeInv
    <2>3. CASE frame' # "right" /\ frame # "right"
      BY <2>1, <2>3 DEF AgreeInv
    <2> QED BY <2>2, <2>3
  <1> QED BY <1>1, <1>2, <1>3

LEMMA GuiStep == IInv /\ Gui => IInv'
  <1> SUFFICES ASSUME IInv, Gui PROVE IInv'
    OBVIOUS
  <1>0. TypeOK /\ TakenIsMessage
    BY DEF IInv
  <1>1. UNCHANGED <<msg, frame, gamepad, deviceActivated, handleVars, reported,
                    slotVars>>
    BY DEF Gui, ListInteraction, MoveSliders, Press, SendParams, Link!Store,
           linkVars
  <1>2. /\ selected' \in Interactions
        /\ sliders' \in Values
        /\ presses' \in 0 .. MaxPresses
    <2>1. CASE \E i \in Interactions : ListInteraction(i)
      BY <1>0, <2>1 DEF ListInteraction, TypeOK
    <2>2. CASE \E v \in Values : MoveSliders(v)
      BY <1>0, <2>2 DEF MoveSliders, TypeOK
    <2>3. CASE \E c \in Command : Press(c)
      BY <1>0, <2>3, BoundsAssumption DEF Press, TypeOK
    <2>4. CASE SendParams
      BY <1>0, <2>4 DEF SendParams, guiVars, TypeOK
    <2> QED BY <2>1, <2>2, <2>3, <2>4 DEF Gui
  <1>3. \/ UNCHANGED <<box, pending>>
        \/ box' \in Message /\ pending' = TRUE
    <2>1. CASE SendParams
      <3>1. selected \in Interactions /\ sliders \in Values
        BY <1>0 DEF TypeOK
      <3> QED BY <2>1, <3>1 DEF SendParams, Link!Store, Message, Parameters
    <2>2. CASE ~SendParams
      BY <2>2 DEF Gui, ListInteraction, MoveSliders, Press, Link!Store, linkVars,
                  Message
    <2> QED BY <2>1, <2>2
  <1>4. TypeOK'
    BY <1>0, <1>1, <1>2, <1>3 DEF TypeOK, handleVars, slotVars
  <1>5. TakenIsMessage'
    BY <1>0, <1>1, <1>3 DEF TakenIsMessage
  <1>6. UNCHANGED <<deviceMode, slotVars, deviceActivated, msg, frame>>
    BY <1>1 DEF handleVars
  <1> QED BY <1>4, <1>5, <1>6, UntouchedStep

(* BeginFrame puts the HMD into tracking mode and takes the message.       *)
LEMMA BeginFrameStep == IInv /\ BeginFrame => IInv'
  <1> SUFFICES ASSUME IInv, BeginFrame PROVE IInv'
    OBVIOUS
  <1> USE DEF IInv
  <1>1. /\ UNCHANGED <<guiVars, deviceActivated, isGoGoActive, reported, slotVars>>
        /\ deviceMode' \in [Device -> Mode]
        /\ deviceMode'[left] = deviceMode[left]
        /\ deviceMode'[right] = deviceMode[right]
        /\ deviceMode'[hmd] # deviceMode[hmd]
             => deviceActivated[hmd] /\ deviceMode'[hmd] = "HMDTracking"
    BY SlotModesAreModes DEF BeginFrame, TypeOK, Device, hmd, left, right
  <1>2. /\ frame = "idle"
        /\ \/ frame' = "left" /\ box' = box /\ msg' = box /\ pending
              /\ pending' \in BOOLEAN
           \/ frame' = "gamepad" /\ UNCHANGED <<box, msg, pending>>
    BY DEF BeginFrame, Link!Read, linkVars
  <1>3. gamepad' \in [left : PadValues, right : PadValues,
                     button : {"none", "A", "B"}]
    <2>1. CASE gamepad' \in [left : PadValues, right : PadValues,
                            button : IF PadValues = {0} THEN {"none"}
                                     ELSE {"none", "A", "B"}]
      BY <2>1
    <2>2. CASE gamepad' = [gamepad EXCEPT !.button = "none"]
      BY <2>2 DEF TypeOK
    <2> QED BY <2>1, <2>2 DEF BeginFrame, Refresh
  <1>4. TypeOK'
    BY <1>1, <1>2, <1>3 DEF TypeOK, TakenIsMessage, guiVars, slotVars
  <1>5. TakenIsMessage'
    BY <1>2 DEF TakenIsMessage
  <1>6. DormantIsUntouched'
    BY <1>1 DEF DormantIsUntouched, slotVars, Device, hmd, left, right
  <1>7. HandsDoNotMix'
    BY <1>1 DEF HandsDoNotMix, slotVars
  <1>8. AgreeInv'
    BY <1>1, <1>2 DEF AgreeInv, ModesAgree, ParamsAgree, slotVars
  <1> QED BY <1>4, <1>5, <1>6, <1>7, <1>8

(* What both blocks keep, whichever device and slot they are for, as long  *)
(* as the slot is the one that device's hand uses for its parameters and   *)
(* the mode is one of the device's own slot.                               *)
LEMMA BlockStep ==
  ASSUME IInv, NEW d \in {left, right}, NEW s \in Slot, NEW h,
         d = (IF s = 0 THEN left ELSE right), h = HandOf(s),
         msg \in Message, HandleMessage(msg, d, s, h),
         frame' \in {"right", "gamepad"}, frame \in {"left", "right"},
         UNCHANGED <<guiVars, linkVars, gamepad, deviceActivated, reported>>
  PROVE  TypeOK' /\ TakenIsMessage' /\ DormantIsUntouched' /\ HandsDoNotMix'
  <1> USE DEF IInv
  <1>1. h \in {"left", "right"}
    BY DEF HandOf
  <1>2. /\ UNCHANGED <<lastPos, pad, buttons, hmdPos>>
        /\ deviceMode' \in [Device -> Mode]
        /\ isGoGoActive' \in [Device -> BOOLEAN]
        /\ goGoRefPos' \in [Slot -> Pose]
        /\ params' \in [Slot -> SlotParams]
        /\ shared' \in Values \cup {Unset}
        /\ deviceMode' = IF deviceActivated[d] /\ msg.kind # "SetRefPos"
                         THEN [deviceMode EXCEPT ![d] = NewMode(d, msg)]
                         ELSE deviceMode
        /\ params' = IF deviceActivated[d] /\ msg.kind = "params"
                     THEN [params EXCEPT ![s] = [hand |-> h, values |-> msg.values]]
                     ELSE params
        /\ \/ goGoRefPos' = goGoRefPos
           \/ goGoRefPos' = [goGoRefPos EXCEPT ![s] = lastPos[s]]
    BY <1>1, HandleMessageEffect
  <1>3. TypeOK'
    BY <1>2 DEF TypeOK, guiVars, linkVars
  <1>4. TakenIsMessage'
    BY DEF TakenIsMessage, linkVars
  <1>5. DormantIsUntouched'
    <2>1. \A e \in Device : ~deviceActivated[e] => deviceMode'[e] = deviceMode[e]
      BY <1>2 DEF TypeOK
    <2>2. ~deviceActivated[d] => params' = params
      BY <1>2
    <2>3. \A t \in Slot \ {s} : params'[t] = params[t]
      BY <1>2 DEF TypeOK
    <2> QED BY <2>1, <2>2, <2>3 DEF DormantIsUntouched, Slot
  <1>6. HandsDoNotMix'
    <2>1. /\ deviceMode'[hmd] = deviceMode[hmd]
          /\ deviceMode'[left] \in Slot1Mode \cup {"Default"}
          /\ deviceMode'[right] \in Slot0Mode \cup {"Default"}
      <3>1. CASE deviceActivated[d] /\ msg.kind # "SetRefPos"
        <4>1. deviceMode' = [deviceMode EXCEPT ![d] = NewMode(d, msg)]
          BY <1>2, <3>1
        <4>2. /\ NewMode(left, msg) \in Slot1Mode \cup {"Default"}
              /\ NewMode(right, msg) \in Slot0Mode \cup {"Default"}
          BY <3>1, NewModePairs
        <4> QED BY <4>1, <4>2
                DEF HandsDoNotMix, TypeOK, Device, hmd, left, right
      <3>2. CASE ~(deviceActivated[d] /\ msg.kind # "SetRefPos")
        BY <1>2, <3>2 DEF HandsDoNotMix
      <3> QED BY <3>1, <3>2
    <2>2. \A t \in Slot : goGoRefPos'[t] \in {goGoRefPos[t], lastPos[t]}
      BY <1>2 DEF TypeOK
    <2>3. \A t \in Slot : params'[t].hand \in {NoHand, HandOf(t)}
      <3>1. CASE deviceActivated[d] /\ msg.kind = "params"
        BY <1>2, <3>1 DEF HandsDoNotMix, TypeOK
      <3>2. CASE ~(deviceActivated[d] /\ msg.kind = "params")
        BY <1>2, <3>2 DEF HandsDoNotMix
      <3> QED BY <3>1, <3>2
    <2> QED BY <1>2, <2>1, <2>2, <2>3 DEF HandsDoNotMix
  <1> QED BY <1>3, <1>4, <1>5, <1>6

(* The left device's block: its setters write slot 0.                      *)
LEMMA LeftBlockStep == IInv /\ LeftBlock => IInv'
  <1> SUFFICES ASSUME IInv, LeftBlock PROVE IInv'
    OBVIOUS
  <1>1. /\ frame = "left" /\ frame' = "right" /\ msg \in Message
        /\ HandleMessage(msg, left, 0, "right")
        /\ UNCHANGED <<guiVars, linkVars, gamepad, deviceActivated, reported>>
    BY DEF LeftBlock, IInv, TakenIsMessage
  <1>2. TypeOK' /\ TakenIsMessage' /\ DormantIsUntouched' /\ HandsDoNotMix'
    BY <1>1, BlockStep DEF Slot, HandOf
  <1>3. /\ deviceMode' = IF deviceActivated[left] /\ msg.kind # "SetRefPos"
                         THEN [deviceMode EXCEPT ![left] = NewMode(left, msg)]
                         ELSE deviceMode
        /\ params' = IF deviceActivated[left] /\ msg.kind = "params"
                     THEN [params EXCEPT ![0] = [hand |-> "right", values |-> msg.values]]
                     ELSE params
    BY <1>1, HandleMessageEffect DEF Slot, IInv
  <1>4. ModesAgree /\ ParamsAgree
    BY <1>1 DEF IInv, AgreeInv
  <1>5. /\ ~deviceActivated[left] => deviceMode[left] = "Default"
        /\ ~deviceActivated[left] => params[0] = Unset
    BY DEF IInv, DormantIsUntouched, Device, left
  <1>6. deviceMode \in [Device -> Mode] /\ params \in [Slot -> SlotParams]
    BY DEF IInv, TypeOK
  <1>7. msg' = msg /\ NewMode(left, msg)' = NewMode(left, msg)
    <2>1. msg' = msg
      BY <1>1 DEF linkVars
    <2> QED BY <2>1 DEF NewMode
  <1>8. LeftIsAhead'
    <2>1. CASE msg.kind = "SetRefPos"
      BY <1>3, <1>4, <1>7, <2>1 DEF LeftIsAhead, ModesAgree, ParamsAgree
    <2>2. CASE msg.kind # "SetRefPos"
      <3>1. deviceMode'[left] \in {"Default", NewMode(left, msg)}
        BY <1>3, <1>5, <1>6, <2>2 DEF Device, left
      <3>2. msg.kind = "params" /\ params'[0] # Unset
              => params'[0].values = msg.values
        BY <1>3, <1>5, <1>6 DEF Slot
      <3>3. msg.kind # "params" => params' = params
        BY <1>3
      <3>4. msg.kind # "params" => ParamsAgree'
        BY <1>4, <3>3 DEF ParamsAgree
      <3> QED BY <1>7, <2>2, <3>1, <3>2, <3>4 DEF LeftIsAhead
    <2> QED BY <2>1, <2>2
  <1> QED BY <1>1, <1>2, <1>8 DEF IInv, AgreeInv

(* The right device's block makes it catch up.                             *)
LEMMA RightBlockStep == IInv /\ RightBlock => IInv'
  <1> SUFFICES ASSUME IInv, RightBlock PROVE IInv'
    OBVIOUS
  <1>1. /\ frame = "right" /\ frame' = "gamepad" /\ msg \in Message
        /\ HandleMessage(msg, right, 1, "left")
        /\ UNCHANGED <<guiVars, linkVars, gamepad, deviceActivated, reported>>
    BY DEF RightBlock, IInv, TakenIsMessage
  <1>2. TypeOK' /\ TakenIsMessage' /\ DormantIsUntouched' /\ HandsDoNotMix'
    BY <1>1, BlockStep DEF Slot, HandOf
  <1>3. /\ deviceMode' = IF deviceActivated[right] /\ msg.kind # "SetRefPos"
                         THEN [deviceMode EXCEPT ![right] = NewMode(right, msg)]
                         ELSE deviceMode
        /\ params' = IF deviceActivated[right] /\ msg.kind = "params"
                     THEN [params EXCEPT ![1] = [hand |-> "left", values |-> msg.values]]
                     ELSE params
    BY <1>1, HandleMessageEffect DEF Slot, IInv
  <1>4. LeftIsAhead
    BY <1>1 DEF IInv, AgreeInv
  <1>5. /\ ~deviceActivated[right] => deviceMode[right] = "Default"
        /\ ~deviceActivated[right] => params[1] = Unset
    BY DEF IInv, DormantIsUntouched, Device, right
  <1>6. deviceMode \in [Device -> Mode] /\ params \in [Slot -> SlotParams]
    BY DEF IInv, TypeOK
  <1>7. ModesAgree'
    <2>1. CASE msg.kind = "SetRefPos"
      BY <1>3, <1>4, <2>1 DEF LeftIsAhead, ModesAgree
    <2>2. CASE msg.kind # "SetRefPos"
      <3>1. deviceMode'[left] \in {"Default", NewMode(left, msg)}
        BY <1>3, <1>4, <1>6, <2>2 DEF LeftIsAhead, Device, left, right
      <3>2. deviceMode'[right] \in {"Default", NewMode(right, msg)}
        BY <1>3, <1>5, <1>6, <2>2 DEF Device, right
      <3>3. \/ NewMode(right, msg) = "Default" /\ NewMode(left, msg) = "Default"
            \/ <<NewMode(right, msg), NewMode(left, msg)>> \in Counterparts
        BY <1>1, <2>2, NewModePairs
      <3> QED BY <3>1, <3>2, <3>3 DEF ModesAgree
    <2> QED BY <2>1, <2>2
  <1>8. ParamsAgree'
    <2>1. CASE msg.kind = "params"
      <3>1. params'[0] = params[0]
        BY <1>3, <1>6 DEF Slot
      <3>2. params'[0] # Unset => params'[0].values = msg.values
        BY <1>4, <2>1, <3>1 DEF LeftIsAhead
      <3>3. params'[1] # Unset => params'[1].values = msg.values
        BY <1>3, <1>5, <1>6, <2>1 DEF Slot
      <3> QED BY <3>2, <3>3 DEF ParamsAgree
    <2>2. CASE msg.kind # "params"
      BY <1>3, <1>4, <2>2 DEF LeftIsAhead, ParamsAgree
    <2> QED BY <2>1, <2>2
  <1> QED BY <1>1, <1>2, <1>7, <1>8 DEF IInv, AgreeInv

LEMMA GamepadBlockStep == IInv /\ GamepadBlock => IInv'
  <1> SUFFICES ASSUME IInv, GamepadBlock PROVE IInv'
    OBVIOUS
  <1> USE DEF IInv, GamepadBlock
  <1>1. \A s \in Slot : pad'[s] \in {PadSide(s), pad[s]}
    OBVIOUS
  <1>2. \A s \in Slot :
          PadSide(s) \in [hand : {HandOf(s)}, value : PadValues]
    BY DEF PadSide, HandOf, TypeOK, Slot
  <1>3. TypeOK'
    <2>1. pad' \in [Slot -> [hand : {NoHand, "left", "right"}, value : PadValues]]
      BY <1>1, <1>2 DEF TypeOK, HandOf
    <2>2. buttons' \in {"none", "A", "B"}
      BY DEF TypeOK
    <2> QED BY <2>1, <2>2 DEF TypeOK, guiVars, linkVars, handleVars
  <1>4. TakenIsMessage'
    BY DEF TakenIsMessage, linkVars
  <1>5. DormantIsUntouched'
    BY DEF DormantIsUntouched, handleVars
  <1>6. HandsDoNotMix'
    BY <1>1, <1>2 DEF HandsDoNotMix, handleVars
  <1>7. AgreeInv'
    BY DEF AgreeInv, ModesAgree, ParamsAgree, handleVars
  <1> QED BY <1>3, <1>4, <1>5, <1>6, <1>7

LEMMA CrashStep == IInv /\ FrameThrows => IInv'
  <1> SUFFICES ASSUME IInv, FrameThrows PROVE IInv'
    OBVIOUS
  <1>1. TypeOK' /\ TakenIsMessage'
    BY DEF IInv, FrameThrows, TypeOK, TakenIsMessage, guiVars, linkVars,
           handleVars, slotVars
  <1> QED BY <1>1, UntouchedStep DEF FrameThrows, handleVars

LEMMA ActivateStep ==
  ASSUME IInv, NEW d \in Device, Activate(d)
  PROVE  IInv'
  <1>1. TypeOK' /\ TakenIsMessage'
    BY DEF IInv, Activate, TypeOK, TakenIsMessage, guiVars, linkVars,
           handleVars, slotVars
  <1>2. \A e \in Device : deviceActivated[e] => deviceActivated'[e]
    BY DEF IInv, Activate, TypeOK
  <1>3. UNCHANGED <<deviceMode, slotVars, msg, frame>>
    BY DEF Activate, handleVars, linkVars
  <1> QED BY <1>1, <1>2, <1>3, UntouchedStep

(* A pose reaches the slot of its device's own mode.                       *)
LEMMA PoseStep ==
  ASSUME IInv, NEW d \in Device, HandlePoseUpdate(d)
  PROVE  IInv'
  <1> USE DEF IInv, HandlePoseUpdate
  <1> DEFINE pose == [device |-> d, n |-> reported[d] + 1]
  <1>1. pose \in Pose /\ pose.device = d /\ reported[d] + 1 \in 0 .. MaxPoses
    BY BoundsAssumption DEF TypeOK, Pose
  <1>2. /\ hmdPos' \in {hmdPos, pose}
        /\ \/ lastPos' = lastPos
           \/ \E s \in Slot : /\ lastPos' = [lastPos EXCEPT ![s] = pose]
                              /\ d = DeviceOf(s)
    <2>1. CASE deviceMode[d] \in Slot0Mode
      <3>1. d = right
        BY <2>1, SlotModesAreModes DEF HandsDoNotMix, Device
      <3> QED BY <2>1, <3>1, SlotModesAreModes DEF DeviceOf, Slot
    <2>2. CASE deviceMode[d] \in Slot1Mode
      <3>1. d = left
        BY <2>2, SlotModesAreModes DEF HandsDoNotMix, Device
      <3> QED BY <2>2, <3>1, SlotModesAreModes DEF DeviceOf, Slot
    <2>3. CASE deviceMode[d] \in {"HMDTracking", "Default"}
      BY <2>3, SlotModesAreModes
    <2> QED BY <2>1, <2>2, <2>3
  <1>3. TypeOK'
    BY <1>1, <1>2 DEF TypeOK, guiVars, linkVars, handleVars
  <1>4. TakenIsMessage'
    BY DEF TakenIsMessage, linkVars
  <1>5. DormantIsUntouched'
    BY DEF DormantIsUntouched, handleVars
  <1>6. HandsDoNotMix'
    <2>1. \A s \in Slot :
            lastPos'[s] # NoPose => lastPos'[s].device = DeviceOf(s)
      BY <1>1, <1>2 DEF HandsDoNotMix, TypeOK
    <2> QED BY <2>1 DEF HandsDoNotMix, handleVars
  <1>7. AgreeInv'
    <2>1. NewMode(left, msg)' = NewMode(left, msg)
      BY DEF NewMode, linkVars, handleVars
    <2>2. UNCHANGED <<deviceMode, params, msg, frame>>
      BY DEF linkVars, handleVars
    <2> QED BY <2>1, <2>2 DEF AgreeInv, LeftIsAhead, ModesAgree, ParamsAgree
  <1> QED BY <1>3, <1>4, <1>5, <1>6, <1>7

LEMMA StutterStep == IInv /\ UNCHANGED vars => IInv'
  <1> SUFFICES ASSUME IInv, UNCHANGED vars PROVE IInv'
    OBVIOUS
  <1>1. TypeOK' /\ TakenIsMessage'
    BY DEF IInv, TypeOK, TakenIsMessage, vars, guiVars, linkVars, handleVars,
           slotVars
  <1> QED BY <1>1, UntouchedStep DEF vars, linkVars, handleVars

-----------------------------------------------------------------------------
(* The theorems *)

(* The inductive invariant holds of every behaviour of the driver, however *)
(* RunFrame, the devices' threads and the GUI interleave.                  *)
THEOREM Invariance == Spec => []IInv
  <1>1. IInv /\ [Next]_vars => IInv'
    BY GuiStep, BeginFrameStep, LeftBlockStep, RightBlockStep, GamepadBlockStep,
       CrashStep, ActivateStep, PoseStep, StutterStep
    DEF Next, RunFrame, Devices
  <1> QED BY InitIInv, <1>1, PTL DEF Spec

(* Type correctness of the driver, for any interactions and any bounds.    *)
THEOREM TypeCorrect == Spec => []TypeOK
  <1>1. IInv => TypeOK
    BY DEF IInv
  <1> QED BY Invariance, <1>1, PTL

(* Modes, poses, references, sliders and gamepad sides of the two hands    *)
(* never mix in the slots that the two devices' threads work on.           *)
THEOREM HandsKeptApart == Spec => []HandsDoNotMix
  <1>1. IInv => HandsDoNotMix
    BY DEF IInv
  <1> QED BY Invariance, <1>1, PTL

(* Outside the part of a frame that handles a message, the two devices are *)
(* in modes of one interaction and on sliders of one message.              *)
THEOREM HandsInAgreement == Spec => []HandsAgree
  <1>1. IInv => HandsAgree
    BY DEF IInv, AgreeInv, ModesAgree, ParamsAgree, HandsAgree
  <1> QED BY Invariance, <1>1, PTL
=============================================================================
