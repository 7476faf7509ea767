---------------------- MODULE MotionCompensation_proofs ----------------------
(***************************************************************************)
(* For any devices, requests and warm-up with one headset: variables have  *)
(* their types, an answered request is in effect, and the ids that the     *)
(* manager stores name devices in their roles, but for the modes that      *)
(* frames have written since, however the poses of the trackers and the    *)
(* frames come between the assignments of the handlers.                    *)
(*                                                                         *)
(* The argument is about the assignments still to be made: each goal of a  *)
(* request is reached or still among them, and none of them undoes one.    *)
(***************************************************************************)
EXTENDS MotionCompensation, TLAPS

SwitchesMode(r) == r.type = "MotionCompensationMode"

(* The overlay names one device to be compensated, and another as tracker. *)
Compensates(h) ==
  \A r \in Request : SwitchesMode(r) => r.mc = h /\ r.rt # h

OneHeadset == \E h : Compensates(h)

Headset == CHOOSE h : Compensates(h)

Elements(s) == {s[i] : i \in DOMAIN s}

-----------------------------------------------------------------------------
(* The invariant. *)

(* What the ids say of the modes when no request changes them. *)
Roles ==
  mcm.Mode = "ReferenceTracker" =>
    /\ mcm.McDeviceID = Headset /\ Headset \in Device
    /\ mcm.RtDeviceID \in Device /\ mcm.RtDeviceID # Headset
    /\ Holds(Headset, "MotionCompensated")
    /\ Holds(mcm.RtDeviceID, "ReferenceTracker")

EnableSteps(r) ==
  {setMotionCompensationDeviceMode(r.mc, "MotionCompensated"),
   setMotionCompensationDeviceMode(r.rt, "ReferenceTracker"),
   Set("McDeviceID", r.mc), Set("RtDeviceID", r.rt),
   Set("Mode", "ReferenceTracker"), Set("Enabled", TRUE),
   Set("RefPoseValid", FALSE), Set("RefPoseValidCounter", 0),
   Set("ZeroPoseValid", FALSE)}
  \cup {setMotionCompensationDeviceMode(d, "Default") : d \in Device \ {r.mc, r.rt}}

DisableSteps ==
  {setMotionCompensationDeviceMode(d, "Default") : d \in Device}
  \cup {Set("Enabled", FALSE), Set("McDeviceID", Off), Set("RtDeviceID", Off),
        Set("Mode", "Disabled")}

OtherSteps ==
  {Set("ZeroPoseValid", FALSE), Set("DebuggerRunning", TRUE),
   Set("DebuggerRunning", FALSE)}

Enabling(r) ==
  /\ Elements(todo) \subseteq EnableSteps(r)
  /\ \/ Holds(r.mc, "MotionCompensated")
     \/ setMotionCompensationDeviceMode(r.mc, "MotionCompensated") \in Elements(todo)
  /\ \/ Holds(r.rt, "ReferenceTracker")
     \/ setMotionCompensationDeviceMode(r.rt, "ReferenceTracker") \in Elements(todo)
  /\ mcm.McDeviceID = r.mc \/ Set("McDeviceID", r.mc) \in Elements(todo)
  /\ mcm.RtDeviceID = r.rt \/ Set("RtDeviceID", r.rt) \in Elements(todo)
  /\ \/ mcm.Mode = "ReferenceTracker"
     \/ Set("Mode", "ReferenceTracker") \in Elements(todo)

Disabling ==
  /\ Elements(todo) \subseteq DisableSteps
  /\ mcm.Mode = "Disabled" \/ Set("Mode", "Disabled") \in Elements(todo)

Others == Elements(todo) \subseteq OtherSteps /\ Roles

Underway(r) ==
  /\ SwitchesMode(r) /\ r.mode = "ReferenceTracker" => Enabling(r)
  /\ SwitchesMode(r) /\ r.mode # "ReferenceTracker" => Disabling
  /\ ~SwitchesMode(r) => Others

Inv ==
  /\ TypeOK
  /\ request = {} => todo = <<>> /\ Roles
  /\ \A r \in request : Underway(r)

-----------------------------------------------------------------------------
(* Facts about assignments and sequences of them. *)

LEMMA HeadsetNamed ==
  ASSUME OneHeadset, NEW r \in Request, SwitchesMode(r)
  PROVE  /\ r.mc = Headset /\ r.rt # Headset
         /\ r.mc \in Device /\ r.rt \in Device /\ r.mode \in CompensationMode
  <1>1. Compensates(Headset)
    BY DEF OneHeadset, Headset
  <1>2. r \in RequestType
    BY RequestAssumption
  <1> QED BY <1>1, <1>2 DEF Compensates, RequestType, SwitchesMode

LEMMA EmptyElements == Elements(<<>>) = {}
  BY DEF Elements

LEMMA ElementsOfConcat ==
  ASSUME NEW S, NEW s \in Seq(S), NEW t \in Seq(S)
  PROVE  /\ s \o t \in Seq(S)
         /\ Elements(s \o t) = Elements(s) \cup Elements(t)
  <1>1. \A x \in Elements(s) : x \in Elements(s \o t)
    BY DEF Elements
  <1>2. \A x \in Elements(t) : x \in Elements(s \o t)
    <2> SUFFICES ASSUME NEW i \in DOMAIN t PROVE t[i] \in Elements(s \o t)
      BY DEF Elements
    <2>1. /\ Len(s) + i \in DOMAIN (s \o t)
          /\ (s \o t)[Len(s) + i] = t[i]
      OBVIOUS
    <2> QED BY <2>1 DEF Elements
  <1>3. \A x \in Elements(s \o t) : x \in Elements(s) \cup Elements(t)
    <2> SUFFICES ASSUME NEW i \in DOMAIN (s \o t)
                 PROVE  (s \o t)[i] \in Elements(s) \cup Elements(t)
      BY DEF Elements
    <2>1. CASE i <= Len(s)
      BY <2>1 DEF Elements
    <2>2. CASE i > Len(s)
      <3>1. i - Len(s) \in DOMAIN t /\ (s \o t)[i] = t[i - Len(s)]
        BY <2>2
      <3> QED BY <3>1 DEF Elements
    <2> QED BY <2>1, <2>2
  <1> QED BY <1>1, <1>2, <1>3

LEMMA HeadAndTail ==
  ASSUME NEW S, NEW s \in Seq(S), s # <<>>
  PROVE  /\ Head(s) \in S /\ Tail(s) \in Seq(S)
         /\ Elements(s) = {Head(s)} \cup Elements(Tail(s))
  <1>1. Head(s) = s[1] /\ 1 \in DOMAIN s /\ Tail(s) \in Seq(S)
        /\ DOMAIN Tail(s) = 1..Len(s) - 1
        /\ \A i \in DOMAIN Tail(s) : Tail(s)[i] = s[i + 1]
    OBVIOUS
  <1>2. \A x \in Elements(s) : x \in {Head(s)} \cup Elements(Tail(s))
    <2> SUFFICES ASSUME NEW i \in DOMAIN s, i # 1 PROVE s[i] \in Elements(Tail(s))
      BY <1>1 DEF Elements
    <2>1. i - 1 \in DOMAIN Tail(s) /\ Tail(s)[i - 1] = s[i]
      BY <1>1
    <2> QED BY <2>1 DEF Elements
  <1>3. \A x \in Elements(Tail(s)) : x \in Elements(s)
    <2> SUFFICES ASSUME NEW i \in DOMAIN Tail(s) PROVE s[i + 1] \in Elements(s)
      BY <1>1 DEF Elements
    <2> QED BY <1>1 DEF Elements
  <1> QED BY <1>1, <1>2, <1>3 DEF Elements

(* Tuples that handlers are put together from. *)
LEMMA Single ==
  ASSUME NEW S, NEW a \in S
  PROVE  <<a>> \in Seq(S) /\ Elements(<<a>>) = {a}
  BY DEF Elements

LEMMA Pair ==
  ASSUME NEW S, NEW a \in S, NEW b \in S
  PROVE  <<a, b>> \in Seq(S) /\ Elements(<<a, b>>) = {a, b}
  BY DEF Elements

LEMMA Triple ==
  ASSUME NEW S, NEW a \in S, NEW b \in S, NEW c \in S
  PROVE  <<a, b, c>> \in Seq(S) /\ Elements(<<a, b, c>>) = {a, b, c}
  BY DEF Elements

LEMMA Quadruple ==
  ASSUME NEW S, NEW a \in S, NEW b \in S, NEW c \in S, NEW d \in S
  PROVE  <<a, b, c, d>> \in Seq(S) /\ Elements(<<a, b, c, d>>) = {a, b, c, d}
  <1>1. Elements(<<a, b, c, d>>) = {a, b, c, d}
    BY DEF Elements
  <1> QED BY <1>1

LEMMA AssignmentTypes ==
  /\ \A d \in Device, m \in DeviceMode :
       setMotionCompensationDeviceMode(d, m) \in Assignment
  /\ \A m \in CompensationMode : Set("Mode", m) \in Assignment
  /\ \A d \in Device \cup {Off} :
       Set("McDeviceID", d) \in Assignment /\ Set("RtDeviceID", d) \in Assignment
  /\ \A b \in BOOLEAN :
       /\ Set("Enabled", b) \in Assignment /\ Set("RefPoseValid", b) \in Assignment
       /\ Set("ZeroPoseValid", b) \in Assignment
       /\ Set("DebuggerRunning", b) \in Assignment
  /\ Set("RefPoseValidCounter", 0) \in Assignment
  BY DEF setMotionCompensationDeviceMode, Set, Assignment

-----------------------------------------------------------------------------
LEMMA InitInv == Init => Inv
  <1> SUFFICES ASSUME Init PROVE Inv
    OBVIOUS
  <1>1. mcm \in Manager
    BY WarmUpAssumption DEF Init, Manager, CompensationMode
  <1>2. /\ deviceMode \in [Device -> DeviceMode \cup FrameMode]
        /\ pose \in [Device -> PoseStep]
        /\ counted \in [Device -> 0..WarmUp + 1]
    BY WarmUpAssumption DEF Init, DeviceMode, PoseStep
  <1>3. TypeOK
    BY <1>1, <1>2, WarmUpAssumption DEF Init, TypeOK
  <1> QED BY <1>3 DEF Init, Inv, Roles

-----------------------------------------------------------------------------
(* Receiving a request: which assignments are to be made. *)

LEMMA EnableFromOff ==
  ASSUME NEW mc \in Device, NEW rt \in Device, mcm.Mode # "ReferenceTracker"
  PROVE  /\ Enable(mc, rt) \in Seq(Assignment)
         /\ Elements(Enable(mc, rt)) =
              {setMotionCompensationDeviceMode(mc, "MotionCompensated"),
               setMotionCompensationDeviceMode(rt, "ReferenceTracker"),
               Set("McDeviceID", mc), Set("RtDeviceID", rt),
               Set("Mode", "ReferenceTracker"), Set("Enabled", TRUE),
               Set("RefPoseValid", FALSE), Set("RefPoseValidCounter", 0),
               Set("ZeroPoseValid", FALSE)}
  <1> DEFINE modes == <<setMotionCompensationDeviceMode(mc, "MotionCompensated"),
                        setMotionCompensationDeviceMode(rt, "ReferenceTracker")>>
             reset == <<Set("RefPoseValid", FALSE), Set("RefPoseValidCounter", 0),
                        Set("ZeroPoseValid", FALSE), Set("Enabled", TRUE)>>
             store == <<Set("McDeviceID", mc), Set("RtDeviceID", rt),
                        Set("Mode", "ReferenceTracker")>>
  <1>1. Enable(mc, rt) = modes \o (reset \o store)
    BY DEF Enable, setMotionCompensationMode
  <1>2. "ReferenceTracker" \in CompensationMode
        /\ {"MotionCompensated", "ReferenceTracker"} \subseteq DeviceMode
    BY DEF CompensationMode, DeviceMode
  <1>3. /\ modes \in Seq(Assignment)
        /\ Elements(modes) = {setMotionCompensationDeviceMode(mc, "MotionCompensated"),
                              setMotionCompensationDeviceMode(rt, "ReferenceTracker")}
    BY <1>2, AssignmentTypes, Pair
  <1>4. /\ reset \in Seq(Assignment)
        /\ Elements(reset) = {Set("RefPoseValid", FALSE), Set("RefPoseValidCounter", 0),
                              Set("ZeroPoseValid", FALSE), Set("Enabled", TRUE)}
    <2> DEFINE a == Set("RefPoseValid", FALSE)
               b == Set("RefPoseValidCounter", 0)
               c == Set("ZeroPoseValid", FALSE)
               d == Set("Enabled", TRUE)
    <2>1. a \in Assignment /\ b \in Assignment /\ c \in Assignment /\ d \in Assignment
      BY AssignmentTypes
    <2> HIDE DEF a, b, c, d
    <2>2. <<a, b, c, d>> \in Seq(Assignment) /\ Elements(<<a, b, c, d>>) = {a, b, c, d}
      BY <2>1, Quadruple
    <2> QED BY <2>2 DEF a, b, c, d
  <1>5. /\ store \in Seq(Assignment)
        /\ Elements(store) = {Set("McDeviceID", mc), Set("RtDeviceID", rt),
                              Set("Mode", "ReferenceTracker")}
    <2>1. /\ Set("McDeviceID", mc) \in Assignment
          /\ Set("RtDeviceID", rt) \in Assignment
          /\ Set("Mode", "ReferenceTracker") \in Assignment
      BY <1>2, AssignmentTypes
    <2> QED BY <2>1, Triple
  <1> HIDE DEF modes, reset, store
  <1>6. /\ reset \o store \in Seq(Assignment)
        /\ Elements(reset \o store) = Elements(reset) \cup Elements(store)
    BY <1>4, <1>5, ElementsOfConcat
  <1>7. /\ modes \o (reset \o store) \in Seq(Assignment)
        /\ Elements(modes \o (reset \o store))
             = Elements(modes) \cup Elements(reset \o store)
    <2> DEFINE rest == reset \o store
    <2>1. modes \in Seq(Assignment) /\ rest \in Seq(Assignment)
      BY <1>3, <1>6
    <2> HIDE DEF rest
    <2>2. /\ modes \o rest \in Seq(Assignment)
          /\ Elements(modes \o rest) = Elements(modes) \cup Elements(rest)
      BY <2>1, ElementsOfConcat
    <2> QED BY <2>2 DEF rest
  <1>8. Elements(Enable(mc, rt)) = Elements(modes) \cup Elements(reset) \cup Elements(store)
    BY <1>1, <1>6, <1>7, Zenon
  <1>9. Enable(mc, rt) \in Seq(Assignment)
    BY <1>1, <1>7
  <1> QED BY <1>3, <1>4, <1>5, <1>8, <1>9

LEMMA EnableFromOn ==
  ASSUME NEW mc \in Device, NEW rt \in Device, mcm.Mode = "ReferenceTracker",
         mcm.McDeviceID = mc, mcm.RtDeviceID \in Device, mcm.RtDeviceID # rt
  PROVE  /\ Enable(mc, rt) \in Seq(Assignment)
         /\ Elements(Enable(mc, rt)) =
              {setMotionCompensationDeviceMode(mcm.RtDeviceID, "Default"),
               setMotionCompensationDeviceMode(rt, "ReferenceTracker"),
               Set("RtDeviceID", rt), Set("RefPoseValid", FALSE),
               Set("ZeroPoseValid", FALSE)}
  <1> DEFINE modes == <<setMotionCompensationDeviceMode(mcm.RtDeviceID, "Default"),
                        setMotionCompensationDeviceMode(rt, "ReferenceTracker")>>
             new == <<Set("RtDeviceID", rt), Set("RefPoseValid", FALSE),
                      Set("ZeroPoseValid", FALSE)>>
  <1>1. {"Default", "ReferenceTracker"} \subseteq DeviceMode
    BY DEF DeviceMode
  <1>2. /\ modes \in Seq(Assignment)
        /\ Elements(modes) = {setMotionCompensationDeviceMode(mcm.RtDeviceID, "Default"),
                              setMotionCompensationDeviceMode(rt, "ReferenceTracker")}
    BY <1>1, AssignmentTypes, Pair
  <1>3. /\ new \in Seq(Assignment)
        /\ Elements(new) = {Set("RtDeviceID", rt), Set("RefPoseValid", FALSE),
                            Set("ZeroPoseValid", FALSE)}
    <2> DEFINE a == Set("RtDeviceID", rt)
               b == Set("RefPoseValid", FALSE)
               c == Set("ZeroPoseValid", FALSE)
    <2>1. a \in Assignment /\ b \in Assignment /\ c \in Assignment
      BY AssignmentTypes
    <2> HIDE DEF a, b, c
    <2>2. <<a, b, c>> \in Seq(Assignment) /\ Elements(<<a, b, c>>) = {a, b, c}
      BY <2>1, Triple
    <2> QED BY <2>2 DEF a, b, c
  <1>4. Enable(mc, rt) = <<>> \o (modes \o new)
    BY DEF Enable, ChangeMCdevice, ChangeRTdevice, setNewReferenceTracker
  <1> HIDE DEF modes, new
  <1>5. /\ modes \o new \in Seq(Assignment)
        /\ Elements(modes \o new) = Elements(modes) \cup Elements(new)
    BY <1>2, <1>3, ElementsOfConcat
  <1>6. Enable(mc, rt) = modes \o new
    BY <1>4, <1>5
  <1>7. Elements(Enable(mc, rt)) = Elements(modes) \cup Elements(new)
    BY <1>5, <1>6
  <1>8. Enable(mc, rt) \in Seq(Assignment)
    BY <1>5, <1>6
  <1> QED BY <1>2, <1>3, <1>7, <1>8

LEMMA EnableUnchanged ==
  ASSUME NEW mc \in Device, NEW rt \in Device, mcm.Mode = "ReferenceTracker",
         mcm.McDeviceID = mc, mcm.RtDeviceID = rt
  PROVE  Enable(mc, rt) = <<>>
  BY DEF Enable, ChangeMCdevice, ChangeRTdevice

LEMMA DisableAssigns ==
  ASSUME NEW mc \in Device, NEW rt \in Device
  PROVE  /\ Disable(mc, rt) \in Seq(Assignment)
         /\ Elements(Disable(mc, rt)) =
              {setMotionCompensationDeviceMode(mc, "Default"),
               setMotionCompensationDeviceMode(rt, "Default"),
               Set("Enabled", FALSE), Set("McDeviceID", Off),
               Set("RtDeviceID", Off), Set("Mode", "Disabled")}
  <1> DEFINE modes == <<setMotionCompensationDeviceMode(mc, "Default"),
                        setMotionCompensationDeviceMode(rt, "Default")>>
             off == <<Set("Enabled", FALSE)>>
             store == <<Set("McDeviceID", Off), Set("RtDeviceID", Off),
                        Set("Mode", "Disabled")>>
  <1>1. Disable(mc, rt) = modes \o (off \o store)
    BY DEF Disable, setMotionCompensationMode
  <1>2. "Disabled" \in CompensationMode /\ "Default" \in DeviceMode
        /\ Off \in Device \cup {Off}
    BY DEF CompensationMode, DeviceMode
  <1>3. /\ modes \in Seq(Assignment)
        /\ Elements(modes) = {setMotionCompensationDeviceMode(mc, "Default"),
                              setMotionCompensationDeviceMode(rt, "Default")}
    BY <1>2, AssignmentTypes, Pair
  <1>4. /\ off \in Seq(Assignment)
        /\ Elements(off) = {Set("Enabled", FALSE)}
    BY AssignmentTypes, Single
  <1>5. /\ store \in Seq(Assignment)
        /\ Elements(store) = {Set("McDeviceID", Off), Set("RtDeviceID", Off),
                              Set("Mode", "Disabled")}
    <2>1. /\ Set("McDeviceID", Off) \in Assignment
          /\ Set("RtDeviceID", Off) \in Assignment
          /\ Set("Mode", "Disabled") \in Assignment
      BY <1>2, AssignmentTypes
    <2> QED BY <2>1, Triple
  <1> HIDE DEF modes, off, store
  <1>6. /\ off \o store \in Seq(Assignment)
        /\ Elements(off \o store) = Elements(off) \cup Elements(store)
    BY <1>4, <1>5, ElementsOfConcat
  <1>7. /\ modes \o (off \o store) \in Seq(Assignment)
        /\ Elements(modes \o (off \o store))
             = Elements(modes) \cup Elements(off \o store)
    <2> DEFINE rest == off \o store
    <2>1. modes \in Seq(Assignment) /\ rest \in Seq(Assignment)
      BY <1>3, <1>6
    <2> HIDE DEF rest
    <2>2. /\ modes \o rest \in Seq(Assignment)
          /\ Elements(modes \o rest) = Elements(modes) \cup Elements(rest)
      BY <2>1, ElementsOfConcat
    <2> QED BY <2>2 DEF rest
  <1>8. Elements(Disable(mc, rt)) = Elements(modes) \cup Elements(off) \cup Elements(store)
    BY <1>1, <1>6, <1>7, Zenon
  <1>9. Disable(mc, rt) \in Seq(Assignment)
    BY <1>1, <1>7
  <1> QED BY <1>3, <1>4, <1>5, <1>8, <1>9

LEMMA OtherAssigns ==
  ASSUME NEW r \in Request, ~SwitchesMode(r)
  PROVE  /\ Assignments(r) \in Seq(Assignment)
         /\ Elements(Assignments(r)) \subseteq OtherSteps
  <1>1. CASE r.type = "ResetRefZeroPose"
    <2>1. Assignments(r) = <<Set("ZeroPoseValid", FALSE)>>
      BY <1>1 DEF Assignments
    <2>2. Set("ZeroPoseValid", FALSE) \in Assignment
      BY AssignmentTypes
    <2>3. /\ Assignments(r) \in Seq(Assignment)
          /\ Elements(Assignments(r)) = {Set("ZeroPoseValid", FALSE)}
      BY <2>1, <2>2, Single
    <2> QED BY <2>3 DEF OtherSteps
  <1>2. CASE r.type = "DebugLogger"
    <2>1. r.enabled \in BOOLEAN
      BY <1>2, RequestAssumption DEF RequestType
    <2>2. \/ Assignments(r) = <<>>
          \/ Assignments(r) = <<Set("DebuggerRunning", r.enabled)>>
      BY <1>2 DEF Assignments, DebugSettings
    <2>3. CASE Assignments(r) = <<>>
      BY <2>3, EmptyElements
    <2>4. CASE Assignments(r) = <<Set("DebuggerRunning", r.enabled)>>
      <3>1. Set("DebuggerRunning", r.enabled) \in Assignment
        BY <2>1, AssignmentTypes
      <3>2. Set("DebuggerRunning", r.enabled) \in OtherSteps
        BY <2>1 DEF OtherSteps
      <3>3. /\ Assignments(r) \in Seq(Assignment)
            /\ Elements(Assignments(r)) = {Set("DebuggerRunning", r.enabled)}
        BY <2>4, <3>1, Single
      <3> QED BY <3>2, <3>3
    <2> QED BY <2>2, <2>3, <2>4
  <1>3. CASE r.type \notin {"ResetRefZeroPose", "DebugLogger"}
    <2>1. Assignments(r) = <<>>
      BY <1>3 DEF Assignments, SwitchesMode
    <2> QED BY <2>1, EmptyElements
  <1> QED BY <1>1, <1>2, <1>3

LEMMA ReceiveInv ==
  ASSUME OneHeadset, Inv, NEW r \in Request, Receive(r)
  PROVE  Inv'
  <1>1. /\ request = {} /\ request' = {r} /\ todo' = Assignments(r)
        /\ UNCHANGED <<mcm, deviceMode, pose, counted, refPosOf, refRotOf, frames>>
    BY DEF Receive, managerVars, poseVars
  <1>2. Roles
    BY <1>1 DEF Inv
  <1>3. Assignments(r) \in Seq(Assignment) /\ Underway(r)'
    <2>1. CASE SwitchesMode(r) /\ r.mode = "ReferenceTracker"
      <3>1. /\ r.mc = Headset /\ r.rt # Headset /\ r.mc \in Device /\ r.rt \in Device
        BY <2>1, HeadsetNamed
      <3>2. Assignments(r) = Enable(r.mc, r.rt)
        BY <2>1 DEF Assignments, SwitchesMode
      <3>3. CASE mcm.Mode # "ReferenceTracker"
        <4>1. /\ Assignments(r) \in Seq(Assignment)
              /\ Elements(Assignments(r)) =
                   {setMotionCompensationDeviceMode(r.mc, "MotionCompensated"),
                    setMotionCompensationDeviceMode(r.rt, "ReferenceTracker"),
                    Set("McDeviceID", r.mc), Set("RtDeviceID", r.rt),
                    Set("Mode", "ReferenceTracker"), Set("Enabled", TRUE),
                    Set("RefPoseValid", FALSE), Set("RefPoseValidCounter", 0),
                    Set("ZeroPoseValid", FALSE)}
          BY <3>1, <3>2, <3>3, EnableFromOff
        <4>2. Enabling(r)'
          BY <1>1, <4>1, Zenon DEF Enabling, EnableSteps, Elements
        <4> QED BY <2>1, <4>1, <4>2 DEF Underway
      <3>4. CASE mcm.Mode = "ReferenceTracker" /\ mcm.RtDeviceID # r.rt
        <4>1. /\ mcm.McDeviceID = r.mc /\ mcm.RtDeviceID \in Device
              /\ mcm.RtDeviceID # r.mc /\ Holds(r.mc, "MotionCompensated")
          BY <1>2, <3>1, <3>4 DEF Roles
        <4>2. /\ Assignments(r) \in Seq(Assignment)
              /\ Elements(Assignments(r)) =
                   {setMotionCompensationDeviceMode(mcm.RtDeviceID, "Default"),
                    setMotionCompensationDeviceMode(r.rt, "ReferenceTracker"),
                    Set("RtDeviceID", r.rt), Set("RefPoseValid", FALSE),
                    Set("ZeroPoseValid", FALSE)}
          BY <3>1, <3>2, <3>4, <4>1, EnableFromOn
        <4>3. setMotionCompensationDeviceMode(mcm.RtDeviceID, "Default") \in EnableSteps(r)
          BY <3>4, <4>1 DEF EnableSteps
        <4>4. Elements(Assignments(r)) \subseteq EnableSteps(r)
          BY <4>2, <4>3 DEF EnableSteps
        <4>5. Elements(todo)' = Elements(Assignments(r))
          BY <1>1 DEF Elements
        <4>6. Holds(r.mc, "MotionCompensated")'
          BY <1>1, <4>1 DEF Holds
        <4>7. Enabling(r)'
          BY <1>1, <3>4, <4>1, <4>2, <4>4, <4>5, <4>6 DEF Enabling, EnableSteps
        <4> QED BY <2>1, <4>2, <4>7 DEF Underway
      <3>5. CASE mcm.Mode = "ReferenceTracker" /\ mcm.RtDeviceID = r.rt
        <4>1. /\ mcm.McDeviceID = r.mc
              /\ Holds(r.mc, "MotionCompensated")
              /\ Holds(r.rt, "ReferenceTracker")
          BY <1>2, <3>1, <3>5 DEF Roles
        <4>2. Assignments(r) = <<>>
          BY <3>1, <3>2, <3>5, <4>1, EnableUnchanged
        <4>3. Elements(todo)' = {}
          BY <1>1, <4>2, EmptyElements DEF Elements
        <4>4. Enabling(r)'
          BY <1>1, <3>5, <4>1, <4>3 DEF Enabling, Holds
        <4> QED BY <2>1, <4>2, <4>4 DEF Underway
      <3> QED BY <3>3, <3>4, <3>5
    <2>2. CASE SwitchesMode(r) /\ r.mode # "ReferenceTracker"
      <3>1. r.mc \in Device /\ r.rt \in Device
        BY <2>2, HeadsetNamed
      <3>2. Assignments(r) = Disable(r.mc, r.rt)
        BY <2>2 DEF Assignments, SwitchesMode
      <3>3. /\ Assignments(r) \in Seq(Assignment)
            /\ Elements(Assignments(r)) =
                 {setMotionCompensationDeviceMode(r.mc, "Default"),
                  setMotionCompensationDeviceMode(r.rt, "Default"),
                  Set("Enabled", FALSE), Set("McDeviceID", Off),
                  Set("RtDeviceID", Off), Set("Mode", "Disabled")}
        BY <3>1, <3>2, DisableAssigns
      <3>4. Elements(todo)' = Elements(Assignments(r))
        BY <1>1 DEF Elements
      <3>5. Disabling'
        BY <3>1, <3>3, <3>4 DEF Disabling, DisableSteps
      <3> QED BY <2>2, <3>3, <3>5 DEF Underway
    <2>3. CASE ~SwitchesMode(r)
      <3>1. /\ Assignments(r) \in Seq(Assignment)
            /\ Elements(Assignments(r)) \subseteq OtherSteps
        BY <2>3, OtherAssigns
      <3>2. Elements(todo)' = Elements(Assignments(r))
        BY <1>1 DEF Elements
      <3>3. Others'
        BY <1>1, <1>2, <3>1, <3>2 DEF Others, Roles, Holds
      <3> QED BY <2>3, <3>1, <3>3 DEF Underway
    <2> QED BY <2>1, <2>2, <2>3
  <1>4. TypeOK'
    BY <1>1, <1>3 DEF Inv, TypeOK
  <1> QED BY <1>1, <1>3, <1>4 DEF Inv

-----------------------------------------------------------------------------
(* Making an assignment. *)

LEMMA AssignEffect ==
  ASSUME TypeOK, Assign
  PROVE  /\ Head(todo) \in Assignment /\ todo' \in Seq(Assignment)
         /\ Elements(todo) = {Head(todo)} \cup Elements(todo')
         /\ \A d, m : Head(todo) = setMotionCompensationDeviceMode(d, m) =>
              /\ deviceMode' = [deviceMode EXCEPT ![d] = m]
              /\ mcm' = mcm
         /\ \A f, v : Head(todo) = Set(f, v) =>
              /\ mcm' = [mcm EXCEPT ![f] = v]
              /\ deviceMode' = deviceMode
  <1>1. todo \in Seq(Assignment) /\ todo # <<>> /\ todo' = Tail(todo)
    BY DEF Assign, TypeOK
  <1>2. /\ Head(todo) \in Assignment /\ todo' \in Seq(Assignment)
        /\ Elements(todo) = {Head(todo)} \cup Elements(todo')
    BY <1>1, HeadAndTail
  <1>3. ASSUME NEW d, NEW m, Head(todo) = setMotionCompensationDeviceMode(d, m)
        PROVE  deviceMode' = [deviceMode EXCEPT ![d] = m] /\ mcm' = mcm
    <2>1. "device" \in DOMAIN Head(todo)
          /\ Head(todo).device = d /\ Head(todo).to = m
      BY <1>3 DEF setMotionCompensationDeviceMode
    <2> QED BY <2>1 DEF Assign
  <1>4. ASSUME NEW f, NEW v, Head(todo) = Set(f, v)
        PROVE  mcm' = [mcm EXCEPT ![f] = v] /\ deviceMode' = deviceMode
    <2>1. "device" \notin DOMAIN Head(todo)
          /\ Head(todo).field = f /\ Head(todo).to = v
      BY <1>4 DEF Set
    <2> QED BY <2>1 DEF Assign
  <1> QED BY <1>2, <1>3, <1>4

LEMMA AssignTypes ==
  ASSUME TypeOK, Assign
  PROVE  TypeOK'
  <1> DEFINE a == Head(todo)
  <1>1. a \in Assignment /\ todo' \in Seq(Assignment)
    BY AssignEffect
  <1>2. UNCHANGED <<request, pose, counted, refPosOf, refRotOf>>
    BY DEF Assign, poseVars
  <1>3. frames' \in 0..WarmUp + 1
    <2>1. frames' = 0 \/ frames' = frames
      BY DEF Assign
    <2> QED BY <2>1, WarmUpAssumption DEF TypeOK
  <1>4. mcm' \in Manager /\ deviceMode' \in [Device -> DeviceMode \cup FrameMode]
    <2>1. CASE a \in [device : Device, to : DeviceMode]
      <3>1. "device" \in DOMAIN a /\ a.to \in DeviceMode
        BY <2>1
      <3>2. deviceMode' = [deviceMode EXCEPT ![a.device] = a.to] /\ mcm' = mcm
        BY <3>1 DEF Assign
      <3> QED BY <3>1, <3>2 DEF TypeOK
    <2>2. CASE a \notin [device : Device, to : DeviceMode]
      <3> DEFINE f == a.field
                 v == a.to
      <3>1. "device" \notin DOMAIN a
        BY <1>1, <2>2 DEF Assignment
      <3>2. mcm' = [mcm EXCEPT ![f] = v] /\ deviceMode' = deviceMode
        BY <3>1 DEF Assign
      <3>3. \/ f = "Mode" /\ v \in CompensationMode
            \/ f \in {"McDeviceID", "RtDeviceID"} /\ v \in Device \cup {Off}
            \/ f \in {"Enabled", "RefPoseValid", "ZeroPoseValid", "DebuggerRunning"}
               /\ v \in BOOLEAN
            \/ f = "RefPoseValidCounter" /\ v = 0
        BY <1>1, <2>2 DEF Assignment
      <3> HIDE DEF f, v
      <3>4. mcm \in Manager
        BY DEF TypeOK
      <3>5. CASE f = "Mode" /\ v \in CompensationMode
        BY <3>2, <3>4, <3>5 DEF Manager, TypeOK
      <3>6. CASE f = "McDeviceID" /\ v \in Device \cup {Off}
        BY <3>2, <3>4, <3>6 DEF Manager, TypeOK
      <3>7. CASE f = "RtDeviceID" /\ v \in Device \cup {Off}
        BY <3>2, <3>4, <3>7 DEF Manager, TypeOK
      <3>8. CASE f = "Enabled" /\ v \in BOOLEAN
        BY <3>2, <3>4, <3>8 DEF Manager, TypeOK
      <3>9. CASE f = "RefPoseValid" /\ v \in BOOLEAN
        BY <3>2, <3>4, <3>9 DEF Manager, TypeOK
      <3>10. CASE f = "ZeroPoseValid" /\ v \in BOOLEAN
        BY <3>2, <3>4, <3>10 DEF Manager, TypeOK
      <3>11. CASE f = "DebuggerRunning" /\ v \in BOOLEAN
        BY <3>2, <3>4, <3>11 DEF Manager, TypeOK
      <3>12. CASE f = "RefPoseValidCounter" /\ v = 0
        <4>1. 0 \in 0..WarmUp + 1
          BY WarmUpAssumption
        <4> QED BY <3>2, <3>4, <3>12, <4>1 DEF Manager, TypeOK
      <3> QED
        BY <3>3, <3>5, <3>6, <3>7, <3>8, <3>9, <3>10, <3>11, <3>12
    <2> QED BY <2>1, <2>2
  <1> QED BY <1>1, <1>2, <1>3, <1>4 DEF TypeOK

LEMMA AssignmentsDiffer ==
  /\ \A d, m, f, v : setMotionCompensationDeviceMode(d, m) # Set(f, v)
  /\ \A d, m, e, n :
       setMotionCompensationDeviceMode(d, m) = setMotionCompensationDeviceMode(e, n)
         => d = e /\ m = n
  /\ \A f, v, g, w : Set(f, v) = Set(g, w) => f = g /\ v = w
  <1>1. ASSUME NEW d, NEW m, NEW f, NEW v
        PROVE  setMotionCompensationDeviceMode(d, m) # Set(f, v)
    <2>1. "device" \in DOMAIN setMotionCompensationDeviceMode(d, m)
      BY DEF setMotionCompensationDeviceMode
    <2>2. "device" \notin DOMAIN Set(f, v)
      BY DEF Set
    <2> QED BY <2>1, <2>2
  <1>2. ASSUME NEW d, NEW m, NEW e, NEW n,
               setMotionCompensationDeviceMode(d, m) = setMotionCompensationDeviceMode(e, n)
        PROVE  d = e /\ m = n
    BY <1>2 DEF setMotionCompensationDeviceMode
  <1>3. ASSUME NEW f, NEW v, NEW g, NEW w, Set(f, v) = Set(g, w)
        PROVE  f = g /\ v = w
    BY <1>3 DEF Set
  <1> QED BY <1>1, <1>2, <1>3

(* What is left of enabling does not undo what has been done of it. *)
LEMMA AssignEnabling ==
  ASSUME TypeOK, NEW r, r.mc \in Device, r.rt \in Device, r.mc # r.rt,
         Enabling(r), Assign
  PROVE  Enabling(r)'
  <1> DEFINE a == Head(todo)
             mcMode == setMotionCompensationDeviceMode(r.mc, "MotionCompensated")
             rtMode == setMotionCompensationDeviceMode(r.rt, "ReferenceTracker")
             mcId == Set("McDeviceID", r.mc)
             rtId == Set("RtDeviceID", r.rt)
             on == Set("Mode", "ReferenceTracker")
  <1>1. /\ Elements(todo) = {a} \cup Elements(todo')
        /\ \A d, m : a = setMotionCompensationDeviceMode(d, m) =>
             deviceMode' = [deviceMode EXCEPT ![d] = m] /\ mcm' = mcm
        /\ \A f, v : a = Set(f, v) =>
             mcm' = [mcm EXCEPT ![f] = v] /\ deviceMode' = deviceMode
    BY AssignEffect
  <1>2. a \in EnableSteps(r) /\ Elements(todo') \subseteq EnableSteps(r)
    BY <1>1 DEF Enabling
  <1>3. deviceMode \in [Device -> DeviceMode \cup FrameMode] /\ mcm \in Manager
    BY DEF TypeOK
  <1>4. /\ Holds(r.mc, "MotionCompensated") \/ mcMode = a \/ mcMode \in Elements(todo')
        /\ Holds(r.rt, "ReferenceTracker") \/ rtMode = a \/ rtMode \in Elements(todo')
        /\ mcm.McDeviceID = r.mc \/ mcId = a \/ mcId \in Elements(todo')
        /\ mcm.RtDeviceID = r.rt \/ rtId = a \/ rtId \in Elements(todo')
        /\ mcm.Mode = "ReferenceTracker" \/ on = a \/ on \in Elements(todo')
    BY <1>1 DEF Enabling
  <1>5. /\ Elements(todo)' = Elements(todo')
        /\ Enabling(r)' <=>
             /\ Elements(todo') \subseteq EnableSteps(r)
             /\ Holds(r.mc, "MotionCompensated")' \/ mcMode \in Elements(todo')
             /\ Holds(r.rt, "ReferenceTracker")' \/ rtMode \in Elements(todo')
             /\ mcm'.McDeviceID = r.mc \/ mcId \in Elements(todo')
             /\ mcm'.RtDeviceID = r.rt \/ rtId \in Elements(todo')
             /\ mcm'.Mode = "ReferenceTracker" \/ on \in Elements(todo')
    BY DEF Enabling, Elements
  <1>6. ASSUME NEW d \in Device, NEW m,
               a = setMotionCompensationDeviceMode(d, m),
               d = r.mc => m = "MotionCompensated",
               d = r.rt => m = "ReferenceTracker"
        PROVE  Enabling(r)'
    <2>1. deviceMode' = [deviceMode EXCEPT ![d] = m] /\ mcm' = mcm
      BY <1>1, <1>6
    <2>2. /\ a # mcId /\ a # rtId /\ a # on
          /\ a = mcMode => d = r.mc
          /\ a = rtMode => d = r.rt
      BY <1>6, AssignmentsDiffer
    <2>3. /\ d = r.mc => Holds(r.mc, "MotionCompensated")'
          /\ d # r.mc /\ Holds(r.mc, "MotionCompensated") => Holds(r.mc, "MotionCompensated")'
          /\ d = r.rt => Holds(r.rt, "ReferenceTracker")'
          /\ d # r.rt /\ Holds(r.rt, "ReferenceTracker") => Holds(r.rt, "ReferenceTracker")'
      <3>1. /\ deviceMode'[d] = m
            /\ \A e \in Device \ {d} : deviceMode'[e] = deviceMode[e]
        BY <1>3, <2>1
      <3>2. r.mc \in Device /\ r.rt \in Device
        OBVIOUS
      <3> HIDE DEF a, mcMode, rtMode, mcId, rtId, on
      <3> QED BY <1>6, <3>1, <3>2 DEF Holds
    <2> HIDE DEF a, mcMode, rtMode, mcId, rtId, on
    <2> QED BY <1>2, <1>4, <1>5, <2>1, <2>2, <2>3
  <1>7. ASSUME NEW f, NEW v, a = Set(f, v),
               f \in {"Mode", "McDeviceID", "RtDeviceID", "Enabled", "RefPoseValid",
                      "RefPoseValidCounter", "ZeroPoseValid"},
               f = "McDeviceID" => v = r.mc,
               f = "RtDeviceID" => v = r.rt,
               f = "Mode" => v = "ReferenceTracker"
        PROVE  Enabling(r)'
    <2>1. mcm' = [mcm EXCEPT ![f] = v] /\ deviceMode' = deviceMode
      BY <1>1, <1>7
    <2>2. /\ a # mcMode /\ a # rtMode
          /\ a = mcId => f = "McDeviceID"
          /\ a = rtId => f = "RtDeviceID"
          /\ a = on => f = "Mode"
      BY <1>7, AssignmentsDiffer
    <2>3. /\ f = "McDeviceID" => mcm'.McDeviceID = r.mc
          /\ f # "McDeviceID" => mcm'.McDeviceID = mcm.McDeviceID
          /\ f = "RtDeviceID" => mcm'.RtDeviceID = r.rt
          /\ f # "RtDeviceID" => mcm'.RtDeviceID = mcm.RtDeviceID
          /\ f = "Mode" => mcm'.Mode = "ReferenceTracker"
          /\ f # "Mode" => mcm'.Mode = mcm.Mode
      BY <1>3, <1>7, <2>1 DEF Manager
    <2>4. /\ Holds(r.mc, "MotionCompensated")' <=> Holds(r.mc, "MotionCompensated")
          /\ Holds(r.rt, "ReferenceTracker")' <=> Holds(r.rt, "ReferenceTracker")
      BY <2>1 DEF Holds
    <2> HIDE DEF a, mcMode, rtMode, mcId, rtId, on
    <2> QED BY <1>2, <1>4, <1>5, <2>2, <2>3, <2>4
  <1>8. CASE a \in {setMotionCompensationDeviceMode(d, "Default") :
                      d \in Device \ {r.mc, r.rt}}
    <2>1. PICK d \in Device \ {r.mc, r.rt} :
            a = setMotionCompensationDeviceMode(d, "Default")
      BY <1>8
    <2> HIDE DEF a
    <2> QED BY <1>6, <2>1
  <1>9. CASE a = mcMode
    <2> HIDE DEF a
    <2> QED BY <1>6, <1>9
  <1>10. CASE a = rtMode
    <2> HIDE DEF a
    <2> QED BY <1>6, <1>10
  <1>11. CASE a \in {mcId, rtId, Set("Mode", "ReferenceTracker"), Set("Enabled", TRUE),
                     Set("RefPoseValid", FALSE), Set("RefPoseValidCounter", 0),
                     Set("ZeroPoseValid", FALSE)}
    <2> HIDE DEF a
    <2>1. CASE a = mcId
      BY <1>7, <2>1
    <2>2. CASE a = rtId
      BY <1>7, <2>2
    <2>3. CASE a = Set("Mode", "ReferenceTracker")
      BY <1>7, <2>3
    <2>4. CASE a = Set("Enabled", TRUE)
      BY <1>7, <2>4
    <2>5. CASE a = Set("RefPoseValid", FALSE)
      BY <1>7, <2>5
    <2>6. CASE a = Set("RefPoseValidCounter", 0)
      BY <1>7, <2>6
    <2>7. CASE a = Set("ZeroPoseValid", FALSE)
      BY <1>7, <2>7
    <2> QED BY <1>11, <2>1, <2>2, <2>3, <2>4, <2>5, <2>6, <2>7
  <1> QED BY <1>2, <1>8, <1>9, <1>10, <1>11 DEF EnableSteps

LEMMA AssignDisabling ==
  ASSUME TypeOK, Disabling, Assign
  PROVE  Disabling'
  <1> DEFINE a == Head(todo)
             off == Set("Mode", "Disabled")
  <1>1. /\ Elements(todo) = {a} \cup Elements(todo')
        /\ \A d, m : a = setMotionCompensationDeviceMode(d, m) => mcm' = mcm
        /\ \A f, v : a = Set(f, v) => mcm' = [mcm EXCEPT ![f] = v]
    BY AssignEffect
  <1>2. Elements(todo)' = Elements(todo')
    BY DEF Elements
  <1>3. a \in DisableSteps /\ Elements(todo') \subseteq DisableSteps
    BY <1>1 DEF Disabling
  <1>4. mcm.Mode = "Disabled" \/ a = off \/ off \in Elements(todo')
    BY <1>1 DEF Disabling
  <1>5. mcm \in Manager
    BY DEF TypeOK
  <1>6. CASE \E d \in Device : a = setMotionCompensationDeviceMode(d, "Default")
    <2>1. mcm' = mcm /\ a # off
      BY <1>1, <1>6, AssignmentsDiffer
    <2> HIDE DEF a, off
    <2> QED BY <1>2, <1>3, <1>4, <2>1 DEF Disabling, off
  <1>7. CASE a = off
    <2>1. mcm' = [mcm EXCEPT !["Mode"] = "Disabled"]
      BY <1>1, <1>7
    <2>2. mcm'.Mode = "Disabled"
      BY <1>5, <2>1 DEF Manager
    <2> HIDE DEF a
    <2> QED BY <1>2, <1>3, <2>2 DEF Disabling
  <1>8. CASE a \in {Set("Enabled", FALSE), Set("McDeviceID", Off), Set("RtDeviceID", Off)}
    <2>1. PICK f \in {"Enabled", "McDeviceID", "RtDeviceID"} : \E v : a = Set(f, v)
      <3> HIDE DEF a
      <3> QED BY <1>8
    <2>2. a # off
      <3> HIDE DEF a
      <3> QED BY <2>1, AssignmentsDiffer
    <2>3. mcm'.Mode = mcm.Mode
      <3>1. PICK v : a = Set(f, v)
        BY <2>1
      <3>2. mcm' = [mcm EXCEPT ![f] = v]
        BY <1>1, <3>1
      <3> QED BY <1>5, <3>2 DEF Manager
    <2> HIDE DEF a
    <2> QED BY <1>2, <1>3, <1>4, <2>2, <2>3 DEF Disabling
  <1> QED BY <1>3, <1>6, <1>7, <1>8 DEF DisableSteps

LEMMA AssignOthers ==
  ASSUME TypeOK, Others, Assign
  PROVE  Others'
  <1> DEFINE a == Head(todo)
  <1>1. /\ Elements(todo) = {a} \cup Elements(todo')
        /\ \A f, v : a = Set(f, v) =>
             mcm' = [mcm EXCEPT ![f] = v] /\ deviceMode' = deviceMode
    BY AssignEffect
  <1>2. Elements(todo)' = Elements(todo')
    BY DEF Elements
  <1>3. a \in OtherSteps /\ Elements(todo') \subseteq OtherSteps
    BY <1>1 DEF Others
  <1>4. PICK f \in {"ZeroPoseValid", "DebuggerRunning"} : \E v : a = Set(f, v)
    <2> HIDE DEF a
    <2> QED BY <1>3 DEF OtherSteps
  <1>5. PICK v : a = Set(f, v)
    BY <1>4
  <1>6. mcm' = [mcm EXCEPT ![f] = v] /\ deviceMode' = deviceMode
    BY <1>1, <1>5
  <1>7. /\ mcm'.Mode = mcm.Mode /\ mcm'.McDeviceID = mcm.McDeviceID
        /\ mcm'.RtDeviceID = mcm.RtDeviceID
    BY <1>6 DEF TypeOK, Manager
  <1>8. Roles'
    BY <1>6, <1>7 DEF Others, Roles, Holds
  <1> QED BY <1>2, <1>3, <1>8 DEF Others

LEMMA AssignInv ==
  ASSUME OneHeadset, Inv, Assign
  PROVE  Inv'
  <1>1. TypeOK
    BY DEF Inv
  <1>2. TypeOK'
    BY <1>1, AssignTypes
  <1>3. request' = request /\ todo # <<>>
    BY DEF Assign
  <1>4. request # {}
    BY <1>3 DEF Inv
  <1>5. ASSUME NEW r \in request PROVE Underway(r)'
    <2>1. r \in Request /\ Underway(r)
      BY <1>1 DEF Inv, TypeOK
    <2>2. CASE SwitchesMode(r) /\ r.mode = "ReferenceTracker"
      <3>1. r.mc \in Device /\ r.rt \in Device /\ r.mc # r.rt
        BY <2>1, <2>2, HeadsetNamed
      <3>2. Enabling(r)'
        BY <1>1, <2>1, <2>2, <3>1, AssignEnabling DEF Underway
      <3> QED BY <2>2, <3>2 DEF Underway
    <2>3. CASE SwitchesMode(r) /\ r.mode # "ReferenceTracker"
      <3>1. Disabling'
        BY <1>1, <2>1, <2>3, AssignDisabling DEF Underway
      <3> QED BY <2>3, <3>1 DEF Underway
    <2>4. CASE ~SwitchesMode(r)
      <3>1. Others'
        BY <1>1, <2>1, <2>4, AssignOthers DEF Underway
      <3> QED BY <2>4, <3>1 DEF Underway
    <2> QED BY <2>2, <2>3, <2>4
  <1> QED BY <1>2, <1>3, <1>4, <1>5 DEF Inv

-----------------------------------------------------------------------------
(* Replies and poses. *)

LEMMA ReplyInv ==
  ASSUME OneHeadset, Inv, Reply
  PROVE  Inv'
  <1>1. /\ request # {} /\ todo = <<>> /\ request' = {}
        /\ UNCHANGED <<mcm, deviceMode, todo, pose, counted, refPosOf, refRotOf,
                       frames>>
    BY DEF Reply, managerVars, poseVars
  <1>2. Elements(todo) = {}
    BY <1>1, EmptyElements
  <1>3. PICK r \in request : Underway(r)
    BY <1>1 DEF Inv
  <1>4. Roles
    <2>1. r \in Request /\ mcm \in Manager
      BY DEF Inv, TypeOK
    <2>2. CASE SwitchesMode(r) /\ r.mode = "ReferenceTracker"
      <3>1. /\ r.mc = Headset /\ r.rt # Headset /\ r.mc \in Device /\ r.rt \in Device
        BY <2>1, <2>2, HeadsetNamed
      <3>2. Enabling(r)
        BY <1>3, <2>2 DEF Underway
      <3> QED BY <1>2, <3>1, <3>2 DEF Enabling, Roles
    <2>3. CASE SwitchesMode(r) /\ r.mode # "ReferenceTracker"
      <3>1. Disabling
        BY <1>3, <2>3 DEF Underway
      <3> QED BY <1>2, <3>1 DEF Disabling, Roles
    <2>4. CASE ~SwitchesMode(r)
      BY <1>3, <2>4 DEF Underway, Others
    <2> QED BY <2>2, <2>3, <2>4
  <1> QED BY <1>1, <1>4 DEF Inv, TypeOK, Roles, Holds

(* A frame takes no device out of a mode but into one of its own. *)
LEMMA FrameInv ==
  ASSUME Inv, NEW d \in Device, RunFrame(d)
  PROVE  Inv'
  <1>1. /\ UNCHANGED <<mcm, request, todo, pose, counted, refPosOf, refRotOf, frames>>
        /\ d \in {0, 1, 2}
        /\ \E m \in FrameMode : deviceMode' = [deviceMode EXCEPT ![d] = m]
    BY DEF RunFrame, requestVars, poseVars, FrameMode
  <1>2. TypeOK /\ deviceMode \in [Device -> DeviceMode \cup FrameMode]
    BY DEF Inv, TypeOK
  <1>3. TypeOK'
    BY <1>1, <1>2 DEF TypeOK
  <1>4. ASSUME NEW e \in Device, NEW m, Holds(e, m) PROVE Holds(e, m)'
    BY <1>1, <1>2, <1>4 DEF Holds
  <1>5. Elements(todo)' = Elements(todo)
    BY <1>1 DEF Elements
  <1>6. Roles => Roles'
    BY <1>1, <1>4 DEF Roles
  <1>7. ASSUME NEW r \in request PROVE Underway(r)'
    <2>1. Underway(r)
      BY DEF Inv
    <2>2. CASE SwitchesMode(r) /\ r.mode = "ReferenceTracker"
      <3>1. r.mc \in Device /\ r.rt \in Device
        BY <1>2, <2>2, RequestAssumption DEF TypeOK, SwitchesMode, RequestType
      <3>2. Enabling(r)'
        BY <1>1, <1>4, <1>5, <2>1, <2>2, <3>1 DEF Underway, Enabling
      <3> QED BY <2>2, <3>2 DEF Underway
    <2>3. Disabling => Disabling'
      BY <1>1, <1>5 DEF Disabling
    <2>4. Others => Others'
      BY <1>5, <1>6 DEF Others
    <2> QED BY <2>1, <2>2, <2>3, <2>4 DEF Underway
  <1> QED BY <1>1, <1>3, <1>6, <1>7 DEF Inv

(* A pose changes neither modes nor ids. *)
LEMMA PoseInv ==
  ASSUME Inv, NEW d \in Device, HandlePoseUpdate(d) \/ PoseThread(d)
  PROVE  Inv'
  <1>1. /\ UNCHANGED <<deviceMode, request, todo>>
        /\ mcm'.Mode = mcm.Mode /\ mcm'.McDeviceID = mcm.McDeviceID
        /\ mcm'.RtDeviceID = mcm.RtDeviceID
        /\ TypeOK'
    <2>1. /\ mcm \in Manager /\ pose \in [Device -> PoseStep]
          /\ counted \in [Device -> 0..WarmUp + 1]
          /\ mcm.RefPoseValidCounter \in 0..WarmUp + 1
          /\ TypeOK
      BY DEF Inv, TypeOK, Manager
    <2>2. CASE HandlePoseUpdate(d)
      BY <2>1, <2>2 DEF HandlePoseUpdate, managerVars, requestVars, TypeOK, PoseStep
    <2>3. CASE SetZeroPose(d)
      BY <2>1, <2>3 DEF SetZeroPose, requestVars, TypeOK, PoseStep, Manager
    <2>4. CASE UpdateRefPosition(d)
      BY <2>1, <2>4 DEF UpdateRefPosition, managerVars, requestVars, TypeOK, PoseStep
    <2>5. CASE UpdateRefRotation(d)
      BY <2>1, <2>5 DEF UpdateRefRotation, managerVars, requestVars, TypeOK, PoseStep
    <2>6. CASE ReadCounter(d)
      BY <2>1, <2>6 DEF ReadCounter, managerVars, requestVars, TypeOK, PoseStep
    <2>7. CASE UpdateRefValidity(d)
      <3>1. /\ mcm' \in Manager
            /\ mcm'.Mode = mcm.Mode /\ mcm'.McDeviceID = mcm.McDeviceID
            /\ mcm'.RtDeviceID = mcm.RtDeviceID
        <4>1. CASE counted[d] > WarmUp
          BY <2>1, <2>7, <4>1 DEF UpdateRefValidity, Manager
        <4>2. CASE ~(counted[d] > WarmUp)
          <5>1. counted[d] + 1 \in 0..WarmUp + 1
            BY <2>1, <4>2, WarmUpAssumption
          <5> QED BY <2>1, <2>7, <4>2, <5>1 DEF UpdateRefValidity, Manager
        <4> QED BY <4>1, <4>2
      <3>2. pose' \in [Device -> PoseStep] /\ counted' \in [Device -> 0..WarmUp + 1]
        <4>1. 0 \in 0..WarmUp + 1
          BY WarmUpAssumption
        <4> QED BY <2>1, <2>7, <4>1 DEF UpdateRefValidity, PoseStep
      <3>3. frames' \in 0..WarmUp + 1
        BY <2>1, <2>7, WarmUpAssumption DEF UpdateRefValidity, TypeOK
      <3> QED
        BY <2>1, <2>7, <3>1, <3>2, <3>3 DEF UpdateRefValidity, requestVars, TypeOK
    <2> QED BY <2>2, <2>3, <2>4, <2>5, <2>6, <2>7 DEF PoseThread
  <1>2. Elements(todo)' = Elements(todo)
    BY <1>1 DEF Elements
  <1>3. Roles => Roles'
    BY <1>1 DEF Roles, Holds
  <1>4. ASSUME NEW r \in request PROVE Underway(r)'
    <2>1. Underway(r)
      BY DEF Inv
    <2>2. Enabling(r) => Enabling(r)'
      BY <1>1, <1>2 DEF Enabling, Holds
    <2>3. Disabling => Disabling'
      BY <1>1, <1>2 DEF Disabling
    <2>4. Others => Others'
      BY <1>2, <1>3 DEF Others
    <2> QED BY <2>1, <2>2, <2>3, <2>4 DEF Underway
  <1> QED BY <1>1, <1>3, <1>4 DEF Inv

LEMMA StutterInv == Inv /\ UNCHANGED vars => Inv'
  BY DEF vars, managerVars, requestVars, poseVars, Inv, TypeOK, Roles, Underway,
         Enabling, Disabling, Others, Elements, Holds

LEMMA NextInv ==
  ASSUME OneHeadset
  PROVE  Inv /\ [Next]_vars => Inv'
  BY ReceiveInv, AssignInv, ReplyInv, FrameInv, PoseInv, StutterInv DEF Next

LEMMA Invariance ==
  ASSUME OneHeadset
  PROVE  Spec => []Inv
  <1>1. Inv /\ [Next]_vars => Inv'
    BY NextInv
  <1> QED BY <1>1, InitInv, PTL DEF Spec

LEMMA AnsweredIsInEffect == Inv => RequestTakesEffect
  <1> SUFFICES ASSUME Inv, NEW r \in request, todo = <<>>,
                      r.type = "MotionCompensationMode", r.mode = "ReferenceTracker"
               PROVE  /\ mcm.Mode = "ReferenceTracker"
                      /\ mcm.McDeviceID = r.mc /\ mcm.RtDeviceID = r.rt
                      /\ Holds(r.mc, "MotionCompensated")
                      /\ Holds(r.rt, "ReferenceTracker")
    BY DEF RequestTakesEffect
  <1>1. Enabling(r)
    BY DEF Inv, Underway, SwitchesMode
  <1> QED BY <1>1, EmptyElements DEF Enabling

LEMMA StoredIdsNameRoles == Inv => IdsNameRoles
  BY DEF Inv, Roles, IdsNameRoles

(* With one headset, every variable has a value of its type, for any devices
   and any warm-up. *)
THEOREM TypeCorrect == OneHeadset => (Spec => []TypeOK)
  <1> SUFFICES ASSUME OneHeadset PROVE Spec => []TypeOK
    OBVIOUS
  <1>1. Inv => TypeOK
    BY DEF Inv
  <1> QED BY <1>1, Invariance, PTL

(* When a request to compensate is answered, the manager compensates with the
   two ids it named, and their devices are in the modes it asked for unless a
   frame has set them since, whatever requests there were before and whatever
   poses and frames came between the assignments (MotionCompensationMode in
   driver_ipc_shm.cpp, RunFrame in ServerDriver.cpp). *)
THEOREM RequestsTakeEffect == OneHeadset => (Spec => []RequestTakesEffect)
  <1> SUFFICES ASSUME OneHeadset PROVE Spec => []RequestTakesEffect
    OBVIOUS
  <1> QED BY AnsweredIsInEffect, Invariance, PTL

(* Between requests the ids the manager stores name devices that no request
   has taken out of the modes of those roles: a change finds the devices it
   has to put back, unless a frame has set their modes since. *)
THEOREM IdsKeepRoles == OneHeadset => (Spec => []IdsNameRoles)
  <1> SUFFICES ASSUME OneHeadset PROVE Spec => []IdsNameRoles
    OBVIOUS
  <1> QED BY StoredIdsNameRoles, Invariance, PTL
=============================================================================
