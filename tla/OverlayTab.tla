----------------------------- MODULE OverlayTab -----------------------------
(***************************************************************************)
(* The overlay's tab for motion compensation (DeviceManipulationTab-       *)
(* Controller and DeviceManipulationPage.qml) at work on the driver: the   *)
(* devices it has found and what the page shows of them, the Apply button  *)
(* and the shortcut, and what the settings file keeps for the next start.  *)
(*                                                                         *)
(* What a request does in the driver is taken from MotionCompensation,     *)
(* and the shortcuts from Shortcuts.  A call to the driver waits for its   *)
(* reply, so that here it is one step.  OpenVR gives ids in the order in   *)
(* which devices connect, the headset first.                               *)
(* The modes that the server's frames write (MotionCompensation) are left  *)
(* out: deviceMode is what the requests have made of it.                   *)
(***************************************************************************)
EXTENDS Shortcuts, Integers, Sequences, FiniteSets, FiniteSetsExt, Functions

CONSTANTS HMD,        \* the headset
          Trackers,   \* devices that can be reference trackers
          Others,     \* base stations
          Unreadable  \* devices whose serial number OpenVR cannot read

ASSUME DeviceAssumption ==
  /\ IsFiniteSet(Trackers \cup Others)
  /\ HMD \notin Trackers \cup Others
ASSUME UnreadableAssumption == Unreadable \subseteq Trackers \cup {HMD}

VARIABLES ids,              \* the devices connected after the headset
          mcm, deviceMode,  \* the driver, see MotionCompensation
          tab,              \* the device list and what the page shows
          visible,          \* dashboardVisible
          applying,         \* settings sent and not recorded yet: at most one
          isOn, serials,    \* _MotionCompensationIsOn; the devices in use
          saved             \* their serials in the settings

driverVars == <<mcm, deviceMode>>
tabVars == <<tab, visible, applying, isOn, serials>>
vars == <<running, shortcutVars, ids, driverVars, tabVars, saved>>

Device == {HMD} \cup Trackers \cup Others
DeviceId == 0..Cardinality(Device) - 1

DeviceAt(id) == IF id = 0 THEN HMD ELSE ids[id]
Serial(d) == IF d \in Unreadable THEN "<unknown serial>" ELSE d
NoSerials == [hmd |-> "", tracker |-> ""]
NoTracker == -1

ModeRequest(mc, rt, mode) ==
  [type |-> "MotionCompensationMode", mc |-> mc, rt |-> rt, mode |-> mode]

Driver == INSTANCE MotionCompensation WITH
  Device <- DeviceId, WarmUp <- 0,
  Request <- [type : {"MotionCompensationMode"}, mc : DeviceId, rt : DeviceId,
              mode : {"Disabled", "ReferenceTracker"}],
  request <- {}, todo <- <<>>, frames <- 0, refPosOf <- -1, refRotOf <- -1,
  pose <- [d \in DeviceId |-> "idle"], counted <- [d \in DeviceId |-> 0]

(* found: the ids in deviceInfos; mode: the headset's deviceMode there.  The
   rest is the page: the entries, in the order of their ids, and the current
   one of the combo box of trackers (that of headsets has one entry), the
   check box, the status. *)
NewTab == [found |-> {}, mode |-> "Default", trackers |-> {}, tracker |-> NoTracker,
           checked |-> FALSE, status |-> "Default"]

Closed ==
  /\ tab' = NewTab
  /\ visible' = FALSE
  /\ applying' = {}
  /\ isOn' = FALSE
  /\ serials' = NoSerials

Init ==
  /\ ShortcutsInit
  /\ ids = <<>>
  /\ Driver!Init
  /\ tab = NewTab
  /\ visible = FALSE
  /\ applying = {}
  /\ isOn = FALSE
  /\ serials = NoSerials
  /\ saved = NoSerials

-----------------------------------------------------------------------------
(* The page follows the list. *)

fetchHMDInfo(t) ==
  [t EXCEPT !.checked = (t.mode = "MotionCompensated"), !.status = t.mode]

(* Bug: with the first tracker no entry is selected. *)
fetchDevicesKeepingIndex(t) == [t EXCEPT !.trackers = t.found \ {0}]

(* A valid selection becomes that of the headsets, of which there is one: the
   first entry is selected. *)
fetchDevices(t) ==
  LET trackers == t.found \ {0} IN
  [t EXCEPT !.trackers = trackers,
            !.tracker = IF trackers = {} THEN NoTracker ELSE Min(trackers)]

(* Base stations and the like are not stored. *)
SearchDevices(t) ==
  LET listed == {id \in 0..Len(ids) : DeviceAt(id) \notin Others}
      new == listed \ t.found
      known == IF 0 \in new THEN deviceMode[0] ELSE t.mode
  IN IF new = {} THEN t
     ELSE fetchHMDInfo(fetchDevices([t EXCEPT !.found = listed, !.mode = known]))

updateDeviceInfo(t) ==
  IF t.mode = deviceMode[0] THEN t
  ELSE fetchHMDInfo([t EXCEPT !.mode = deviceMode[0]])

-----------------------------------------------------------------------------
(* SteamVR and the overlay's process. *)

Connect(d) ==
  /\ d \notin Range(ids)
  /\ ids' = Append(ids, d)
  /\ UNCHANGED <<running, shortcutVars, driverVars, tabVars, saved>>

(* The overlay ends with SteamVR, and finds the driver reset. *)
RestartSteamVR ==
  /\ ids' = <<>>
  /\ mcm' = [mcm EXCEPT !.Mode = "Disabled", !.Enabled = FALSE,
                        !.McDeviceID = -1, !.RtDeviceID = -1]
  /\ deviceMode' = [d \in DeviceId |-> "Default"]
  /\ \/ EndShortcuts
     \/ ~running /\ UNCHANGED <<running, shortcutVars>>
  /\ Closed
  /\ UNCHANGED saved

(* initStage1 and initStage2, when the driver answers. *)
Start ==
  /\ LoadShortcuts
  /\ serials' = saved
  /\ tab' = SearchDevices(NewTab)
  /\ UNCHANGED <<ids, driverVars, visible, applying, isOn, saved>>

(* Quit, or killed at any point. *)
End ==
  /\ EndShortcuts
  /\ Closed
  /\ UNCHANGED <<ids, driverVars, saved>>

Dashboard ==
  /\ running
  /\ applying = {}
  /\ visible' = ~visible
  /\ UNCHANGED <<running, shortcutVars, ids, driverVars, tab, applying, isOn,
                 serials, saved>>

eventLoopTick ==
  /\ running
  /\ applying = {}
  /\ visible
  /\ tab' = SearchDevices(updateDeviceInfo(tab))
  /\ UNCHANGED <<running, shortcutVars, ids, driverVars, visible, applying, isOn,
                 serials, saved>>

-----------------------------------------------------------------------------
(* The user. *)

UserActs == running /\ applying = {}

(* Bug: the handler refreshes the headset's entry, and tells nobody. *)
SelectTrackerRefreshing(id) ==
  /\ UserActs
  /\ visible
  /\ id \in tab.trackers
  /\ tab' = [tab EXCEPT !.tracker = id, !.mode = deviceMode[0]]
  /\ UNCHANGED <<running, shortcutVars, ids, driverVars, visible, applying, isOn,
                 serials, saved>>

SelectTracker(id) ==
  /\ UserActs
  /\ visible
  /\ id \in tab.trackers
  /\ tab' = [tab EXCEPT !.tracker = id]
  /\ UNCHANGED <<running, shortcutVars, ids, driverVars, visible, applying, isOn,
                 serials, saved>>

CheckBox ==
  /\ UserActs
  /\ visible
  /\ tab' = [tab EXCEPT !.checked = ~tab.checked]
  /\ UNCHANGED <<running, shortcutVars, ids, driverVars, visible, applying, isOn,
                 serials, saved>>

(* What is left of a field of the manager, and of a device's mode, by
   assignments that are made one after the other. *)
LastOf(as, at, old) == IF at = {} THEN old ELSE as[Max(at)].to

FieldAfter(as, f) ==
  LastOf(as, {i \in DOMAIN as : "field" \in DOMAIN as[i] /\ as[i].field = f}, mcm[f])

ModeAfter(as, d) ==
  LastOf(as, {i \in DOMAIN as : "device" \in DOMAIN as[i] /\ as[i].device = d},
         deviceMode[d])

(* The first of the two requests: the new mode. *)
applySettings_ovrid(mc, rt, on) ==
  LET mode == IF on THEN "ReferenceTracker" ELSE "Disabled"
      as == Driver!Assignments(ModeRequest(mc, rt, mode))
  IN /\ mcm' = [f \in DOMAIN mcm |-> FieldAfter(as, f)]
     /\ deviceMode' = [d \in DeviceId |-> ModeAfter(as, d)]
     /\ applying' = {[mc |-> mc, rt |-> rt, on |-> on]}

(* The Apply button, which is enabled when there is a tracker. *)
applySettings ==
  /\ UserActs
  /\ visible
  /\ tab.trackers # {}
  /\ applySettings_ovrid(0, tab.tracker, tab.checked)
  /\ UNCHANGED <<running, shortcutVars, ids, tab, visible, isOn, serials, saved>>

(* Bug: the devices are not remembered. *)
AppliedForgetting ==
  \E a \in applying :
    /\ applying' = {}
    /\ isOn' = a.on
    /\ saveMotionCompensationShortcuts
    /\ UNCHANGED <<ids, driverVars, tab, visible, serials, saved>>

(* The second request, for the filters, is answered as well: the tab takes
   note and saves. *)
Applied ==
  \E a \in applying :
    /\ applying' = {}
    /\ isOn' = a.on
    /\ serials' = [hmd |-> Serial(DeviceAt(a.mc)), tracker |-> Serial(DeviceAt(a.rt))]
    /\ saved' = serials'
    /\ saveMotionCompensationShortcuts
    /\ UNCHANGED <<ids, driverVars, tab, visible>>

(* Bug: the shortcut applies to what the page shows. *)
WithSerialShown(found, serial) ==
  IF serial = serials.hmd \/ tab.trackers = {} THEN {0} ELSE {tab.tracker}

WithSerial(found, serial) ==
  {id \in found : serial # "" /\ Serial(DeviceAt(id)) = serial}

(* The last device with each serial is taken.  Without both of them, or with
   one device for both, nothing is sent. *)
toggleMotionCompensationMode ==
  LET refreshed == SearchDevices(tab)
      mcs == WithSerial(refreshed.found, serials.hmd)
      rts == WithSerial(refreshed.found, serials.tracker)
  IN /\ tab' = refreshed
     /\ IF mcs # {} /\ rts # {} /\ Max(mcs) # Max(rts)
          THEN applySettings_ovrid(Max(mcs), Max(rts), ~isOn)
          ELSE UNCHANGED <<driverVars, applying>>

(* A hot key is pressed.  (Resetting the zero pose changes nothing here.) *)
Press(k) ==
  /\ UserActs
  /\ k \in registered
  /\ Activated(k) = Toggle
  /\ toggleMotionCompensationMode
  /\ UNCHANGED <<running, shortcutVars, ids, visible, isOn, serials, saved>>

ChangeShortcut ==
  /\ UserActs
  /\ visible
  /\ \E i \in Shortcut : removeKey(i) \/ \E k \in Key : newKey(i, k)
  /\ UNCHANGED <<ids, driverVars, tabVars, saved>>

-----------------------------------------------------------------------------
Next ==
  \/ \E d \in Trackers \cup Others : Connect(d)
  \/ RestartSteamVR
  \/ Start
  \/ End
  \/ Dashboard
  \/ eventLoopTick
  \/ \E id \in DeviceId : SelectTracker(id)
  \/ CheckBox
  \/ applySettings
  \/ Applied
  \/ \E k \in Key : Press(k)
  \/ ChangeShortcut

(* Qt's timer runs the loop, however often the user clicks in between, and
   calls that were begun are answered. *)
Fairness == SF_vars(eventLoopTick) /\ WF_vars(Applied)

Spec == Init /\ [][Next]_vars /\ Fairness

-----------------------------------------------------------------------------
SerialsOf(devices) == {""} \cup {Serial(d) : d \in devices}

TypeOK ==
  /\ ShortcutsTypeOK
  /\ ids \in Seq(Trackers \cup Others) /\ IsInjective(ids)
  /\ mcm \in Driver!Manager
  /\ deviceMode \in [DeviceId -> Driver!DeviceMode]
  /\ tab \in [found : SUBSET (0..Len(ids)), mode : Driver!DeviceMode,
              trackers : SUBSET (1..Len(ids)), tracker : 1..Len(ids) \cup {NoTracker},
              checked : BOOLEAN, status : Driver!DeviceMode]
  /\ tab.trackers # {} => tab.tracker \in tab.trackers
  /\ visible \in BOOLEAN /\ isOn \in BOOLEAN
  /\ applying \subseteq [mc : DeviceId, rt : DeviceId, on : BOOLEAN]
  /\ {serials, saved} \subseteq [hmd : SerialsOf({HMD}), tracker : SerialsOf(Trackers)]

(* When the tab believes that motion compensation is on, the driver does
   compensate, with the devices whose serials the shortcut goes by, whatever
   was applied, toggled, restarted or connected in between
   (_MotionCompensationIsOn, which toggleMotionCompensationMode negates). *)
OnIsWhatDriverDoes ==
  isOn /\ applying = {} =>
    /\ mcm.Mode = "ReferenceTracker"
    /\ serials = [hmd |-> Serial(DeviceAt(mcm.McDeviceID)),
                  tracker |-> Serial(DeviceAt(mcm.RtDeviceID))]
    /\ saved = serials

(* Switching compensation off by the shortcut puts the devices in use back
   to Default, even when the page shows another selection: those two devices
   are found by their serials. *)
ToggleOffRestores ==
  [][\A k \in Key :
       Press(k) /\ isOn /\ applying' # {} =>
         /\ deviceMode'[mcm.McDeviceID] = "Default"
         /\ deviceMode'[mcm.RtDeviceID] = "Default"]_vars

(* While the dashboard is open and the driver leaves the headset in mode m,
   the page comes to show m, and to list every tracker there is: a change
   is never taken note of without the page being told (the events of
   eventLoopTick and SearchDevices). *)
PageFollows ==
  \A m \in Driver!DeviceMode :
    <>[](running /\ visible /\ deviceMode[0] = m)
      => <>[](/\ tab.status = m
              /\ {DeviceAt(id) : id \in tab.trackers} = Range(ids) \cap Trackers)
=============================================================================
