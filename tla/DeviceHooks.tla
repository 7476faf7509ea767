---------------------------- MODULE DeviceHooks ----------------------------
(***************************************************************************)
(* How the driver gets between the other drivers and the OpenVR server: it *)
(* hooks the server's host interfaces (TrackedDeviceAdded, pose updates)   *)
(* and, for each device that is added, its driver's Activate function.     *)
(*                                                                         *)
(* Older host interfaces are adapters that forward to newer ones, so one   *)
(* call passes several hooks; devices of one class share one Activate      *)
(* function, which MinHook can detour only once; and devices of one class  *)
(* may be hooked as ITrackedDeviceServerDriver 004 or 005, which keep      *)
(* separate tables.  TrackedDeviceAdded, Activate, GetGenericInterface and *)
(* Cleanup are calls on the server's side, each hook function one step;    *)
(* poses come on the devices' own threads, a step per host they pass.      *)
(***************************************************************************)
EXTENDS Naturals, FiniteSets

CONSTANTS Device,     \* driver objects of tracked devices
          Class,      \* addresses of Activate functions
          ClassOf,    \* the one in the vtable of each device
          Host,       \* versions of the server's host interface
          Forward,    \* the host each of them forwards to, or 0
          EntryHost,  \* the host each device's driver calls
          Id,         \* OpenVR ids the server gives to devices
          NoId,       \* k_unTrackedDeviceIndexInvalid
          nullptr,
          MaxAdds     \* bound: calls of TrackedDeviceAdded per device

ASSUME HostAssumption ==
  /\ Host \subseteq Nat \ {0}
  /\ Forward \in [Host -> Host \cup {0}]
  /\ \A h \in Host : Forward[h] # 0 => Forward[h] > h
ASSUME DeviceAssumption ==
  /\ IsFiniteSet(Device)
  /\ ClassOf \in [Device -> Class]
  /\ EntryHost \in [Device -> Host]
ASSUME IdAssumption == Id \subseteq Nat /\ NoId \notin Nat
ASSUME NullAssumption == nullptr \notin Device \X Nat
ASSUME MaxAddsAssumption == MaxAdds \in Nat

VARIABLES up,                 \* Cleanup has not run
          hookedInterfaces, addedHook, poseHook,
          hooks,              \* the tables of Activate hooks, and MinHook's
          firstTrackerActivated,
          handle,             \* _deviceManipulationHandles
          adding, adds,       \* TrackedDeviceAdded calls under way, and made
          known, passed,      \* devices the server knows, and passed a hook
          activation, idOf, expected,
          handleById,         \* _openvrIdDeviceManipulationHandle
          deviceActivated, overrun,
          deviceVersionMap,
          flight              \* each device's pose on its way to the server

interfaceVars == <<hookedInterfaces, addedHook, poseHook>>
addVars == <<firstTrackerActivated, handle, adding, adds, known, passed>>
activateVars == <<activation, idOf, expected, handleById, deviceActivated, overrun>>
poseVars == <<deviceVersionMap, flight>>
vars == <<up, interfaceVars, hooks, addVars, activateVars, poseVars>>

Kind == {"004", "005"}
NoKind == "none"
NoEntry == [useCount |-> 0, enabled |-> FALSE]
Entry == [useCount : Nat, enabled : BOOLEAN]
Tables == [entry : [Kind -> [Class -> Entry]],
           detour : [Class -> Kind \cup {NoKind}]]
NoHandle == [nr |-> 0, kind |-> NoKind, enabled |-> FALSE]

(* hmd, left, right: the ids deviceActivated[3] has room for.              *)
Tracked == 0 .. 2

Init ==
  /\ up = TRUE
  /\ hookedInterfaces = {}
  /\ addedHook = {}
  /\ poseHook = {}
  /\ hooks = [entry |-> [k \in Kind |-> [c \in Class |-> NoEntry]],
              detour |-> [c \in Class |-> NoKind]]
  /\ firstTrackerActivated = FALSE
  /\ handle = [d \in Device |-> NoHandle]
  /\ adding = [d \in Device |-> 0]
  /\ adds = [d \in Device |-> 0]
  /\ known = {}
  /\ passed = {}
  /\ activation = [d \in Device |-> "none"]
  /\ idOf = [d \in Device |-> NoId]
  /\ expected = {}
  /\ handleById = [i \in Id |-> nullptr]
  /\ deviceActivated = [i \in Tracked |-> FALSE]
  /\ overrun = {}
  /\ deviceVersionMap = [i \in Id |-> 0]
  /\ flight = [d \in Device |-> [at |-> 0, seen |-> FALSE, due |-> FALSE,
                                 times |-> 0]]

-----------------------------------------------------------------------------
(* The hooks of Activate *)

(* The entry of Activate address c in table k, and the detour at c, change. *)
SetEntry(hk, k, c, e) ==
  [entry |-> [hk.entry EXCEPT ![k][c] = e], detour |-> hk.detour]
SetDetour(hk, c, k) ==
  [entry |-> hk.entry, detour |-> [hk.detour EXCEPT ![c] = k]]

(* CREATE_MH_HOOK for Activate of class c, and the entry of table k made   *)
(* afterwards.  MinHook installs a detour only where there is none yet,    *)
(* and may fail even then; the entry is made all the same.                 *)
CREATE_MH_HOOK(hk, k, c, minHookOK) ==
  LET enabled == minHookOK /\ hk.detour[c] = NoKind
      new == SetEntry(hk, k, c, [useCount |-> 1, enabled |-> enabled])
  IN IF enabled THEN SetDetour(new, c, k) ELSE new

(* Bug: the detour stays.                                                  *)
KEEP_MH_HOOK(hk, c, enabled) == hk

REMOVE_MH_HOOK(hk, c, enabled) ==
  IF enabled THEN SetDetour(hk, c, NoKind) ELSE hk

(* Bug: a further device of a class is not counted.                        *)
HookCreatedUncounted(hk, k, c, minHookOK) ==
  IF hk.entry[k][c].useCount > 0 THEN hk
  ELSE CREATE_MH_HOOK(hk, k, c, minHookOK)

(* The constructor of ITrackedDeviceServerDriver00kHooks for a device of   *)
(* class c: what it leaves in the tables hk.  A hook that failed is not    *)
(* tried again while its entry is in the table.                            *)
HookCreated(hk, k, c, minHookOK) ==
  LET e == hk.entry[k][c] IN
  IF e.useCount > 0
  THEN SetEntry(hk, k, c, [e EXCEPT !.useCount = @ + 1])
  ELSE CREATE_MH_HOOK(hk, k, c, minHookOK)

(* The destructor; enabled is the copy the hook object took of the entry.  *)
HookDestroyed(hk, k, c, enabled) ==
  LET e == hk.entry[k][c] IN
  IF e.useCount > 1
  THEN SetEntry(hk, k, c, [e EXCEPT !.useCount = @ - 1])
  ELSE SetEntry(REMOVE_MH_HOOK(hk, c, enabled), k, c, NoEntry)

-----------------------------------------------------------------------------
(* The host interfaces *)

(* Bug: the hooked interface is not noted.                                 *)
GetGenericInterfaceForgetting(h) ==
  /\ up
  /\ h \notin hookedInterfaces
  /\ addedHook' \in {addedHook, addedHook \cup {h}}
  /\ poseHook' \in {poseHook, poseHook \cup {h}}
  /\ UNCHANGED <<up, hookedInterfaces, hooks, addVars, activateVars, poseVars>>

(* A driver asks the server for host interface h for the first time; each  *)
(* of its two hooks may fail to install, and is not tried again.           *)
GetGenericInterface(h) ==
  /\ up
  /\ h \notin hookedInterfaces
  /\ hookedInterfaces' = hookedInterfaces \cup {h}
  /\ addedHook' \in {addedHook, addedHook \cup {h}}
  /\ poseHook' \in {poseHook, poseHook \cup {h}}
  /\ UNCHANGED <<up, hooks, addVars, activateVars, poseVars>>

(* The driver of device d calls TrackedDeviceAdded, perhaps not for the    *)
(* first time.                                                             *)
Add(d) ==
  /\ adding[d] = 0
  /\ adds[d] < MaxAdds
  /\ adds' = [adds EXCEPT ![d] = @ + 1]
  /\ adding' = [adding EXCEPT ![d] = EntryHost[d]]
  /\ UNCHANGED <<up, interfaceVars, hooks, firstTrackerActivated, handle, known,
                 passed, activateVars, poseVars>>

(* Bug: the new handle replaces the one the device already has.            *)
hooksTrackedDeviceAddedReplacing(d) ==
  \E minHookOK \in BOOLEAN :
    LET kind == IF firstTrackerActivated THEN "004" ELSE "005"
        created == HookCreated(hooks, kind, ClassOf[d], minHookOK)
        enabled == created.entry[kind][ClassOf[d]].enabled
        old == handle[d]
    IN /\ firstTrackerActivated' = TRUE
       /\ handle' = [handle EXCEPT ![d] = [nr |-> @.nr + 1, kind |-> kind,
                                          enabled |-> enabled]]
       /\ hooks' = IF old = NoHandle THEN created
                   ELSE HookDestroyed(created, old.kind, ClassOf[d], old.enabled)

(* hooksTrackedDeviceAdded(): makes a handle and hooks its device's        *)
(* Activate.  insert() does not replace a handle the device already has;   *)
(* then the new one goes out of scope, and its hook with it.               *)
hooksTrackedDeviceAdded(d) ==
  \E minHookOK \in BOOLEAN :
    LET kind == IF firstTrackerActivated THEN "004" ELSE "005"
        created == HookCreated(hooks, kind, ClassOf[d], minHookOK)
        enabled == created.entry[kind][ClassOf[d]].enabled
    IN /\ firstTrackerActivated' = TRUE
       /\ IF handle[d] = NoHandle
          THEN /\ handle' = [handle EXCEPT
                               ![d] = [nr |-> 1, kind |-> kind,
                                       enabled |-> enabled]]
               /\ hooks' = created
          ELSE /\ hooks' = HookDestroyed(created, kind, ClassOf[d], enabled)
               /\ UNCHANGED handle

(* Bug: the server gets to know the device before its handle is made.      *)
TrackedDeviceAddedLate(d) ==
  /\ adding[d] # 0
  /\ IF Forward[adding[d]] = 0 /\ d \notin known
     THEN /\ passed' = IF adding[d] \in addedHook THEN passed \cup {d} ELSE passed
          /\ known' = known \cup {d}
          /\ UNCHANGED <<hooks, firstTrackerActivated, handle, adding>>
     ELSE /\ IF adding[d] \in addedHook
             THEN hooksTrackedDeviceAdded(d)
             ELSE UNCHANGED <<hooks, firstTrackerActivated, handle>>
          /\ adding' = [adding EXCEPT ![d] = Forward[@]]
          /\ UNCHANGED <<known, passed>>
  /\ UNCHANGED <<up, interfaceVars, adds, activateVars, poseVars>>

(* TrackedDeviceAdded at one host: its hook, if there is one, then the     *)
(* host itself, which forwards the call or lets the server know the device.*)
TrackedDeviceAdded(d) ==
  /\ adding[d] # 0
  /\ IF adding[d] \in addedHook
     THEN hooksTrackedDeviceAdded(d) /\ passed' = passed \cup {d}
     ELSE UNCHANGED <<hooks, firstTrackerActivated, handle, passed>>
  /\ adding' = [adding EXCEPT ![d] = Forward[@]]
  /\ known' = IF adding'[d] = 0 THEN known \cup {d} ELSE known
  /\ UNCHANGED <<up, interfaceVars, adds, activateVars, poseVars>>

(* The Vive driver makes calls with garbage for serial number and class.   *)
(* The hook of host 004 returns at once: the call ends there.              *)
GarbageRefused(d) ==
  /\ adding[d] = 4 /\ adding[d] \in addedHook
  /\ adding' = [adding EXCEPT ![d] = 0]
  /\ UNCHANGED <<up, interfaceVars, hooks, firstTrackerActivated, handle, adds, known,
                 passed, activateVars, poseVars>>

-----------------------------------------------------------------------------
(* Activation *)

(* The server activates a device it knows under an id of its own.  Without *)
(* a detour the device's driver is called at once; the detour looks up the *)
(* Activate address in its own table, and refuses if it is not there.      *)
Activate(d, i) ==
  /\ d \in known
  /\ activation[d] = "none"
  /\ \A e \in Device : idOf[e] # i
  /\ idOf' = [idOf EXCEPT ![d] = i]
  /\ LET k == hooks.detour[ClassOf[d]] IN
     \/ /\ k = NoKind
        /\ activation' = [activation EXCEPT ![d] = "done"]
        /\ UNCHANGED expected
     \/ /\ k # NoKind
        /\ activation' = [activation EXCEPT
                            ![d] = IF hooks.entry[k][ClassOf[d]] = NoEntry
                                   THEN "refused" ELSE "hooked"]
        /\ expected' = expected \cup (passed \cap {d})
  /\ UNCHANGED <<up, interfaceVars, hooks, addVars, handleById, deviceActivated,
                 overrun, poseVars>>

Pointer(d) == <<d, handle[d].nr>>

(* hooksTrackedDeviceActivated(): publishes the handle of the device ...   *)
PublishHandle(d) ==
  /\ activation[d] = "hooked"
  /\ IF handle[d] = NoHandle
     THEN /\ activation' = [activation EXCEPT ![d] = "orig"]
          /\ UNCHANGED handleById
     ELSE /\ activation' = [activation EXCEPT ![d] = "published"]
          /\ handleById' = [handleById EXCEPT ![idOf[d]] = Pointer(d)]
  /\ UNCHANGED <<up, interfaceVars, hooks, addVars, idOf, expected,
                 deviceActivated, overrun, poseVars>>

(* ... and then sets its flag.  deviceActivated has three elements; an id  *)
(* of three is the flag next to it, the others are beyond.                 *)
SetActivated(d) ==
  /\ activation[d] = "published"
  /\ activation' = [activation EXCEPT ![d] = "orig"]
  /\ IF idOf[d] \in Tracked
     THEN /\ deviceActivated' = [deviceActivated EXCEPT ![idOf[d]] = TRUE]
          /\ UNCHANGED <<overrun, firstTrackerActivated>>
     ELSE /\ overrun' = overrun \cup {idOf[d]}
          /\ firstTrackerActivated' = (firstTrackerActivated \/ idOf[d] = 3)
          /\ UNCHANGED deviceActivated
  /\ UNCHANGED <<up, interfaceVars, hooks, handle, adding, adds, known, passed,
                 idOf, expected, handleById, poseVars>>

(* The detour calls the driver's own Activate through its table, whose     *)
(* origFunc was never set if that table did not install the detour.        *)
CallActivate(d) ==
  /\ activation[d] = "orig"
  /\ LET k == hooks.detour[ClassOf[d]] IN
     activation' = [activation EXCEPT
                      ![d] = IF hooks.entry[k][ClassOf[d]].enabled
                             THEN "done" ELSE "crashed"]
  /\ UNCHANGED <<up, interfaceVars, hooks, addVars, idOf, expected, handleById,
                 deviceActivated, overrun, poseVars>>

-----------------------------------------------------------------------------
(* Poses *)

(* An activated device's driver reports a pose to the host it knows.       *)
ReportPose(d) ==
  /\ activation[d] = "done"
  /\ flight[d].at = 0
  /\ flight' = [flight EXCEPT ![d] = [at |-> EntryHost[d], seen |-> FALSE,
                                      due |-> FALSE, times |-> 0]]
  /\ UNCHANGED <<up, interfaceVars, hooks, addVars, activateVars, deviceVersionMap>>

(* Bug: every hooked host on the way compensates the pose.                 *)
hooksTrackedDevicePoseUpdatedAlways(d, h) ==
  LET valid == handleById[idOf[d]] # nullptr IN
  /\ flight' = [flight EXCEPT
                  ![d] = [at |-> Forward[h], seen |-> TRUE,
                          due |-> IF @.seen THEN @.due ELSE valid,
                          times |-> IF valid THEN @.times + 1 ELSE @.times]]
  /\ UNCHANGED deviceVersionMap

(* hooksTrackedDevicePoseUpdated() for a pose of d that passes host h.     *)
hooksTrackedDevicePoseUpdated(d, h) ==
  LET i == idOf[d]
      version == IF deviceVersionMap[i] = 0 THEN h ELSE deviceVersionMap[i]
      valid == handleById[i] # nullptr
  IN /\ deviceVersionMap' = IF valid
                            THEN [deviceVersionMap EXCEPT ![i] = version]
                            ELSE deviceVersionMap
     /\ flight' = [flight EXCEPT
                     ![d] = [at |-> Forward[h], seen |-> TRUE,
                             due |-> IF @.seen THEN @.due ELSE valid,
                             times |-> IF valid /\ version = h
                                       THEN @.times + 1 ELSE @.times]]

TrackedDevicePoseUpdated(d) ==
  /\ flight[d].at # 0
  /\ IF flight[d].at \in poseHook
     THEN hooksTrackedDevicePoseUpdated(d, flight[d].at)
     ELSE /\ flight' = [flight EXCEPT ![d].at = Forward[@]]
          /\ UNCHANGED deviceVersionMap
  /\ UNCHANGED <<up, interfaceVars, hooks, addVars, activateVars>>

-----------------------------------------------------------------------------
(* The server shuts the driver down, not in the middle of an activation or *)
(* of a device being added: all hooks go.                                  *)
Cleanup ==
  /\ up
  /\ \A d \in Device : /\ adding[d] = 0
                       /\ activation[d] \in {"none", "done", "refused"}
  /\ up' = FALSE
  /\ addedHook' = {}
  /\ poseHook' = {}
  /\ hooks' = [entry |-> hooks.entry, detour |-> [c \in Class |-> NoKind]]
  /\ UNCHANGED <<hookedInterfaces, addVars, activateVars, poseVars>>

Next ==
  \/ \E h \in Host : GetGenericInterface(h)
  \/ \E d \in Device :
       \/ Add(d) \/ TrackedDeviceAdded(d) \/ GarbageRefused(d)
       \/ \E i \in Id : Activate(d, i)
       \/ PublishHandle(d) \/ SetActivated(d) \/ CallActivate(d)
       \/ ReportPose(d) \/ TrackedDevicePoseUpdated(d)
  \/ Cleanup

Spec == Init /\ [][Next]_vars

-----------------------------------------------------------------------------
TypeOK ==
  /\ up \in BOOLEAN
  /\ hookedInterfaces \subseteq Host
  /\ addedHook \subseteq hookedInterfaces
  /\ poseHook \subseteq hookedInterfaces
  /\ hooks \in Tables
  /\ firstTrackerActivated \in BOOLEAN
  /\ handle \in [Device -> [nr : Nat, kind : Kind \cup {NoKind},
                            enabled : BOOLEAN]]
  /\ adding \in [Device -> Host \cup {0}]
  /\ adds \in [Device -> 0 .. MaxAdds]
  /\ known \subseteq Device
  /\ passed \subseteq Device
  /\ activation \in [Device -> {"none", "refused", "hooked", "published", "orig",
                                "done", "crashed"}]
  /\ idOf \in [Device -> Id \cup {NoId}]
  /\ expected \subseteq Device
  /\ handleById \in [Id -> {nullptr} \cup (Device \X Nat)]
  /\ deviceActivated \in [Tracked -> BOOLEAN]
  /\ overrun \subseteq Id \ Tracked
  /\ deviceVersionMap \in [Id -> Host \cup {0}]
  /\ flight \in [Device -> [at : Host \cup {0}, seen : BOOLEAN, due : BOOLEAN,
                            times : Nat]]

(* No activation of a device fails or crashes because of the hooks: a      *)
(* detour's own table always has the entry, and the original function, of  *)
(* every Activate address it sits on -- although the two tables compete    *)
(* for one detour, and handles that are never used come and go.            *)
HooksAreSound ==
  /\ \A c \in Class : LET k == hooks.detour[c] IN
       k # NoKind => hooks.entry[k][c] # NoEntry /\ hooks.entry[k][c].enabled
  /\ \A d \in Device : activation[d] \notin {"refused", "crashed"}

(* The use count of a table's entry is the number of handles whose hook    *)
(* object refers to it.                                                    *)
UseCountIsExact ==
  \A k \in Kind, c \in Class :
    hooks.entry[k][c].useCount
      = Cardinality({d \in Device : handle[d].kind = k /\ ClassOf[d] = c})

(* A detour, once in place, stays until the driver is shut down: the end   *)
(* of a superfluous handle does not unhook the device it was made for.     *)
HooksStay ==
  [][\A c \in Class :
       hooks.detour[c] # NoKind /\ up' => hooks'.detour[c] = hooks.detour[c]]_vars

(* RunFrame and the pose hook find what they look for: a device whose flag *)
(* is set has a handle in the table of ids, and what is in that table is   *)
(* the living handle of the device with that id.                           *)
PublishedIsAlive ==
  /\ \A i \in Tracked \cap Id : deviceActivated[i] => handleById[i] # nullptr
  /\ \A i \in Id : handleById[i] # nullptr =>
       \E d \in Device :
         handle[d] # NoHandle /\ handleById[i] = Pointer(d) /\ idOf[d] = i

(* A device that was added through a hooked host, and whose Activate was   *)
(* hooked when the server called it, has its handle published when its     *)
(* driver gets to run: no activation is missed.                            *)
ActivationIsSeen ==
  \A d \in expected :
    activation[d] \in {"orig", "done"} => handleById[idOf[d]] = Pointer(d)

(* However many hooked hosts a pose passes, and whichever of them were     *)
(* hooked when, the pose of a published device is compensated exactly      *)
(* once, and no other pose is compensated twice.                           *)
CompensatedOnce ==
  \A d \in Device :
    /\ flight[d].times <= 1
    /\ up /\ flight[d].at = 0 /\ flight[d].due => flight[d].times = 1
=============================================================================
