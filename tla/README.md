# A verification project for OpenVR-MotionCompensation

This directory holds TLA+ specifications of the driver in `src/`, the TLC
configurations that check them on small instances, and proofs that TLAPS checks
for every instance. The modules are translated from the code; the comments in the
code are compared with it (see *Findings*), never used instead of it.

1. [The system](#1-the-system)
2. [Plan](#2-plan)
3. [The modules](#3-the-modules)
4. [What is checked](#4-what-is-checked)
5. [What is proved](#5-what-is-proved)
6. [Findings](#6-findings)
7. [What is not modelled, and the assumptions made](#7-what-is-not-modelled-and-the-assumptions-made)

## 1. The system

The project started as a driver that cancels the motion of a platform (the
reference-tracker flow, steered by a dashboard overlay over shared memory) and
became a driver that moves the hands of a VR user in other ways ("go-go", delay,
saber, gamepad), steered by a Processing sketch over UDP. Both flows are in the
source; the frame loop of today runs the second one.

```
 GUIController.pde --UDP 13251-> MyUDPClient (receiver thread)
                                     | lastMessage, messageAvail (no lock)
                                     v
 gamepad --XInput--> ServerDriver::RunFrame (server's main thread)
                          | setMotionCompensationMode, setRefPos, set... (slots 0 and 1)
                          v
 other drivers --hooked TrackedDeviceAdded/Activate--> handles, table of ids
 other drivers --hooked TrackedDevicePoseUpdated (their threads)--> handlePoseUpdate
                          | applyGoGo... rewrites the pose
                          v
                      OpenVR server

 client_overlay --shared-memory queues--> IPCShmCommunicator   (start commented out)
                                             v
                      MotionCompensationManager's reference-tracker flow
```

### Components

Paths are relative to `src/driver_vrmotioncompensation/` unless they start with
`client_overlay`, `lib_vrmotioncompensation` or `GUIController`.

**UDP link** (`MyUDPManager.h`, `MyUDPManager.cpp`).
*State:* the socket, `recv_buffer`, `lastMessage`, `messageAvail`.
*Operations:* the receiver thread (open, bind, `handle_receive`, `wait`), and
`getLastMessage`, called once a frame.
*Hard:* two threads share a string and a flag without a lock; datagrams are lost; a
receive error ends the receiver for good; a taken port ends the process.
*Correct if* no stored message is lost, none goes back in time, none is handed out
without bound, and what is stored is delivered while the server lives.

**GUI** (`GUIController/GUIController.pde`).
*State:* the selected interaction, the sliders.
*Operations:* select, move, three command buttons (one datagram each), and `draw`,
which sends type and sliders every 50 ms.
*Hard:* a button is a single datagram into a mailbox that the next periodic message
overwrites.

**Frame loop** (`src/driver/ServerDriver.cpp`, `RunFrame`).
*State:* `deviceActivated`, the last message, the gamepad.
*Operations:* refresh the gamepad, poll the link, put the HMD into tracking mode, a
block for the left controller, a block for the right one, a gamepad block.
*Hard:* the blocks run while devices are activated and report poses on other
threads; the left device's block sets the left device's *mode*, which uses slot 1,
and writes *slot 0*, which the right device uses, from the keys of the right hand.
*Correct if* what reaches one hand's slot by four routes is of that hand, the hands
agree on interaction and sliders, and a selection takes effect.

**Device manipulation handles** (`src/devicemanipulation/DeviceManipulationHandle.*`).
*State:* `m_deviceMode`, `isGoGoActive`, the hooks of the device.
*Operations:* `handlePoseUpdate` (a dispatch on the mode), setters.

**Interface and device hooks** (`src/hooks/*`, the `hooks...` callbacks of
`ServerDriver.cpp`).
*State:* `_hooks`, one table of Activate hooks per interface version, MinHook's own
table, `_deviceManipulationHandles`, `_openvrIdDeviceManipulationHandle`,
`_deviceVersionMap`, `deviceActivated`.
*Operations:* `_getGenericInterface`, the hooked `TrackedDeviceAdded`,
`TrackedDevicePoseUpdated` and `Activate`, constructors and destructors of hook
objects, `Cleanup`.
*Hard:* one call passes several hooked hosts; devices of a class share one Activate
function, and MinHook detours an address once; a device can be added again; a hook
may fail to install; poses come on other threads.
*Correct if* a detour always finds an entry with an original function, use counts
are exact, no live hook is removed, published handles are alive, no activation is
missed, and a pose is compensated exactly once.

**Pose functions** (`MotionCompensationManager.cpp`, `applyGoGo...`, `applyDelay`,
`applySaber`, `applyGamepad...`).
*State:* per slot the last position, the reference, CD ratio, offsets, filters; the
HMD position.
*Hard:* several doubles read by a pose thread while `RunFrame` writes them.

**Reference-tracker flow** (the rest of `MotionCompensationManager`).
*State:* zero pose, reference pose, their validity, a warm-up counter, velocities,
three spinlocks.
*Hard:* fields written by the request thread between a pose's test and its use, a
counter that is not reset, ids that a handler overwrites and then compares, modes that
the frame loop writes as well.
*Correct if* an answered request is in effect, the ids name devices in their roles, and
the reference ends up with the tracker that was chosen last.

**Debug logger** (`src/devicemanipulation/Debugger.*`).
*State:* a table of 50 000 rows, flags, an index, the file.
*Operations:* start, stop, write; the pose threads' `AddDebugData` and `CountUp`.
*Hard:* parts of two threads paired in a row by flags that no lock guards and a restart
of the log does not clear; stops that come twice or when the table is full.
*Correct if* the index stays in the table, what the flags order in a row is of one log, a
stop saves the last log, and neither thread waits for ever.

**Shared-memory IPC** (`src/com/shm/driver_ipc_shm.cpp`,
`lib_vrmotioncompensation/src/vrmotioncompensation.cpp`).
*State:* a queue per direction, the client table, promises by message id.
*Operations:* connect, disconnect, ping, requests, replies.
*Hard:* bounded queues, lost replies, random ids, crashes and restarts of either side, a
client that waits for ever.
*Correct if* a call returns the reply to itself, a connected client is known, nothing of
a client remains when it disconnects, and calls end.

**Overlay: tab, controller and page** (`client_overlay/src/tabcontrollers`,
`overlaycontroller.cpp`, `main.cpp`, `DeviceManipulationPage.qml`).
*State:* the devices found, the page's lists, check box and status, whether compensation
is on and by which devices, the settings file.
*Operations:* start, the event loop's refresh, Apply, the toggle by shortcut, settings.
*Hard:* two requests in a row and then the record of them; devices named by ids on the
page, by serials in the record, and connecting at any time; a page told of changes by
events; the overlay killed, SteamVR restarted.
*Correct if* what the tab believes and saves is what the driver does, switching off
restores the devices in use, and the page follows the driver.

**Overlay: global shortcuts** (`QGlobalShortcut`, and the tab's part of it).
*State:* two shortcuts, their hot keys in Windows, what the settings keep.
*Hard:* numbers that keys may share, saving while loading.
*Correct if* no hot key is held that no shortcut is set to, and a start restores what
was saved.

**Watchdog, logging, installer, third party**: no state worth a model.

`PROJECT.json` lists the components with their status, and under `hazards`, line by
line, what is hard to test in this code and which property covers it.

## 2. Plan

Modules in the order of their importance to the running system:

1. `Mailbox` and `MyUDPManager`: the link, refinement and proofs. **Done.**
2. `ServerDriver`: GUI, frame loop, handles, slots, gamepad, composed with the link
   by way of `Mailbox`. **Done**, with proofs.
3. `DeviceHooks`: hosts, device hooks, handles, activation, the way of a pose.
   **Done**, with proofs.
4. `MotionCompensation`: the requests of the overlay against the poses of the
   trackers. **Done**, with proofs.
5. `IpcShm`: clients and server with bounded queues, crashes and restarts. **Done**, with
   proofs.
6. `Shortcuts` and `OverlayTab`: the global shortcuts; the tab that uses them, composed
   with 4. **Done**, with proofs.
7. `DebugLogger`: the two pose threads and the overlay's button. **Done**, with proofs.
8. `PoseMath` and `CompensatedPose`: the quaternions, and 4 with the poses themselves.
   **Done**; the algebra is proved, and that the composition does what 4 says.
9. `HandPose`: what each interaction makes of a hand's pose. **Done**, with proofs.

What would come next: for 5, `RemoteCall`, the abstract specification *a call is open,
answered once, or abandoned*, as a refinement, for which the invariant of
`IpcShm_proofs` is the ground; one slot's doubles read by a pose thread while `RunFrame`'s setters
write them; the filters.

## 3. The modules

| module | what it is | code |
|---|---|---|
| `Mailbox` | what the link promises: a slot that is overwritten, and read at least once before it stops being pending | `MyUDPManager.h/.cpp` |
| `MyUDPManager` | the link, one memory access at a time; `ImplementsMailbox` is `Mailbox!Spec` under the mapping `box`, `pending` | same |
| `MyUDPManager_proofs` | proofs | |
| `ServerDriver` | GUI + `Mailbox` + `RunFrame` + `handlePoseUpdate` | `ServerDriver.cpp`, `DeviceManipulationHandle.cpp`, `MyGamepad.cpp`, `GUIController.pde` |
| `ServerDriver_proofs` | proofs | |
| `DeviceHooks` | hooks of hosts and devices, handles, poses through hosts | `hooks/*`, `ServerDriver.cpp` |
| `DeviceHooks_proofs` | proofs | |
| `MotionCompensation` | the request handlers' effect on manager and modes, the frames that write modes too, and the tracker's poses | `driver_ipc_shm.cpp`, `MotionCompensationManager.cpp`, `DeviceManipulationHandle.cpp`, `ServerDriver.cpp` |
| `MotionCompensation_proofs` | proofs | |
| `CompensatedPose` | `MotionCompensation` with the poses, the platform and the headset's thread | `MotionCompensationManager.cpp` |
| `PoseMath` | vectors, quaternions, the two spaces, the compensation as a formula | `openvr_math.h`, `MotionCompensationManager.cpp` |
| `HandPose` | the apply functions of the interactions | `MotionCompensationManager.cpp`, `.h` |
| `CompensatedPose_proofs` | proofs about the three modules above | |
| `DebugLogger`, `DebugLogger_proofs` | the debug log; proofs | `Debugger.cpp`, `MotionCompensationManager.cpp`, `DeviceManipulationTabController.cpp` |
| `Shortcuts` | the shortcuts, their hot keys and settings | `qglobalshortcut.cpp`, `DeviceManipulationTabController.cpp` |
| `OverlayTab` | tab, page and settings, composed with the driver's handlers; made of the actions of `Shortcuts` | `DeviceManipulationTabController.cpp`, `DeviceManipulationPage.qml`, `overlaycontroller.cpp`, `main.cpp` |
| `OverlayTab_proofs` | proofs about `Shortcuts` and about the tab | |
| `IpcShm` | client and server over message queues | `driver_ipc_shm.cpp`, `vrmotioncompensation.cpp`, `ipc_protocol.h` |
| `IpcShm_proofs` | proofs | |
| `MC...` | instances for TLC | |

Definitions whose comment starts with *Bug:* are not part of any specification. Each is
a definition of the model as a plausible mistake in the code would have it; put in
place of that definition it makes the property named with it in `PROJECT.json`
(`mutants`) fail.

### MyUDPManager

| action | code |
|---|---|
| `Arrive` | the network; a datagram may be dropped |
| `Open`, `OpenFails` | `Receiver()`, `socket.bind` |
| `BeginAssign`, `EndAssign`, `SetFlag` | `handle_receive`: `lastMessage = ...` in two steps, then `messageAvail = true` and `wait()` |
| `ReceiveError` | the early return of `handle_receive` |
| `CheckFlag`, `ClearFlag`, `BeginCopy`, `ReturnMessage` | `getLastMessage`: test, lower the flag, copy in two steps |

A copy that overlaps an assignment is a data race; it yields `Torn`. What `RunFrame`
then does with it is open: `json::parse` throws (`ServerDriver.cpp:208`), which ends the
server and with it both threads (`reader = "thrown"`), or the string is accepted by
chance and the frames go on. `seen` and
`copies` are history variables: the last whole message handed out and how often.
Under the mapping, the mailbox is *pending* while the flag is up, while the receiver
is on its way to raise it, and while the reader has lowered it and still copies.
Apart from the string, the accesses are taken one after another: `messageAvail` is a
plain `bool`, and that a thread sees the other's writes, in their order, is assumed of
compiler and processor (*sequential consistency*); all properties of the link rest on it.

### ServerDriver

The link appears as its abstraction: `Link == INSTANCE Mailbox`. `RunFrame` is four
actions (`BeginFrame`, `LeftBlock`, `RightBlock`, `GamepadBlock`), because poses and
activations can come between them; the setters within one block for one controller
are one step. `HandleMessage(m, d, s, h)` is what both blocks do with a message: the
code writes it out twice, once with `d` the left device, slot 0 and the right hand's
keys, once the other way round. `FrameThrows` is `json::parse` on a torn message.
`Activate` and `HandlePoseUpdate` are the hooked callbacks, on other threads, at any
point. A message is its kind, interaction and slider position; a pose is a device and
a number. The `hand` in `params` and `pad` is a history of whose keys and whose side
of the pad were written.

### DeviceHooks

Each hook function is one action. `TrackedDeviceAdded(d)` is the call at one host:
its hook, if any, then the host, which forwards to another or makes the server know
the device. `GarbageRefused` is the guard of host 004's hook (lines 47-53) against the
garbage that the Vive driver passes: the call ends without being forwarded. `Activate`, `PublishHandle`, `SetActivated`, `CallActivate` are the steps
of the detour of Activate, between which poses may arrive. `hooks.entry` holds the
two static tables of Activate hooks (interface 004 and 005), `hooks.detour` MinHook's
own view: one detour per address. `HookCreated` and `HookDestroyed` are the
constructor and destructor of a hook object. A pose in flight remembers where it is
(`at`), whether it passed a hook (`seen`), whether its device was published then
(`due`) and how often it was compensated (`times`).

### MotionCompensation

| action | code |
|---|---|
| `Receive(r)` | a request is taken from the queue; `Assignments(r)` is the sequence of assignments its handler goes on to make |
| `Assign` | one of them: a field of the manager or the mode of a device |
| `Reply` | the end of the handler |
| `RunFrame(d)` | the assignments to a device's mode in a frame: the headset's (device 0) each time, those of devices 1 and 2 as the GUI asks |
| `HandlePoseUpdate(d)` | the branch for the ReferenceTracker mode: looks at `isZeroPoseValid` |
| `SetZeroPose` | `setZeroPose`, under its lock |
| `UpdateRefPosition`, `UpdateRefRotation` | the two sections of `updateRefPose` under `_RefLock` |
| `ReadCounter`, `UpdateRefValidity` | the frame counter, read and written back with no lock |

The frames of the server and the requests of the overlay write the same modes, on two
threads, and neither knows of the other. A frame puts the headset into `HMDTracking`
whatever mode it is in (`ServerDriver.cpp:167-170`); a message of the GUI gives devices 1
and 2 a mode of an interaction, or Default (lines 182-261), here all one: `Hand`. So a
headset that a request has put into `MotionCompensated` is in that mode until the next
frame only (with the comment at `driver_ipc_shm.cpp:234` unfulfilled), and a tracker with
id 1 or 2 while the GUI is silent; a tracker with another id keeps its mode.
`Holds(d, m)` says that nothing but such a frame has taken device `d` out of mode `m`, and
the properties are stated with it: for a device other than 0, 1 and 2 it is
`deviceMode[d] = m`.

Request handlers run one at a time, on the IPC thread; the ids they compare are
written by nobody else, so that the sequence can be computed when a request is
received. `ChangeMCdevice` and `ChangeRTdevice` are the two blocks of the handler for a
request while compensation is on. The reference is the id of the device it was
computed from. `frames` is a history: how many updates the present tracker has made.

### IpcShm

| action | code |
|---|---|
| `Start`, `CreateQueue`, `Stop`, `Shutdown`, `ServerDies` | `init`, the beginning and the end of the server's `_ipcThreadFunc`, `shutdown`; the process |
| `Handle` | one request: `ClientConnect`, `ClientDisconnect`, `Ping`, or `DeviceRequest` for the six that go to the driver |
| `SendReply` | the blocking send in `sendReply` |
| `Connect`, `Modal`, `NonModal` | the beginning of a call: `connect`; `disconnect`, `ping` and requests; a ping or request that does not wait |
| `Send`, `Return`, `ReturnBroken` | the blocking send of the request; `future.get` returning, or throwing because the promise could not be entered |
| `ReceiverStarts`, `Receive`, `ReceiverStops` | the client's `_ipcThreadFunc`, and `disconnect` waiting for it |
| `ClientDies` | the process |

`epoch` numbers the server queues: a new server replaces the old one's, and a client
attached to an old one sends into nothing. `from` and `serial` in a message are
history: which connection sent it, in which call.

### CompensatedPose and PoseMath

Each action of `MotionCompensation` appears with what it does to the poses beside it
(`HandleRequest` and `FrameStep` do nothing to them):
`setZeroPose`, `UpdateRefPos` and `UpdateRefRot` are `SetZeroPose`, `UpdateRefPosition`
and `UpdateRefRotation` with the arithmetic. New are the platform, which moves between
any two steps, and the headset's thread: `HeadsetPose` is the test at the head of
`applyMotionCompensation`, and `applyMotionCompensation` the rest, under both locks.
The arithmetic is in `PoseMath`. Its quaternions are integers of any length, each
standing for the rotation of its direction, which makes rotations exact; `SameRotation`
compares them. `AtZero(h)` says, without the code's formulas, where a pose seen from
the platform as it is would have been on the platform of the zero point.

### HandPose

One operator per interaction, with the members of the slot as its arguments: `applyGoGo`,
`Delayed` (`applyGoGoDelay`), `SaberRotation` (`applyGoGoSaber`), `AccelStretched`
(`applyGoGoAccel`), `applyGamepadBoxing`, `applyGamepadSaber`. Where the code divides,
the operator gives the result times the divisor. Which slot and which parameters a pose
meets is `ServerDriver`'s part.

### DebugLogger

| action | code |
|---|---|
| `SetMode` | the driver's mode, which `StartDebugData` and the pose functions look at |
| `StartLogging`, `StopLogging`, `WriteFile` | the tab's `setDebugMode`, and in the driver `StartDebugData` and the two halves of `StopDebugData`; the file may not open |
| `OverlayRestarts` | the overlay forgets that the log runs |
| `updateRefPose` | the tracker's thread: `BeginRow` is the test, `CountUp` and the raw motion, `AddReference` the test at the end, the reference and the flag |
| `applyMotionCompensation` | the headset's thread: test, poses, test, compensated velocities, flag |

The flags of a test are read one after the other, as nothing locks them together. (The
tracker's thread alone writes `Ref`, so that reading it with `running` is no
restriction.) A cell holds the number of the log it was filled for; the columns that are
filled together are one: the time; the tracker's raw motion; the reference; `hmdPose`, the
headset's pose as it came and compensated, with its raw velocities and accelerations
(`MotionCompensationManager.cpp:373-383`); `hmdMCVel`, its compensated velocities and
accelerations (lines 428-435). `lost` is a history: the present log met a file that does
not open.

### Shortcuts and OverlayTab

| action | code |
|---|---|
| `LoadShortcuts`, `newKey`, `removeKey`, `saveMotionCompensationShortcuts` | the functions of these names, with `setShortcut` and `unsetShortcut` |
| `Start`, `End`, `RestartSteamVR` | `initStage1`, `initStage2`; the process; the driver's state lost |
| `Connect`, `Dashboard` | OpenVR gives the next id; the dashboard opens or closes |
| `eventLoopTick` | `updateDeviceInfo` and `SearchDevices`, with the page's handlers of their events |
| `SelectTracker`, `CheckBox`, `applySettings`, `Applied` | the page; the first request, then what follows the second: the record and the settings |
| `Press`, `ChangeShortcut` | a hot key with `toggleMotionCompensationMode`; the page's shortcut buttons |

What a request does in the driver is not written again: `Driver == INSTANCE
MotionCompensation`, and `applySettings_ovrid` gives each of the driver's fields what
the last of `Driver!Assignments` to it says (`FieldAfter`, `ModeAfter`). Of the page, the
model keeps the trackers listed and the one selected; a combo box lists them in the order
of their ids, which the set has of itself. A call to the driver waits for its reply, so that it is one step here.

## 4. What is checked

| run | instance | shows |
|---|---|---|
| `udp_link` | 5 datagrams, a socket buffer of 2 | `NoLostUpdate`, `NeverGoesBack`, `BoundedRedelivery`, the refinement of `Mailbox`, and under fairness `StoredIsDelivered`, `QueuedIsStored` |
| `frame_loop` | two interactions, two slider positions, one command, a pose per device | `HandsDoNotMix`, `HandsAgree` with every interleaving of messages, blocks, activations and poses, and `SelectionTakesEffect` under fairness |
| `hooks` | two devices of one class, one of which calls the older of two hosts, added twice, any hook may fail to install | all properties of `DeviceHooks` |
| `compensation` | a headset 0, trackers 1 and 3, frames that write the modes of the first two, requests of every kind but those that assign nothing here, a warm-up of 0 | `RequestTakesEffect`, `IdsNameRoles`, and under fairness `TrackerTakesOver` |
| `ipc` | two clients that die at any point, a server that starts twice, queues of one message, one message id | `AnswersOwnCall`, `ConnectedIsKnown`, and under fairness `CallEnds` |
| `ipc_posts` | one client that also posts pings and requests, one of an older version, queues of two, two message ids | `NothingLeftBehind`, `ReceiverHasQueue` |
| `still_platform` | a headset 0 and a tracker 3 on a platform in two poses, a quarter turn and a third of a turn about different axes with shifts; a turned head, a turned and shifted world-from-driver transform, no warm-up; enabling, disabling, resetting | under fairness `StillPlatformIsCancelled`: the motion of the platform is taken out |
| `logger` | a table of three rows, two logs, starts, stops and restarts at any point, a file that may not open | `RowsOfOneLog`, `StopSaves`, and under fairness `FillsUp` |
| `overlay` | a headset, two trackers, one of them with an unreadable serial, a base station, two keys; restarts at any point | `OnIsWhatDriverDoes`, `ToggleOffRestores`, `NoStaleHotKey`, `RestartRestores`, and under fairness `PageFollows` |
| `compensation_warm_up`, `compensation_disabled`, `ipc_refused` | small ones | the findings below |

**Why the bounds suffice.** Five datagrams let three be in the buffer and slot while
two are in the reader's hands, and the bound of `BoundedRedelivery` (3) is reached
with three. In `frame_loop`, two interactions and two slider positions are what it
takes for hands to disagree, and one pose per device makes every recorded position
distinguishable from none; the properties compare hands, so that more values of each
add nothing (the proofs do not depend on them). Slider values are symmetric.
In `hooks`, two hosts are the shortest chain; two calls of `TrackedDeviceAdded` make
a superfluous handle; two devices of a class share a detour; ids 1 and 3 are one that
`deviceActivated` has room for and one that it has not. The proofs cover every chain
of hosts, every number of devices and calls.
In `compensation`, two trackers are what it takes to switch, one that the GUI may take
for a hand and one that it does not know; a warm-up of 0 has two of the cases of 100 (at
and past the limit: the counter starts at the limit and one frame is too few), and
`compensation_warm_up`, with a warm-up of 2, the third (below); requests never run out,
and a request can come when any number of earlier ones have left poses under way. Filter
properties and offsets are assigned to fields that nothing here reads, and are left out
of the run's requests with `SetProperties` and `SetOffsets`; a request that assigns
nothing is there in `GetDeviceInfo`. All requests name the headset 0, as the overlay's
do, so that `ChangeMCdevice` never has anything to change.
In `ipc`, queues of one message make every send block; a single message id is the worst
case of random ids: any two calls may collide. Two starts of the server are a restart.
A client connects once in the passing runs and twice in `ipc_refused`: a second
connection has a queue of a new name and finds promises, id and thread as a first one
does. In `ipc_posts` ids in flight are not drawn again (`DrawsFresh`), which 32 random
bits make all but certain: with it, that a promise is left behind cannot be blamed on
chance.
In `still_platform`, two poses are what it takes to move, and quarter and third turns
about different axes do not commute, so that a product in the wrong order, a missing
conjugate or a missing zero point shows; all their coordinates are integers. A warm-up
of 0 still has a frame that is too few. What the formulas do with other rotations is
proved.
In `logger` (3.9 million states), three rows are the first, which may mix two logs, one in
between and the last, where the counter stops. Two logs are what it takes to mix.
In `overlay`, two trackers make a selection, the unreadable one a serial that is not its
own, and a base station ids with a gap in the list. Two keys of different numbers set
both shortcuts; shared numbers are covered by the proofs.

**Deadlock.** `MotionCompensation`, `CompensatedPose` and `DebugLogger` are checked for
deadlock and have none. The other runs say `CHECK_DEADLOCK FALSE`: the bounded inputs run out, the receiver may stop and
the server may be gone, all of which the system really does.

**Fairness.**
- `udp_link`: weak fairness of the receiver's handler (the event loop runs what has
  been delivered) and of `getLastMessage` (the server calls `RunFrame` as long as it
  runs). No fairness on arrivals. A torn copy may end the server; `StoredIsDelivered` and
  `QueuedIsStored` say *unless it has*.
- `frame_loop`: weak fairness of `SendParams` (the sketch's `draw` loop; not all of
  its datagrams are lost on the loopback) and of `RunFrame`; strong fairness of a
  frame finding the message: a poll may come before the flag is raised, but not for
  ever. `StoredIsDelivered` of the link, from weak fairness alone, is what justifies
  the strong fairness here. Nobody has to press, activate or report.
- `compensation`: weak fairness of the handler's steps, and of each device's pose thread:
  a pose that has begun is finished, and a tracker reports poses (some hundred times a
  second). Nobody has to make requests, and frames need not come nor cease:
  `TrackerTakesOver` is about the behaviours in which the tracker is in the end left in
  its mode, as one with an id above 2 always is.
- `ipc`: weak fairness of the threads; strong fairness of a client's send, because
  another sender can fill the one free place, but the queue's condition variable does
  not starve one sender for ever. Nobody has to call, die, start or stop.

- `still_platform`: that of `compensation`, and a headset that goes on reporting poses,
  which are then compensated. The platform need not move, nor stand still: the property
  is about the behaviours in which it does, and which leave the tracker its mode.
- `logger`: weak fairness of each pose thread (devices go on reporting poses). Nobody
  has to start or stop.
- `overlay`: weak fairness of `Applied` (calls that were begun are answered, `CallEnds`)
  and strong fairness of `eventLoopTick`: the timer's event waits in Qt's queue until
  the call or the click before it is done. Nobody has to click or to open the
  dashboard.

`CallEnds` says *unless the client dies or the server stops or dies*: there are no
timeouts, and a client whose server is gone does wait for ever. It holds for modal
calls; a client that posts silent pings without end and dies with its queue full does
block the server in `sendReply`, and with it every other client. `SelectionTakesEffect` says *while the server is alive*: a torn message ends it.

## 5. What is proved

TLAPS checks these for all values of the constants.

**`MyUDPManager_proofs`**: `TypeCorrect`, `UpdatesNotLost`, `ReadsInOrder`,
`RedeliveryBounded`, `Refinement`. The inductive invariant adds that the numbers in
socket, buffer and slot are ordered, what is behind the reader's position (a message
that is not pending has been seen), and for redelivery how many more times the
message in the slot may be returned, given where flag, receiver and reader are: at
most once for each of the three ways of being pending. The refinement maps each step
to `Store`, `Read` or a stutter.

**`ServerDriver_proofs`**: `TypeCorrect` (no device is ever in a mode that is not one),
`HandsKeptApart`, `HandsInAgreement`. `HandsDoNotMix` needs that a device that was not
activated is in no mode and its slot unset, since activation can come between the two
blocks. `HandsAgree` holds only between messages; within one, the invariant
`LeftIsAhead` says by what the left device is ahead of the right one, and the lemma
`ModePairs` that each interaction gives counterparts.

**`DeviceHooks_proofs`**: `TypeCorrect`, `HooksSound`, `UseCountsExact`,
`HandlesAlive`, `ActivationsSeen`, `PosesCompensatedOnce`, `DetoursStayInPlace`:
every property of the module. The parts of the invariant:
- `SoundTables`: an enabled entry is in use, a detour has an enabled entry in its own
  table. The lemmas `CreatedTables` and `SuperfluousHook` show that making a hook
  object, and making and destroying one, keep it and every detour.
- `IdsInv`: ids are given once. Without it one device's activation could overwrite
  another's entry in the table of ids.
- `HandlesInv`: a device that passed a hook has a handle, which is never replaced.
- `PosesInv`: for a pose that was not compensated, the version that does it is
  *ahead* on the chain of hosts; for one that was, it is behind. `Ahead(a, v)` is
  stated without recursion (v is in every set that holds a and what its members other
  than v forward to), which makes it provable without induction.

**`MotionCompensation_proofs`**: `TypeCorrect`, `RequestsTakeEffect`, `IdsKeepRoles`, for
one headset (`OneHeadset`: requests name one device to be compensated, and another one
as its tracker; without it `IdsNameRoles` fails, see *A second headset* below), with frames
that write modes at any point. A handler
is a sequence of assignments; the invariant `Enabling(r)` says of what remains of it that
each goal of the request is reached or still to be assigned, and that nothing that
remains undoes a goal; `Disabling` and `Others` likewise. It is about the set of the
remaining assignments (`Elements`), for which a few lemmas on sequences suffice. That
the tracker to be put back is not the headset follows from `Roles`, which is why
`IdsNameRoles` and `RequestTakesEffect` need each other.

**`OverlayTab_proofs`**: about `Shortcuts`, `TypeCorrect`, `HotKeysAreSet`,
`StartRestores`, for any keys and any numbers, shared ones too: the invariant is the two
properties themselves, and `LoadOne` shows each of the two steps of loading to keep it.
The tab is made of the actions of `Shortcuts`, beside what they do to its own state, so
that its behaviours are behaviours of `Shortcuts` (the lemma `ShortcutsWithin`, true by
this construction), and `TabHotKeysAreSet` and `TabStartRestores` follow for the whole
overlay.

About the tab, for any devices: `TabTypeCorrect`, `OnMeansCompensating`,
`TogglingOffRestores`, `OverlayAsksForOneHeadset`. The invariant `TabInv` is

- `Connected`: a device has one id; with `IdsFit`, there are ids for all;
- `GoodTab`: what the page lists was found, a list that is not empty has a selection in
  it, and no base station is found;
- `InUse`: a driver that compensates has stored a tracker and a device whose serial is
  the headset's;
- `Sent`: so does a request that was sent and is not recorded yet, and the driver's
  state is already that of the request;
- `OnIsWhatDriverDoes` itself: a request is recorded when the driver has it, and only
  the tab makes requests.

`Requested` sums up what a request makes of the driver. It rests on `SwitchingOff`,
`SwitchingOn`, `ChangingDevices`, and those on a few lemmas about the last of some
assignments to a field (`AfterConcat`, `AfterParts`).

`OnMeansCompensating` needs no premise: it is about serials, which is what the tab
remembers. `TogglingOffRestores` is about ids, and needs that of headset and trackers no
two have the same serial (`SerialsDistinct`: at most one of them is unreadable). It is
needed: with two trackers whose serials cannot be read, TLC finds the shortcut putting
back the one that is not in use (`WithSerial` takes the last).
`OverlayAsksForOneHeadset`: under the same premise every request of the tab names the
headset and another device, which is what `MotionCompensation_proofs` assumes of the
overlay with `OneHeadset`. The overlay is the only client in the repository that makes
such requests.

**`IpcShm_proofs`**: `TypeCorrect`, `CallsAnswered`, `KnownClients`, `QueuesEmptied`,
`ReceiversHaveQueues`: every safety property of the module, for any clients, message
ids, queue size and number of servers and connections. `TypeCorrect` has no premise. The
others have `IdsDistinct`: no id is drawn again while a message of its client has it
(`DrawsFresh`), or ids are drawn for modal calls only, of which a client has one at a
time (requests that want no answer have the id 0, which then may not be drawn). Both
passing runs are of this kind. Without it two of them are false, as TLC finds: a
disconnection that draws the id of a posted ping cannot enter its promise and throws, but
is sent all the same, so that the server forgets a client that takes itself for
connected; and the reply to a request that was posted with id 0 is taken for that to a
call that drew 0. The code draws 32 random bits and does not look whether the id is in
its map.

The invariant follows what is *under way* of a client's present connection: its requests
in the server's queue (`Asked`), the reply the server is about to send (`Answering`), its
replies (`Answered`). Its parts:

- `CallIsLast`: nothing follows the modal call, since the client sends nothing while it
  waits and every queue is first in, first out. Hence its reply is the last one, and
  `NothingLeftBehind`.
- `OwnAnswer`: what is under way with the id of the call is the call or its reply.
- `Known`, `Routed`: under the server it is attached to, a client is in the table from
  the answer to its connection to that of its disconnection, and no message carries an id
  that is another's or that a later client will be given. A server that was replaced
  leaves nothing in the queue of the new one.
- `PostsAnswered`: a promise that nobody waits for has its ping under way.
- `Quiet`: where ids may be drawn again, none that may be drawn is under way when a call
  begins.
- `NewQueuesUnused`: nothing is under way of connections that are still to be made.
- `RepliesRouted`: only an accepted connection is answered, which is also what
  `ReceiverHasQueue` rests on (see the third finding).

**`DebugLogger_proofs`**: `TypeCorrect`, `RowsAreOfOneLog`, `StopsSave`, for a table of any
size. The invariant says that rows below the counter are filled for the present log,
what the flags and the two threads' places say of the row at hand, unless it is the
first (`RowAtHand`), and that the headset's thread is not on its way to set its flag
when the tracker's counts up (`TakeTurns`).

**`CompensatedPose_proofs`**: of `PoseMath`, for all integer quaternions, that is all
rotations with rational coordinates, with no division: the product associates, lengths
multiply, conjugates turn back; and `RotationIsCancelled`, `DisplacementIsCancelled`: for
any rotation of tracker, head, zero point and driver space, what the compensation makes
of a rotation, and of a displacement from the tracker, is what it was on the platform of
the zero point.
Of `HandPose`: `ReferenceStays`, `NeverBehind` (go-go shows no hand further behind its
reference than the margin), `DelayedIsBetween`, `AccelFoldsBack`, `HooksMirror`.
`AccelFoldsBack` states something the author will not have wanted: at a small distance
from the reference, on the side of smaller coordinates, the ratio is zero, so that a hand
that moves there from the reference is shown to go out and come back.
Of `CompensatedPose`: every step, with its poses, is a step of `MotionCompensation` or
leaves the variables of that module (`PoseStepRefines`). So its invariant holds here:
`ComposedRequestsTakeEffect`, `ComposedIdsKeepRoles`, for one headset.

Assumptions the proofs use: those named in the modules (`HostAssumption`: a host
forwards only to a newer one; `DeviceAssumption`; `IdAssumption`; `NullAssumption`;
bounds are naturals; `TornAssumption`; `InteractionsAssumption`; `PadAssumption`; `WinIdAssumption`,
`UnsetAssumption`; `EntriesAssumption`; `RequestAssumption`, `WarmUpAssumption`;
`MarginAssumption`, `ShoulderAssumption`, `FullAssumption`; `ClientAssumption`,
`MessageIdAssumption`, `DrawsFreshAssumption`, `PostsAssumption`, `BoundAssumption`; in
`OverlayTab`, `DeviceAssumption`: devices are finitely many and the headset is none of
the others). TLC evaluates these in the runs. `OneHeadset`, `IdsDistinct` and
`SerialsDistinct` are premises of the theorems that need them, and true of the instances
of the passing runs that check the properties.

**Only model-checked**: the liveness properties (`StoredIsDelivered`, `QueuedIsStored`,
`SelectionTakesEffect`, `TrackerTakesOver`, `StillPlatformIsCancelled`, `CallEnds`,
`FillsUp`, `PageFollows`), which need fairness, out of the prover's reach. Every
invariant, action property and refinement that a passing run checks is a theorem.
`StillPlatformIsCancelled` and the theorems about the formulas of `PoseMath` meet in TLC
only: that the manager's fields hold the values the formulas speak of, after any sequence
of steps, is not proved.

## 6. Findings

Places where the code and what it says of itself differ:

1. *The second tracker's warm-up* (`compensation_warm_up`). `setNewReferenceTracker`
   does not reset the counter of the "100 frames", so that the second tracker's
   reference is valid with its first frame.
2. *Disabling with another selection* (`compensation_disabled`). The devices put back to
   Default are those the request names. A tracker that is in use and was deselected
   stays in its mode; when compensation is enabled again with the other one, both write
   the reference, which is why `TrackerTakesOver` excludes it.
3. *The refused client* (`ipc_refused`). A client of another protocol version is given
   client id 0, to which `sendReply` cannot send: it waits for ever. That the refusal is
   never delivered is also what keeps `ReceiverHasQueue` true: `connect` would delete a
   queue its receiver thread still uses.

Noticed while modelling, and checked by no run:

- *The hands' slots.* `ServerDriver.cpp:209-210` calls `mode` "left" and `mode1`
  "right", and `DeviceManipulationHandle.cpp:56` marks slot 0 "left hand"; the blocks
  give `mode1` to the left device and `mode` to the right. Together with the exchanged
  keys everything matches as long as both controllers are active (`HandsDoNotMix`); a
  controller that is active alone gets a mode and no parameters.
- *Two writers of the modes.* Requests of the overlay and frames of the server write the
  modes of the same devices. The headset is out of `MotionCompensated` with the next
  frame; the GUI takes a tracker with id 1 or 2 for a hand. The manager's ids do not
  follow: to ask for the same devices again is answered with Ok and restores no mode
  (`driver_ipc_shm.cpp:209` and `221` compare ids only); one has to disable first.
- *The zero point.* A pose of the old tracker that tested `isZeroPoseValid` before a
  switch calls `setZeroPose` after it, and the new tracker never sets its own.
- *A second headset.* For a new device to be compensated `driver_ipc_shm.cpp:217` calls
  `setNewReferenceTracker`; lines 221-225 then take that device for the old tracker and
  put it back to Default. SteamVR has one headset, so the branch is not taken
  (`RequestTakesEffect` is checked with one).
- *Ids without a device.* `getDeviceManipulationHandleById` dereferences the handle
  before it tests it, so that the handlers' NotFound is never answered.

In the frame loop and the hooks:

- *The deactivate button* sets a flag that nobody reads and the Default mode; the next
  periodic message, within 50 ms, sets the mode again (`SelectionTakesEffect` states
  this: what the list says wins).
- *An array of three.* `deviceActivated` has three entries, and is written for every
  OpenVR id; ids go beyond two with the first tracker or base station.
- A taken UDP port ends the server process from the receiver thread; `Cleanup` frees
  detours that poses may be inside of; a null interface of the server is hooked like
  any other.

In the reference-tracker flow:

- `applyMotionCompensation` has no caller, and puts the position to zero before it
  compensates it (line 351). `CompensatedPose` models it with that line: the position it
  cancels the platform for is the driver's origin.
- The transform to app space applies `qWorldFromDriverRotation` in reverse (line 174 and
  others). That is exact as long as tracker and headset have one world-from-driver
  transform, the premise of `CompensatedPose`, and wrong for devices of two drivers with
  different ones.
- After `ResetRefZeroPose` the new zero point is valid at once while the reference is
  still relative to the old one: a pose of the headset in between mixes the two, as does
  one between the two sections of `updateRefPose`.
- A late `setZeroPose` of the old tracker marks its zero point valid for the new one.
- The first stage of the double exponential average takes its difference from the value
  of the second one (line 715); `slerp` does not normalise `w` and halves the parameter; the angular velocity is
  computed by a function in degrees from angles in radians; `rotate34_*` give a zero
  matrix for 0 degrees.
- A dead zone of 0 would divide 0 by 0 in `MyGamepad`; those given are 0.05 and 0.02.

In the logger:

- Row 0 lacks the tracker's raw motion and may mix two logs. Any row may lack the
  headset's pose, as it came and compensated, or have it from an earlier log: the flags
  are tested twice, and when the tracker's thread sets its flag between the two tests, the
  row gets the headset's compensated velocities and counts as complete. The last row is
  timed and never written. `RowsOfOneLog` promises nothing of these, and the rest of every
  row.
- A file that does not open is not noticed: `bad()` does not see the failbit that `open`
  sets (`Debugger.cpp:146`), nothing is written, `WroteToFile` becomes true (line 207),
  and no later stop tries again. `StopSaves` excepts a log that met this (`lost`).
- A log that filled up is lost if the overlay restarts and starts another one.
- With two trackers, while one takes over from the other, both may count up.

In the overlay:

- *No driver.* `connect`'s exception is caught (`overlaycontroller.cpp:265`) and the tab
  has a message for it, but `initStage2` calls `setOffsets`
  (`DeviceManipulationTabController.cpp:47`), whose exception only `main` catches, and
  ends the overlay. With the driver's IPC commented out, that is what happens now.
- The number of samples is unsigned: 3 less 5 wraps past the clamp to 2 (line 772).
- `setDebugMode` has a `return false` that no path reaches (line 914), and records a
  refused start as a start; its button is commented out on the page. `TestForStandby`
  has no caller.
- When a device appears, `fetchDevices` on the page takes the old index of the headset
  for that of the tracker (line 407), so that the selection jumps to the first tracker;
  the handler of the headsets' list asks for a tracker's id.
- After a restart of the overlay it takes compensation for off while the driver still
  compensates: the toggle then enables once more. (`OnIsWhatDriverDoes` is an
  implication for that reason.)
- Of two devices with an unreadable serial, the toggle takes the last. Of two shortcuts
  with keys of one number, removing one takes the hot key from both. A removed key is
  not saved, and returns with the next start unless something is saved before.

## 7. What is not modelled, and the assumptions made

- **Geometry.** `ServerDriver` says which slot, reference and parameters a pose is
  computed with, `HandPose` what is computed; they are not composed. Numbers are
  integers of a unit, or exact fractions: rounding of doubles is not modelled. The sines
  of the saber's and sliders' rotations are parameters.
- **Delay mode** replaces a position by a blend of earlier ones of the same device and
  slot; for the properties here it is a slot mode like the others.
- **Serialised server calls.** `TrackedDeviceAdded`, `Activate` and `Cleanup` are taken
  to be called by the server's side one after the other, with poses in between.
- **Torn copies.** In `MyUDPManager` one ends the server or does not. In `ServerDriver` it
  ends in a parse exception; a copy may also crash earlier, which ends the server as well,
  or happen to equal a whole message, which is a copy that did not overlap.
- **Sequential consistency** of `messageAvail`, a `bool` without synchronisation, and of
  the other flags that threads share without a lock (the logger's, the manager's): a
  compiler may keep or reorder accesses to such a variable. The models interleave them.
- **One step per block.** The setters that one block of `RunFrame` calls for one
  controller are one step; a pose computed in the middle of them, from parts of two messages, is not
  modelled (the next pose, milliseconds later, has the whole of the second).
- **Cleanup** is not called in the middle of an activation. Poses inside a detour when
  it is freed are outside the model.
- **Null host interfaces.** Every interface version asked for exists.
- **Ids have handles.** Requests of `MotionCompensation` name devices that have a handle;
  see above for the others.
- **Filters and velocities** of the reference-tracker flow (moving average, `slerp`,
  angular velocity and acceleration): arithmetic on doubles over time.
  `CompensatedPose` is of the code with the filters switched off.
- **Code without a caller.** `applyMotionCompensation`, and with it the headset's half of
  the logger, is modelled as it runs when it is called.
- **The logger's groups.** The samples that are added one after the other in one branch
  are one step, and one tracker at a time reports. Errors while an open file is written,
  and the branch for a stream that is bad before anything was written (lines 209-212,
  reached by no failure of `open`), are left out.
- **Requests and frames.** `MotionCompensation` has the frames' writes to the modes without
  the conditions under which they are made (a device activated, a message there): they may
  come at any time, or not at all.
- **The overlay.** `OverlayTab` leaves out the status of devices and trackers as text,
  the filter and offset values (which pass through to the driver), rendering, mouse and keyboard events, the settings page. It starts when the driver
  answers. The modes that the server's frames write are left out too (see
  `MotionCompensation`): `OnIsWhatDriverDoes` and `ToggleOffRestores` say what the
  requests of the overlay have made of the driver.
- **One read of the counter.** `updateRefPose` tests and increments
  `_RefPoseValidCounter`; the model has one read for both, as an optimising compiler
  makes of it, and a write that may come late.
- **The IPC server** is modelled as it runs when `init` is called; `ServerDriver::Init`
  has the call commented out.
- **Queues.** `message_queue::remove` of a queue that clients have open succeeds, and
  they keep the old one; sends and receives do not fail. Neither does opening a client's
  queue in the handler of a connection (`driver_ipc_shm.cpp:66`), which the client has made
  before it asked and keeps until it is answered; if it did, the handler would answer
  nothing (lines 88-91), and `connect` would wait for ever. A request's random message id
  is never 0, which the server would take for *no reply wanted*.
- **Rendering, installer, watchdog, logging, third-party code**: no state to check.
  MinHook is modelled by how the hooks use it: one detour per address, creation may
  fail.
