------------------------- MODULE DeviceHooks_proofs -------------------------
(***************************************************************************)
(* Proofs about DeviceHooks, for any devices, classes, ids and hosts, and  *)
(* any number of calls of TrackedDeviceAdded.                              *)
(***************************************************************************)
EXTENDS DeviceHooks, FiniteSetTheorems, TLAPS

-----------------------------------------------------------------------------
(* The tables of Activate hooks *)

(* A detour has an enabled entry in its own table, and an enabled entry is *)
(* in use.                                                                 *)
SoundTables(hk) ==
  /\ \A c \in Class : hk.detour[c] # NoKind => hk.entry[hk.detour[c]][c].enabled
  /\ \A k \in Kind, c \in Class : hk.entry[k][c].enabled => hk.entry[k][c].useCount > 0

(* From hk to new, the detours that were in place stay.                    *)
DetoursStay(hk, new) ==
  \A c \in Class : hk.detour[c] # NoKind => new.detour[c] = hk.detour[c]

UseCount(hk, k, c) == hk.entry[k][c].useCount

LEMMA Kinds == NoKind \notin Kind
  BY DEF NoKind, Kind

LEMMA TableParts ==
  ASSUME NEW hk \in Tables
  PROVE  /\ hk.entry \in [Kind -> [Class -> Entry]]
         /\ hk.detour \in [Class -> Kind \cup {NoKind}]
         /\ \A k \in Kind, c \in Class : /\ hk.entry[k][c] \in Entry
                                         /\ hk.entry[k][c].useCount \in Nat
                                         /\ hk.entry[k][c].enabled \in BOOLEAN
  BY DEF Tables, Entry

LEMMA EntryChanged ==
  ASSUME NEW e \in Entry
  PROVE  /\ [e EXCEPT !.useCount = @ + 1] = [useCount |-> e.useCount + 1,
                                             enabled |-> e.enabled]
         /\ [e EXCEPT !.useCount = @ - 1] = [useCount |-> e.useCount - 1,
                                             enabled |-> e.enabled]
  BY DEF Entry

LEMMA SetEntryEffect ==
  ASSUME NEW hk \in Tables, NEW k \in Kind, NEW c \in Class, NEW e \in Entry
  PROVE  /\ SetEntry(hk, k, c, e) \in Tables
         /\ SetEntry(hk, k, c, e).detour = hk.detour
         /\ \A l \in Kind, b \in Class :
              SetEntry(hk, k, c, e).entry[l][b] = IF l = k /\ b = c THEN e
                                                  ELSE hk.entry[l][b]
  <1>1. /\ [hk.entry EXCEPT ![k][c] = e] \in [Kind -> [Class -> Entry]]
        /\ \A l \in Kind, b \in Class :
             [hk.entry EXCEPT ![k][c] = e][l][b] = IF l = k /\ b = c THEN e
                                                   ELSE hk.entry[l][b]
    BY TableParts
  <1> QED BY <1>1, TableParts DEF SetEntry, Tables

LEMMA SetDetourEffect ==
  ASSUME NEW hk \in Tables, NEW c \in Class, NEW k \in Kind \cup {NoKind}
  PROVE  /\ SetDetour(hk, c, k) \in Tables
         /\ SetDetour(hk, c, k).entry = hk.entry
         /\ SetDetour(hk, c, k).detour = [hk.detour EXCEPT ![c] = k]
  BY TableParts DEF SetDetour, Tables

(* A hook object for a device of class c is made, and refers to its entry. *)
LEMMA CreatedTables ==
  ASSUME NEW hk \in Tables, SoundTables(hk),
         NEW k \in Kind, NEW c \in Class, NEW ok \in BOOLEAN,
         NEW new, new = HookCreated(hk, k, c, ok)
  PROVE  /\ new \in Tables /\ SoundTables(new) /\ DetoursStay(hk, new)
         /\ \A l \in Kind, b \in Class :
              UseCount(new, l, b) = IF l = k /\ b = c THEN UseCount(hk, l, b) + 1
                                    ELSE UseCount(hk, l, b)
         /\ UseCount(hk, k, c) = 0 /\ new.entry[k][c].enabled => hk.detour[c] = NoKind
  <1> DEFINE e == hk.entry[k][c]
  <1>0. e.useCount \in Nat /\ e.enabled \in BOOLEAN
    BY TableParts
  <1>1. CASE e.useCount > 0
    <2> DEFINE f == [useCount |-> e.useCount + 1, enabled |-> e.enabled]
    <2>1. f \in Entry
      BY <1>0 DEF Entry
    <2>2. new = SetEntry(hk, k, c, f)
      BY <1>1, TableParts, EntryChanged DEF HookCreated
    <2>3. /\ new \in Tables /\ new.detour = hk.detour
          /\ \A l \in Kind, b \in Class :
               new.entry[l][b] = IF l = k /\ b = c THEN f ELSE hk.entry[l][b]
      BY <2>1, <2>2, SetEntryEffect
    <2>4. f.useCount = e.useCount + 1 /\ f.enabled = e.enabled
      OBVIOUS
    <2> HIDE DEF f
    <2>5. \A l \in Kind, b \in Class :
            /\ new.entry[l][b].enabled = hk.entry[l][b].enabled
            /\ new.entry[l][b].enabled => new.entry[l][b].useCount > 0
      BY <1>0, <2>3, <2>4 DEF SoundTables
    <2>6. SoundTables(new)
      BY <2>3, <2>5, TableParts DEF SoundTables
    <2> QED BY <1>1, <2>3, <2>4, <2>6 DEF DetoursStay, UseCount
  <1>2. CASE ~(e.useCount > 0)
    <2> DEFINE enabled == ok /\ hk.detour[c] = NoKind
               f == [useCount |-> 1, enabled |-> enabled]
               mid == SetEntry(hk, k, c, f)
    <2>1. f \in Entry
      BY DEF Entry
    <2>2. /\ mid \in Tables /\ mid.detour = hk.detour
          /\ \A l \in Kind, b \in Class :
               mid.entry[l][b] = IF l = k /\ b = c THEN f ELSE hk.entry[l][b]
      BY <2>1, SetEntryEffect
    <2>3. new = IF enabled THEN SetDetour(mid, c, k) ELSE mid
      BY <1>2 DEF HookCreated, CREATE_MH_HOOK
    <2>4. /\ new \in Tables /\ new.entry = mid.entry
          /\ new.detour = IF enabled THEN [hk.detour EXCEPT ![c] = k] ELSE hk.detour
      BY <2>2, <2>3, SetDetourEffect
    <2>5. e.useCount = 0 /\ ~e.enabled /\ hk.detour[c] # k
      BY <1>0, <1>2, Kinds DEF SoundTables
    <2> HIDE DEF mid, f, enabled
    <2>6. \A b \in Class : hk.detour[b] # NoKind => new.detour[b] = hk.detour[b]
      BY <2>4, TableParts DEF enabled
    <2>7. \A l \in Kind, b \in Class :
            new.entry[l][b] = IF l = k /\ b = c THEN f ELSE hk.entry[l][b]
      BY <2>2, <2>4
    <2>8. f.useCount = 1 /\ f.enabled = enabled
      BY DEF f
    <2>9. \A b \in Class : new.detour[b] # NoKind => new.entry[new.detour[b]][b].enabled
      <3> TAKE b \in Class
      <3> HAVE new.detour[b] # NoKind
      <3>1. CASE b = c /\ enabled
        BY <3>1, <2>4, <2>7, <2>8, TableParts
      <3>2. CASE ~(b = c /\ enabled)
        <4>1. new.detour[b] = hk.detour[b] /\ hk.detour[b] \in Kind
          BY <3>2, <2>4, TableParts
        <4>2. ~(b = c /\ hk.detour[b] = k)
          BY <2>5
        <4> QED BY <4>1, <4>2, <2>7 DEF SoundTables
      <3> QED BY <3>1, <3>2
    <2>10. \A l \in Kind, b \in Class :
             new.entry[l][b].enabled => new.entry[l][b].useCount > 0
      BY <2>7, <2>8 DEF SoundTables
    <2>11. new.entry[k][c].enabled => hk.detour[c] = NoKind
      BY <2>7, <2>8 DEF enabled
    <2> QED BY <2>4, <2>5, <2>6, <2>7, <2>8, <2>9, <2>10, <2>11
            DEF SoundTables, DetoursStay, UseCount
  <1> QED BY <1>1, <1>2

(* A hook object is made and destroyed at once: the use counts are as      *)
(* before, and the detours too.                                            *)
LEMMA SuperfluousHook ==
  ASSUME NEW hk \in Tables, SoundTables(hk),
         NEW k \in Kind, NEW c \in Class, NEW ok \in BOOLEAN,
         NEW new, new = HookCreated(hk, k, c, ok),
         NEW end, end = HookDestroyed(new, k, c, new.entry[k][c].enabled)
  PROVE  /\ end \in Tables /\ SoundTables(end) /\ DetoursStay(hk, end)
         /\ \A l \in Kind, b \in Class : UseCount(end, l, b) = UseCount(hk, l, b)
  <1> DEFINE e == new.entry[k][c]
  <1>0. /\ new \in Tables /\ SoundTables(new) /\ DetoursStay(hk, new)
        /\ \A l \in Kind, b \in Class :
             new.entry[l][b].useCount = IF l = k /\ b = c
                                        THEN hk.entry[l][b].useCount + 1
                                        ELSE hk.entry[l][b].useCount
        /\ hk.entry[k][c].useCount = 0 /\ e.enabled => hk.detour[c] = NoKind
    BY CreatedTables DEF UseCount
  <1>1. hk.entry[k][c].useCount \in Nat /\ e.useCount \in Nat /\ e.enabled \in BOOLEAN
    BY <1>0, TableParts
  <1>2. CASE e.useCount > 1
    <2> DEFINE f == [useCount |-> e.useCount - 1, enabled |-> e.enabled]
    <2>1. f \in Entry
      BY <1>1, <1>2 DEF Entry
    <2>2. end = SetEntry(new, k, c, f)
      BY <1>0, <1>2, TableParts, EntryChanged DEF HookDestroyed
    <2>3. /\ end \in Tables /\ end.detour = new.detour
          /\ \A l \in Kind, b \in Class :
               end.entry[l][b] = IF l = k /\ b = c THEN f ELSE new.entry[l][b]
      BY <1>0, <2>1, <2>2, SetEntryEffect
    <2>4. f.useCount = hk.entry[k][c].useCount /\ f.useCount > 0 /\ f.enabled = e.enabled
      BY <1>0, <1>1, <1>2
    <2> HIDE DEF f
    <2>5. \A l \in Kind, b \in Class :
            /\ end.entry[l][b].useCount = hk.entry[l][b].useCount
            /\ end.entry[l][b].enabled = new.entry[l][b].enabled
            /\ end.entry[l][b].enabled => end.entry[l][b].useCount > 0
      BY <1>0, <2>3, <2>4 DEF SoundTables
    <2>6. SoundTables(end)
      <3>1. \A b \in Class : new.detour[b] \in Kind \cup {NoKind}
        BY <1>0, TableParts
      <3>2. \A b \in Class : end.detour[b] # NoKind =>
              end.entry[end.detour[b]][b].enabled
        <4> TAKE b \in Class
        <4> HAVE end.detour[b] # NoKind
        <4>1. new.detour[b] = end.detour[b] /\ new.detour[b] \in Kind
          BY <2>3, <3>1
        <4>2. new.entry[new.detour[b]][b].enabled
          BY <1>0, <4>1 DEF SoundTables
        <4> QED BY <2>5, <4>1, <4>2
      <3> QED BY <2>5, <3>2 DEF SoundTables
    <2> QED BY <1>0, <2>3, <2>5, <2>6 DEF DetoursStay, UseCount
  <1>3. CASE ~(e.useCount > 1)
    <2> DEFINE mid == REMOVE_MH_HOOK(new, c, e.enabled)
    <2>1. /\ hk.entry[k][c].useCount = 0 /\ ~hk.entry[k][c].enabled
          /\ hk.detour[c] # k
      <3>1. e.useCount = hk.entry[k][c].useCount + 1
        BY <1>0
      <3>2. hk.entry[k][c].useCount = 0
        BY <1>1, <1>3, <3>1
      <3>3. ~hk.entry[k][c].enabled
        BY <3>2 DEF SoundTables
      <3> QED BY <3>2, <3>3, Kinds DEF SoundTables
    <2>2. NoEntry \in Entry /\ NoEntry.useCount = 0 /\ ~NoEntry.enabled
      BY DEF NoEntry, Entry
    <2>3. /\ mid \in Tables /\ mid.entry = new.entry
          /\ mid.detour = IF e.enabled THEN [new.detour EXCEPT ![c] = NoKind]
                          ELSE new.detour
      BY <1>0, SetDetourEffect DEF REMOVE_MH_HOOK
    <2>4. end = SetEntry(mid, k, c, NoEntry)
      BY <1>3 DEF HookDestroyed
    <2> HIDE DEF mid
    <2>5. /\ end \in Tables /\ end.detour = mid.detour
          /\ \A l \in Kind, b \in Class :
               end.entry[l][b] = IF l = k /\ b = c THEN NoEntry ELSE new.entry[l][b]
      BY <2>2, <2>3, <2>4, SetEntryEffect
    <2>6. e.enabled => hk.detour[c] = NoKind
      BY <1>0, <2>1
    <2>7. new.detour[c] = k => e.enabled
      BY <1>0, Kinds DEF SoundTables
    <2>8. \A b \in Class : end.detour[b] # NoKind => end.entry[end.detour[b]][b].enabled
      <3> TAKE b \in Class
      <3> HAVE end.detour[b] # NoKind
      <3>1. end.detour[b] = new.detour[b] /\ new.detour[b] \in Kind
        BY <1>0, <2>3, <2>5, TableParts
      <3>2. ~(b = c /\ new.detour[b] = k)
        BY <1>0, <2>3, <2>5, <2>7, <3>1, TableParts, Kinds
      <3> QED BY <1>0, <2>5, <3>1, <3>2 DEF SoundTables
    <2>9. \A l \in Kind, b \in Class :
            /\ end.entry[l][b].enabled => end.entry[l][b].useCount > 0
            /\ end.entry[l][b].useCount = hk.entry[l][b].useCount
      BY <1>0, <2>1, <2>2, <2>5 DEF SoundTables
    <2>10. DetoursStay(hk, end)
      BY <1>0, <2>3, <2>5, <2>6, TableParts DEF DetoursStay
    <2> QED BY <2>5, <2>8, <2>9, <2>10 DEF SoundTables, UseCount
  <1> QED BY <1>2, <1>3

-----------------------------------------------------------------------------
(* The inductive invariant *)

(* Before its activation is over, a hooked device is in one of these.      *)
Activating == {"hooked", "published", "orig"}

(* Ids are given once, and each to one device.                             *)
IdsInv ==
  /\ \A d \in Device : activation[d] = "none" <=> idOf[d] = NoId
  /\ \A d, e \in Device : d # e /\ idOf[d] # NoId => idOf[d] # idOf[e]

(* A device whose Activate runs through a detour still has the detour.     *)
DetoursInv ==
  /\ SoundTables(hooks)
  /\ \A d \in Device : activation[d] \notin {"refused", "crashed"}
  /\ \A d \in Device : activation[d] \in Activating =>
       hooks.detour[ClassOf[d]] # NoKind

(* A device that passed a hook has a handle, and a published one is in the *)
(* table of ids before its flag is set.                                    *)
HandlesInv ==
  /\ \A d \in Device : handle[d] # NoHandle => handle[d].kind \in Kind
  /\ \A d \in passed : handle[d] # NoHandle
  /\ expected \subseteq passed
  /\ \A d \in expected : activation[d] # "none"
  /\ \A d \in Device : activation[d] = "published" =>
       handle[d] # NoHandle /\ handleById[idOf[d]] = Pointer(d)
  /\ PublishedIsAlive
  /\ ActivationIsSeen

(* Host v is a, or is forwarded to from a by one or more hosts: v is in    *)
(* every set that holds a and what its members other than v forward to.    *)
Ahead(a, v) ==
  \A S \in SUBSET Host :
    /\ a \in S
    /\ \A h \in S : h # v /\ Forward[h] # 0 => Forward[h] \in S
    => v \in S

(* The version that compensates device d's poses, or 0.                    *)
Version(d) == deviceVersionMap[idOf[d]]

(* A version is fixed for published devices, and stays hooked.             *)
VersionsInv ==
  \A i \in Id : deviceVersionMap[i] # 0 =>
    handleById[i] # nullptr /\ (up => deviceVersionMap[i] \in poseHook)

(* No pose is under way before a device is active ...                      *)
IdlePose(d) ==
  /\ flight[d].at = 0 /\ ~flight[d].due /\ flight[d].times = 0
  /\ idOf[d] # NoId => Version(d) = 0

(* ... and then a pose that has not been compensated has the version that  *)
(* compensates it ahead, and one that has been has it behind.              *)
PoseOnItsWay(d) ==
  /\ Version(d) # 0 => Ahead(EntryHost[d], Version(d))
  /\ flight[d].at # 0 => Ahead(EntryHost[d], flight[d].at)
  /\ flight[d].due => flight[d].seen /\ Version(d) # 0
  /\ flight[d].times \in {0, 1}
  /\ flight[d].times = 1 =>
       Version(d) # 0 /\ (flight[d].at = 0 \/ flight[d].at > Version(d))
  /\ flight[d].times = 0 /\ up =>
       /\ flight[d].at # 0 /\ Version(d) # 0 => Ahead(flight[d].at, Version(d))
       /\ flight[d].at = 0 => ~flight[d].due

PosesInv ==
  \A d \in Device : IF activation[d] = "done" THEN PoseOnItsWay(d) ELSE IdlePose(d)

IInv ==
  /\ TypeOK
  /\ IdsInv
  /\ DetoursInv
  /\ UseCountIsExact
  /\ HandlesInv
  /\ VersionsInv
  /\ PosesInv

-----------------------------------------------------------------------------
(* A device is added *)

LEMMA AddedEffect ==
  ASSUME TypeOK, SoundTables(hooks), NEW d \in Device, hooksTrackedDeviceAdded(d)
  PROVE  /\ firstTrackerActivated' = TRUE
         /\ hooks' \in Tables /\ SoundTables(hooks') /\ DetoursStay(hooks, hooks')
         /\ \/ /\ handle[d] # NoHandle
               /\ handle' = handle
               /\ \A l \in Kind, b \in Class : UseCount(hooks', l, b) = UseCount(hooks, l, b)
            \/ /\ handle[d] = NoHandle
               /\ \E k \in Kind, enabled \in BOOLEAN :
                    /\ handle' = [handle EXCEPT ![d] = [nr |-> 1, kind |-> k,
                                                       enabled |-> enabled]]
                    /\ \A l \in Kind, b \in Class :
                         UseCount(hooks', l, b) = IF l = k /\ b = ClassOf[d]
                                                  THEN UseCount(hooks, l, b) + 1
                                                  ELSE UseCount(hooks, l, b)
  <1> DEFINE k == IF firstTrackerActivated THEN "004" ELSE "005"
             c == ClassOf[d]
  <1>1. k \in Kind /\ c \in Class /\ hooks \in Tables
    BY DeviceAssumption DEF Kind, TypeOK
  <1>2. PICK ok \in BOOLEAN :
          LET created == HookCreated(hooks, k, c, ok)
              enabled == created.entry[k][c].enabled
          IN /\ firstTrackerActivated' = TRUE
             /\ IF handle[d] = NoHandle
                THEN /\ handle' = [handle EXCEPT ![d] = [nr |-> 1, kind |-> k,
                                                        enabled |-> enabled]]
                     /\ hooks' = created
                ELSE /\ hooks' = HookDestroyed(created, k, c, enabled)
                     /\ handle' = handle
    BY DEF hooksTrackedDeviceAdded
  <1> DEFINE created == HookCreated(hooks, k, c, ok)
             enabled == created.entry[k][c].enabled
  <1> HIDE DEF k, c
  <1>3. CASE handle[d] = NoHandle
    <2>1. /\ hooks' = created
          /\ handle' = [handle EXCEPT ![d] = [nr |-> 1, kind |-> k, enabled |-> enabled]]
      BY <1>2, <1>3
    <2>2. created \in Tables
      BY <1>1, CreatedTables
    <2>3. enabled \in BOOLEAN
      BY <1>1, <2>2, TableParts
    <2> HIDE DEF created, enabled
    <2>4. /\ hooks' \in Tables /\ SoundTables(hooks') /\ DetoursStay(hooks, hooks')
          /\ \A l \in Kind, b \in Class :
               UseCount(hooks', l, b) = IF l = k /\ b = c
                                        THEN UseCount(hooks, l, b) + 1
                                        ELSE UseCount(hooks, l, b)
      BY <1>1, <2>1, CreatedTables DEF created
    <2> QED BY <1>1, <1>2, <1>3, <2>1, <2>3, <2>4 DEF c
  <1>4. CASE handle[d] # NoHandle
    <2>1. hooks' = HookDestroyed(created, k, c, enabled) /\ handle' = handle
      BY <1>2, <1>4
    <2>2. /\ hooks' \in Tables /\ SoundTables(hooks') /\ DetoursStay(hooks, hooks')
          /\ \A l \in Kind, b \in Class : UseCount(hooks', l, b) = UseCount(hooks, l, b)
      BY <1>1, <2>1, SuperfluousHook
    <2> QED BY <1>2, <1>4, <2>1, <2>2
  <1> QED BY <1>3, <1>4

(* The same for TrackedDeviceAdded at a host, hooked or not.               *)
LEMMA AddedStep ==
  ASSUME TypeOK, SoundTables(hooks), NEW d \in Device, TrackedDeviceAdded(d)
  PROVE  /\ hooks' \in Tables /\ SoundTables(hooks') /\ DetoursStay(hooks, hooks')
         /\ handle' \in [Device -> [nr : Nat, kind : Kind \cup {NoKind}, enabled : BOOLEAN]]
         /\ \A e \in Device : handle[e] # NoHandle \/ e # d => handle'[e] = handle[e]
         /\ handle[d] = NoHandle => handle'[d] = NoHandle \/ handle'[d].kind \in Kind
         /\ passed \subseteq passed' /\ passed' \subseteq passed \cup {d}
         /\ passed' # passed => handle'[d] # NoHandle
  <1>1. CASE adding[d] \in addedHook
    <2>1. hooksTrackedDeviceAdded(d) /\ passed' = passed \cup {d}
      BY <1>1 DEF TrackedDeviceAdded
    <2>2. /\ hooks' \in Tables /\ SoundTables(hooks') /\ DetoursStay(hooks, hooks')
          /\ \/ handle[d] # NoHandle /\ handle' = handle
             \/ /\ handle[d] = NoHandle
                /\ \E k \in Kind, enabled \in BOOLEAN :
                     handle' = [handle EXCEPT ![d] = [nr |-> 1, kind |-> k,
                                                     enabled |-> enabled]]
      BY <2>1, AddedEffect
    <2>3. CASE handle[d] # NoHandle /\ handle' = handle
      BY <2>1, <2>2, <2>3 DEF TypeOK
    <2>4. CASE /\ handle[d] = NoHandle
               /\ \E k \in Kind, enabled \in BOOLEAN :
                    handle' = [handle EXCEPT ![d] = [nr |-> 1, kind |-> k,
                                                    enabled |-> enabled]]
      <3>1. PICK k \in Kind, enabled \in BOOLEAN :
              handle' = [handle EXCEPT ![d] = [nr |-> 1, kind |-> k, enabled |-> enabled]]
        BY <2>4
      <3> DEFINE new == [nr |-> 1, kind |-> k, enabled |-> enabled]
      <3>2. /\ new \in [nr : Nat, kind : Kind \cup {NoKind}, enabled : BOOLEAN]
            /\ new.kind = k
        OBVIOUS
      <3>3. new # NoHandle
        BY <3>2, Kinds DEF NoHandle
      <3> HIDE DEF new
      <3>4. /\ handle' \in [Device -> [nr : Nat, kind : Kind \cup {NoKind},
                                       enabled : BOOLEAN]]
            /\ \A e \in Device : handle'[e] = IF e = d THEN new ELSE handle[e]
        BY <3>1, <3>2 DEF TypeOK, new
      <3> QED BY <2>1, <2>2, <2>4, <3>2, <3>3, <3>4
    <2> QED BY <2>2, <2>3, <2>4
  <1>2. CASE adding[d] \notin addedHook
    <2>1. UNCHANGED <<hooks, handle, passed>>
      BY <1>2 DEF TrackedDeviceAdded
    <2> QED BY <2>1 DEF TypeOK, DetoursStay
  <1> QED BY <1>1, <1>2

-----------------------------------------------------------------------------
(* Type correctness *)

LEMMA FlightParts ==
  ASSUME TypeOK, NEW d \in Device
  PROVE  /\ flight[d].at \in Host \cup {0}
         /\ flight[d].seen \in BOOLEAN
         /\ flight[d].due \in BOOLEAN
         /\ flight[d].times \in Nat
  BY DEF TypeOK

LEMMA TypeInit ==
  Init => TypeOK
  <1> SUFFICES ASSUME Init PROVE TypeOK
    OBVIOUS
  <1>1. hooks \in Tables
    BY DEF Init, Tables, Entry, NoEntry
  <1>2. handle \in [Device -> [nr : Nat, kind : Kind \cup {NoKind}, enabled : BOOLEAN]]
    BY DEF Init, NoHandle
  <1>3. adds \in [Device -> 0 .. MaxAdds]
    BY MaxAddsAssumption DEF Init
  <1>4. flight \in [Device -> [at : Host \cup {0}, seen : BOOLEAN, due : BOOLEAN,
                               times : Nat]]
    BY DEF Init
  <1> QED BY <1>1, <1>2, <1>3, <1>4 DEF Init, TypeOK

(* A pose passes a host whose pose updates are not hooked ...              *)
LEMMA PassedHost ==
  ASSUME TypeOK, NEW d \in Device, TrackedDevicePoseUpdated(d),
         flight[d].at \notin poseHook
  PROVE  LET new == [at |-> Forward[flight[d].at], seen |-> flight[d].seen,
                     due |-> flight[d].due, times |-> flight[d].times]
         IN /\ deviceVersionMap' = deviceVersionMap
            /\ flight' \in [Device -> [at : Host \cup {0}, seen : BOOLEAN,
                                       due : BOOLEAN, times : Nat]]
            /\ flight' = [flight EXCEPT ![d] = new]
  <1>1. flight[d].at \in Host /\ Forward[flight[d].at] \in Host \cup {0}
    BY FlightParts, HostAssumption DEF TrackedDevicePoseUpdated
  <1>2. /\ flight' = [flight EXCEPT ![d] = [flight[d] EXCEPT !.at = Forward[@]]]
        /\ deviceVersionMap' = deviceVersionMap
    BY DEF TrackedDevicePoseUpdated
  <1> DEFINE new == [at |-> Forward[flight[d].at], seen |-> flight[d].seen,
                     due |-> flight[d].due, times |-> flight[d].times]
             Poses == [at : Host \cup {0}, seen : BOOLEAN, due : BOOLEAN, times : Nat]
  <1>3. [flight[d] EXCEPT !.at = Forward[@]] = new
    BY DEF TypeOK
  <1>4. new \in Poses
    BY <1>1, FlightParts
  <1> HIDE DEF new
  <1>5. flight' = [flight EXCEPT ![d] = new]
    BY <1>2, <1>3
  <1>6. flight' \in [Device -> Poses]
    BY <1>4, <1>5 DEF TypeOK
  <1> QED BY <1>2, <1>5, <1>6 DEF new

(* ... and one whose are, which compensates it if the device is published  *)
(* and this is the version that does.                                      *)
LEMMA PassedHook ==
  ASSUME TypeOK, NEW d \in Device, TrackedDevicePoseUpdated(d),
         flight[d].at \in poseHook
  PROVE  LET h == flight[d].at
             i == idOf[d]
             version == IF deviceVersionMap[i] = 0 THEN h ELSE deviceVersionMap[i]
             valid == handleById[i] # nullptr
             new == [at |-> Forward[h], seen |-> TRUE,
                     due |-> IF flight[d].seen THEN flight[d].due ELSE valid,
                     times |-> IF valid /\ version = h THEN flight[d].times + 1
                               ELSE flight[d].times]
         IN /\ deviceVersionMap' = IF valid
                                   THEN [deviceVersionMap EXCEPT ![i] = version]
                                   ELSE deviceVersionMap
            /\ flight' \in [Device -> [at : Host \cup {0}, seen : BOOLEAN,
                                       due : BOOLEAN, times : Nat]]
            /\ flight' = [flight EXCEPT ![d] = new]
  <1> DEFINE h == flight[d].at
             i == idOf[d]
             version == IF deviceVersionMap[i] = 0 THEN h ELSE deviceVersionMap[i]
             valid == handleById[i] # nullptr
             new == [at |-> Forward[h], seen |-> TRUE,
                     due |-> IF flight[d].seen THEN flight[d].due ELSE valid,
                     times |-> IF valid /\ version = h THEN flight[d].times + 1
                               ELSE flight[d].times]
             Poses == [at : Host \cup {0}, seen : BOOLEAN, due : BOOLEAN, times : Nat]
  <1>1. h \in Host /\ Forward[h] \in Host \cup {0}
    BY FlightParts, HostAssumption DEF TrackedDevicePoseUpdated
  <1>2. /\ flight' = [flight EXCEPT ![d] = new]
        /\ deviceVersionMap' = IF valid THEN [deviceVersionMap EXCEPT ![i] = version]
                               ELSE deviceVersionMap
    BY DEF TrackedDevicePoseUpdated, hooksTrackedDevicePoseUpdated
  <1>3. new \in Poses
    <2> HIDE DEF version
    <2>1. valid \in BOOLEAN
      OBVIOUS
    <2> HIDE DEF valid
    <2> QED BY <1>1, <2>1, FlightParts
  <1> HIDE DEF new
  <1>4. flight' \in [Device -> Poses]
    BY <1>2, <1>3 DEF TypeOK
  <1> QED BY <1>2, <1>4 DEF new

(* The type invariant, the ids, and the tables of hooks: what TypeOK needs *)
(* to be inductive.                                                        *)
LEMMA TypeStep ==
  ASSUME TypeOK, IdsInv, SoundTables(hooks), DetoursInv, PosesInv, Next
  PROVE  TypeOK'
  <1> USE HostAssumption, DeviceAssumption, IdAssumption
  <1>0. \A d \in Device : activation[d] # "none" => idOf[d] \in Id
    BY DEF IdsInv, TypeOK
  <1>1. ASSUME NEW h \in Host, GetGenericInterface(h) PROVE TypeOK'
    BY <1>1 DEF GetGenericInterface, TypeOK, addVars, activateVars, poseVars
  <1>2. ASSUME NEW d \in Device, Add(d) PROVE TypeOK'
    <2>1. adds' \in [Device -> 0 .. MaxAdds]
      BY <1>2, MaxAddsAssumption DEF Add, TypeOK
    <2>2. adding' \in [Device -> Host \cup {0}]
      BY <1>2 DEF Add, TypeOK
    <2> QED BY <1>2, <2>1, <2>2
            DEF Add, TypeOK, interfaceVars, activateVars, poseVars
  <1>3. ASSUME NEW d \in Device, TrackedDeviceAdded(d) PROVE TypeOK'
    <2>1. /\ hooks' \in Tables
          /\ handle' \in [Device -> [nr : Nat, kind : Kind \cup {NoKind},
                                     enabled : BOOLEAN]]
          /\ passed' \subseteq Device
      BY <1>3, AddedStep DEF TypeOK
    <2>2. firstTrackerActivated' \in BOOLEAN
      BY <1>3 DEF TrackedDeviceAdded, hooksTrackedDeviceAdded, TypeOK
    <2>3. adding' \in [Device -> Host \cup {0}] /\ known' \subseteq Device
      BY <1>3 DEF TrackedDeviceAdded, TypeOK
    <2> QED BY <1>3, <2>1, <2>2, <2>3
            DEF TrackedDeviceAdded, TypeOK, interfaceVars, activateVars, poseVars
  <1>4. ASSUME NEW d \in Device, NEW i \in Id, Activate(d, i) PROVE TypeOK'
    <2>1. /\ activation' \in [Device -> {"none", "refused", "hooked", "published",
                                         "orig", "done", "crashed"}]
          /\ idOf' \in [Device -> Id \cup {NoId}]
          /\ expected' \subseteq Device
      BY <1>4 DEF Activate, TypeOK
    <2> QED BY <1>4, <2>1 DEF Activate, TypeOK, interfaceVars, addVars, poseVars
  <1>5. ASSUME NEW d \in Device, PublishHandle(d) PROVE TypeOK'
    <2>1. Pointer(d) \in Device \X Nat
      BY DEF Pointer, TypeOK
    <2>2. idOf[d] \in Id
      BY <1>0, <1>5 DEF PublishHandle
    <2>3. handleById' \in [Id -> {nullptr} \cup (Device \X Nat)]
      BY <1>5, <2>1, <2>2 DEF PublishHandle, TypeOK
    <2> QED BY <1>5, <2>3 DEF PublishHandle, TypeOK, interfaceVars, addVars, poseVars
  <1>6. ASSUME NEW d \in Device, SetActivated(d) PROVE TypeOK'
    <2>1. idOf[d] \in Id
      BY <1>0, <1>6 DEF SetActivated
    <2>2. /\ deviceActivated' \in [Tracked -> BOOLEAN]
          /\ overrun' \subseteq Id \ Tracked
          /\ firstTrackerActivated' \in BOOLEAN
      <3>1. CASE idOf[d] \in Tracked
        BY <1>6, <3>1 DEF SetActivated, TypeOK
      <3>2. CASE idOf[d] \notin Tracked
        <4>1. /\ overrun' = overrun \cup {idOf[d]}
              /\ firstTrackerActivated' = (firstTrackerActivated \/ idOf[d] = 3)
              /\ deviceActivated' = deviceActivated
          BY <1>6, <3>2 DEF SetActivated
        <4>2. firstTrackerActivated' \in BOOLEAN
          BY <4>1
        <4> QED BY <2>1, <3>2, <4>1, <4>2 DEF TypeOK
      <3> QED BY <3>1, <3>2
    <2> QED BY <1>6, <2>2 DEF SetActivated, TypeOK, interfaceVars, poseVars
  <1>7. ASSUME NEW d \in Device, CallActivate(d) PROVE TypeOK'
    <2>1. activation' \in [Device -> {"none", "refused", "hooked", "published",
                                      "orig", "done", "crashed"}]
      BY <1>7 DEF CallActivate, TypeOK
    <2> QED BY <1>7, <2>1 DEF CallActivate, TypeOK, interfaceVars, addVars, poseVars
  <1>8. ASSUME NEW d \in Device, ReportPose(d) PROVE TypeOK'
    BY <1>8 DEF ReportPose, TypeOK, interfaceVars, addVars, activateVars
  <1>9. ASSUME NEW d \in Device, TrackedDevicePoseUpdated(d) PROVE TypeOK'
    <2>1. flight[d].at \in Host /\ Forward[flight[d].at] \in Host \cup {0}
      BY <1>9 DEF TrackedDevicePoseUpdated, TypeOK
    <2>2. activation[d] = "done"
      BY <1>9 DEF TrackedDevicePoseUpdated, PosesInv, IdlePose
    <2>3. idOf[d] \in Id
      BY <1>0, <2>2
    <2>4. /\ deviceVersionMap' \in [Id -> Host \cup {0}]
          /\ flight' \in [Device -> [at : Host \cup {0}, seen : BOOLEAN,
                                     due : BOOLEAN, times : Nat]]
      <3>1. CASE flight[d].at \in poseHook
        <4>1. flight' \in [Device -> [at : Host \cup {0}, seen : BOOLEAN,
                                      due : BOOLEAN, times : Nat]]
          BY <3>1, <1>9, PassedHook
        <4> DEFINE i == idOf[d]
                   version == IF deviceVersionMap[i] = 0 THEN flight[d].at
                              ELSE deviceVersionMap[i]
        <4>2. deviceVersionMap' = IF handleById[i] # nullptr
                                  THEN [deviceVersionMap EXCEPT ![i] = version]
                                  ELSE deviceVersionMap
          BY <3>1, <1>9, PassedHook
        <4>3. version \in Host \cup {0}
          BY <2>1, <2>3 DEF TypeOK
        <4>4. deviceVersionMap \in [Id -> Host \cup {0}]
          BY DEF TypeOK
        <4> HIDE DEF version
        <4> QED BY <2>3, <4>1, <4>2, <4>3, <4>4
      <3>2. CASE flight[d].at \notin poseHook
        <4>1. /\ deviceVersionMap' = deviceVersionMap
              /\ flight' \in [Device -> [at : Host \cup {0}, seen : BOOLEAN,
                                         due : BOOLEAN, times : Nat]]
          BY <3>2, <1>9, PassedHost
        <4> QED BY <4>1 DEF TypeOK
      <3> QED BY <3>1, <3>2
    <2> QED BY <1>9, <2>4
            DEF TrackedDevicePoseUpdated, TypeOK, interfaceVars, addVars, activateVars
  <1>10. CASE Cleanup
    <2>1. hooks' \in Tables
      BY <1>10 DEF Cleanup, TypeOK, Tables
    <2> QED BY <1>10, <2>1 DEF Cleanup, TypeOK, addVars, activateVars, poseVars
  <1>11. ASSUME NEW d \in Device, GarbageRefused(d) PROVE TypeOK'
    BY <1>11 DEF GarbageRefused, TypeOK, interfaceVars, activateVars, poseVars
  <1> QED BY <1>1, <1>2, <1>3, <1>4, <1>5, <1>6, <1>7, <1>8, <1>9, <1>10, <1>11 DEF Next

LEMMA IdsStep ==
  ASSUME TypeOK, IdsInv, Next
  PROVE  IdsInv'
  <1>1. ASSUME NEW d \in Device, NEW i \in Id, Activate(d, i) PROVE IdsInv'
    <2>1. idOf' = [idOf EXCEPT ![d] = i] /\ \A e \in Device : idOf[e] # i
      BY <1>1 DEF Activate
    <2>2. /\ activation[d] = "none" /\ activation'[d] # "none"
          /\ \A e \in Device : e # d => activation'[e] = activation[e]
      BY <1>1 DEF Activate, TypeOK
    <2>3. i # NoId
      BY IdAssumption
    <2> QED BY <2>1, <2>2, <2>3 DEF IdsInv, TypeOK
  <1>2. ASSUME UNCHANGED idOf,
               \A d \in Device : activation'[d] = "none" <=> activation[d] = "none"
        PROVE  IdsInv'
    BY <1>2 DEF IdsInv
  <1>3. ASSUME NEW d \in Device,
               PublishHandle(d) \/ SetActivated(d) \/ CallActivate(d)
        PROVE  IdsInv'
    BY <1>2, <1>3 DEF PublishHandle, SetActivated, CallActivate, TypeOK
  <1>4. ASSUME UNCHANGED <<idOf, activation>> PROVE IdsInv'
    BY <1>2, <1>4
  <1> QED BY <1>1, <1>3, <1>4
          DEF Next, activateVars, GetGenericInterface, Add, GarbageRefused, TrackedDeviceAdded,
              ReportPose, TrackedDevicePoseUpdated, Cleanup

-----------------------------------------------------------------------------
(* Hooks and handles *)

LEMMA DetoursStep ==
  ASSUME TypeOK, DetoursInv, Next
  PROVE  DetoursInv'
  <1> USE DeviceAssumption
  <1>1. ASSUME UNCHANGED <<hooks, activation>> PROVE DetoursInv'
    BY <1>1 DEF DetoursInv
  <1>2. ASSUME NEW d \in Device, TrackedDeviceAdded(d) PROVE DetoursInv'
    <2>1. SoundTables(hooks') /\ DetoursStay(hooks, hooks')
      BY <1>2, AddedStep DEF DetoursInv
    <2>2. UNCHANGED activation
      BY <1>2 DEF TrackedDeviceAdded, activateVars
    <2> QED BY <2>1, <2>2 DEF DetoursInv, SoundTables, DetoursStay
  <1>3. ASSUME NEW d \in Device, NEW i \in Id, Activate(d, i) PROVE DetoursInv'
    <2> DEFINE k == hooks.detour[ClassOf[d]]
    <2>1. hooks' = hooks
      BY <1>3 DEF Activate
    <2>2. \/ k = NoKind /\ activation' = [activation EXCEPT ![d] = "done"]
          \/ /\ k # NoKind
             /\ activation' = [activation EXCEPT
                                 ![d] = IF hooks.entry[k][ClassOf[d]] = NoEntry
                                        THEN "refused" ELSE "hooked"]
      BY <1>3 DEF Activate
    <2>3. k # NoKind => hooks.entry[k][ClassOf[d]].enabled
      BY DEF DetoursInv, SoundTables
    <2>4. k # NoKind => hooks.entry[k][ClassOf[d]] # NoEntry
      BY <2>3 DEF NoEntry
    <2>5. \A e \in Device : e # d => activation'[e] = activation[e]
      BY <2>2 DEF TypeOK
    <2>6. activation'[d] = IF k = NoKind THEN "done" ELSE "hooked"
      BY <2>2, <2>4 DEF TypeOK
    <2> QED BY <2>1, <2>5, <2>6 DEF DetoursInv, Activating
  <1>4. ASSUME NEW d \in Device, PublishHandle(d) \/ SetActivated(d) PROVE DetoursInv'
    <2>1. /\ hooks' = hooks
          /\ activation[d] \in Activating
          /\ \/ activation' = [activation EXCEPT ![d] = "orig"]
             \/ activation' = [activation EXCEPT ![d] = "published"]
      BY <1>4 DEF PublishHandle, SetActivated, Activating
    <2> QED BY <2>1 DEF DetoursInv, Activating, TypeOK
  <1>5. ASSUME NEW d \in Device, CallActivate(d) PROVE DetoursInv'
    <2> DEFINE k == hooks.detour[ClassOf[d]]
    <2>1. /\ hooks' = hooks
          /\ activation' = [activation EXCEPT
                              ![d] = IF hooks.entry[k][ClassOf[d]].enabled
                                     THEN "done" ELSE "crashed"]
          /\ k # NoKind
      BY <1>5 DEF CallActivate, DetoursInv, Activating
    <2>2. hooks.entry[k][ClassOf[d]].enabled
      BY <2>1 DEF DetoursInv, SoundTables
    <2>3. activation' = [activation EXCEPT ![d] = "done"]
      BY <2>1, <2>2
    <2> QED BY <2>1, <2>3 DEF DetoursInv, Activating, TypeOK
  <1>6. CASE Cleanup
    <2>1. /\ activation' = activation
          /\ hooks'.entry = hooks.entry
          /\ \A c \in Class : hooks'.detour[c] = NoKind
          /\ \A d \in Device : activation[d] \notin Activating
      BY <1>6 DEF Cleanup, activateVars, Activating
    <2> QED BY <2>1 DEF DetoursInv, SoundTables
  <1> QED BY <1>1, <1>2, <1>3, <1>4, <1>5, <1>6
          DEF Next, GetGenericInterface, Add, GarbageRefused, ReportPose, TrackedDevicePoseUpdated,
              activateVars

LEMMA UseCountStep ==
  ASSUME TypeOK, SoundTables(hooks), UseCountIsExact, Next
  PROVE  UseCountIsExact'
  <1> USE DeviceAssumption
  <1>1. ASSUME hooks'.entry = hooks.entry, handle' = handle PROVE UseCountIsExact'
    BY <1>1 DEF UseCountIsExact
  <1>2. ASSUME NEW d \in Device, TrackedDeviceAdded(d) PROVE UseCountIsExact'
    <2>1. CASE adding[d] \notin addedHook
      BY <1>1, <1>2, <2>1 DEF TrackedDeviceAdded
    <2>2. CASE adding[d] \in addedHook
      <3>1. hooksTrackedDeviceAdded(d)
        BY <1>2, <2>2 DEF TrackedDeviceAdded
      <3>2. CASE handle[d] # NoHandle
        <4>1. /\ handle' = handle
              /\ \A l \in Kind, b \in Class : UseCount(hooks', l, b) = UseCount(hooks, l, b)
          BY <3>1, <3>2, AddedEffect
        <4> QED BY <4>1 DEF UseCountIsExact, UseCount
      <3>3. CASE handle[d] = NoHandle
        <4>1. PICK k \in Kind, enabled \in BOOLEAN :
                /\ handle' = [handle EXCEPT ![d] = [nr |-> 1, kind |-> k,
                                                   enabled |-> enabled]]
                /\ \A l \in Kind, b \in Class :
                     UseCount(hooks', l, b) = IF l = k /\ b = ClassOf[d]
                                              THEN UseCount(hooks, l, b) + 1
                                              ELSE UseCount(hooks, l, b)
          BY <3>1, <3>3, AddedEffect
        <4> DEFINE Using(l, b) == {e \in Device : handle[e].kind = l /\ ClassOf[e] = b}
                   UsingNow(l, b) == {e \in Device : handle'[e].kind = l /\ ClassOf[e] = b}
        <4>2. /\ handle'[d].kind = k
              /\ \A e \in Device : e # d => handle'[e] = handle[e]
          BY <4>1 DEF TypeOK
        <4>3. handle[d].kind \notin Kind
          BY <3>3, Kinds DEF NoHandle
        <4>4. ASSUME NEW l \in Kind, NEW b \in Class
              PROVE  UseCount(hooks', l, b) = Cardinality(UsingNow(l, b))
          <5>1. UseCount(hooks, l, b) = Cardinality(Using(l, b))
            BY DEF UseCountIsExact, UseCount
          <5>2. IsFiniteSet(Using(l, b))
            BY FS_Subset
          <5>3. CASE l = k /\ b = ClassOf[d]
            <6>1. UsingNow(l, b) = Using(l, b) \cup {d}
              BY <4>2, <5>3
            <6>2. d \notin Using(l, b)
              BY <4>3
            <6> HIDE DEF Using, UsingNow
            <6>3. Cardinality(UsingNow(l, b)) = Cardinality(Using(l, b)) + 1
              BY <5>2, <6>1, <6>2, FS_AddElement
            <6> QED BY <4>1, <5>1, <5>3, <6>3
          <5>4. CASE ~(l = k /\ b = ClassOf[d])
            <6>1. UsingNow(l, b) = Using(l, b)
              BY <4>2, <4>3, <5>4
            <6> QED BY <4>1, <5>1, <5>4, <6>1
          <5> QED BY <5>3, <5>4
        <4> QED BY <4>4 DEF UseCountIsExact, UseCount
      <3> QED BY <3>2, <3>3
    <2> QED BY <2>1, <2>2
  <1>3. CASE Cleanup
    BY <1>1, <1>3 DEF Cleanup, addVars
  <1> QED BY <1>1, <1>2, <1>3
          DEF Next, GetGenericInterface, Add, GarbageRefused, Activate, PublishHandle, SetActivated,
              CallActivate, ReportPose, TrackedDevicePoseUpdated, addVars

LEMMA PointersDiffer ==
  ASSUME TypeOK, NEW d \in Device
  PROVE  /\ Pointer(d) # nullptr
         /\ \A e \in Device : Pointer(d) = Pointer(e) => d = e
  BY NullAssumption DEF Pointer, TypeOK

LEMMA HandlesStep ==
  ASSUME TypeOK, IdsInv, DetoursInv, HandlesInv, Next
  PROVE  HandlesInv'
  <1> USE DeviceAssumption
  <1>0. \A d \in Device : activation[d] # "none" => idOf[d] \in Id /\ idOf[d] # NoId
    BY IdAssumption DEF IdsInv, TypeOK
  <1>1. ASSUME UNCHANGED <<handle, passed, activateVars>> PROVE HandlesInv'
    BY <1>1 DEF HandlesInv, PublishedIsAlive, ActivationIsSeen, Pointer, activateVars
  <1>2. ASSUME NEW d \in Device, TrackedDeviceAdded(d) PROVE HandlesInv'
    <2>1. /\ \A e \in Device : handle[e] # NoHandle \/ e # d => handle'[e] = handle[e]
          /\ handle[d] = NoHandle => handle'[d] = NoHandle \/ handle'[d].kind \in Kind
          /\ passed \subseteq passed' /\ passed' \subseteq passed \cup {d}
          /\ passed' # passed => handle'[d] # NoHandle
      BY <1>2, AddedStep DEF DetoursInv
    <2>2. UNCHANGED <<expected, activation, handleById, idOf, deviceActivated>>
      BY <1>2 DEF TrackedDeviceAdded, activateVars
    <2>3. \A e \in Device : handle[e] # NoHandle =>
            handle'[e] # NoHandle /\ Pointer(e)' = Pointer(e)
      BY <2>1 DEF Pointer
    <2>4. /\ \A e \in Device : handle'[e] # NoHandle => handle'[e].kind \in Kind
          /\ \A e \in passed' : handle'[e] # NoHandle
      BY <2>1, <2>3 DEF HandlesInv, TypeOK
    <2>5. /\ expected' \subseteq passed'
          /\ \A e \in expected' : activation'[e] # "none"
          /\ \A e \in Device : activation'[e] = "published" =>
               handle'[e] # NoHandle /\ handleById'[idOf'[e]] = Pointer(e)'
      BY <2>1, <2>2, <2>3 DEF HandlesInv
    <2>6. PublishedIsAlive'
      BY <2>2, <2>3 DEF HandlesInv, PublishedIsAlive
    <2>7. ActivationIsSeen'
      <3>1. \A e \in expected : e \in Device /\ handle[e] # NoHandle
        BY DEF HandlesInv, TypeOK
      <3> QED BY <2>2, <2>3, <3>1 DEF HandlesInv, ActivationIsSeen
    <2> QED BY <2>4, <2>5, <2>6, <2>7 DEF HandlesInv
  <1>3. ASSUME NEW d \in Device, NEW i \in Id, Activate(d, i) PROVE HandlesInv'
    <2>1. /\ UNCHANGED <<handle, passed, handleById, deviceActivated>>
          /\ activation[d] = "none" /\ idOf[d] = NoId /\ i # NoId
          /\ activation'[d] \in {"done", "refused", "hooked"}
          /\ activation'[d] = "done" => expected' = expected
          /\ expected' \subseteq expected \cup (passed \cap {d})
          /\ \A e \in Device : e # d => activation'[e] = activation[e] /\ idOf'[e] = idOf[e]
      BY <1>3, IdAssumption DEF Activate, addVars, IdsInv, TypeOK
    <2>2. d \notin expected
      BY <2>1 DEF HandlesInv
    <2>3. PublishedIsAlive'
      <3>1. \A e \in Device : Pointer(e)' = Pointer(e)
        BY <2>1 DEF Pointer
      <3>2. \A j \in Id, e \in Device : idOf[e] = j => idOf'[e] = j
        BY <2>1, IdAssumption
      <3> QED BY <2>1, <3>1, <3>2 DEF HandlesInv, PublishedIsAlive
    <2>4. ActivationIsSeen'
      BY <2>1, <2>2 DEF HandlesInv, ActivationIsSeen, Pointer, TypeOK
    <2>5. \A e \in Device : activation'[e] = "published" =>
            handle'[e] # NoHandle /\ handleById'[idOf'[e]] = Pointer(e)'
      BY <2>1 DEF HandlesInv, Pointer
    <2>6. /\ expected' \subseteq passed'
          /\ \A e \in expected' : activation'[e] # "none"
      BY <2>1 DEF HandlesInv, TypeOK
    <2> QED BY <2>1, <2>3, <2>4, <2>5, <2>6 DEF HandlesInv
  <1>4. ASSUME NEW d \in Device, PublishHandle(d) PROVE HandlesInv'
    <2>1. /\ UNCHANGED <<handle, passed, idOf, expected, deviceActivated>>
          /\ activation[d] = "hooked"
          /\ \A e \in Device : e # d => activation'[e] = activation[e]
          /\ \A e \in Device : Pointer(e)' = Pointer(e)
      BY <1>4 DEF PublishHandle, addVars, Pointer, TypeOK
    <2>2. /\ idOf[d] \in Id /\ idOf[d] # NoId
          /\ \A e \in Device : e # d => idOf[e] # idOf[d]
      BY <1>0, <2>1 DEF IdsInv
    <2>3. CASE handle[d] = NoHandle
      <3>1. activation'[d] = "orig" /\ handleById' = handleById
        BY <1>4, <2>3 DEF PublishHandle, TypeOK
      <3>2. d \notin expected
        BY <2>3 DEF HandlesInv
      <3>3. PublishedIsAlive' /\ ActivationIsSeen'
        BY <2>1, <3>1, <3>2 DEF HandlesInv, PublishedIsAlive, ActivationIsSeen, TypeOK
      <3> QED BY <2>1, <3>1, <3>3 DEF HandlesInv, TypeOK
    <2>4. CASE handle[d] # NoHandle
      <3>1. /\ activation'[d] = "published"
            /\ handleById' = [handleById EXCEPT ![idOf[d]] = Pointer(d)]
        BY <1>4, <2>4 DEF PublishHandle, TypeOK
      <3>2. /\ handleById'[idOf[d]] = Pointer(d)
            /\ \A j \in Id : j # idOf[d] => handleById'[j] = handleById[j]
        BY <2>2, <3>1 DEF TypeOK
      <3>3. PublishedIsAlive'
        <4>1. \A j \in Tracked \cap Id : deviceActivated'[j] => handleById'[j] # nullptr
          BY <2>1, <3>2, PointersDiffer DEF HandlesInv, PublishedIsAlive
        <4>2. ASSUME NEW j \in Id, handleById'[j] # nullptr
              PROVE  \E e \in Device : /\ handle'[e] # NoHandle
                                       /\ handleById'[j] = Pointer(e)' /\ idOf'[e] = j
          BY <2>1, <2>4, <3>2, <4>2 DEF HandlesInv, PublishedIsAlive
        <4> QED BY <4>1, <4>2 DEF PublishedIsAlive
      <3>4. \A e \in Device : e # d /\ activation[e] # "none" =>
              handleById'[idOf[e]] = handleById[idOf[e]]
        BY <1>0, <2>2, <3>2
      <3>5. ActivationIsSeen'
        BY <2>1, <3>1, <3>4 DEF HandlesInv, ActivationIsSeen, TypeOK
      <3>6. \A e \in Device : activation'[e] = "published" =>
              handle'[e] # NoHandle /\ handleById'[idOf'[e]] = Pointer(e)'
        BY <2>1, <2>4, <3>2, <3>4 DEF HandlesInv
      <3> QED BY <2>1, <3>1, <3>3, <3>5, <3>6 DEF HandlesInv, TypeOK
    <2> QED BY <2>3, <2>4
  <1>5. ASSUME NEW d \in Device, SetActivated(d) PROVE HandlesInv'
    <2>1. /\ UNCHANGED <<handle, passed, idOf, expected, handleById>>
          /\ activation[d] = "published" /\ activation'[d] = "orig"
          /\ \A e \in Device : e # d => activation'[e] = activation[e]
          /\ \A j \in Tracked : deviceActivated'[j] => deviceActivated[j] \/ j = idOf[d]
          /\ \A e \in Device : Pointer(e)' = Pointer(e)
      BY <1>5 DEF SetActivated, Pointer, TypeOK
    <2>2. handleById[idOf[d]] = Pointer(d) /\ Pointer(d) # nullptr
      BY <2>1, PointersDiffer DEF HandlesInv
    <2>3. PublishedIsAlive'
      BY <2>1, <2>2 DEF HandlesInv, PublishedIsAlive
    <2>4. ActivationIsSeen'
      BY <2>1, <2>2 DEF HandlesInv, ActivationIsSeen, TypeOK
    <2> QED BY <2>1, <2>3, <2>4 DEF HandlesInv, TypeOK
  <1>6. ASSUME NEW d \in Device, CallActivate(d) PROVE HandlesInv'
    <2>1. /\ UNCHANGED <<handle, passed, idOf, expected, handleById, deviceActivated>>
          /\ activation[d] = "orig" /\ activation'[d] \in {"done", "crashed"}
          /\ \A e \in Device : e # d => activation'[e] = activation[e]
          /\ \A e \in Device : Pointer(e)' = Pointer(e)
      BY <1>6 DEF CallActivate, addVars, Pointer, TypeOK
    <2>2. PublishedIsAlive'
      BY <2>1 DEF HandlesInv, PublishedIsAlive
    <2>3. ActivationIsSeen'
      BY <2>1 DEF HandlesInv, ActivationIsSeen, TypeOK
    <2> QED BY <2>1, <2>2, <2>3 DEF HandlesInv, TypeOK
  <1> QED BY <1>1, <1>2, <1>3, <1>4, <1>5, <1>6
          DEF Next, GetGenericInterface, Add, GarbageRefused, ReportPose, TrackedDevicePoseUpdated,
              Cleanup, addVars

-----------------------------------------------------------------------------
(* Poses *)

LEMMA AheadSelf ==
  ASSUME NEW a \in Host
  PROVE  Ahead(a, a)
  BY DEF Ahead

(* A pose that is not yet at v, which is ahead, is forwarded towards v.    *)
LEMMA AheadNext ==
  ASSUME NEW a \in Host, NEW v \in Host, Ahead(a, v), a # v
  PROVE  Forward[a] # 0 /\ Ahead(Forward[a], v)
  <1>1. Forward[a] # 0
    <2>1. ASSUME Forward[a] = 0 PROVE FALSE
      <3> DEFINE S == {a}
      <3>1. S \in SUBSET Host /\ a \in S
        OBVIOUS
      <3>2. \A h \in S : h # v /\ Forward[h] # 0 => Forward[h] \in S
        BY <2>1
      <3>3. v \in S
        BY <3>1, <3>2 DEF Ahead
      <3> QED BY <3>3
    <2> QED BY <2>1
  <1>2. ASSUME NEW S \in SUBSET Host, Forward[a] \in S,
               \A h \in S : h # v /\ Forward[h] # 0 => Forward[h] \in S
        PROVE  v \in S
    <2> DEFINE T == S \cup {a}
    <2>1. T \in SUBSET Host /\ a \in T
      OBVIOUS
    <2>2. \A h \in T : h # v /\ Forward[h] # 0 => Forward[h] \in T
      BY <1>2
    <2>3. v \in T
      BY <2>1, <2>2 DEF Ahead
    <2> QED BY <2>3
  <1> QED BY <1>1, <1>2 DEF Ahead

(* What a host ahead forwards to is ahead.                                 *)
LEMMA AheadExtend ==
  ASSUME NEW e \in Host, NEW a \in Host, Ahead(e, a), Forward[a] # 0
  PROVE  Ahead(e, Forward[a])
  <1>1. ASSUME NEW S \in SUBSET Host, e \in S,
               \A h \in S : h # Forward[a] /\ Forward[h] # 0 => Forward[h] \in S,
               Forward[a] \notin S
        PROVE  FALSE
    <2>1. \A h \in S : h # a /\ Forward[h] # 0 => Forward[h] \in S
      BY <1>1
    <2>2. a \in S
      BY <1>1, <2>1 DEF Ahead
    <2> QED BY <1>1, <2>2, HostAssumption
  <1> QED BY <1>1 DEF Ahead

LEMMA VersionsStep ==
  ASSUME TypeOK, IdsInv, PosesInv, VersionsInv, Next
  PROVE  VersionsInv'
  <1>0. \A d \in Device : activation[d] # "none" => idOf[d] \in Id
    BY DEF IdsInv, TypeOK
  <1>1. ASSUME UNCHANGED deviceVersionMap,
               \A i \in Id : handleById[i] # nullptr => handleById'[i] # nullptr,
               up' => up /\ poseHook \subseteq poseHook'
        PROVE  VersionsInv'
    BY <1>1 DEF VersionsInv
  <1>2. ASSUME NEW h \in Host, GetGenericInterface(h) PROVE VersionsInv'
    BY <1>1, <1>2 DEF GetGenericInterface, activateVars, poseVars
  <1>3. ASSUME NEW d \in Device, PublishHandle(d) PROVE VersionsInv'
    <2>1. \A i \in Id : handleById'[i] # nullptr \/ handleById'[i] = handleById[i]
      BY <1>3, PointersDiffer DEF PublishHandle, TypeOK
    <2> QED BY <1>1, <1>3, <2>1 DEF PublishHandle, interfaceVars, poseVars
  <1>4. ASSUME NEW d \in Device, TrackedDevicePoseUpdated(d) PROVE VersionsInv'
    <2>1. UNCHANGED <<up, poseHook, handleById>>
      BY <1>4 DEF TrackedDevicePoseUpdated, interfaceVars, activateVars
    <2>2. CASE flight[d].at \notin poseHook
      BY <1>1, <1>4, <2>1, <2>2, PassedHost
    <2>3. CASE flight[d].at \in poseHook
      <3>1. activation[d] = "done"
        BY <1>4 DEF TrackedDevicePoseUpdated, PosesInv, IdlePose
      <3>2. idOf[d] \in Id
        BY <1>0, <3>1
      <3>3. deviceVersionMap' = IF handleById[idOf[d]] # nullptr
                                THEN [deviceVersionMap EXCEPT
                                        ![idOf[d]] = IF deviceVersionMap[idOf[d]] = 0
                                                     THEN flight[d].at
                                                     ELSE deviceVersionMap[idOf[d]]]
                                ELSE deviceVersionMap
        BY <1>4, <2>3, PassedHook
      <3> QED BY <2>1, <2>3, <3>2, <3>3 DEF VersionsInv, TypeOK
    <2> QED BY <2>2, <2>3
  <1>5. CASE Cleanup
    BY <1>1, <1>5 DEF Cleanup, activateVars, poseVars
  <1>6. ASSUME UNCHANGED <<up, poseHook, handleById, deviceVersionMap>> PROVE VersionsInv'
    BY <1>1, <1>6
  <1> QED BY <1>2, <1>3, <1>4, <1>5, <1>6
          DEF Next, Add, GarbageRefused, TrackedDeviceAdded, Activate, SetActivated, CallActivate,
              ReportPose, interfaceVars, activateVars, poseVars

(* The device whose pose passes a host.                                    *)
LEMMA PosePasses ==
  ASSUME TypeOK, IdsInv, VersionsInv, PosesInv,
         NEW d \in Device, TrackedDevicePoseUpdated(d)
  PROVE  /\ activation[d] = "done" /\ PoseOnItsWay(d)'
  <1> USE HostAssumption, DeviceAssumption
  <1> DEFINE h == flight[d].at
             i == idOf[d]
             v == Version(d)
             f == flight'[d]
             w == Version(d)'
  <1>1. activation[d] = "done" /\ PoseOnItsWay(d)
    BY DEF TrackedDevicePoseUpdated, PosesInv, IdlePose
  <1>2. /\ h \in Host /\ i \in Id /\ v \in Host \cup {0} /\ i' = i /\ up' = up
        /\ v # 0 => handleById[i] # nullptr /\ (up => v \in poseHook)
    BY <1>1, FlightParts DEF TrackedDevicePoseUpdated, IdsInv, TypeOK, VersionsInv,
       Version, activateVars
  <1>3. /\ h \in Nat /\ v \in Nat /\ Forward[h] \in Nat
        /\ Forward[h] # 0 => Forward[h] > h
    <2>1. Forward[h] \in Host \cup {0}
      BY <1>2
    <2> HIDE DEF h, v
    <2>2. Forward[h] # 0 => Forward[h] > h
      BY <1>2
    <2>3. \A x \in Host \cup {0} : x \in Nat
      OBVIOUS
    <2>4. h \in Nat /\ v \in Nat /\ Forward[h] \in Nat
      BY <1>2, <2>1, <2>3
    <2> QED BY <2>2, <2>4
  <1>4. /\ v # 0 => Ahead(EntryHost[d], v)
        /\ Ahead(EntryHost[d], h)
        /\ flight[d].due => flight[d].seen /\ v # 0
        /\ flight[d].times \in {0, 1}
        /\ flight[d].times = 1 => v # 0 /\ h > v
        /\ flight[d].times = 0 /\ up /\ v # 0 => Ahead(h, v)
    BY <1>1, <1>2 DEF PoseOnItsWay
  <1>5. Forward[h] # 0 => Ahead(EntryHost[d], Forward[h])
    BY <1>2, <1>4, AheadExtend
  <1>6. flight[d].times = 0 /\ up /\ v # 0 /\ v # h =>
          Forward[h] # 0 /\ Ahead(Forward[h], v)
    BY <1>2, <1>4, AheadNext
  <1>7. flight[d].times = 1 => Forward[h] = 0 \/ Forward[h] > v
    <2> HIDE DEF h, v
    <2> QED BY <1>3, <1>4
  <1>8. CASE h \notin poseHook
    <2>1. /\ w = v /\ f.at = Forward[h]
          /\ f.due = flight[d].due /\ f.times = flight[d].times
          /\ f.seen = flight[d].seen
      BY <1>2, <1>8, PassedHost DEF Version, TypeOK
    <2>2. v # 0 /\ up => v # h
      BY <1>2, <1>8
    <2> HIDE DEF h, i, v, f, w
    <2>3. /\ w # 0 => Ahead(EntryHost[d], w)
          /\ f.at # 0 => Ahead(EntryHost[d], f.at)
          /\ f.due => f.seen /\ w # 0
          /\ f.times \in {0, 1}
          /\ f.times = 1 => w # 0 /\ (f.at = 0 \/ f.at > w)
          /\ f.times = 0 /\ up =>
               /\ f.at # 0 /\ w # 0 => Ahead(f.at, w)
               /\ f.at = 0 => ~f.due
      BY <1>4, <1>5, <1>6, <1>7, <2>1, <2>2
    <2> QED BY <1>1, <1>2, <2>3 DEF PoseOnItsWay, f, w
  <1>9. CASE h \in poseHook
    <2> DEFINE version == IF v = 0 THEN h ELSE v
               valid == handleById[i] # nullptr
               new == [at |-> Forward[h], seen |-> TRUE,
                       due |-> IF flight[d].seen THEN flight[d].due ELSE valid,
                       times |-> IF valid /\ version = h THEN flight[d].times + 1
                                 ELSE flight[d].times]
    <2>1. /\ deviceVersionMap' = IF valid
                                 THEN [deviceVersionMap EXCEPT ![i] = version]
                                 ELSE deviceVersionMap
          /\ flight' = [flight EXCEPT ![d] = new]
      BY <1>9, PassedHook DEF Version
    <2>2. /\ f.at = Forward[h] /\ f.seen
          /\ f.due => flight[d].due \/ valid
          /\ f.times = IF valid /\ version = h THEN flight[d].times + 1
                       ELSE flight[d].times
      <3>1. /\ new.at = Forward[h] /\ new.seen
            /\ new.due => flight[d].due \/ valid
            /\ new.times = IF valid /\ version = h THEN flight[d].times + 1
                           ELSE flight[d].times
        OBVIOUS
      <3> HIDE DEF new
      <3>2. f = new
        BY <2>1 DEF TypeOK
      <3> QED BY <3>1, <3>2
    <2>3. w = IF valid THEN version ELSE v
      <3> HIDE DEF valid, version
      <3> QED BY <1>2, <2>1 DEF Version, TypeOK
    <2>4. h # 0
      BY <1>2
    <2> HIDE DEF h, i, v, f, w
    <2>5. CASE ~valid
      <3>1. v = 0 /\ flight[d].times = 0 /\ ~flight[d].due
        BY <1>2, <1>4, <2>5
      <3>2. w = 0 /\ f.times = 0 /\ ~f.due
        BY <2>2, <2>3, <2>5, <3>1
      <3> QED BY <1>1, <1>5, <2>2, <3>2 DEF PoseOnItsWay, f, w
    <2>6. CASE valid /\ version = h
      <3>1. flight[d].times = 0
        BY <1>2, <1>4, <2>4, <2>6
      <3>2. w = h /\ f.times = 1
        BY <2>2, <2>3, <2>6, <3>1
      <3>3. f.at = 0 \/ f.at > w
        BY <1>3, <2>2, <3>2
      <3> QED BY <1>1, <1>4, <1>5, <2>2, <2>4, <3>2, <3>3 DEF PoseOnItsWay, f, w
    <2>7. CASE valid /\ version # h
      <3>1. v # 0 /\ v # h /\ w = v /\ f.times = flight[d].times
        BY <2>2, <2>3, <2>7
      <3>2. /\ f.times \in {0, 1}
            /\ f.times = 1 => f.at = 0 \/ f.at > w
            /\ f.times = 0 /\ up => f.at # 0 /\ Ahead(f.at, w)
        BY <1>4, <1>6, <1>7, <2>2, <3>1
      <3> QED BY <1>1, <1>2, <1>4, <1>5, <2>2, <3>1, <3>2 DEF PoseOnItsWay, f, w
    <2> QED BY <2>5, <2>6, <2>7
  <1> QED BY <1>8, <1>9

LEMMA PosesStep ==
  ASSUME TypeOK, IdsInv, HandlesInv, VersionsInv, PosesInv, Next
  PROVE  PosesInv'
  <1> USE DeviceAssumption
  <1>0. \A d \in Device : idOf[d] # NoId => idOf[d] \in Id
    BY DEF TypeOK
  <1>1. ASSUME UNCHANGED <<activation, idOf, poseVars>>, up' => up PROVE PosesInv'
    BY <1>1 DEF PosesInv, PoseOnItsWay, IdlePose, Version, poseVars
  <1>2. ASSUME NEW d \in Device, UNCHANGED <<up, poseVars>>, activation[d] # "done",
               \A e \in Device : e # d => activation'[e] = activation[e]
                                          /\ idOf'[e] = idOf[e],
               idOf'[d] # NoId => deviceVersionMap[idOf'[d]] = 0
        PROVE  PosesInv'
    <2>1. ASSUME NEW e \in Device, e # d
          PROVE  IF activation'[e] = "done" THEN PoseOnItsWay(e)' ELSE IdlePose(e)'
      BY <1>2, <2>1 DEF PosesInv, PoseOnItsWay, IdlePose, Version, poseVars
    <2>2. IdlePose(d) /\ IdlePose(d)'
      BY <1>2 DEF PosesInv, IdlePose, Version, poseVars
    <2>3. ASSUME activation'[d] = "done", idOf'[d] # NoId PROVE PoseOnItsWay(d)'
      BY <1>2, <2>2, <2>3 DEF PoseOnItsWay, IdlePose, Version
    <2>4. activation'[d] = "done" => idOf'[d] # NoId
      BY IdsStep DEF IdsInv
    <2> QED BY <2>1, <2>2, <2>3, <2>4 DEF PosesInv
  <1>3. ASSUME NEW d \in Device, NEW i \in Id, Activate(d, i) PROVE PosesInv'
    <2>1. /\ UNCHANGED <<up, poseVars>> /\ activation[d] = "none"
          /\ \A e \in Device : e # d => activation'[e] = activation[e]
                                        /\ idOf'[e] = idOf[e]
          /\ idOf'[d] = i
          /\ \A e \in Device : idOf[e] # i
      BY <1>3 DEF Activate, TypeOK
    <2>2. deviceVersionMap[i] = 0
      BY <2>1 DEF VersionsInv, HandlesInv, PublishedIsAlive
    <2> QED BY <1>2, <2>1, <2>2
  <1>4. ASSUME NEW d \in Device,
               PublishHandle(d) \/ SetActivated(d) \/ CallActivate(d)
        PROVE  PosesInv'
    <2>1. /\ UNCHANGED <<up, idOf, poseVars>> /\ activation[d] # "done"
          /\ \A e \in Device : e # d => activation'[e] = activation[e]
      BY <1>4 DEF PublishHandle, SetActivated, CallActivate, TypeOK
    <2>2. idOf[d] # NoId => deviceVersionMap[idOf[d]] = 0
      BY <2>1 DEF PosesInv, IdlePose, Version
    <2> QED BY <1>2, <2>1, <2>2
  <1>5. ASSUME NEW d \in Device, ReportPose(d) PROVE PosesInv'
    <2>1. /\ UNCHANGED <<up, activation, idOf, deviceVersionMap>>
          /\ activation[d] = "done"
          /\ flight' = [flight EXCEPT ![d] = [at |-> EntryHost[d], seen |-> FALSE,
                                              due |-> FALSE, times |-> 0]]
      BY <1>5 DEF ReportPose, activateVars
    <2>2. /\ flight'[d].at = EntryHost[d] /\ ~flight'[d].due /\ flight'[d].times = 0
          /\ \A e \in Device : e # d => flight'[e] = flight[e]
      BY <2>1 DEF TypeOK
    <2>3. EntryHost[d] \in Host /\ EntryHost[d] # 0 /\ Ahead(EntryHost[d], EntryHost[d])
      BY HostAssumption, AheadSelf
    <2>4. PoseOnItsWay(d)'
      BY <2>1, <2>2, <2>3 DEF PosesInv, PoseOnItsWay, Version
    <2> QED BY <2>1, <2>2, <2>4 DEF PosesInv, PoseOnItsWay, IdlePose, Version
  <1>6. ASSUME NEW d \in Device, TrackedDevicePoseUpdated(d) PROVE PosesInv'
    <2>1. activation[d] = "done" /\ PoseOnItsWay(d)'
      BY <1>6, PosePasses
    <2>2. UNCHANGED <<up, activation, idOf>>
      BY <1>6 DEF TrackedDevicePoseUpdated, activateVars
    <2>3. /\ \A e \in Device : e # d => flight'[e] = flight[e]
          /\ \A i \in Id : i # idOf[d] => deviceVersionMap'[i] = deviceVersionMap[i]
      <3>1. CASE flight[d].at \in poseHook
        BY <1>6, <3>1, PassedHook DEF TypeOK
      <3>2. CASE flight[d].at \notin poseHook
        BY <1>6, <3>2, PassedHost DEF TypeOK
      <3> QED BY <3>1, <3>2
    <2>4. \A e \in Device : e # d /\ idOf[e] # NoId => idOf[e] # idOf[d]
      BY DEF IdsInv
    <2>5. ASSUME NEW e \in Device, e # d
          PROVE  IF activation'[e] = "done" THEN PoseOnItsWay(e)' ELSE IdlePose(e)'
      <3>1. idOf[e] # NoId => Version(e)' = Version(e)
        BY <1>0, <2>2, <2>3, <2>4, <2>5 DEF Version
      <3>2. activation[e] = "done" => idOf[e] # NoId
        BY DEF IdsInv
      <3> QED BY <2>2, <2>3, <2>5, <3>1, <3>2 DEF PosesInv, PoseOnItsWay, IdlePose
    <2> QED BY <2>1, <2>2, <2>5 DEF PosesInv
  <1>7. CASE Cleanup
    BY <1>1, <1>7 DEF Cleanup, activateVars
  <1> QED BY <1>1, <1>3, <1>4, <1>5, <1>6, <1>7
          DEF Next, GetGenericInterface, Add, GarbageRefused, TrackedDeviceAdded, activateVars

-----------------------------------------------------------------------------
(* The theorems *)

LEMMA InvInit ==
  Init => IInv
  <1> SUFFICES ASSUME Init PROVE IInv
    OBVIOUS
  <1>1. TypeOK
    BY TypeInit
  <1>2. IdsInv
    BY DEF Init, IdsInv
  <1>3. DetoursInv
    BY DEF Init, DetoursInv, SoundTables, NoEntry, Activating
  <1>4. UseCountIsExact
    <2>1. ASSUME NEW k \in Kind, NEW c \in Class
          PROVE  /\ hooks.entry[k][c].useCount = 0
                 /\ {d \in Device : handle[d].kind = k /\ ClassOf[d] = c} = {}
      BY Kinds DEF Init, NoEntry, NoHandle
    <2> QED BY <2>1, FS_EmptySet DEF UseCountIsExact
  <1>5. HandlesInv
    BY DEF Init, HandlesInv, PublishedIsAlive, ActivationIsSeen
  <1>6. VersionsInv
    BY DEF Init, VersionsInv
  <1>7. PosesInv
    BY <1>2 DEF Init, PosesInv, IdlePose
  <1> QED BY <1>1, <1>2, <1>3, <1>4, <1>5, <1>6, <1>7 DEF IInv

LEMMA InvStep ==
  IInv /\ [Next]_vars => IInv'
  <1> SUFFICES ASSUME IInv, [Next]_vars PROVE IInv'
    OBVIOUS
  <1>1. CASE Next
    <2>1. TypeOK' /\ IdsInv' /\ DetoursInv' /\ UseCountIsExact' /\ HandlesInv'
      BY <1>1, TypeStep, IdsStep, DetoursStep, UseCountStep, HandlesStep
         DEF IInv, DetoursInv
    <2>2. VersionsInv' /\ PosesInv'
      BY <1>1, VersionsStep, PosesStep DEF IInv
    <2> QED BY <2>1, <2>2 DEF IInv
  <1>2. CASE UNCHANGED vars
    <2> USE <1>2 DEF vars, interfaceVars, addVars, activateVars, poseVars
    <2>1. TypeOK' /\ IdsInv' /\ DetoursInv' /\ UseCountIsExact'
      BY DEF IInv, TypeOK, IdsInv, DetoursInv, UseCountIsExact
    <2>2. HandlesInv' /\ VersionsInv'
      BY DEF IInv, HandlesInv, PublishedIsAlive, ActivationIsSeen, Pointer, VersionsInv
    <2>3. PosesInv'
      BY DEF IInv, PosesInv, PoseOnItsWay, IdlePose, Version
    <2> QED BY <2>1, <2>2, <2>3 DEF IInv
  <1> QED BY <1>1, <1>2

(* Every reachable state satisfies the inductive invariant.                *)
THEOREM Invariance ==
  Spec => []IInv
  BY InvInit, InvStep, PTL DEF Spec

(* TypeOK holds for any devices, classes, hosts and ids.                   *)
THEOREM TypeCorrect ==
  Spec => []TypeOK
  <1>1. IInv => TypeOK
    BY DEF IInv
  <1> QED BY <1>1, Invariance, PTL

(* No hooked Activate finds its table without an entry, or with one whose  *)
(* original function is missing: ITrackedDeviceServerDriver00kHooks.       *)
THEOREM HooksSound ==
  Spec => []HooksAreSound
  <1>1. IInv => HooksAreSound
    <2> SUFFICES ASSUME IInv PROVE HooksAreSound
      OBVIOUS
    <2>1. ASSUME NEW c \in Class, hooks.detour[c] # NoKind
          PROVE  /\ hooks.entry[hooks.detour[c]][c].enabled
                 /\ hooks.entry[hooks.detour[c]][c] # NoEntry
      <3>1. hooks.entry[hooks.detour[c]][c].enabled
        BY <2>1 DEF IInv, DetoursInv, SoundTables
      <3> QED BY <3>1 DEF NoEntry
    <2> QED BY <2>1 DEF HooksAreSound, IInv, DetoursInv
  <1> QED BY <1>1, Invariance, PTL

(* The use count of an entry is the number of handles that hold its hook,  *)
(* however often their devices were added again.                           *)
THEOREM UseCountsExact ==
  Spec => []UseCountIsExact
  <1>1. IInv => UseCountIsExact
    BY DEF IInv
  <1> QED BY <1>1, Invariance, PTL

(* The table of ids, which RunFrame and the pose hook use, holds only      *)
(* living handles, and one for every flag that is set.                     *)
THEOREM HandlesAlive ==
  Spec => []PublishedIsAlive
  <1>1. IInv => PublishedIsAlive
    BY DEF IInv, HandlesInv
  <1> QED BY <1>1, Invariance, PTL

(* A hooked device's own Activate runs after its handle is published.      *)
THEOREM ActivationsSeen ==
  Spec => []ActivationIsSeen
  <1>1. IInv => ActivationIsSeen
    BY DEF IInv, HandlesInv
  <1> QED BY <1>1, Invariance, PTL

(* A pose is compensated once, whatever chain of hosts it passes and in    *)
(* whatever order they were hooked: hooksTrackedDevicePoseUpdated.         *)
THEOREM PosesCompensatedOnce ==
  Spec => []CompensatedOnce
  <1>1. IInv => CompensatedOnce
    BY DEF IInv, PosesInv, PoseOnItsWay, IdlePose, CompensatedOnce
  <1> QED BY <1>1, Invariance, PTL

(* Until Cleanup no detour is removed or changes hands.                    *)
THEOREM DetoursStayInPlace ==
  Spec => HooksStay
  <1>1. IInv /\ [Next]_vars =>
          [\A c \in Class :
             hooks.detour[c] # NoKind /\ up' => hooks'.detour[c] = hooks.detour[c]]_vars
    <2> SUFFICES ASSUME IInv, Next, NEW c \in Class, hooks.detour[c] # NoKind, up'
                 PROVE  hooks'.detour[c] = hooks.detour[c]
      OBVIOUS
    <2>1. ASSUME NEW d \in Device, TrackedDeviceAdded(d)
          PROVE  hooks'.detour[c] = hooks.detour[c]
      BY <2>1, AddedStep DEF IInv, DetoursInv, DetoursStay
    <2>2. CASE UNCHANGED hooks
      BY <2>2
    <2>3. CASE Cleanup
      BY <2>3 DEF Cleanup
    <2> QED BY <2>1, <2>2, <2>3
            DEF Next, GetGenericInterface, Add, GarbageRefused, Activate, PublishHandle, SetActivated,
                CallActivate, ReportPose, TrackedDevicePoseUpdated
  <1> QED BY <1>1, Invariance, PTL DEF Spec, HooksStay
=============================================================================
