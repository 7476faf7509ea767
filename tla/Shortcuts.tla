------------------------------ MODULE Shortcuts ------------------------------
(***************************************************************************)
(* The two global shortcuts of the overlay (DeviceManipulationTab-         *)
(* Controller and QGlobalShortcut): the keys they are set to, what the     *)
(* settings file keeps of them, and the hot keys that Windows holds for    *)
(* the process.                                                            *)
(*                                                                         *)
(* A key stands for a key with its modifiers.  Windows knows a hot key by  *)
(* a number, which QGlobalShortcut computes as key XOR modifiers, so that  *)
(* two keys may share one.                                                 *)
(***************************************************************************)
EXTENDS Naturals

CONSTANTS Key,    \* keys with modifiers
          winId   \* the number of each

ASSUME WinIdAssumption == winId \in [Key -> Nat]

Unset == "Key_unknown"

ASSUME UnsetAssumption == Unset \notin Key

Toggle == 0         \* "Enable / Disable Motion Compensation"
ResetZeroPose == 1  \* "Reset reference zero pose"
Shortcut == {Toggle, ResetZeroPose}

VARIABLES running,     \* the overlay is
          keys,        \* shortcut[id].key and the keys of its QGlobalShortcut
          stored,      \* the group motionCompensationShortcuts of the settings
          registered   \* the process's hot keys

shortcutVars == <<keys, stored, registered>>

NoKeys == [i \in Shortcut |-> Unset]

ShortcutsInit ==
  /\ running = FALSE
  /\ keys = NoKeys
  /\ stored = NoKeys
  /\ registered = {}

-----------------------------------------------------------------------------
(* Windows drops every hot key of the number. *)
UnregisterHotKey(hot, k) == {h \in hot : winId[h] # winId[k]}

unsetShortcut(hot, old) == IF old = Unset THEN hot ELSE UnregisterHotKey(hot, old)

(* Bug: the hot key of the old key stays registered. *)
setShortcutOverOld(hot, old, new) == hot \cup {new}

(* Registering a key that is taken fails, which nobody looks at. *)
setShortcut(hot, old, new) == unsetShortcut(hot, old) \cup {new}

(* Bug: saving while loading goes to the group that is being loaded. *)
LoadKeyIntoGroup(s, i) ==
  IF s.stored[i] = Unset THEN s
  ELSE LET set == [s.keys EXCEPT ![i] = s.stored[i]] IN
       [keys |-> set, stored |-> set,
        registered |-> setShortcut(s.registered, s.keys[i], s.stored[i])]

(* reloadMotionCompensationSettings, for one shortcut.  The newKey it calls
   saves both shortcuts, but inside the group that is open: into a group
   within the group, which nothing reads. *)
LoadKey(s, i) ==
  IF s.stored[i] = Unset THEN s
  ELSE [keys |-> [s.keys EXCEPT ![i] = s.stored[i]], stored |-> s.stored,
        registered |-> setShortcut(s.registered, s.keys[i], s.stored[i])]

LoadShortcuts ==
  LET fresh == [keys |-> NoKeys, stored |-> stored, registered |-> {}]
      loaded == LoadKey(LoadKey(fresh, Toggle), ResetZeroPose)
  IN /\ ~running
     /\ running' = TRUE
     /\ keys' = loaded.keys
     /\ stored' = loaded.stored
     /\ registered' = loaded.registered

newKey(i, k) ==
  /\ running
  /\ keys' = [keys EXCEPT ![i] = k]
  /\ registered' = setShortcut(registered, keys[i], k)
  /\ stored' = keys'
  /\ UNCHANGED running

(* A key that is removed is not saved. *)
removeKey(i) ==
  /\ running
  /\ keys' = [keys EXCEPT ![i] = Unset]
  /\ registered' = unsetShortcut(registered, keys[i])
  /\ UNCHANGED <<running, stored>>

saveMotionCompensationShortcuts ==
  /\ running
  /\ stored' = keys
  /\ UNCHANGED <<running, keys, registered>>

(* The process ends, and its hot keys with it. *)
EndShortcuts ==
  /\ running
  /\ running' = FALSE
  /\ keys' = NoKeys
  /\ registered' = {}
  /\ UNCHANGED stored

(* The shortcut that hot key k sets off: both filters compare the number,
   and the one installed last comes first. *)
Activated(k) ==
  IF keys[ResetZeroPose] # Unset /\ winId[keys[ResetZeroPose]] = winId[k]
    THEN ResetZeroPose ELSE Toggle

ShortcutsNext ==
  \/ LoadShortcuts
  \/ \E i \in Shortcut, k \in Key : newKey(i, k)
  \/ \E i \in Shortcut : removeKey(i)
  \/ saveMotionCompensationShortcuts
  \/ EndShortcuts

ShortcutsSpec == ShortcutsInit /\ [][ShortcutsNext]_<<running, shortcutVars>>

-----------------------------------------------------------------------------
ShortcutsTypeOK ==
  /\ running \in BOOLEAN
  /\ keys \in [Shortcut -> Key \cup {Unset}]
  /\ stored \in [Shortcut -> Key \cup {Unset}]
  /\ registered \subseteq Key

(* The overlay takes no key away from other programs that neither of its
   shortcuts is set to now, after any number of changes (setShortcut and
   unsetShortcut), nor any key when it does not run. *)
NoStaleHotKey == registered \subseteq {keys[i] : i \in Shortcut}

(* Starting the overlay sets both shortcuts to what the settings hold and
   leaves the settings as they are, although loading the first one saves
   both (newKey calls saveMotionCompensationShortcuts, line 290 of
   DeviceManipulationTabController.cpp). *)
RestartRestores ==
  [][~running /\ running' => keys' = stored /\ stored' = stored]_<<running, shortcutVars>>
=============================================================================
