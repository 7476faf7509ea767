-------------------------- MODULE OverlayTab_proofs --------------------------
(***************************************************************************)
(* About Shortcuts, for any keys and any way of numbering them: variables  *)
(* have their types, the process holds no hot key that neither shortcut is *)
(* set to, and a start restores what was saved.  The overlay's tab is made *)
(* of actions of Shortcuts, so that all this holds for the whole overlay.  *)
(*                                                                         *)
(* About the tab, for any devices: its list, page and settings have their  *)
(* types; while it takes compensation for on, the driver compensates with  *)
(* the devices it remembers; and the shortcut switches both off.  The      *)
(* invariant is about what a request leaves in the driver: the devices in  *)
(* use (InUse), those just sent (Sent) and those remembered by serials.    *)
(***************************************************************************)
EXTENDS OverlayTab, FiniteSetTheorems, TLAPS

allVars == <<running, shortcutVars>>

KeySettings == [Shortcut -> Key \cup {Unset}]
HotKeysOf(set) == {set[j] : j \in Shortcut}

(* Clearing a shortcut leaves no hot key of its old key, also when another
   key has the same number, and takes none that is not registered. *)
LEMMA UnsetKey ==
  ASSUME NEW hot, NEW set \in KeySettings, NEW i \in Shortcut,
         hot \subseteq Key, hot \subseteq HotKeysOf(set)
  PROVE  /\ unsetShortcut(hot, set[i]) \subseteq hot
         /\ unsetShortcut(hot, set[i])
              \subseteq {set[j] : j \in Shortcut \ {i}}
<1>1. unsetShortcut(hot, set[i]) \subseteq hot
  BY DEF unsetShortcut, UnregisterHotKey
<1>2. ASSUME NEW h \in unsetShortcut(hot, set[i])
      PROVE  \E j \in Shortcut \ {i} : h = set[j]
  <2>1. h \in hot /\ h # Unset /\ h # set[i]
    BY <1>2, UnsetAssumption DEF unsetShortcut, UnregisterHotKey
  <2>2. PICK j \in Shortcut : h = set[j]
    BY <2>1 DEF HotKeysOf
  <2>. QED  BY <2>1, <2>2
<1>. QED  BY <1>1, <1>2

(* Setting a shortcut leaves the hot keys of the new setting. *)
LEMMA SetKey ==
  ASSUME NEW hot, NEW set \in KeySettings, NEW i \in Shortcut, NEW k \in Key,
         hot \subseteq Key, hot \subseteq HotKeysOf(set)
  PROVE  LET new == [set EXCEPT ![i] = k] IN
         /\ new \in KeySettings
         /\ setShortcut(hot, set[i], k) \subseteq Key
         /\ setShortcut(hot, set[i], k) \subseteq HotKeysOf(new)
<1> DEFINE new == [set EXCEPT ![i] = k]
<1>1. new \in KeySettings /\ new[i] = k
      /\ \A j \in Shortcut \ {i} : new[j] = set[j]
  BY DEF KeySettings
<1>2. unsetShortcut(hot, set[i]) \subseteq Key
      /\ unsetShortcut(hot, set[i]) \subseteq {set[j] : j \in Shortcut \ {i}}
  BY UnsetKey
<1>3. setShortcut(hot, set[i], k) \subseteq HotKeysOf(new)
  <2>1. {set[j] : j \in Shortcut \ {i}} \subseteq HotKeysOf(new)
    BY <1>1 DEF HotKeysOf
  <2>2. k \in HotKeysOf(new)
    BY <1>1 DEF HotKeysOf
  <2>. QED  BY <1>2, <2>1, <2>2 DEF setShortcut
<1>. QED  BY <1>1, <1>2, <1>3 DEF setShortcut

-----------------------------------------------------------------------------
IInv == ShortcutsTypeOK /\ NoStaleHotKey

(* What loading works on: IInv of a record, and settings that stay. *)
Loading ==
  [keys : KeySettings, stored : KeySettings, registered : SUBSET Key]

Consistent(s) == s \in Loading /\ s.registered \subseteq HotKeysOf(s.keys)

(* Loading one shortcut sets that one, and touches no setting that is saved. *)
LEMMA LoadOne ==
  ASSUME NEW s, Consistent(s), NEW i \in Shortcut, s.keys[i] = Unset
  PROVE  /\ Consistent(LoadKey(s, i))
         /\ LoadKey(s, i).stored = s.stored
         /\ LoadKey(s, i).keys = [s.keys EXCEPT ![i] = s.stored[i]]
<1>1. s.keys \in KeySettings /\ s.stored \in KeySettings /\ s.registered \subseteq Key
      /\ s.registered \subseteq HotKeysOf(s.keys)
  BY DEF Consistent, Loading
<1>2. CASE s.stored[i] = Unset
  <2>1. LoadKey(s, i) = s
    BY <1>2, Zenon DEF LoadKey
  <2>2. s.keys = [s.keys EXCEPT ![i] = s.stored[i]]
    BY <1>1, <1>2 DEF KeySettings
  <2>. QED  BY <2>1, <2>2
<1>3. CASE s.stored[i] # Unset
  <2> DEFINE k == s.stored[i]
             set == [s.keys EXCEPT ![i] = k]
             hot == setShortcut(s.registered, s.keys[i], k)
             r == [keys |-> set, stored |-> s.stored, registered |-> hot]
  <2>1. LoadKey(s, i) = r
    BY <1>3, Zenon DEF LoadKey
  <2>2. k \in Key
    BY <1>1, <1>3 DEF KeySettings
  <2>3. set \in KeySettings /\ hot \subseteq Key /\ hot \subseteq HotKeysOf(set)
    BY <1>1, <2>2, SetKey
  <2> HIDE DEF set, hot
  <2>4. r.keys = set /\ r.stored = s.stored /\ r.registered = hot /\ r \in Loading
    BY <1>1, <2>3 DEF Loading
  <2>5. Consistent(r)
    BY <2>3, <2>4 DEF Consistent
  <2>. QED  BY <2>1, <2>4, <2>5 DEF set
<1>. QED  BY <1>2, <1>3

(* Loading both makes the shortcuts what is saved. *)
LEMMA LoadBoth ==
  ASSUME stored \in KeySettings, LoadShortcuts
  PROVE  /\ keys' = stored /\ stored' = stored /\ running'
         /\ registered' \subseteq Key
         /\ registered' \subseteq HotKeysOf(keys')
<1> DEFINE fresh == [keys |-> NoKeys, stored |-> stored, registered |-> {}]
           one == LoadKey(fresh, Toggle)
           two == LoadKey(one, ResetZeroPose)
<1>1. /\ Consistent(fresh)
      /\ fresh.keys = NoKeys /\ fresh.stored = stored
      /\ NoKeys \in KeySettings
      /\ Toggle \in Shortcut /\ ResetZeroPose \in Shortcut
      /\ NoKeys[Toggle] = Unset
  BY DEF Consistent, Loading, KeySettings, NoKeys, HotKeysOf, Shortcut
<1>2. /\ Consistent(one) /\ one.stored = stored
      /\ one.keys = [NoKeys EXCEPT ![Toggle] = stored[Toggle]]
  <2> HIDE DEF fresh
  <2>. QED  BY <1>1, LoadOne
<1>3. one.keys[ResetZeroPose] = Unset
  BY <1>2 DEF NoKeys, Shortcut, Toggle, ResetZeroPose
<1>4. /\ Consistent(two) /\ two.stored = stored
      /\ two.keys = [one.keys EXCEPT ![ResetZeroPose] = stored[ResetZeroPose]]
  <2> HIDE DEF one
  <2>. QED  BY <1>1, <1>2, <1>3, LoadOne
<1>5. two.keys = stored
  <2>1. stored = [i \in Shortcut |-> stored[i]]
    BY DEF KeySettings
  <2>2. two.keys = [[NoKeys EXCEPT ![Toggle] = stored[Toggle]]
                      EXCEPT ![ResetZeroPose] = stored[ResetZeroPose]]
    BY <1>2, <1>4
  <2> HIDE DEF two
  <2>. QED  BY <2>1, <2>2 DEF NoKeys, Shortcut, Toggle, ResetZeroPose
<1>6. /\ running' = TRUE /\ keys' = two.keys
      /\ stored' = two.stored /\ registered' = two.registered
  BY DEF LoadShortcuts
<1>7. two.registered \subseteq Key /\ two.registered \subseteq HotKeysOf(two.keys)
  <2> HIDE DEF two
  <2>. QED  BY <1>4 DEF Consistent, Loading
<1> HIDE DEF two
<1>. QED  BY <1>4, <1>5, <1>6, <1>7

-----------------------------------------------------------------------------
LEMMA InitIInv == ShortcutsInit => IInv
BY DEF ShortcutsInit, IInv, ShortcutsTypeOK, NoStaleHotKey, NoKeys

LEMMA NextIInv == IInv /\ [ShortcutsNext]_allVars => IInv'
<1> SUFFICES ASSUME IInv, [ShortcutsNext]_allVars PROVE IInv'
  OBVIOUS
<1>0. /\ running \in BOOLEAN /\ keys \in KeySettings /\ stored \in KeySettings
      /\ registered \subseteq Key /\ registered \subseteq HotKeysOf(keys)
  BY DEF IInv, ShortcutsTypeOK, NoStaleHotKey, KeySettings, HotKeysOf
<1> DEFINE Goal ==
      /\ running' \in BOOLEAN /\ keys' \in KeySettings /\ stored' \in KeySettings
      /\ registered' \subseteq Key /\ registered' \subseteq HotKeysOf(keys')
<1>1. CASE LoadShortcuts
  <2>1. Goal
    BY <1>0, <1>1, LoadBoth
  <2>. QED
    BY <2>1 DEF IInv, ShortcutsTypeOK, NoStaleHotKey, KeySettings, HotKeysOf
<1>2. ASSUME NEW i \in Shortcut, NEW k \in Key, newKey(i, k)
      PROVE  IInv'
  <2>1. Goal
    <3>1. /\ [keys EXCEPT ![i] = k] \in KeySettings
          /\ setShortcut(registered, keys[i], k) \subseteq Key
          /\ setShortcut(registered, keys[i], k)
               \subseteq HotKeysOf([keys EXCEPT ![i] = k])
      BY <1>0, SetKey
    <3>. QED  BY <1>0, <1>2, <3>1 DEF newKey
  <2>. QED
    BY <2>1 DEF IInv, ShortcutsTypeOK, NoStaleHotKey, KeySettings, HotKeysOf
<1>3. ASSUME NEW i \in Shortcut, removeKey(i)
      PROVE  IInv'
  <2>1. Goal
    <3>1. /\ unsetShortcut(registered, keys[i]) \subseteq registered
          /\ unsetShortcut(registered, keys[i])
               \subseteq {keys[j] : j \in Shortcut \ {i}}
      BY <1>0, UnsetKey
    <3>2. {keys[j] : j \in Shortcut \ {i}} \subseteq HotKeysOf(keys')
      <4>1. \A j \in Shortcut \ {i} : keys'[j] = keys[j]
        BY <1>0, <1>3 DEF removeKey, KeySettings
      <4>. QED  BY <4>1 DEF HotKeysOf
    <3>3. keys' \in KeySettings
      BY <1>0, <1>3 DEF removeKey, KeySettings
    <3>. QED  BY <1>0, <1>3, <3>1, <3>2, <3>3 DEF removeKey
  <2>. QED
    BY <2>1 DEF IInv, ShortcutsTypeOK, NoStaleHotKey, KeySettings, HotKeysOf
<1>4. CASE saveMotionCompensationShortcuts
  BY <1>0, <1>4 DEF saveMotionCompensationShortcuts, IInv, ShortcutsTypeOK,
                    NoStaleHotKey, KeySettings, HotKeysOf
<1>5. CASE EndShortcuts
  BY <1>0, <1>5 DEF EndShortcuts, IInv, ShortcutsTypeOK, NoStaleHotKey, NoKeys,
                    KeySettings, HotKeysOf
<1>6. CASE UNCHANGED allVars
  BY <1>0, <1>6 DEF allVars, shortcutVars, IInv, ShortcutsTypeOK, NoStaleHotKey,
                    KeySettings, HotKeysOf
<1>. QED
  BY <1>1, <1>2, <1>3, <1>4, <1>5, <1>6 DEF ShortcutsNext

LEMMA Invariance == ShortcutsSpec => []IInv
<1>1. ShortcutsSpec => ShortcutsInit /\ [][ShortcutsNext]_allVars
  BY DEF ShortcutsSpec, allVars
<1>. QED  BY <1>1, InitIInv, NextIInv, PTL

(* Type correctness of the shortcuts, for any keys. *)
THEOREM TypeCorrect == ShortcutsSpec => []ShortcutsTypeOK
<1>1. IInv => ShortcutsTypeOK
  BY DEF IInv
<1>. QED  BY <1>1, Invariance, PTL

(* However often shortcuts are set, removed, saved and loaded, and although
   two keys may share the number that Windows knows them by, the process
   holds only hot keys that a shortcut is set to (setShortcut and
   unsetShortcut of QGlobalShortcut). *)
THEOREM HotKeysAreSet == ShortcutsSpec => []NoStaleHotKey
<1>1. IInv => NoStaleHotKey
  BY DEF IInv
<1>. QED  BY <1>1, Invariance, PTL

(* A start restores both shortcuts and changes nothing that is saved, although
   each one it loads saves both (reloadMotionCompensationSettings). *)
THEOREM StartRestores == ShortcutsSpec => RestartRestores
<1>1. IInv /\ [ShortcutsNext]_allVars
        => [~running /\ running' => keys' = stored /\ stored' = stored]_allVars
  <2> SUFFICES ASSUME IInv, ShortcutsNext, ~running, running'
               PROVE  keys' = stored /\ stored' = stored
    BY DEF allVars
  <2>1. stored \in KeySettings
    BY DEF IInv, ShortcutsTypeOK, KeySettings
  <2>2. LoadShortcuts
    BY DEF ShortcutsNext, newKey, removeKey, saveMotionCompensationShortcuts,
           EndShortcuts
  <2>. QED  BY <2>1, <2>2, LoadBoth
<1>2. ShortcutsSpec => ShortcutsInit /\ [][ShortcutsNext]_allVars
  BY DEF ShortcutsSpec, allVars
<1>. QED  BY <1>1, <1>2, Invariance, PTL DEF RestartRestores, allVars

-----------------------------------------------------------------------------
(* Each action of the tab is an action of Shortcuts, or leaves its state. *)
LEMMA StepRefines == [Next]_vars => [ShortcutsNext]_allVars
<1> SUFFICES ASSUME [Next]_vars PROVE [ShortcutsNext]_allVars
  OBVIOUS
<1> USE DEF allVars
<1>1. ASSUME NEW d, Connect(d) PROVE UNCHANGED allVars
  BY <1>1 DEF Connect
<1>2. CASE RestartSteamVR
  BY <1>2 DEF RestartSteamVR, ShortcutsNext
<1>3. CASE Start
  BY <1>3 DEF Start, ShortcutsNext
<1>4. CASE End
  BY <1>4 DEF End, ShortcutsNext
<1>5. CASE Dashboard
  BY <1>5 DEF Dashboard
<1>6. CASE eventLoopTick
  BY <1>6 DEF eventLoopTick
<1>7. ASSUME NEW i, SelectTracker(i) PROVE UNCHANGED allVars
  BY <1>7 DEF SelectTracker
<1>8. CASE CheckBox
  BY <1>8 DEF CheckBox
<1>9. CASE applySettings
  BY <1>9 DEF applySettings
<1>10. CASE Applied
  BY <1>10 DEF Applied, ShortcutsNext
<1>11. ASSUME NEW k, Press(k) PROVE UNCHANGED allVars
  BY <1>11 DEF Press
<1>12. CASE ChangeShortcut
  BY <1>12 DEF ChangeShortcut, ShortcutsNext
<1>13. CASE UNCHANGED vars
  BY <1>13 DEF vars
<1>. QED
  BY <1>1, <1>2, <1>3, <1>4, <1>5, <1>6, <1>7, <1>8, <1>9, <1>10, <1>11, <1>12,
     <1>13 DEF Next

(* So what holds of Shortcuts holds here: no step of the tab, of the driver or
   of SteamVR changes a shortcut, its hot key or its setting in another way. *)
LEMMA ShortcutsWithin == Spec => ShortcutsSpec
<1>1. Init => ShortcutsInit
  BY DEF Init
<1>2. Spec => Init /\ [][Next]_vars
  BY DEF Spec
<1>3. ShortcutsInit /\ [][ShortcutsNext]_allVars => ShortcutsSpec
  BY DEF ShortcutsSpec, allVars
<1>. QED  BY <1>1, <1>2, <1>3, StepRefines, PTL

(* The hot keys are those of the shortcuts whatever the tab does, *)
THEOREM TabHotKeysAreSet == Spec => []NoStaleHotKey
<1>. QED  BY ShortcutsWithin, HotKeysAreSet, PTL

(* and each start of the overlay restores them. *)
THEOREM TabStartRestores == Spec => RestartRestores
<1>. QED  BY ShortcutsWithin, StartRestores, PTL

-----------------------------------------------------------------------------
(* A set of natural numbers that is not empty has a least element, and a
   greatest one if it is bounded: those that Min and Max choose. *)
LEMMA Least ==
  ASSUME NEW S \in SUBSET Nat, S # {}
  PROVE  Min(S) \in S /\ \A y \in S : Min(S) <= y
<1>1. PICK m \in S : \A y \in S : ~(<<y, m>> \in OpToRel(<, Nat))
  <2> DEFINE R == OpToRel(<, Nat)
  <2>1. IsWellFoundedOn(R, Nat)
    BY NatLessThanWellFounded
  <2>2. S \subseteq Nat /\ S # {}
    OBVIOUS
  <2> HIDE DEF R
  <2>3. \E m \in S : \A y \in S : ~(<<y, m>> \in R)
    BY <2>1, <2>2, WFMin
  <2>. QED  BY <2>3 DEF R
<1>2. \A y \in S : ~(y < m)
  BY <1>1 DEF OpToRel
<1>3. \A y \in S : m <= y
  BY <1>2
<1>. QED  BY <1>3 DEF Min

LEMMA Greatest ==
  ASSUME NEW n \in Nat, NEW S \in SUBSET (0..n), S # {}
  PROVE  Max(S) \in S /\ \A y \in S : y <= Max(S)
<1> DEFINE Above == {k \in Nat : \A y \in S : y <= k}
           m == Min(Above)
<1>1. n \in Above
  OBVIOUS
<1>2. m \in Above /\ \A k \in Above : m <= k
  <2>1. Above \in SUBSET Nat /\ Above # {}
    BY <1>1
  <2> HIDE DEF Above
  <2>. QED  BY <2>1, Least
<1> HIDE DEF m
<1>3. m \in Nat /\ \A y \in S : y <= m
  BY <1>2
<1>4. m \in S
  <2> SUFFICES ASSUME m \notin S PROVE FALSE
    OBVIOUS
  <2>1. \A y \in S : y \in Nat /\ y <= m - 1
    BY <1>3
  <2>2. m - 1 \in Nat
    <3>1. PICK y \in S : TRUE
      OBVIOUS
    <3>. QED  BY <1>3, <2>1, <3>1
  <2>3. m - 1 \in Above
    BY <2>1, <2>2
  <2>. QED  BY <1>2, <1>3, <2>3
<1>5. \E x \in S : \A y \in S : x >= y
  BY <1>3, <1>4
<1>6. Max(S) \in S /\ \A y \in S : Max(S) >= y
  BY <1>5 DEF Max
<1>. QED  BY <1>6

LEMMA MaxIs ==
  ASSUME NEW S \in SUBSET Nat, NEW m \in S, \A y \in S : y <= m
  PROVE  Max(S) = m
<1>1. \E x \in S : \A y \in S : x >= y
  OBVIOUS
<1>2. Max(S) \in S /\ \A y \in S : Max(S) >= y
  BY <1>1 DEF Max
<1>3. m \in Nat /\ Max(S) \in Nat /\ Max(S) >= m /\ Max(S) <= m
  BY <1>2
<1>. QED  BY <1>3

-----------------------------------------------------------------------------
(* What assignments made one after the other leave of an item, which is a
   field of the manager (kind "field") or the mode of a device ("device"):
   of two sequences, the second one works on what the first one left. *)
Sites(seq, kind, x) == {i \in DOMAIN seq : kind \in DOMAIN seq[i] /\ seq[i][kind] = x}

After(seq, kind, x, old) == LastOf(seq, Sites(seq, kind, x), old)

After1(a, kind, x, old) ==
  IF kind \in DOMAIN a /\ a[kind] = x THEN a.to ELSE old

LEMMA LastSite ==
  ASSUME NEW S, NEW seq \in Seq(S), NEW kind, NEW x, Sites(seq, kind, x) # {}
  PROVE  LET m == Max(Sites(seq, kind, x)) IN
         /\ m \in Sites(seq, kind, x) /\ m \in 1..Len(seq)
         /\ \A j \in Sites(seq, kind, x) : j <= m
         /\ \A old : After(seq, kind, x, old) = seq[m].to
<1>0. DOMAIN seq = 1..Len(seq) /\ Len(seq) \in Nat
  OBVIOUS
<1>2. Sites(seq, kind, x) \subseteq 1..Len(seq)
  BY <1>0 DEF Sites
<1>1. Sites(seq, kind, x) \in SUBSET (0..Len(seq)) /\ Len(seq) \in Nat
  BY <1>0, <1>2
<1>3. \A old : After(seq, kind, x, old) = seq[Max(Sites(seq, kind, x))].to
  BY DEF After, LastOf
<1>. QED  BY <1>1, <1>2, <1>3, Greatest

LEMMA AfterNone == \A kind, x, old : After(<<>>, kind, x, old) = old
BY DEF After, LastOf, Sites

LEMMA AfterOne ==
  ASSUME NEW a, NEW kind, NEW x, NEW old
  PROVE  After(<<a>>, kind, x, old) = After1(a, kind, x, old)
<1>1. <<a>> \in Seq({a}) /\ <<a>>[1] = a /\ DOMAIN <<a>> = 1..1 /\ Len(<<a>>) = 1
  OBVIOUS
<1>2. CASE kind \in DOMAIN a /\ a[kind] = x
  <2>1. Sites(<<a>>, kind, x) = {1}
    BY <1>1, <1>2 DEF Sites
  <2>2. Max({1}) = 1
    BY MaxIs
  <2>. QED  BY <1>1, <1>2, <2>1, <2>2 DEF After, After1, LastOf
<1>3. CASE ~(kind \in DOMAIN a /\ a[kind] = x)
  <2>1. Sites(<<a>>, kind, x) = {}
    BY <1>1, <1>3 DEF Sites
  <2>. QED  BY <1>3, <2>1 DEF After, After1, LastOf
<1>. QED  BY <1>2, <1>3

LEMMA AfterConcat ==
  ASSUME NEW S, NEW s \in Seq(S), NEW t \in Seq(S), NEW kind, NEW x, NEW old
  PROVE  After(s \o t, kind, x, old) = After(t, kind, x, After(s, kind, x, old))
<1> DEFINE st == s \o t
           ofS == Sites(s, kind, x)
           ofT == Sites(t, kind, x)
           all == Sites(st, kind, x)
<1>1. /\ st \in Seq(S) /\ Len(s) \in Nat /\ Len(t) \in Nat
      /\ Len(st) = Len(s) + Len(t) /\ DOMAIN st = 1..Len(st)
      /\ \A i \in 1..Len(s) : st[i] = s[i]
      /\ \A i \in 1..Len(t) : st[Len(s) + i] = t[i]
      /\ \A i \in 1..Len(st) : i \notin 1..Len(s) => i - Len(s) \in 1..Len(t)
      /\ DOMAIN s = 1..Len(s) /\ DOMAIN t = 1..Len(t)
  OBVIOUS
<1> HIDE DEF st
<1>2. /\ ofS \subseteq 1..Len(s) /\ ofT \subseteq 1..Len(t)
      /\ all \subseteq 1..Len(st)
  BY <1>1 DEF Sites
<1>3. /\ \A i \in 1..Len(s) : i \in all <=> i \in ofS
      /\ \A i \in 1..Len(t) : Len(s) + i \in all <=> i \in ofT
  BY <1>1 DEF Sites
<1>4. \A i \in all : i \in ofS \/ i - Len(s) \in ofT
  BY <1>1 DEF Sites
<1>5. CASE ofT = {}
  <2>1. all = ofS
    BY <1>2, <1>3, <1>4, <1>5
  <2>2. After(t, kind, x, After(s, kind, x, old)) = After(s, kind, x, old)
    BY <1>5 DEF After, LastOf
  <2>3. CASE ofS = {}
    BY <2>1, <2>2, <2>3 DEF After, LastOf, st
  <2>4. CASE ofS # {}
    <3>1. Max(ofS) \in 1..Len(s) /\ After(s, kind, x, old) = s[Max(ofS)].to
      BY <2>4, LastSite
    <3>2. After(st, kind, x, old) = st[Max(ofS)].to
      BY <1>1, <2>1, <2>4, LastSite
    <3>. QED  BY <1>1, <2>2, <3>1, <3>2 DEF st
  <2>. QED  BY <2>3, <2>4
<1>6. CASE ofT # {}
  <2> DEFINE m == Max(ofT)
  <2>1. /\ m \in ofT /\ m \in 1..Len(t) /\ \A j \in ofT : j <= m
        /\ After(t, kind, x, After(s, kind, x, old)) = t[m].to
    BY <1>6, LastSite
  <2> HIDE DEF m, ofS, ofT, all
  <2>2. Len(s) + m \in all /\ \A j \in all : j <= Len(s) + m
    <3>1. Len(s) + m \in all
      BY <1>3, <2>1
    <3>2. ASSUME NEW j \in all PROVE j <= Len(s) + m
      <4>1. j \in ofS => j <= Len(s)
        BY <1>2
      <4>2. j - Len(s) \in ofT => j - Len(s) <= m
        BY <2>1
      <4>3. j \in Nat
        BY <1>2
      <4>. QED  BY <1>1, <1>4, <2>1, <4>1, <4>2, <4>3
    <3>. QED  BY <3>1, <3>2
  <2>3. Max(all) = Len(s) + m
    <3>1. all \in SUBSET Nat
      BY <1>2
    <3>. QED  BY <2>2, <3>1, MaxIs
  <2>4. After(st, kind, x, old) = st[Len(s) + m].to
    <3>1. all # {}
      BY <2>2
    <3>. QED  BY <2>3, <3>1 DEF After, LastOf, all
  <2>. QED  BY <1>1, <2>1, <2>4 DEF st
<1>. QED  BY <1>5, <1>6

LEMMA AfterTwo ==
  ASSUME NEW a, NEW b, NEW kind, NEW x, NEW old
  PROVE  After(<<a, b>>, kind, x, old) = After1(b, kind, x, After1(a, kind, x, old))
<1> DEFINE s == <<a>>
           t == <<b>>
           Each == {a, b}
<1>1. s \o t = <<a, b>>
  <2> DEFINE st == <<a>> \o <<b>>
  <2>1. st \in Seq(Each) /\ Len(st) = 2 /\ st[1] = a /\ st[2] = b
    OBVIOUS
  <2> HIDE DEF st
  <2>2. st = <<a, b>>
    BY <2>1
  <2>. QED  BY <2>2 DEF st
<1>2. s \in Seq(Each) /\ t \in Seq(Each)
  OBVIOUS
<1>3. /\ After(s, kind, x, old) = After1(a, kind, x, old)
      /\ \A o : After(t, kind, x, o) = After1(b, kind, x, o)
  BY AfterOne
<1> HIDE DEF s, t, Each
<1>4. After(s \o t, kind, x, old) = After(t, kind, x, After(s, kind, x, old))
  BY <1>2, AfterConcat
<1>. QED  BY <1>1, <1>3, <1>4

LEMMA AfterThree ==
  ASSUME NEW a, NEW b, NEW c, NEW kind, NEW x, NEW old
  PROVE  After(<<a, b, c>>, kind, x, old)
           = After1(c, kind, x, After1(b, kind, x, After1(a, kind, x, old)))
<1> DEFINE s == <<a, b>>
           t == <<c>>
           Each == {a, b, c}
<1>1. <<a, b, c>> = s \o t
  OBVIOUS
<1>2. s \in Seq(Each) /\ t \in Seq(Each)
  OBVIOUS
<1>3. /\ After(s, kind, x, old) = After1(b, kind, x, After1(a, kind, x, old))
      /\ \A o : After(t, kind, x, o) = After1(c, kind, x, o)
  BY AfterOne, AfterTwo
<1> HIDE DEF s, t, Each
<1>4. After(s \o t, kind, x, old) = After(t, kind, x, After(s, kind, x, old))
  BY <1>2, AfterConcat
<1>. QED  BY <1>1, <1>3, <1>4

LEMMA AfterFour ==
  ASSUME NEW a, NEW b, NEW c, NEW d, NEW kind, NEW x, NEW old
  PROVE  After(<<a, b, c, d>>, kind, x, old)
           = After1(d, kind, x,
                    After1(c, kind, x, After1(b, kind, x, After1(a, kind, x, old))))
<1> DEFINE s == <<a, b, c>>
           t == <<d>>
           Each == {a, b, c, d}
<1>1. <<a, b, c, d>> = s \o t
  OBVIOUS
<1>2. s \in Seq(Each) /\ t \in Seq(Each)
  OBVIOUS
<1>3. /\ After(s, kind, x, old)
           = After1(c, kind, x, After1(b, kind, x, After1(a, kind, x, old)))
      /\ \A o : After(t, kind, x, o) = After1(d, kind, x, o)
  BY AfterOne, AfterThree
<1> HIDE DEF s, t, Each
<1>4. After(s \o t, kind, x, old) = After(t, kind, x, After(s, kind, x, old))
  BY <1>2, AfterConcat
<1>. QED  BY <1>1, <1>3, <1>4

(* What a field is set to, and what a mode, has the type of its item. *)
AnAssignment == Driver!Assignment

LEMMA FieldsTyped ==
  ASSUME mcm \in Driver!Manager, NEW seq \in Seq(AnAssignment)
  PROVE  [f \in DOMAIN mcm |-> FieldAfter(seq, f)] \in Driver!Manager
<1> DEFINE Ids == DeviceId \cup {Driver!Off}
           Type == [Mode |-> Driver!CompensationMode, Enabled |-> BOOLEAN,
                    McDeviceID |-> Ids, RtDeviceID |-> Ids,
                    RefPoseValid |-> BOOLEAN, RefPoseValidCounter |-> 0..0 + 1,
                    ZeroPoseValid |-> BOOLEAN, DebuggerRunning |-> BOOLEAN]
<1>1. /\ DOMAIN mcm = DOMAIN Type
      /\ \A f \in DOMAIN Type : mcm[f] \in Type[f]
  BY DEF Driver!Manager
<1>2. ASSUME NEW f \in DOMAIN Type PROVE FieldAfter(seq, f) \in Type[f]
  <2>1. FieldAfter(seq, f) = After(seq, "field", f, mcm[f])
    BY DEF FieldAfter, After, Sites
  <2>2. CASE Sites(seq, "field", f) = {}
    BY <1>1, <2>1, <2>2 DEF After, LastOf
  <2>3. CASE Sites(seq, "field", f) # {}
    <3>1. PICK m \in Sites(seq, "field", f) :
            m \in 1..Len(seq) /\ FieldAfter(seq, f) = seq[m].to
      BY <2>1, <2>3, LastSite
    <3>2. seq[m] \in AnAssignment /\ "field" \in DOMAIN seq[m] /\ seq[m].field = f
      BY <3>1 DEF Sites
    <3>3. seq[m].to \in Type[f]
      BY <3>2 DEF AnAssignment, Driver!Assignment
    <3>. QED  BY <3>1, <3>3
  <2>. QED  BY <2>2, <2>3
<1>. QED
  BY <1>1, <1>2 DEF Driver!Manager

LEMMA ModeTyped ==
  ASSUME deviceMode \in [DeviceId -> Driver!DeviceMode], NEW seq \in Seq(AnAssignment),
         NEW d \in DeviceId
  PROVE  ModeAfter(seq, d) \in Driver!DeviceMode
<1>1. ModeAfter(seq, d) = After(seq, "device", d, deviceMode[d])
  BY DEF ModeAfter, After, Sites
<1>2. CASE Sites(seq, "device", d) = {}
  BY <1>1, <1>2 DEF After, LastOf
<1>3. CASE Sites(seq, "device", d) # {}
  <2>1. PICK m \in Sites(seq, "device", d) :
          m \in 1..Len(seq) /\ ModeAfter(seq, d) = seq[m].to
    BY <1>1, <1>3, LastSite
  <2>2. seq[m] \in AnAssignment /\ "device" \in DOMAIN seq[m]
    BY <2>1 DEF Sites
  <2>3. seq[m].to \in Driver!DeviceMode
    BY <2>2 DEF AnAssignment, Driver!Assignment
  <2>. QED  BY <2>1, <2>3
<1>. QED  BY <1>2, <1>3

-----------------------------------------------------------------------------
(* What the two requests of the tab leave of the manager and of the modes. *)
Given ==
  /\ mcm \in Driver!Manager
  /\ deviceMode \in [DeviceId -> Driver!DeviceMode]

LEMMA AfterSet ==
  /\ \A f, v, g, old : After1(Driver!Set(f, v), "field", g, old)
                         = IF f = g THEN v ELSE old
  /\ \A f, v, d, old : After1(Driver!Set(f, v), "device", d, old) = old
  /\ \A d, m, e, old :
       After1(Driver!setMotionCompensationDeviceMode(d, m), "device", e, old)
         = IF d = e THEN m ELSE old
  /\ \A d, m, f, old :
       After1(Driver!setMotionCompensationDeviceMode(d, m), "field", f, old) = old
BY DEF After1, Driver!Set, Driver!setMotionCompensationDeviceMode

LEMMA AfterParts ==
  ASSUME NEW S, NEW s \in Seq(S), NEW t \in Seq(S), NEW u \in Seq(S),
         NEW kind, NEW x, NEW old
  PROVE  After(s \o (t \o u), kind, x, old)
           = After(u, kind, x, After(t, kind, x, After(s, kind, x, old)))
<1> DEFINE tu == t \o u
           mid == After(s, kind, x, old)
<1>1. tu \in Seq(S)
  OBVIOUS
<1>2. After(tu, kind, x, mid) = After(u, kind, x, After(t, kind, x, mid))
  BY AfterConcat
<1> HIDE DEF tu
<1>3. After(s \o tu, kind, x, old) = After(tu, kind, x, mid)
  BY <1>1, AfterConcat
<1>. QED  BY <1>2, <1>3 DEF tu

LEMMA FieldIsAfter ==
  /\ \A seq, f : FieldAfter(seq, f) = After(seq, "field", f, mcm[f])
  /\ \A seq, d : ModeAfter(seq, d) = After(seq, "device", d, deviceMode[d])
BY DEF FieldAfter, ModeAfter, After, Sites

LEMMA SetTyped ==
  /\ \A d \in DeviceId, m \in Driver!DeviceMode :
       Driver!setMotionCompensationDeviceMode(d, m) \in AnAssignment
  /\ \A d \in DeviceId \cup {Driver!Off} :
       /\ Driver!Set("McDeviceID", d) \in AnAssignment
       /\ Driver!Set("RtDeviceID", d) \in AnAssignment
  /\ \A v \in BOOLEAN :
       /\ Driver!Set("Enabled", v) \in AnAssignment
       /\ Driver!Set("RefPoseValid", v) \in AnAssignment
       /\ Driver!Set("ZeroPoseValid", v) \in AnAssignment
  /\ Driver!Set("RefPoseValidCounter", 0) \in AnAssignment
  /\ \A mode \in Driver!CompensationMode : Driver!Set("Mode", mode) \in AnAssignment
BY DEF AnAssignment, Driver!Assignment, Driver!Set,
       Driver!setMotionCompensationDeviceMode

LEMMA SwitchingOff ==
  ASSUME NEW mc \in DeviceId, NEW rt \in DeviceId
  PROVE  LET seq == Driver!Assignments(ModeRequest(mc, rt, "Disabled")) IN
         /\ seq \in Seq(AnAssignment)
         /\ FieldAfter(seq, "Mode") = "Disabled"
         /\ FieldAfter(seq, "McDeviceID") = Driver!Off
         /\ FieldAfter(seq, "RtDeviceID") = Driver!Off
         /\ ModeAfter(seq, mc) = "Default" /\ ModeAfter(seq, rt) = "Default"
<1> DEFINE a == Driver!setMotionCompensationDeviceMode(mc, "Default")
           b == Driver!setMotionCompensationDeviceMode(rt, "Default")
           c == Driver!Set("Enabled", FALSE)
           d == Driver!Set("McDeviceID", Driver!Off)
           e == Driver!Set("RtDeviceID", Driver!Off)
           f == Driver!Set("Mode", "Disabled")
           s == <<a, b>>
           t == <<c>>
           u == <<d, e, f>>
           seq == s \o (t \o u)
<1>1. Driver!Assignments(ModeRequest(mc, rt, "Disabled")) = seq
  BY DEF Driver!Assignments, ModeRequest, Driver!Disable,
         Driver!setMotionCompensationMode
<1>2. {a, b, c, d, e, f} \subseteq AnAssignment
  BY SetTyped DEF Driver!DeviceMode, Driver!CompensationMode
<1>3. /\ s \in Seq(AnAssignment) /\ t \in Seq(AnAssignment) /\ u \in Seq(AnAssignment)
      /\ t \o u \in Seq(AnAssignment) /\ seq \in Seq(AnAssignment)
  <2> HIDE DEF a, b, c, d, e, f
  <2>. QED  BY <1>2
<1>4. \A k, x, old : After(seq, k, x, old)
        = After(u, k, x, After(t, k, x, After(s, k, x, old)))
  <2> HIDE DEF s, t, u
  <2>1. ASSUME NEW k, NEW x, NEW old
        PROVE  After(seq, k, x, old)
                 = After(u, k, x, After(t, k, x, After(s, k, x, old)))
    BY <1>3, AfterParts
  <2>. QED  BY <2>1
<1>5. /\ \A k, x, old : After(s, k, x, old) = After1(b, k, x, After1(a, k, x, old))
      /\ \A k, x, old : After(t, k, x, old) = After1(c, k, x, old)
      /\ \A k, x, old : After(u, k, x, old)
           = After1(f, k, x, After1(e, k, x, After1(d, k, x, old)))
  <2> HIDE DEF a, b, c, d, e, f
  <2>. QED  BY AfterOne, AfterTwo, AfterThree
<1> HIDE DEF s, t, u
<1>6. /\ FieldAfter(seq, "Mode") = "Disabled"
      /\ FieldAfter(seq, "McDeviceID") = Driver!Off
      /\ FieldAfter(seq, "RtDeviceID") = Driver!Off
  BY <1>4, <1>5, AfterSet, FieldIsAfter
<1>7. ASSUME NEW dev, dev = mc \/ dev = rt
      PROVE  ModeAfter(seq, dev) = "Default"
  <2> DEFINE old == deviceMode[dev]
  <2>1. After1(b, "device", dev, After1(a, "device", dev, old)) = "Default"
    BY <1>7, AfterSet
  <2>2. \A mode : /\ After1(c, "device", dev, mode) = mode
                  /\ After1(d, "device", dev, mode) = mode
                  /\ After1(e, "device", dev, mode) = mode
                  /\ After1(f, "device", dev, mode) = mode
    BY DEF After1, Driver!Set
  <2> HIDE DEF a, b, c, d, e, f
  <2>3. After(seq, "device", dev, old) = "Default"
    BY <1>4, <1>5, <2>1, <2>2
  <2>. QED  BY <2>3, FieldIsAfter
<1>. QED  BY <1>1, <1>3, <1>6, <1>7

(* When compensation is off, switching it on sets both devices; *)
LEMMA SwitchingOn ==
  ASSUME NEW mc \in DeviceId, NEW rt \in DeviceId, mcm.Mode # "ReferenceTracker"
  PROVE  LET seq == Driver!Assignments(ModeRequest(mc, rt, "ReferenceTracker")) IN
         /\ seq \in Seq(AnAssignment)
         /\ FieldAfter(seq, "Mode") = "ReferenceTracker"
         /\ FieldAfter(seq, "McDeviceID") = mc
         /\ FieldAfter(seq, "RtDeviceID") = rt
<1> DEFINE a == Driver!setMotionCompensationDeviceMode(mc, "MotionCompensated")
           b == Driver!setMotionCompensationDeviceMode(rt, "ReferenceTracker")
           c1 == Driver!Set("RefPoseValid", FALSE)
           c2 == Driver!Set("RefPoseValidCounter", 0)
           c3 == Driver!Set("ZeroPoseValid", FALSE)
           c4 == Driver!Set("Enabled", TRUE)
           d == Driver!Set("McDeviceID", mc)
           e == Driver!Set("RtDeviceID", rt)
           f == Driver!Set("Mode", "ReferenceTracker")
           s == <<a, b>>
           t == <<c1, c2, c3, c4>>
           u == <<d, e, f>>
           seq == s \o (t \o u)
<1>1. Driver!Assignments(ModeRequest(mc, rt, "ReferenceTracker")) = seq
  BY DEF Driver!Assignments, ModeRequest, Driver!Enable,
         Driver!setMotionCompensationMode
<1>2. {a, b, c1, c2, c3, c4, d, e, f} \subseteq AnAssignment
  BY SetTyped DEF Driver!DeviceMode, Driver!CompensationMode
<1>3. /\ s \in Seq(AnAssignment) /\ t \in Seq(AnAssignment) /\ u \in Seq(AnAssignment)
      /\ t \o u \in Seq(AnAssignment) /\ seq \in Seq(AnAssignment)
  <2> HIDE DEF a, b, c1, c2, c3, c4, d, e, f
  <2>. QED  BY <1>2
<1>4. \A k, x, old : After(seq, k, x, old)
        = After(u, k, x, After(t, k, x, After(s, k, x, old)))
  <2> HIDE DEF s, t, u
  <2>1. ASSUME NEW k, NEW x, NEW old
        PROVE  After(seq, k, x, old)
                 = After(u, k, x, After(t, k, x, After(s, k, x, old)))
    BY <1>3, AfterParts
  <2>. QED  BY <2>1
<1>5. \A k, x, old : After(u, k, x, old)
        = After1(f, k, x, After1(e, k, x, After1(d, k, x, old)))
  <2> HIDE DEF d, e, f
  <2>. QED  BY AfterThree
<1> HIDE DEF s, t, u
<1>6. /\ FieldAfter(seq, "Mode") = "ReferenceTracker"
      /\ FieldAfter(seq, "McDeviceID") = mc
      /\ FieldAfter(seq, "RtDeviceID") = rt
  BY <1>4, <1>5, AfterSet, FieldIsAfter
<1>. QED  BY <1>1, <1>3, <1>6

(* when it is on, the new tracker replaces the old one; the stored id of the
   device that is compensated stays. *)
LEMMA ChangingOne ==
  ASSUME NEW before \in DeviceId, NEW now \in DeviceId, NEW mode \in Driver!DeviceMode
  PROVE  LET seq == <<Driver!setMotionCompensationDeviceMode(before, "Default"),
                      Driver!setMotionCompensationDeviceMode(now, mode)>>
                    \o Driver!setNewReferenceTracker(now) IN
         /\ seq \in Seq(AnAssignment)
         /\ \A old : /\ After(seq, "field", "RtDeviceID", old) = now
                     /\ After(seq, "field", "McDeviceID", old) = old
                     /\ After(seq, "field", "Mode", old) = old
<1> DEFINE a == Driver!setMotionCompensationDeviceMode(before, "Default")
           b == Driver!setMotionCompensationDeviceMode(now, mode)
           c == Driver!Set("RtDeviceID", now)
           d == Driver!Set("RefPoseValid", FALSE)
           e == Driver!Set("ZeroPoseValid", FALSE)
           s == <<a, b>>
           t == <<c, d, e>>
<1>1. Driver!setNewReferenceTracker(now) = t
  BY DEF Driver!setNewReferenceTracker
<1>2. {a, b, c, d, e} \subseteq AnAssignment
  BY SetTyped DEF Driver!DeviceMode
<1>3. s \in Seq(AnAssignment) /\ t \in Seq(AnAssignment) /\ s \o t \in Seq(AnAssignment)
  <2> HIDE DEF a, b, c, d, e
  <2>. QED  BY <1>2
<1>4. ASSUME NEW k, NEW x, NEW old
      PROVE  After(s \o t, k, x, old)
               = After1(e, k, x, After1(d, k, x, After1(c, k, x,
                   After1(b, k, x, After1(a, k, x, old)))))
  <2> HIDE DEF a, b, c, d, e
  <2>1. /\ After(s, k, x, old) = After1(b, k, x, After1(a, k, x, old))
        /\ \A o : After(t, k, x, o) = After1(e, k, x, After1(d, k, x, After1(c, k, x, o)))
    BY AfterTwo, AfterThree
  <2> HIDE DEF s, t
  <2>2. After(s \o t, k, x, old) = After(t, k, x, After(s, k, x, old))
    BY <1>3, AfterConcat
  <2>. QED  BY <2>1, <2>2
<1>5. \A x, old : /\ After1(a, "field", x, old) = old
                  /\ After1(b, "field", x, old) = old
  BY DEF After1, Driver!setMotionCompensationDeviceMode
<1>6. \A x, old :
        /\ x # "RefPoseValid" => After1(d, "field", x, old) = old
        /\ x # "ZeroPoseValid" => After1(e, "field", x, old) = old
        /\ After1(c, "field", x, old) = IF x = "RtDeviceID" THEN now ELSE old
  BY DEF After1, Driver!Set
<1> HIDE DEF a, b, c, d, e, s, t
<1>7. \A old : /\ After(s \o t, "field", "RtDeviceID", old) = now
               /\ After(s \o t, "field", "McDeviceID", old) = old
               /\ After(s \o t, "field", "Mode", old) = old
  BY <1>4, <1>5, <1>6
<1>. QED  BY <1>1, <1>3, <1>7 DEF s, a, b

LEMMA ChangingDevices ==
  ASSUME NEW mc \in DeviceId, NEW rt \in DeviceId, mc # rt,
         mcm.Mode = "ReferenceTracker",
         mcm.McDeviceID \in DeviceId, mcm.RtDeviceID \in DeviceId
  PROVE  LET seq == Driver!Assignments(ModeRequest(mc, rt, "ReferenceTracker")) IN
         /\ seq \in Seq(AnAssignment)
         /\ FieldAfter(seq, "Mode") = "ReferenceTracker"
         /\ FieldAfter(seq, "McDeviceID") = mcm.McDeviceID
         /\ FieldAfter(seq, "RtDeviceID") = rt
<1> DEFINE oldRt == IF mcm.McDeviceID = mc THEN mcm.RtDeviceID ELSE mc
           s == Driver!ChangeMCdevice(mc)
           t == Driver!ChangeRTdevice(oldRt, rt)
<1>1. Driver!Assignments(ModeRequest(mc, rt, "ReferenceTracker")) = s \o t
  BY DEF Driver!Assignments, ModeRequest, Driver!Enable
<1>2. /\ s \in Seq(AnAssignment)
      /\ After(s, "field", "RtDeviceID", mcm.RtDeviceID) = oldRt
      /\ After(s, "field", "McDeviceID", mcm.McDeviceID) = mcm.McDeviceID
      /\ After(s, "field", "Mode", mcm.Mode) = mcm.Mode
  <2>1. CASE mcm.McDeviceID = mc
    <3>1. s = <<>> /\ oldRt = mcm.RtDeviceID
      BY <2>1 DEF Driver!ChangeMCdevice
    <3> HIDE DEF s, oldRt
    <3>. QED  BY <3>1, AfterNone
  <2>2. CASE mcm.McDeviceID # mc
    <3>1. s = <<Driver!setMotionCompensationDeviceMode(mcm.McDeviceID, "Default"),
                Driver!setMotionCompensationDeviceMode(mc, "MotionCompensated")>>
              \o Driver!setNewReferenceTracker(mc)
      BY <2>2, Zenon DEF Driver!ChangeMCdevice
    <3>2. "MotionCompensated" \in Driver!DeviceMode /\ oldRt = mc
      BY <2>2 DEF Driver!DeviceMode
    <3> HIDE DEF s, oldRt
    <3>. QED  BY <3>1, <3>2, ChangingOne
  <2>. QED  BY <2>1, <2>2
<1>3. /\ t \in Seq(AnAssignment)
      /\ After(t, "field", "RtDeviceID", oldRt) = rt
      /\ \A old : /\ After(t, "field", "McDeviceID", old) = old
                  /\ After(t, "field", "Mode", old) = old
  <2> HIDE DEF s
  <2>0. oldRt \in DeviceId
    OBVIOUS
  <2> HIDE DEF oldRt
  <2>1. CASE oldRt = rt
    <3>1. t = <<>>
      BY <2>1 DEF Driver!ChangeRTdevice
    <3> HIDE DEF t
    <3>. QED  BY <2>1, <3>1, AfterNone
  <2>2. CASE oldRt # rt
    <3>1. t = <<Driver!setMotionCompensationDeviceMode(oldRt, "Default"),
                Driver!setMotionCompensationDeviceMode(rt, "ReferenceTracker")>>
              \o Driver!setNewReferenceTracker(rt)
      BY <2>2, Zenon DEF Driver!ChangeRTdevice
    <3>2. "ReferenceTracker" \in Driver!DeviceMode
      BY DEF Driver!DeviceMode
    <3> HIDE DEF t
    <3>. QED  BY <2>0, <3>1, <3>2, ChangingOne
  <2>. QED  BY <2>1, <2>2
<1> HIDE DEF s, t, oldRt
<1>4. s \o t \in Seq(AnAssignment)
  BY <1>2, <1>3
<1>5. ASSUME NEW x PROVE FieldAfter(s \o t, x)
                          = After(t, "field", x, After(s, "field", x, mcm[x]))
  BY <1>2, <1>3, FieldIsAfter, AfterConcat
<1>6. /\ FieldAfter(s \o t, "Mode") = "ReferenceTracker"
      /\ FieldAfter(s \o t, "McDeviceID") = mcm.McDeviceID
      /\ FieldAfter(s \o t, "RtDeviceID") = rt
  BY <1>2, <1>3, <1>5
<1>. QED  BY <1>1, <1>4, <1>6

(* In any case the driver then compensates by the tracker that was asked
   for, and the fields keep their types. *)
LEMMA Requested ==
  ASSUME Given, NEW mc \in DeviceId, NEW rt \in DeviceId, mc # rt, NEW on \in BOOLEAN,
         mcm.Mode = "ReferenceTracker"
           => mcm.McDeviceID \in DeviceId /\ mcm.RtDeviceID \in DeviceId,
         applySettings_ovrid(mc, rt, on)
  PROVE  /\ Given'
         /\ applying' = {[mc |-> mc, rt |-> rt, on |-> on]}
         /\ on => /\ mcm'.Mode = "ReferenceTracker" /\ mcm'.RtDeviceID = rt
                  /\ \/ mcm'.McDeviceID = mc
                     \/ /\ mcm.Mode = "ReferenceTracker"
                        /\ mcm'.McDeviceID = mcm.McDeviceID
         /\ ~on => /\ mcm'.Mode = "Disabled" /\ mcm'.McDeviceID = Driver!Off
                   /\ mcm'.RtDeviceID = Driver!Off
                   /\ deviceMode'[mc] = "Default" /\ deviceMode'[rt] = "Default"
<1> DEFINE mode == IF on THEN "ReferenceTracker" ELSE "Disabled"
           seq == Driver!Assignments(ModeRequest(mc, rt, mode))
<1>1. /\ mcm' = [f \in DOMAIN mcm |-> FieldAfter(seq, f)]
      /\ deviceMode' = [d \in DeviceId |-> ModeAfter(seq, d)]
      /\ applying' = {[mc |-> mc, rt |-> rt, on |-> on]}
  BY Zenon DEF applySettings_ovrid
<1>2. /\ seq \in Seq(AnAssignment)
      /\ on => /\ FieldAfter(seq, "Mode") = "ReferenceTracker"
               /\ FieldAfter(seq, "RtDeviceID") = rt
               /\ \/ FieldAfter(seq, "McDeviceID") = mc
                  \/ /\ mcm.Mode = "ReferenceTracker"
                     /\ FieldAfter(seq, "McDeviceID") = mcm.McDeviceID
      /\ ~on => /\ FieldAfter(seq, "Mode") = "Disabled"
                /\ FieldAfter(seq, "McDeviceID") = Driver!Off
                /\ FieldAfter(seq, "RtDeviceID") = Driver!Off
                /\ ModeAfter(seq, mc) = "Default" /\ ModeAfter(seq, rt) = "Default"
  <2>1. CASE ~on
    <3>1. mode = "Disabled"
      BY <2>1
    <3> HIDE DEF mode
    <3>. QED  BY <2>1, <3>1, SwitchingOff
  <2>2. CASE on /\ mcm.Mode # "ReferenceTracker"
    <3>1. mode = "ReferenceTracker"
      BY <2>2
    <3> HIDE DEF mode
    <3>. QED  BY <2>2, <3>1, SwitchingOn
  <2>3. CASE on /\ mcm.Mode = "ReferenceTracker"
    <3>1. mode = "ReferenceTracker"
      BY <2>3
    <3> HIDE DEF mode
    <3>. QED  BY <2>3, <3>1, ChangingDevices
  <2>. QED  BY <2>1, <2>2, <2>3
<1> HIDE DEF seq
<1>3. Given'
  <2>1. mcm' \in Driver!Manager
    BY <1>1, <1>2, FieldsTyped DEF Given
  <2>2. deviceMode' \in [DeviceId -> Driver!DeviceMode]
    BY <1>1, <1>2, ModeTyped DEF Given
  <2>. QED  BY <2>1, <2>2 DEF Given
<1>4. /\ mcm'.Mode = FieldAfter(seq, "Mode")
      /\ mcm'.McDeviceID = FieldAfter(seq, "McDeviceID")
      /\ mcm'.RtDeviceID = FieldAfter(seq, "RtDeviceID")
      /\ deviceMode'[mc] = ModeAfter(seq, mc) /\ deviceMode'[rt] = ModeAfter(seq, rt)
  <2>1. {"Mode", "McDeviceID", "RtDeviceID"} \subseteq DOMAIN mcm
    BY DEF Given, Driver!Manager
  <2>. QED  BY <1>1, <2>1
<1>. QED  BY <1>1, <1>2, <1>3, <1>4

-----------------------------------------------------------------------------
(* The inductive invariant of the tab.  The page lists devices that are
   found, and no base station. *)
GoodTab(t) ==
  /\ t \in [found : SUBSET (0..Len(ids)), mode : Driver!DeviceMode,
            trackers : SUBSET (1..Len(ids)), tracker : 1..Len(ids) \cup {NoTracker},
            checked : BOOLEAN, status : Driver!DeviceMode]
  /\ t.trackers # {} => t.tracker \in t.trackers
  /\ t.trackers \subseteq t.found
  /\ \A id \in t.found : DeviceAt(id) \notin Others

Connected == ids \in Seq(Trackers \cup Others) /\ IsInjective(ids)

(* The driver has stored devices that are connected: a tracker, and one that
   is known by the serial of the headset, which it is unless neither could
   be read. *)
InUse ==
  /\ {mcm.McDeviceID, mcm.RtDeviceID} \subseteq 0..Len(ids) \cup {Driver!Off}
  /\ mcm.Mode = "ReferenceTracker" =>
       /\ {mcm.McDeviceID, mcm.RtDeviceID} \subseteq 0..Len(ids)
       /\ Serial(DeviceAt(mcm.McDeviceID)) = Serial(HMD)
       /\ DeviceAt(mcm.McDeviceID) \notin Others
       /\ DeviceAt(mcm.RtDeviceID) \in Trackers

(* What was sent asks for two such devices, and the driver does it. *)
Sent ==
  \A a \in applying :
    /\ a \in [mc : 0..Len(ids), rt : 0..Len(ids), on : BOOLEAN]
    /\ Serial(DeviceAt(a.mc)) = Serial(HMD)
    /\ DeviceAt(a.mc) \notin Others
    /\ DeviceAt(a.rt) \in Trackers
    /\ a.on => mcm.Mode = "ReferenceTracker" /\ mcm.RtDeviceID = a.rt

Remembered ==
  /\ visible \in BOOLEAN /\ isOn \in BOOLEAN
  /\ {serials, saved} \subseteq [hmd : SerialsOf({HMD}), tracker : SerialsOf(Trackers)]

TabInv ==
  /\ IInv
  /\ Connected
  /\ Given
  /\ GoodTab(tab)
  /\ Remembered
  /\ InUse
  /\ Sent
  /\ OnIsWhatDriverDoes

(* There are ids for all devices that can connect. *)
LEMMA IdsFit ==
  ASSUME Connected
  PROVE  /\ Len(ids) \in Nat /\ DOMAIN ids = 1..Len(ids)
         /\ 0..Len(ids) \subseteq DeviceId
         /\ \A id \in 1..Len(ids) : ids[id] \in Trackers \cup Others
<1> DEFINE All == Trackers \cup Others
           n == Len(ids)
<1>1. /\ n \in Nat /\ ids \in [1..n -> All] /\ DOMAIN ids = 1..n
      /\ \A id \in 1..n : ids[id] \in All
  BY DEF Connected
<1>2. IsFiniteSet(All) /\ HMD \notin All
  BY DeviceAssumption
<1> HIDE DEF All, n
<1>3. ids \in Injection(1..n, All)
  BY <1>1 DEF Connected, Injection
<1>4. IsFiniteSet(1..n) /\ Cardinality(1..n) = n
  BY <1>1, FS_Interval
<1>5. n <= Cardinality(All) /\ Cardinality(All) \in Nat
  BY <1>2, <1>3, <1>4, FS_Injection, FS_CardinalityType
<1>6. Cardinality(Device) = Cardinality(All) + 1
  <2>1. Device = All \cup {HMD}
    BY DEF Device, All
  <2>. QED  BY <1>2, <2>1, FS_AddElement
<1>7. 0..n \subseteq DeviceId
  BY <1>1, <1>5, <1>6 DEF DeviceId
<1>. QED  BY <1>1, <1>7 DEF n, All

LEMMA ListedIsTracker ==
  ASSUME Connected, NEW id \in 1..Len(ids), DeviceAt(id) \notin Others
  PROVE  DeviceAt(id) \in Trackers
BY IdsFit DEF DeviceAt

LEMMA NewTabGood == GoodTab(NewTab)
BY DEF GoodTab, NewTab, NoTracker, Driver!DeviceMode

LEMMA SearchGood ==
  ASSUME Connected, Given, NEW t, GoodTab(t)
  PROVE  GoodTab(SearchDevices(t))
<1> DEFINE listed == {id \in 0..Len(ids) : DeviceAt(id) \notin Others}
           new == listed \ t.found
           known == IF 0 \in new THEN deviceMode[0] ELSE t.mode
           trackers == listed \ {0}
           sel == IF trackers = {} THEN NoTracker ELSE Min(trackers)
           r == [t EXCEPT !.found = listed, !.mode = known]
           f == [r EXCEPT !.trackers = trackers, !.tracker = sel]
           g == [f EXCEPT !.checked = (known = "MotionCompensated"),
                          !.status = known]
<1>1. CASE new = {}
  <2>1. SearchDevices(t) = t
    BY <1>1 DEF SearchDevices
  <2>. QED  BY <2>1
<1>2. CASE new # {}
  <2>0. Len(ids) \in Nat /\ 0 \in DeviceId
    BY IdsFit
  <2>1. known \in Driver!DeviceMode
    BY <2>0 DEF GoodTab, Given
  <2>2. trackers \in SUBSET (1..Len(ids)) /\ trackers \in SUBSET Nat
    BY <2>0
  <2>3. sel \in 1..Len(ids) \cup {NoTracker} /\ (trackers # {} => sel \in trackers)
    <3>. HIDE DEF trackers
    <3>. QED  BY <2>2, Least
  <2> HIDE DEF known, sel
  <2>4. /\ r.found = listed /\ r.mode = known
        /\ fetchDevices(r) = f
    BY DEF fetchDevices, GoodTab, sel
  <2>5. f.mode = known /\ fetchHMDInfo(f) = g
    BY DEF fetchHMDInfo, GoodTab
  <2>6. SearchDevices(t) = g
    <3>1. SearchDevices(t) = fetchHMDInfo(fetchDevices(r))
      BY <1>2 DEF SearchDevices, known
    <3>. QED  BY <2>4, <2>5, <3>1
  <2>7. /\ g \in [found : SUBSET (0..Len(ids)), mode : Driver!DeviceMode,
                  trackers : SUBSET (1..Len(ids)),
                  tracker : 1..Len(ids) \cup {NoTracker},
                  checked : BOOLEAN, status : Driver!DeviceMode]
        /\ g.trackers = trackers /\ g.tracker = sel /\ g.found = listed
    <3>1. listed \in SUBSET (0..Len(ids))
      OBVIOUS
    <3> HIDE DEF listed, trackers
    <3>. QED  BY <2>1, <2>2, <2>3, <3>1 DEF GoodTab
  <2> HIDE DEF g
  <2>. QED  BY <2>3, <2>6, <2>7 DEF GoodTab
<1>. QED  BY <1>1, <1>2

LEMMA UpdateGood ==
  ASSUME Connected, Given, NEW t, GoodTab(t)
  PROVE  GoodTab(updateDeviceInfo(t))
<1>1. deviceMode[0] \in Driver!DeviceMode
  BY IdsFit DEF Given
<1>. QED  BY <1>1 DEF updateDeviceInfo, fetchHMDInfo, GoodTab

(* A request of the tab for two devices that are connected. *)
LEMMA RequestSent ==
  ASSUME TabInv, NEW mc \in 0..Len(ids), NEW rt \in 0..Len(ids), NEW on \in BOOLEAN,
         Serial(DeviceAt(mc)) = Serial(HMD), DeviceAt(mc) \notin Others,
         DeviceAt(rt) \in Trackers, mc # rt,
         applySettings_ovrid(mc, rt, on), UNCHANGED ids
  PROVE  /\ Given' /\ InUse' /\ Sent' /\ applying' # {}
         /\ ~on => /\ deviceMode'[mc] = "Default" /\ deviceMode'[rt] = "Default"
<1>1. mc \in DeviceId /\ rt \in DeviceId /\ 0..Len(ids) \subseteq DeviceId
  BY IdsFit DEF TabInv
<1>2. /\ Given'
      /\ applying' = {[mc |-> mc, rt |-> rt, on |-> on]}
      /\ on => /\ mcm'.Mode = "ReferenceTracker" /\ mcm'.RtDeviceID = rt
               /\ \/ mcm'.McDeviceID = mc
                  \/ /\ mcm.Mode = "ReferenceTracker"
                     /\ mcm'.McDeviceID = mcm.McDeviceID
      /\ ~on => /\ mcm'.Mode = "Disabled" /\ mcm'.McDeviceID = Driver!Off
                /\ mcm'.RtDeviceID = Driver!Off
                /\ deviceMode'[mc] = "Default" /\ deviceMode'[rt] = "Default"
  <2>1. mcm.Mode = "ReferenceTracker"
          => mcm.McDeviceID \in DeviceId /\ mcm.RtDeviceID \in DeviceId
    BY <1>1 DEF TabInv, InUse
  <2>2. Given
    BY DEF TabInv
  <2>. QED  BY <1>1, <2>1, <2>2, Requested
<1>3. InUse'
  <2>1. CASE on
    BY <1>2, <2>1 DEF InUse, TabInv, DeviceAt
  <2>2. CASE ~on
    BY <1>2, <2>2 DEF InUse
  <2>. QED  BY <2>1, <2>2
<1>4. Sent'
  BY <1>2 DEF Sent, DeviceAt
<1>. QED  BY <1>2, <1>3, <1>4

-----------------------------------------------------------------------------
(* What the shortcut finds by a serial is connected and has that serial. *)
LEMMA FoundBySerial ==
  ASSUME Connected, NEW found \in SUBSET (0..Len(ids)), NEW serial,
         WithSerial(found, serial) # {}
  PROVE  LET id == Max(WithSerial(found, serial)) IN
         /\ id \in found /\ id \in 0..Len(ids)
         /\ serial # "" /\ Serial(DeviceAt(id)) = serial
<1> DEFINE S == WithSerial(found, serial)
<1>1. Len(ids) \in Nat /\ S \in SUBSET (0..Len(ids))
  BY IdsFit DEF WithSerial
<1>2. Max(S) \in S
  <2> HIDE DEF S
  <2>. QED  BY <1>1, Greatest DEF S
<1>. QED  BY <1>1, <1>2 DEF WithSerial

(* The shortcut sends nothing, or asks for two devices with the serials in
   use: the one to be compensated, and a tracker.  It never takes the headset
   for the tracker: when they have one serial it finds one device for both. *)
LEMMA Toggled ==
  ASSUME TabInv, toggleMotionCompensationMode, UNCHANGED ids
  PROVE  /\ GoodTab(tab)'
         /\ \/ UNCHANGED <<driverVars, applying>>
            \/ \E mc, rt \in 0..Len(ids) :
                 /\ Serial(DeviceAt(mc)) = serials.hmd
                 /\ Serial(DeviceAt(rt)) = serials.tracker
                 /\ Serial(DeviceAt(mc)) = Serial(HMD)
                 /\ DeviceAt(mc) \notin Others
                 /\ DeviceAt(rt) \in Trackers
                 /\ mc # rt
                 /\ applySettings_ovrid(mc, rt, ~isOn)
<1> DEFINE refreshed == SearchDevices(tab)
           mcs == WithSerial(refreshed.found, serials.hmd)
           rts == WithSerial(refreshed.found, serials.tracker)
<1>1. /\ tab' = refreshed
      /\ \/ UNCHANGED <<driverVars, applying>>
         \/ /\ mcs # {} /\ rts # {} /\ Max(mcs) # Max(rts)
            /\ applySettings_ovrid(Max(mcs), Max(rts), ~isOn)
  BY Zenon DEF toggleMotionCompensationMode
<1>2. GoodTab(refreshed) /\ Connected
  BY SearchGood DEF TabInv
<1>3. GoodTab(tab)'
  <2>1. GoodTab(refreshed) /\ tab' = refreshed /\ ids' = ids
    BY <1>1, <1>2
  <2> HIDE DEF refreshed
  <2>. QED  BY <2>1 DEF GoodTab, DeviceAt
<1>4. ASSUME mcs # {}, rts # {}, Max(mcs) # Max(rts)
      PROVE  /\ Max(mcs) \in 0..Len(ids) /\ Max(rts) \in 0..Len(ids)
             /\ Serial(DeviceAt(Max(mcs))) = serials.hmd
             /\ Serial(DeviceAt(Max(rts))) = serials.tracker
             /\ Serial(DeviceAt(Max(mcs))) = Serial(HMD)
             /\ DeviceAt(Max(mcs)) \notin Others
             /\ DeviceAt(Max(rts)) \in Trackers
  <2>1. refreshed.found \in SUBSET (0..Len(ids))
        /\ \A id \in refreshed.found : DeviceAt(id) \notin Others
    <3> HIDE DEF refreshed
    <3>. QED  BY <1>2 DEF GoodTab
  <2> HIDE DEF refreshed
  <2>2. /\ Max(mcs) \in refreshed.found /\ Max(mcs) \in 0..Len(ids)
        /\ serials.hmd # "" /\ Serial(DeviceAt(Max(mcs))) = serials.hmd
    BY <1>2, <1>4, <2>1, FoundBySerial
  <2>3. /\ Max(rts) \in refreshed.found /\ Max(rts) \in 0..Len(ids)
        /\ serials.tracker # "" /\ Serial(DeviceAt(Max(rts))) = serials.tracker
    BY <1>2, <1>4, <2>1, FoundBySerial
  <2>4. serials.hmd = Serial(HMD)
    BY <2>2 DEF TabInv, Remembered, SerialsOf
  <2>5. Max(rts) # 0
    <3> SUFFICES ASSUME Max(rts) = 0 PROVE FALSE
      OBVIOUS
    <3>1. serials.tracker = serials.hmd
      BY <2>3, <2>4 DEF DeviceAt
    <3>2. mcs = rts
      BY <3>1
    <3>. QED  BY <1>4, <3>2
  <2> HIDE DEF mcs, rts
  <2>6. DeviceAt(Max(rts)) \in Trackers
    <3>1. Max(rts) \in 1..Len(ids)
      <4>1. Len(ids) \in Nat
        BY <1>2, IdsFit
      <4>2. \A i \in 0..Len(ids) : i # 0 => i \in 1..Len(ids)
        BY <4>1
      <4>3. Max(rts) \in 0..Len(ids) /\ Max(rts) # 0
        BY <2>3, <2>5
      <4>. QED  BY <4>2, <4>3
    <3>. QED  BY <1>2, <2>1, <2>3, <3>1, ListedIsTracker
  <2>. QED  BY <2>1, <2>2, <2>3, <2>4, <2>6
<1> HIDE DEF mcs, rts
<1>. QED  BY <1>1, <1>3, <1>4

LEMMA InitTab == Init => TabInv
<1> SUFFICES ASSUME Init PROVE TabInv
  OBVIOUS
<1>1. IInv
  BY InitIInv DEF Init
<1>2. Connected
  BY DEF Init, Connected, IsInjective
<1>3. Given
  BY DEF Init, Given, Driver!Init, Driver!Manager, Driver!CompensationMode,
         Driver!DeviceMode, Driver!Off
<1>4. GoodTab(tab)
  BY NewTabGood DEF Init
<1>5. Remembered
  <2>1. \A S : "" \in SerialsOf(S)
    BY Zenon DEF SerialsOf
  <2>2. NoSerials \in [hmd : SerialsOf({HMD}), tracker : SerialsOf(Trackers)]
    BY <2>1 DEF NoSerials
  <2>3. visible = FALSE /\ isOn = FALSE /\ serials = NoSerials /\ saved = NoSerials
    BY DEF Init
  <2>. QED  BY <2>2, <2>3 DEF Remembered
<1>6. InUse /\ Sent /\ OnIsWhatDriverDoes
  BY DEF Init, Driver!Init, InUse, Sent, OnIsWhatDriverDoes
<1>. QED  BY <1>1, <1>2, <1>3, <1>4, <1>5, <1>6 DEF TabInv

(* What depends only on the devices, the driver and the tab's memory stays
   when those do. *)
LEMMA RestStays ==
  ASSUME TabInv, UNCHANGED <<ids, driverVars, visible, applying, isOn, serials, saved>>
  PROVE  Connected' /\ Given' /\ Remembered' /\ InUse' /\ Sent' /\ OnIsWhatDriverDoes'
<1>1. Connected' /\ Given' /\ Remembered'
  BY DEF TabInv, Connected, Given, Remembered, driverVars
<1>2. InUse'
  BY DEF TabInv, InUse, driverVars, DeviceAt
<1>3. Sent'
  BY DEF TabInv, Sent, driverVars, DeviceAt
<1>4. OnIsWhatDriverDoes'
  BY DEF TabInv, OnIsWhatDriverDoes, driverVars, DeviceAt
<1>. QED  BY <1>1, <1>2, <1>3, <1>4

LEMMA ConnectTab ==
  ASSUME TabInv, NEW d \in Trackers \cup Others, Connect(d)
  PROVE  /\ Connected' /\ Given' /\ GoodTab(tab)' /\ Remembered' /\ InUse' /\ Sent'
         /\ OnIsWhatDriverDoes'
<1>1. /\ ids' = Append(ids, d) /\ d \notin Range(ids)
      /\ UNCHANGED <<mcm, deviceMode, tab, visible, applying, isOn, serials, saved>>
  BY DEF Connect, driverVars, tabVars
<1>2. /\ Connected /\ Len(ids) \in Nat /\ DOMAIN ids = 1..Len(ids)
      /\ \A id \in 1..Len(ids) : ids[id] # d
  BY <1>1, IdsFit DEF TabInv, Range
<1>3. /\ ids' \in Seq(Trackers \cup Others) /\ Len(ids') = Len(ids) + 1
      /\ DOMAIN ids' = 1..Len(ids')
      /\ \A id \in 1..Len(ids) : ids'[id] = ids[id]
      /\ ids'[Len(ids) + 1] = d
  BY <1>1, <1>2 DEF Connected
<1>4. Connected'
  <2>1. ASSUME NEW i \in DOMAIN ids', NEW j \in DOMAIN ids', ids'[i] = ids'[j]
        PROVE  i = j
    <3>1. /\ i \in 1..Len(ids) \/ i = Len(ids) + 1
          /\ j \in 1..Len(ids) \/ j = Len(ids) + 1
      BY <1>2, <1>3, <2>1
    <3>2. i \in 1..Len(ids) /\ j \in 1..Len(ids) => i = j
      BY <1>2, <1>3, <2>1 DEF Connected, IsInjective
    <3>. QED  BY <1>2, <1>3, <2>1, <3>1, <3>2
  <2>. QED  BY <1>3, <2>1 DEF Connected, IsInjective
<1>5. \A id \in 0..Len(ids) : DeviceAt(id)' = DeviceAt(id)
  BY <1>2, <1>3 DEF DeviceAt
<1>6. 0..Len(ids) \subseteq 0..Len(ids') /\ 1..Len(ids) \subseteq 1..Len(ids')
  BY <1>2, <1>3
<1>7. Given' /\ Remembered'
  BY <1>1 DEF TabInv, Given, Remembered
<1>8. GoodTab(tab)'
  <2>1. GoodTab(tab)
    BY DEF TabInv
  <2>2. /\ tab.found \in SUBSET (0..Len(ids')) /\ tab.trackers \in SUBSET (1..Len(ids'))
        /\ tab.tracker \in 1..Len(ids') \cup {NoTracker}
    BY <1>6, <2>1 DEF GoodTab
  <2>3. tab \in [found : SUBSET (0..Len(ids')), mode : Driver!DeviceMode,
                 trackers : SUBSET (1..Len(ids')),
                 tracker : 1..Len(ids') \cup {NoTracker},
                 checked : BOOLEAN, status : Driver!DeviceMode]
    BY <2>1, <2>2 DEF GoodTab
  <2>4. \A id \in tab.found : DeviceAt(id)' \notin Others
    BY <1>5, <2>1 DEF GoodTab
  <2>. QED  BY <1>1, <2>1, <2>3, <2>4 DEF GoodTab
<1>9. InUse'
  BY <1>1, <1>5, <1>6 DEF TabInv, InUse
<1>10. Sent'
  <2>1. ASSUME NEW a \in applying
        PROVE  /\ a \in [mc : 0..Len(ids'), rt : 0..Len(ids'), on : BOOLEAN]
               /\ Serial(DeviceAt(a.mc)') = Serial(HMD)
               /\ DeviceAt(a.mc)' \notin Others
               /\ DeviceAt(a.rt)' \in Trackers
               /\ a.on => mcm.Mode = "ReferenceTracker" /\ mcm.RtDeviceID = a.rt
    BY <1>5, <1>6, <2>1 DEF TabInv, Sent
  <2>. QED  BY <1>1, <2>1 DEF Sent
<1>11. OnIsWhatDriverDoes'
  BY <1>1, <1>5 DEF TabInv, OnIsWhatDriverDoes, InUse
<1>. QED  BY <1>4, <1>7, <1>8, <1>9, <1>10, <1>11

LEMMA NextTab == TabInv /\ [Next]_vars => TabInv'
<1> SUFFICES ASSUME TabInv, [Next]_vars PROVE TabInv'
  OBVIOUS
<1> DEFINE Goal == /\ Connected' /\ Given' /\ GoodTab(tab)' /\ Remembered' /\ InUse'
                   /\ Sent' /\ OnIsWhatDriverDoes'
<1>0. IInv'
  BY StepRefines, NextIInv DEF TabInv
<1>1. ASSUME NEW d \in Trackers \cup Others, Connect(d) PROVE Goal
  BY <1>1, ConnectTab
<1>2. ASSUME RestartSteamVR PROVE Goal
  <2>1. /\ ids' = <<>> /\ tab' = NewTab /\ visible' = FALSE /\ applying' = {}
        /\ isOn' = FALSE /\ serials' = NoSerials /\ saved' = saved
        /\ mcm' = [mcm EXCEPT !.Mode = "Disabled", !.Enabled = FALSE,
                              !.McDeviceID = -1, !.RtDeviceID = -1]
        /\ deviceMode' = [d \in DeviceId |-> "Default"]
    BY <1>2 DEF RestartSteamVR, Closed
  <2>2. Connected'
    BY <2>1 DEF Connected, IsInjective
  <2>3. Given'
    BY <2>1 DEF TabInv, Given, Driver!Manager, Driver!CompensationMode,
                Driver!DeviceMode, Driver!Off
  <2>4. GoodTab(tab)'
    BY <2>1 DEF GoodTab, NewTab, NoTracker, Driver!DeviceMode
  <2>5. Remembered'
    <3>1. \A S : "" \in SerialsOf(S)
      BY Zenon DEF SerialsOf
    <3>2. NoSerials \in [hmd : SerialsOf({HMD}), tracker : SerialsOf(Trackers)]
      BY <3>1 DEF NoSerials
    <3>. QED  BY <2>1, <3>2 DEF TabInv, Remembered
  <2>6. InUse'
    <3>1. /\ mcm'.Mode = "Disabled"
          /\ mcm'.McDeviceID = -1 /\ mcm'.RtDeviceID = -1
      BY <2>1 DEF TabInv, Given, Driver!Manager
    <3>. QED  BY <3>1 DEF InUse, Driver!Off
  <2>7. Sent' /\ OnIsWhatDriverDoes'
    BY <2>1 DEF Sent, OnIsWhatDriverDoes
  <2>. QED  BY <2>2, <2>3, <2>4, <2>5, <2>6, <2>7
<1>3. ASSUME Start PROVE Goal
  <2>1. /\ serials' = saved /\ tab' = SearchDevices(NewTab)
        /\ UNCHANGED <<ids, mcm, deviceMode, visible, applying, isOn, saved>>
    BY <1>3 DEF Start, driverVars
  <2>2. Connected' /\ Given' /\ Remembered'
    BY <2>1 DEF TabInv, Connected, Given, Remembered
  <2>3. GoodTab(tab)'
    <3>1. GoodTab(SearchDevices(NewTab))
      BY NewTabGood, SearchGood DEF TabInv
    <3>. QED  BY <2>1, <3>1 DEF GoodTab, DeviceAt
  <2>4. InUse'
    BY <2>1 DEF TabInv, InUse, DeviceAt
  <2>5. Sent'
    BY <2>1 DEF TabInv, Sent, DeviceAt
  <2>6. OnIsWhatDriverDoes'
    BY <2>1 DEF TabInv, OnIsWhatDriverDoes, DeviceAt
  <2>. QED  BY <2>2, <2>3, <2>4, <2>5, <2>6
<1>4. ASSUME End PROVE Goal
  <2>1. /\ tab' = NewTab /\ visible' = FALSE /\ applying' = {}
        /\ isOn' = FALSE /\ serials' = NoSerials
        /\ UNCHANGED <<ids, mcm, deviceMode, saved>>
    BY <1>4 DEF End, Closed, driverVars
  <2>2. Connected' /\ Given'
    BY <2>1 DEF TabInv, Connected, Given
  <2>3. GoodTab(tab)'
    BY <2>1 DEF GoodTab, NewTab, NoTracker, Driver!DeviceMode
  <2>4. Remembered'
    <3>1. \A S : "" \in SerialsOf(S)
      BY Zenon DEF SerialsOf
    <3>2. NoSerials \in [hmd : SerialsOf({HMD}), tracker : SerialsOf(Trackers)]
      BY <3>1 DEF NoSerials
    <3>. QED  BY <2>1, <3>2 DEF TabInv, Remembered
  <2>5. InUse'
    BY <2>1 DEF TabInv, InUse, DeviceAt
  <2>6. Sent' /\ OnIsWhatDriverDoes'
    BY <2>1 DEF Sent, OnIsWhatDriverDoes
  <2>. QED  BY <2>2, <2>3, <2>4, <2>5, <2>6
<1>5. ASSUME Dashboard PROVE Goal
  <2>1. UNCHANGED <<ids, mcm, deviceMode, tab, applying, isOn, serials, saved>>
        /\ visible' = ~visible
    BY <1>5 DEF Dashboard, driverVars
  <2>2. Connected' /\ Given' /\ Remembered' /\ GoodTab(tab)'
    BY <2>1 DEF TabInv, Connected, Given, Remembered, GoodTab, DeviceAt
  <2>3. InUse'
    BY <2>1 DEF TabInv, InUse, DeviceAt
  <2>4. Sent'
    BY <2>1 DEF TabInv, Sent, DeviceAt
  <2>5. OnIsWhatDriverDoes'
    BY <2>1 DEF TabInv, OnIsWhatDriverDoes, DeviceAt
  <2>. QED  BY <2>2, <2>3, <2>4, <2>5
<1>6. ASSUME eventLoopTick PROVE Goal
  <2>1. /\ tab' = SearchDevices(updateDeviceInfo(tab))
        /\ UNCHANGED <<ids, driverVars, visible, applying, isOn, serials, saved>>
    BY <1>6 DEF eventLoopTick
  <2>2. GoodTab(SearchDevices(updateDeviceInfo(tab)))
    <3>1. GoodTab(updateDeviceInfo(tab))
      BY UpdateGood DEF TabInv
    <3>. QED  BY <3>1, SearchGood DEF TabInv
  <2>3. GoodTab(tab)'
    BY <2>1, <2>2 DEF GoodTab, DeviceAt
  <2>. QED  BY <2>1, <2>3, RestStays
<1>7. ASSUME NEW id \in DeviceId, SelectTracker(id) PROVE Goal
  <2>1. /\ id \in tab.trackers /\ tab' = [tab EXCEPT !.tracker = id]
        /\ UNCHANGED <<ids, driverVars, visible, applying, isOn, serials, saved>>
    BY <1>7 DEF SelectTracker
  <2>2. GoodTab(tab)'
    BY <2>1 DEF TabInv, GoodTab, DeviceAt
  <2>. QED  BY <2>1, <2>2, RestStays
<1>8. ASSUME CheckBox PROVE Goal
  <2>1. /\ tab' = [tab EXCEPT !.checked = ~tab.checked]
        /\ UNCHANGED <<ids, driverVars, visible, applying, isOn, serials, saved>>
    BY <1>8 DEF CheckBox
  <2>2. GoodTab(tab)'
    BY <2>1 DEF TabInv, GoodTab, DeviceAt
  <2>. QED  BY <2>1, <2>2, RestStays
<1>9. ASSUME applySettings PROVE Goal
  <2>1. /\ tab.trackers # {} /\ applySettings_ovrid(0, tab.tracker, tab.checked)
        /\ UNCHANGED <<ids, tab, visible, isOn, serials, saved>>
    BY <1>9 DEF applySettings
  <2>2. /\ Connected /\ GoodTab(tab) /\ tab.checked \in BOOLEAN
        /\ tab.tracker \in 1..Len(ids) /\ DeviceAt(tab.tracker) \notin Others
    BY <2>1 DEF TabInv, GoodTab
  <2>3. /\ DeviceAt(tab.tracker) \in Trackers
        /\ DeviceAt(0) = HMD /\ HMD \notin Others
        /\ 0 \in 0..Len(ids) /\ tab.tracker \in 0..Len(ids) /\ tab.tracker # 0
    BY <2>2, IdsFit, ListedIsTracker, DeviceAssumption DEF DeviceAt
  <2>4. Given' /\ InUse' /\ Sent' /\ applying' # {}
    BY <2>1, <2>2, <2>3, RequestSent
  <2>5. Connected' /\ Remembered' /\ GoodTab(tab)'
    BY <2>1 DEF TabInv, Connected, Remembered, GoodTab, DeviceAt
  <2>. QED  BY <2>4, <2>5 DEF OnIsWhatDriverDoes
<1>10. ASSUME Applied PROVE Goal
  <2>1. PICK a \in applying :
          /\ applying' = {} /\ isOn' = a.on
          /\ serials' = [hmd |-> Serial(DeviceAt(a.mc)),
                         tracker |-> Serial(DeviceAt(a.rt))]
          /\ saved' = serials'
          /\ UNCHANGED <<ids, mcm, deviceMode, tab, visible>>
    BY <1>10 DEF Applied, driverVars
  <2>2. /\ a.on \in BOOLEAN
        /\ Serial(DeviceAt(a.mc)) = Serial(HMD) /\ DeviceAt(a.rt) \in Trackers
        /\ a.on => mcm.Mode = "ReferenceTracker" /\ mcm.RtDeviceID = a.rt
    BY DEF TabInv, Sent
  <2>3. Connected' /\ Given' /\ GoodTab(tab)'
    BY <2>1 DEF TabInv, Connected, Given, GoodTab, DeviceAt
  <2>4. Remembered'
    <3>1. /\ Serial(DeviceAt(a.mc)) \in SerialsOf({HMD})
          /\ Serial(DeviceAt(a.rt)) \in SerialsOf(Trackers)
      BY <2>2, Zenon DEF SerialsOf
    <3>2. serials' \in [hmd : SerialsOf({HMD}), tracker : SerialsOf(Trackers)]
      BY <2>1, <3>1
    <3>3. visible' \in BOOLEAN
      BY <2>1 DEF TabInv, Remembered
    <3>4. isOn' \in BOOLEAN
      BY <2>1, <2>2
    <3>. QED  BY <2>1, <3>2, <3>3, <3>4 DEF Remembered
  <2>5. InUse' /\ Sent'
    BY <2>1 DEF TabInv, InUse, Sent, DeviceAt
  <2>6. OnIsWhatDriverDoes'
    BY <2>1, <2>2 DEF TabInv, InUse, OnIsWhatDriverDoes, DeviceAt
  <2>. QED  BY <2>3, <2>4, <2>5, <2>6
<1>11. ASSUME NEW k \in Key, Press(k) PROVE Goal
  <2>1. /\ toggleMotionCompensationMode
        /\ UNCHANGED <<ids, visible, isOn, serials, saved>>
    BY <1>11 DEF Press
  <2>2. GoodTab(tab)'
    BY <2>1, Toggled
  <2>3. CASE UNCHANGED <<driverVars, applying>>
    BY <2>1, <2>2, <2>3, RestStays
  <2>4. CASE \E mc, rt \in 0..Len(ids) :
               /\ Serial(DeviceAt(mc)) = Serial(HMD)
               /\ DeviceAt(mc) \notin Others
               /\ DeviceAt(rt) \in Trackers
               /\ mc # rt
               /\ applySettings_ovrid(mc, rt, ~isOn)
    <3>1. (~isOn) \in BOOLEAN
      OBVIOUS
    <3>2. Given' /\ InUse' /\ Sent' /\ applying' # {}
      BY <2>1, <2>4, <3>1, RequestSent
    <3>3. Connected' /\ Remembered'
      BY <2>1 DEF TabInv, Connected, Remembered
    <3>. QED  BY <2>2, <3>2, <3>3 DEF OnIsWhatDriverDoes
  <2>. QED  BY <2>1, <2>3, <2>4, Toggled
<1>12. ASSUME ChangeShortcut PROVE Goal
  <2>1. UNCHANGED <<ids, driverVars, tab, visible, applying, isOn, serials, saved>>
    BY <1>12 DEF ChangeShortcut, tabVars
  <2>2. GoodTab(tab)'
    BY <2>1 DEF TabInv, GoodTab, DeviceAt
  <2>. QED  BY <2>1, <2>2, RestStays
<1>13. ASSUME UNCHANGED vars PROVE Goal
  <2>1. UNCHANGED <<ids, driverVars, tab, visible, applying, isOn, serials, saved>>
    BY <1>13 DEF vars, tabVars
  <2>2. GoodTab(tab)'
    BY <2>1 DEF TabInv, GoodTab, DeviceAt
  <2>. QED  BY <2>1, <2>2, RestStays
<1>14. Goal
  BY <1>1, <1>2, <1>3, <1>4, <1>5, <1>6, <1>7, <1>8, <1>9, <1>10, <1>11, <1>12,
     <1>13 DEF Next
<1>. QED  BY <1>0, <1>14 DEF TabInv

LEMMA TabInvariance == Spec => []TabInv
<1>1. Spec => Init /\ [][Next]_vars
  BY DEF Spec
<1>. QED  BY <1>1, InitTab, NextTab, PTL

(* The overlay's list, the page and the settings have their types: what the
   page lists and selects, and what a request asks for, are ids of devices
   that the driver has a handle of, for any devices that connect. *)
THEOREM TabTypeCorrect == Spec => []TypeOK
<1>1. TabInv => TypeOK
  <2> SUFFICES ASSUME TabInv PROVE TypeOK
    OBVIOUS
  <2>1. ShortcutsTypeOK /\ Connected /\ Given /\ GoodTab(tab) /\ Remembered
    BY DEF TabInv, IInv
  <2>2. applying \subseteq [mc : DeviceId, rt : DeviceId, on : BOOLEAN]
    BY <2>1, IdsFit DEF TabInv, Sent
  <2>3. /\ tab \in [found : SUBSET (0..Len(ids)), mode : Driver!DeviceMode,
                    trackers : SUBSET (1..Len(ids)),
                    tracker : 1..Len(ids) \cup {NoTracker},
                    checked : BOOLEAN, status : Driver!DeviceMode]
        /\ tab.trackers # {} => tab.tracker \in tab.trackers
    BY <2>1 DEF GoodTab
  <2>. QED  BY <2>1, <2>2, <2>3 DEF TypeOK, Connected, Given, Remembered
<1>. QED  BY <1>1, TabInvariance, PTL

(* When the tab believes that compensation is on, the driver compensates with
   the devices whose serials the shortcut goes by, after any sequence of
   applying, toggling, connecting and restarting: for any number of devices,
   also when no serial can be read (_MotionCompensationIsOn). *)
THEOREM OnMeansCompensating == Spec => []OnIsWhatDriverDoes
<1>1. TabInv => OnIsWhatDriverDoes
  BY DEF TabInv
<1>. QED  BY <1>1, TabInvariance, PTL

(* Of the headset and the trackers, no two have one serial: of those whose
   serial cannot be read, and which therefore share one, there is at most
   one. *)
SerialsDistinct ==
  \A d, e \in {HMD} \cup Trackers : Serial(d) = Serial(e) => d = e

LEMMA SerialTells ==
  ASSUME SerialsDistinct, Connected,
         NEW i \in 0..Len(ids), NEW j \in 0..Len(ids),
         DeviceAt(i) \notin Others \/ DeviceAt(i) \in Trackers,
         DeviceAt(j) \notin Others \/ DeviceAt(j) \in Trackers,
         Serial(DeviceAt(i)) = Serial(DeviceAt(j))
  PROVE  i = j
<1>1. /\ HMD \notin Trackers \cup Others /\ Len(ids) \in Nat
      /\ \A k \in 1..Len(ids) : ids[k] \in Trackers \cup Others
      /\ \A k, l \in 1..Len(ids) : ids[k] = ids[l] => k = l
  BY IdsFit, DeviceAssumption DEF Connected, IsInjective
<1>2. \A k \in 0..Len(ids) : k = 0 \/ k \in 1..Len(ids)
  BY <1>1
<1>3. DeviceAt(i) \in {HMD} \cup Trackers /\ DeviceAt(j) \in {HMD} \cup Trackers
  BY <1>1, <1>2 DEF DeviceAt
<1>4. DeviceAt(i) = DeviceAt(j)
  BY <1>3 DEF SerialsDistinct
<1>. QED  BY <1>1, <1>2, <1>4 DEF DeviceAt

(* Then the shortcut finds the very devices in use.  (With two trackers of
   one serial it may find the other one.) *)
LEMMA ToggleOffFinds ==
  ASSUME SerialsDistinct, TabInv, NEW k \in Key, Press(k), isOn, applying' # {}
  PROVE  /\ deviceMode'[mcm.McDeviceID] = "Default"
         /\ deviceMode'[mcm.RtDeviceID] = "Default"
<1>1. /\ toggleMotionCompensationMode /\ applying = {}
      /\ UNCHANGED ids
  BY DEF Press, UserActs
<1>2. PICK mc, rt \in 0..Len(ids) :
        /\ Serial(DeviceAt(mc)) = serials.hmd
        /\ Serial(DeviceAt(rt)) = serials.tracker
        /\ Serial(DeviceAt(mc)) = Serial(HMD)
        /\ DeviceAt(mc) \notin Others
        /\ DeviceAt(rt) \in Trackers
        /\ mc # rt
        /\ applySettings_ovrid(mc, rt, ~isOn)
  <2>1. ~UNCHANGED <<driverVars, applying>>
    BY <1>1
  <2>. QED  BY <1>1, <2>1, Toggled
<1>3. deviceMode'[mc] = "Default" /\ deviceMode'[rt] = "Default"
  <2> DEFINE on == ~isOn
  <2>1. on \in BOOLEAN /\ ~on
    OBVIOUS
  <2>2. applySettings_ovrid(mc, rt, on)
    BY <1>2
  <2> HIDE DEF on
  <2>. QED  BY <1>1, <1>2, <2>1, <2>2, RequestSent
<1>4. /\ mcm.McDeviceID \in 0..Len(ids) /\ mcm.RtDeviceID \in 0..Len(ids)
      /\ DeviceAt(mcm.McDeviceID) \notin Others /\ DeviceAt(mcm.RtDeviceID) \in Trackers
      /\ serials.hmd = Serial(DeviceAt(mcm.McDeviceID))
      /\ serials.tracker = Serial(DeviceAt(mcm.RtDeviceID))
      /\ Connected
  BY <1>1 DEF TabInv, InUse, OnIsWhatDriverDoes
<1>5. mc = mcm.McDeviceID
  BY <1>2, <1>4, SerialTells
<1>6. rt = mcm.RtDeviceID
  BY <1>2, <1>4, SerialTells
<1>. QED  BY <1>3, <1>5, <1>6

(* When serials tell the devices apart, switching compensation off by the
   shortcut puts both devices in use back to Default, whatever the page shows
   meanwhile (toggleMotionCompensationMode finds them by their serials). *)
THEOREM TogglingOffRestores ==
  SerialsDistinct => (Spec => ToggleOffRestores)
<1> SUFFICES ASSUME SerialsDistinct PROVE Spec => ToggleOffRestores
  OBVIOUS
<1>1. TabInv /\ [Next]_vars
        => [\A k \in Key :
              Press(k) /\ isOn /\ applying' # {} =>
                /\ deviceMode'[mcm.McDeviceID] = "Default"
                /\ deviceMode'[mcm.RtDeviceID] = "Default"]_vars
  BY ToggleOffFinds
<1>2. Spec => Init /\ [][Next]_vars
  BY DEF Spec
<1>. QED  BY <1>1, <1>2, TabInvariance, PTL DEF ToggleOffRestores

(* What MotionCompensation_proofs assumes of the overlay (OneHeadset): a
   request names the headset as the device to be compensated, and another
   one as its tracker. *)
AsksForOneHeadset ==
  \A a \in applying : DeviceAt(a.mc) = HMD /\ a.mc = 0 /\ a.rt # a.mc

(* When serials tell the devices apart, every request of the tab does, also
   one of the shortcut, which goes by serials alone. *)
THEOREM OverlayAsksForOneHeadset ==
  SerialsDistinct => (Spec => []AsksForOneHeadset)
<1> SUFFICES ASSUME SerialsDistinct PROVE Spec => []AsksForOneHeadset
  OBVIOUS
<1>1. TabInv => AsksForOneHeadset
  <2> SUFFICES ASSUME TabInv, NEW a \in applying
               PROVE  DeviceAt(a.mc) = HMD /\ a.mc = 0 /\ a.rt # a.mc
    BY DEF AsksForOneHeadset
  <2>1. /\ a.mc \in 0..Len(ids) /\ a.rt \in 0..Len(ids)
        /\ Serial(DeviceAt(a.mc)) = Serial(HMD)
        /\ DeviceAt(a.mc) \notin Others /\ DeviceAt(a.rt) \in Trackers
        /\ Connected
    BY DEF TabInv, Sent
  <2>2. 0 \in 0..Len(ids) /\ DeviceAt(0) = HMD /\ HMD \notin Trackers \cup Others
    BY <2>1, IdsFit, DeviceAssumption DEF DeviceAt
  <2>3. a.mc = 0
    BY <2>1, <2>2, SerialTells
  <2>. QED  BY <2>1, <2>2, <2>3
<1>. QED  BY <1>1, TabInvariance, PTL
=============================================================================
