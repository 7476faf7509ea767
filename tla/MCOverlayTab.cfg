SPECIFICATION Spec
CONSTANTS
  k1 = k1
  k2 = k2
  Key <- Keys
  winId <- Numbers
  HMD = HMD
  Trackers = {t1, t2}
  Others = {b1}
  Unreadable = {t2}
INVARIANTS
  TypeOK
  NoStaleHotKey
  OnIsWhatDriverDoes
PROPERTIES
  RestartRestores
  ToggleOffRestores
  PageFollows
CHECK_DEADLOCK FALSE
