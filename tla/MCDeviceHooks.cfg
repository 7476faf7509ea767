CONSTANTS
  d1 = d1
  d2 = d2
  c1 = c1
  Device = {d1, d2}
  Class = {c1}
  ClassOf <- MCClassOf
  Host = {4, 5}
  Forward <- MCForward
  EntryHost <- MCEntryHost
  Id = {1, 3}
  NoId = Invalid
  nullptr = nullptr
  MaxAdds = 2

SPECIFICATION Spec

INVARIANT TypeOK
INVARIANT HooksAreSound
INVARIANT UseCountIsExact
INVARIANT PublishedIsAlive
INVARIANT ActivationIsSeen
INVARIANT CompensatedOnce
PROPERTY HooksStay
CHECK_DEADLOCK FALSE
