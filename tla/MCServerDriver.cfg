\* saber and deactivate: a mode of each slot, and Default.
CONSTANTS
  Interactions = {"saber", "deactivate"}
  Values = {v1, v2}
  PadValues = {0}
  MaxPresses = 1
  MaxPoses = 1

SPECIFICATION FairSpec

INVARIANT TypeOK
INVARIANT HandsDoNotMix
INVARIANT HandsAgree
PROPERTY SelectionTakesEffect
CHECK_DEADLOCK FALSE
