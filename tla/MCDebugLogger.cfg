\* Three rows are the first, one in between and the last.
SPECIFICATION FairSpec
CONSTANTS
  MAX_DEBUG_ENTRIES = 3
  MaxLogs = 2
INVARIANTS TypeOK RowsOfOneLog
PROPERTIES StopSaves FillsUp
