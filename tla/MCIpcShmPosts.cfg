SPECIFICATION Spec
CONSTANTS
  old = old
  new = new
  newer = newer
  Client = {old, new}
  Outdated = {old}
  MessageId = {1, 2}
  Posts = {"silent", "reply"}
  DrawsFresh = TRUE
  QueueSize = 2
  MaxConnects = 1
  MaxStarts = 2
INVARIANTS
  NothingLeftBehind
  ReceiverHasQueue
\* The numbers of connections and of starts are bounded.
CHECK_DEADLOCK FALSE
