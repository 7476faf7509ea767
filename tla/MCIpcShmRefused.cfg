SPECIFICATION Spec
CONSTANTS
  old = old
  new = new
  newer = newer
  Client = {old, new}
  Outdated = {old}
  MessageId = {1}
  Posts = {}
  DrawsFresh = FALSE
  QueueSize = 1
  MaxConnects = 2
  MaxStarts = 1
PROPERTIES
  RefusalIsReported
\* The numbers of connections and of starts are bounded.
CHECK_DEADLOCK FALSE
