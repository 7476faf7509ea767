SPECIFICATION Spec
CONSTANTS
  old = old
  new = new
  newer = newer
  Client = {new, newer}
  Outdated = {}
  MessageId = {1}
  Posts = {}
  DrawsFresh = FALSE
  QueueSize = 1
  MaxConnects = 1
  MaxStarts = 2
INVARIANTS
  TypeOK
  AnswersOwnCall
  ConnectedIsKnown
PROPERTIES
  CallEnds
\* The numbers of connections and of starts are bounded.
CHECK_DEADLOCK FALSE
