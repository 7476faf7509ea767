CONSTANTS
  MaxDatagrams = 5
  SocketCapacity = 2
  Torn = Torn

SPECIFICATION FairSpec

INVARIANT TypeOK
INVARIANT NoLostUpdate
INVARIANT BoundedRedelivery
PROPERTY ImplementsMailbox
PROPERTY NeverGoesBack
PROPERTY StoredIsDelivered
PROPERTY QueuedIsStored
CHECK_DEADLOCK FALSE
