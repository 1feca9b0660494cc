\* One writer process at a time, restarted any number of times, under instance
\* ids that are new or have run before.
SPECIFICATION FairSpec
CONSTANTS
  o1 = o1
  o2 = o2
  o3 = o3
  NoOwner = NoOwner
  Owners = {o1, o2, o3}
  Ttl = 2
  MaxLive = 1
  Releases = TRUE
  MaxClock = 6
INVARIANTS TypeOK OneInForce
PROPERTIES ImplementsLease DeadOwnerReplaced
CHECK_DEADLOCK FALSE
