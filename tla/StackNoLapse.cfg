\* Two writer processes and paper trading in their cycles; the clock stops just
\* before the first lease can lapse.
SPECIFICATION Spec
CONSTANTS
  o1 = o1
  o2 = o2
  NoOwner = NoOwner
  Owners = {o1, o2}
  Ttl = 2
  MaxLive = 2
  Releases = FALSE
  MaxClock = 1
  Fillers = {}
  PaperTrading = TRUE
  PartialFills = FALSE
  WantedQtys = {1}
  QtyCap = 1
  QtyStep = 1
  MaxIntents = 3
  MaxFilled = 2
INVARIANTS AtMostOneActive FirstLeaseExclusive LedgerSound
PROPERTIES SkipsForeignLease
CHECK_DEADLOCK FALSE
