\* A writer and fng-sync refresh the same rows, two days of history at a time.
SPECIFICATION FairSpec
CONSTANTS
  w1 = w1
  s1 = s1
  NoRow = NoRow
  Writers = {w1}
  Syncs = {s1}
  RefreshAfter = 1
  HistoryLimit = 2
  LastDay = 2
  Horizon = 2
  MaxFaults = 1
INVARIANTS TypeOK ToldRecentDay
PROPERTIES CatchesUp CyclesGoOn
