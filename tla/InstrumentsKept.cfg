\* A writer and instrument-sync; the exchange changes its filters once.
SPECIFICATION FairSpec
CONSTANTS
  Writers = {"ws-shadow"}
  Syncs = {"instrument-sync"}
  LastVersion = 2
PROPERTY RefreshReachesStrategy
