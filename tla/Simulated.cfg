\* Recordings with messages of up to two trades, and candles before and after
\* the time of the run, under both fill models.
SPECIFICATION Spec
CONSTANTS
  Runners = {"replay", "backtest"}
  FillModels = {"touch", "trade_through"}
  ForceClose = TRUE
  InitialQuote = 100
  FeeUnit = 10
  FeeRate = 2
  Prices = {1, 2, 3, 4, 5}
  Ttls = {0, 1}
  WallClock = 1
  MaxTime = 3
  MaxItems = 2
  MaxEvents = 5
  WantedQtys = {2, 5}
  QtyCap = 5
  QtyStep = 2
INVARIANTS TypeOK AccountBalanced NeverOverdrawn OpenedWithPosition FilledOnce
PROPERTIES OneRoundTrip TargetExitProfits
CHECK_DEADLOCK FALSE
