\* Candles of the past.
SPECIFICATION Spec
CONSTANTS
  Runners = {"backtest"}
  FillModels = {"touch"}
  ForceClose = FALSE
  InitialQuote = 100
  FeeUnit = 10
  FeeRate = 2
  Prices = {2, 3, 4}
  Ttls = {0, 1}
  WallClock = 9
  MaxTime = 5
  MaxItems = 2
  MaxEvents = 6
  WantedQtys = {2, 5}
  QtyCap = 5
  QtyStep = 2
PROPERTIES TouchedBuyFills
CHECK_DEADLOCK FALSE
