\* Every set of candles of five times, every range, pages of one to three;
\* and every recording of three trades.
SPECIFICATION FairSpec
CONSTANTS
  Step = 2
  Times = {0, 1, 2, 3, 4, 5, 6, 7, 8}
  TradeTimes = {0, 1, 2, 3, 4}
  PageLimits = {1, 2, 3}
  ApiLimit = 2
  Prices = {0, 1, 2}
  Qtys = {1, 2}
  MaxTrades = 3
INVARIANTS TypeOK DownloadExact BuiltExactly
PROPERTY DownloadEnds
CHECK_DEADLOCK FALSE
