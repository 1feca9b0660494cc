\* One writer process, which also simulates the paper fills; partial fills.
SPECIFICATION Spec
CONSTANTS
  w1 = w1
  f1 = f1
  o1 = o1
  Writers = {w1}
  Fillers = {}
  Operators = {}
  PaperTrading = TRUE
  PartialFills = TRUE
  WantedQtys = {3, 7}
  ManualQtys = {1}
  QtyCap = 4
  QtyStep = 2
  MaxIntents = 3
  MaxFilled = 9
INVARIANTS FilledWithinOrder LedgerBalanced ExposureCapped SellBacked
PROPERTY ImplementsBook
