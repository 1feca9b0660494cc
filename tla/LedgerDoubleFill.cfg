\* The compose stack with paper trading on: writer and paper-runner both fill.
SPECIFICATION Spec
CONSTANTS
  w1 = w1
  f1 = f1
  o1 = o1
  Writers = {w1}
  Fillers = {f1}
  Operators = {}
  PaperTrading = TRUE
  PartialFills = FALSE
  WantedQtys = {1}
  ManualQtys = {2}
  QtyCap = 1
  QtyStep = 1
  MaxIntents = 2
  MaxFilled = 2
INVARIANTS FilledWithinOrder

