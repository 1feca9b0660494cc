\* The compose stack with paper trading on, and an operator: a writer that
\* simulates fills, a paper-runner that simulates them too, and mark-filled.
SPECIFICATION FairSpec
CONSTANTS
  w1 = w1
  f1 = f1
  o1 = o1
  Writers = {w1}
  Fillers = {f1}
  Operators = {o1}
  PaperTrading = TRUE
  PartialFills = FALSE
  WantedQtys = {1}
  ManualQtys = {2}
  QtyCap = 1
  QtyStep = 1
  MaxIntents = 2
  MaxFilled = 1
INVARIANTS TypeOK AtMostOneActive
PROPERTIES EndedStaysEnded DueIntentLeaves
