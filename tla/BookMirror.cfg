\* The topic has the depth of the local book.
SPECIFICATION Spec
CONSTANTS
  Prices = {1, 2, 3}
  Qtys = {1, 2}
  StreamDepth = 2
  Depth = 2
  MaxPending = 2
INVARIANTS TypeOK MirrorsStream NotCrossed
