SPECIFICATION StoreSpec
CONSTANTS
  w1 = w1
  w2 = w2
  main = main
  audit = audit
  d1 = d1
  d2 = d2
  Writers = {w1, w2}
  Ledgers = {main, audit}
  Digests = {d1, d2}
  Audit = audit
  Free = Free
  Body <- OddsAndEvens
  MaxBegun = 4
  MaxKilled = 3
SYMMETRY Symmetric
INVARIANTS
  NothingAcceptedIsLost
CHECK_DEADLOCK FALSE
