SPECIFICATION Spec
CONSTANTS
  m1 = m1
  b1 = b1
  Mandates = {m1}
  Terms <- MandateTerms
  Offers <- PersonOffers
  Budgets = {b1}
  NoBudget = NoBudget
  Worker = Worker
  NoOp = NoOp
  Costs = {1}
  Unknown = Unknown
  MaxCalls = 2
  MaxAsked = 2
  MaxPlanned = 2
  MaxAttempts = 2
  MaxByHand = 1
  MaxCrashes = 1
INVARIANTS
  CapHolds
  NoAnswerBoughtTwice
PROPERTIES
  ImplementsAllowance
CHECK_DEADLOCK FALSE
