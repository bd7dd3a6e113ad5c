SPECIFICATION SceneLive
CONSTANTS
  Scenes = {"anything"}
  FewRows = 1
  w1 = w1
  w2 = w2
  c1 = c1
  p1 = p1
  s1 = s1
  l1 = l1
  l2 = l2
  g1 = g1
  Workers = {w1, w2}
  Keys = {c1}
  Labels = {l1}
  Schedules = {s1}
  Policies = {}
  Parent <- NoParents
  NoGrant = NoGrant
  Operator = Operator
  Routine = Routine
  Intake = Intake
  Regates = {g1}
  Free = Free
  NoPlan = NoPlan
  MaxRequests = 1
  MaxOps = 1
  MaxPlanned = 2
  MaxRows = 1
  MaxEpoch = 1
  MaxCrashes = 1
PROPERTIES
  AuthorizedSettles
CHECK_DEADLOCK FALSE
