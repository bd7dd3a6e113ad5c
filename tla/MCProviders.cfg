SPECIFICATION Spec
CONSTANTS
  p1 = p1
  p2 = p2
  c1 = c1
  c2 = c2
  api = api
  site = site
  elsewhere = elsewhere
  Projects = {p1, p2}
  Campaigns = {c1}
  Hosts = {api, site}
  InPlan = {api, site}
  Metered = {api}
  Interval <- OneStep
  Credits <- ApiCosts
  DailyCredits = 1
  MaxRequests = 2
  MaxFailures = 2
  MaxRedirects = 1
  DayLength = 2
  Destinations = {}
  MaxTime = 3
  None = None
SYMMETRY Symmetric
INVARIANTS
  CreditsHold
PROPERTIES
  SpacedStarts
CHECK_DEADLOCK FALSE
