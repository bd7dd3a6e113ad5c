SPECIFICATION FairSpec
CONSTANTS
  p1 = p1
  p2 = p2
  c1 = c1
  c2 = c2
  api = api
  site = site
  elsewhere = elsewhere
  Projects = {p1}
  Campaigns = {c1, c2}
  Hosts = {api, site, elsewhere}
  InPlan = {api, site}
  Metered = {api}
  Interval <- NoWait
  Credits <- ApiCosts
  DailyCredits = 1
  MaxRequests = 4
  MaxFailures = 1
  MaxRedirects = 2
  DayLength = 1
  Destinations <- Anywhere
  MaxTime = 0
  None = None
INVARIANTS
  CeilingHolds
  RobotsHonoured
PROPERTIES
  NoRequestToFailedHost
  GetEnds
CHECK_DEADLOCK FALSE
