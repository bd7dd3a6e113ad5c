SPECIFICATION Spec
CONSTANTS
  ann = ann
  d1 = d1
  c1 = c1
  main = main
  t1 = t1
  t2 = t2
  f1 = f1
  f2 = f2
  w1 = w1
  w2 = w2
  a = a
  b = b
  plan = plan
  host = host
  Scenes = {"store", "approvals", "attempts", "files", "references", "offers", "outbox"}
  Writers = {ann, bob}
  Ledgers = {main, audit}
  Digests = {w1, w2}
  Audit = audit
  Free = Free
  Body <- OddsAndEvens
  MaxBegun = 4
  MaxKilled = 3
  People = {ann, bob}
  Discoveries = {d1, d2}
  Candidates = {c1}
  Schedules = {s1}
  Copies = {p1}
  Retries = {r1}
  Entries <- AllDiscoveries
  HitOf <- FoundByFirst
  ScheduleOf <- OnTheSchedule
  Terms = {t1, t2}
  TermsOf <- TermsOfPolicy
  MaxTotal <- Totals
  MaxEach <- OneEach
  WindowOf <- OneWindow
  NoGrant = NoGrant
  NoWork = NoWork
  MaxOps = 2
  MaxRows = 2
  MaxCrashes = 1
  Clerks = {ann, bob}
  Papers = {f1, f2}
  References = {a, b}
  Works = {c1}
  Judged <- Says
  Alike <- Likeness
  OpenRound = TRUE
  Prices = {10, 12}
  None = None
  MaxItems = 2
  MaxOffers = 3
  MaxTransfers = 1
  MaxKills = 1
  Lasting = {plan}
  Passing = {host}
  Channels = {mail}
  MaxAttempts = 2
  RetryAfter = 1
  SendLimit = 1
  Unset = Unset
  MaxCount <- Counts
  MaxTime = 1
  MaxDrainKills = 1
SYMMETRY Symmetric
INVARIANTS ReadersSeeWhole ScheduleIsWhole CeilingsHold OnePolicyAtATime SuppliedCopies OneLiveOffer ToldOnce
PROPERTIES ImplementsRowLog RevocationHolds NothingMissed
CHECK_DEADLOCK FALSE
