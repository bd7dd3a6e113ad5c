CONSTANTS
    e1 = e1
    e2 = e2
    Keys = {"w1", "w2", "w3"}
    Blank = "blank"
    Facts = {"journal", "preprint", "seed", "bare"}
    Queries <- TwoQueries
    Paged = {"paged"}
    Results <- ServiceResults
    PerQuery = 2
    MaxPages = 2
    Rounds = {"first", "later"}
    Seed = "seed"
    Bare = "bare"
    Cited <- CitedTimes
    Works <- CitedWorks
    Dois = {"w1"}
    Short = {"w3"}
    Designs <- AllDesigns
    Unbound = Unbound
    MaxEdits = 1
    MaxJobs = 2
    Batch <- ScreeningBatch
    Refined = "k"
    Inventory = {"k", "l"}
    Importers = {"i", "j"}
    Nil = Nil
    MaxPlans = 2
    Nowhere = "nowhere"
    Walls = {"doi", "own"}
    Resolver = {"doi"}
    Format <- UrlFormat
    Designated <- UrlDesignated
    Linked <- UrlLinks
    Candidates <- AllCandidates
    Answers <- ServiceAnswers
    Bodies <- UrlBodies
    Signal = "reference_list"
    MaxFollowed = 2
    InPlan = {"lead"}
    CoreInPlan = TRUE
    LeadUrls = {"lead"}
    MaxRuns = 2
    Exporters = {e1, e2}
    Editions = {"before", "after"}
    NoExport = NoExport
    MaxEvidence = 1
    MaxVerdicts = 1
    MaxCommands = 3
    Scenes = {"seeking", "screening", "cascade", "exports"}
SYMMETRY Symmetric
SPECIFICATION Spec
INVARIANTS NotACrawl PopulationIsFrozen QueryRowsAreHonest ChainsReplay PackagesAreWhole
CHECK_DEADLOCK FALSE
