CONSTANTS
    Ids = {ann, bob}
    Ann = ann
    Emails = {mail}
    Subs = {sub}
    Words = {w1, w2}
    Secret = w1
    None = None
    MaxRows = 4
    Threads = {t1, t2}
    Tokens = {k1, k2}
    Keys = {key1, key2}
    Requests = {r1, r2}
    LoginLimit = 1
    AddressLimit = 2
    HeldLimit = 1
    Idle = 1
    Absolute = 2
    Window = 2
    Kept = 2
    MaxClock = 2
    Scenes = {"ledger", "doors", "people", "keys", "tabs", "names"}
    d1 = d1
    d2 = d2
    left = left
    right = right
    other = other
    Drafts = {d1, d2}
    Tabs = {left, right, other}
    DraftOf <- OpenIn
    Names = {alpha, beta}
    Texts = {plain, changed}
    plain = plain
    Blank = Blank
    Empty = Empty
    Foreign = Foreign
    LastDay = 1
    MaxRevision = 4
    MaxServerKills = 1
SYMMETRY Symmetric
SPECIFICATION Spec
INVARIANTS DoorsApart LoginCarriesProof KeyStandsForOne OneProjectPerDraft
PROPERTY AdminRemains
CHECK_DEADLOCK FALSE
