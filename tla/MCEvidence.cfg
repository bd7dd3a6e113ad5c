CONSTANTS
    s1 = s1
    s2 = s2
    c1 = c1
    c2 = c2
    c3 = c3
    A = A
    B = B
    r1 = r1
    r2 = r2
    x = x
    None = None
    Sources = {s1, s2}
    Chunks = {c1, c2, c3}
    Texts = {A, B}
    Readers = {r1, r2}
    Records = {x}
    Verdicts = {supported, overstated}
    SourceOf <- ChunkSource
    TextOf <- ChunkText
    Outputs = {{}, {x}}
    Gate <- Gates
    Protocols <- AllProtocols
    First <- Base
    MaxCopies = 3
    Scenes = {"readings", "reviews", "upgrade", "copies", "corpus", "protocols"}
SYMMETRY Symmetric
SPECIFICATION Spec
INVARIANTS FinalMeansRead StandingVerdictHolds DoneIsDone InboxComplete
CHECK_DEADLOCK FALSE
