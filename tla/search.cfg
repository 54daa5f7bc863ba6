CONSTANTS
    p1 = p1
    p2 = p2
    None = None
    Process = {p1, p2}
    Product = {1, 2, 3}
    Text <- MCText
    Query <- MCQuery
    Release <- MCRelease
    Dimension <- MCDimension
    Similarity <- MCSimilarity
    Matched <- MCSimilarity
    Score <- MCScore
    Response <- MCResponse
    RecallTopN = 2
    Initially <- MCInitially
    MaxStarts = 3
    MaxSearches = 1
    MaxFaults = 1
SPECIFICATION Spec
CHECK_DEADLOCK FALSE
SYMMETRY Symmetry
INVARIANTS FingerprintTellsVector BootstrapLeavesCurrentIndex RecallComparesLike NothingThatFitsIsMissed RerankingIsHonest
