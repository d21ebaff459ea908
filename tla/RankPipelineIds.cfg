SPECIFICATION Spec
CONSTANTS
    r1 = r1
    r2 = r2
    r3 = r3
    b1 = b1
    NoList = NoList
    Ranks <- MCRanks
    BatchRanks <- MCBatch
    Builds <- MCBuilds
    Size <- MCSize
    Workers = 2
    TopK = 3
    TopN = 2
    FlatLimit = 3
INVARIANT RankAllIdsValid
