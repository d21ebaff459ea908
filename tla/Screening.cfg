SPECIFICATION Spec
CONSTANTS
    Calls = {c1, c2}
    Deployments <- MCDeployments
    Texts <- MCTexts
    Tokens <- MCTokens
    WordCount <- MCWordCount
    LongTexts <- MCLongTexts
    Ids <- MCIds
    Strip <- MCStrip
    NoId = ""
    MaxCandidates = 3
    NoAnswer = NoAnswer
    NoList = NoList
    Absent = Absent
    StopWords = {4}
    HighValue = {1, 2}
    PartOf <- MCPartOf
    Discount <- MCDiscount
    Bodies <- MCBodies
    Answers <- MCAnswers
    LocalScores <- MCLocalScores
    Cosine <- MCCosine
    TopK = 4
    PrimaryK = 2
    FlatLimit = 5
SYMMETRY MCSymmetry
CONSTRAINT OneUnlessShared
INVARIANTS
    TypeOK
    AcceptedAreRanked
    CappedBelowScored
    HighMeansSeparated
    ClearWinnerIsFirst
    MetricsSound
