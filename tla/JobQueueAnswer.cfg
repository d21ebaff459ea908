SPECIFICATION Spec
CONSTANTS
    j1 = j1
    j2 = j2
    j3 = j3
    Jobs <- MCJobs
    Workers = 1
    MaxJobs = 2
    TTL = 1
    MaxTime = 2
INVARIANT DoneCarriesResult
