CONSTANTS
    Worker <- MCWorker
    w1 = w1
    w2 = w2
    MaxJobs = 1
    MapCounts = {2}
    ReduceCounts = {1}
    Outcomes = {TRUE, FALSE}
    MaxFaults = 1
SPECIFICATION Spec
INVARIANT TypeOK TaskPartition ReduceAfterMaps DoneMeansReduced
