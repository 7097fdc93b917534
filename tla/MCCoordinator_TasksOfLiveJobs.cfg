CONSTANTS
    Worker <- MCWorker
    w1 = w1
    w2 = w2
    MaxJobs = 2
    MapCounts = {1}
    ReduceCounts = {1}
    Outcomes = {TRUE, FALSE}
    MaxFaults = 1
SYMMETRY MCSymmetry
SPECIFICATION Spec
PROPERTY TasksOfLiveJobs
