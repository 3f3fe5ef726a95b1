CONSTANTS
    Workers = {w1, w2}
    Clients = {c1, c2}
    Stoppers = {s1, s2}
    Capacity = 1
    LogCapacity = 1
    MaxJobs = 3
SPECIFICATION MailFairSpec
INVARIANTS NeverPanics DrainedMeansFinished NothingLost
PROPERTIES ShutdownReturns AcceptedAreRun
CHECK_DEADLOCK FALSE
