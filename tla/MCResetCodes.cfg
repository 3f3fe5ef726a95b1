CONSTANTS
    Jobs = {j1, j2}
    Resets = {p1}
    MaxAttempts = 2
    Tries = 2
    Throttled = TRUE
    MaxResetCodes = 2
    MaxResetFaults = 1
    MaxCrashes = 1
SPECIFICATION ResetFairSpec
INVARIANTS ActiveSupersedes UsableWereDelivered GuessesBounded SpentStaySpent
PROPERTY DeliveredBecomeUsable
