CONSTANTS
    Replicas = {r1, r2}
    AdminConfigured = TRUE
    People = {x, y}
    Anyone = Anyone
    Locks = {x}
    MaxKeys = 2
    MaxInvites = 1
    MaxStarts = 3
SPECIFICATION FairSpec
INVARIANTS OneCurrentKey ServingIsReady InvitesRegisterOnce
PROPERTIES ShutdownExits
CHECK_DEADLOCK FALSE
