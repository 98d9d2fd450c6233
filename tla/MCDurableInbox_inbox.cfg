CONSTANTS
    alice = alice
    Peers = {alice}
    Peer <- AlicePeer
    Kind <- GroupThenJoin
    NumDeposits = 2
    InitSessions = {alice}
    MaxFaults = 1
    MaxCrashes = 1
    MaxPending = 1
    MaxRetainAttempts = 1
    MaxApplyAttempts = 2
    MinAttemptsForAge = 2
    MaxHeld = 1
    MaxDecryptAttempts = 2
    BackoffAfter = 1
    PageLimit = 2
SPECIFICATION FairSpec
INVARIANTS CoveredIsAccounted
PROPERTIES KeepsPromise NoFalsePoison InboxSettles
