CONSTANTS
    d1 = d1
    d2 = d2
    Primary = Primary
    Delegate = Delegate
    Others = {d1}
    MaxEpoch = 2
    MaxCycles = 2
    MaxStale = 2
    MaxFaults = 1
SPECIFICATION FairSpec
INVARIANTS PublicationIsSound
PROPERTIES RevocationsArePublished
