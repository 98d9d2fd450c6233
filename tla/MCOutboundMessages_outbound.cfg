CONSTANTS
    NoMessage = NoMessage
    Messages = {m1, m2}
    Signed = {m1}
    Devices = {d1, d2}
    d1 = d1
    d2 = d2
    Primary = d1
    PeerSet <- PeerSets
    Limits <- Scenes
    FanLimits <- FanScenes
SPECIFICATION FairFanSpec
INVARIANTS DeliveredIsReal SentIsOnRetryList SealedOnce
PROPERTIES DeliveredIsFinal SentIsProven SuccessIsWhole
CHECK_DEADLOCK FALSE
