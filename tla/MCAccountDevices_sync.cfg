CONSTANTS
    a = a
    b = b
    p = p
    Pair = {a, b}
    Contacts = {p}
    Peer = p
    MaxAttempts = 1
    MaxEdits = 2
    MaxRounds = 1
    MaxErrors = 1
    MaxStops = 1
    Facts = {1, 2}
    Own = {1}
    InventoryMax = 1
    RoundsPerWindow = 2
    FactScenes <- MCFactScenes
SPECIFICATION FairDevicesSpec
 
PROPERTIES DevicesConverge
CHECK_DEADLOCK FALSE
