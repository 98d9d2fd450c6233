CONSTANTS
    a1 = a1
    a2 = a2
    Accounts = {a1, a2}
    Smaller = a1
    MaxInvites = 2
    MaxQueue = 1
    Scenes <- MCScenes
SPECIFICATION FairContactsSpec
 
PROPERTIES LinkHeals
CHECK_DEADLOCK FALSE
