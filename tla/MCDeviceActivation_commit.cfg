CONSTANTS
    p = p
    q = q
    Contacts = {p}
    MaxInboxes = 2
    MaxEdits = 1
    MaxFailures = 2
    MaxDeaths = 1
SPECIFICATION FairActivationSpec
INVARIANTS VisibleIsReady
PROPERTIES DeviceCatchesUp
CHECK_DEADLOCK FALSE
