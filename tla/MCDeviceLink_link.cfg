CONSTANTS
    d1 = d1
    d2 = d2
    Devices = {d1}
    NoDevice = NoDevice
    MaxCeremonies = 2
    MaxFaults = 1
    MaxCrashes = 1
SPECIFICATION AttendedSpec
INVARIANTS JournalIsTrue ConfirmedStands
PROPERTIES AbandonedIsRevoked
CHECK_DEADLOCK FALSE
