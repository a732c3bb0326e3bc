\* A hub with a disk and another device, or a disk at the root port.
SPECIFICATION FairSpec
CONSTANTS
    Locs <- McLocs
    MayHold <- McMayHold
    NUdevs = 4
    NHubs = 2
    NDrives = 2
    MaxAddr = 4
    Moves = 5
    Reads = 1
    Faults = 1
INVARIANTS TypeOK TreeLinked AddressesExact DrivesBound PollingNotNested
CHECK_DEADLOCK FALSE
PROPERTIES TakenOnlyWhenGone Settles PollReturns
