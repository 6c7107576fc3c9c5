SPECIFICATION Spec
CONSTANTS
    east = east
    west = west
    client = client
    Servers = {east, west}
    Keys <- MCKeys
    Calls <- MCCalls
    NAccounts = 2
    MaxFaults = 1
    Limit = 2
    Minute = 2
    NoBucket = NoBucket
    NoCall = NoCall
    MaxDelay = 2
    MaxTime = 4
    MaxRequests = 6
INVARIANTS
    SeedWholeAndOnce
    WindowsKept
    BurstBounded
PROPERTY
    EveryServerServes
