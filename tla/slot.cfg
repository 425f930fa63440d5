\* Three clients, disconnects, timeouts, crashes and a stop.
SPECIFICATION FairSpec
CONSTANTS
    Clients = {c1, c2, c3}
    MaxChildren = 3
    RespawnAttempts = 3
INVARIANTS
    SlotExclusive
    WorkUnderSlot
    OneChild
PROPERTIES
    SlotFreed
    StopIsFinal
