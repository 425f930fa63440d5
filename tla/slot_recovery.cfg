\* A child that dies while the thread that started it is still returning.
SPECIFICATION FairSpec
CONSTANTS
    Clients = {c1}
    MaxChildren = 3
    RespawnAttempts = 2
PROPERTY RecoveryEnds
