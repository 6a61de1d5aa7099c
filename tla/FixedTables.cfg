SPECIFICATION FairSpec
CONSTANTS
    Threads = {t1, t2}
    NoThread = NoThread
    Keys = {1, 2}
    Capacity = 3
    HashRange = 5
    Hash <- MCHash
INVARIANTS
    TypeOK
    KeysAreUnique
    KeysAreReachable
    ChecksumAgrees
PROPERTIES
    SlotsOnlyAge
    Linearizable
    CallsReturn
