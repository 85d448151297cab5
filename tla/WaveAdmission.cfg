SPECIFICATION Spec
CONSTANTS
    Conductors = {c1}
    MaxMessages = 3
    MaxLive = 1
    MaxTombstones = 1
    MaxRestarts = 1
    NoConductor = NoConductor
INVARIANTS
    TypeOK
    SlotsBounded
    PlanTakenOnce
    NoPlanIgnored
PROPERTIES
    QueueInOrder
    FreeSlotIsUsed
