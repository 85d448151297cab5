SPECIFICATION Spec
CONSTANTS
    Tombs = {t1, t2}
    MaxVersion = 2
    MaxChanges = 3
    MaxRestarts = 2
    None = None
    Absent = Absent
    Corrupt = Corrupt
INVARIANTS
    TypeOK
    HeldChangesAreWritten
PROPERTIES
    NoTombstoneErased
    MigratedNeverRollsBack
    HydrationSettles
CHECK_DEADLOCK FALSE
