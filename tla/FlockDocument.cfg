SPECIFICATION Spec
CONSTANTS
    Values = {v1, v2}
    None = None
    MaxRevision = 4
INVARIANTS
    TypeOK
    NothingForgotten
    FlushCoversItsCall
PROPERTIES
    FileNeverRegresses
    ImplementsDurableValue
    DebouncedWriteSettles
CHECK_DEADLOCK FALSE
