SPECIFICATION Spec
CONSTANTS
    Device = {1, 2}
    Entity <- JournalEntities
    Journal <- JournalRows
    Field = {}
    Sensitive = {}
    Needs <- JournalNeeds
    Seeded <- NothingSeeded
    Clock = {0}
    MaxEdits = 3
    MaxMut = 3
    MaxFaults = 1
    MaxAttempts = 2
    MaxDeferred = 2
    BatchSize = 2
    PageSize = 1
INVARIANTS AppliedOnce JournalWhole
PROPERTIES RowsSpread
