SPECIFICATION FairSpec
CONSTANTS
    Device = {1, 2}
    Entity <- SmallEntities
    Journal <- SmallRows
    Field = {}
    Sensitive = {}
    Needs <- SmallNeeds
    Seeded <- NothingSeeded
    Clock = {0}
    MaxEdits = 2
    MaxMut = 2
    MaxFaults = 1
    MaxAttempts = 2
    MaxDeferred = 2
    BatchSize = 2
    PageSize = 1
PROPERTIES QueueDrains JournalReachesAll
