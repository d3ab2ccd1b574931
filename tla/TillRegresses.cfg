SPECIFICATION Spec
CONSTANTS
    Device = {1}
    Entity <- CatalogEntities
    Journal = {}
    Field = {"price"}
    Sensitive = {"price"}
    Needs <- CatalogNeeds
    Seeded <- CatalogSeeded
    Clock = {0}
    MaxEdits = 3
    MaxMut = 3
    MaxFaults = 2
    MaxAttempts = 3
    MaxDeferred = 2
    BatchSize = 3
    PageSize = 1
INVARIANTS NothingRegresses
CHECK_DEADLOCK FALSE
