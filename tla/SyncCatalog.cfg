SPECIFICATION Spec
CONSTANTS
    Device = {1, 2}
    Entity <- CatalogEntities
    Journal = {}
    Field = {"name", "price"}
    Sensitive = {"price"}
    Needs <- CatalogNeeds
    Seeded <- CatalogSeeded
    Clock = {0}
    MaxEdits = 2
    MaxMut = 3
    MaxFaults = 1
    MaxAttempts = 2
    MaxDeferred = 2
    BatchSize = 2
    PageSize = 1
INVARIANTS SensitiveArbitrated OutboxAgreesWithServer RowsConverge
PROPERTIES DeletionStands
