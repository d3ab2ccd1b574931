SPECIFICATION CyclesSpec
CONSTANTS
    MaxEngines = 3
    MaxDbFaults = 2
    Device = {1, 2, 3}
    Field = {"name", "color", "unit"}
    Clock = {1, 2}
    Till = {1, 2}
    Kinds <- AllKinds
    Dates = {1, 2}
    MaxMutations = 3
    MaxAttempts = 2
    MaxDeferred = 2
    Callers = {c1, c2}
    Products = {nail}
    Categories = {iron, tools}
    Quantities = {2}
    Posts = {till}
    MaxDepth = 20
    MaxRequests = 4
    Nil = Nil
CHECK_DEADLOCK FALSE
INVARIANTS OneLoop DisjointSurvive LastWriterWins NothingTypedIsLost DeskHolds
PROPERTIES HealthyKeepsTrying
