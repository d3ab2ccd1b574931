SPECIFICATION FieldsFairSpec
CONSTANTS
    Till = {1, 2}
    Kinds = {"company", "category"}
    Dates = {1}
    MaxMutations = 2
    MaxAttempts = 2
    MaxDeferred = 2
CHECK_DEADLOCK FALSE
PROPERTIES QueueClears
