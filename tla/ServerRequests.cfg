SPECIFICATION Spec
CONSTANTS
    Device = {1, 2}
    Field = {"name", "price"}
    Sensitive = {"price"}
    Clock = {1}
    MaxSends = 2
    MaxAborts = 1
CHECK_DEADLOCK FALSE
INVARIANTS SomeRequestAdvances AnsweredOnce VersionsHold
