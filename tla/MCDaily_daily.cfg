SPECIFICATION Spec
CONSTANTS
    LastDay = 2
    Midnight <- Calendar
    FirstDate = 0
    Manual = {m1}
    Instants <- Observed
    MaxFaults = 1
CHECK_DEADLOCK FALSE
INVARIANTS
    OnTimeIsTrue
PROPERTIES
    NoDayIsRefused
    PromptChildrenAreAwaited
    MissIsVisible
    ChildrenEnd
