\* Three tasks of two priorities, four values of the tick.
SPECIFICATION FairSpec
CONSTANTS
    Created <- MCCreated
    Idle = "idle"
    configMAX_PRIORITIES = 5
    Priority <- MCPriority
    End = "end"
    MaxDelay = 3
    Delays = {1, 3}
    MaxPended = 2
    MaxNested = 1
INVARIANTS
    ListsAgree
    HighestRuns
PROPERTIES
    EqualsTakeTurns
    ResumeYields
    ImplementsSleepers
