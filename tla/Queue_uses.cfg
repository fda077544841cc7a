\* Four ways to use a queue, with fair time slices.
SPECIFICATION FairSpec
CONSTANTS
    Tasks = {"a", "b", "c"}
    Priority <- MCPriority
    Items = {"x", "y"}
    Nothing = "nothing"
    Uses <- MCUses
INVARIANTS
    ListsAgree
    NoWakeUpLost
PROPERTIES
    ImplementsMailbox
    SendsReturn
    NobodySleepsOn
