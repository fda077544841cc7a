\* Mutexes taken while others are held.
SPECIFICATION Spec
CONSTANTS
    Tasks = {"a", "b", "c", "d"}
    Mutexes = {"m", "n"}
    Nobody = "nobody"
    Uses <- MCUses
PROPERTIES
    NextHighestWaiter
