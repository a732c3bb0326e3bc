\* Characters that go on coming while a reception ends.
SPECIFICATION Spec
CONSTANTS
    OutSize = 2
    InSize = 2
    Depth = 2
    Puts = 4
    Feeds = 5
    Liberties = {"burst"}
INVARIANT NextFromInput
CHECK_DEADLOCK FALSE
