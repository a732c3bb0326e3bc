\* Input and output in any combination of interrupts and PDMA, over a line that
\* takes every liberty.
SPECIFICATION FairSpec
CONSTANTS
    OutSize = 2
    InSize = 2
    Depth = 2
    Puts = 4
    Feeds = 5
    Liberties = {"burst", "late", "lag"}
INVARIANTS TypeOK ReceptionArmed QuietBetweenSends
PROPERTIES ImplementsConsole PutReturns GetReturns
CHECK_DEADLOCK FALSE
