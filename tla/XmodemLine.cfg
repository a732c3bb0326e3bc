\* Everything the line can do, programming that may fail, three packets of which
\* the receiver has room for two: numbers wrap, and both calls return.
SPECIFICATION FairSpec
CONSTANTS
    N = 3
    Cap = 2
    NoMod = 2
    MaxTry = 2
    MaxSync = 2
    MaxRetrans = 2
    MaxEot = 2
    CharFates = {"lost", "noise"}
    PacketFates = {"lost", "bad", "badno", "short", "stray"}
    FlashFails = TRUE
INVARIANTS TypeOK InOrder NeverTwoApart
PROPERTIES ImplementsTransfer SendReturns RecvReturns
CHECK_DEADLOCK FALSE
