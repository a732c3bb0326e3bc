\* What XmodemRecv reports of the flash it programs.
SPECIFICATION Spec
CONSTANTS
    N = 2
    Cap = 2
    NoMod = 2
    MaxTry = 2
    MaxSync = 2
    MaxRetrans = 2
    MaxEot = 2
    CharFates = {}
    PacketFates = {"bad"}
    FlashFails = TRUE
INVARIANT RecvHonest
CHECK_DEADLOCK FALSE
