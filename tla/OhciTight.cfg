\* A pool too small for most submissions: what a failed one leaves behind, and
\* every call returns and every removal happens, whatever the device does.
SPECIFICATION FairSpec
CONSTANTS
    c1 = c1
    c2 = c2
    b1 = b1
    i1 = i1
    Eps = {c1, b1}
    Kind <- McKind
    Utrs = {r1, r2}
    None = None
    NUnits = 3
    BulkTds = {2}
    Resubmits = {}
    Stoppable = {}
    DelayFrames = 2
INVARIANTS LinkedEdsAllocated NoFreedRequest
PROPERTIES CallsReturn RemovalHappens
