\* A bulk transfer of several pieces runs out of units.
SPECIFICATION Spec
CONSTANTS
    c1 = c1
    c2 = c2
    b1 = b1
    i1 = i1
    Eps = {b1}
    Kind <- McKind
    Utrs = {r1}
    None = None
    NUnits = 2
    BulkTds = {1, 2}
    Resubmits = {}
    Stoppable = {}
    DelayFrames = 2
INVARIANT LinkedEdsAllocated
