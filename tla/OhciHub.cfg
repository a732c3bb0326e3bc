\* A bulk pipe next to a hub's status pipe, whose owner resubmits from the thread.
SPECIFICATION Spec
CONSTANTS
    c1 = c1
    c2 = c2
    b1 = b1
    i1 = i1
    Eps = {b1, i1}
    Kind <- McKind
    Utrs = {r1, r2}
    None = None
    NUnits = 6
    BulkTds = {1, 2}
    Resubmits = {}
    Stoppable = {b1, i1}
    DelayFrames = 2
INVARIANTS NoUnitLost NoFreedRequest QuitIsFinal
