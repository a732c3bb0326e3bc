\* Control transfers to two devices and a bulk pipe, with disconnection.
SPECIFICATION Spec
CONSTANTS
    c1 = c1
    c2 = c2
    b1 = b1
    i1 = i1
    Eps = {c1, c2, b1}
    Kind <- McKind
    Utrs = {r1}
    None = None
    NUnits = 6
    BulkTds = {1, 2}
    Resubmits = {}
    Stoppable = {c1, c2, b1}
    DelayFrames = 2
INVARIANTS TypeOK ReachableAllocated TdsExclusive NoUnitLost NoFreedRequest TdCntExact QuitIsFinal RemovedBeforeReturn
PROPERTY ResultStable
