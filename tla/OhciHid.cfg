\* A HID input pipe that resubmits from its callback, next to bulk transfers of
\* one or two TDs that time out.
SPECIFICATION Spec
CONSTANTS
    c1 = c1
    c2 = c2
    b1 = b1
    i1 = i1
    Eps = {b1, i1}
    Kind <- McKind
    Utrs = {r1, r2}
    None = None
    NUnits = 8
    BulkTds = {1, 2}
    Resubmits = {i1}
    Stoppable = {b1}
    DelayFrames = 2
INVARIANTS ReachableAllocated TdsExclusive NoUnitLost TdCntExact
SYMMETRY McSymmetry
