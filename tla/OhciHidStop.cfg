\* usbh_hid_stop_int_read races the completion of the pipe it stops.
SPECIFICATION Spec
CONSTANTS
    c1 = c1
    c2 = c2
    b1 = b1
    i1 = i1
    Eps = {i1}
    Kind <- McKind
    Utrs = {r1}
    None = None
    NUnits = 6
    BulkTds = {1}
    Resubmits = {i1}
    Stoppable = {i1}
    DelayFrames = 2
INVARIANT NoFreedRequest
