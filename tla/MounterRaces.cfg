CONSTANTS
    p1 = p1
    p2 = p2
    Processes = {p1, p2}
    Loops = {loop0, loop1}
    Names = {ralfA, ralfB}
    Numbers = {dm0, dm1}
    Flags <- MCMixedFlags
    PointOf <- MCSharedPoint
    MaxRetries = 2
    MayBeBusy = TRUE
SYMMETRY MCSymmetry
SPECIFICATION Spec
INVARIANTS
    MountsOwnImage
    NothingLeftBehind
PROPERTIES
    OnlyOwnDeviceRemoved
