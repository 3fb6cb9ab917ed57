CONSTANTS
    p1 = p1
    p2 = p2
    Processes = {p1, p2}
    Loops = {loop0, loop1}
    Names = {ralfA}
    Numbers = {dm0, dm1}
    Flags <- MCSyncFlags
    PointOf <- MCOwnPoints
    MaxRetries = 2
    MayBeBusy = FALSE
SPECIFICATION Spec
INVARIANTS
    FailedMountUndone
PROPERTIES
    MountReturns
