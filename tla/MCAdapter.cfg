CONSTANTS
    Writers = {w1, w2}
    Voltages = {v1}
    TooHigh = {v3}
    Currents = {i1, i2}
    Unknown = Unknown
    ATTEMPTS = 2
    READS = 1
SPECIFICATION Spec
SYMMETRY Symmetric
INVARIANTS
    TypeOK
    ConfirmedValuesStay
    SuccessReachesBoard
    LockIsHeld
PROPERTIES
    SettersKeepPromise
    AskedUnlessStale
