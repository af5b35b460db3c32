CONSTANTS
    Writers = {w1}
    Voltages = {v1, v2}
    TooHigh = {v3}
    Currents = {i1}
    Unknown = Unknown
    ATTEMPTS = 2
    READS = 1
SPECIFICATION Spec
INVARIANTS
    RestartIsAsked
