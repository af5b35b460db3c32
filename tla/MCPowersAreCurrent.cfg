\* 40 bytes carry a whole frame, 38 all but the status flags, 20 end in the cells.
CONSTANTS
    None = None
    HOLD = 3
    Measurements <- AllMeasurements
    Sizes = {20, 38, 40}
    Adapters = {12000, 19000}
SPECIFICATION Spec
INVARIANT
    PowersAreCurrent
