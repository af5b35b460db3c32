\* Two periods, one of them off; a window shorter than the other.
CONSTANTS
    None = None
    Unavailable = Unavailable
    Fields = {level, charging, rssi}
    Throttled = {level, rssi}
    DataFields = {level, charging}
    Values = {None, 1}
    Periods = {0, 2}
    UNTHROTTLED = 1
    MaxSetbacks = 1
SPECIFICATION ChangingSpec
INVARIANTS
    TypeOK
    AvailabilityIsCurrent
    ThrottleHolds
PROPERTIES
    MirrorsFields
    PendingIsShown
