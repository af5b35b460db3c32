\* Two periods, one of them off; a window as long as the period.
CONSTANTS
    None = None
    Unavailable = Unavailable
    Fields = {level, charging, rssi}
    Throttled = {level, rssi}
    DataFields = {level, charging}
    Values = {None, 1}
    Periods = {0, 2}
    UNTHROTTLED = 1
    MaxSetbacks = 1
SPECIFICATION FairSpec
PROPERTY
    ChangeIsShown
