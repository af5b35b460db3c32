CONSTANTS
    Writers = {w1}
    Fields = {timeout, idle}
    Alone = {timeout}
    Values = {v1, v2}
    Unknown = Unknown
    MaxReplies = 2
SPECIFICATION Spec
INVARIANTS
    KeepsOtherValues
