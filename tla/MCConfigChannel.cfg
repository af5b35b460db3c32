\* Two setters of a block with two fields, one of which can be changed alone.
CONSTANTS
    Writers = {w1, w2}
    Fields = {timeout, idle}
    Alone = {timeout}
    Values = {v1, v2}
    Unknown = Unknown
    MaxReplies = 2
SPECIFICATION FairSpec
INVARIANTS
    TypeOK
    QuietKeepsOtherValues
    ShownCatchesUp
PROPERTY
    SettersEnd
