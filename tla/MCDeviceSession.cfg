CONSTANTS
    Sessions = {s1, s2}
    DATA_TIMEOUT = 3
    POLL_INTERVAL = 2
SPECIFICATION FairSpec
INVARIANTS
    TypeOK
    TasksAreHeld
    SessionIsServed
    StaleInTime
PROPERTIES
    PollEnds
