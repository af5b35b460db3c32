CONSTANTS
    Clients = {c1, c2}
    NoClient = NoClient
    MAX_ERRORS_BEFORE_RECONNECT = 1
SPECIFICATION FairSpec
PROPERTY TooManyErrorsEnd
