\* A discovered flow and two started ones meet about one UPS.
CONSTANTS
    MaxReloads = 2
    Discovered = {bluetooth}
    Started = {user1, user2}
SPECIFICATION FairFlowSpec
INVARIANTS
    TypeOK
    EndedSessionReloads
    NoStraySession
    RetryIsWoken
    FormHoldsNoLink
    OneEntry
PROPERTIES
    LostSessionLeaves
    WaitingConnects
