\* Two links with one tolerated error: a session, its predecessor's late reports and
\* the disconnect that was given up all fit at once. No symmetry: it is unsound with
\* liveness.
CONSTANTS
    Clients = {c1, c2}
    NoClient = NoClient
    MAX_ERRORS_BEFORE_RECONNECT = 1
SPECIFICATION FairSpec
INVARIANTS
    TypeOK
    SessionHasLink
    NextConnectStarts
    NoForgottenLink
PROPERTIES
    LossIsReal
    KeepsPromise
    ConnectSettles
    LostLinkNoticed
