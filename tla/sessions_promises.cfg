SPECIFICATION FairPromiseSpec
CONSTANTS
    Users = {u1}
    Sessions = {s1}
    Requests = {r1, r2}
    Duration = 2
    RequireMfa = TRUE
    Faults = TRUE
    None = None
INVARIANTS
    RevokedUnlessExcused
    VerifiedUnlessExcused
    ForwardedWasEntitled
PROPERTIES
    SessionsEnd
    EveryRequestDecided
\* Session ids run out, and a client may have no token: the system may stop.
CHECK_DEADLOCK FALSE
