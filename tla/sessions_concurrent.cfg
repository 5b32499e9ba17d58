SPECIFICATION Spec
CONSTANTS
    Users = {u1, u2}
    Sessions = {s1, s2}
    Requests = {r1, r2}
    Duration = 1
    RequireMfa = TRUE
    Faults = TRUE
    None = None
SYMMETRY Symmetry
VIEW NoPromises
INVARIANTS
    TypeOK
    MfaIsEarned
PROPERTIES
    DeadStaysDead
    RemovalIsAuthorised
    LateWritesRunOut
    ImplementsSessionLife
\* Session ids run out, and a client may have no token: the system may stop.
CHECK_DEADLOCK FALSE
