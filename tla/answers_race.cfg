SPECIFICATION Spec
CONSTANTS
    Users = {u1}
    Sessions = {s1}
    Requests = {r1, r2}
    Duration = 2
    RequireMfa = TRUE
    Faults = FALSE
    None = None
SYMMETRY Symmetry
INVARIANTS
    SomePromiseHolds
\* Session ids run out, and a client may have no token: the system may stop.
CHECK_DEADLOCK FALSE
