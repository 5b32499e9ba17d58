SPECIFICATION LoginSpec
CONSTANTS
    Users = {u1, u2}
    Fingerprints = {f1}
    Logins = {l1, l2}
    None = None
    Hours = {3, 12}
    StepUp = 45
    Block = 60
INVARIANTS
    TypeOK
    TrustMatchesScore
    TrustIsEarned
    HistoryIsOwn
    LoginTypeOK
    TokenIsBacked
    LoginAuditAgrees
