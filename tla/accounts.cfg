SPECIFICATION Spec
CONSTANTS
    Accounts = {a1, a2}
    Names = {n1, n2}
    Emails = {e1, e2}
    Secrets = {s1, s2}
    Requests = {r1, r2}
    None = None
SYMMETRY Symmetry
INVARIANTS
    TypeOK
    NamesAreUnique
    AdmittedWasAdmissible
    RotationTakesEffect
    UntoldWasLost
