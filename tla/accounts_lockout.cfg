SPECIFICATION Spec
CONSTANTS
    Accounts = {a1}
    Names = {n1}
    Emails = {e1}
    Secrets = {s1, s2}
    Requests = {r1}
    None = None
SYMMETRY Symmetry
INVARIANTS
    GatedHaveEnrolled
