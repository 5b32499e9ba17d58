SPECIFICATION Spec
CONSTANTS
    Creds = {c1, c2}
    Ceremonies = {k1, k2}
    MaxCounter = 2
    None = None
INVARIANTS
    TypeOK
PROPERTIES
    DeletedStaysDeleted
    SignInIsRecorded
    RegistrationNeverReplaces
