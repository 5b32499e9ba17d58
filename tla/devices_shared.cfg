SPECIFICATION Spec
CONSTANTS
    Users = {u1, u2}
    Fingerprints = {f1}
    Logins = {l1}
    None = None
PROPERTIES
    FailureDecaysKnownDevice
