SPECIFICATION Spec
CONSTANTS
    Rules <- MCRules
    MaxRules = 3
    Resources <- MCResources
    Actions <- MCActions
    Hours <- MCHours
    Ages <- MCAges
    DefaultDeny = TRUE
    RequireMfa = FALSE
    StepUp = 60
    Block = 85
INVARIANTS
    ContextIsHeeded
\* The request has been answered.
CHECK_DEADLOCK FALSE
