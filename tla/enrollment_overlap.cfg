SPECIFICATION Spec
CONSTANTS
    Ask = {a1}
    Serial = {n1, n2}
    Limits = {1}
    Deadline = {x1}
    Expiry = {None}
    Slot = {s1, s2}
    MaxTokens = 2
    MaxCreated = 1
    MaxDevices = 2
    MaxAgentTokens = 3
    MaxFailures = 1
    None = None
SYMMETRY EnrollmentSymmetry
INVARIANTS
    EnrollmentTypeOK
    RevealedOnce
    DecidedOnce
    UseLimit
    LiveTokensKept
