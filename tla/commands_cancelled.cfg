\* One request at a time.
CONSTANTS
    MaxCommands = 2
    Device = {d1, d2}
    Patch = {p1}
    Application = {a1}
    Slot = {s1}
    IssuedTypes = {"LOCK_DEVICE"}
    PendingTake = 1
    None = None
SPECIFICATION Spec
SYMMETRY Symmetry
PROPERTIES
    CancelledIsFinal
