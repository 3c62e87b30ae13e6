SPECIFICATION Spec
CONSTANTS
    MaxAlerts = 2
    d1 = d1
    None = None
    Slot = {s1, s2}
    Scope <- MCScope
SYMMETRY SlotSymmetry
INVARIANTS
    AlertsTypeOK
    OneUnresolved
PROPERTIES
    BookSpec
