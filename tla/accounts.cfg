SPECIFICATION Spec
CONSTANTS
    None = None
    Home = home
    Org = {home, acme}
    Root = root
    User = {root, ann, bob}
    Others = {ann, bob}
    Change <- OneChange
    Lesser = {"VIEWER"}
    MaxSwitched = 1
    MaxContested = 1
    Slot = {s1, s2}
SYMMETRY Interchangeable
INVARIANTS
    AccountsTypeOK
    TenantIsolation
PROPERTIES
    LastAdminKept
    SuperAdminProtected
CHECK_DEADLOCK FALSE
