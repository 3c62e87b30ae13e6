\* Two requests in flight at once, two failures.
CONSTANTS
    MaxCommands = 2
    Device = {d1}
    Patch = {}
    Application = {}
    Slot = {s1, s2}
    IssuedTypes = {"RESTART_DEVICE"}
    PendingTake = 2
    None = None
    CommandResultRetries = 1
    MaxPendingResults = 1
    MaxFaults = 2
SPECIFICATION FairDeliverySpec
INVARIANTS
    TypeOK
PROPERTIES
    CancelInTime
    
    ContractSpec
    QueueDrains
