SPECIFICATION FairSpec
CONSTANTS
    Turn = {t1, t2}
    Uses = 1
    MaxRevocations = 1
    MaxFaults = 2
INVARIANTS OneLoop EnrolmentsAccounted TelemetryOwed
PROPERTIES Recovers
