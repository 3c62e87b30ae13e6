SPECIFICATION RunningSpec
CONSTANTS
    Device = {d1}
    Slot = {s1, s2}
    MaxAlerts = 4
    Triaging = TRUE
    MaxChanges = 2
    MaxFailures = 1
    None = None
    Scope <- MCScope
PROPERTIES
    ReportingRecovers
    SilenceNoticed
