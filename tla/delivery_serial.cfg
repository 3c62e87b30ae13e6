\* One request at a time, patch installs the server may refuse.
CONSTANTS
    MaxCommands = 2
    Device = {d1}
    Patch = {p1}
    Application = {a1}
    Slot = {s1}
    IssuedTypes = {"RESTART_DEVICE"}
    PendingTake = 1
    None = None
    CommandResultRetries = 1
    MaxPendingResults = 1
    MaxFaults = 2
SPECIFICATION DeliverySpec
INVARIANTS
    DeploymentMirrors
    NoDuplicateInstall
    InstallHasPatch
    AlertMatchesFailure
    FailureGenuine
PROPERTIES
    TerminalIsFinal
    ContractSpec
