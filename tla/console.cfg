SPECIFICATION RunningConsole
CONSTANTS
    Tab = {t1, t2}
    Account = {a}
    None = None
    MaxTokens = 2
    MaxFlight = 1
    MaxFaults = 1
INVARIANTS
    SignedOutStays
    ShownSettled
PROPERTIES
    TabsSettle
