CONSTANTS
    Page = {"devices", "alerts", "patches", "users", "policies", "tokens",
            "groups", "software", "audit", "activity"}
    Row = {1, 2}
    PageSize = 1
    None = None
    MaxChoices = 3
    MaxLoads = 1
    MaxEvents = 1
    Target = {1, 2}
    NoTarget = NoTarget
    MaxActs = 7
    MaxOut = 2
SPECIFICATION PagesSpec
INVARIANTS ShownIsChosen OwnChangesShown TicksFit
 
CHECK_DEADLOCK FALSE
