\* Requests as the console sends them.
SPECIFICATION Spec
CONSTANTS
    Policy = {p1, p2}
    Given = {p1}
    Group = {g1}
    Direct = direct
    Attr = {"os"}
    Version <- MCVersion
    Form <- MCForm
    Shape = {"security"}
    Slot = {s1}
    MaxChanges = 2
    Good = good
    Bad = bad
    Unknown = unknown
    None = None
PROPERTIES
    RequirementsKept
