SPECIFICATION FairSpec
CONSTANTS
    Policy = {p1, p2}
    Given = {p1}
    Group = {g1}
    Direct = direct
    Attr = {"os"}
    Version <- MCVersion
    Form <- MCForm
    Shape = {"compliance"}
    Slot = {s1, s2}
    MaxChanges = 2
    Good = good
    Bad = bad
    Unknown = unknown
    None = None
INVARIANTS
    
    RowsBounded
    EvaluationSettles
PROPERTIES
    StatusRecovers
