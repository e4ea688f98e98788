CONSTANTS
    Players = {p1, p2, p3}
    NoPlayer = NoPlayer
    GroupSize = 3
    MaxGroups = 2
    MaxOps = 5
SPECIFICATION Spec
INVARIANTS
    TypeOK
    GroupStatusBacked
    GroupsWellFormed
PROPERTIES
    StatusSettles
CHECK_DEADLOCK FALSE
