SPECIFICATION Spec
CONSTANTS
    Notes = {n1, n2, n3, n4}
    Limit = 2
    MaxTime = 4
SYMMETRY Symmetry
INVARIANTS TypeOK InboxCleared
