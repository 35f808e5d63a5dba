SPECIFICATION Spec
CONSTANTS
    Handlers = {p1, p2}
    Users = {u1, u2}
    Urls = {q1, q2}
    Null = Null
SYMMETRY Symmetry
INVARIANTS OwnAnalytics
