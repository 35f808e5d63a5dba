SPECIFICATION Spec
CONSTANTS
    Handlers = {p1, p2}
    TipIds = {t1, t2}
    Payments = {x1, x2, x3}
    Terms = {d1, d2}
    Recorded <- AllRecorded
    Operations <- AllOperations
    Closed <- AllClosed
    Stamped <- AllStamped
    Times = {noon, night}
    Garbled = Garbled
    Caches = {c1}
    CacheOf <- Shared
    Null = Null
    p1 = p1
    p2 = p2
    c1 = c1
    x1 = x1
    x2 = x2
    x3 = x3
    d1 = d1
    d2 = d2
    noon = noon
    night = night
SYMMETRY Symmetry
CONSTRAINT Bounds
INVARIANTS TypeOK MatchIsOnChain MismatchIsNotified NoFalseAlarm
