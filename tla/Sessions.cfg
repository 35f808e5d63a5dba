SPECIFICATION Spec
CONSTANTS
    Handlers = {p1, p2}
    TokenIds = {k1, k2, k3}
    Users = {u1, u2}
    Null = Null
SYMMETRY Symmetry
INVARIANTS TypeOK ExchangedIsRevoked OverlapOnly ReplacedOrDropped RevocationEndsSessions
