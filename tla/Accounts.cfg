SPECIFICATION Spec
CONSTANTS
    Handlers = {p1, p2}
    Ids = {u1, u2}
    Values <- AllValues
    Signups <- TwoNames
    Wallets = {w1}
    Nickname <- Endings
    Edits <- AllEdits
    Files = {f1, f2}
    Basename <- Names
    Empty = Empty
    Null = Null
    e1 = e1
    n1 = n1
    n2 = n2
    w1 = w1
    a1 = a1
    f1 = f1
    f2 = f2
    links = links
SYMMETRY Symmetry
CONSTRAINT OverlapByKind
INVARIANTS TypeOK OneAccountPerKey ConflictIsForeseen AvatarsMatchFiles
PROPERTIES ChangesAsAsked
