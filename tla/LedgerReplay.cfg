SPECIFICATION Spec
CONSTANTS
    Handlers = {p1}
    TipIds = {t1, t2}
    Hashes = {h1, h2}
    Wallets = {w1}
    Creates = {}
    Confirms <- ReplayConfirms
    Events <- ReplayEvents
    Null = Null
    Undefined = Undefined
    t1 = t1
    h1 = h1
    h2 = h2
    h3 = h3
    w1 = w1
PROPERTIES NoReprocessing
