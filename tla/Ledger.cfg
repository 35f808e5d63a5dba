SPECIFICATION Spec
CONSTANTS
    Handlers = {p1, p2}
    TipIds = {t1, t2}
    Hashes = {h1, h2}
    Wallets = {w1}
    Creates <- RaceCreates
    Confirms <- RaceConfirms
    Events <- RaceEvents
    Null = Null
    Undefined = Undefined
    t1 = t1
    h1 = h1
    h2 = h2
    h3 = h3
    w1 = w1
SYMMETRY HandlerSymmetry
INVARIANTS TypeOK UniqueHashes AckImpliesNotified NotifiedOnce RowsAgree
PROPERTIES SettledStays UnconfirmedOnlyByStaleWithdrawal ImplementsBook
