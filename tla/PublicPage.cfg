SPECIFICATION Spec
CONSTANTS
    Clients = {c1}
    Tips = {t1, t2, t3, t4}
    Creators = {w0, w1, w2}
    Walletless = {w0}
    Assets = {xlm, usdc}
    Senders = {s1, s2}
    Receiver <- AllReceivers
    Sender <- AllSenders
    Asset <- AllAssets
    Amount <- AllAmounts
    Limits <- AllLimits
    Default = 2
    Largest = 2
    Recent = 2
    Top = 1
    Null = Null
    w0 = w0
    w1 = w1
    w2 = w2
    t1 = t1
    t2 = t2
    t3 = t3
    t4 = t4
    xlm = xlm
    usdc = usdc
    s1 = s1
    s2 = s2
INVARIANTS OwnMessages
