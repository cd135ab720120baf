CONSTANTS
    u1 = u1
    xau = xau
    b1 = b1
    s1 = s1
    s2 = s2
    k1 = k1
    k2 = k2
    c1 = c1
    c2 = c2
    Users = {u1}
    Assets = {xau}
    OpeningCents = 2
    OpeningMetal = 2
    OpeningCash = 11
    OpeningPhysical = 4
    MaxDay = 1
    Quotes = {b1, s1, s2}
    Terms <- MCTerms
    Keys = {k1, k2}
    KeyOwner <- MCKeyOwner
    Calls = {c1, c2}
    NoQuote = NoQuote
    NoKey = NoKey
    Threshold = 5
    TxnCap = 4
    DayCap = 6
    Halt = 3
    Ceiling = 4

SPECIFICATION OrdersSpec
SYMMETRY CallSymmetry
INVARIANTS
    QuoteExecutesOnce
    PostedExactlyOnce
    SellbackWithinCeiling
    TierDayCapHolds
    UnreviewedBelowLine
PROPERTIES
    DecisionIsFinal
