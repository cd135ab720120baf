CONSTANTS
    u1 = u1
    u2 = u2
    xau = xau
    b1 = b1
    b2 = b2
    s1 = s1
    k1 = k1
    k2 = k2
    c1 = c1
    d1 = d1
    d2 = d2
    Users = {u1, u2}
    Assets = {xau}
    OpeningCents = 3
    OpeningMetal = 1
    OpeningCash = 3
    OpeningPhysical = 3
    Halt = 2
    MaxDay = 0
    Quotes = {b1, b2, s1}
    Terms <- MCTerms
    Keys = {k1, k2}
    KeyOwner <- MCKeyOwner
    Calls = {c1}
    NoQuote = NoQuote
    NoKey = NoKey
    Threshold = 4
    TxnCap = 4
    DayCap = 5
    Ceiling = 3
    Deliveries = {d1, d2}
    Parcel <- MCParcel
    MaxPhysical = 4
    MaxCash = 3

SPECIFICATION PlatformSpec
INVARIANTS
    PlatformTypeOK
    NoOverdraft
    BooksBalance
    HoldMatchesDeliveries
PROPERTIES
    KeepsReservePromise
    PostingsBalance
