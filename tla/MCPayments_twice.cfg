CONSTANTS
    u1 = u1
    p1 = p1
    h1 = h1
    h2 = h2
    Users = {u1}
    Assets = {}
    OpeningCents = 0
    OpeningMetal = 0
    OpeningCash = 0
    OpeningPhysical = 0
    Halt = 0
    MaxDay = 0
    Payments = {p1}
    Payer <- MCPayer
    Amount <- MCAmount
    MaxCredits = 2
    Handlers = {h1, h2}
    NoPayment = NoPayment
    Hooks = {"charge"}
    Retries = TRUE

CHECK_DEADLOCK FALSE
SPECIFICATION PaymentsSpec
INVARIANT CreditedAtMostOnce
