CONSTANTS
    u1 = u1
    i1 = i1
    i2 = i2
    bank = bank
    ka = ka
    kb = kb
    Users = {u1}
    Assets = {}
    OpeningCents = 3
    OpeningMetal = 0
    OpeningCash = 0
    OpeningPhysical = 0
    Halt = 0
    MaxDay = 0
    Intents = {i1, i2}
    Request <- Requests
    NameMatches = {i1, i2}
    Known = {bank}
    AutoMax = 3
    ReviewLine = 3
    DayMaxCount = 2
    SweepLimit = 2
    Deployments <- MCDeployments

CHECK_DEADLOCK FALSE
SPECIFICATION PayoutsFairSpec
INVARIANTS
    PayoutsTypeOK
    HoldMatchesPayouts
    NeverPaidAndRefunded
    SettledOnlyIfPaid
    SentAtMostOnce
    AutoBelowLine
    DailyLimitHolds
PROPERTIES
    KeepsCustody
    DecidedIsResolved
    ProcessingResolves
