CONSTANTS
    a1 = a1
    a2 = a2
    c1 = c1
    c2 = c2
    d1 = d1
    d2 = d2
    p1 = p1
    p2 = p2
    NoAccount = NoAccount
    Accounts = {a1, a2}
    Calls = {c1, c2}
    Docs = {d1, d2}
    Persons = {p1, p2}
    MaxAttempts = 2
    IssueLimit = 2
    MaxStarted = 5
    MaxDeaths = 1

CHECK_DEADLOCK FALSE
SPECIFICATION StandingSpec
SYMMETRY MCSymmetry
INVARIANTS
    StandingTypeOK
    StandingIsEarned
    DecisionsTakeEffect
    GuessesBounded
