CONSTANTS
    s1 = s1
    c1 = c1
    c2 = c2
    c3 = c3
    r1 = r1
    r2 = r2
    k1 = k1
    l1 = l1
    NoSid = NoSid
    Sids = {s1}
    Calls = {c1, c2, c3}
    MaxToken = 2
    AccessLife = 3
    MarkSlack = 1
    Grace = 3
    CallMax = 1
    Logins = {l1}
    Links = {k1}
    Submits = {r1, r2}

CHECK_DEADLOCK FALSE
SPECIFICATION RecoverySpec
SYMMETRY MCSymmetry
INVARIANTS
    RecoveryTypeOK
    RevokedIsRefused
    TabsStaySignedIn
    RecoveryHolds
