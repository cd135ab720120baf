CONSTANTS
    o1 = o1
    o2 = o2
    w1 = w1
    w2 = w2
    q1 = q1
    q2 = q2
    k1 = k1
    k2 = k2
    Txns = {o1, o2, w1, w2}
    Listed <- MCListed
    QuoteOf <- TwoQuotes
    KeyOf <- MCKeyOf
    NoQuote = NoQuote
    NoKey = NoKey
    Opening <- MCOpening
    Amounts <- MCAmounts

CHECK_DEADLOCK FALSE
SPECIFICATION PostingsSpec
INVARIANTS
    NoCircularWait
PROPERTIES
    PostsAtomically
