CONSTANTS
    s1 = s1
    s2 = s2
    own = own
    other = other
    Subscribers <- MCSubscribers
    Keys <- MCKeys
    Symbols <- MCSymbols
    Expiry = 3
    CheckEvery = 2
    Plans <- MCPlans
SPECIFICATION Spec
INVARIANTS LastWordRight InOrder
PROPERTIES AskedIsServed
