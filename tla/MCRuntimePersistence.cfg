\* A limit order and two market orders, four calls under way together, one
\* failing command or restart; the program may stop when every order has ended.
SPECIFICATION Spec
CONSTANTS
    l1 = l1
    m2 = m2
    m1 = m1
    Position = Position
    Limits <- MCLimits
    Markets <- MCMarkets
    Buys <- MCBuys
    MaxSubmits = 1
    MaxMishaps = 1
    MaxCalls = 4
    NullWritten = {TRUE, FALSE}
INVARIANT NewestIsIndexed
INVARIANT PositionFollowsBook
PROPERTY NoWayBack
CHECK_DEADLOCK FALSE
