\* One connection: a call, two subscriptions and a shutdown; queues of the smallest size.
SPECIFICATION ConnectionFairSpec
CONSTANTS
    s1 = s1
    s2 = s2
    q = q
    Plain = {}
    Subscribes = {s1, s2}
    Matching = {s1}
    Shutdowns = {q}
    SenderCap = 2
    WireCap = 1
    SubCap = 1
    MaxPublished = 2
CHECK_DEADLOCK FALSE
INVARIANTS
    ShutdownIsAnswered
    GoneIsReleased
PROPERTIES
    EverybodyReturns
