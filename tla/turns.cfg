CONSTANTS
    c1 = c1
    c2 = c2
    c3 = c3
    b1 = b1
    b2 = b2
    s1 = s1
    None = None
    Call = {c1, c2, c3}
    Process = {p1, p2}
    p1 = p1
    p2 = p2
    Session = {s1}
    Buyer = {b1, b2}
    SessionOf <- TheSession
    BuyerOf <- OneStranger
    MaxFaults = 1
SPECIFICATION FairSpec
CHECK_DEADLOCK FALSE
INVARIANTS OneAgentPerSession BuyersApart AnswerFollowsQuestion TurnsInPairs RecordedIsRemembered TraceIsOwn CachedReplyOpensSession
PROPERTIES EveryCallEnds
