CONSTANTS
    r1 = r1
    r2 = r2
    r3 = r3
    b1 = b1
    b2 = b2
    s1 = s1
    s2 = s2
    a1 = a1
    a2 = a2
    k1 = k1
    k2 = k2
    Nobody = Nobody
    Request <- ThreeRequests
    Buyer = {b1, b2}
    Session = {s1, s2}
    Action = {a1, a2}
    RedisKey = {k1, k2}
    Digest <- Colliding
    BuyerOf <- TwoBuyers
    SessionOf <- OwnSession
    ActionOf <- TwoActions
    KeysExpire = TRUE
    MaxDisruptions = 2
SPECIFICATION Spec
CHECK_DEADLOCK FALSE
INVARIANTS ReservationKept NoPhantomTask OneTaskPerAction FailureLeavesNoTrace
