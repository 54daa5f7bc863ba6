CONSTANTS
    Task = {t1}
    LargeTask = {}
    MalformedTask = {}
    Worker = {w1, w2}
    MaxDeliveries = 2
    Concurrency = 1
    ScanFactor = 1
    SlowTask = {t1}
    MaxDisruptions = 0
    DeliveryBound = 3
    t1 = t1
    w1 = w1
    w2 = w2
SPECIFICATION Spec
INVARIANTS RetryingRemainsPending
