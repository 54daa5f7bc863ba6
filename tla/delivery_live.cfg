CONSTANTS
    Task = {t1, t2}
    LargeTask = {}
    MalformedTask = {t2}
    Worker = {w1}
    MaxDeliveries = 2
    Concurrency = 1
    ScanFactor = 1
    SlowTask = {}
    MaxDisruptions = 1
    DeliveryBound = 3
    t1 = t1
    t2 = t2
    w1 = w1
SPECIFICATION FairSpec
PROPERTIES EventuallySettled VerdictReached StopObeyed
