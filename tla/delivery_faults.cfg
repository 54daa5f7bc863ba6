CONSTANTS
    Task = {t1, t2}
    LargeTask = {t2}
    MalformedTask = {}
    Worker = {w1, w2}
    MaxDeliveries = 2
    Concurrency = 1
    ScanFactor = 2
    SlowTask = {t1}
    MaxDisruptions = 1
    DeliveryBound = 3
    t1 = t1
    t2 = t2
    w1 = w1
    w2 = w2
SPECIFICATION Spec
SYMMETRY Symmetry
INVARIANTS NothingLost VerdictEarned QueuedMeansWaiting ConcurrencyExact
    ExclusiveExecution RetryingIsPending
PROPERTIES ImplementsQueue DoneIsFinal
