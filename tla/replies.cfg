CONSTANTS
    c1 = c1
    c2 = c2
    c3 = c3
    b1 = b1
    b2 = b2
    s1 = s1
    s2 = s2
    s3 = s3
    s4 = s4
    q1 = q1
    q2 = q2
    q3 = q3
    q4 = q4
    buy = buy
    wool = wool
    plastic = plastic
    light = light
    None = None
    Unread = Unread
    Call = {c1, c2, c3}
    Session = {s1, s2, s3, s4}
    Buyer = {b1, b2}
    BuyerOf <- Owners
    Query = {q1, q2, q3, q4, buy}
    Preference <- Preferences
    Workload <- Intents
    Cacheable = {q1, q2, q3, q4}
    Similarity <- Cosine
    One = 4
    Rounded <- FourDigits
    Threshold = 2
    BucketLimit = 2
    TopK = 1
    Initially <- AtFirst
    MaxOpen = 2
    MaxFaults = 1
    MaxChanges = 1
SPECIFICATION Spec
CHECK_DEADLOCK FALSE
INVARIANTS ReuseIsOwn ReuseFitsPreferences BucketIsRecent DislikesAreTold
