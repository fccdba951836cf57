SPECIFICATION FairSpec
CONSTANTS
    Minute = 2
    TokenWindow = 2
    ObservedFresh = 1
    Unobserved = Unobserved
    CacheKeys = {"metered", "spare"}
    CacheCap = 1
    TTL = 0
    Requests = {q1, q2}
    Setups <- MCSetups
    MaxTokens = 2
    Totals = {0, 2}
    Counts = {0, 1}
    None = None
    Observations = {0, 1}
INVARIANTS
    TypeOK
    StreamsWellFormed
    StreamsFaithful
    OverrunBounded
    RateBounded
    CacheCounted
PROPERTY QuotaComesBack
