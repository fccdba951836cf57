SPECIFICATION Spec
CONSTANTS
    Requests = {r1}
    Candidates <- MCCandidates
    Routes <- MCRoutes
    Passthrough <- MCPassthrough
    Asks <- MCAsks
    Hashes = {1, 2}
    DefaultTTL = 1
INVARIANTS
    CauseToReport
    NoRouteTwice
    HitWasServed
PROPERTIES
    PinnedStays
    EveryRequestAnswered
