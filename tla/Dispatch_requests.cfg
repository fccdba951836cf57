SPECIFICATION FairSpec
CONSTANTS
    Kinds <- MCKinds
    Window = 1
    Requests = {r1, r2}
    Providers = {"primary", "standby"}
    Policy <- MCPolicy
    Candidates <- MCCandidates
    Route <- MCRoute
    Passthrough <- MCRoute
    Profiles <- MCProfiles
    Rejections <- MCRejections
    TransportKinds = {"timeout"}
    Hints = {0, 1}
    RuleCooldowns = {0}
    ShortLock = 1
    LongLock = 1
    MaxTrips = 1
INVARIANTS
    InflightExact
    NotSentBlindly
    NobodyForgotten
    FailureHasCause
PROPERTIES
    StepsRunOut
    FailsOver
    EveryRequestEnds
