SPECIFICATION Spec
CONSTANTS
    Kinds <- MCKinds
    Window = 1
    Requests = {r1, r2}
    Providers = {"primary", "standby"}
    Policy <- MCPolicy
    Candidates <- MCCandidates
    Route <- MCRoute
    Passthrough <- MCRoute
    Profiles <- MCProfiles
    Rejections <- MCRejections
    TransportKinds = {"timeout"}
    Hints = {0}
    RuleCooldowns = {0}
    ShortLock = 1
    LongLock = 1
    MaxTrips = 1
PROPERTY DenialOpens
