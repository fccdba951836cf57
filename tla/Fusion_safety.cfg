SPECIFICATION FairSpec
CONSTANTS
    NoKey = 0
    KeyCooldown = 2
    KeyWindow = 1
    Members = {1, 2, 3, 4, 5}
    Providers = {"pooled", "single", "keyless"}
    ProviderOf <- MCProviderOf
    KeysAt <- MCKeysAt
    Cost <- MCCost
    Orders <- MCOrders
    JudgeAt = "pooled"
    None = None
    MinPanels = {0, 1, 3}
    Statuses = {"ok", "denied", "limited", "failing", "refused"}
    Grace = 1
    Timeout = 2
    MaxRuns = 1
INVARIANTS
    TypeOK
    FusionInflightExact
    QuorumRespected
    MeteredOnce
PROPERTIES
    KeysRest
    NoCallOutlives
