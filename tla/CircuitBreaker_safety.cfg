SPECIFICATION FairSpec
CONSTANTS
    Kinds <- MCKinds
    Window = 3
    RawConfigs <- MCRawConfigs
    Durations = {0, 1, 3}
    MaxTrips = 8
    MaxWindow = 4
    MaxKind = 4
INVARIANTS
    TripBudget
    WarningBand
    EscalationNeedsBudget
    KindBudgets
PROPERTIES
    CooldownHonoured
    RatioFromThisMinute
    OpenIsLeft
