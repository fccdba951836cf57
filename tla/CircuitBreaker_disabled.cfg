SPECIFICATION Spec
CONSTANTS
    Kinds <- MCKinds
    Window = 3
    RawConfigs <- MCRawConfigs
    Durations = {0, 1, 3}
    MaxTrips = 8
    MaxWindow = 4
    MaxKind = 4
PROPERTY DisabledUntilEnabled
