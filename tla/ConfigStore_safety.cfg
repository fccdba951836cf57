SPECIFICATION FairSpec
CONSTANTS
    Names = {"p"}
    Literals = {"key1", "key2", "key3"}
    Refs = {"$E"}
    Keep = "KEEP"
    Hot = {"good", "unbuildable", "undecodable"}
    Loadable = {"good", "unbuildable"}
    Buildable = {"good"}
    Listens = {"l1", "l2"}
    Boots = {"b1", "b2"}
    Notes = {"c1", "c2"}
    Admins = {a1, a2}
    None = None
    Gone = Gone
    Torn = Torn
    InitialDocument <- MCInitial
    Outside <- MCOutside
    BackupLimit = 1
    MaxSaves = 2
    MaxEdits = 1
    MaxFaults = 2
INVARIANTS
    FileComplete
    
    RunsTheFile
    ListensWhereItSays
PROPERTIES
    SecretsStayInPlace
    SavesAreSerialised
    SavesEnd
CHECK_DEADLOCK FALSE
