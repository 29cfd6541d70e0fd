\* One usage record at a time, two synchronizations that may overlap.
SPECIFICATION Spec
CONSTANTS
    None = None
    Keys = {"k1", "k2"}
    Providers = {"vertex_ai", "vertex", "acme"}
    OfficialOf <- MCOfficialOf
    Models = {"vertex_ai/gemini", "gemini", "palm"}
    ShortName <- MCShortName
    Auths = {"a1"}
    AuthProvider <- MCAuthProvider
    Documents <- MCDocuments
    SourceProvider <- MCSourceProvider
    PutBodies <- MCPutBodies
    Usages <- MCUsages
    Callers = {"c1"}
    s1 = s1  s2 = s2
    Syncs = {s1, s2}
    MaxTick = 1
    MaxRows = 2
SYMMETRY Symmetry
INVARIANTS TypeOK FreeOnlyWithoutRule PricesFromOneDocument BilledAsShown StatisticsAddUp
