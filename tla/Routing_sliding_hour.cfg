SPECIFICATION Spec
CONSTANTS
    a1 = a1  a2 = a2  a3 = a3  codex = codex  gemini = gemini
    k1 = k1  k2 = k2  m1 = m1  s1 = s1  s2 = s2  c1 = c1  c2 = c2
    None = None
    Keys = {k1}
    Auths = {a1, a2, a3}
    Providers = {codex, gemini}
    Models = {m1}
    Sessions = {s1, s2}
    Calls = {c1}
    AuthProvider <- MCAuthProvider
    BindingSets <- MCBindingSets
    Limiting = {FALSE}
    PriceTables <- MCPriced
    AvailableLists <- MCAvailable
    Offers <- MCEqualOffer
    Filters <- MCFilters
    AllowUnpriced = FALSE
    Sorted <- MCSorted
    CursorModulus = 2
    TTL = 2
    TicksPerSecond = 2
    MaxTick = 4

PROPERTIES ConversationStays
