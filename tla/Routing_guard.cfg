SPECIFICATION FairSpec
CONSTANTS
    a1 = a1  a2 = a2  a3 = a3  codex = codex  gemini = gemini
    k1 = k1  k2 = k2  m1 = m1  s1 = s1  s2 = s2  c1 = c1  c2 = c2
    None = None
    Keys = {k1}
    Auths = {a1, a2, a3}
    Providers = {codex, gemini}
    Models = {m1}
    Sessions = {s1}
    Calls = {c1, c2}
    AuthProvider <- MCAuthProvider
    BindingSets <- MCAnyBindings
    Limiting = {TRUE, FALSE}
    PriceTables <- MCPriceTables
    AvailableLists <- MCAvailable
    Offers <- MCOffers
    Filters <- MCSomeFilter
    AllowUnpriced = FALSE
    Sorted <- MCSorted
    CursorModulus = 1
    TTL = 1
    TicksPerSecond = 1
    MaxTick = 0

PROPERTIES CallsAnswered AnswersAuthorized
