SPECIFICATION Spec
CONSTANTS
    a1 = a1  a2 = a2  codex = codex  gemini = gemini
    k1 = k1  m1 = m1  m2 = m2  r1 = r1  r2 = r2
    None = None
    NoRule = NoRule
    Keys = {k1}
    Auths = {a1, a2}
    Providers = {codex, gemini}
    AuthProvider <- MCAuthProvider
    Models = {m1, m2}
    Requests = {r1, r2}
    BindingSets <- MCBindingSets
    LimitChoices <- MCLimits
    PriceLists <- MCPriceLists
    Units = {1}
    AllowUnpriced = FALSE
    FiveHours = 1
    Week = 2
    MaxTick = 0
    MaxSpent = 3
SYMMETRY RequestSymmetry
PROPERTIES NoFallback
