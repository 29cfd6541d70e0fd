\* Two admins and one request; the id i1 may be chosen as a token.
SPECIFICATION Spec
CONSTANTS
    i1 = i1  i2 = i2  t1 = t1  x1 = x1  c1 = c1  c2 = c2  r1 = r1
    None = None
    NoField = NoField
    Ids = {i1, i2}
    CustomTokens = {t1, i1}
    RandomTokens = {x1}
    Windows = {"five", "total"}
    Bodies <- MCBodies
    Admins = {c1, c2}
    Requests = {r1}
SYMMETRY Symmetry
INVARIANTS TypeOK TokenNamesOneKey DuplicateJustified LimitsFromOneBody RequestKeepsKey
