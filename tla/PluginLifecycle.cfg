\* Two reconfigurations and a shutdown around two callbacks.  After a
\* shutdown CPA may never call the plugin again.
CONSTANTS
    Paths = {p1, p2}
    Configurers = {r1, r2}
    Callbacks = {c1, c2}
    MaxStores = 3
    DefaultPath = p1
SPECIFICATION FairSpec
INVARIANTS TypeOK StoresOwned PairsConsistent
PROPERTY RetiredStoresClose
CHECK_DEADLOCK FALSE
