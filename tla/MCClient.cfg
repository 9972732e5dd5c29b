SPECIFICATION Spec
SYMMETRY Symmetry
CONSTANTS
    None = None
    Malformed = Malformed
    Calls = {k1, k2, k3, k4}
    Ttls = {0, 1}
    MAX_CACHE_ENTRIES = 2
    MAX_CONTEXT_ENTRIES = 8
    MaxTime = 2
    MaxClears = 1
    KeyOrder <- MCKeyOrder
    IntegerKeys <- MCIntegerKeys
    Contexts <- MCContexts
    Texts <- MCTexts
INVARIANTS
    TypeOK
    HitWithinTtl
    ClearForgets
    HitWasGranted
    OpensIffGenuine
    CacheBounded
CHECK_DEADLOCK FALSE
