SPECIFICATION Spec
CONSTANTS
    None = None
    Malformed = Malformed
    Calls = {k1, k2}
    Ttls = {1}
    MAX_CACHE_ENTRIES = 2
    MAX_CONTEXT_ENTRIES = 8
    MaxTime = 1
    MaxClears = 0
    KeyOrder <- MCKeyOrder
    IntegerKeys <- MCIntegerKeys
    Contexts <- MCContexts
    Texts <- MCTextsInFront
INVARIANTS
    RoundTrip
CHECK_DEADLOCK FALSE
