SPECIFICATION Spec
CONSTANTS
    None = None
    Malformed = Malformed
    Calls = {k1}
    Ttls = {0, 1}
    MAX_CACHE_ENTRIES = 2
    MAX_CONTEXT_ENTRIES = 8
    MaxTime = 2
    MaxClears = 1
    KeyOrder <- MCKeyOrder
    IntegerKeys <- MCIntegerKeys
    Contexts <- MCContexts
    Texts <- MCTexts
INVARIANTS
    UnparsableIsClientError
CHECK_DEADLOCK FALSE
