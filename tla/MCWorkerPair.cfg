SPECIFICATION Spec
SYMMETRY Symmetry
CONSTANTS
    before = before
    during = during
    after = after
    alias = alias
    broken = broken
    m1 = m1
    m2 = m2
    None = None
    Malformed = Malformed
    Envs = {before, during, after, alias, broken}
    Versions = {1, 2}
    Materials = {m1, m2}
    MAX_CALLERS = 64
    CallerNames = {"acme", "ops", "ops2", "bot"}
    MIN_TOKEN_SECRET_LENGTH = 16
    MAX_TOKEN_LENGTH = 256
    MAX_CONTEXT_ENTRIES = 1
    Req = {r1, r2}
    MaxInFlight = 2
    MaxDropped = 2
    Bindings <- MCBindings
    Headers <- MCHeaders
    KeyOrder <- MCKeyOrder
    IntegerKeys <- MCIntegerKeys
    Contexts <- MCContexts
INVARIANTS
    TypeOK
    AuditExactlyOnce
    AuditTruth
    ContextBinding
    StaysReadable
    UnwrapVerdict
    Traceable
PROPERTIES
    ImplementsVault
CHECK_DEADLOCK FALSE
