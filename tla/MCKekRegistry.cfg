SPECIFICATION Spec
CONSTANTS
    e1 = e1
    e2 = e2
    eBadCallers = eBadCallers
    eBadKek = eBadKek
    m1 = m1
    m2 = m2
    Envs = {e1, e2, eBadCallers, eBadKek}
    Versions = {1, 2}
    Materials = {m1, m2}
    Malformed = Malformed
    MAX_CALLERS = 64
    None = None
    Tasks = {t1, t2, t3}
    Bindings <- MCBindings
INVARIANTS
    TypeOK
    RightKey
    BrokenNeverServes
    SingleFlight
PROPERTIES
    CachedKeyStable
    FailureNotSticky
    Settles
    ImplementsLookup
CHECK_DEADLOCK FALSE
