SPECIFICATION Spec
CONSTANTS
    before = before
    added = added
    during = during
    after = after
    m1 = m1
    m2 = m2
    Envs = {before, added, during, after}
    Versions = {1, 2}
    Materials = {m1, m2}
    Malformed = Malformed
    None = None
    MAX_CALLERS = 64
    MAX_CONTEXT_ENTRIES = 8
    OldVersion = 1
    Isolates = {i1, i2, i3}
    Rows = {w1, w2, w3}
    Forms = {"wrappedKey", "envelope"}
    WaitsForRollout = TRUE
    WaitsForWriters = TRUE
    MaxLost = 3
    Bindings <- MCBindings
    Runbook <- MCRunbook
    KeyOrder <- MCKeyOrder
    IntegerKeys <- MCIntegerKeys
    RowContext <- MCRowContext
INVARIANTS
    NothingLost
CHECK_DEADLOCK FALSE
