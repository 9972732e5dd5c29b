SPECIFICATION Spec
CONSTANTS
    Foreign = 64
    MAX_CONTEXT_ENTRIES = 8
    KeyOrder <- MCKeyOrder
    IntegerKeys <- MCIntegerKeys
    WrappedKeys <- MCWrappedKeys
    Payloads <- MCPayloads
    WrittenContexts <- MCWrittenContexts
    EditChars <- MCEditChars
INVARIANTS
    TypeOK
    ReadsWhatWasSealed
    OneTextPerKey
    OrderDoesNotMatter
CHECK_DEADLOCK FALSE
