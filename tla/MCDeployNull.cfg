SPECIFICATION Spec
CONSTANTS
    None = None
    Profiles = {"p", "q"}
    Dirs = {"."}
    Inputs <- MCInputs
    ProfileForms <- MCProfileForms
    Depth <- MCDepth
    Paths <- MCPaths
INVARIANTS
    NullRemovesKey
CHECK_DEADLOCK FALSE
