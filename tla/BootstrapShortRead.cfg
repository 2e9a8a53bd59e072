CONSTANTS
    h1 = h1
    h2 = h2
    h3 = h3
    InvalidEntry = InvalidEntry
    Hosts = {h1, h2, h3}
    Root <- MCRoot
    Config <- MCConfig
    ShortReads = TRUE
    MaxCrashes = 0
    ThreadFailures = FALSE
    BindFailures = FALSE
SPECIFICATION Spec
CHECK_DEADLOCK FALSE
INVARIANT CompleteView
