CONSTANTS
    Rules <- MCRules
    Systems = {"legacy", "nf_tables"}
    AddMayFail = FALSE
    MaxRuns = 2
SPECIFICATION Spec
CHECK_DEADLOCK FALSE
INVARIANT NoDuplicateRules
