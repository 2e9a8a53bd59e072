CONSTANTS
    Rules <- MCRules
    Systems = {"legacy", "nf_tables", "unknown"}
    AddMayFail = TRUE
    MaxRuns = 3
SPECIFICATION Spec
CHECK_DEADLOCK FALSE
INVARIANT TypeOK
INVARIANT CopiesPerRun
