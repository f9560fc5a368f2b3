SPECIFICATION KconfigSpec
CONSTANTS
    Bools = {"a"}
    Tris = {"b"}
    Modules = FALSE
    Deps <- MCDeps
    Parents <- MCParents
    MaxSteps = 2
    Kconfigs <- MCKconfigs
    MaxSets = 2
    MaxRuns = 2
    RenameFails = TRUE
INVARIANTS RewritingSound ValuesSound 
PROPERTIES SetTakesEffect
CHECK_DEADLOCK FALSE
