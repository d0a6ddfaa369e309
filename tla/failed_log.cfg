\* Two tests, two calls of make; a simulation may fail without a word before its result.
SPECIFICATION FlowSpec
CONSTANTS
    Riscvdv = {"r"}
    Directed = {"d"}
    Goals <- SomeGoals
    Outcomes <- SomeOutcomes
    MaxMakes = 2
    MaxEdits = 1
PROPERTY FailuresGathered
CHECK_DEADLOCK FALSE
