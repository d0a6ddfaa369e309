\* Two tests, two calls of make, one edit between them.
SPECIFICATION FlowSpec
CONSTANTS
    Riscvdv = {"r"}
    Directed = {"d"}
    Goals <- SomeGoals
    Outcomes <- SomeOutcomes
    MaxMakes = 2
    MaxEdits = 1
INVARIANT SuccessIsEarned
CHECK_DEADLOCK FALSE
