\* Any branches, requests, grants, responses and errors.
SPECIFICATION Spec
CONSTANTS
    NUM_REQS = 2
    NUM_WORDS = 3
    BranchIn = {0, 3}
    ReqIn = {TRUE, FALSE}
    ErrIn = {TRUE, FALSE}
INVARIANTS PrefetchInv NeverWedged
PROPERTIES InstrsInOrder RequestHeld
