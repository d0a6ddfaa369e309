\* Every kind of access under any PMP setting; scrambled RAMs with three requests
\* accepted; any words, errors, branches and stalls of the IF stage.
SPECIFICATION MCSpec
CONSTANTS
    NUM_WORDS = 2
    WritebackStage = TRUE
    AccessIn <- AllKinds
    PmpIn <- AnyPmp
    NUM_SETS = 8
    ICacheScramble = TRUE
    MaxKeys = 4
    FETCH_WORDS = 3
    BranchIn = {0, 3}
    ErrIn = {TRUE, FALSE}
INVARIANTS BusInv ResponseRight SweptSafely OutputInv
PROPERTIES InvalEnds InstrsInOrder AccessesComplete Released KeepsFetching
