\* An eviction is not counted.
SPECIFICATION MCSpec
CONSTANTS
    Opt1In = {FALSE}
    MaxBranches = 5
    MaxInvals = 0
    NUM_FB = 2
    IC_LINE_BEATS = 2
    NUM_LINES = 3
    FB_THRESHOLD = 0
    Variant = "baseline"
    Versions = {0}
    ReqIn = {TRUE}
    EnableIn = {TRUE}
    ErrIn = {FALSE}
    LineBufIn = {FALSE}
    EccIn = {"none"}
    InvalIn = {"idle"}
    BranchIn <- MidLine
    HitIn <- FromRam
    NUM_SETS = 1
    ICacheScramble = FALSE
    MaxKeys = 1
    ICachePLRU = TRUE
    ICacheLineBuffer = FALSE
    InvalReq = {FALSE}
    EccEvents = {"none"}
    AnswerIn = {FALSE}
PROPERTY EvictionCounted
