\* Software changes memory once and invalidates once, with and without the line
\* buffer of opt1, with ECC errors in data.
SPECIFICATION MCSpec
CONSTANTS
    Opt1In = {TRUE, FALSE}
    MaxBranches = 2
    MaxInvals = 1
    NUM_FB = 2
    IC_LINE_BEATS = 2
    NUM_LINES = 2
    FB_THRESHOLD = 0
    Variant = "baseline"
    Versions = {0, 1}
    ReqIn = {TRUE}
    EnableIn = {TRUE}
    ErrIn = {FALSE}
    LineBufIn = {FALSE}
    EccIn = {"none"}
    InvalIn = {"idle"}
    BranchIn <- MidLine
    HitIn <- FromRam
    NUM_SETS = 1
    ICacheScramble = FALSE
    MaxKeys = 1
    ICachePLRU = FALSE
    ICacheLineBuffer = FALSE
    InvalReq = {TRUE, FALSE}
    EccEvents = {"none", "data"}
    AnswerIn = {FALSE}
INVARIANTS HitServesItsLine FencedCache
PROPERTY FencedFetch
