\* opt2_sequential_line_buffer.sv: a branch that hits the line buffer.
SPECIFICATION MCSpec
CONSTANTS
    Opt1In = {FALSE}
    MaxBranches = 5
    MaxInvals = 0
    NUM_FB = 2
    IC_LINE_BEATS = 2
    NUM_LINES = 2
    FB_THRESHOLD = 0
    Variant = "opt2"
    Versions = {0}
    ReqIn = {TRUE}
    EnableIn = {TRUE}
    ErrIn = {FALSE}
    LineBufIn = {FALSE}
    EccIn = {"none"}
    InvalIn = {"idle"}
    BranchIn <- MidLine
    HitIn <- FromRam
    NUM_SETS = 1
    ICacheScramble = FALSE
    MaxKeys = 1
    ICachePLRU = FALSE
    ICacheLineBuffer = TRUE
    InvalReq = {FALSE}
    EccEvents = {"none"}
    AnswerIn = {FALSE}
INVARIANT ResponseReachesRequester
