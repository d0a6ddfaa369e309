\* Three fill buffers; hits, branches and bus errors at any time.
SPECIFICATION Spec
CONSTANTS
    NUM_FB = 3
    IC_LINE_BEATS = 2
    NUM_LINES = 2
    FB_THRESHOLD = 1
    Variant = "baseline"
    Versions = {0}
    ReqIn = {TRUE}
    EnableIn = {TRUE}
    ErrIn = {TRUE, FALSE}
    EccIn = {"none"}
    LineBufIn = {FALSE}
    InvalIn = {"idle"}
    BranchIn <- MidLine
    HitIn <- FirstMisses
INVARIANTS IInv ResponseReachesRequester CacheWriteComplete BusyCoversBus
PROPERTY StreamInOrder
