\* Three commands within 13 GB and two processors; two sessions on two steps.  make: two
\* tests, two calls, one edit.  The metadata: two writers, a reader.
SPECIFICATION MCSpec
CONSTANTS
    c1 = c1
    c2 = c2
    c3 = c3
    Procs = {c1, c2, c3}
    MAX_RUNNING = 2
    TotalMem = 13
    MaxMemArg = 12
    NoKill = FALSE
    Timed = {c1, c3}
    Expected <- NoneExpected
    Needs <- FitNeeds
    p1 = p1
    p2 = p2
    p3 = p3
    p4 = p4
    NumSteps = 2
    Props = {p1, p2, p3, p4}
    Skipped = {p3}
    Designs <- SomeDesigns
    StoreIn <- SomeStores
    ArgsIn <- SomeArgs
    MaxSessions = 2
    Riscvdv = {"r"}
    Directed = {"d"}
    Goals <- SomeGoals
    Outcomes <- SomeOutcomes
    MaxMakes = 2
    MaxEdits = 1
    Writers = {"v", "w"}
    Readers = {"u"}
    SvPaths <- SomeSvPaths
    SvhPaths <- SomeSvhPaths
    known_fields <- SomeFields
    ScriptInputs <- Inputs
INVARIANTS
    FirstVerdict StampHonest CurrentBuild
    CommittedStays TornIsGuarded
    EditsLast VerdictsRight  BuiltAsConfigured CommandsRight
    RunnerInv StoredProved CertificateSound
PROPERTIES ServiceSpec Answered KeepsProofs
CHECK_DEADLOCK FALSE
