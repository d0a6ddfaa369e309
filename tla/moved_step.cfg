\* Two sessions on two steps; a property may have moved between them.
SPECIFICATION Spec
CONSTANTS
    p1 = p1
    p2 = p2
    p3 = p3
    p4 = p4
    NumSteps = 2
    Props = {p1, p2, p3, p4}
    Skipped = {p3}
    Designs <- SomeDesigns
    StoreIn <- SomeStores
    ArgsIn <- SomeArgs
    MaxSessions = 2
INVARIANT CompleteHasProofs
CHECK_DEADLOCK FALSE
