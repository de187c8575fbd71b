CONSTANTS
    Handlers = {h1, h2}
    BullHandlers = {h1}
    Workers = {w1}
    Pump = pump
    Sessions = {s1}
    Prs = {1}
    Shas = {a, b}
    QueuedShas = {a}
    None = None
    LoopLimit = 5
    MaxLoad = 2
    MemoryLoad = 3
    BullLoad = 1
    MaxStreak = 9
    BullStreak = 5
SPECIFICATION Spec
INVARIANTS TypeOK StatusIsCoherent BoundedOvershoot CountedIsStored StrandedOnlyByFailure OneCommitNeverLoops
PROPERTIES LoopIsEarned ImplementsLoopGuard
