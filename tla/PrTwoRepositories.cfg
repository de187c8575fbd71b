\* Two repositories, routed to two sessions, that both have a PR 1.
CONSTANTS
    Handlers = {h1}
    Workers = {}
    Pump = pump
    Sessions = {s1, s2}
    Prs = {1}
    Shas = {a}
    None = None
    Async = FALSE
    Bull = "off"
    MayThrow = {}
    MayCrash = {}
    LoopLimit = 5
    MaxLoad = 2
    MaxStreak = 9
SPECIFICATION Spec
PROPERTY LoopIsEarned
