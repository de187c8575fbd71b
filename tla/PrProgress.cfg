\* Progress of deliveries, of BullMQ jobs and, when Redis does not answer, of
\* the jobs in the memory queue, two commits at a time.
CONSTANTS
    Handlers = {h1}
    Workers = {w1}
    Pump = pump
    Sessions = {s1}
    Prs = {1}
    Shas = {a}
    MemoryShas = {a, b}
    None = None
    Async = TRUE
    Bull = "separate"
    MayThrow <- NotThePump
    MayCrash <- TheWorkers
    LoopLimit = 1
    MaxLoad = 1
    MemoryLoad = 3
    MaxStreak = 3
SPECIFICATION ProgressSpec
PROPERTIES EveryDeliveryAnswered WaitingJobsRun JobsSettle
