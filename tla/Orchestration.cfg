\* Turns and reviews in BullMQ, with fewer tries than in the code.
CONSTANTS
    Jobs = {j1, j2}
    Attempts = 2
    TextTries = 2
    FallbackTries = 1
    MediaTries = 2
    MaxAgents = 1
    None = None
SPECIFICATION Spec
INVARIANT TurnsDoNotMix
PROPERTY JobsEndOpenly
\* Every job may have come to its end.
CHECK_DEADLOCK FALSE
