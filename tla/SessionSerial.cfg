\* One handler at a time, every endpoint, every failure.
CONSTANTS
    Requests = {r1}
    Endpoints <- AllEndpoints
    Instants = {1, 2}
    Notes = {n1}
    Summaries = {s1}
    NULL = NULL
    Undefined = Undefined
    MaxHistory = 4
SPECIFICATION Spec
INVARIANTS TypeOK HistoryLeadsToGate
PROPERTY ImplementsLadder
