\* Two handlers interleaved at every await.
CONSTANTS
    Requests = {r1, r2}
    Endpoints <- LearnerEndpoints
    Instants = {1}
    Notes = {}
    Summaries = {s1}
    NULL = NULL
    Undefined = Undefined
    MaxHistory = 4
SYMMETRY SymmetricRequests
SPECIFICATION Spec
INVARIANTS NoUncheckedGate 
