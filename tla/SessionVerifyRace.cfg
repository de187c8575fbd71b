\* Two handlers, the calls a learner makes by hand.
CONSTANTS
    Requests = {r1, r2}
    Endpoints <- ManualEndpoints
    Instants = {1}
    Notes = {}
    Summaries = {s1}
    NULL = NULL
    Undefined = Undefined
    MaxHistory = 4
SPECIFICATION Spec
PROPERTY VerifyOnlyFromB
