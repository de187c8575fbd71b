\* Two calls of one page whose access token runs out.
CONSTANTS
    Calls = {c1, c2}
    MaxIssued = 3
SPECIFICATION Spec
INVARIANT RenewedCallIsServed
CHECK_DEADLOCK FALSE
