\* A stopped automatic run and the one that is started after it.
CONSTANTS
    Loops = {l1, l2}
    None = None
SPECIFICATION Spec
INVARIANT NoCallIsDoubled
CHECK_DEADLOCK FALSE
