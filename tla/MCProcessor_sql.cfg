CONSTANTS
    c1 = c1  c2 = c2  c3 = c3
    Calls <- MCCalls
    Backend = "sql"
    TimeoutSet = TRUE
    MaxOps = 2
SYMMETRY MCSymmetry
SPECIFICATION Spec
INVARIANT TimeoutCauseSurfaced
