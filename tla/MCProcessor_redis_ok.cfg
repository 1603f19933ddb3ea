CONSTANTS
    c1 = c1  c2 = c2  c3 = c3
    Calls <- MCCalls
    Backend = "redis"
    TimeoutSet = TRUE
    MaxOps = 2
SYMMETRY MCSymmetry
SPECIFICATION Spec
INVARIANT TypeOK SentinelOnlyOwnTimeout
