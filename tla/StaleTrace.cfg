\* A run that could not write its trace is answered with an earlier run's.
SPECIFICATION ServerSpec
CONSTANTS
    r1 = r1
    r2 = r2
    Requests = {r1, r2}
    NoRequest = NoRequest
    Malformed = Malformed
    Bodies <- EdgeBodies
    Predictors = 2
INVARIANT
    MissingTraceIsReported
CHECK_DEADLOCK FALSE
