\* Two concurrent requests of either kind, each with any of the bodies.
SPECIFICATION ServerSpec
CONSTANTS
    r1 = r1
    r2 = r2
    Requests = {r1, r2}
    NoRequest = NoRequest
    Malformed = Malformed
    Bodies <- EdgeBodies
    Predictors = 2
INVARIANTS
    WrittenTracesAreReturned
    RequestedConfigurationIsUsed
    WrittenFilesAreRemoved
PROPERTY
    EveryRequestIsAnswered
CHECK_DEADLOCK FALSE
