CONSTANTS
    Caller = caller
    Workers = {w1, w2}
    MaxItems = 3
    MaxClaim = 5
SPECIFICATION Spec
INVARIANTS TypeOK NoFunctionRace NoLostWakeup
PROPERTIES ImplementsForkJoin ShutdownEnds
