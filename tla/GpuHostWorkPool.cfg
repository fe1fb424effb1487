CONSTANTS
    Caller = caller
    Workers = {w1, w2}
    MaxItems = 3
    MaxGen = 2
SPECIFICATION Spec
INVARIANTS TypeOK WorkersQuiescent BarrierCountsWorkers
PROPERTIES ImplementsForkJoin ShutdownEnds
