CONSTANTS
    in = in
    fx = fx
    Sources = {in, fx}
    SourceOrder <- MCOrder
    RingSize = 5
    Block = 1
    Effects = {fx}
    Cushion = 1
    BacklogBlocks = 2
    ReturnRingBlocks = 5
    MaxBatchesPerWake = 32
    MaxCallbacks = 6
    MaxRebuilds = 2
    Quotas <- Long
SPECIFICATION MCSpec
CHECK_DEADLOCK FALSE
INVARIANT LatencyNeverCreeps
