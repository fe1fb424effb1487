CONSTANTS
    NumIns = 2
    NumOuts = 2
    BlockSize = 2
    Depth = 1
    SpareBlocks = 1
    Calls = {1, 2}
    MaxTime = 5
SPECIFICATION Spec
INVARIANTS ConstantLatency
