CONSTANTS
    Requests = {r1, r2, r3}
    read = read
    write = write
    wipe = wipe
    absent = absent
    Calls <- MCCalls
    Tier <- MCTier
    MaxMoves = 3
    PoolSize = 2
    Registered = {read, write, wipe}
    Modifies = {write, wipe}
    Capacity = 1
SYMMETRY Symmetry
SPECIFICATION MCSpec
INVARIANTS TypeOK TokenSpentOnce AnswersTrue
