CONSTANTS
    Samples = {s0, s1}
    Silence = s0
    BufferSize = 4
    MaxBurst = 4
    Values = {v0, v1, v2}
    Default = v0
    Torn = torn
SPECIFICATION MCSpec
INVARIANTS TypeOK RegionsDisjoint AnswerStands BufferTypeOK
PROPERTIES ImplementsFifo HeldStable ImplementsLatestValue
