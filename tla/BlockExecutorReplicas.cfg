SPECIFICATION Spec
CONSTANTS
    e1 = e1
    e2 = e2
    acc = acc
    tok = tok
    slot = slot
    Absent = Absent
    NoMore = NoMore
    Executors = {e1, e2}
    Keys = {acc, slot}
    SlotKeys = {slot}
    MaxValue = 2
    Values <- MCValues
    MaxBlock = 3
    Txs <- ReplicaTxs
    NextRead <- MCNextRead
    Modified <- MCModified
    MaxReads = 3
    Genesis <- NoGenesis
    BatchSize = 2
    NewBlockPanics = FALSE
    Mishaps <- AllButState
    CalmStart = FALSE
    MaxMishaps = 2
INVARIANTS
    ProgressCovered
    NoDoubleApply
PROPERTIES
    HistoryStable
