SPECIFICATION Spec
CONSTANTS
    e1 = e1
    e2 = e2
    acc = acc
    tok = tok
    slot = slot
    Absent = Absent
    NoMore = NoMore
    Executors = {e1}
    Keys = {acc, tok}
    SlotKeys = {}
    MaxValue = 2
    Values <- MCValues
    MaxBlock = 3
    Txs <- GapTxs
    NextRead <- MCNextRead
    Modified <- MCModified
    MaxReads = 2
    Genesis <- AllocAcc
    BatchSize = 2
    NewBlockPanics = FALSE
    Mishaps = {}
    CalmStart = FALSE
    MaxMishaps = 0
INVARIANT
    ReadsParentState
