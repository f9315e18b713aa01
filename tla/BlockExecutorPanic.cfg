SPECIFICATION FairSpec
CONSTANTS
    e1 = e1
    e2 = e2
    acc = acc
    tok = tok
    slot = slot
    Absent = Absent
    NoMore = NoMore
    Executors = {e1}
    Keys = {acc, slot}
    SlotKeys = {slot}
    MaxValue = 3
    Values <- MCValues
    MaxBlock = 3
    Txs <- MixedTxs
    NextRead <- MCNextRead
    Modified <- MCModified
    MaxReads = 3
    Genesis <- AllocAcc
    BatchSize = 2
    NewBlockPanics = TRUE
    Mishaps = {}
    CalmStart = FALSE
    MaxMishaps = 0
PROPERTY
    CatchUp
