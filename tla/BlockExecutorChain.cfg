SPECIFICATION FairSpec
CONSTANTS
    e1 = e1
    e2 = e2
    acc = acc
    tok = tok
    slot = slot
    Absent = Absent
    NoMore = NoMore
    Executors = {e1}
    Keys = {acc, tok}
    SlotKeys = {}
    MaxValue = 3
    Values <- MCValues
    MaxBlock = 4
    Txs <- ChainTxs
    NextRead <- MCNextRead
    Modified <- MCModified
    MaxReads = 4
    Genesis <- AllocAcc
    BatchSize = 2
    NewBlockPanics = FALSE
    Mishaps <- AllButReads
    CalmStart = TRUE
    MaxMishaps = 3
INVARIANT
    LatestIsCurrent
PROPERTIES
    ImplementsChainState
    CatchUp
