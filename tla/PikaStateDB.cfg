SPECIFICATION Spec
CONSTANTS
    sender = sender
    fresh = fresh
    s1 = s1
    code1 = code1
    tx1 = tx1
    tx2 = tx2
    None = None
    Absent = Absent
    Addresses = {sender, fresh}
    Slots = {s1}
    Values = {0, 1}
    Codes = {code1}
    Block <- TwoTxs
    TxAccesses <- SenderOnly
    StoredAccounts <- OneSender
    StoredSlots <- OneSlot
    MaxBalance = 1
    MaxNonce = 1
    MaxRefund = 1
    MaxJournal = 3
    MaxRevisions = 2
INVARIANTS
    TypeOK
    RevisionsOrdered
    LogIndexes
PROPERTIES
    RevertsWorld
    CommitKeepsChanges
CHECK_DEADLOCK FALSE
