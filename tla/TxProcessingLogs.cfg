SPECIFICATION Spec
CONSTANTS
    alice = alice
    bob = bob
    grandparent = grandparent
    parent = parent
    uncle = uncle
    NoHash = NoHash
    Ancestry <- TwoAncestors
    StoredHeaders <- OneForeign
    Accounts = {alice, bob}
    Coinbase = bob
    Block <- ThreeTxs
    GasLimit = 9
    Genesis <- Balances
    UsedBefore = {alice}
    BaseFee = 1
    Tip = 1
    RefundQuotient = 2
    MaxRefund = 2
    MaxLogs = 1
INVARIANT
    ReceiptHasLogs
CHECK_DEADLOCK FALSE
