---------------------------- MODULE TxProcessing ----------------------------
(***************************************************************************)
(* Executing the transactions of one block and making their receipts:      *)
(* Processor.processTransactions (pkg/executor/processor.go) and           *)
(* ApplyTransaction (pkg/executor/apply.go), with what they use of         *)
(* PikaStateDB (balances, refund counter, logs, the current hash) and of   *)
(* the stored headers (BLOCKHASH).                                         *)
(*                                                                         *)
(* The state transition in between is go-ethereum's core.ApplyMessage: it  *)
(* buys the gas, prepares the state, runs the EVM, which burns gas, moves  *)
(* money, adds logs and refunds, and pays the rest of the gas back.  It    *)
(* can reject a transaction before or after the gas is bought.  Every      *)
(* transaction offers the same tip; the chain has London's fees from its   *)
(* first block, and the base fee is burned.  A log is named by its         *)
(* transaction and a number.                                               *)
(***************************************************************************)
EXTENDS Naturals, Sequences, FiniteSetsExt, SequencesExt

CONSTANTS
    Accounts,
    Coinbase,           \* the account that is paid for the gas
    Block,              \* Block[i]: sender and gas limit of transaction i
    GasLimit,           \* gas limit of the block
    Genesis,            \* Genesis[a]: balance before the block
    UsedBefore,         \* accounts with a nonce or code before the block
    BaseFee, Tip,       \* for a unit of gas
    Ancestry,           \* Ancestry[n]: hash of the ancestor of number n
    StoredHeaders,      \* StoredHeaders[n]: hash of the header stored under n
    NoHash,             \* the zero hash as an answer; a header that is not there
    RefundQuotient,     \* at most this fraction of the gas is refunded
    MaxRefund,          \* bound on the refund counter
    MaxLogs             \* bound on the logs of a transaction

Indexes == 1..Len(Block)
NoTx    == 0            \* the zero hash of a transaction

Ancestors  == DOMAIN Ancestry
ParentHash == Last(Ancestry)

ASSUME ConstantsOK ==
    /\ IsFiniteSet(Accounts)
    /\ Coinbase \in Accounts
    /\ Block \in Seq([from : Accounts, gas : Nat \ {0}])
    /\ GasLimit \in Nat
    /\ Genesis \in [Accounts -> Nat]
    /\ UsedBefore \subseteq Accounts
    /\ BaseFee \in Nat
    /\ Tip \in Nat
    /\ Ancestry \in Seq(Range(Ancestry)) \ {<<>>}
    /\ NoHash \notin Range(Ancestry)
    /\ DOMAIN StoredHeaders = Ancestors
    /\ \A n, m \in Ancestors :      \* the hash of a header covers its number
          StoredHeaders[n] = Ancestry[m] => n = m
    /\ RefundQuotient \in Nat \ {0}
    /\ MaxRefund \in Nat
    /\ MaxLogs \in Nat

VARIABLES
    i,          \* transaction of the loop
    stage,      \* how far ApplyTransaction is with it
    gp,         \* gas pool
    usedGas,
    gas,        \* gas the current transaction has left
    balance,
    used,       \* accounts that have a nonce or code
    refund,     \* PikaStateDB.refund
    logs,       \* logs[h]: logs kept under transaction hash h
    thash,      \* PikaStateDB.thash
    hashCache,  \* cache of GetHashFn: what BLOCKHASH has answered, if not zero
    start,      \* state the EVM goes back to when the transaction fails
    receipts,
    emitted     \* emitted[j]: logs of transaction j (auxiliary)

loop == <<i, gp, usedGas, receipts>>
worldVars == <<balance, refund, logs, emitted>>
vars == <<loop, worldVars, stage, gas, used, thash, hashCache, start>>

Undoable == [balance : [Accounts -> Nat], refund : 0..MaxRefund,
             logs : [{NoTx} \cup Indexes -> Seq(Indexes \X Nat)],
             emitted : [Indexes -> Seq(Indexes \X Nat)]]

World == [balance |-> balance, refund |-> refund, logs |-> logs, emitted |-> emitted]

Receipts == [tx : Indexes, status : {"failed", "successful"}, gasUsed : 0..GasLimit,
             cumulativeGasUsed : 0..GasLimit, logs : Seq(Indexes \X Nat)]

TypeOK ==
    /\ i \in {0} \cup Indexes
    /\ stage \in {"next", "apply", "bought", "run"}
    /\ gp \in 0..GasLimit
    /\ usedGas \in 0..GasLimit
    /\ gas \in 0..GasLimit
    /\ World \in Undoable
    /\ used \subseteq Accounts
    /\ thash \in {NoTx} \cup Indexes
    /\ hashCache \in [Ancestors -> {NoHash} \cup Range(Ancestry)]
    /\ start \in Undoable
    /\ receipts \in Seq(Receipts)

Init ==
    /\ i = 0
    /\ stage = "next"
    /\ gp = GasLimit
    /\ usedGas = 0
    /\ gas = 0
    /\ balance = Genesis
    /\ used = UsedBefore
    /\ refund = 0
    /\ logs = [h \in {NoTx} \cup Indexes |-> <<>>]
    /\ thash = NoTx
    /\ hashCache = [n \in Ancestors |-> NoHash]
    /\ start = [balance |-> Genesis, refund |-> 0, logs |-> logs,
                emitted |-> [j \in Indexes |-> <<>>]]
    /\ receipts = <<>>
    /\ emitted = [j \in Indexes |-> <<>>]

-----------------------------------------------------------------------------
Message == Block[i]

Cost(g) == (BaseFee + Tip) * g

\* BUG: the loop runs once more
MoreTxsAndOne == i <= Len(Block)

MoreTxs == i < Len(Block)

(***************************************************************************)
(* The next transaction gets its context: SetTxContext, and an EVM with a  *)
(* block context of its own, whose BLOCKHASH cache is empty.               *)
(***************************************************************************)
SetTxContext ==
    /\ stage = "next"
    /\ MoreTxs
    /\ i' = i + 1
    /\ stage' = "apply"
    /\ thash' = i + 1
    /\ hashCache' = [n \in Ancestors |-> NoHash]
    /\ UNCHANGED <<gp, usedGas, receipts, worldVars, gas, used, start>>

Receipt(status, gasUsed, cumulativeGasUsed, txLogs) ==
    [tx |-> i, status |-> status, gasUsed |-> gasUsed,
     cumulativeGasUsed |-> cumulativeGasUsed, logs |-> txLogs]

(***************************************************************************)
(* ApplyTransaction returns an error and no receipt: processTransactions   *)
(* makes one that says failed, and nothing that was changed is undone.     *)
(***************************************************************************)
\* BUG: the gas goes back to the pool, the sender's money does not
PoolAfterGivingBack == gp + gas

PoolAfterFailure == gp

Fail ==
    /\ receipts' = Append(receipts, Receipt("failed", 0, usedGas, <<>>))
    /\ stage' = "next"
    /\ gas' = 0
    /\ gp' = PoolAfterFailure
    /\ UNCHANGED <<i, usedGas, worldVars, used, thash, hashCache, start>>

(***************************************************************************)
(* Rejected for its signature, its nonce, its fee, or because the sender's *)
(* money or the block's gas do not suffice; or, after buying the gas, for  *)
(* its intrinsic gas, the money it sends or the size of its code.          *)
(***************************************************************************)
Reject == stage \in {"apply", "bought"} /\ Fail

BuyGas ==
    /\ stage = "apply"
    /\ balance[Message.from] >= Cost(Message.gas)
    /\ gp >= Message.gas
    /\ gp' = gp - Message.gas
    /\ gas' = Message.gas
    /\ balance' = [balance EXCEPT ![Message.from] = @ - Cost(Message.gas)]
    /\ stage' = "bought"
    /\ UNCHANGED <<i, usedGas, receipts, refund, logs, emitted, used, thash, hashCache, start>>

(***************************************************************************)
(* The intrinsic gas is taken, Prepare called, which resets the hash but   *)
(* neither the refund counter nor the logs, and the sender's nonce         *)
(* counted up, which is not undone with the transaction.                   *)
(***************************************************************************)
Prepare ==
    /\ stage = "bought"
    /\ gas' = gas - 1
    /\ thash' = NoTx
    /\ stage' = "run"
    /\ used' = used \cup {Message.from}
    /\ start' = World
    /\ UNCHANGED <<loop, worldVars, hashCache>>

-----------------------------------------------------------------------------
(***************************************************************************)
(* One instruction of the EVM, for one unit of gas.                        *)
(***************************************************************************)
Burn ==
    /\ stage = "run"
    /\ gas > 0
    /\ gas' = gas - 1
    /\ UNCHANGED <<loop, stage, used, thash, start>>

Compute == Burn /\ UNCHANGED <<worldVars, hashCache>>

Transfer(a) ==
    /\ Burn
    /\ a # Message.from
    /\ balance[Message.from] > 0
    /\ balance' = [balance EXCEPT ![Message.from] = @ - 1, ![a] = @ + 1]
    /\ UNCHANGED <<refund, logs, emitted, hashCache>>

Empty(a) == balance[a] = 0 /\ a \notin used

(***************************************************************************)
(* A call that sends money to an empty account first creates it; when the  *)
(* call fails, createObjectChange.revert deletes the cached account, and   *)
(* what is stored for it is read again.                                    *)
(***************************************************************************)
CallFails(a) ==
    /\ Burn
    /\ a # Message.from
    /\ balance[Message.from] > 0
    /\ Empty(a)
    /\ balance' = [balance EXCEPT ![a] = Genesis[a]]
    /\ UNCHANGED <<refund, logs, emitted, hashCache>>

AddLog ==
    LET log == <<i, Len(emitted[i])>>
    IN  /\ Burn
        /\ Len(emitted[i]) < MaxLogs
        /\ logs' = [logs EXCEPT ![thash] = Append(@, log)]
        /\ emitted' = [emitted EXCEPT ![i] = Append(@, log)]
        /\ UNCHANGED <<balance, refund, hashCache>>

AddRefund ==
    /\ Burn
    /\ refund < MaxRefund
    /\ refund' = refund + 1
    /\ UNCHANGED <<balance, logs, emitted, hashCache>>

(***************************************************************************)
(* BLOCKHASH of number n.  GetHeader returns a header whose hash is the    *)
(* parent's and no other, whatever the number; a header that cannot be     *)
(* read is none, and neither is remembered.                                *)
(***************************************************************************)
\* BUG: the cache is not looked at
GetHashAgain(n, header) == IF header = ParentHash THEN header ELSE NoHash

GetHash(n, header) ==
    IF hashCache[n] # NoHash THEN hashCache[n]
    ELSE IF header = ParentHash THEN header ELSE NoHash

BlockHash(n) ==
    /\ Burn
    /\ \E header \in {StoredHeaders[n], NoHash} :
          hashCache' = [hashCache EXCEPT ![n] = GetHash(n, header)]
    /\ UNCHANGED worldVars

(***************************************************************************)
(* The EVM is done with the world w it leaves: the rest of the gas and the *)
(* refund are paid back, the coinbase gets the tip, and applyTransaction   *)
(* makes the receipt.  The refund counter is whatever this transaction and *)
(* those before it in the block have added up.                             *)
(***************************************************************************)
Burned == Message.gas - gas

Refunded(w) == Min({Burned \div RefundQuotient, w.refund})

\* BUG: the receipt is made before the gas used is added up
CumulativeBefore(gasUsed) == usedGas

CumulativeGasUsed(gasUsed) == usedGas + gasUsed

Finish(status, w) ==
    LET gasUsed  == Burned - Refunded(w)
        paidBack == [w.balance EXCEPT ![Message.from] = @ + Cost(gas + Refunded(w))]
    IN  /\ stage = "run"
        /\ balance' = [paidBack EXCEPT ![Coinbase] = @ + Tip * gasUsed]
        /\ refund' = w.refund
        /\ logs' = w.logs
        /\ emitted' = w.emitted
        /\ gp' = gp + gas + Refunded(w)
        /\ usedGas' = usedGas + gasUsed
        /\ receipts' = Append(receipts,
              Receipt(status, gasUsed, CumulativeGasUsed(gasUsed), w.logs[i]))
        /\ gas' = 0
        /\ stage' = "next"
        /\ UNCHANGED <<i, used, thash, hashCache, start>>

Succeed == Finish("successful", World)

(***************************************************************************)
(* The transaction fails and the EVM goes back to the start, but an        *)
(* account that was empty then and has been created since shows what is    *)
(* stored for it, though the block may have spent that.                    *)
(***************************************************************************)
Created(a) == start.balance[a] = 0 /\ a \notin used /\ balance[a] > 0

Undone ==
    [start EXCEPT !.balance =
        [a \in Accounts |-> IF Created(a) THEN Genesis[a] ELSE start.balance[a]]]

Revert == Finish("failed", Undone)

Next ==
    \/ SetTxContext
    \/ Reject
    \/ BuyGas
    \/ Prepare
    \/ Compute
    \/ \E a \in Accounts : Transfer(a) \/ CallFails(a)
    \/ AddLog
    \/ AddRefund
    \/ \E n \in Ancestors : BlockHash(n)
    \/ Succeed
    \/ Revert

Spec == Init /\ [][Next]_vars
-----------------------------------------------------------------------------
(***************************************************************************)
(* Properties                                                              *)
(***************************************************************************)

GasUpTo(j) == IF j = 0 THEN 0 ELSE receipts[j].cumulativeGasUsed

(***************************************************************************)
(* Every transaction gets one receipt, in order, whatever way it ends, and *)
(* the gas a receipt accumulates is what it and those before it report,    *)
(* and in the end what processTransactions returns.                        *)
(***************************************************************************)
ReceiptsAddUp ==
    /\ Len(receipts) = IF stage = "next" THEN i ELSE i - 1
    /\ \A j \in 1..Len(receipts) :
          /\ receipts[j].tx = j
          /\ receipts[j].cumulativeGasUsed = GasUpTo(j - 1) + receipts[j].gasUsed
    /\ GasUpTo(Len(receipts)) = usedGas

Money(b) == MapThenSumSet(LAMBDA a : b[a], Accounts)

(***************************************************************************)
(* No account that CreateAccount takes for a new one has money stored:     *)
(* such money, spent in the block, could come back with a revert.          *)
(***************************************************************************)
NoStoredMoneyUnused == \A a \in Accounts \ UsedBefore : Genesis[a] = 0

(***************************************************************************)
(* Gas and money go together, through refunds left over from transactions  *)
(* before, reverts and rejections half way: the money missing from the     *)
(* accounts is the price of the gas missing from the pool, less the tips   *)
(* for the gas used.  So no transaction creates money, and the block's gas *)
(* limit holds.  It is so only when NoStoredMoneyUnused.                   *)
(***************************************************************************)
GasIsPaid ==
    /\ Money(balance) + Cost(GasLimit) = Money(Genesis) + Cost(gp) + Tip * usedGas
    /\ usedGas + gp <= GasLimit

(***************************************************************************)
(* What BLOCKHASH answers, unless zero, is the hash of the ancestor of     *)
(* that number, though headers of another fork may be stored there, and    *)
(* within a transaction it stays that, though reading the header again     *)
(* may fail.                                                               *)
(***************************************************************************)
BlockHashes ==
    [][\A n \in Ancestors :
          /\ hashCache'[n] \in {NoHash, Ancestry[n]}
          /\ hashCache[n] # NoHash /\ i' = i => hashCache'[n] = hashCache[n]]_vars

(***************************************************************************)
(* apply.go: "Set the receipt logs": a receipt has the logs the            *)
(* transaction has added.                                                  *)
(***************************************************************************)
ReceiptHasLogs ==
    \A j \in 1..Len(receipts) : receipts[j].logs = emitted[j]
=============================================================================
