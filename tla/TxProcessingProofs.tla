------------------------- MODULE TxProcessingProofs -------------------------
(***************************************************************************)
(* Proofs about TxProcessing, for any block, any balances, any ancestors   *)
(* and headers, and any bounds.                                            *)
(***************************************************************************)
EXTENDS TxProcessing, Induction, SequenceTheorems, TLAPS

-----------------------------------------------------------------------------
(***************************************************************************)
(* The inductive invariant.  From buying its gas to its receipt, and only  *)
(* then, a transaction holds back its gas limit from the pool; what it has *)
(* left is part of that.                                                   *)
(***************************************************************************)
Bought == IF stage \in {"bought", "run"} THEN Message.gas ELSE 0

GasAllotted ==
    /\ usedGas + gp + Bought <= GasLimit
    /\ gas <= Bought
    /\ stage = "bought" => gas = Message.gas

InLoop == stage # "next" => i \in Indexes

Hashes == \A n \in Ancestors : hashCache[n] \in {NoHash, Ancestry[n]}

Inv == TypeOK /\ InLoop /\ GasAllotted /\ Hashes /\ ReceiptsAddUp /\ UsedBefore \subseteq used

-----------------------------------------------------------------------------
LEMMA BlockTyped ==
    /\ \A j \in Indexes : Block[j].from \in Accounts /\ Block[j].gas \in Nat \ {0}
    /\ Len(Block) \in Nat
<1> DEFINE Tx == [from : Accounts, gas : Nat \ {0}]
<1>1. Block \in Seq(Tx)
    BY ConstantsOK
<1>2. Len(Block) \in Nat
    <2> HIDE DEF Tx
    <2> QED BY <1>1
<1>3. \A j \in Indexes : Block[j] \in Tx
    <2> HIDE DEF Tx
    <2> QED BY <1>1, ElementOfSeq DEF Indexes
<1> QED
    BY <1>2, <1>3

(***************************************************************************)
(* What gas costs, and the tip for it, add up.                             *)
(***************************************************************************)
LEMMA Costs ==
    ASSUME NEW a \in Nat
    PROVE  /\ Cost(a) \in Nat /\ Tip * a \in Nat
           /\ \A b \in Nat : Cost(a + b) = Cost(a) + Cost(b) /\ Tip * (a + b) = Tip * a + Tip * b
<1>1. BaseFee \in Nat /\ Tip \in Nat
    BY ConstantsOK
<1>2. BaseFee + Tip \in Nat
    BY <1>1
<1>3. \A p, b \in Nat : p * a \in Nat /\ p * (a + b) = p * a + p * b
    OBVIOUS
<1> QED
    BY <1>1, <1>2, <1>3 DEF Cost

LEMMA ParentTyped == Len(Ancestry) \in Ancestors /\ ParentHash = Ancestry[Len(Ancestry)]
<1>1. Ancestry \in Seq(Range(Ancestry)) /\ Ancestry # <<>>
    BY ConstantsOK
<1>2. Len(Ancestry) \in Nat /\ Len(Ancestry) # 0 /\ DOMAIN Ancestry = 1..Len(Ancestry)
    BY <1>1, EmptySeq
<1> QED
    BY <1>2 DEF Ancestors, ParentHash, Last

LEMMA MinOfTwo ==
    ASSUME NEW a \in Nat, NEW b \in Nat
    PROVE  Min({a, b}) \in Nat /\ Min({a, b}) <= a
BY DEF Min

LEMMA Quotient == ASSUME NEW a \in Nat, NEW q \in Nat \ {0} PROVE a \div q \in 0..a
OBVIOUS

(***************************************************************************)
(* One more receipt for the transaction of the loop keeps the sums right.  *)
(***************************************************************************)
LEMMA AppendReceipt ==
    ASSUME Inv, stage # "next", stage' = "next", i' = i, NEW r \in Receipts,
           r.tx = i, r.cumulativeGasUsed = usedGas + r.gasUsed,
           receipts' = Append(receipts, r), usedGas' = r.cumulativeGasUsed
    PROVE  receipts' \in Seq(Receipts) /\ ReceiptsAddUp'
<1>1. receipts \in Seq(Receipts) /\ i \in Indexes
    BY DEF Inv, TypeOK, InLoop
<1>2. Len(receipts) = i - 1 /\ i \in Nat
    BY <1>1, BlockTyped DEF Inv, ReceiptsAddUp, Indexes
<1>3. /\ receipts' \in Seq(Receipts)
      /\ Len(receipts') = i
      /\ \A j \in 1..(i - 1) : receipts'[j] = receipts[j]
      /\ receipts'[i] = r
    BY <1>1, <1>2
<1>4. GasUpTo(i - 1)' = GasUpTo(i - 1) /\ GasUpTo(i - 1) = usedGas
    BY <1>1, <1>2, <1>3, BlockTyped DEF Inv, ReceiptsAddUp, GasUpTo, Indexes
<1>5. ASSUME NEW j \in 1..i
      PROVE  /\ receipts'[j].tx = j
             /\ receipts'[j].cumulativeGasUsed = GasUpTo(j - 1)' + receipts'[j].gasUsed
    <2>1. CASE j = i
        BY <1>3, <1>4, <2>1
    <2>2. CASE j # i
        <3>1. j \in 1..(i - 1)
            BY <1>2, <2>2
        <3>2. GasUpTo(j - 1)' = GasUpTo(j - 1)
            BY <1>2, <1>3, <3>1 DEF GasUpTo
        <3> QED BY <1>2, <1>3, <3>1, <3>2 DEF Inv, ReceiptsAddUp
    <2> QED BY <2>1, <2>2
<1>6. GasUpTo(i)' = usedGas'
    BY <1>1, <1>3, BlockTyped DEF GasUpTo, Indexes
<1> QED
    BY <1>3, <1>5, <1>6 DEF ReceiptsAddUp

LEMMA InitInv == Init => Inv
<1> SUFFICES ASSUME Init PROVE Inv
    OBVIOUS
<1>1. receipts \in Seq(Receipts) /\ Len(receipts) = 0
    BY EmptySeq DEF Init
<1>2. World \in Undoable /\ start \in Undoable
    BY EmptySeq, ConstantsOK DEF Init, World, Undoable
<1>3. TypeOK
    BY <1>1, <1>2, ConstantsOK DEF Init, TypeOK
<1>4. ReceiptsAddUp
    BY <1>1 DEF Init, ReceiptsAddUp, GasUpTo
<1> QED
    BY <1>3, <1>4, ConstantsOK DEF Init, Inv, InLoop, GasAllotted, Bought, Hashes

-----------------------------------------------------------------------------
(***************************************************************************)
(* One lemma per action.                                                   *)
(***************************************************************************)
LEMMA SetTxContextInv == Inv /\ SetTxContext => Inv'
<1> SUFFICES ASSUME Inv, SetTxContext PROVE Inv'
    OBVIOUS
<1>1. i \in Nat /\ i' = i + 1 /\ i' \in Indexes /\ i' # 0
    BY BlockTyped DEF Inv, TypeOK, SetTxContext, MoreTxs, Indexes
<1>2. TypeOK'
    BY <1>1 DEF Inv, TypeOK, SetTxContext, World, worldVars
<1>3. GasAllotted'
    BY DEF Inv, TypeOK, GasAllotted, Bought, SetTxContext
<1>4. ReceiptsAddUp'
    BY <1>1 DEF Inv, ReceiptsAddUp, GasUpTo, SetTxContext
<1> QED
    BY <1>1, <1>2, <1>3, <1>4 DEF SetTxContext, Inv, InLoop, Hashes

LEMMA FailInv == Inv /\ stage \in {"apply", "bought"} /\ Fail => Inv'
<1> SUFFICES ASSUME Inv, stage \in {"apply", "bought"}, Fail PROVE Inv'
    OBVIOUS
<1> DEFINE r == Receipt("failed", 0, usedGas, <<>>)
<1>1. i \in Indexes /\ i \in Nat /\ usedGas \in Nat /\ gp \in Nat /\ Message.gas \in Nat
    BY BlockTyped, ConstantsOK DEF Inv, InLoop, TypeOK, Indexes, Message
<1>2. r \in Receipts /\ r.tx = i /\ r.cumulativeGasUsed = usedGas + r.gasUsed
    BY <1>1, EmptySeq, ConstantsOK DEF Receipt, Receipts, Inv, TypeOK
<1>3. receipts' \in Seq(Receipts) /\ ReceiptsAddUp'
    <2>1. /\ stage # "next" /\ stage' = "next" /\ i' = i /\ usedGas' = usedGas
          /\ receipts' = Append(receipts, r)
          /\ r.cumulativeGasUsed = usedGas
        BY DEF Fail, Receipt
    <2> HIDE DEF r
    <2> QED BY <1>2, <2>1, AppendReceipt
<1>4. TypeOK'
    BY <1>3, ConstantsOK DEF Inv, TypeOK, Fail, PoolAfterFailure, World, worldVars
<1>5. GasAllotted'
    BY <1>1, ConstantsOK DEF Inv, GasAllotted, Bought, Fail, PoolAfterFailure
<1> QED
    BY <1>3, <1>4, <1>5 DEF Fail, Inv, InLoop, Hashes

LEMMA BuyGasInv == Inv /\ BuyGas => Inv'
<1> SUFFICES ASSUME Inv, BuyGas PROVE Inv'
    OBVIOUS
<1>1. i \in Indexes /\ Message.from \in Accounts /\ Message.gas \in Nat \ {0}
    BY BlockTyped DEF Inv, InLoop, BuyGas, Message
<1>2. gp \in Nat /\ gp <= GasLimit /\ GasLimit \in Nat /\ gp >= Message.gas
    BY ConstantsOK DEF Inv, TypeOK, BuyGas
<1>3. balance \in [Accounts -> Nat] /\ balance[Message.from] >= Cost(Message.gas)
    BY DEF Inv, TypeOK, World, Undoable, BuyGas
<1>4. balance' \in [Accounts -> Nat]
    <2> DEFINE price == Cost(Message.gas)
    <2>1. price \in Nat
        BY <1>1, Costs
    <2>2. balance' = [balance EXCEPT ![Message.from] = @ - price] /\ balance[Message.from] >= price
        BY <1>3 DEF BuyGas
    <2> HIDE DEF price
    <2> QED BY <1>1, <1>3, <2>1, <2>2
<1>5. World' \in Undoable
    BY <1>4 DEF Inv, TypeOK, World, Undoable, BuyGas
<1>6. Message' = Message
    BY DEF Message, BuyGas
<1>7. gp' = gp - Message.gas /\ gas' = Message.gas /\ stage' = "bought"
    BY DEF BuyGas
<1>8. gp' \in 0..GasLimit /\ gas' \in 0..GasLimit
    BY <1>1, <1>2, <1>7
<1>9. TypeOK'
    BY <1>5, <1>7, <1>8 DEF Inv, TypeOK, BuyGas
<1>10. GasAllotted'
    <2>1. usedGas + gp <= GasLimit /\ usedGas \in Nat
        BY <1>2, ConstantsOK DEF Inv, GasAllotted, Bought, BuyGas, TypeOK
    <2> QED BY <1>1, <1>2, <1>6, <1>7, <2>1 DEF GasAllotted, Bought, BuyGas
<1>11. ReceiptsAddUp'
    BY DEF Inv, ReceiptsAddUp, GasUpTo, BuyGas
<1> QED
    BY <1>1, <1>9, <1>10, <1>11 DEF BuyGas, Inv, InLoop, Hashes

LEMMA PrepareInv == Inv /\ Prepare => Inv'
<1> SUFFICES ASSUME Inv, Prepare PROVE Inv'
    OBVIOUS
<1>1. i \in Indexes /\ Message.gas \in Nat \ {0} /\ gas = Message.gas /\ Message' = Message
    BY BlockTyped DEF Inv, InLoop, GasAllotted, Prepare, Message, loop
<1>2. TypeOK' /\ UsedBefore \subseteq used'
    <2>1. Message.from \in Accounts
        BY <1>1, BlockTyped DEF Message
    <2>2. gas' \in 0..GasLimit /\ used' = used \cup {Message.from} /\ stage' = "run" /\ thash' = NoTx
        BY <1>1, ConstantsOK DEF Inv, TypeOK, Prepare
    <2>3. World' = World /\ start' = World
        BY DEF Prepare, World, worldVars
    <2>4. UNCHANGED <<i, gp, usedGas, receipts, hashCache>>
        BY DEF Prepare, loop
    <2> QED BY <2>1, <2>2, <2>3, <2>4 DEF Inv, TypeOK
<1>3. GasAllotted'
    BY <1>1, ConstantsOK DEF Inv, GasAllotted, Bought, Prepare, loop, TypeOK
<1>4. ReceiptsAddUp'
    BY DEF Inv, ReceiptsAddUp, GasUpTo, Prepare, loop
<1> QED
    BY <1>1, <1>2, <1>3, <1>4 DEF Prepare, Inv, InLoop, Hashes, loop

(***************************************************************************)
(* An instruction changes the world, or remembers a hash, for its gas.     *)
(***************************************************************************)
LEMMA BurnInv ==
    ASSUME Inv, Burn, World' \in Undoable, Hashes',
           hashCache' \in [Ancestors -> {NoHash} \cup Range(Ancestry)]
    PROVE  Inv'
<1>1. i \in Indexes /\ Message.gas \in Nat \ {0} /\ Message' = Message
    BY BlockTyped DEF Inv, InLoop, Burn, Message, loop
<1>2. TypeOK'
    BY ConstantsOK DEF Inv, TypeOK, Burn, loop
<1>3. GasAllotted'
    BY <1>1, ConstantsOK DEF Inv, GasAllotted, Bought, Burn, loop, TypeOK
<1>4. ReceiptsAddUp'
    BY DEF Inv, ReceiptsAddUp, GasUpTo, Burn, loop
<1> QED
    BY <1>1, <1>2, <1>3, <1>4 DEF Burn, Inv, InLoop, loop

LEMMA WorldTyped ==
    Inv => /\ balance \in [Accounts -> Nat]
           /\ refund \in 0..MaxRefund
           /\ logs \in [{NoTx} \cup Indexes -> Seq(Indexes \X Nat)]
           /\ emitted \in [Indexes -> Seq(Indexes \X Nat)]
           /\ thash \in {NoTx} \cup Indexes
           /\ hashCache \in [Ancestors -> {NoHash} \cup Range(Ancestry)]
BY DEF Inv, TypeOK, World, Undoable

LEMMA ComputeInv == Inv /\ Compute => Inv'
<1> SUFFICES ASSUME Inv, Compute PROVE Inv'
    OBVIOUS
<1>1. World' \in Undoable
    BY DEF Inv, TypeOK, World, Compute, worldVars
<1>2. Hashes' /\ hashCache' = hashCache
    BY DEF Inv, Hashes, Compute
<1> QED
    BY <1>1, <1>2, BurnInv, WorldTyped DEF Compute

LEMMA TransferInv == ASSUME NEW a \in Accounts PROVE Inv /\ Transfer(a) => Inv'
<1> SUFFICES ASSUME Inv, Transfer(a) PROVE Inv'
    OBVIOUS
<1>1. i \in Indexes /\ Message.from \in Accounts
    BY BlockTyped DEF Inv, InLoop, Transfer, Burn, Message
<1>2. balance' \in [Accounts -> Nat]
    BY <1>1, WorldTyped DEF Transfer
<1>3. World' \in Undoable
    BY <1>2, WorldTyped DEF World, Undoable, Transfer
<1>4. Hashes' /\ hashCache' = hashCache
    BY DEF Inv, Hashes, Transfer
<1> QED
    BY <1>3, <1>4, BurnInv, WorldTyped DEF Transfer

LEMMA CallFailsInv == ASSUME NEW a \in Accounts PROVE Inv /\ CallFails(a) => Inv'
<1> SUFFICES ASSUME Inv, CallFails(a) PROVE Inv'
    OBVIOUS
<1>1. balance' \in [Accounts -> Nat]
    BY WorldTyped, ConstantsOK DEF CallFails
<1>2. World' \in Undoable
    BY <1>1, WorldTyped DEF World, Undoable, CallFails
<1>3. Hashes' /\ hashCache' = hashCache
    BY DEF Inv, Hashes, CallFails
<1> QED
    BY <1>2, <1>3, BurnInv, WorldTyped DEF CallFails

LEMMA AddLogInv == Inv /\ AddLog => Inv'
<1> SUFFICES ASSUME Inv, AddLog PROVE Inv'
    OBVIOUS
<1> DEFINE log == <<i, Len(emitted[i])>>
<1>1. i \in Indexes
    BY DEF Inv, InLoop, AddLog, Burn
<1>2. log \in Indexes \X Nat
    BY <1>1, WorldTyped
<1>3. /\ logs' = [logs EXCEPT ![thash] = Append(@, log)]
      /\ emitted' = [emitted EXCEPT ![i] = Append(@, log)]
    BY DEF AddLog
<1> HIDE DEF log
<1>4. /\ Append(logs[thash], log) \in Seq(Indexes \X Nat)
      /\ Append(emitted[i], log) \in Seq(Indexes \X Nat)
    BY <1>1, <1>2, WorldTyped
<1>5. /\ logs' \in [{NoTx} \cup Indexes -> Seq(Indexes \X Nat)]
      /\ emitted' \in [Indexes -> Seq(Indexes \X Nat)]
    BY <1>3, <1>4, WorldTyped
<1>6. World' \in Undoable
    BY <1>5, WorldTyped DEF World, Undoable, AddLog
<1>7. Hashes' /\ hashCache' = hashCache
    BY DEF Inv, Hashes, AddLog
<1> QED
    BY <1>6, <1>7, BurnInv, WorldTyped DEF AddLog

LEMMA AddRefundInv == Inv /\ AddRefund => Inv'
<1> SUFFICES ASSUME Inv, AddRefund PROVE Inv'
    OBVIOUS
<1>1. World' \in Undoable
    BY WorldTyped, ConstantsOK DEF World, Undoable, AddRefund
<1>2. Hashes' /\ hashCache' = hashCache
    BY DEF Inv, Hashes, AddRefund
<1> QED
    BY <1>1, <1>2, BurnInv, WorldTyped DEF AddRefund

(***************************************************************************)
(* A header with the parent's hash is found under the parent's number and  *)
(* under no other.                                                         *)
(***************************************************************************)
LEMMA GetHashOf ==
    ASSUME Inv, NEW n \in Ancestors, NEW header \in {StoredHeaders[n], NoHash}
    PROVE  /\ GetHash(n, header) \in {NoHash, Ancestry[n]}
           /\ hashCache[n] # NoHash => GetHash(n, header) = hashCache[n]
<1>1. CASE hashCache[n] # NoHash
    BY <1>1 DEF Inv, Hashes, GetHash
<1>2. CASE hashCache[n] = NoHash /\ header = ParentHash /\ header = StoredHeaders[n]
    <2>1. StoredHeaders[n] = Ancestry[Len(Ancestry)] /\ Len(Ancestry) \in Ancestors
        BY <1>2, ParentTyped
    <2>2. n = Len(Ancestry)
        BY <2>1, ConstantsOK
    <2> QED BY <1>2, <2>1, <2>2 DEF GetHash
<1>3. CASE hashCache[n] = NoHash /\ ~(header = ParentHash /\ header = StoredHeaders[n])
    BY <1>3 DEF GetHash
<1> QED
    BY <1>1, <1>2, <1>3

LEMMA BlockHashInv ==
    ASSUME NEW n \in Ancestors, Inv, BlockHash(n)
    PROVE  Inv' /\ (hashCache[n] # NoHash => hashCache' = hashCache)
<1> PICK header \in {StoredHeaders[n], NoHash} :
        hashCache' = [hashCache EXCEPT ![n] = GetHash(n, header)]
    BY DEF BlockHash
<1>1. /\ GetHash(n, header) \in {NoHash, Ancestry[n]}
      /\ hashCache[n] # NoHash => GetHash(n, header) = hashCache[n]
    BY GetHashOf
<1>2. Ancestry[n] \in Range(Ancestry)
    BY DEF Range, Ancestors
<1>3. hashCache' \in [Ancestors -> {NoHash} \cup Range(Ancestry)] /\ Hashes'
    BY <1>1, <1>2, WorldTyped DEF Inv, Hashes
<1>4. World' \in Undoable
    BY DEF Inv, TypeOK, World, BlockHash, worldVars
<1>5. hashCache[n] # NoHash => hashCache' = hashCache
    BY <1>1, WorldTyped
<1> QED
    BY <1>3, <1>4, <1>5, BurnInv DEF BlockHash

(***************************************************************************)
(* Not more is refunded than was burned.                                   *)
(***************************************************************************)
LEMMA RefundedTyped ==
    ASSUME Inv, NEW w \in Undoable, stage = "run"
    PROVE  /\ Message.gas \in Nat /\ Message.from \in Accounts
           /\ gas <= Message.gas
           /\ Burned = Message.gas - gas /\ Burned \in Nat
           /\ Refunded(w) \in Nat /\ Refunded(w) <= Burned
<1>1. Message.gas \in Nat /\ Message.from \in Accounts
    BY BlockTyped DEF Inv, InLoop, Message, Indexes
<1>2. gas \in Nat /\ gas <= Message.gas
    BY ConstantsOK DEF Inv, TypeOK, GasAllotted, Bought
<1>3. Burned \in Nat /\ Burned = Message.gas - gas
    BY <1>1, <1>2 DEF Burned
<1> DEFINE q == Burned \div RefundQuotient
<1>4. q \in 0..Burned
    BY <1>3, Quotient, ConstantsOK
<1>5. q \in Nat /\ q <= Burned
    BY <1>3, <1>4
<1>6. w.refund \in Nat
    BY ConstantsOK DEF Undoable
<1>7. Refunded(w) = Min({q, w.refund})
    BY DEF Refunded
<1> HIDE DEF q
<1>8. Refunded(w) \in Nat /\ Refunded(w) <= q
    BY <1>5, <1>6, <1>7, MinOfTwo
<1> QED
    BY <1>1, <1>2, <1>3, <1>5, <1>8

(***************************************************************************)
(* The gas used and the gas given back are what the transaction bought.    *)
(***************************************************************************)
LEMMA FinishInv ==
    ASSUME Inv, NEW status \in {"failed", "successful"}, NEW w \in Undoable, Finish(status, w)
    PROVE  Inv'
<1> DEFINE gasUsed == Burned - Refunded(w)
           r == Receipt(status, gasUsed, CumulativeGasUsed(gasUsed), w.logs[i])
<1>1. /\ stage = "run" /\ i \in Indexes /\ i \in Nat
      /\ Message.gas \in Nat /\ Message.from \in Accounts /\ Coinbase \in Accounts
    BY BlockTyped, ConstantsOK DEF Inv, InLoop, Finish, Message, Indexes
<1>2. /\ usedGas \in Nat /\ gp \in Nat /\ gas \in Nat /\ GasLimit \in Nat
      /\ usedGas + gp + Message.gas <= GasLimit /\ gas <= Message.gas
    BY <1>1, ConstantsOK DEF Inv, TypeOK, GasAllotted, Bought
<1>3. Burned \in Nat /\ Burned = Message.gas - gas
    BY <1>1, RefundedTyped
<1>4. Refunded(w) \in Nat /\ Refunded(w) <= Burned
    BY <1>1, RefundedTyped
<1>5. gasUsed \in Nat /\ gasUsed + Refunded(w) = Burned
    BY <1>3, <1>4
<1>6. /\ usedGas' = usedGas + gasUsed /\ gp' = gp + gas + Refunded(w)
      /\ gas' = 0 /\ stage' = "next" /\ i' = i
      /\ receipts' = Append(receipts, r)
      /\ refund' = w.refund /\ logs' = w.logs /\ emitted' = w.emitted
      /\ UNCHANGED <<used, thash, hashCache, start>>
    BY DEF Finish
<1>7. r.tx = i /\ r.gasUsed = gasUsed /\ r.cumulativeGasUsed = usedGas + gasUsed
    BY DEF Receipt, CumulativeGasUsed
<1>8. r \in Receipts
    <2>1. gasUsed \in 0..GasLimit /\ usedGas + gasUsed \in 0..GasLimit
        BY <1>1, <1>2, <1>3, <1>4, <1>5
    <2>2. w.logs[i] \in Seq(Indexes \X Nat)
        BY <1>1 DEF Undoable
    <2> QED BY <1>1, <2>1, <2>2 DEF Receipt, CumulativeGasUsed, Receipts
<1>9. balance' \in [Accounts -> Nat]
    <2> DEFINE paidBack == [w.balance EXCEPT ![Message.from] = @ + Cost(gas + Refunded(w))]
    <2>1. paidBack \in [Accounts -> Nat]
        <3>1. w.balance \in [Accounts -> Nat]
            BY DEF Undoable
        <3>2. gas + Refunded(w) \in Nat
            BY <1>2, <1>4
        <3>3. Cost(gas + Refunded(w)) \in Nat
            BY <3>2, Costs
        <3> QED BY <1>1, <3>1, <3>3
    <2>2. balance' = [paidBack EXCEPT ![Coinbase] = @ + Tip * gasUsed]
        BY DEF Finish
    <2>3. Tip * gasUsed \in Nat
        BY <1>5, Costs
    <2> HIDE DEF paidBack, gasUsed
    <2> QED BY <1>1, <2>1, <2>2, <2>3
<1> HIDE DEF gasUsed, r
<1>10. usedGas' + gp' <= GasLimit /\ usedGas' \in Nat /\ gp' \in Nat
    <2>1. usedGas' = usedGas + gasUsed /\ gp' = gp + gas + Refunded(w)
        BY <1>6
    <2>2. gasUsed + Refunded(w) + gas = Message.gas
        BY <1>1, <1>2, <1>3, <1>4, <1>5
    <2> QED BY <1>1, <1>2, <1>4, <1>5, <2>1, <2>2
<1>11. receipts' \in Seq(Receipts) /\ ReceiptsAddUp'
    BY <1>1, <1>6, <1>7, <1>8, AppendReceipt
<1>12. World' \in Undoable
    BY <1>6, <1>9 DEF World, Undoable
<1>13. TypeOK'
    BY <1>2, <1>6, <1>10, <1>11, <1>12 DEF Inv, TypeOK
<1>14. GasAllotted'
    BY <1>2, <1>6, <1>10 DEF GasAllotted, Bought
<1> QED
    BY <1>6, <1>11, <1>13, <1>14 DEF Inv, InLoop, Hashes

LEMMA UndoneTyped ==
    Inv => /\ Undone \in Undoable
           /\ Undone.balance = [a \in Accounts |->
                                   IF Created(a) THEN Genesis[a] ELSE start.balance[a]]
<1> SUFFICES ASSUME Inv PROVE /\ Undone \in Undoable
                              /\ Undone.balance = [a \in Accounts |->
                                     IF Created(a) THEN Genesis[a] ELSE start.balance[a]]
    OBVIOUS
<1>1. start \in Undoable
    BY DEF Inv, TypeOK
<1>2. \A a \in Accounts : Genesis[a] \in Nat /\ start.balance[a] \in Nat
    BY <1>1, ConstantsOK DEF Undoable
<1> QED
    BY <1>1, <1>2 DEF Undone, Undoable

-----------------------------------------------------------------------------
LEMMA NextInv == Inv /\ [Next]_vars => Inv'
<1> SUFFICES ASSUME Inv, [Next]_vars PROVE Inv'
    OBVIOUS
<1>1. CASE SetTxContext
    BY <1>1, SetTxContextInv
<1>2. CASE Reject
    BY <1>2, FailInv DEF Reject
<1>3. CASE BuyGas
    BY <1>3, BuyGasInv
<1>4. CASE Prepare
    BY <1>4, PrepareInv
<1>5. CASE Compute
    BY <1>5, ComputeInv
<1>6. ASSUME NEW a \in Accounts, Transfer(a) \/ CallFails(a) PROVE Inv'
    BY <1>6, TransferInv, CallFailsInv
<1>7. CASE AddLog
    BY <1>7, AddLogInv
<1>8. CASE AddRefund
    BY <1>8, AddRefundInv
<1>9. ASSUME NEW n \in Ancestors, BlockHash(n) PROVE Inv'
    BY <1>9, BlockHashInv
<1>10. CASE Succeed
    <2>1. World \in Undoable
        BY DEF Inv, TypeOK
    <2> QED BY <1>10, <2>1, FinishInv DEF Succeed
<1>11. CASE Revert
    BY <1>11, UndoneTyped, FinishInv DEF Revert
<1>12. CASE UNCHANGED vars
    BY <1>12 DEF vars, loop, worldVars, Inv, TypeOK, InLoop, GasAllotted, Bought, Message,
                 Hashes, ReceiptsAddUp, GasUpTo, World
<1> QED
    BY <1>1, <1>2, <1>3, <1>4, <1>5, <1>6, <1>7, <1>8, <1>9, <1>10, <1>11, <1>12 DEF Next

(***************************************************************************)
(* The invariant holds of every block that processTransactions executes.   *)
(***************************************************************************)
THEOREM Invariance == Spec => []Inv
<1>1. Init => Inv
    BY InitInv
<1>2. Inv /\ [Next]_vars => Inv'
    BY NextInv
<1> QED
    BY <1>1, <1>2, PTL DEF Spec

(***************************************************************************)
(* Every state of processTransactions is well typed: neither the gas pool  *)
(* nor the gas of a receipt leaves the block's gas limit.                  *)
(***************************************************************************)
THEOREM TypeCorrect == Spec => []TypeOK
<1>1. Inv => TypeOK
    BY DEF Inv
<1> QED
    BY <1>1, Invariance, PTL

(***************************************************************************)
(* Every transaction gets one receipt, and their gas adds up to what       *)
(* processTransactions returns, however each of them ends.                 *)
(***************************************************************************)
THEOREM AddedUp == Spec => []ReceiptsAddUp
<1>1. Inv => ReceiptsAddUp
    BY DEF Inv
<1> QED
    BY <1>1, Invariance, PTL

(***************************************************************************)
(* BLOCKHASH (GetHashFn) answers with the hash of that number's ancestor   *)
(* or zero, and does not change an answer but zero within a transaction.   *)
(***************************************************************************)
LEMMA HashSteps ==
    Inv /\ Inv' /\ [Next]_vars =>
        [\A n \in Ancestors :
            /\ hashCache'[n] \in {NoHash, Ancestry[n]}
            /\ hashCache[n] # NoHash /\ i' = i => hashCache'[n] = hashCache[n]]_vars
<1> SUFFICES ASSUME Inv, Inv', Next, NEW n \in Ancestors
             PROVE  /\ hashCache'[n] \in {NoHash, Ancestry[n]}
                    /\ hashCache[n] # NoHash /\ i' = i => hashCache'[n] = hashCache[n]
    OBVIOUS
<1>1. hashCache'[n] \in {NoHash, Ancestry[n]}
    BY DEF Inv, Hashes
<1>2. CASE SetTxContext
    <2>1. i' # i
        BY <1>2 DEF SetTxContext, Inv, TypeOK, Indexes
    <2> QED BY <1>1, <2>1
<1>3. ASSUME NEW m \in Ancestors, BlockHash(m), hashCache[n] # NoHash
      PROVE  hashCache'[n] = hashCache[n]
    <2>1. CASE m = n
        BY <1>3, <2>1, BlockHashInv
    <2>2. CASE m # n
        BY <1>3, <2>2, WorldTyped DEF BlockHash
    <2> QED BY <2>1, <2>2
<1>4. CASE ~SetTxContext /\ ~\E m \in Ancestors : BlockHash(m)
    <2>1. hashCache' = hashCache
        BY <1>4 DEF Next, Reject, Fail, BuyGas, Prepare, Compute, Transfer, CallFails, AddLog, AddRefund,
                    Succeed, Revert, Finish
    <2> QED BY <1>1, <2>1
<1> QED
    BY <1>1, <1>2, <1>3, <1>4

(***************************************************************************)
(* GetHashFn answers BLOCKHASH with the hash of the ancestor of that number *)
(* or with zero, and what it has answered within a transaction stays.      *)
(***************************************************************************)
THEOREM HashesAnswered == Spec => BlockHashes
<1>1. Inv /\ Inv' /\ [Next]_vars =>
        [\A n \in Ancestors :
            /\ hashCache'[n] \in {NoHash, Ancestry[n]}
            /\ hashCache[n] # NoHash /\ i' = i => hashCache'[n] = hashCache[n]]_vars
    BY HashSteps
<1> QED
    BY <1>1, Invariance, PTL DEF Spec, BlockHashes

-----------------------------------------------------------------------------
(***************************************************************************)
(* Money, and the gas it pays for.                                         *)
(***************************************************************************)

(***************************************************************************)
(* MapThenSumSet takes the elements of a set one by one: One is the next,  *)
(* and Total(S, b)[s] the sum over the subset s of S.                      *)
(***************************************************************************)
One(s) == CHOOSE x \in s : TRUE

SumOver(S, b, g) ==
    g = [s \in SUBSET S |-> IF s = {} THEN 0 ELSE b[One(s)] + g[s \ {One(s)}]]

Total(S, b) == CHOOSE g : SumOver(S, b, g)

LEMMA MoneyIsSum == ASSUME NEW b PROVE Money(b) = Total(Accounts, b)[Accounts]
BY DEF Money, MapThenSumSet, MapThenFoldSet, Total, SumOver, One

LEMMA OneIn == ASSUME NEW s, s # {} PROVE One(s) \in s
BY DEF One

(***************************************************************************)
(* The sum is defined for every subset, by induction on their sizes, and   *)
(* so it can be taken apart.                                               *)
(***************************************************************************)
LEMMA SumExists ==
    ASSUME NEW S, IsFiniteSet(S), NEW b \in [S -> Nat]
    PROVE  \E g : SumOver(S, b, g)
<1> DEFINE Level(n) == {s \in SUBSET S : Cardinality(s) <= n}
           Adds(g, s) == g[s] = IF s = {} THEN 0 ELSE b[One(s)] + g[s \ {One(s)}]
           N == {n \in Nat : \E g : \A s \in Level(n) : Adds(g, s)}
<1>1. \A s \in SUBSET S : IsFiniteSet(s) /\ Cardinality(s) \in Nat /\ Cardinality(s) <= Cardinality(S)
    BY FS_Subset, FS_CardinalityType
<1>2. 0 \in N
    <2>1. \A s \in Level(0) : s = {}
        BY <1>1, FS_EmptySet
    <2>2. \A s \in Level(0) : Adds([u \in Level(0) |-> 0], s)
        BY <2>1
    <2> QED BY <2>2
<1>3. ASSUME NEW n \in Nat, n \in N PROVE n + 1 \in N
    <2>1. PICK g : \A s \in Level(n) : Adds(g, s)
        BY <1>3
    <2> DEFINE h == [s \in Level(n + 1) |->
                        IF s = {} THEN 0 ELSE b[One(s)] + g[s \ {One(s)}]]
    <2>2. ASSUME NEW s \in Level(n + 1) PROVE Adds(h, s)
        <3>1. CASE s = {}
            BY <3>1
        <3>2. CASE s # {}
            <4> DEFINE r == s \ {One(s)}
            <4>1. One(s) \in s
                BY <3>2, OneIn
            <4>2. r \in SUBSET S /\ Cardinality(r) = Cardinality(s) - 1
                BY <1>1, <4>1, FS_RemoveElement
            <4>3. r \in Level(n) /\ r \in Level(n + 1)
                BY <1>1, <4>2
            <4>4. h[s] = b[One(s)] + g[r]
                BY <3>2
            <4>5. h[r] = g[r]
                BY <2>1, <4>3
            <4> QED BY <3>2, <4>4, <4>5
        <3> QED BY <3>1, <3>2
    <2> HIDE DEF Level, Adds, h
    <2>3. \E f : \A s \in Level(n + 1) : Adds(f, s)
        BY <2>2
    <2> QED BY <1>3, <2>3
<1>4. \A n \in Nat : n \in N
    <2> HIDE DEF N
    <2> QED BY <1>2, <1>3, SetInduction
<1>5. Cardinality(S) \in Nat /\ Level(Cardinality(S)) = SUBSET S
    BY <1>1
<1>6. PICK g : \A s \in SUBSET S : Adds(g, s)
    BY <1>4, <1>5
<1> DEFINE f == [s \in SUBSET S |-> g[s]]
<1>7. \A s \in SUBSET S : Adds(f, s)
    <2> TAKE s \in SUBSET S
    <2>1. s \ {One(s)} \in SUBSET S
        OBVIOUS
    <2>2. Adds(g, s) /\ f[s] = g[s] /\ f[s \ {One(s)}] = g[s \ {One(s)}]
        BY <1>6, <2>1
    <2> QED BY <2>2
<1>8. f = [s \in SUBSET S |-> IF s = {} THEN 0 ELSE b[One(s)] + f[s \ {One(s)}]]
    BY <1>7
<1> QED
    BY <1>8 DEF SumOver

LEMMA SumSteps ==
    ASSUME NEW S, IsFiniteSet(S), NEW b \in [S -> Nat]
    PROVE  /\ Total(S, b)[{}] = 0
           /\ \A s \in SUBSET S : s # {} =>
                 Total(S, b)[s] = b[One(s)] + Total(S, b)[s \ {One(s)}]
<1>1. SumOver(S, b, Total(S, b))
    BY SumExists DEF Total
<1> QED
    BY <1>1 DEF SumOver

LEMMA SumTyped ==
    ASSUME NEW S, IsFiniteSet(S), NEW b \in [S -> Nat]
    PROVE  \A s \in SUBSET S : Total(S, b)[s] \in Nat
<1> DEFINE G == {s \in SUBSET S : Total(S, b)[s] \in Nat}
<1>1. {} \in G
    BY SumSteps
<1>2. ASSUME NEW s \in SUBSET S, s # {}, \A x \in s : s \ {x} \in G PROVE s \in G
    <2>1. One(s) \in s /\ s \ {One(s)} \in G
        BY <1>2, OneIn
    <2>2. b[One(s)] \in Nat
        BY <2>1
    <2>3. \A u \in SUBSET S : u # {} => Total(S, b)[u] = b[One(u)] + Total(S, b)[u \ {One(u)}]
        BY SumSteps
    <2>4. Total(S, b)[s] = b[One(s)] + Total(S, b)[s \ {One(s)}]
        BY <1>2, <2>3
    <2> QED BY <2>1, <2>2, <2>4
<1>3. SUBSET S \subseteq G
    <2> HIDE DEF G
    <2> QED BY <1>1, <1>2, SubsetInduction
<1> QED
    BY <1>3

(***************************************************************************)
(* Changing what one element adds changes the sum by that.                 *)
(***************************************************************************)
LEMMA SumChanged ==
    ASSUME NEW S, IsFiniteSet(S), NEW b \in [S -> Nat], NEW c \in [S -> Nat],
           NEW a \in S, \A x \in S : x # a => c[x] = b[x]
    PROVE  Total(S, c)[S] + b[a] = Total(S, b)[S] + c[a]
<1> DEFINE G == {s \in SUBSET S :
                    IF a \in s THEN Total(S, c)[s] + b[a] = Total(S, b)[s] + c[a]
                    ELSE Total(S, c)[s] = Total(S, b)[s]}
<1>1. {} \in G
    BY SumSteps
<1>2. ASSUME NEW s \in SUBSET S, s # {}, \A x \in s : s \ {x} \in G PROVE s \in G
    <2> DEFINE x == One(s)
               r == s \ {x}
    <2>1. x \in s /\ r \in G
        BY <1>2, OneIn
    <2>2. Total(S, c)[s] = c[x] + Total(S, c)[r] /\ Total(S, b)[s] = b[x] + Total(S, b)[r]
        BY <1>2, SumSteps
    <2>3. Total(S, c)[r] \in Nat /\ Total(S, b)[r] \in Nat
        BY SumTyped
    <2>4. b[a] \in Nat /\ c[a] \in Nat /\ b[x] \in Nat /\ c[x] \in Nat
        BY <2>1
    <2> HIDE DEF x
    <2>5. CASE x = a
        BY <2>1, <2>2, <2>3, <2>4, <2>5
    <2>6. CASE x # a
        <3>1. c[x] = b[x] /\ (a \in r <=> a \in s)
            BY <2>1, <2>6
        <3> HIDE DEF r
        <3> QED BY <2>1, <2>2, <2>3, <2>4, <3>1
    <2> QED BY <2>5, <2>6
<1>3. SUBSET S \subseteq G
    <2> HIDE DEF G
    <2> QED BY <1>1, <1>2, SubsetInduction
<1>4. S \in G
    BY <1>3
<1> QED
    BY <1>4

(***************************************************************************)
(* The money of all accounts together.                                     *)
(***************************************************************************)
LEMMA MoneyTyped == ASSUME NEW b \in [Accounts -> Nat] PROVE Money(b) \in Nat
BY MoneyIsSum, SumTyped, ConstantsOK

LEMMA MoneyChanged ==
    ASSUME NEW b \in [Accounts -> Nat], NEW c \in [Accounts -> Nat], NEW a \in Accounts,
           \A x \in Accounts : x # a => c[x] = b[x]
    PROVE  Money(c) + b[a] = Money(b) + c[a]
<1>1. Money(b) = Total(Accounts, b)[Accounts] /\ Money(c) = Total(Accounts, c)[Accounts]
    BY MoneyIsSum
<1>2. IsFiniteSet(Accounts)
    BY ConstantsOK
<1>3. Total(Accounts, c)[Accounts] + b[a] = Total(Accounts, b)[Accounts] + c[a]
    BY <1>2, SumChanged
<1> QED
    BY <1>1, <1>3

-----------------------------------------------------------------------------
(***************************************************************************)
(* The inductive invariant: GasIsPaid, and while the EVM runs it could go  *)
(* back to a world with as much money as there is now.  Without that       *)
(* nothing would be known of the money after Revert.  Under                *)
(* NoStoredMoneyUnused, what an account shows that was created and is      *)
(* created no more is what it had: nothing.                                *)
(***************************************************************************)
MoneyInv ==
    /\ Money(balance) + Cost(GasLimit) = Money(Genesis) + Cost(gp) + Tip * usedGas
    /\ stage = "run" => Money(start.balance) = Money(balance)

LEMMA MoneyNext ==
    /\ Money(balance)' = Money(balance')
    /\ Money(start.balance)' = Money(start'.balance)
<1>1. Money(balance) = Total(Accounts, balance)[Accounts]
    BY MoneyIsSum
<1>2. (Money(balance) = Total(Accounts, balance)[Accounts])'
    BY <1>1, PTL
<1>3. Money(start.balance) = Total(Accounts, start.balance)[Accounts]
    BY MoneyIsSum
<1>4. (Money(start.balance) = Total(Accounts, start.balance)[Accounts])'
    BY <1>3, PTL
<1>5. /\ Total(Accounts, balance)' = Total(Accounts, balance')
      /\ Total(Accounts, start.balance)' = Total(Accounts, start'.balance)
    BY DEF Total, SumOver
<1>6. /\ Money(balance') = Total(Accounts, balance')[Accounts]
      /\ Money(start'.balance) = Total(Accounts, start'.balance)[Accounts]
    BY MoneyIsSum
<1> QED
    BY <1>2, <1>4, <1>5, <1>6

LEMMA CostNext == Cost(gp)' = Cost(gp') /\ Cost(GasLimit)' = Cost(GasLimit)
BY DEF Cost

LEMMA NumbersTyped ==
    Inv => /\ gp \in Nat /\ usedGas \in Nat /\ gas \in Nat /\ GasLimit \in Nat
           /\ Money(balance) \in Nat /\ Money(Genesis) \in Nat
           /\ Cost(GasLimit) \in Nat /\ Cost(gp) \in Nat /\ Tip * usedGas \in Nat
<1> SUFFICES ASSUME Inv
             PROVE  /\ gp \in Nat /\ usedGas \in Nat /\ gas \in Nat /\ GasLimit \in Nat
                    /\ Money(balance) \in Nat /\ Money(Genesis) \in Nat
                    /\ Cost(GasLimit) \in Nat /\ Cost(gp) \in Nat /\ Tip * usedGas \in Nat
    OBVIOUS
<1>1. gp \in Nat /\ usedGas \in Nat /\ gas \in Nat /\ GasLimit \in Nat
    BY ConstantsOK DEF Inv, TypeOK
<1> QED
    BY <1>1, Costs, MoneyTyped, WorldTyped, ConstantsOK

LEMMA PaidTo ==
    ASSUME NEW b \in [Accounts -> Nat], NEW c \in [Accounts -> Nat],
           NEW a \in Accounts, NEW x \in Nat, c[a] = b[a] + x,
           \A y \in Accounts : y # a => c[y] = b[y]
    PROVE  Money(c) = Money(b) + x
<1>1. Money(c) + b[a] = Money(b) + c[a]
    BY MoneyChanged
<1>2. Money(c) \in Nat /\ Money(b) \in Nat /\ b[a] \in Nat
    BY MoneyTyped
<1> QED
    BY <1>1, <1>2

(***************************************************************************)
(* Buying gas takes as much money from the sender as gas from the pool.    *)
(***************************************************************************)
LEMMA BuyGasPaid == Inv /\ MoneyInv /\ BuyGas => MoneyInv'
<1> SUFFICES ASSUME Inv, MoneyInv, BuyGas PROVE MoneyInv'
    OBVIOUS
<1>1. Message.from \in Accounts /\ Message.gas \in Nat
    BY BlockTyped DEF Inv, InLoop, BuyGas, Message
<1>2. balance \in [Accounts -> Nat]
    BY WorldTyped
<1>3. /\ balance[Message.from] \in Nat /\ balance[Message.from] >= Cost(Message.gas)
      /\ gp >= Message.gas /\ gp' = gp - Message.gas
      /\ usedGas' = usedGas /\ stage' = "bought"
      /\ balance' = [balance EXCEPT ![Message.from] = @ - Cost(Message.gas)]
    BY <1>1, <1>2 DEF BuyGas
<1> DEFINE price == Cost(Message.gas)
<1>4. price \in Nat
    BY <1>1, Costs
<1>5. /\ balance' \in [Accounts -> Nat]
      /\ balance'[Message.from] = balance[Message.from] - price
      /\ \A x \in Accounts : x # Message.from => balance'[x] = balance[x]
    <2> HIDE DEF price
    <2>1. balance' = [balance EXCEPT ![Message.from] = @ - price] /\ balance[Message.from] >= price
        BY <1>3 DEF price
    <2> QED BY <1>1, <1>2, <1>3, <1>4, <2>1
<1>6. Money(balance') + balance[Message.from] = Money(balance) + balance'[Message.from]
    BY <1>1, <1>2, <1>5, MoneyChanged
<1>7. Money(balance') \in Nat
    BY <1>5, MoneyTyped
<1>8. gp' \in Nat /\ gp = gp' + Message.gas
    BY <1>1, <1>3, NumbersTyped
<1>9. Cost(gp') \in Nat /\ Cost(gp) = Cost(gp') + price
    <2>1. Cost(gp' + Message.gas) = Cost(gp') + price /\ Cost(gp') \in Nat
        BY <1>1, <1>8, Costs
    <2> QED BY <1>8, <2>1
<1> HIDE DEF price
<1>10. Money(balance') + price = Money(balance)
    BY <1>3, <1>4, <1>5, <1>6, <1>7, NumbersTyped
<1>11. Money(balance') + Cost(GasLimit) = Money(Genesis) + Cost(gp') + Tip * usedGas'
    BY <1>3, <1>4, <1>7, <1>9, <1>10, NumbersTyped DEF MoneyInv
<1> QED
    BY <1>3, <1>11, MoneyNext, CostNext DEF MoneyInv

(***************************************************************************)
(* Steps that leave the balances, the pool and the gas used.               *)
(***************************************************************************)
LEMMA NothingPaid ==
    ASSUME MoneyInv, balance' = balance, gp' = gp, usedGas' = usedGas,
           \/ stage' # "run"
           \/ stage = "run" /\ start' = start
           \/ start' = World
    PROVE  MoneyInv'
<1>1. Money(balance') = Money(balance)
    OBVIOUS
<1>2. stage' = "run" => Money(start'.balance) = Money(balance')
    <2>1. CASE stage = "run" /\ start' = start
        <3>1. Money(start'.balance) = Money(start.balance)
            BY <2>1
        <3> QED BY <1>1, <2>1, <3>1 DEF MoneyInv
    <2>2. CASE start' = World
        <3>1. start'.balance = balance'
            BY <2>2 DEF World
        <3> QED BY <3>1
    <2> QED BY <2>1, <2>2
<1> QED
    BY <1>1, <1>2, MoneyNext, CostNext DEF MoneyInv

(***************************************************************************)
(* A transfer moves money and makes none.                                  *)
(***************************************************************************)
LEMMA TransferPaid ==
    ASSUME Inv, MoneyInv, NEW a \in Accounts, Transfer(a)
    PROVE  MoneyInv'
<1> DEFINE f == Message.from
<1>1. f \in Accounts /\ a # f
    BY BlockTyped DEF Inv, InLoop, Transfer, Burn, Message
<1>2. balance \in [Accounts -> Nat] /\ balance[f] > 0
    BY WorldTyped DEF Transfer
<1>3. balance' = [balance EXCEPT ![f] = @ - 1, ![a] = @ + 1]
    BY DEF Transfer
<1>4. /\ stage = "run" /\ stage' = "run" /\ start' = start /\ gp' = gp /\ usedGas' = usedGas
    BY DEF Transfer, Burn, loop
<1> HIDE DEF f
<1> DEFINE b == [balance EXCEPT ![f] = @ - 1]
<1>5. b \in [Accounts -> Nat] /\ b[f] = balance[f] - 1 /\ balance[f] \in Nat
    BY <1>1, <1>2
<1>6. \A x \in Accounts : x # f => b[x] = balance[x]
    BY <1>2
<1>7. balance' = [b EXCEPT ![a] = @ + 1]
    BY <1>1, <1>2, <1>3
<1> HIDE DEF b
<1>8. Money(b) + balance[f] = Money(balance) + b[f]
    BY <1>1, <1>2, <1>5, <1>6, MoneyChanged
<1>9. Money(b) \in Nat /\ Money(balance) \in Nat
    BY <1>2, <1>5, MoneyTyped
<1>10. Money(b) + 1 = Money(balance)
    BY <1>2, <1>5, <1>8, <1>9
<1>11. Money(balance') = Money(b) + 1
    <2>1. /\ balance' \in [Accounts -> Nat] /\ balance'[a] = b[a] + 1
          /\ \A x \in Accounts : x # a => balance'[x] = b[x]
        BY <1>5, <1>7
    <2> QED BY <1>5, <2>1, PaidTo
<1>12. Money(balance') = Money(balance)
    BY <1>10, <1>11
<1>13. Money(start'.balance) = Money(start.balance)
    BY <1>4
<1> QED
    BY <1>4, <1>12, <1>13, MoneyNext, CostNext DEF MoneyInv

(***************************************************************************)
(* A call that fails leaves an account it has created with what is stored  *)
(* for it: nothing, as before.                                             *)
(***************************************************************************)
LEMMA CallFailsPaid ==
    ASSUME NoStoredMoneyUnused, Inv, MoneyInv, NEW a \in Accounts, CallFails(a)
    PROVE  MoneyInv'
<1>1. Burn /\ balance[a] = 0 /\ a \notin UsedBefore
    BY DEF CallFails, Empty, Inv
<1>2. Genesis[a] = 0
    BY <1>1 DEF NoStoredMoneyUnused
<1>3. balance' = balance
    BY <1>1, <1>2, WorldTyped DEF CallFails
<1> QED
    BY <1>1, <1>3, NothingPaid DEF Burn, loop

(***************************************************************************)
(* And so does the end of a transaction that fails.                        *)
(***************************************************************************)
LEMMA UndoneMoney ==
    ASSUME NoStoredMoneyUnused, Inv
    PROVE  Undone.balance = start.balance
<1>1. start.balance \in [Accounts -> Nat]
    BY DEF Inv, TypeOK, Undoable
<1>2. ASSUME NEW a \in Accounts, Created(a) PROVE Genesis[a] = start.balance[a]
    BY <1>2 DEF Created, Inv, NoStoredMoneyUnused
<1> QED
    BY <1>1, <1>2, UndoneTyped

(***************************************************************************)
(* The price of the gas that is left and of the refund goes back to the    *)
(* sender, and the tip for the gas used to the coinbase, whichever world w *)
(* is left.                                                                *)
(***************************************************************************)
LEMMA FinishPaid ==
    ASSUME Inv, MoneyInv, NEW status, NEW w \in Undoable, Finish(status, w),
           Money(w.balance) = Money(balance)
    PROVE  MoneyInv'
<1> DEFINE gasUsed == Burned - Refunded(w)
           back == gas + Refunded(w)
           price == Cost(back)
           tips == Tip * gasUsed
           b == [w.balance EXCEPT ![Message.from] = @ + price]
<1>1. /\ Message.gas \in Nat /\ Message.from \in Accounts
      /\ gas <= Message.gas
      /\ Burned = Message.gas - gas /\ Burned \in Nat
      /\ Refunded(w) \in Nat /\ Refunded(w) <= Burned
    BY RefundedTyped DEF Finish
<1>2. gasUsed \in Nat /\ back \in Nat
    BY <1>1, NumbersTyped
<1>3. /\ usedGas' = usedGas + gasUsed /\ gp' = gp + back /\ stage' = "next"
    BY <1>1, NumbersTyped DEF Finish
<1>4. balance' = [b EXCEPT ![Coinbase] = @ + tips]
    BY DEF Finish
<1>5. w.balance \in [Accounts -> Nat] /\ Coinbase \in Accounts
    BY ConstantsOK DEF Undoable
<1> HIDE DEF gasUsed, back
<1>6. /\ price \in Nat /\ tips \in Nat
      /\ Cost(gp + back) = Cost(gp) + price
      /\ Tip * (usedGas + gasUsed) = Tip * usedGas + tips
    BY <1>2, NumbersTyped, Costs
<1> HIDE DEF price, tips
<1>7. b \in [Accounts -> Nat] /\ Money(b) = Money(w.balance) + price
    <2> DEFINE from == Message.from
    <2>1. w.balance \in [Accounts -> Nat] /\ from \in Accounts /\ price \in Nat
        BY <1>1, <1>5, <1>6
    <2>2. b = [w.balance EXCEPT ![from] = @ + price]
        OBVIOUS
    <2> HIDE DEF from, b
    <2>3. /\ b \in [Accounts -> Nat] /\ b[from] = w.balance[from] + price
          /\ \A x \in Accounts : x # from => b[x] = w.balance[x]
        BY <2>1, <2>2
    <2> QED BY <2>1, <2>3, PaidTo
<1> HIDE DEF b
<1>8. Money(balance') = Money(b) + tips
    <2>1. b \in [Accounts -> Nat] /\ Coinbase \in Accounts /\ tips \in Nat
        BY <1>5, <1>6, <1>7
    <2>2. /\ balance' \in [Accounts -> Nat] /\ balance'[Coinbase] = b[Coinbase] + tips
          /\ \A x \in Accounts : x # Coinbase => balance'[x] = b[x]
        BY <1>4, <2>1
    <2> QED BY <2>1, <2>2, PaidTo
<1>9. Cost(gp') = Cost(gp) + price /\ Tip * usedGas' = Tip * usedGas + tips
    BY <1>3, <1>6
<1>10. Money(balance') + Cost(GasLimit) = Money(Genesis) + Cost(gp') + Tip * usedGas'
    BY <1>6, <1>7, <1>8, <1>9, NumbersTyped DEF MoneyInv
<1> QED
    BY <1>3, <1>10, MoneyNext, CostNext DEF MoneyInv

LEMMA NextPaid ==
    ASSUME NoStoredMoneyUnused, Inv, MoneyInv, [Next]_vars
    PROVE  MoneyInv'
<1>1. CASE SetTxContext
    BY <1>1, NothingPaid DEF SetTxContext, worldVars
<1>2. CASE Reject
    BY <1>2, NothingPaid DEF Reject, Fail, PoolAfterFailure, worldVars
<1>3. CASE BuyGas
    BY <1>3, BuyGasPaid
<1>4. CASE Prepare
    BY <1>4, NothingPaid DEF Prepare, loop, worldVars
<1>5. CASE Compute \/ AddLog \/ AddRefund \/ \E n \in Ancestors : BlockHash(n)
    <2>1. Burn /\ balance' = balance
        BY <1>5 DEF Compute, AddLog, AddRefund, BlockHash, worldVars
    <2> QED BY <2>1, NothingPaid DEF Burn, loop
<1>6. ASSUME NEW a \in Accounts, Transfer(a) \/ CallFails(a) PROVE MoneyInv'
    BY <1>6, TransferPaid, CallFailsPaid
<1>7. CASE Succeed
    <2>1. World \in Undoable
        BY DEF Inv, TypeOK
    <2>2. World.balance = balance
        BY DEF World
    <2>3. Money(World.balance) = Money(balance)
        BY <2>2
    <2> QED BY <1>7, <2>1, <2>3, FinishPaid DEF Succeed
<1>8. CASE Revert
    <2>1. Undone \in Undoable /\ Undone.balance = start.balance
        BY UndoneTyped, UndoneMoney
    <2>2. Money(Undone.balance) = Money(start.balance)
        BY <2>1
    <2>3. Money(start.balance) = Money(balance)
        BY <1>8 DEF Revert, Finish, MoneyInv
    <2> QED BY <1>8, <2>1, <2>2, <2>3, FinishPaid DEF Revert
<1>9. CASE UNCHANGED vars
    BY <1>9, NothingPaid DEF vars, loop, worldVars
<1> QED
    BY <1>1, <1>2, <1>3, <1>4, <1>5, <1>6, <1>7, <1>8, <1>9 DEF Next

(***************************************************************************)
(* Gas and money go together in every state of processTransactions, for    *)
(* every block, every base fee and tip, every refund counter carried over  *)
(* from one transaction to the next, every revert and every rejection: the *)
(* money missing from the accounts is the price of the gas missing from    *)
(* the pool, less the tips for the gas used.  The hypothesis excludes what *)
(* createObjectChange.revert does to an account without nonce and code     *)
(* that had money before the block.                                        *)
(***************************************************************************)
THEOREM GasPaid == ASSUME NoStoredMoneyUnused PROVE Spec => []GasIsPaid
<1>1. Init => MoneyInv
    <2> SUFFICES ASSUME Init PROVE MoneyInv
        OBVIOUS
    <2>1. balance = Genesis /\ gp = GasLimit /\ usedGas = 0 /\ stage = "next"
        BY DEF Init
    <2>2. Money(balance) = Money(Genesis) /\ Cost(gp) = Cost(GasLimit) /\ Tip * usedGas = 0
        BY <2>1, ConstantsOK
    <2>3. Money(balance) \in Nat /\ Cost(GasLimit) \in Nat
        BY NumbersTyped, InitInv
    <2> QED BY <2>1, <2>2, <2>3 DEF MoneyInv
<1>2. Inv /\ MoneyInv /\ [Next]_vars => MoneyInv'
    <2> SUFFICES ASSUME Inv, MoneyInv, [Next]_vars PROVE MoneyInv'
        OBVIOUS
    <2> QED BY NextPaid
<1>3. Inv /\ MoneyInv => GasIsPaid
    <2> SUFFICES ASSUME Inv, MoneyInv PROVE GasIsPaid
        OBVIOUS
    <2>1. Bought \in Nat
        BY BlockTyped DEF Inv, InLoop, Bought, Message
    <2>2. usedGas + gp + Bought <= GasLimit
        BY DEF Inv, GasAllotted
    <2>3. usedGas + gp <= GasLimit
        BY <2>1, <2>2, NumbersTyped
    <2> QED BY <2>3 DEF GasIsPaid, MoneyInv
<1> QED
    BY <1>1, <1>2, <1>3, Invariance, PTL DEF Spec
=============================================================================
