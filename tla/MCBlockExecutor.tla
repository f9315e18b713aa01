--------------------------- MODULE MCBlockExecutor --------------------------
(***************************************************************************)
(* Small instances of BlockExecutor for TLC, with the transactions of      *)
(* BlockTransactions.                                                      *)
(***************************************************************************)
EXTENDS BlockExecutor, TLC

CONSTANTS e1, e2, acc, tok, slot,
    SlotKeys,       \* the keys that are storage slots
    Txs,            \* Txs[n]: the transactions of block n
    MaxValue        \* bound: the largest number an account or a slot holds

INSTANCE BlockTransactions

ASSUME InstanceOK == TxsOK

MCValues == 0..MaxValue

(***************************************************************************)
(* The two operators as tables that TLC computes once: @@ turns a function *)
(* it would evaluate at each application into one it has written out.      *)
(***************************************************************************)
Table(f) == f @@ <<>>

NextKeys == Table([n \in Blocks |-> Table([found \in Answers |-> NextKey(n, found)])])
HeldEntries == Table([n \in Blocks |-> Table([found \in Answers |-> Held(n, found)])])

MCNextRead(n, found) == NextKeys[n][found]
MCModified(n, found) == HeldEntries[n][found]

NoGenesis == [k \in Keys |-> Absent]
AllocAcc  == [k \in Keys |-> IF k = acc THEN 0 ELSE Absent]

Tx(from, nonce, looks, writes) ==
    [from |-> from, nonce |-> nonce, looks |-> looks, writes |-> writes, fails |-> FALSE]

FailingTx(from, nonce, looks, writes) ==
    [Tx(from, nonce, looks, writes) EXCEPT !.fails = TRUE]

(***************************************************************************)
(* Each block has a transaction of the allocated account; block 2 sets the *)
(* slot, block 3 reads it and changes it before it fails.                  *)
(***************************************************************************)
MixedTxs == << <<Tx(acc, 0, <<>>, <<>>)>>,
               <<Tx(acc, 1, <<>>, <<slot>>)>>,
               <<FailingTx(acc, 2, <<slot>>, <<slot>>)>> >>

(***************************************************************************)
(* Block 1 is empty; block 2 creates an account and a slot, block 3        *)
(* modifies both.                                                          *)
(***************************************************************************)
ReplicaTxs == << <<>>,
                 <<Tx(acc, 0, <<>>, <<slot>>)>>,
                 <<Tx(acc, 1, <<slot>>, <<slot>>)>> >>

(***************************************************************************)
(* Blocks 1 and 2 are the allocated account's, block 2 pays a new one;     *)
(* block 3 is the new account's and leaves the other alone, so block 4,    *)
(* where both send a transaction, finds only the new one.                  *)
(***************************************************************************)
ChainTxs == << <<Tx(acc, 0, <<>>, <<>>)>>,
               <<Tx(acc, 1, <<>>, <<tok>>)>>,
               <<Tx(tok, 1, <<>>, <<>>)>>,
               <<Tx(acc, 2, <<>>, <<tok>>), Tx(tok, 2, <<>>, <<>>)>> >>

(***************************************************************************)
(* The account sends transactions in blocks 1 and 3 and not in block 2.    *)
(***************************************************************************)
GapTxs == << <<Tx(acc, 0, <<>>, <<>>)>>,
             <<Tx(tok, 0, <<>>, <<>>)>>,
             <<Tx(acc, 1, <<>>, <<>>)>> >>

(***************************************************************************)
(* The kinds of mishap of each run.                                        *)
(***************************************************************************)
AllButProgress == MishapKinds \ {"progress"}
AllButReads    == MishapKinds \ {"progress", "state", "expire"}
AllButState    == MishapKinds \ {"state", "expire"}
OnlyProgress   == {"progress"}
=============================================================================
