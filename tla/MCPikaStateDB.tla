--------------------------- MODULE MCPikaStateDB ----------------------------
(***************************************************************************)
(* Small instances of PikaStateDB for TLC.                                 *)
(***************************************************************************)
EXTENDS PikaStateDB, TLC

CONSTANTS sender, fresh, s1, code1, tx1, tx2

(***************************************************************************)
(* One account that has sent a transaction before and holds a slot, and    *)
(* one address nobody has used.                                            *)
(***************************************************************************)
OneSender ==
    [a \in Addresses |-> IF a = sender THEN [balance |-> 1, nonce |-> 1, code |-> None]
                         ELSE Absent]

OneSlot == [a \in Addresses |-> [s \in Slots |-> IF a = sender THEN 1 ELSE Absent]]
TwoTxs == <<tx1, tx2>>

SenderOnly == {<<{sender}, {}>>}
=============================================================================
