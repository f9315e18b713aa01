--------------------------- MODULE MCTxProcessing ---------------------------
(***************************************************************************)
(* A small instance of TxProcessing for TLC.                               *)
(***************************************************************************)
EXTENDS TxProcessing, TLC

CONSTANTS alice, bob, grandparent, parent, uncle

(***************************************************************************)
(* The block has less gas than its transactions may use together.  Bob is  *)
(* new to the chain: his money is what the block has paid him, and buying  *)
(* gas may take all of it.                                                 *)
(***************************************************************************)
ThreeTxs == <<[from |-> alice, gas |-> 4], [from |-> bob, gas |-> 2], [from |-> alice, gas |-> 4]>>

Balances == [a \in Accounts |-> IF a = alice THEN 16 ELSE 0]

(***************************************************************************)
(* The header of another fork is stored in place of the grandparent's.     *)
(***************************************************************************)
TwoAncestors == <<grandparent, parent>>
OneForeign   == <<uncle, parent>>
=============================================================================
