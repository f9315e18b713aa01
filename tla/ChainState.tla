----------------------------- MODULE ChainState -----------------------------
(***************************************************************************)
(* What the executor promises, whatever it does internally: a chain state  *)
(* that advances one block at a time, each block applied exactly once to   *)
(* the entries its parent left (README.md: "processes blockchain           *)
(* transactions, maintains world state ..., and generates transaction      *)
(* receipts").                                                             *)
(*                                                                         *)
(* What a block leaves is a function of what it is applied to.  An         *)
(* application that is lost, repeated or made to another block's state     *)
(* leaves something else.                                                  *)
(***************************************************************************)
EXTENDS Naturals, Sequences

CONSTANTS
    MaxBlock,       \* bound: blocks 1..MaxBlock exist
    Genesis,        \* the entries before block 1
    Outcome(_, _)   \* Outcome(n, p): the entries block n leaves when applied to p

VARIABLES
    height,     \* number of the last block applied
    world,      \* the entries it left
    outcome     \* outcome[n]: the entries that block n's receipts tell of

chainVars == <<height, world, outcome>>

Init ==
    /\ height = 0
    /\ world = Genesis
    /\ outcome = <<>>

(***************************************************************************)
(* The next block is executed: state, receipts and height change together. *)
(***************************************************************************)
ExecuteBlock ==
    /\ height < MaxBlock
    /\ height' = height + 1
    /\ world' = Outcome(height + 1, world)
    /\ outcome' = Append(outcome, world')

Spec == Init /\ [][ExecuteBlock]_chainVars
=============================================================================
