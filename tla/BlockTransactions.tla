------------------------- MODULE BlockTransactions --------------------------
(***************************************************************************)
(* The transactions of a block as one execution of it sees them: the loop  *)
(* of processTransactions (pkg/executor/processor.go) over a PikaStateDB   *)
(* (pkg/state/statedb.go), as a function of what its reads from Pika have  *)
(* found so far.  It gives BlockExecutor's NextRead and Modified a value.  *)
(*                                                                         *)
(* An entry is a number: the nonce of an account that sends transactions,  *)
(* the balance of any other, the content of a slot.  Gas is free.          *)
(***************************************************************************)
EXTENDS Naturals, Sequences, SequencesExt

CONSTANTS
    Keys,           \* keys of the world state: accounts and storage slots
    SlotKeys,       \* the keys that are storage slots
    Txs,            \* Txs[n]: the transactions of block n, in order
    MaxValue,       \* bound: numbers wrap beyond it
    Absent,         \* no entry
    NoMore          \* no key

(***************************************************************************)
(* A transaction of `from` with a nonce; the EVM only reads the keys of    *)
(* `looks`, increments those of `writes` and at the end fails or not.      *)
(***************************************************************************)
TxsOK ==
    /\ SlotKeys \subseteq Keys
    /\ MaxValue \in Nat
    /\ \A n \in DOMAIN Txs : Txs[n] \in
          Seq([from : Keys \ SlotKeys, nonce : 0..MaxValue,
               looks : Seq(Keys), writes : Seq(Keys), fails : BOOLEAN])

(***************************************************************************)
(* A state DB in the middle of the block: the answers of Pika it has not   *)
(* used yet, what it has cached of those used, the accounts and storages   *)
(* it will commit, and the key it is waiting for.                          *)
(***************************************************************************)
NewStateDB(found) ==
    [left |-> found, cached |-> [k \in Keys |-> Absent], held |-> [k \in Keys |-> Absent],
     waits |-> NoMore]

Waiting(db) == db.waits # NoMore

ValueOf(entry) == IF entry = Absent THEN 0 ELSE entry

EntryOf(db, k) == IF db.held[k] # Absent THEN db.held[k] ELSE db.cached[k]

(***************************************************************************)
(* getAccount and GetState: from the block's own changes, the cache, or    *)
(* Pika.  An account that was found is among those to commit, a missing    *)
(* one is not, nor is a slot that is only read.                            *)
(***************************************************************************)
Hold(db, k) ==
    IF k \in SlotKeys \/ db.held[k] # Absent THEN db
    ELSE [db EXCEPT !.held[k] = db.cached[k]]

Read(db, k) ==
    IF Waiting(db) THEN db
    ELSE IF EntryOf(db, k) # Absent THEN Hold(db, k)
    ELSE IF db.left = <<>> THEN [db EXCEPT !.waits = k]
    ELSE Hold([db EXCEPT !.left = Tail(@), !.cached[k] = Head(db.left)], k)

(***************************************************************************)
(* SetNonce, AddBalance and SetState, which read first.                    *)
(***************************************************************************)
Increment(db, k) ==
    LET read == Read(db, k)
    IN  IF Waiting(read) THEN read
        ELSE [read EXCEPT !.held[k] = (ValueOf(EntryOf(read, k)) + 1) % (MaxValue + 1)]

(***************************************************************************)
(* RevertToSnapshot after the EVM failed: a slot gets its old content back *)
(* and stays among those to commit, so does an account that was not empty; *)
(* an empty one had been created, and is dropped.                          *)
(***************************************************************************)
Revert(before, after, ks) ==
    LET old(k) == IF before.held[k] # Absent THEN before.held[k] ELSE after.cached[k]
    IN  [after EXCEPT !.held = [k \in Keys |->
            IF k \notin ks THEN after.held[k]
            ELSE IF k \in SlotKeys THEN ValueOf(old(k))
            ELSE IF ValueOf(old(k)) = 0 THEN Absent
            ELSE old(k)]]

(***************************************************************************)
(* ApplyTransaction: without the nonce of its sender's account it is       *)
(* rejected, and the block goes on.                                        *)
(***************************************************************************)
Apply(db, tx) ==
    LET checked == Read(db, tx.from)
        started == Increment(checked, tx.from)
        ended   == FoldLeft(Increment, FoldLeft(Read, started, tx.looks), tx.writes)
    IN  IF Waiting(checked) \/ ValueOf(EntryOf(checked, tx.from)) # tx.nonce THEN checked
        ELSE IF tx.fails /\ ~Waiting(ended) THEN Revert(started, ended, ToSet(tx.writes))
        ELSE ended

Executed(n, found) == FoldLeft(Apply, NewStateDB(found), Txs[n])

(***************************************************************************)
(* What an execution of block n that has found `found` does next, and what *)
(* it holds when it has nothing more to read.                              *)
(***************************************************************************)
NextKey(n, found) == Executed(n, found).waits

Held(n, found) == Executed(n, found).held
=============================================================================
