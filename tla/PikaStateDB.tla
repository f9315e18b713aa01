---------------------------- MODULE PikaStateDB -----------------------------
(***************************************************************************)
(* PikaStateDB (pkg/state/statedb.go), the state database the EVM works on *)
(* while a block is executed, and the journal and the access list it keeps *)
(* (pkg/state/account.go).  The EVM takes snapshots, changes the state and *)
(* reverts, in any order; an entry of the journal undoes one change.       *)
(*                                                                         *)
(* After the last transaction Commit writes what the state DB keeps, under *)
(* the block's number, and the next block's state DB, new and empty, reads *)
(* what has that number and nothing else.                                  *)
(*                                                                         *)
(* The storage does not change while a block is executed.  The LRU caches  *)
(* hold parts of it and are left out.  The slots of an address in the      *)
(* access list are a set; its index in the list of slot sets is not kept.  *)
(***************************************************************************)
EXTENDS Naturals, Sequences, FiniteSets, SequencesExt

CONSTANTS
    Addresses,
    Slots,              \* keys of contract storage
    Values,             \* values of contract storage, 0 included
    Codes,              \* code hashes
    Block,              \* hashes of the block's transactions, in order
    TxAccesses,         \* addresses and slots its transactions make warm
    None,               \* the zero hash: no code, no transaction
    Absent,             \* no map entry, no Pika key
    StoredAccounts,     \* StoredAccounts[a]: stored under the parent's number
    StoredSlots,        \* StoredSlots[a][s]: stored under the parent's number
    MaxBalance,         \* bound on balances
    MaxNonce,           \* bound on nonces
    MaxRefund,          \* bound on the refund counter
    MaxJournal,         \* bound on the entries of the journal
    MaxRevisions        \* bound on the snapshots taken

Txs == Range(Block)

Account == [balance : 0..MaxBalance, nonce : 0..MaxNonce, code : Codes \cup {None}]

ASSUME ConstantsOK ==
    /\ MaxBalance \in Nat \ {0}
    /\ MaxNonce \in Nat \ {0}
    /\ MaxRefund \in Nat
    /\ MaxJournal \in Nat
    /\ MaxRevisions \in Nat
    /\ 0 \in Values
    /\ Block \in Seq(Range(Block))
    /\ None \notin Codes \cup Txs
    /\ TxAccesses \subseteq ((SUBSET Addresses) \ {{}}) \X SUBSET (Addresses \X Slots)
    /\ Absent \notin Account \cup Values
    /\ \A S \in SUBSET Slots : S # Absent
    /\ StoredAccounts \in [Addresses -> Account \cup {Absent}]
    /\ StoredSlots \in [Addresses -> [Slots -> Values \cup {Absent}]]

VARIABLES
    stored,         \* storage: keys under the state DB's number, and the codes
    committed,      \* the block is committed, the state DB is the next block's
    db,             \* accounts, storages, codes, suicides, logs, refund, accessList
    journal,        \* journal.entries
    validRevisions, \* snapshots that can be reverted to
    nextRevisionID,
    thash,          \* hash of the current transaction
    pending,        \* transactions still to come (processTransactions)
    prepared,       \* addresses given to Prepare, none before it (auxiliary)
    txStart,        \* the first snapshot of the current transaction (auxiliary)
    snapshots       \* the worlds its valid snapshots were taken of (auxiliary)

tx   == <<thash, pending, prepared, txStart>>
vars == <<stored, committed, db, journal, validRevisions, nextRevisionID, tx, snapshots>>

Slotted == [Addresses -> [Slots -> Values \cup {Absent}]]

Stores == [accounts : [Addresses -> Account \cup {Absent}],
           storages : Slotted,
           codes    : SUBSET (Codes \cup {None})]

DBs == [accounts   : [Addresses -> Account \cup {Absent}],
        storages   : Slotted,
        codes      : SUBSET (Codes \cup {None}),
        suicides   : SUBSET Addresses,
        logs       : [Txs \cup {None} -> Seq(0..MaxJournal)],
        logSize    : 0..MaxJournal,
        refund     : 0..MaxRefund,
        accessList : [Addresses -> {Absent} \cup SUBSET Slots]]

NewPikaStateDB ==
    [accounts   |-> [a \in Addresses |-> Absent],
     storages   |-> [a \in Addresses |-> [s \in Slots |-> Absent]],
     codes      |-> {},
     suicides   |-> {},
     logs       |-> [t \in Txs \cup {None} |-> <<>>],
     logSize    |-> 0,
     refund     |-> 0,
     accessList |-> [a \in Addresses |-> Absent]]

Init ==
    /\ stored = [accounts |-> StoredAccounts,
                 storages |-> StoredSlots,
                 codes    |-> {StoredAccounts[a].code :
                                  a \in {b \in Addresses : StoredAccounts[b] # Absent}}]
    /\ committed = FALSE
    /\ db = NewPikaStateDB
    /\ journal = <<>>
    /\ validRevisions = <<>>
    /\ nextRevisionID = 0
    /\ thash = None
    /\ pending = Block
    /\ prepared = {}
    /\ txStart = 0
    /\ snapshots = <<>>

-----------------------------------------------------------------------------
(***************************************************************************)
(* Reading.  getAccount keeps an account found in the storage among those  *)
(* of the block; one that is not found is a new empty account, not kept.   *)
(***************************************************************************)
NewAccount == [balance |-> 0, nonce |-> 0, code |-> None]

Empty(acc) == acc = NewAccount

AccountOf(d, a) ==
    IF d.accounts[a] # Absent THEN d.accounts[a]
    ELSE IF stored.accounts[a] # Absent THEN stored.accounts[a] ELSE NewAccount

Loaded(d, a) ==
    IF d.accounts[a] = Absent THEN [d EXCEPT !.accounts[a] = stored.accounts[a]] ELSE d

GetCode(d, a) ==
    LET code == AccountOf(d, a).code
    IN  IF code \in d.codes \cup stored.codes THEN code ELSE None

GetState(d, a, s) ==
    IF d.storages[a][s] # Absent THEN d.storages[a][s]
    ELSE IF stored.storages[a][s] # Absent THEN stored.storages[a][s] ELSE 0

(***************************************************************************)
(* What the methods of PikaStateDB tell the EVM of a state: a kept account *)
(* or slot cannot be told from one that would be read from the storage.    *)
(***************************************************************************)
WorldView(d) ==
    [accounts |-> [a \in Addresses |-> AccountOf(d, a)],
     codes    |-> [a \in Addresses |-> GetCode(d, a)],
     storages |-> [a \in Addresses |-> [s \in Slots |-> GetState(d, a, s)]],
     suicides |-> d.suicides,
     logs     |-> d.logs,
     logSize  |-> d.logSize,
     refund   |-> d.refund]

(***************************************************************************)
(* The journal.  Undo is the revert method of each type of entry; those of *)
(* the account entries do nothing when the account is not kept.            *)
(***************************************************************************)
UndoAccount(d, a, acc) ==
    IF d.accounts[a] = Absent THEN d ELSE [d EXCEPT !.accounts[a] = acc]

UndoCreateObject(ch, d) == [d EXCEPT !.accounts[ch.account] = Absent]

UndoBalance(ch, d) ==
    UndoAccount(d, ch.account, [d.accounts[ch.account] EXCEPT !.balance = ch.prev])

UndoNonce(ch, d) ==
    UndoAccount(d, ch.account, [d.accounts[ch.account] EXCEPT !.nonce = ch.prev])

\* BUG: the code goes with the account that had it, whoever else has it
UndoCodeForgetting(ch, d) ==
    [UndoAccount(d, ch.account, [d.accounts[ch.account] EXCEPT !.code = ch.prev])
        EXCEPT !.codes = @ \ {d.accounts[ch.account].code}]

UndoCode(ch, d) ==
    [UndoAccount(d, ch.account, [d.accounts[ch.account] EXCEPT !.code = ch.prev])
        EXCEPT !.codes = @ \cup {ch.prev}]

\* BUG: always takes the mark off
UndoSuicideUnmarking(ch, d) ==
    [UndoBalance(ch, d) EXCEPT !.suicides = @ \ {ch.account}]

UndoSuicide(ch, d) ==
    [UndoBalance(ch, d)
        EXCEPT !.suicides = IF ch.marked THEN @ \cup {ch.account} ELSE @ \ {ch.account}]

UndoStorage(ch, d) == [d EXCEPT !.storages[ch.account][ch.key] = ch.prev]

UndoRefund(ch, d) == [d EXCEPT !.refund = ch.prev]

\* BUG: the counter of the block's logs is not taken back
UndoAddLogOnly(ch, d) == [d EXCEPT !.logs[ch.txhash] = Front(@)]

UndoAddLog(ch, d) == [d EXCEPT !.logs[ch.txhash] = Front(@), !.logSize = @ - 1]

UndoAccessAddress(ch, d) == [d EXCEPT !.accessList[ch.account] = Absent]

UndoAccessSlot(ch, d) ==
    IF d.accessList[ch.account] = Absent THEN d
    ELSE [d EXCEPT !.accessList[ch.account] = @ \ {ch.key}]

Undo(ch, d) ==
    CASE ch.type = "createObject"  -> UndoCreateObject(ch, d)
      [] ch.type = "balance"       -> UndoBalance(ch, d)
      [] ch.type = "nonce"         -> UndoNonce(ch, d)
      [] ch.type = "code"          -> UndoCode(ch, d)
      [] ch.type = "suicide"       -> UndoSuicide(ch, d)
      [] ch.type = "storage"       -> UndoStorage(ch, d)
      [] ch.type = "refund"        -> UndoRefund(ch, d)
      [] ch.type = "addLog"        -> UndoAddLog(ch, d)
      [] ch.type = "accessAddress" -> UndoAccessAddress(ch, d)
      [] ch.type = "accessSlot"    -> UndoAccessSlot(ch, d)

(***************************************************************************)
(* The state after the entries above the first n are undone, last first.   *)
(***************************************************************************)
UndoTo(n) ==
    LET undone[i \in n..Len(journal)] ==
            IF i = Len(journal) THEN db ELSE Undo(journal[i + 1], undone[i + 1])
    IN  undone[n]

(***************************************************************************)
(* A change of the state together with its journal entries.  All but       *)
(* SubBalance, which buys the gas before Prepare, are the EVM's.           *)
(***************************************************************************)
Write(d, entries) ==
    /\ Len(journal) + Len(entries) <= MaxJournal
    /\ db' = d
    /\ journal' = journal \o entries
    /\ UNCHANGED <<stored, committed, validRevisions, nextRevisionID, tx, snapshots>>

running == prepared # {}

Change(d, entries) == running /\ Write(d, entries)

-----------------------------------------------------------------------------
(***************************************************************************)
(* GetBalance, GetNonce, GetCodeHash, GetCode, Exist and Empty change      *)
(* nothing but the accounts kept.                                          *)
(***************************************************************************)
ReadAccount(a) ==
    /\ db.accounts[a] = Absent
    /\ stored.accounts[a] # Absent
    /\ thash # None \/ running
    /\ Write(Loaded(db, a), <<>>)

CreateAccount(a) ==
    /\ Empty(AccountOf(db, a))
    /\ Change([db EXCEPT !.accounts[a] = NewAccount],
              <<[type |-> "createObject", account |-> a]>>)

(***************************************************************************)
(* Setters of an account.  Who calls SubBalance has checked the balance;   *)
(* while the EVM runs it is for the sender, whose nonce is increased, or   *)
(* for a running contract, and so is Suicide.                              *)
(***************************************************************************)
HasRun(acc) == acc.nonce > 0 \/ acc.code # None

SubBalance(a, amount) ==
    LET acc == AccountOf(db, a)
    IN  /\ acc.balance >= amount
        /\ IF running THEN HasRun(acc) ELSE thash # None
        /\ Write([db EXCEPT !.accounts[a] = [acc EXCEPT !.balance = @ - amount]],
                  <<[type |-> "balance", account |-> a, prev |-> acc.balance]>>)

AddBalance(a, amount) ==
    LET acc == AccountOf(db, a)
    IN  /\ acc.balance + amount <= MaxBalance
        /\ Change([db EXCEPT !.accounts[a] = [acc EXCEPT !.balance = @ + amount]],
                  <<[type |-> "balance", account |-> a, prev |-> acc.balance]>>)

SetNonce(a) ==
    LET acc == AccountOf(db, a)
    IN  /\ acc.nonce < MaxNonce     \* the EVM only ever increments it
        /\ Change([db EXCEPT !.accounts[a] = [acc EXCEPT !.nonce = @ + 1]],
                  <<[type |-> "nonce", account |-> a, prev |-> acc.nonce]>>)

SetCode(a, codeHash) ==
    LET acc == AccountOf(db, a)
    IN  Change([db EXCEPT !.accounts[a] = [acc EXCEPT !.code = codeHash],
                          !.codes = @ \cup {codeHash}],
               <<[type |-> "code", account |-> a, prev |-> acc.code]>>)

Suicide(a) ==
    LET acc == AccountOf(db, a)
    IN  /\ HasRun(acc)
        /\ Change([db EXCEPT !.accounts[a] = [acc EXCEPT !.balance = 0],
                             !.suicides = @ \cup {a}],
                  <<[type |-> "suicide", account |-> a, prev |-> acc.balance,
                     marked |-> a \in db.suicides]>>)

SetState(a, s, value) ==
    LET prev == GetState(db, a, s)
    IN  /\ prev # value
        /\ Change([db EXCEPT !.storages[a][s] = value],
                  <<[type |-> "storage", account |-> a, key |-> s, prev |-> prev]>>)

(***************************************************************************)
(* A log is represented by the index it gets in the block.                 *)
(***************************************************************************)
AddLog ==
    Change([db EXCEPT !.logs[thash] = Append(@, db.logSize), !.logSize = @ + 1],
           <<[type |-> "addLog", txhash |-> thash]>>)

RefundChange == [type |-> "refund", prev |-> db.refund]

AddRefund(gas) ==
    /\ db.refund + gas <= MaxRefund
    /\ Change([db EXCEPT !.refund = @ + gas], <<RefundChange>>)

\* BUG: the counter wraps around
SubRefundUnchecked(gas) ==
    Change([db EXCEPT !.refund = IF gas > @ THEN MaxRefund + 1 ELSE @ - gas], <<RefundChange>>)

SubRefund(gas) ==
    Change([db EXCEPT !.refund = IF gas > @ THEN 0 ELSE @ - gas], <<RefundChange>>)

(***************************************************************************)
(* The access list.  AddSlot reports whether the address was present, and  *)
(* AddSlotToAccessList takes that for having added it.                     *)
(***************************************************************************)
SlotsOf(d, a) == IF d.accessList[a] = Absent THEN {} ELSE d.accessList[a]

AddAddressToAccessList(a) ==
    /\ db.accessList[a] = Absent
    /\ Change([db EXCEPT !.accessList[a] = {}],
              <<[type |-> "accessAddress", account |-> a]>>)

AddSlotToAccessList(a, s) ==
    LET addrMod == db.accessList[a] # Absent
        slotMod == s \notin SlotsOf(db, a)
    IN  Change([db EXCEPT !.accessList[a] = SlotsOf(db, a) \cup {s}],
               (IF addrMod THEN <<[type |-> "accessAddress", account |-> a]>> ELSE <<>>) \o
               (IF slotMod THEN <<[type |-> "accessSlot", account |-> a, key |-> s]>> ELSE <<>>))

-----------------------------------------------------------------------------
Snapshot ==
    /\ running
    /\ nextRevisionID < MaxRevisions
    /\ nextRevisionID' = nextRevisionID + 1
    /\ validRevisions' = Append(validRevisions,
                                [id |-> nextRevisionID, journalIndex |-> Len(journal)])
    /\ snapshots' = Append(snapshots, WorldView(db))
    /\ UNCHANGED <<stored, committed, db, journal, tx>>

(***************************************************************************)
(* The EVM only reverts to snapshots of the current transaction.           *)
(***************************************************************************)
\* BUG: the revisions after the one reverted to stay valid
AllRevisions(i) == validRevisions

EarlierRevisions(i) == SubSeq(validRevisions, 1, i - 1)

RevertToSnapshot(i) ==
    /\ running
    /\ validRevisions[i].id >= txStart
    /\ LET snapshot == validRevisions[i].journalIndex
       IN  /\ db' = UndoTo(snapshot)
           /\ journal' = SubSeq(journal, 1, snapshot)
    /\ validRevisions' = EarlierRevisions(i)
    /\ snapshots' = SubSeq(snapshots, 1, i - 1 - (Len(validRevisions) - Len(snapshots)))
    /\ UNCHANGED <<stored, committed, nextRevisionID, tx>>

(***************************************************************************)
(* Between transactions: SetTxContext, then Prepare, which adds the        *)
(* sender, the destination, the precompiles and the transaction's own      *)
(* access list, all without a journal entry, and resets the hash.  A       *)
(* transaction that fails before Prepare leaves what it changed.           *)
(***************************************************************************)
SetTxContext ==
    /\ pending # <<>>
    /\ pending' = Tail(pending)
    /\ thash' = Head(pending)
    /\ prepared' = {}
    /\ txStart' = nextRevisionID
    /\ snapshots' = <<>>
    /\ UNCHANGED <<stored, committed, db, journal, validRevisions, nextRevisionID>>

Prepare(addrs, slots) ==
    /\ thash # None
    /\ db' = [db EXCEPT !.accessList =
                 [a \in Addresses |-> IF a \in addrs
                                      THEN SlotsOf(db, a) \cup {s \in Slots : <<a, s>> \in slots}
                                      ELSE @[a]]]
    /\ thash' = None
    /\ prepared' = addrs
    /\ UNCHANGED <<stored, committed, journal, validRevisions, nextRevisionID, pending, txStart, snapshots>>

(***************************************************************************)
(* After the last transaction: every account and slot kept is written, a   *)
(* destructed account like any other, and every code.  The next block gets *)
(* a state DB of its own.                                                  *)
(***************************************************************************)
Commit ==
    /\ pending = <<>>
    /\ ~committed
    /\ stored' = [accounts |-> db.accounts,
                  storages |-> db.storages,
                  codes    |-> stored.codes \cup db.codes]
    /\ committed' = TRUE
    /\ db' = NewPikaStateDB
    /\ journal' = <<>>
    /\ validRevisions' = <<>>
    /\ nextRevisionID' = 0
    /\ thash' = None
    /\ prepared' = {}
    /\ txStart' = 0
    /\ snapshots' = <<>>
    /\ UNCHANGED pending

Next ==
    \/ \E a \in Addresses :
          \/ ReadAccount(a)
          \/ CreateAccount(a)
          \/ SubBalance(a, 1)
          \/ AddBalance(a, 1)
          \/ SetNonce(a)
          \/ \E c \in Codes : SetCode(a, c)
          \/ Suicide(a)
          \/ \E s \in Slots, v \in Values : SetState(a, s, v)
          \/ AddAddressToAccessList(a)
          \/ \E s \in Slots : AddSlotToAccessList(a, s)
    \/ AddLog
    \/ \E gas \in 1..MaxRefund : AddRefund(gas) \/ SubRefund(gas)
    \/ Snapshot
    \/ \E i \in 1..Len(validRevisions) : RevertToSnapshot(i)
    \/ SetTxContext
    \/ \E accesses \in TxAccesses : Prepare(accesses[1], accesses[2])
    \/ Commit

Spec == Init /\ [][Next]_vars
-----------------------------------------------------------------------------
(***************************************************************************)
(* Properties                                                              *)
(***************************************************************************)
TypeOK ==
    /\ stored \in Stores
    /\ committed \in BOOLEAN
    /\ db \in DBs
    /\ Len(journal) <= MaxJournal
    /\ \A i \in 1..Len(validRevisions) :
          validRevisions[i] \in [id : 0..MaxRevisions, journalIndex : 0..MaxJournal]
    /\ nextRevisionID \in 0..MaxRevisions
    /\ thash \in Txs \cup {None}
    /\ pending \in Seq(Txs)
    /\ prepared \subseteq Addresses
    /\ txStart \in 0..nextRevisionID

(***************************************************************************)
(* Every snapshot that can be reverted to points into the journal, and a   *)
(* later one never to an earlier place: RevertToSnapshot never cuts the    *)
(* journal beyond its end, and finds a revision by its id only once.       *)
(***************************************************************************)
RevisionsOrdered ==
    /\ \A i \in 1..Len(validRevisions) :
          /\ validRevisions[i].id < nextRevisionID
          /\ validRevisions[i].journalIndex <= Len(journal)
    /\ \A i, j \in 1..Len(validRevisions) :
          i < j => /\ validRevisions[i].id < validRevisions[j].id
                   /\ validRevisions[i].journalIndex <= validRevisions[j].journalIndex

(***************************************************************************)
(* The logs of all transactions of the block, whatever was reverted in     *)
(* between, are numbered from 0 on without a gap or a repetition, in the   *)
(* order they were added (AddLog's use of logSize).                        *)
(***************************************************************************)
LogIndexes ==
    LET Indexes(t) == {db.logs[t][i] : i \in 1..Len(db.logs[t])}
    IN  /\ \A n \in 0..MaxJournal :
              Cardinality({t \in Txs \cup {None} : n \in Indexes(t)})
                  = IF n < db.logSize THEN 1 ELSE 0
        /\ \A t \in Txs \cup {None} : \A i, j \in 1..Len(db.logs[t]) :
              i < j => db.logs[t][i] < db.logs[t][j]

World == INSTANCE Snapshots WITH
    view   <- WorldView(db),
    saved  <- snapshots,
    period <- <<txStart, committed>>

(***************************************************************************)
(* Reverting is exact: RevertToSnapshot brings back the accounts, storage, *)
(* suicides, logs and refund the snapshot was taken of, whatever was       *)
(* changed, reverted and changed again in between.                         *)
(***************************************************************************)
RevertsWorld == World!Spec

(***************************************************************************)
(* Commit loses nothing: every account and slot whose value at the end of  *)
(* the block is not the one it began with, whatever was reverted on the    *)
(* way, reads the same in the next block's state DB, the code included     *)
(* that it shares with others.  Nothing is said of accounts that have      *)
(* self-destructed: Suicide marks them for deletion, Commit keeps them.    *)
(***************************************************************************)
CommitKeepsChanges ==
    [][\A a \in Addresses \ db.suicides :
          /\ AccountOf(db, a) # AccountOf(NewPikaStateDB, a)
                => AccountOf(db, a)' = AccountOf(db, a) /\ GetCode(db, a)' = AccountOf(db, a).code
          /\ \A s \in Slots :
                GetState(db, a, s) # GetState(NewPikaStateDB, a, s)
                    => GetState(db, a, s)' = GetState(db, a, s)]_committed

TxRevisions == SelectSeq(validRevisions, LAMBDA r : r.id >= txStart)

Warm == INSTANCE Snapshots WITH
    view   <- db.accessList,
    saved  <- [i \in 1..Len(TxRevisions) |-> UndoTo(TxRevisions[i].journalIndex).accessList],
    period <- <<txStart, committed>>

(***************************************************************************)
(* account.go: "Journal tracks state changes for reverting": the same for  *)
(* the access list, whose changes the journal records, too.                *)
(***************************************************************************)
RevertsAccessList == Warm!Spec
=============================================================================
