------------------------- MODULE PikaStateDBProofs --------------------------
(***************************************************************************)
(* Proofs about PikaStateDB, for any addresses, slots, codes and           *)
(* transactions, and any bounds: the order of the revisions, the types,    *)
(* the numbering of the logs, what Commit keeps, and that reverting        *)
(* restores what a caller saw.                                             *)
(***************************************************************************)
EXTENDS PikaStateDBJournalProofs, FiniteSetTheorems

-----------------------------------------------------------------------------
(***************************************************************************)
(* The journal is a sequence, of whatever entries, and the revisions are   *)
(* in the order of their ids and of their places in it.                    *)
(***************************************************************************)
JournalIsSeq == \E S : journal \in Seq(S)

Revisions == Seq([id : Nat, journalIndex : Nat])

Inv ==
    /\ JournalIsSeq
    /\ validRevisions \in Revisions
    /\ nextRevisionID \in Nat
    /\ RevisionsOrdered

-----------------------------------------------------------------------------
LEMMA LongerJournal ==
    ASSUME NEW S, NEW q \in Seq(S), NEW T, NEW r \in Seq(T)
    PROVE  q \o r \in Seq(S \cup T) /\ Len(q \o r) = Len(q) + Len(r)
<1>1. q \in Seq(S \cup T) /\ r \in Seq(S \cup T)
    OBVIOUS
<1> QED
    BY <1>1, ConcatProperties

LEMMA Prefix ==
    ASSUME NEW S, NEW q \in Seq(S), NEW n \in 0..Len(q)
    PROVE  /\ SubSeq(q, 1, n) \in Seq(S)
           /\ Len(SubSeq(q, 1, n)) = n
           /\ \A j \in 1..n : SubSeq(q, 1, n)[j] = q[j]
OBVIOUS

LEMMA InitInv == Init => Inv
<1> SUFFICES ASSUME Init PROVE Inv
    OBVIOUS
<1>1. journal \in Seq({}) /\ validRevisions \in Revisions /\ Len(validRevisions) = 0
    BY EmptySeq DEF Init, Revisions
<1> QED
    BY <1>1 DEF Init, Inv, JournalIsSeq, RevisionsOrdered

LEMMA RevisionTyped ==
    ASSUME Inv, NEW i \in 1..Len(validRevisions)
    PROVE  /\ validRevisions[i] \in [id : Nat, journalIndex : Nat]
           /\ validRevisions[i].id \in Nat
           /\ validRevisions[i].journalIndex \in Nat
<1>1. validRevisions[i] \in [id : Nat, journalIndex : Nat]
    BY ElementOfSeq DEF Inv, Revisions
<1> QED
    BY <1>1

LEMMA JournalLength == Inv => Len(journal) \in Nat
BY DEF Inv, JournalIsSeq

(***************************************************************************)
(* A change only makes the journal longer.                                 *)
(***************************************************************************)
LEMMA WriteInv ==
    ASSUME Inv, NEW d, NEW T, NEW entries \in Seq(T), Write(d, entries)
    PROVE  Inv'
<1>1. PICK S : journal \in Seq(S)
    BY DEF Inv, JournalIsSeq
<1>2. journal' = journal \o entries /\ UNCHANGED <<validRevisions, nextRevisionID>>
    BY DEF Write
<1>3. journal' \in Seq(S \cup T) /\ Len(journal') = Len(journal) + Len(entries)
    BY <1>1, <1>2, LongerJournal
<1>4. Len(journal) \in Nat /\ Len(journal') \in Nat /\ Len(journal) <= Len(journal')
    BY <1>1, <1>3
<1>5. RevisionsOrdered'
    <2>1. \A i \in 1..Len(validRevisions) : validRevisions[i].journalIndex \in Nat
        BY RevisionTyped
    <2>2. \A i \in 1..Len(validRevisions) : validRevisions[i].journalIndex <= Len(journal)
        BY DEF Inv, RevisionsOrdered
    <2>3. \A i \in 1..Len(validRevisions) : validRevisions[i].journalIndex <= Len(journal')
        BY <1>4, <2>1, <2>2
    <2>4. validRevisions' = validRevisions /\ nextRevisionID' = nextRevisionID
        BY <1>2
    <2> QED BY <2>3, <2>4 DEF Inv, RevisionsOrdered
<1> QED
    BY <1>2, <1>3, <1>5 DEF Inv, JournalIsSeq

(***************************************************************************)
(* The methods that change the state make none, one or two entries.        *)
(***************************************************************************)
LEMMA ChangesInv ==
    ASSUME Inv, NEW a \in Addresses
    PROVE  /\ ReadAccount(a) \/ CreateAccount(a) \/ SubBalance(a, 1) \/ AddBalance(a, 1) => Inv'
           /\ SetNonce(a) \/ Suicide(a) \/ AddAddressToAccessList(a) => Inv'
           /\ \A c \in Codes : SetCode(a, c) => Inv'
           /\ \A s \in Slots, v \in Values : SetState(a, s, v) => Inv'
           /\ \A s \in Slots : AddSlotToAccessList(a, s) => Inv'
<1>1. ASSUME NEW d, Write(d, <<>>) PROVE Inv'
    <2>1. <<>> \in Seq({})
        OBVIOUS
    <2> QED BY <1>1, <2>1, WriteInv
<1>2. ASSUME NEW d, NEW e, Change(d, <<e>>) PROVE Inv'
    <2>1. <<e>> \in Seq({e})
        OBVIOUS
    <2> QED BY <1>2, <2>1, WriteInv DEF Change
<1>3. ASSUME NEW d, NEW e, Write(d, <<e>>) PROVE Inv'
    <2>1. <<e>> \in Seq({e})
        OBVIOUS
    <2> QED BY <1>3, <2>1, WriteInv
<1>4. ASSUME NEW s \in Slots, AddSlotToAccessList(a, s) PROVE Inv'
    <2> DEFINE addr == [type |-> "accessAddress", account |-> a]
               slot == [type |-> "accessSlot", account |-> a, key |-> s]
               d == [db EXCEPT !.accessList[a] = SlotsOf(db, a) \cup {s}]
               first == IF db.accessList[a] # Absent THEN <<addr>> ELSE <<>>
               second == IF s \notin SlotsOf(db, a) THEN <<slot>> ELSE <<>>
    <2>1. Write(d, first \o second)
        BY <1>4 DEF AddSlotToAccessList, Change
    <2> HIDE DEF addr, slot, d
    <2>2. first \in Seq({addr, slot}) /\ second \in Seq({addr, slot})
        <3>1. /\ <<>> \in Seq({addr, slot})
              /\ <<addr>> \in Seq({addr, slot})
              /\ <<slot>> \in Seq({addr, slot})
            OBVIOUS
        <3>2. first \in {<<>>, <<addr>>} /\ second \in {<<>>, <<slot>>}
            OBVIOUS
        <3> HIDE DEF first, second
        <3> QED BY <3>1, <3>2
    <2> HIDE DEF first, second
    <2>3. first \o second \in Seq({addr, slot})
        BY <2>2, ConcatProperties
    <2> QED BY <2>1, <2>3, WriteInv
<1>5. ReadAccount(a) => Inv'
    BY <1>1 DEF ReadAccount
<1>6. CreateAccount(a) \/ AddBalance(a, 1) => Inv'
    BY <1>2 DEF CreateAccount, AddBalance
<1>7. SubBalance(a, 1) => Inv'
    BY <1>3 DEF SubBalance
<1>8. SetNonce(a) \/ Suicide(a) \/ AddAddressToAccessList(a) => Inv'
    BY <1>2 DEF SetNonce, Suicide, AddAddressToAccessList
<1>9. \A c \in Codes : SetCode(a, c) => Inv'
    BY <1>2 DEF SetCode
<1>10. \A s \in Slots, v \in Values : SetState(a, s, v) => Inv'
    BY <1>2 DEF SetState
<1> QED
    BY <1>4, <1>5, <1>6, <1>7, <1>8, <1>9, <1>10

LEMMA LogAndRefundInv ==
    ASSUME Inv
    PROVE  /\ AddLog => Inv'
           /\ \A gas \in 1..MaxRefund : AddRefund(gas) \/ SubRefund(gas) => Inv'
<1>1. ASSUME NEW d, NEW e, Change(d, <<e>>) PROVE Inv'
    <2>1. <<e>> \in Seq({e})
        OBVIOUS
    <2> QED BY <1>1, <2>1, WriteInv DEF Change
<1> QED
    BY <1>1 DEF AddLog, AddRefund, SubRefund

(***************************************************************************)
(* A new revision has the largest id and points to the journal's end.      *)
(***************************************************************************)
LEMMA SnapshotInv == Inv /\ Snapshot => Inv'
<1> SUFFICES ASSUME Inv, Snapshot PROVE Inv'
    OBVIOUS
<1> DEFINE new == [id |-> nextRevisionID, journalIndex |-> Len(journal)]
           n == Len(validRevisions)
<1>1. /\ validRevisions' = Append(validRevisions, new)
      /\ nextRevisionID' = nextRevisionID + 1 /\ journal' = journal
    BY DEF Snapshot
<1>2. Len(journal) \in Nat /\ nextRevisionID \in Nat /\ validRevisions \in Revisions
    BY JournalLength DEF Inv
<1>3. new \in [id : Nat, journalIndex : Nat]
    BY <1>2
<1>4. /\ validRevisions' \in Revisions
      /\ n \in Nat /\ Len(validRevisions') = n + 1
      /\ \A j \in 1..n : validRevisions'[j] = validRevisions[j]
      /\ validRevisions'[n + 1] = new
    <2> HIDE DEF new
    <2> QED BY <1>1, <1>2, <1>3 DEF Revisions
<1>5. ASSUME NEW j \in 1..n
      PROVE  /\ validRevisions[j].id \in Nat /\ validRevisions[j].journalIndex \in Nat
             /\ validRevisions[j].id < nextRevisionID
             /\ validRevisions[j].journalIndex <= Len(journal)
    BY RevisionTyped DEF Inv, RevisionsOrdered
<1>6. new.id = nextRevisionID /\ new.journalIndex = Len(journal)
    OBVIOUS
<1> HIDE DEF new
<1>7. ASSUME NEW j \in 1..(n + 1)
      PROVE  validRevisions'[j].id < nextRevisionID' /\ validRevisions'[j].journalIndex <= Len(journal')
    <2>1. CASE j = n + 1
        BY <1>1, <1>2, <1>4, <1>6, <2>1
    <2>2. CASE j # n + 1
        <3>1. j \in 1..n
            BY <1>4, <2>2
        <3> QED BY <1>1, <1>2, <1>4, <1>5, <3>1
    <2> QED BY <2>1, <2>2
<1>8. ASSUME NEW j \in 1..(n + 1), NEW l \in 1..(n + 1), j < l
      PROVE  /\ validRevisions'[j].id < validRevisions'[l].id
             /\ validRevisions'[j].journalIndex <= validRevisions'[l].journalIndex
    <2>1. j \in 1..n
        BY <1>4, <1>8
    <2>2. CASE l = n + 1
        BY <1>4, <1>5, <1>6, <2>1, <2>2
    <2>3. CASE l # n + 1
        <3>1. l \in 1..n
            BY <1>4, <2>3
        <3> QED BY <1>4, <1>8, <2>1, <3>1 DEF Inv, RevisionsOrdered
    <2> QED BY <2>2, <2>3
<1>9. RevisionsOrdered'
    BY <1>4, <1>7, <1>8 DEF RevisionsOrdered
<1> QED
    BY <1>1, <1>2, <1>4, <1>9 DEF Inv, JournalIsSeq

(***************************************************************************)
(* The journal is cut where the revision reverted to points, and those     *)
(* that stay valid point to the same place or one before it.               *)
(***************************************************************************)
LEMMA RevertInv ==
    ASSUME Inv, NEW i \in 1..Len(validRevisions), RevertToSnapshot(i)
    PROVE  Inv'
<1> DEFINE cut == validRevisions[i].journalIndex
<1>1. /\ journal' = SubSeq(journal, 1, cut)
      /\ validRevisions' = SubSeq(validRevisions, 1, i - 1)
      /\ nextRevisionID' = nextRevisionID
    BY DEF RevertToSnapshot, EarlierRevisions
<1>2. cut \in Nat /\ cut <= Len(journal) /\ Len(journal) \in Nat
    BY RevisionTyped, JournalLength DEF Inv, RevisionsOrdered
<1>3. PICK S : journal \in Seq(S)
    BY DEF Inv, JournalIsSeq
<1> HIDE DEF cut
<1>4. journal' \in Seq(S) /\ Len(journal') = cut
    BY <1>1, <1>2, <1>3
<1>5. validRevisions \in Revisions /\ i \in Nat /\ i - 1 \in Nat /\ i - 1 <= Len(validRevisions)
    BY DEF Inv, Revisions
<1>6. /\ validRevisions' \in Revisions
      /\ Len(validRevisions') = i - 1
      /\ \A j \in 1..(i - 1) : validRevisions'[j] = validRevisions[j]
    <2>1. i - 1 \in 0..Len(validRevisions)
        BY <1>5
    <2> QED BY <1>1, <1>5, <2>1, Prefix DEF Revisions
<1>7. \A j \in 1..(i - 1) : j \in 1..Len(validRevisions) /\ j < i
    BY <1>5 DEF Revisions
<1>8. \A j \in 1..(i - 1) : validRevisions[j].journalIndex <= cut
    BY <1>7 DEF Inv, RevisionsOrdered, cut
<1>9. RevisionsOrdered'
    BY <1>1, <1>4, <1>6, <1>7, <1>8 DEF Inv, RevisionsOrdered
<1> QED
    BY <1>1, <1>4, <1>6, <1>9 DEF Inv, JournalIsSeq

(***************************************************************************)
(* Between transactions the revisions stay; a new state DB has none.       *)
(***************************************************************************)
LEMMA BetweenInv ==
    ASSUME Inv, UNCHANGED <<journal, validRevisions, nextRevisionID>>
    PROVE  Inv'
BY DEF Inv, JournalIsSeq, RevisionsOrdered

LEMMA CommitInv == Inv /\ Commit => Inv'
<1> SUFFICES ASSUME Inv, Commit PROVE Inv'
    OBVIOUS
<1>1. journal' \in Seq({}) /\ validRevisions' \in Revisions /\ Len(validRevisions') = 0
    BY EmptySeq DEF Commit, Revisions
<1> QED
    BY <1>1 DEF Commit, Inv, JournalIsSeq, RevisionsOrdered

-----------------------------------------------------------------------------
(***************************************************************************)
(* The revisions are in order in every state of a block and the next one:  *)
(* RevertToSnapshot finds one revision of an id, and what it cuts off the  *)
(* journal is what was added after that snapshot.                          *)
(***************************************************************************)
THEOREM Ordered == Spec => []RevisionsOrdered
<1>1. Init => Inv
    BY InitInv
<1>2. Inv /\ [Next]_vars => Inv'
    <2> SUFFICES ASSUME Inv, [Next]_vars PROVE Inv'
        OBVIOUS
    <2>1. ASSUME NEW a \in Addresses,
                 \/ ReadAccount(a) \/ CreateAccount(a) \/ SubBalance(a, 1) \/ AddBalance(a, 1)
                 \/ SetNonce(a) \/ Suicide(a) \/ AddAddressToAccessList(a)
                 \/ \E c \in Codes : SetCode(a, c)
                 \/ \E s \in Slots, v \in Values : SetState(a, s, v)
                 \/ \E s \in Slots : AddSlotToAccessList(a, s)
          PROVE  Inv'
        BY <2>1, ChangesInv
    <2>2. CASE AddLog \/ \E gas \in 1..MaxRefund : AddRefund(gas) \/ SubRefund(gas)
        BY <2>2, LogAndRefundInv
    <2>3. CASE Snapshot
        BY <2>3, SnapshotInv
    <2>4. ASSUME NEW i \in 1..Len(validRevisions), RevertToSnapshot(i) PROVE Inv'
        BY <2>4, RevertInv
    <2>5. CASE SetTxContext
        BY <2>5, BetweenInv DEF SetTxContext
    <2>6. ASSUME NEW accesses \in TxAccesses, Prepare(accesses[1], accesses[2]) PROVE Inv'
        BY <2>6, BetweenInv DEF Prepare
    <2>7. CASE Commit
        BY <2>7, CommitInv
    <2>8. CASE UNCHANGED vars
        BY <2>8, BetweenInv DEF vars
    <2> QED
        BY <2>1, <2>2, <2>3, <2>4, <2>5, <2>6, <2>7, <2>8 DEF Next
<1>3. Inv => RevisionsOrdered
    BY DEF Inv
<1> QED
    BY <1>1, <1>2, <1>3, PTL DEF Spec

-----------------------------------------------------------------------------
(***************************************************************************)
(* The types, the journal and the logs in every state: an invariant that   *)
(* each method keeps, with Carries of what it does.                        *)
(***************************************************************************)

(***************************************************************************)
(* The stored accounts have codes that are stored.                         *)
(***************************************************************************)
StoredTyped(st) == st \in Stores /\ CodesKnown(st, st.accounts, {})

(***************************************************************************)
(* The inductive invariant: the revisions are in order and the journal is  *)
(* sound, so that undoing any part of it gives a state of the right type   *)
(* and with its logs in order.  TypeOK and LogIndexes follow, but say      *)
(* nothing of what is in the journal and would not survive a revert.       *)
(***************************************************************************)
SoundInv ==
    /\ Inv
    /\ StoredTyped(stored)
    /\ committed \in BOOLEAN
    /\ SoundJournal(stored, journal, db)
    /\ Len(journal) <= MaxJournal
    /\ nextRevisionID <= MaxRevisions
    /\ thash \in Txs \cup {None}
    /\ pending \in Seq(Txs)
    /\ prepared \subseteq Addresses
    /\ txStart \in 0..nextRevisionID

(***************************************************************************)
(* What every method that changes the state does.                          *)
(***************************************************************************)
Written ==
    /\ Carries(stored, journal, db, journal', db')
    /\ Len(journal) <= Len(journal')
    /\ Len(journal') <= MaxJournal
    /\ UNCHANGED <<stored, committed, validRevisions, nextRevisionID, tx, snapshots>>

LEMMA InNewTerms ==
    /\ \A d, a : AccountOf(d, a) = AccountIn(stored, d, a)
    /\ \A d, a, s : GetState(d, a, s) = SlotIn(stored, d, a, s)
BY DEF AccountOf, AccountIn, GetState, SlotIn

LEMMA OneEntry ==
    ASSUME journal \in Seq(Entries), NEW d, NEW e, Write(d, <<e>>)
    PROVE  /\ journal' = Append(journal, e) /\ db' = d
           /\ Len(journal) <= Len(journal') /\ Len(journal') <= MaxJournal
           /\ UNCHANGED <<stored, committed, validRevisions, nextRevisionID, tx, snapshots>>
<1>1. journal' = journal \o <<e>> /\ Len(journal) + 1 <= MaxJournal
    BY DEF Write
<1>2. e \in {e} \cup Entries /\ journal \in Seq({e} \cup Entries)
    OBVIOUS
<1>3. journal' = Append(journal, e)
    BY <1>1, <1>2, AppendIsConcat
<1>4. Len(journal') = Len(journal) + 1 /\ Len(journal) \in Nat
    BY <1>2, <1>3
<1>5. Len(journal) <= Len(journal') /\ Len(journal') <= MaxJournal
    BY <1>1, <1>4
<1> QED
    BY <1>3, <1>5 DEF Write

LEMMA AccountRead ==
    ASSUME SoundInv, NEW a \in Addresses
    PROVE  /\ AccountOf(db, a) \in Account
           /\ AccountOf(db, a).code \in {None} \cup db.codes \cup stored.codes
<1>1. TypedState(stored, db) /\ stored.accounts \in [Addresses -> Account \cup {Absent}]
    BY DEF SoundInv, SoundJournal, StoredTyped, Stores
<1>2. AccountOf(db, a) \in Account
    BY <1>1, InNewTerms, AccountInTyped
<1>3. AccountOf(db, a).code \in {None} \cup db.codes \cup stored.codes
    BY <1>1 DEF AccountOf, TypedState, SoundInv, StoredTyped, CodesKnown, NewAccount
<1> QED
    BY <1>2, <1>3

(***************************************************************************)
(* The state c with the account of a, the codes and the suicides replaced, *)
(* and what is to be known of it.                                          *)
(***************************************************************************)
AccountPut(c, a, acc, codes, suicides) ==
    Fields([c.accounts EXCEPT ![a] = acc], c.storages, codes, suicides, c.logs, c.logSize,
           c.refund, c.accessList)

OnlyAccount(c, d, a, acc, suicides) ==
    /\ d.accounts[a] = acc
    /\ \A b \in Addresses : b # a => d.accounts[b] = c.accounts[b]
    /\ d.storages = c.storages
    /\ d.logs = c.logs
    /\ d.logSize = c.logSize
    /\ d.refund = c.refund
    /\ d.suicides = suicides

LEMMA PutTyped ==
    ASSUME NEW st, NEW c, TypedState(st, c), NEW a \in Addresses, NEW acc \in Account,
           NEW codes, codes \subseteq Codes \cup {None}, c.codes \subseteq codes,
           NEW suicides, suicides \subseteq Addresses,
           acc.code \in {None} \cup codes \cup st.codes
    PROVE  /\ TypedState(st, AccountPut(c, a, acc, codes, suicides))
           /\ OnlyAccount(c, AccountPut(c, a, acc, codes, suicides), a, acc, suicides)
<1> DEFINE d == AccountPut(c, a, acc, codes, suicides)
<1>2. /\ d.accounts = [c.accounts EXCEPT ![a] = acc] /\ d.codes = codes /\ d.suicides = suicides
      /\ d.storages = c.storages /\ d.logs = c.logs
      /\ d.logSize = c.logSize /\ d.refund = c.refund /\ d.accessList = c.accessList
      /\ IsState(d)
    BY DEF AccountPut, Fields, IsState
<1> HIDE DEF d
<1>3. c.accounts \in [Addresses -> Account \cup {Absent}]
    BY DEF TypedState
<1>4. /\ d.accounts[a] = acc /\ \A b \in Addresses : b # a => d.accounts[b] = c.accounts[b]
      /\ d.accounts \in [Addresses -> Account \cup {Absent}]
    BY <1>2, <1>3
<1>5. CodesKnown(st, d.accounts, d.codes)
    BY <1>2, <1>4 DEF TypedState, CodesKnown
<1> QED
    BY <1>2, <1>4, <1>5 DEF TypedState, OnlyAccount, d

(***************************************************************************)
(* A method that changes one account, with the entry that restores it.     *)
(* SubBalance alone may leave an empty account: its journal is sound, but  *)
(* not always exact.                                                       *)
(***************************************************************************)
LEMMA AccountSet ==
    ASSUME SoundInv, NEW a \in Addresses, NEW acc \in Account,
           NEW codes, codes \subseteq Codes \cup {None}, db.codes \subseteq codes,
           NEW suicides, suicides \subseteq Addresses,
           acc.code \in {None} \cup codes \cup stored.codes,
           NEW e \in Entries, e.type \in AccountTypes, e.account = a,
           EarlierAccount(e, acc) = AccountOf(db, a),
           EarlierSuicides(e, suicides) = db.suicides,
           NEW d, d = AccountPut(db, a, acc, codes, suicides),
           Write(d, <<e>>)
    PROVE  /\ acc # NewAccount => Written
           /\ SoundJournal(stored, journal', db')
           /\ Len(journal') <= MaxJournal
<1>1. /\ SoundJournal(stored, journal, db) /\ journal \in Seq(Entries) /\ TypedState(stored, db)
      /\ stored.accounts \in [Addresses -> Account \cup {Absent}]
    BY DEF SoundInv, SoundJournal, StoredTyped, Stores
<1>2. /\ TypedState(stored, d)
      /\ d.accounts[a] = acc /\ \A b \in Addresses : b # a => d.accounts[b] = db.accounts[b]
      /\ d.storages = db.storages /\ d.logs = db.logs
      /\ d.logSize = db.logSize /\ d.refund = db.refund
      /\ d.suicides = suicides
    <2>1. TypedState(stored, d) /\ OnlyAccount(db, d, a, acc, suicides)
        BY <1>1, PutTyped
    <2> QED BY <2>1 DEF OnlyAccount
<1>3. /\ journal' = Append(journal, e) /\ db' = d
      /\ Len(journal) <= Len(journal') /\ Len(journal') <= MaxJournal
      /\ UNCHANGED <<stored, committed, validRevisions, nextRevisionID, tx, snapshots>>
    BY <1>1, OneEntry
<1>4. EarlierAccount(e, acc) = AccountIn(stored, db, a)
    BY InNewTerms
<1>5. /\ SoundJournal(stored, Append(journal, e), d)
      /\ acc # NewAccount => Carries(stored, journal, db, Append(journal, e), d)
    BY <1>1, <1>2, <1>4, AccountWritten
<1> QED
    BY <1>3, <1>5 DEF Written

LEMMA SubBalanceWrites ==
    ASSUME SoundInv, NEW a \in Addresses, SubBalance(a, 1)
    PROVE  /\ ~ Empty(AccountOf(db, a)') => Written
           /\ SoundJournal(stored, journal', db')
           /\ Len(journal') <= MaxJournal
           /\ UNCHANGED <<stored, committed, validRevisions, nextRevisionID, tx, snapshots>>
<1> DEFINE old == AccountOf(db, a)
           acc == [old EXCEPT !.balance = @ - 1]
           e == [type |-> "balance", account |-> a, prev |-> old.balance]
           d == [db EXCEPT !.accounts[a] = acc]
<1>1. old.balance >= 1 /\ Write(d, <<e>>)
    BY DEF SubBalance
<1>2. old \in Account /\ old.code \in {None} \cup db.codes \cup stored.codes
    BY AccountRead
<1>3. old.balance \in 0..MaxBalance /\ MaxBalance \in Nat
    BY <1>2, ConstantsOK DEF Account
<1>4. acc \in Account /\ acc.code = old.code
    <2>1. old.balance - 1 \in 0..MaxBalance
        BY <1>1, <1>3
    <2> QED BY <1>2, <2>1 DEF Account
<1>5. e \in Entries /\ e.type \in AccountTypes /\ e.account = a
    BY <1>3 DEF Entries, AccountTypes
<1>6. EarlierAccount(e, acc) = old
    BY <1>2 DEF EarlierAccount, Account
<1>7. EarlierSuicides(e, db.suicides) = db.suicides
    BY DEF EarlierSuicides
<1>8. db.codes \subseteq Codes \cup {None} /\ db.suicides \subseteq Addresses
      /\ db.accounts \in [Addresses -> Account \cup {Absent}] /\ IsState(db)
    BY DEF SoundInv, SoundJournal, TypedState
<1>9. d = AccountPut(db, a, acc, db.codes, db.suicides)
    <2> HIDE DEF acc
    <2> QED BY <1>8 DEF IsState, Fields, AccountPut
<1>10. AccountOf(db, a)' = acc
    <2>1. db' = d
        BY <1>1 DEF Write
    <2>2. d.accounts[a] = acc
        <3> HIDE DEF acc
        <3> QED BY <1>8 DEF IsState, Fields
    <2>3. acc # Absent
        BY <1>4, ConstantsOK
    <2> HIDE DEF acc, d
    <2> QED BY <2>1, <2>2, <2>3 DEF AccountOf
<1> HIDE DEF acc, e, d, old
<1>11. /\ acc # NewAccount => Written
       /\ SoundJournal(stored, journal', db')
       /\ Len(journal') <= MaxJournal
    BY <1>1, <1>2, <1>4, <1>5, <1>6, <1>7, <1>8, <1>9, AccountSet DEF old
<1>12. UNCHANGED <<stored, committed, validRevisions, nextRevisionID, tx, snapshots>>
    BY <1>1 DEF Write
<1> QED
    BY <1>10, <1>11, <1>12 DEF Empty

(***************************************************************************)
(* The parts of SoundInv that most proofs use.                             *)
(***************************************************************************)
LEMMA DbTyped ==
    ASSUME SoundInv
    PROVE  /\ TypedState(stored, db) /\ IsState(db) /\ journal \in Seq(Entries)
           /\ db.accounts \in [Addresses -> Account \cup {Absent}]
           /\ db.storages \in Slotted
           /\ db.codes \subseteq Codes \cup {None} /\ db.suicides \subseteq Addresses
           /\ db.refund \in 0..MaxRefund
           /\ db.accessList \in [Addresses -> {Absent} \cup SUBSET Slots]
           /\ SoundJournal(stored, journal, db)
           /\ Len(journal) \in Nat
           /\ LogsNumbered(db, Len(journal))
<1>1. SoundJournal(stored, journal, db)
    BY DEF SoundInv
<1>2. journal \in Seq(Entries) /\ Len(journal) \in Nat /\ LogsNumbered(db, Len(journal))
    BY <1>1, SoundNow
<1> QED
    BY <1>1, <1>2 DEF SoundJournal, TypedState

(***************************************************************************)
(* The other methods that change an account never leave it empty.          *)
(***************************************************************************)
LEMMA AddBalanceWrites ==
    ASSUME SoundInv, NEW a \in Addresses, AddBalance(a, 1)
    PROVE  Written
<1> DEFINE old == AccountOf(db, a)
           acc == [old EXCEPT !.balance = @ + 1]
           e == [type |-> "balance", account |-> a, prev |-> old.balance]
           d == [db EXCEPT !.accounts[a] = acc]
<1>1. old.balance + 1 <= MaxBalance /\ Write(d, <<e>>)
    BY DEF AddBalance, Change
<1>2. old \in Account /\ old.code \in {None} \cup db.codes \cup stored.codes
    BY AccountRead
<1>3. old.balance \in 0..MaxBalance /\ MaxBalance \in Nat
    BY <1>2, ConstantsOK DEF Account
<1>4. acc \in Account /\ acc.code = old.code /\ acc # NewAccount
    <2>1. old.balance + 1 \in 0..MaxBalance /\ old.balance + 1 # 0
        BY <1>1, <1>3
    <2> QED BY <1>2, <2>1 DEF Account, NewAccount
<1>5. e \in Entries /\ e.type \in AccountTypes /\ e.account = a
    BY <1>3 DEF Entries, AccountTypes
<1>6. EarlierAccount(e, acc) = old
    BY <1>2 DEF EarlierAccount, Account
<1>7. EarlierSuicides(e, db.suicides) = db.suicides
    BY DEF EarlierSuicides
<1>8. d = AccountPut(db, a, acc, db.codes, db.suicides)
    <2> HIDE DEF acc
    <2> QED BY DbTyped DEF IsState, Fields, AccountPut
<1> HIDE DEF acc, e, d, old
<1> QED
    BY <1>1, <1>2, <1>4, <1>5, <1>6, <1>7, <1>8, DbTyped, AccountSet DEF old

LEMMA SetNonceWrites ==
    ASSUME SoundInv, NEW a \in Addresses, SetNonce(a)
    PROVE  Written
<1> DEFINE old == AccountOf(db, a)
           acc == [old EXCEPT !.nonce = @ + 1]
           e == [type |-> "nonce", account |-> a, prev |-> old.nonce]
           d == [db EXCEPT !.accounts[a] = acc]
<1>1. old.nonce < MaxNonce /\ Write(d, <<e>>)
    BY DEF SetNonce, Change
<1>2. old \in Account /\ old.code \in {None} \cup db.codes \cup stored.codes
    BY AccountRead
<1>3. old.nonce \in 0..MaxNonce /\ MaxNonce \in Nat
    BY <1>2, ConstantsOK DEF Account
<1>4. acc \in Account /\ acc.code = old.code /\ acc # NewAccount
    <2>1. old.nonce + 1 \in 0..MaxNonce /\ old.nonce + 1 # 0
        BY <1>1, <1>3
    <2> QED BY <1>2, <2>1 DEF Account, NewAccount
<1>5. e \in Entries /\ e.type \in AccountTypes /\ e.account = a
    BY <1>3 DEF Entries, AccountTypes
<1>6. EarlierAccount(e, acc) = old
    BY <1>2 DEF EarlierAccount, Account
<1>7. EarlierSuicides(e, db.suicides) = db.suicides
    BY DEF EarlierSuicides
<1>8. d = AccountPut(db, a, acc, db.codes, db.suicides)
    <2> HIDE DEF acc
    <2> QED BY DbTyped DEF IsState, Fields, AccountPut
<1> HIDE DEF acc, e, d, old
<1> QED
    BY <1>1, <1>2, <1>4, <1>5, <1>6, <1>7, <1>8, DbTyped, AccountSet DEF old

LEMMA CodePut ==
    ASSUME NEW c, IsState(c), NEW a, NEW acc, NEW codes, NEW y,
           y = [c EXCEPT !.accounts[a] = acc, !.codes = codes]
    PROVE  y = AccountPut(c, a, acc, codes, c.suicides)
BY DEF AccountPut, IsState, Fields

LEMMA SuicidePut ==
    ASSUME NEW c, IsState(c), NEW a, NEW acc, NEW suicides, NEW y,
           y = [c EXCEPT !.accounts[a] = acc, !.suicides = suicides]
    PROVE  y = AccountPut(c, a, acc, c.codes, suicides)
BY DEF AccountPut, IsState, Fields

LEMMA SetCodeWrites ==
    ASSUME SoundInv, NEW a \in Addresses, NEW codeHash \in Codes, SetCode(a, codeHash)
    PROVE  Written
<1> DEFINE old == AccountOf(db, a)
           acc == [old EXCEPT !.code = codeHash]
           codes == db.codes \cup {codeHash}
           e == [type |-> "code", account |-> a, prev |-> old.code]
           d == [db EXCEPT !.accounts[a] = acc, !.codes = @ \cup {codeHash}]
<1>1. Write(d, <<e>>)
    BY DEF SetCode, Change
<1>2. old \in Account /\ old.code \in Codes \cup {None}
    BY AccountRead DEF Account
<1>3. acc \in Account /\ acc.code = codeHash /\ acc # NewAccount
    BY <1>2, ConstantsOK DEF Account, NewAccount
<1>4. e \in Entries /\ e.type \in AccountTypes /\ e.account = a
    BY <1>2 DEF Entries, AccountTypes
<1>5. EarlierAccount(e, acc) = old
    BY <1>2 DEF EarlierAccount, Account
<1>6. EarlierSuicides(e, db.suicides) = db.suicides
    BY DEF EarlierSuicides
<1>7. d = AccountPut(db, a, acc, codes, db.suicides)
    <2> HIDE DEF acc
    <2>1. IsState(db)
        BY DbTyped
    <2>2. d = [db EXCEPT !.accounts[a] = acc, !.codes = codes]
        OBVIOUS
    <2> HIDE DEF d, codes
    <2> QED BY <2>1, <2>2, CodePut
<1>8. codes \subseteq Codes \cup {None} /\ db.codes \subseteq codes
      /\ acc.code \in {None} \cup codes \cup stored.codes
    BY <1>3, DbTyped
<1> HIDE DEF acc, e, d, old, codes
<1> QED
    BY <1>1, <1>3, <1>4, <1>5, <1>6, <1>7, <1>8, DbTyped, AccountSet DEF old

LEMMA SuicideWrites ==
    ASSUME SoundInv, NEW a \in Addresses, Suicide(a)
    PROVE  Written
<1> DEFINE old == AccountOf(db, a)
           acc == [old EXCEPT !.balance = 0]
           suicides == db.suicides \cup {a}
           e == [type |-> "suicide", account |-> a, prev |-> old.balance,
                 marked |-> a \in db.suicides]
           d == [db EXCEPT !.accounts[a] = acc, !.suicides = @ \cup {a}]
<1>1. HasRun(old) /\ Write(d, <<e>>)
    BY DEF Suicide, Change
<1>2. old \in Account /\ old.code \in {None} \cup db.codes \cup stored.codes
    BY AccountRead
<1>3. old.balance \in 0..MaxBalance /\ MaxBalance \in Nat /\ old.nonce \in Nat
    BY <1>2, ConstantsOK DEF Account
<1>4. acc \in Account /\ acc.code = old.code
    BY <1>2, <1>3 DEF Account
<1>5. acc # NewAccount
    BY <1>1, <1>2, <1>3 DEF NewAccount, HasRun, Account
<1>6. e.type = "suicide" /\ e.account = a /\ e.prev = old.balance /\ e.marked = (a \in db.suicides)
    OBVIOUS
<1>7. e \in Entries /\ e.type \in AccountTypes
    <2>1. (a \in db.suicides) \in BOOLEAN
        OBVIOUS
    <2> QED BY <1>3, <2>1 DEF Entries, AccountTypes
<1>8. EarlierAccount(e, acc) = old
    BY <1>2 DEF EarlierAccount, Account
<1>9. EarlierSuicides(e, suicides) = db.suicides
    <2> HIDE DEF e
    <2> QED BY <1>6 DEF EarlierSuicides
<1>10. d = AccountPut(db, a, acc, db.codes, suicides)
    <2> HIDE DEF acc
    <2>1. IsState(db)
        BY DbTyped
    <2>2. d = [db EXCEPT !.accounts[a] = acc, !.suicides = suicides]
        OBVIOUS
    <2> HIDE DEF d, suicides
    <2> QED BY <2>1, <2>2, SuicidePut
<1>11. suicides \subseteq Addresses
    BY DbTyped
<1> HIDE DEF acc, e, d, old, suicides
<1> QED
    BY <1>1, <1>2, <1>4, <1>5, <1>6, <1>7, <1>8, <1>9, <1>10, <1>11, DbTyped, AccountSet DEF old

(***************************************************************************)
(* CreateAccount makes an entry and a new account where there is none that *)
(* is not empty, and keeps the others.                                     *)
(***************************************************************************)
LEMMA CreateAccountWrites ==
    ASSUME SoundInv, NEW a \in Addresses, CreateAccount(a)
    PROVE  Written
<1> DEFINE e == [type |-> "createObject", account |-> a]
           d == [db EXCEPT !.accounts[a] = NewAccount]
<1>1. Write(d, <<e>>) /\ AccountIn(stored, db, a) = NewAccount
    BY InNewTerms DEF CreateAccount, Change, Empty
<1>2. NewAccount \in Account /\ NewAccount.code = None
    BY ConstantsOK DEF Account, NewAccount
<1>3. e \in Entries /\ e.type = "createObject" /\ e.account = a
    BY DEF Entries
<1>4. d = AccountPut(db, a, NewAccount, db.codes, db.suicides)
    BY DbTyped DEF IsState, Fields, AccountPut
<1> HIDE DEF d, e
<1>5. TypedState(stored, d) /\ OnlyAccount(db, d, a, NewAccount, db.suicides)
    BY <1>2, <1>4, DbTyped, PutTyped
<1>6. Carries(stored, journal, db, Append(journal, e), d)
    BY <1>1, <1>3, <1>5, DbTyped, CreationWritten DEF OnlyAccount
<1> QED
    BY <1>1, <1>6, DbTyped, OneEntry DEF Written

(***************************************************************************)
(* The methods that change no account: a slot, the refund counter.         *)
(***************************************************************************)
LEMMA OtherWrites ==
    ASSUME SoundInv, NEW d, TypedState(stored, d), d.accounts = db.accounts,
           NEW e \in Entries, e.type \notin AccountTypes \cup {"createObject"},
           Similar(stored, db, Undo(e, d)), LogsNumbered(d, Len(journal) + 1),
           Write(d, <<e>>)
    PROVE  Written
<1>1. Carries(stored, journal, db, Append(journal, e), d)
    BY DbTyped, OtherWritten
<1> QED
    BY <1>1, DbTyped, OneEntry DEF Written

LEMMA StoragePut ==
    ASSUME NEW c, IsState(c), NEW a, NEW s, NEW v, NEW y, y = [c EXCEPT !.storages[a][s] = v]
    PROVE  y = Fields(c.accounts, [c.storages EXCEPT ![a][s] = v], c.codes, c.suicides,
                      c.logs, c.logSize, c.refund, c.accessList)
BY DEF Fields, IsState

LEMMA SetStateWrites ==
    ASSUME SoundInv, NEW a \in Addresses, NEW s \in Slots, NEW v \in Values, SetState(a, s, v)
    PROVE  Written
<1> DEFINE old == SlotIn(stored, db, a, s)
           e == [type |-> "storage", account |-> a, key |-> s, prev |-> old]
           d == [db EXCEPT !.storages[a][s] = v]
<1>1. Write(d, <<e>>)
    BY InNewTerms DEF SetState, Change
<1>2. old \in Values
    BY DbTyped, ConstantsOK DEF SlotIn, SoundInv, StoredTyped, Stores, Slotted
<1>3. e \in Entries /\ e.type = "storage" /\ e.account = a /\ e.key = s /\ e.prev = old
    BY <1>2 DEF Entries
<1>4. d = Fields(db.accounts, [db.storages EXCEPT ![a][s] = v], db.codes, db.suicides,
                 db.logs, db.logSize, db.refund, db.accessList)
    BY DbTyped, StoragePut
<1> HIDE DEF d, e, old
<1>5. /\ d.accounts = db.accounts /\ d.codes = db.codes /\ d.suicides = db.suicides
      /\ d.logs = db.logs /\ d.logSize = db.logSize /\ d.refund = db.refund
      /\ d.accessList = db.accessList /\ IsState(d)
      /\ d.storages = [db.storages EXCEPT ![a][s] = v]
    BY <1>4 DEF Fields, IsState
<1>6. d.storages \in Slotted
    BY <1>5, DbTyped DEF Slotted
<1>7. TypedState(stored, d)
    BY <1>5, <1>6, DbTyped DEF TypedState
<1>8. /\ \A b \in Addresses, t \in Slots :
            ~ (b = a /\ t = s) => SlotIn(stored, d, b, t) = SlotIn(stored, db, b, t)
    BY <1>5, DbTyped DEF Slotted, SlotIn
<1>9. \A b \in Addresses, t \in Slots : SlotIn(stored, db, b, t) = SlotIn(stored, Undo(e, d), b, t)
    BY <1>3, <1>7, <1>8, UndoneSlot DEF old
<1>10. /\ Undo(e, d).suicides = db.suicides /\ Undo(e, d).logs = db.logs
       /\ Undo(e, d).logSize = db.logSize /\ Undo(e, d).refund = db.refund
    <2>1. /\ Undo(e, d).suicides = EarlierSuicides(e, d.suicides)
          /\ Undo(e, d).logs = EarlierLogs(e, d.logs)
          /\ Undo(e, d).logSize = EarlierLogSize(e, d.logSize)
          /\ Undo(e, d).refund = EarlierRefund(e, d.refund)
        BY <1>3, <1>5, UndoParts
    <2> QED BY <1>3, <1>5, <2>1 DEF EarlierSuicides, EarlierLogs, EarlierLogSize, EarlierRefund
<1>11. Similar(stored, db, Undo(e, d))
    BY <1>9, <1>10 DEF Similar
<1>12. LogsNumbered(d, Len(journal) + 1)
    BY <1>5, DbTyped, SameLogs
<1>13. e.type \notin AccountTypes \cup {"createObject"}
    BY <1>3 DEF AccountTypes
<1> QED
    BY <1>1, <1>3, <1>5, <1>7, <1>11, <1>12, <1>13, OtherWrites

LEMMA RefundWrites ==
    ASSUME SoundInv, NEW refund \in 0..MaxRefund,
           Write([db EXCEPT !.refund = refund], <<RefundChange>>)
    PROVE  Written
<1> DEFINE e == RefundChange
           d == [db EXCEPT !.refund = refund]
<1>1. e \in Entries /\ e.type = "refund" /\ e.prev = db.refund
    BY DbTyped DEF Entries, RefundChange
<1>2. d = Fields(db.accounts, db.storages, db.codes, db.suicides,
                 db.logs, db.logSize, refund, db.accessList)
    BY DbTyped DEF Fields, IsState
<1>3. Write(d, <<e>>)
    OBVIOUS
<1> HIDE DEF d, e
<1>5. /\ d.accounts = db.accounts /\ d.codes = db.codes /\ d.suicides = db.suicides
      /\ d.logs = db.logs /\ d.logSize = db.logSize /\ d.refund = refund
      /\ d.accessList = db.accessList /\ IsState(d)
      /\ d.storages = db.storages
    BY <1>2 DEF Fields, IsState
<1>7. TypedState(stored, d)
    BY <1>5, DbTyped DEF TypedState
<1>8. \A b \in Addresses, t \in Slots : SlotIn(stored, db, b, t) = SlotIn(stored, Undo(e, d), b, t)
    <2>1. \A b \in Addresses, t \in Slots : SlotIn(stored, d, b, t) = SlotIn(stored, Undo(e, d), b, t)
        BY <1>1, <1>7, UndoneSlot
    <2> QED BY <1>5, <2>1 DEF SlotIn
<1>10. /\ Undo(e, d).suicides = db.suicides /\ Undo(e, d).logs = db.logs
       /\ Undo(e, d).logSize = db.logSize /\ Undo(e, d).refund = db.refund
    <2>1. /\ Undo(e, d).suicides = EarlierSuicides(e, d.suicides)
          /\ Undo(e, d).logs = EarlierLogs(e, d.logs)
          /\ Undo(e, d).logSize = EarlierLogSize(e, d.logSize)
          /\ Undo(e, d).refund = EarlierRefund(e, d.refund)
        BY <1>1, <1>5, UndoParts
    <2> QED BY <1>1, <1>5, <2>1 DEF EarlierSuicides, EarlierLogs, EarlierLogSize, EarlierRefund
<1>11. Similar(stored, db, Undo(e, d))
    BY <1>8, <1>10 DEF Similar
<1>12. LogsNumbered(d, Len(journal) + 1)
    BY <1>5, DbTyped, SameLogs
<1>13. e.type \notin AccountTypes \cup {"createObject"}
    BY <1>1 DEF AccountTypes
<1> QED
    BY <1>1, <1>3, <1>5, <1>7, <1>11, <1>12, <1>13, OtherWrites

LEMMA RefundsWrite ==
    ASSUME SoundInv, NEW gas \in 1..MaxRefund
    PROVE  AddRefund(gas) \/ SubRefund(gas) => Written
<1>1. db.refund \in 0..MaxRefund /\ MaxRefund \in Nat
    BY DbTyped, ConstantsOK
<1>2. ASSUME AddRefund(gas) PROVE Written
    <2>1. db.refund + gas \in 0..MaxRefund
        BY <1>1, <1>2 DEF AddRefund
    <2>2. Write([db EXCEPT !.refund = db.refund + gas], <<RefundChange>>)
        BY <1>2 DEF AddRefund, Change
    <2> QED BY <2>1, <2>2, RefundWrites
<1>3. ASSUME SubRefund(gas) PROVE Written
    <2> DEFINE refund == IF gas > db.refund THEN 0 ELSE db.refund - gas
    <2>1. refund \in 0..MaxRefund
        BY <1>1
    <2>2. Write([db EXCEPT !.refund = refund], <<RefundChange>>)
        BY <1>3 DEF SubRefund, Change
    <2> HIDE DEF refund
    <2> QED BY <2>1, <2>2, RefundWrites
<1> QED
    BY <1>2, <1>3

(***************************************************************************)
(* A log is added with the index logSize, under the hash of the moment,    *)
(* and undone by taking the last one under that hash.                      *)
(***************************************************************************)
LEMMA LogAdded ==
    ASSUME NEW x, NEW j \in Nat, LogsNumbered(x, j), NEW t \in Txs \cup {None}, NEW y,
           y.logs \in [Txs \cup {None} -> Seq(Nat)],
           y.logs[t] = Append(x.logs[t], x.logSize),
           \A u \in Txs \cup {None} : u # t => y.logs[u] = x.logs[u],
           y.logSize = x.logSize + 1
    PROVE  LogsNumbered(y, j + 1)
<1> DEFINE n == x.logSize
           l == x.logs[t]
<1>1. /\ l \in Seq(Nat) /\ n \in Nat /\ n <= j /\ Len(l) \in Nat
    BY DEF LogsNumbered
<1>2. /\ Len(y.logs[t]) = Len(l) + 1
      /\ y.logs[t][Len(l) + 1] = n
      /\ \A i \in 1..Len(l) : y.logs[t][i] = l[i]
    BY <1>1
<1>3. /\ \A u \in Txs \cup {None} : \A i \in 1..Len(x.logs[u]) :
            /\ i \in 1..Len(y.logs[u]) /\ y.logs[u][i] = x.logs[u][i]
            /\ x.logs[u][i] \in Nat /\ x.logs[u][i] < n
    <2> SUFFICES ASSUME NEW u \in Txs \cup {None}, NEW i \in 1..Len(x.logs[u])
                 PROVE  /\ i \in 1..Len(y.logs[u]) /\ y.logs[u][i] = x.logs[u][i]
                        /\ x.logs[u][i] \in Nat /\ x.logs[u][i] < n
        OBVIOUS
    <2>1. x.logs[u] \in Seq(Nat) /\ x.logs[u][i] < n
        BY DEF LogsNumbered
    <2>2. x.logs[u][i] \in Nat
        BY <2>1, ElementOfSeq
    <2>3. CASE u = t
        <3>1. i \in 1..Len(l) /\ i \in 1..(Len(l) + 1)
            BY <1>1, <2>3
        <3>2. i \in 1..Len(y.logs[u]) /\ y.logs[u][i] = l[i]
            BY <1>2, <2>3, <3>1
        <3> QED BY <2>1, <2>2, <2>3, <3>2
    <2>4. CASE u # t
        BY <2>1, <2>2, <2>4
    <2> QED BY <2>3, <2>4
<1>4. ASSUME NEW u \in Txs \cup {None}, NEW i \in 1..Len(y.logs[u])
      PROVE  \/ i \in 1..Len(x.logs[u]) /\ y.logs[u][i] = x.logs[u][i]
             \/ u = t /\ i = Len(l) + 1 /\ y.logs[u][i] = n
    <2>1. CASE u = t
        <3>1. i \in 1..(Len(l) + 1)
            BY <1>2, <2>1
        <3>2. CASE i = Len(l) + 1
            BY <1>2, <2>1, <3>2
        <3>3. CASE i # Len(l) + 1
            <4>1. i \in 1..Len(l)
                BY <1>1, <3>1, <3>3
            <4> QED BY <1>2, <2>1, <4>1
        <3> QED BY <3>2, <3>3
    <2>2. CASE u # t
        BY <2>2
    <2> QED BY <2>1, <2>2
<1>5. y.logSize \in 0..(j + 1)
    BY <1>1
<1>6. \A u \in Txs \cup {None} : \A i \in 1..Len(y.logs[u]) : y.logs[u][i] < y.logSize
    <2> SUFFICES ASSUME NEW u \in Txs \cup {None}, NEW i \in 1..Len(y.logs[u])
                 PROVE  y.logs[u][i] < n + 1
        OBVIOUS
    <2>1. CASE i \in 1..Len(x.logs[u]) /\ y.logs[u][i] = x.logs[u][i]
        <3>1. x.logs[u][i] \in Nat /\ x.logs[u][i] < n
            BY <1>3, <2>1
        <3> QED BY <1>1, <2>1, <3>1
    <2>2. CASE y.logs[u][i] = n
        BY <1>1, <2>2
    <2> QED BY <1>4, <2>1, <2>2
<1>7. ASSUME NEW k \in Nat, k < y.logSize
      PROVE  \E u \in Txs \cup {None} : \E i \in 1..Len(y.logs[u]) : y.logs[u][i] = k
    <2>1. CASE k = n
        <3>1. Len(l) + 1 \in 1..Len(y.logs[t]) /\ y.logs[t][Len(l) + 1] = k
            BY <1>1, <1>2, <2>1
        <3> QED BY <3>1
    <2>2. CASE k # n
        <3>1. k < n
            BY <1>1, <1>7, <2>2
        <3>2. PICK u \in Txs \cup {None} : \E i \in 1..Len(x.logs[u]) : x.logs[u][i] = k
            BY <3>1 DEF LogsNumbered
        <3> QED BY <1>3, <3>2
    <2> QED BY <2>1, <2>2
<1>8. ASSUME NEW u \in Txs \cup {None}, NEW v \in Txs \cup {None},
             NEW i \in 1..Len(y.logs[u]), NEW k \in 1..Len(y.logs[v]),
             y.logs[u][i] = y.logs[v][k]
      PROVE  u = v
    <2>1. CASE i \in 1..Len(x.logs[u]) /\ k \in 1..Len(x.logs[v])
        BY <1>3, <1>8, <2>1 DEF LogsNumbered
    <2>2. CASE ~ (i \in 1..Len(x.logs[u]))
        <3>1. u = t /\ y.logs[u][i] = n
            BY <1>4, <2>2
        <3>2. CASE k \in 1..Len(x.logs[v])
            <4>1. y.logs[v][k] \in Nat /\ y.logs[v][k] < n
                BY <1>3, <3>2
            <4> QED BY <1>1, <1>8, <3>1, <4>1
        <3>3. CASE ~ (k \in 1..Len(x.logs[v]))
            BY <1>4, <3>1, <3>3
        <3> QED BY <3>2, <3>3
    <2>3. CASE i \in 1..Len(x.logs[u]) /\ ~ (k \in 1..Len(x.logs[v]))
        <3>1. y.logs[v][k] = n
            BY <1>4, <2>3
        <3>2. y.logs[u][i] \in Nat /\ y.logs[u][i] < n
            BY <1>3, <2>3
        <3> QED BY <1>1, <1>8, <3>1, <3>2
    <2> QED BY <2>1, <2>2, <2>3
<1>9. ASSUME NEW u \in Txs \cup {None}, NEW i \in 1..Len(y.logs[u]), NEW k \in 1..Len(y.logs[u]),
             i < k
      PROVE  y.logs[u][i] < y.logs[u][k]
    <2>0. Len(x.logs[u]) \in Nat
        BY DEF LogsNumbered
    <2>1. CASE k \in 1..Len(x.logs[u])
        <3>1. i \in 1..Len(x.logs[u])
            BY <1>9, <2>0, <2>1
        <3> QED BY <1>3, <1>9, <2>1, <3>1 DEF LogsNumbered
    <2>2. CASE ~ (k \in 1..Len(x.logs[u]))
        <3>1. u = t /\ k = Len(l) + 1 /\ y.logs[u][k] = n
            BY <1>4, <2>2
        <3>2. i \in 1..Len(x.logs[u])
            BY <1>9, <2>0, <3>1
        <3> QED BY <1>3, <3>1, <3>2
    <2> QED BY <2>1, <2>2
<1> QED
    BY <1>5, <1>6, <1>7, <1>8, <1>9 DEF LogsNumbered

LEMMA LogPut ==
    ASSUME NEW c, IsState(c), NEW t, NEW l, NEW n, NEW y,
           y = [c EXCEPT !.logs[t] = l, !.logSize = n]
    PROVE  y = Fields(c.accounts, c.storages, c.codes, c.suicides, [c.logs EXCEPT ![t] = l], n,
                      c.refund, c.accessList)
BY DEF Fields, IsState

LEMMA FrontOfAppend ==
    ASSUME NEW S, NEW l \in Seq(S), NEW n \in S
    PROVE  Front(Append(l, n)) = l
BY DEF Front

LEMMA AddLogWrites ==
    ASSUME SoundInv, AddLog
    PROVE  Written
<1> DEFINE n == db.logSize
           t == thash
           l == Append(db.logs[t], n)
           e == [type |-> "addLog", txhash |-> t]
           d == [db EXCEPT !.logs[t] = l, !.logSize = n + 1]
<1>1. Write(d, <<e>>)
    BY DEF AddLog, Change
<1>2. t \in Txs \cup {None}
    BY DEF SoundInv
<1>3. e \in Entries /\ e.type = "addLog" /\ e.txhash = t
    BY <1>2 DEF Entries
<1>4. LogsNumbered(db, Len(journal)) /\ n \in Nat /\ db.logs \in [Txs \cup {None} -> Seq(Nat)]
      /\ Len(journal) \in Nat
    <2>1. LogsNumbered(db, Len(journal)) /\ Len(journal) \in Nat
        BY DbTyped
    <2>2. db.logSize \in 0..Len(journal) /\ db.logs \in [Txs \cup {None} -> Seq(Nat)]
        BY <2>1 DEF LogsNumbered
    <2> QED BY <2>1, <2>2
<1>5. d = Fields(db.accounts, db.storages, db.codes, db.suicides, [db.logs EXCEPT ![t] = l], n + 1,
                 db.refund, db.accessList)
    <2>1. IsState(db)
        BY DbTyped
    <2> HIDE DEF l, t, n
    <2>2. d = [db EXCEPT !.logs[t] = l, !.logSize = n + 1]
        OBVIOUS
    <2> HIDE DEF d
    <2> QED BY <2>1, <2>2, LogPut
<1> HIDE DEF d, e, l
<1>6. /\ d.accounts = db.accounts /\ d.codes = db.codes /\ d.suicides = db.suicides
      /\ d.logs = [db.logs EXCEPT ![t] = l] /\ d.logSize = n + 1 /\ d.refund = db.refund
      /\ d.accessList = db.accessList /\ IsState(d)
      /\ d.storages = db.storages
    BY <1>5 DEF Fields, IsState
<1>7. TypedState(stored, d)
    BY <1>6, DbTyped DEF TypedState
<1>8. l \in Seq(Nat) /\ l = Append(db.logs[t], n) /\ Front(l) = db.logs[t]
    BY <1>2, <1>4, FrontOfAppend DEF l
<1>9. /\ d.logs \in [Txs \cup {None} -> Seq(Nat)]
      /\ d.logs[t] = Append(db.logs[t], n)
      /\ \A u \in Txs \cup {None} : u # t => d.logs[u] = db.logs[u]
    BY <1>2, <1>4, <1>6, <1>8
<1>10. LogsNumbered(d, Len(journal) + 1)
    <2>1. d.logSize = db.logSize + 1
        BY <1>6
    <2> HIDE DEF n
    <2> QED BY <1>2, <1>4, <1>9, <2>1, LogAdded DEF n
<1>11. \A b \in Addresses, s \in Slots : SlotIn(stored, db, b, s) = SlotIn(stored, Undo(e, d), b, s)
    <2>1. \A b \in Addresses, s \in Slots : SlotIn(stored, d, b, s) = SlotIn(stored, Undo(e, d), b, s)
        BY <1>3, <1>7, UndoneSlot
    <2> QED BY <1>6, <2>1 DEF SlotIn
<1>12. /\ Undo(e, d).suicides = db.suicides /\ Undo(e, d).logs = db.logs
       /\ Undo(e, d).logSize = db.logSize /\ Undo(e, d).refund = db.refund
    <2>1. /\ Undo(e, d).suicides = EarlierSuicides(e, d.suicides)
          /\ Undo(e, d).logs = EarlierLogs(e, d.logs)
          /\ Undo(e, d).logSize = EarlierLogSize(e, d.logSize)
          /\ Undo(e, d).refund = EarlierRefund(e, d.refund)
        BY <1>3, <1>6, UndoParts
    <2>2. EarlierLogs(e, d.logs) = [d.logs EXCEPT ![t] = Front(@)]
        BY <1>3 DEF EarlierLogs
    <2>3. [d.logs EXCEPT ![t] = Front(@)] = db.logs
        <3>1. [d.logs EXCEPT ![t] = Front(@)] = [d.logs EXCEPT ![t] = db.logs[t]]
            BY <1>2, <1>4, <1>6, <1>8
        <3> QED BY <1>2, <1>4, <1>6, <3>1
    <2>4. EarlierLogSize(e, d.logSize) = n
        BY <1>3, <1>4, <1>6 DEF EarlierLogSize
    <2> QED BY <1>3, <1>6, <2>1, <2>2, <2>3, <2>4 DEF EarlierSuicides, EarlierRefund
<1>13. Similar(stored, db, Undo(e, d))
    BY <1>11, <1>12 DEF Similar
<1>14. e.type \notin AccountTypes \cup {"createObject"}
    BY <1>3 DEF AccountTypes
<1> QED
    BY <1>1, <1>3, <1>6, <1>7, <1>10, <1>13, <1>14, OtherWrites

(***************************************************************************)
(* The access list is changed; it is not part of what a caller sees here.  *)
(***************************************************************************)
OnlyAccessList(c, d) ==
    /\ d.accounts = c.accounts /\ d.storages = c.storages /\ d.codes = c.codes
    /\ d.suicides = c.suicides /\ d.logs = c.logs /\ d.logSize = c.logSize
    /\ d.refund = c.refund /\ IsState(d)
    /\ d.accessList \in [Addresses -> {Absent} \cup SUBSET Slots]

LEMMA AccessListPut ==
    ASSUME NEW c, IsState(c), NEW list \in [Addresses -> {Absent} \cup SUBSET Slots], NEW y,
           y = [c EXCEPT !.accessList = list]
    PROVE  OnlyAccessList(c, y)
<1>1. y = Fields(c.accounts, c.storages, c.codes, c.suicides, c.logs, c.logSize, c.refund, list)
    BY DEF Fields, IsState
<1> QED
    BY <1>1 DEF OnlyAccessList, Fields, IsState

LEMMA AccessListTyped ==
    ASSUME NEW st, NEW c, TypedState(st, c), NEW d, OnlyAccessList(c, d)
    PROVE  TypedState(st, d)
BY DEF TypedState, OnlyAccessList

LEMMA AccessCarries ==
    ASSUME NEW st, NEW q, NEW c, SoundJournal(st, q, c), NEW d, OnlyAccessList(c, d),
           NEW e \in Entries, e.type \in {"accessAddress", "accessSlot"}
    PROVE  Carries(st, q, c, Append(q, e), d)
<1>1. /\ TypedState(st, c) /\ Len(q) \in Nat /\ LogsNumbered(c, Len(q))
      /\ TypedState(st, d)
    <2>1. TypedState(st, c) /\ Len(q) \in Nat /\ LogsNumbered(c, Len(q))
        BY SoundNow
    <2> QED BY <2>1, AccessListTyped
<1>2. \A a \in Addresses, s \in Slots : SlotIn(st, c, a, s) = SlotIn(st, Undo(e, d), a, s)
    <2>1. \A a \in Addresses, s \in Slots : SlotIn(st, d, a, s) = SlotIn(st, Undo(e, d), a, s)
        BY <1>1, UndoneSlot
    <2> QED BY <2>1 DEF SlotIn, OnlyAccessList
<1>3. /\ Undo(e, d).suicides = c.suicides /\ Undo(e, d).logs = c.logs
      /\ Undo(e, d).logSize = c.logSize /\ Undo(e, d).refund = c.refund
    <2>1. /\ Undo(e, d).suicides = EarlierSuicides(e, d.suicides)
          /\ Undo(e, d).logs = EarlierLogs(e, d.logs)
          /\ Undo(e, d).logSize = EarlierLogSize(e, d.logSize)
          /\ Undo(e, d).refund = EarlierRefund(e, d.refund)
        BY UndoParts DEF OnlyAccessList
    <2> QED BY <2>1 DEF OnlyAccessList, EarlierSuicides, EarlierLogs, EarlierLogSize, EarlierRefund
<1>4. Similar(st, c, Undo(e, d))
    BY <1>2, <1>3 DEF Similar
<1>5. LogsNumbered(d, Len(q) + 1)
    BY <1>1, SameLogs DEF OnlyAccessList
<1>6. e.type \notin AccountTypes \cup {"createObject"}
    BY DEF AccountTypes
<1>7. d.accounts = c.accounts
    BY DEF OnlyAccessList
<1> QED
    BY <1>1, <1>4, <1>5, <1>6, <1>7, OtherWritten

LEMMA AddAddressWrites ==
    ASSUME SoundInv, NEW a \in Addresses, AddAddressToAccessList(a)
    PROVE  Written
<1> DEFINE e == [type |-> "accessAddress", account |-> a]
           list == [db.accessList EXCEPT ![a] = {}]
           d == [db EXCEPT !.accessList = list]
<1>1. Write(d, <<e>>)
    <2>1. d = [db EXCEPT !.accessList[a] = {}]
        BY DbTyped DEF IsState, Fields
    <2> QED BY <2>1 DEF AddAddressToAccessList, Change
<1>2. e \in Entries /\ e.type = "accessAddress"
    BY DEF Entries
<1>3. list \in [Addresses -> {Absent} \cup SUBSET Slots] /\ IsState(db)
    BY DbTyped
<1> HIDE DEF list, e
<1>4. OnlyAccessList(db, d)
    BY <1>3, AccessListPut
<1> HIDE DEF d
<1>5. Carries(stored, journal, db, Append(journal, e), d)
    BY <1>2, <1>4, DbTyped, AccessCarries
<1> QED
    BY <1>1, <1>5, DbTyped, OneEntry DEF Written

(***************************************************************************)
(* AddSlotToAccessList makes an entry for a slot that is new, and one for  *)
(* an address that is not new: none, one or two entries.                   *)
(***************************************************************************)
LEMMA AddSlotWrites ==
    ASSUME SoundInv, NEW a \in Addresses, NEW s \in Slots, AddSlotToAccessList(a, s)
    PROVE  Written
<1> DEFINE addr == [type |-> "accessAddress", account |-> a]
           slot == [type |-> "accessSlot", account |-> a, key |-> s]
           list == [db.accessList EXCEPT ![a] = SlotsOf(db, a) \cup {s}]
           d == [db EXCEPT !.accessList = list]
           addrMod == db.accessList[a] # Absent
           slotMod == s \notin SlotsOf(db, a)
           entries == (IF addrMod THEN <<addr>> ELSE <<>>) \o (IF slotMod THEN <<slot>> ELSE <<>>)
<1>1. Write(d, entries)
    <2>1. d = [db EXCEPT !.accessList[a] = SlotsOf(db, a) \cup {s}]
        BY DbTyped DEF IsState, Fields
    <2> QED BY <2>1 DEF AddSlotToAccessList, Change
<1>2. addr \in Entries /\ addr.type = "accessAddress"
    BY DEF Entries
<1>3. slot \in Entries /\ slot.type = "accessSlot"
    BY DEF Entries
<1>4. list \in [Addresses -> {Absent} \cup SUBSET Slots] /\ IsState(db)
    BY DbTyped DEF SlotsOf
<1> HIDE DEF list, addr, slot
<1>5. OnlyAccessList(db, d)
    BY <1>4, AccessListPut
<1> HIDE DEF d
<1>6. addrMod \/ slotMod
    BY DEF SlotsOf
<1>7. CASE ~ slotMod
    <2>1. entries = <<addr>>
        BY <1>6, <1>7
    <2>2. Write(d, <<addr>>)
        BY <1>1, <2>1
    <2>3. Carries(stored, journal, db, Append(journal, addr), d)
        BY <1>2, <1>5, DbTyped, AccessCarries
    <2> QED BY <2>2, <2>3, DbTyped, OneEntry DEF Written
<1>8. CASE ~ addrMod
    <2>1. entries = <<slot>>
        BY <1>6, <1>8
    <2>2. Write(d, <<slot>>)
        BY <1>1, <2>1
    <2>3. Carries(stored, journal, db, Append(journal, slot), d)
        BY <1>3, <1>5, DbTyped, AccessCarries
    <2> QED BY <2>2, <2>3, DbTyped, OneEntry DEF Written
<1>9. CASE addrMod /\ slotMod
    <2> DEFINE q == Append(journal, addr)
               r == Append(q, slot)
    <2>1. entries = <<addr>> \o <<slot>>
        BY <1>9
    <2>2. /\ <<addr>> \in Seq(Entries) /\ Len(<<addr>>) = 1
          /\ <<slot>> \in Seq(Entries) /\ Len(<<slot>>) = 1
        BY <1>2, <1>3
    <2> HIDE DEF entries
    <2>3. journal \in Seq(Entries) /\ Len(journal) \in Nat
        BY DbTyped
    <2>4. /\ q \in Seq(Entries) /\ Len(q) = Len(journal) + 1
          /\ r \in Seq(Entries) /\ Len(r) = Len(journal) + 2
        BY <1>2, <1>3, <2>3
    <2>5. journal' = r
        <3>1. q = journal \o <<addr>> /\ r = q \o <<slot>>
            BY <1>2, <1>3, <2>3, <2>4, AppendIsConcat
        <3>2. (journal \o <<addr>>) \o <<slot>> = journal \o (<<addr>> \o <<slot>>)
            BY <2>2, <2>3, ConcatAssociative
        <3> QED BY <1>1, <2>1, <3>1, <3>2 DEF Write
    <2>6. Carries(stored, journal, db, q, d)
        BY <1>2, <1>5, DbTyped, AccessCarries
    <2>7. SoundJournal(stored, q, d)
        BY <2>6 DEF Carries
    <2>8. OnlyAccessList(d, d)
        BY <1>5 DEF OnlyAccessList
    <2> HIDE DEF q, r
    <2>9. Carries(stored, q, d, r, d)
        BY <1>3, <2>7, <2>8, AccessCarries DEF r
    <2>10. Carries(stored, journal, db, r, d)
        BY <2>3, <2>4, <2>6, <2>9, CarriesTwice
    <2>11. Len(journal) <= Len(r) /\ Len(r) <= MaxJournal
        <3>1. Len(entries) = 2
            BY <2>1, <2>2, ConcatProperties
        <3> QED BY <1>1, <2>3, <2>4, <3>1 DEF Write
    <2>12. db' = d /\ UNCHANGED <<stored, committed, validRevisions, nextRevisionID, tx, snapshots>>
        BY <1>1 DEF Write
    <2> QED BY <2>5, <2>10, <2>11, <2>12 DEF Written
<1> QED
    BY <1>6, <1>7, <1>8, <1>9

(***************************************************************************)
(* Reading an account loads it and makes no entry.                         *)
(***************************************************************************)
LEMMA LoadedPut ==
    ASSUME NEW c, IsState(c), NEW a, NEW acc, NEW y, y = [c EXCEPT !.accounts[a] = acc]
    PROVE  y = AccountPut(c, a, acc, c.codes, c.suicides)
BY DEF AccountPut, IsState, Fields

LEMMA ReadAccountWrites ==
    ASSUME SoundInv, NEW a \in Addresses, ReadAccount(a)
    PROVE  Written
<1> DEFINE acc == stored.accounts[a]
           d == [db EXCEPT !.accounts[a] = acc]
<1>1. db.accounts[a] = Absent /\ acc # Absent /\ Write(d, <<>>)
    BY DEF ReadAccount, Loaded
<1>2. acc \in Account /\ acc.code \in {None} \cup db.codes \cup stored.codes
    BY <1>1 DEF SoundInv, StoredTyped, Stores, CodesKnown
<1>3. d = AccountPut(db, a, acc, db.codes, db.suicides)
    BY DbTyped, LoadedPut
<1> HIDE DEF d, acc
<1>4. TypedState(stored, d) /\ OnlyAccount(db, d, a, acc, db.suicides)
    BY <1>2, <1>3, DbTyped, PutTyped
<1>5. \A b \in Addresses : AccountIn(stored, d, b) = AccountIn(stored, db, b)
    BY <1>1, <1>4 DEF OnlyAccount, AccountIn, acc
<1>6. \A b \in Addresses : db.accounts[b] # Absent => d.accounts[b] # Absent
    BY <1>1, <1>4 DEF OnlyAccount
<1>7. Similar(stored, db, d)
    BY <1>4 DEF OnlyAccount, Similar, SlotIn
<1>8. Carries(stored, journal, db, journal, d)
    BY <1>4, <1>5, <1>6, <1>7, DbTyped, NothingWritten
<1>9. journal' = journal
    <2>1. journal' = journal \o <<>> /\ journal \in Seq(Entries)
        BY <1>1, DbTyped DEF Write
    <2> QED BY <2>1, ConcatEmptySeq
<1>10. db' = d /\ UNCHANGED <<stored, committed, validRevisions, nextRevisionID, tx, snapshots>>
    BY <1>1 DEF Write
<1>11. Len(journal) <= Len(journal) /\ Len(journal) <= MaxJournal
    BY DbTyped DEF SoundInv
<1> QED
    BY <1>8, <1>9, <1>10, <1>11 DEF Written

(***************************************************************************)
(* Prepare changes the access list and loads accounts, without an entry.   *)
(***************************************************************************)
LEMMA PrepareCarries ==
    ASSUME SoundInv, NEW accesses \in TxAccesses, Prepare(accesses[1], accesses[2])
    PROVE  /\ Carries(stored, journal, db, journal, db')
           /\ accesses[1] \subseteq Addresses
<1> DEFINE addrs == accesses[1]
           slots == accesses[2]
           list == [a \in Addresses |->
                       IF a \in addrs THEN SlotsOf(db, a) \cup {s \in Slots : <<a, s>> \in slots}
                       ELSE db.accessList[a]]
           d == [db EXCEPT !.accessList = list]
<1>1. addrs \subseteq Addresses
    BY ConstantsOK
<1>2. db' = d
    BY DbTyped DEF Prepare, IsState, Fields
<1>3. list \in [Addresses -> {Absent} \cup SUBSET Slots] /\ IsState(db)
    BY DbTyped DEF SlotsOf
<1> HIDE DEF list
<1>4. OnlyAccessList(db, d)
    BY <1>3, AccessListPut
<1> HIDE DEF d
<1>5. TypedState(stored, d)
    BY <1>4, DbTyped, AccessListTyped
<1>6. Similar(stored, db, d)
    BY <1>4 DEF OnlyAccessList, Similar, SlotIn
<1>7. /\ \A b \in Addresses : AccountIn(stored, d, b) = AccountIn(stored, db, b)
      /\ \A b \in Addresses : db.accounts[b] # Absent => d.accounts[b] # Absent
    BY <1>4 DEF OnlyAccessList, AccountIn
<1>8. Carries(stored, journal, db, journal, d)
    BY <1>5, <1>6, <1>7, DbTyped, NothingWritten
<1> QED
    BY <1>1, <1>2, <1>8

(***************************************************************************)
(* A new state DB, in Init and after Commit, has an empty journal.         *)
(***************************************************************************)
LEMMA UndoneNothing ==
    ASSUME NEW d
    PROVE  <<>> \in Seq(Entries) /\ Len(<<>>) = 0 /\ Undone(<<>>, d, 0) = d
<1>1. <<>> \in Seq(Entries) /\ Len(<<>>) = 0
    OBVIOUS
<1>2. Undone(<<>>, d, Len(<<>>)) = d
    <2> DEFINE q == <<>>
    <2>1. Len(q) \in Nat
        OBVIOUS
    <2> HIDE DEF q
    <2>2. Undone(q, d, Len(q)) = d
        BY <2>1, UndoneSteps
    <2> QED BY <2>2 DEF q
<1> QED
    BY <1>1, <1>2

LEMMA NewStateExact ==
    ASSUME NEW st
    PROVE  ExactJournal(st, <<>>, NewPikaStateDB, 0)
<1> DEFINE d == NewPikaStateDB
<1>1. /\ d.accounts = [a \in Addresses |-> Absent]
      /\ d.storages = [a \in Addresses |-> [s \in Slots |-> Absent]]
      /\ d.codes = {} /\ d.suicides = {} /\ d.logSize = 0 /\ d.refund = 0
      /\ d.logs = [t \in Txs \cup {None} |-> <<>>]
      /\ d.accessList = [a \in Addresses |-> Absent]
      /\ IsState(d)
    BY DEF NewPikaStateDB, IsState, Fields
<1> HIDE DEF d
<1>2. TypedState(st, d)
    BY <1>1, ConstantsOK DEF TypedState, Slotted, CodesKnown
<1>3. LogsNumbered(d, 0)
    <2>1. \A t \in Txs \cup {None} : d.logs[t] = <<>>
        BY <1>1
    <2>2. \A t \in Txs \cup {None} : \A i \in 1..Len(d.logs[t]) : FALSE
        BY <2>1
    <2>3. d.logs \in [Txs \cup {None} -> Seq(Nat)]
        BY <1>1
    <2> QED BY <1>1, <2>2, <2>3 DEF LogsNumbered
<1>4. AccountsKept(st, {}, d)
    <2>1. \A a \in Addresses : AccountIn(st, d, a) = StoredAccount(st, a)
        BY <1>1 DEF AccountIn, StoredAccount
    <2> QED BY <2>1 DEF AccountsKept
<1>5. Touched(<<>>, 0, 0) = {}
    BY DEF Touched
<1>6. CreatedFirst(<<>>, 0)
    BY DEF CreatedFirst
<1>7. /\ <<>> \in Seq(Entries)
      /\ \A j \in 0..Len(<<>>) : j = 0 /\ Undone(<<>>, d, j) = d
    BY UndoneNothing
<1> HIDE DEF d
<1>8. SoundJournal(st, <<>>, d)
    BY <1>2, <1>3, <1>7 DEF SoundJournal
<1>9. ExactJournal(st, <<>>, d, 0)
    BY <1>4, <1>5, <1>6, <1>7, <1>8 DEF ExactJournal
<1> QED
    BY <1>9 DEF d

LEMMA InitSound == Init => SoundInv
<1> SUFFICES ASSUME Init PROVE SoundInv
    OBVIOUS
<1>1. /\ stored.accounts = StoredAccounts /\ stored.storages = StoredSlots
      /\ stored.codes = {StoredAccounts[a].code : a \in {b \in Addresses : StoredAccounts[b] # Absent}}
      /\ stored = [accounts |-> stored.accounts, storages |-> stored.storages, codes |-> stored.codes]
    BY DEF Init
<1>2. \A a \in Addresses : StoredAccounts[a] # Absent =>
          StoredAccounts[a].code \in stored.codes /\ StoredAccounts[a].code \in Codes \cup {None}
    BY <1>1, ConstantsOK DEF Account
<1>3. stored.codes \subseteq Codes \cup {None}
    BY <1>1, <1>2
<1>4. StoredTyped(stored)
    BY <1>1, <1>2, <1>3, ConstantsOK DEF StoredTyped, Stores, Slotted, CodesKnown
<1>5. SoundJournal(stored, journal, db)
    BY NewStateExact DEF Init, ExactJournal
<1>6. Len(journal) <= MaxJournal /\ nextRevisionID <= MaxRevisions
    BY ConstantsOK DEF Init
<1>7. pending \in Seq(Txs)
    BY ConstantsOK DEF Init, Txs
<1>8. committed \in BOOLEAN /\ thash \in Txs \cup {None} /\ prepared \subseteq Addresses
    BY DEF Init
<1>9. txStart \in 0..nextRevisionID
    BY DEF Init
<1> QED
    BY <1>4, <1>5, <1>6, <1>7, <1>8, <1>9, InitInv DEF SoundInv

(***************************************************************************)
(* Whatever only changes the state and the journal, soundly, keeps the     *)
(* invariant.                                                              *)
(***************************************************************************)
LEMMA JournalChangedSound ==
    ASSUME SoundInv, Inv', SoundJournal(stored, journal', db'), Len(journal') <= MaxJournal,
           UNCHANGED <<stored, committed, validRevisions, nextRevisionID, tx, snapshots>>
    PROVE  SoundInv'
BY DEF SoundInv, tx

LEMMA WrittenSound ==
    ASSUME SoundInv, Inv', Written
    PROVE  SoundInv'
BY JournalChangedSound DEF Written, Carries

LEMMA SnapshotSound == SoundInv /\ Snapshot => SoundInv'
<1> SUFFICES ASSUME SoundInv, Snapshot PROVE SoundInv'
    OBVIOUS
<1>1. Inv'
    BY SnapshotInv DEF SoundInv
<1>2. nextRevisionID \in Nat /\ nextRevisionID < MaxRevisions /\ nextRevisionID' = nextRevisionID + 1
      /\ MaxRevisions \in Nat
    BY ConstantsOK DEF SoundInv, Inv, Snapshot
<1>3. nextRevisionID' <= MaxRevisions /\ 0..nextRevisionID \subseteq 0..nextRevisionID'
    BY <1>2
<1>4. UNCHANGED <<stored, committed, db, journal, thash, pending, prepared, txStart>>
    BY DEF Snapshot, tx
<1> QED
    BY <1>1, <1>3, <1>4 DEF SoundInv

(***************************************************************************)
(* RevertToSnapshot undoes the journal down to where the revision points.  *)
(***************************************************************************)
LEMMA Reverted ==
    ASSUME SoundInv, NEW i \in 1..Len(validRevisions), RevertToSnapshot(i)
    PROVE  LET n == validRevisions[i].journalIndex
           IN  /\ n \in 0..Len(journal)
               /\ db' = Undone(journal, db, n)
               /\ journal' = SubSeq(journal, 1, n)
               /\ Len(journal') = n
               /\ UNCHANGED <<stored, committed, nextRevisionID, thash, pending, prepared, txStart>>
<1> DEFINE n == validRevisions[i].journalIndex
<1>1. n \in Nat /\ n <= Len(journal) /\ Len(journal) \in Nat
    BY RevisionTyped, JournalLength DEF SoundInv, Inv, RevisionsOrdered
<1>2. n \in 0..Len(journal)
    BY <1>1
<1>3. db' = Undone(journal, db, n) /\ journal' = SubSeq(journal, 1, n)
    BY UndoToIsUndone DEF RevertToSnapshot
<1>4. Len(journal') = n
    BY <1>2, <1>3, DbTyped, Prefix
<1> QED
    BY <1>2, <1>3, <1>4 DEF RevertToSnapshot, tx

LEMMA RevertSound ==
    ASSUME SoundInv, NEW i \in 1..Len(validRevisions), RevertToSnapshot(i)
    PROVE  SoundInv'
<1> DEFINE n == validRevisions[i].journalIndex
<1>1. Inv'
    BY RevertInv DEF SoundInv
<1>2. /\ n \in 0..Len(journal) /\ db' = Undone(journal, db, n) /\ journal' = SubSeq(journal, 1, n)
      /\ Len(journal') = n
      /\ UNCHANGED <<stored, committed, nextRevisionID, thash, pending, prepared, txStart>>
    BY Reverted
<1>3. SoundJournal(stored, journal', db')
    BY <1>2, SoundCut DEF SoundInv
<1>4. Len(journal') <= MaxJournal
    BY <1>2, DbTyped, ConstantsOK DEF SoundInv
<1> QED
    BY <1>1, <1>2, <1>3, <1>4 DEF SoundInv

LEMMA BetweenSound == SoundInv /\ SetTxContext => SoundInv'
<1> SUFFICES ASSUME SoundInv, SetTxContext PROVE SoundInv'
    OBVIOUS
<1>1. Inv'
    BY BetweenInv DEF SoundInv, SetTxContext
<1>2. thash' \in Txs /\ pending' \in Seq(Txs)
    BY DEF SetTxContext, SoundInv
<1>3. txStart' \in 0..nextRevisionID' /\ prepared' \subseteq Addresses
    BY DEF SetTxContext, SoundInv, Inv
<1> QED
    BY <1>1, <1>2, <1>3 DEF SoundInv, SetTxContext

LEMMA PrepareSound ==
    ASSUME SoundInv, NEW accesses \in TxAccesses, Prepare(accesses[1], accesses[2])
    PROVE  SoundInv'
<1>1. Inv'
    BY BetweenInv DEF SoundInv, Prepare
<1>2. SoundJournal(stored, journal, db') /\ accesses[1] \subseteq Addresses
    BY PrepareCarries DEF Carries
<1>3. /\ UNCHANGED <<stored, committed, journal, nextRevisionID, pending, txStart>>
      /\ thash' = None /\ prepared' = accesses[1]
    BY DEF Prepare
<1> QED
    BY <1>1, <1>2, <1>3 DEF SoundInv

(***************************************************************************)
(* Commit stores what is in memory, and a code is stored with every        *)
(* account that has it.                                                    *)
(***************************************************************************)
LEMMA CommitSound == SoundInv /\ Commit => SoundInv'
<1> SUFFICES ASSUME SoundInv, Commit PROVE SoundInv'
    OBVIOUS
<1>1. Inv'
    BY CommitInv DEF SoundInv
<1>2. /\ stored' = [accounts |-> db.accounts, storages |-> db.storages, codes |-> stored.codes \cup db.codes]
      /\ stored'.accounts = db.accounts /\ stored'.storages = db.storages
      /\ stored'.codes = stored.codes \cup db.codes
    BY DEF Commit
<1>3. stored.codes \subseteq Codes \cup {None}
    BY DEF SoundInv, StoredTyped, Stores
<1>4. stored' \in Stores
    BY <1>2, <1>3, DbTyped DEF Stores
<1>5. CodesKnown(stored, db.accounts, db.codes)
    BY DbTyped DEF TypedState
<1>6. StoredTyped(stored')
    BY <1>2, <1>4, <1>5 DEF StoredTyped, CodesKnown
<1>7. SoundJournal(stored', journal', db')
    BY NewStateExact DEF Commit, ExactJournal
<1>8. Len(journal') <= MaxJournal /\ nextRevisionID' <= MaxRevisions /\ txStart' \in 0..nextRevisionID'
    BY ConstantsOK DEF Commit
<1>9. committed' \in BOOLEAN /\ thash' \in Txs \cup {None} /\ pending' \in Seq(Txs) /\ prepared' \subseteq Addresses
    BY DEF Commit, SoundInv
<1> QED
    BY <1>1, <1>6, <1>7, <1>8, <1>9 DEF SoundInv

LEMMA NextSound == SoundInv /\ [Next]_vars => SoundInv'
<1> SUFFICES ASSUME SoundInv, [Next]_vars PROVE SoundInv'
    OBVIOUS
<1>0. Inv
    BY DEF SoundInv
<1>1. ASSUME NEW a \in Addresses PROVE
          /\ ReadAccount(a) \/ CreateAccount(a) \/ AddBalance(a, 1) => SoundInv'
          /\ SetNonce(a) \/ Suicide(a) \/ AddAddressToAccessList(a) => SoundInv'
          /\ \A c \in Codes : SetCode(a, c) => SoundInv'
          /\ \A s \in Slots, v \in Values : SetState(a, s, v) => SoundInv'
          /\ \A s \in Slots : AddSlotToAccessList(a, s) => SoundInv'
    <2>1. ReadAccount(a) \/ CreateAccount(a) \/ AddBalance(a, 1) => Inv' /\ Written
        BY <1>0, ChangesInv, ReadAccountWrites, CreateAccountWrites, AddBalanceWrites
    <2>2. SetNonce(a) \/ Suicide(a) \/ AddAddressToAccessList(a) => Inv' /\ Written
        BY <1>0, ChangesInv, SetNonceWrites, SuicideWrites, AddAddressWrites
    <2>3. \A c \in Codes : SetCode(a, c) => Inv' /\ Written
        BY <1>0, ChangesInv, SetCodeWrites
    <2>4. \A s \in Slots, v \in Values : SetState(a, s, v) => Inv' /\ Written
        BY <1>0, ChangesInv, SetStateWrites
    <2>5. \A s \in Slots : AddSlotToAccessList(a, s) => Inv' /\ Written
        BY <1>0, ChangesInv, AddSlotWrites
    <2> QED BY <2>1, <2>2, <2>3, <2>4, <2>5, WrittenSound
<1>2. ASSUME NEW a \in Addresses, SubBalance(a, 1) PROVE SoundInv'
    BY <1>0, <1>2, ChangesInv, SubBalanceWrites, JournalChangedSound
<1>3. CASE AddLog
    BY <1>0, <1>3, LogAndRefundInv, AddLogWrites, WrittenSound
<1>4. ASSUME NEW gas \in 1..MaxRefund, AddRefund(gas) \/ SubRefund(gas) PROVE SoundInv'
    BY <1>0, <1>4, LogAndRefundInv, RefundsWrite, WrittenSound
<1>5. CASE Snapshot
    BY <1>5, SnapshotSound
<1>6. ASSUME NEW i \in 1..Len(validRevisions), RevertToSnapshot(i) PROVE SoundInv'
    BY <1>6, RevertSound
<1>7. CASE SetTxContext
    BY <1>7, BetweenSound
<1>8. ASSUME NEW accesses \in TxAccesses, Prepare(accesses[1], accesses[2]) PROVE SoundInv'
    BY <1>8, PrepareSound
<1>9. CASE Commit
    BY <1>9, CommitSound
<1>10. CASE UNCHANGED vars
    BY <1>0, <1>10, BetweenInv DEF vars, tx, SoundInv
<1> QED
    BY <1>1, <1>2, <1>3, <1>4, <1>5, <1>6, <1>7, <1>8, <1>9, <1>10 DEF Next

LEMMA AlwaysSound == Spec => []SoundInv
BY InitSound, NextSound, PTL DEF Spec

(***************************************************************************)
(* A sequence of numbers up to m.                                          *)
(***************************************************************************)
LEMMA SmallNumbers ==
    ASSUME NEW l \in Seq(Nat), NEW m \in Nat, \A i \in 1..Len(l) : l[i] <= m
    PROVE  l \in Seq(0..m)
<1>1. \A i \in 1..Len(l) : l[i] \in 0..m
    <2>1. \A i \in 1..Len(l) : l[i] \in Nat
        BY ElementOfSeq
    <2> QED BY <2>1
<1> QED
    BY <1>1

LEMMA SoundTypes == SoundInv => TypeOK
<1> SUFFICES ASSUME SoundInv PROVE TypeOK
    OBVIOUS
<1>1. LogsNumbered(db, Len(journal)) /\ Len(journal) \in Nat /\ Len(journal) <= MaxJournal /\ MaxJournal \in Nat
    BY DbTyped, ConstantsOK DEF SoundInv
<1>2. db.logSize \in 0..MaxJournal
    BY <1>1 DEF LogsNumbered
<1>3. ASSUME NEW t \in Txs \cup {None} PROVE db.logs[t] \in Seq(0..MaxJournal)
    <2>1. db.logs[t] \in Seq(Nat) /\ \A i \in 1..Len(db.logs[t]) : db.logs[t][i] < db.logSize
        BY <1>1 DEF LogsNumbered
    <2>2. \A i \in 1..Len(db.logs[t]) : db.logs[t][i] \in Nat
        BY <2>1, ElementOfSeq
    <2>3. \A i \in 1..Len(db.logs[t]) : db.logs[t][i] <= MaxJournal
        BY <1>1, <1>2, <2>1, <2>2
    <2> QED BY <1>1, <2>1, <2>3, SmallNumbers
<1>4. db.logs \in [Txs \cup {None} -> Seq(0..MaxJournal)]
    <2>1. db.logs \in [Txs \cup {None} -> Seq(Nat)]
        BY <1>1 DEF LogsNumbered
    <2> QED BY <1>3, <2>1
<1>5. db \in DBs
    BY <1>2, <1>4, DbTyped DEF DBs, IsState, Fields
<1>6. ASSUME NEW i \in 1..Len(validRevisions)
      PROVE  validRevisions[i] \in [id : 0..MaxRevisions, journalIndex : 0..MaxJournal]
    <2>1. /\ validRevisions[i] \in [id : Nat, journalIndex : Nat]
          /\ validRevisions[i].id \in Nat /\ validRevisions[i].journalIndex \in Nat
        BY RevisionTyped DEF SoundInv
    <2>2. /\ validRevisions[i].id < nextRevisionID /\ nextRevisionID <= MaxRevisions
          /\ nextRevisionID \in Nat /\ MaxRevisions \in Nat
          /\ validRevisions[i].journalIndex <= Len(journal)
        BY ConstantsOK DEF SoundInv, Inv, RevisionsOrdered
    <2>3. validRevisions[i].id \in 0..MaxRevisions /\ validRevisions[i].journalIndex \in 0..MaxJournal
        BY <1>1, <2>1, <2>2
    <2> QED BY <2>1, <2>3
<1>7. nextRevisionID \in 0..MaxRevisions
    BY ConstantsOK DEF SoundInv, Inv
<1> QED
    BY <1>5, <1>6, <1>7 DEF TypeOK, SoundInv, StoredTyped

(***************************************************************************)
(* Every variable has its type in every state, through any number of       *)
(* reverts and blocks: undoing an entry restores a value of the right      *)
(* kind, never finds an account, a hash or a slot it does not know, and    *)
(* never a log to take away where there is none.                           *)
(***************************************************************************)
THEOREM TypeCorrect == Spec => []TypeOK
BY AlwaysSound, SoundTypes, PTL

LEMMA NumberedIndexes == SoundInv => LogIndexes
<1> SUFFICES ASSUME SoundInv PROVE LogIndexes
    OBVIOUS
<1> DEFINE Indexes(t) == {db.logs[t][i] : i \in 1..Len(db.logs[t])}
           Hashes(n) == {t \in Txs \cup {None} : n \in Indexes(t)}
<1>1. LogsNumbered(db, Len(journal))
    BY DbTyped
<1>2. ASSUME NEW n \in 0..MaxJournal
      PROVE  Cardinality(Hashes(n)) = IF n < db.logSize THEN 1 ELSE 0
    <2>1. n \in Nat /\ db.logSize \in Nat
        BY <1>1, ConstantsOK, DbTyped DEF LogsNumbered
    <2>2. CASE n < db.logSize
        <3>1. PICK t \in Txs \cup {None} : \E i \in 1..Len(db.logs[t]) : db.logs[t][i] = n
            BY <1>1, <2>1, <2>2 DEF LogsNumbered
        <3>2. ASSUME NEW u \in Hashes(n) PROVE u = t
            <4>1. PICK k \in 1..Len(db.logs[u]) : db.logs[u][k] = n
                OBVIOUS
            <4> QED BY <1>1, <3>1, <4>1 DEF LogsNumbered
        <3>3. Hashes(n) = {t}
            BY <3>1, <3>2
        <3> QED BY <2>2, <3>3, FS_Singleton
    <2>3. CASE ~ (n < db.logSize)
        <3>1. \A t \in Txs \cup {None} : n \notin Indexes(t)
            BY <1>1, <2>3 DEF LogsNumbered
        <3>2. Hashes(n) = {}
            BY <3>1
        <3> QED BY <2>3, <3>2, FS_EmptySet
    <2> QED BY <2>2, <2>3
<1>3. \A t \in Txs \cup {None} : \A i, j \in 1..Len(db.logs[t]) :
          i < j => db.logs[t][i] < db.logs[t][j]
    BY <1>1 DEF LogsNumbered
<1> QED
    BY <1>2, <1>3 DEF LogIndexes

(***************************************************************************)
(* The indexes of the block's logs are 0, 1, 2 ... in the order they were  *)
(* added, each under one hash, though AddLog counts up and                 *)
(* addLogChange.revert down, and snapshots are reverted in any way.        *)
(***************************************************************************)
THEOREM LogsInOrder == Spec => []LogIndexes
BY AlwaysSound, NumberedIndexes, PTL

LEMMA CommitKeeps ==
    ASSUME SoundInv, [Next]_vars, committed' # committed, NEW a \in Addresses
    PROVE  /\ AccountOf(db, a) # AccountOf(NewPikaStateDB, a)
                 => AccountOf(db, a)' = AccountOf(db, a) /\ GetCode(db, a)' = AccountOf(db, a).code
           /\ \A s \in Slots :
                 GetState(db, a, s) # GetState(NewPikaStateDB, a, s)
                     => GetState(db, a, s)' = GetState(db, a, s)
<1>1. Commit
    BY DEF Next, vars, tx, ReadAccount, CreateAccount, SubBalance, AddBalance, SetNonce, SetCode,
           Suicide, SetState, AddAddressToAccessList, AddSlotToAccessList, AddLog, AddRefund, SubRefund,
           Snapshot, RevertToSnapshot, SetTxContext, Prepare, Change, Write
<1>2. /\ db' = NewPikaStateDB
      /\ stored'.accounts = db.accounts /\ stored'.storages = db.storages
      /\ stored'.codes = stored.codes \cup db.codes
    BY <1>1 DEF Commit
<1>3. NewPikaStateDB.accounts[a] = Absent
    BY DEF NewPikaStateDB
<1>4. \A s \in Slots : NewPikaStateDB.storages[a][s] = Absent
    BY DEF NewPikaStateDB
<1>5. ASSUME AccountOf(db, a) # AccountOf(NewPikaStateDB, a)
      PROVE  AccountOf(db, a)' = AccountOf(db, a)
    BY <1>2, <1>3, <1>5 DEF AccountOf
<1>6. ASSUME AccountOf(db, a) # AccountOf(NewPikaStateDB, a)
      PROVE  GetCode(db, a)' = AccountOf(db, a).code
    <2>1. AccountOf(db, a).code \in {None} \cup db.codes \cup stored.codes
        BY AccountRead
    <2>2. AccountOf(db, a)' = AccountOf(db, a)
        BY <1>5, <1>6
    <2> QED BY <1>2, <2>1, <2>2 DEF GetCode
<1>7. ASSUME NEW s \in Slots, GetState(db, a, s) # GetState(NewPikaStateDB, a, s)
      PROVE  GetState(db, a, s)' = GetState(db, a, s)
    BY <1>2, <1>4, <1>7 DEF GetState
<1> QED
    BY <1>5, <1>6, <1>7

(***************************************************************************)
(* The state DB of the next block reads what the one before had changed:   *)
(* Commit loses no account, code or slot but, for all that is said here,   *)
(* those of accounts that have self-destructed.                            *)
(***************************************************************************)
THEOREM CommitKeeping == Spec => CommitKeepsChanges
<1>1. SoundInv /\ [Next]_vars =>
        [\A a \in Addresses \ db.suicides :
          /\ AccountOf(db, a) # AccountOf(NewPikaStateDB, a)
                => AccountOf(db, a)' = AccountOf(db, a) /\ GetCode(db, a)' = AccountOf(db, a).code
          /\ \A s \in Slots :
                GetState(db, a, s) # GetState(NewPikaStateDB, a, s)
                    => GetState(db, a, s)' = GetState(db, a, s)]_committed
    BY CommitKeeps
<1> QED
    BY <1>1, AlwaysSound, PTL DEF Spec, CommitKeepsChanges

-----------------------------------------------------------------------------
(***************************************************************************)
(* Reverting restores what a caller sees.                                  *)
(***************************************************************************)

(***************************************************************************)
(* SubBalance never takes the last of an account the block began with: its *)
(* balance, with nonce 0 and no code.  Without this RevertsWorld does not  *)
(* hold: when buying gas empties such a stored account and the transaction *)
(* is given up, CreateAccount finds the account empty and makes an entry,  *)
(* and undoing that entry takes the account from memory, so that the       *)
(* balance it had before the gas is read from the storage again.           *)
(***************************************************************************)
NoneEmptied ==
    \A a \in Addresses :
        SubBalance(a, 1) /\ ~ Empty(AccountOf(NewPikaStateDB, a)) => ~ Empty(AccountOf(db, a)')

(***************************************************************************)
(* The revisions of the current transaction are the last ones; Place(k) is *)
(* where the journal was at its k-th snapshot.                             *)
(***************************************************************************)
Offset == Len(validRevisions) - Len(snapshots)

Place(k) == validRevisions[Offset + k].journalIndex

(***************************************************************************)
(* The inductive invariant: the journal is exact down to some place f that *)
(* no snapshot of this transaction is below, and the view saved with each  *)
(* snapshot is what undoing the journal to its place gives.                *)
(***************************************************************************)
SavedInv ==
    /\ \E S : snapshots \in Seq(S)
    /\ Len(snapshots) <= Len(validRevisions)
    /\ \A i \in 1..Len(validRevisions) : validRevisions[i].id >= txStart <=> i > Offset
    /\ running \/ Len(snapshots) = 0
    /\ \E f \in 0..Len(journal) :
          /\ ExactJournal(stored, journal, db, f)
          /\ \A k \in 1..Len(snapshots) :
                Place(k) >= f /\ snapshots[k] = ViewIn(stored, Undone(journal, db, Place(k)))

LEMMA SavedLengths ==
    ASSUME SoundInv, SavedInv
    PROVE  /\ Len(snapshots) \in Nat /\ Len(validRevisions) \in Nat /\ Offset \in Nat
           /\ Len(snapshots) = Len(validRevisions) - Offset
           /\ Len(journal) \in Nat
           /\ \A k \in 1..Len(snapshots) :
                 Offset + k \in 1..Len(validRevisions) /\ Place(k) \in 0..Len(journal)
<1>1. Len(snapshots) \in Nat /\ Len(validRevisions) \in Nat /\ Len(journal) \in Nat
    BY DbTyped DEF SavedInv, SoundInv, Inv, Revisions
<1>2. Offset \in Nat /\ Len(snapshots) = Len(validRevisions) - Offset
    BY <1>1 DEF Offset, SavedInv
<1>3. ASSUME NEW k \in 1..Len(snapshots)
      PROVE  Offset + k \in 1..Len(validRevisions) /\ Place(k) \in 0..Len(journal)
    <2>1. Offset + k \in 1..Len(validRevisions)
        BY <1>1, <1>2
    <2>2. Place(k) \in Nat
        BY <2>1, RevisionTyped DEF Place, SoundInv
    <2>3. Place(k) <= Len(journal)
        BY <2>1 DEF Place, SoundInv, Inv, RevisionsOrdered
    <2> QED BY <1>1, <2>1, <2>2, <2>3
<1> QED
    BY <1>1, <1>2, <1>3

LEMMA ViewIsWorld ==
    ASSUME SoundInv
    PROVE  WorldView(db) = ViewIn(stored, db)
<1>1. ASSUME NEW a \in Addresses PROVE GetCode(db, a) = AccountIn(stored, db, a).code
    BY AccountRead, InNewTerms DEF GetCode
<1>2. \A a \in Addresses, s \in Slots : GetState(db, a, s) = SlotIn(stored, db, a, s)
    BY InNewTerms
<1>3. \A a \in Addresses : AccountOf(db, a) = AccountIn(stored, db, a)
    BY InNewTerms
<1> QED
    BY <1>1, <1>2, <1>3 DEF WorldView, ViewIn

LEMMA ViewIsWorldNext == SoundInv' => WorldView(db)' = ViewIn(stored', db')
<1>1. SoundInv => WorldView(db) = ViewIn(stored, db)
    BY ViewIsWorld
<1>2. (SoundInv => WorldView(db) = ViewIn(stored, db))'
    BY <1>1, PTL
<1> QED
    BY <1>2

(***************************************************************************)
(* A change of the state leaves the saved views what undoing gives.        *)
(***************************************************************************)
LEMMA WrittenSaved ==
    ASSUME SoundInv, SavedInv, Carries(stored, journal, db, journal', db'),
           Len(journal') \in Nat, Len(journal) <= Len(journal'),
           UNCHANGED <<stored, validRevisions, txStart, snapshots>>,
           running' \/ Len(snapshots) = 0
    PROVE  SavedInv'
<1>1. Offset' = Offset /\ \A k : Place(k)' = Place(k)
    BY DEF Offset, Place
<1>2. PICK f \in 0..Len(journal) :
        /\ ExactJournal(stored, journal, db, f)
        /\ \A k \in 1..Len(snapshots) :
              Place(k) >= f /\ snapshots[k] = ViewIn(stored, Undone(journal, db, Place(k)))
    BY DEF SavedInv
<1>3. /\ ExactJournal(stored, journal', db', f)
      /\ \A j \in f..Len(journal) :
            ViewIn(stored, Undone(journal', db', j)) = ViewIn(stored, Undone(journal, db, j))
    BY <1>2 DEF Carries
<1>4. f \in 0..Len(journal')
    BY <1>2, SavedLengths
<1>5. ASSUME NEW k \in 1..Len(snapshots)
      PROVE  Place(k) >= f /\ snapshots[k] = ViewIn(stored, Undone(journal', db', Place(k)))
    <2>1. Place(k) >= f /\ snapshots[k] = ViewIn(stored, Undone(journal, db, Place(k)))
        BY <1>2
    <2>2. Place(k) \in f..Len(journal)
        BY <1>2, <2>1, SavedLengths
    <2> QED BY <1>3, <2>1, <2>2
<1>6. /\ snapshots' = snapshots /\ validRevisions' = validRevisions
      /\ txStart' = txStart /\ stored' = stored
    OBVIOUS
<1>7. \E g \in 0..Len(journal') :
          /\ ExactJournal(stored', journal', db', g)
          /\ \A k \in 1..Len(snapshots') :
                Place(k)' >= g /\ snapshots'[k] = ViewIn(stored', Undone(journal', db', Place(k)'))
    BY <1>1, <1>3, <1>4, <1>5, <1>6
<1> QED
    BY <1>1, <1>6, <1>7 DEF SavedInv

LEMMA WriteSaved ==
    ASSUME SoundInv, SavedInv, Written
    PROVE  SavedInv'
<1>1. Carries(stored, journal, db, journal', db') /\ Len(journal) <= Len(journal')
    BY DEF Written
<1>2. SoundJournal(stored, journal', db')
    BY <1>1 DEF Carries
<1>3. Len(journal') \in Nat
    BY <1>2, SoundNow
<1>4. UNCHANGED <<stored, validRevisions, txStart, snapshots, prepared>>
    BY DEF Written, tx
<1> QED
    BY <1>1, <1>3, <1>4, WrittenSaved DEF SavedInv, running

(***************************************************************************)
(* So does SubBalance that empties an account the block did not begin      *)
(* with: an account that is left empty has never run, so no transaction    *)
(* runs and no snapshot is left, and the journal is exact from here on.    *)
(***************************************************************************)
LEMMA SubBalanceSaved ==
    ASSUME SoundInv, SavedInv, NEW a \in Addresses, SubBalance(a, 1), NoneEmptied
    PROVE  SavedInv'
<1>1. CASE ~ Empty(AccountOf(db, a)')
    BY <1>1, SubBalanceWrites, WriteSaved
<1>2. CASE Empty(AccountOf(db, a)')
    <2> DEFINE n == Len(journal')
               acc == [AccountOf(db, a) EXCEPT !.balance = @ - 1]
    <2>1. Empty(AccountOf(NewPikaStateDB, a))
        BY <1>2 DEF NoneEmptied
    <2>2. db' = [db EXCEPT !.accounts[a] = acc]
        BY DEF SubBalance, Write
    <2>3. SoundJournal(stored, journal', db')
          /\ UNCHANGED <<stored, committed, validRevisions, nextRevisionID, tx, snapshots>>
        BY SubBalanceWrites
    <2>4. AccountOf(db, a) \in Account
        BY AccountRead
    <2>5. db'.accounts[a] = acc /\ \A b \in Addresses : b # a => db'.accounts[b] = db.accounts[b]
        <3> HIDE DEF acc
        <3>1. db' = AccountPut(db, a, acc, db.codes, db.suicides)
            BY <2>2, DbTyped, LoadedPut
        <3>2. db'.accounts = [db.accounts EXCEPT ![a] = acc]
            BY <3>1 DEF AccountPut, Fields
        <3> QED BY <3>2, DbTyped
    <2>6. acc # Absent /\ acc.nonce = AccountOf(db, a).nonce /\ acc.code = AccountOf(db, a).code
        <3>1. acc \in [balance : {acc.balance}, nonce : 0..MaxNonce, code : Codes \cup {None}]
            BY <2>4 DEF Account
        <3>2. AccountOf(db, a).balance \in 0..MaxBalance /\ AccountOf(db, a).balance >= 1
            BY <2>4 DEF Account, SubBalance
        <3>3. acc.balance \in 0..MaxBalance
            BY <2>4, <3>2, ConstantsOK DEF Account
        <3>4. acc \in Account
            BY <3>1, <3>3 DEF Account
        <3> QED BY <2>4, <3>4, ConstantsOK DEF Account
    <2> HIDE DEF acc
    <2>7. AccountOf(db, a)' = acc
        BY <2>5, <2>6 DEF AccountOf
    <2>8. Len(snapshots) = 0
        <3>1. acc.nonce = 0 /\ acc.code = None
            BY <1>2, <2>7 DEF Empty, NewAccount
        <3>2. ~ HasRun(AccountOf(db, a))
            BY <2>6, <3>1 DEF HasRun
        <3>3. ~ running
            BY <3>2 DEF SubBalance
        <3> QED BY <3>3 DEF SavedInv
    <2>9. journal' \in Seq(Entries) /\ n \in Nat
        BY <2>3, SoundNow
    <2>10. PICK f \in 0..Len(journal) : ExactJournal(stored, journal, db, f)
        BY DEF SavedInv
    <2>11. \A b \in Addresses : AccountIn(stored, db, b) = NewAccount => StoredAccount(stored, b) = NewAccount
        BY <2>10, ExactNow DEF AccountsKept
    <2>12. StoredAccount(stored, a) = NewAccount
        <3>1. NewPikaStateDB.accounts[a] = Absent
            BY DEF NewPikaStateDB
        <3> QED BY <2>1, <3>1 DEF AccountOf, StoredAccount, Empty
    <2>13. AccountsKept(stored, {}, db')
        <3>1. \A b \in Addresses : b # a => AccountIn(stored, db', b) = AccountIn(stored, db, b)
            BY <2>5 DEF AccountIn
        <3> QED BY <2>11, <2>12, <3>1 DEF AccountsKept
    <2>14. Touched(journal', n, n) = {} /\ CreatedFirst(journal', n)
        BY <2>9 DEF Touched, CreatedFirst
    <2>15. ExactJournal(stored, journal', db', n)
        <3>1. Undone(journal', db', n) = db'
            BY <2>9, UndoneSteps
        <3>2. ASSUME NEW j \in n..Len(journal')
              PROVE  AccountsKept(stored, Touched(journal', n, j), Undone(journal', db', j))
            <4>1. j = n
                BY <2>9
            <4> QED BY <2>13, <2>14, <3>1, <4>1
        <3>3. n \in 0..Len(journal')
            BY <2>9
        <3> QED BY <2>3, <2>14, <3>2, <3>3 DEF ExactJournal
    <2>16. /\ snapshots' = snapshots /\ validRevisions' = validRevisions /\ stored' = stored
           /\ txStart' = txStart /\ Offset' = Offset
        BY <2>3 DEF tx, Offset
    <2>17. \E g \in 0..Len(journal') :
              /\ ExactJournal(stored', journal', db', g)
              /\ \A k \in 1..Len(snapshots') :
                    Place(k)' >= g /\ snapshots'[k] = ViewIn(stored', Undone(journal', db', Place(k)'))
        <3>1. n \in 0..Len(journal') /\ 1..Len(snapshots') = {}
            BY <2>8, <2>9, <2>16
        <3> QED BY <2>15, <2>16, <3>1
    <2> QED BY <2>8, <2>16, <2>17 DEF SavedInv
<1> QED
    BY <1>1, <1>2

(***************************************************************************)
(* A snapshot saves the view of the moment, which is what undoing nothing  *)
(* gives.                                                                  *)
(***************************************************************************)
LEMMA SnapshotSaved ==
    ASSUME SoundInv, SavedInv, Snapshot
    PROVE  SavedInv' /\ World!Take
<1> DEFINE l == Len(snapshots)
           v == Len(validRevisions)
           revision == [id |-> nextRevisionID, journalIndex |-> Len(journal)]
<1>1. /\ validRevisions' = Append(validRevisions, revision)
      /\ snapshots' = Append(snapshots, WorldView(db))
      /\ UNCHANGED <<stored, committed, db, journal, prepared, txStart>>
      /\ running
    BY DEF Snapshot, tx
<1>2. /\ l \in Nat /\ v \in Nat /\ Offset \in Nat /\ l = v - Offset /\ Len(journal) \in Nat
    BY SavedLengths
<1>3. PICK S : snapshots \in Seq(S)
    BY DEF SavedInv
<1>4. /\ snapshots' \in Seq(S \cup {WorldView(db)}) /\ Len(snapshots') = l + 1
      /\ \A k \in 1..l : snapshots'[k] = snapshots[k]
      /\ snapshots'[l + 1] = WorldView(db)
    <2>1. snapshots \in Seq(S \cup {WorldView(db)}) /\ WorldView(db) \in S \cup {WorldView(db)}
        BY <1>3
    <2> HIDE DEF l
    <2> QED BY <1>1, <2>1, AppendProperties DEF l
<1>5. /\ Len(validRevisions') = v + 1
      /\ \A i \in 1..v : validRevisions'[i] = validRevisions[i]
      /\ validRevisions'[v + 1].id = nextRevisionID
      /\ validRevisions'[v + 1].journalIndex = Len(journal)
    <2>1. validRevisions \in Revisions /\ revision \in [id : Nat, journalIndex : Nat]
        BY <1>2 DEF SoundInv, Inv
    <2>2. revision.id = nextRevisionID /\ revision.journalIndex = Len(journal)
        OBVIOUS
    <2> HIDE DEF revision, v
    <2> QED BY <1>1, <2>1, <2>2, AppendProperties DEF Revisions, v
<1> HIDE DEF revision
<1>6. Offset' = Offset
    BY <1>2, <1>4, <1>5 DEF Offset
<1>7. ASSUME NEW k \in 1..(l + 1)
      PROVE  Place(k)' = IF k = l + 1 THEN Len(journal) ELSE Place(k)
    <2>1. Place(k)' = validRevisions'[Offset + k].journalIndex
        BY <1>6 DEF Place
    <2>2. CASE k = l + 1
        <3>1. Offset + k = v + 1
            BY <1>2, <2>2
        <3> QED BY <1>5, <2>1, <2>2, <3>1
    <2>3. CASE k # l + 1
        <3>1. Offset + k \in 1..v
            BY <1>2, <2>3
        <3> QED BY <1>5, <2>1, <2>3, <3>1 DEF Place
    <2> QED BY <2>2, <2>3
<1>8. ASSUME NEW i \in 1..(v + 1)
      PROVE  validRevisions'[i].id >= txStart' <=> i > Offset'
    <2>1. CASE i \in 1..v
        BY <1>1, <1>5, <1>6, <2>1 DEF SavedInv
    <2>2. CASE i = v + 1
        <3>1. nextRevisionID >= txStart
            BY DEF SoundInv, Inv
        <3> QED BY <1>1, <1>2, <1>5, <1>6, <2>2, <3>1
    <2> QED BY <1>2, <2>1, <2>2
<1>9. PICK f \in 0..Len(journal) :
        /\ ExactJournal(stored, journal, db, f)
        /\ \A k \in 1..l :
              Place(k) >= f /\ snapshots[k] = ViewIn(stored, Undone(journal, db, Place(k)))
    BY DEF SavedInv
<1>10. ASSUME NEW k \in 1..(l + 1)
       PROVE  Place(k)' >= f /\ snapshots'[k] = ViewIn(stored, Undone(journal, db, Place(k)'))
    <2>1. CASE k \in 1..l
        <3>1. Place(k)' = Place(k) /\ k \in 1..(l + 1)
            BY <1>2, <1>7, <2>1
        <3> QED BY <1>4, <1>9, <2>1, <3>1
    <2>2. CASE k = l + 1
        <3>1. Undone(journal, db, Len(journal)) = db
            BY <1>2, UndoneSteps
        <3>2. snapshots'[k] = ViewIn(stored, db)
            BY <1>4, <2>2, ViewIsWorld
        <3>3. Place(k)' = Len(journal)
            BY <1>7, <2>2
        <3>4. Len(journal) >= f
            BY <1>2, <1>9
        <3> QED BY <3>1, <3>2, <3>3, <3>4
    <2> QED BY <1>2, <2>1, <2>2
<1>11. /\ \E T : snapshots' \in Seq(T)
       /\ Len(snapshots') <= Len(validRevisions')
       /\ running'
    BY <1>1, <1>2, <1>4, <1>5 DEF running
<1>12. \E g \in 0..Len(journal') :
          /\ ExactJournal(stored', journal', db', g)
          /\ \A k \in 1..Len(snapshots') :
                Place(k)' >= g /\ snapshots'[k] = ViewIn(stored', Undone(journal', db', Place(k)'))
    BY <1>1, <1>4, <1>9, <1>10
<1>13. SavedInv'
    BY <1>5, <1>8, <1>11, <1>12 DEF SavedInv
<1>14. World!Take
    BY <1>1 DEF World!Take, WorldView, AccountOf, GetCode, GetState
<1> QED
    BY <1>13, <1>14

(***************************************************************************)
(* A revert undoes the journal to the place of its revision, and the view  *)
(* is the saved one.                                                       *)
(***************************************************************************)
LEMMA RevertSaved ==
    ASSUME SoundInv, SavedInv, NEW i \in 1..Len(validRevisions), RevertToSnapshot(i), SoundInv'
    PROVE  SavedInv' /\ \E k \in 1..Len(snapshots) : World!GoBack(k)
<1> DEFINE n == validRevisions[i].journalIndex
           l == Len(snapshots)
           v == Len(validRevisions)
           kept == i - 1 - Offset
<1>1. /\ l \in Nat /\ v \in Nat /\ Offset \in Nat /\ l = v - Offset /\ Len(journal) \in Nat
      /\ i > Offset
    <2>1. i > Offset
        BY DEF SavedInv, RevertToSnapshot
    <2> QED BY <2>1, SavedLengths
<1>2. kept \in 0..l /\ i - Offset \in 1..l /\ kept = i - Offset - 1
    BY <1>1
<1>3. /\ n \in 0..Len(journal) /\ db' = Undone(journal, db, n) /\ journal' = SubSeq(journal, 1, n)
      /\ Len(journal') = n
      /\ UNCHANGED <<stored, committed, nextRevisionID, thash, pending, prepared, txStart>>
    BY Reverted
<1>4. PICK S : snapshots \in Seq(S)
    BY DEF SavedInv
<1>5. /\ snapshots' \in Seq(S) /\ Len(snapshots') = kept
      /\ \A k \in 1..kept : snapshots'[k] = snapshots[k]
      /\ snapshots' = SubSeq(snapshots, 1, kept)
    <2>1. snapshots' = SubSeq(snapshots, 1, kept)
        BY DEF RevertToSnapshot, Offset
    <2> HIDE DEF kept, l
    <2> QED BY <1>2, <1>4, <2>1, Prefix DEF l
<1>6. /\ Len(validRevisions') = i - 1
      /\ \A j \in 1..(i - 1) : validRevisions'[j] = validRevisions[j]
    <2>1. validRevisions' = SubSeq(validRevisions, 1, i - 1) /\ i - 1 \in 0..v
        BY <1>1 DEF RevertToSnapshot, EarlierRevisions
    <2>2. validRevisions \in Seq([id : Nat, journalIndex : Nat])
        BY DEF SoundInv, Inv, Revisions
    <2> QED BY <2>1, <2>2, Prefix
<1>7. Offset' = Offset
    BY <1>1, <1>2, <1>5, <1>6 DEF Offset
<1>8. ASSUME NEW k \in 1..kept
      PROVE  Place(k)' = Place(k) /\ Place(k) \in 0..n /\ k \in 1..l
    <2>1. k \in 1..l /\ Offset + k \in 1..(i - 1) /\ Offset + k \in 1..v /\ Offset + k < i
        BY <1>1, <1>2
    <2>2. Place(k)' = Place(k)
        BY <1>6, <1>7, <2>1 DEF Place
    <2>3. Place(k) <= n
        BY <2>1 DEF Place, SoundInv, Inv, RevisionsOrdered
    <2>4. Place(k) \in 0..Len(journal)
        BY <2>1, SavedLengths
    <2> QED BY <1>3, <2>1, <2>2, <2>3, <2>4
<1>9. PICK f \in 0..Len(journal) :
        /\ ExactJournal(stored, journal, db, f)
        /\ \A k \in 1..l :
              Place(k) >= f /\ snapshots[k] = ViewIn(stored, Undone(journal, db, Place(k)))
    BY DEF SavedInv
<1>10. Place(i - Offset) = n
    <2>1. Offset + (i - Offset) = i
        BY <1>1
    <2> QED BY <2>1 DEF Place
<1>11. /\ n \in f..Len(journal)
       /\ snapshots[i - Offset] = ViewIn(stored, db')
    BY <1>2, <1>3, <1>9, <1>10
<1>12. ExactJournal(stored, journal', db', f)
    BY <1>3, <1>9, <1>11, ExactCut
<1>13. ASSUME NEW k \in 1..kept
       PROVE  Place(k)' >= f /\ snapshots'[k] = ViewIn(stored, Undone(journal', db', Place(k)'))
    <2>1. Undone(journal', db', Place(k)) = Undone(journal, db, Place(k))
        BY <1>3, <1>8, DbTyped, UndonePrefix
    <2> QED BY <1>5, <1>8, <1>9, <2>1
<1>14. ASSUME NEW j \in 1..(i - 1)
       PROVE  validRevisions'[j].id >= txStart' <=> j > Offset'
    <2>1. j \in 1..v
        BY <1>1
    <2>2. validRevisions[j].id >= txStart <=> j > Offset
        BY <2>1 DEF SavedInv
    <2> QED BY <1>3, <1>6, <1>7, <2>2
<1>15. /\ \E T : snapshots' \in Seq(T)
       /\ Len(snapshots') <= Len(validRevisions')
       /\ running'
    <2>1. kept <= i - 1
        BY <1>1
    <2>2. running /\ prepared' = prepared
        BY <1>3 DEF RevertToSnapshot
    <2> HIDE DEF kept
    <2> QED BY <1>5, <1>6, <2>1, <2>2 DEF running
<1>16. \E g \in 0..Len(journal') :
          /\ ExactJournal(stored', journal', db', g)
          /\ \A k \in 1..Len(snapshots') :
                Place(k)' >= g /\ snapshots'[k] = ViewIn(stored', Undone(journal', db', Place(k)'))
    <2>1. f \in 0..Len(journal')
        BY <1>3, <1>9, <1>11
    <2> QED BY <1>3, <1>5, <1>12, <1>13, <2>1
<1>17. SavedInv'
    BY <1>6, <1>14, <1>15, <1>16 DEF SavedInv
<1>18. World!GoBack(i - Offset)
    <2>1. WorldView(db)' = ViewIn(stored, db')
        BY <1>3, ViewIsWorldNext
    <2>2. snapshots' = SubSeq(snapshots, 1, i - Offset - 1)
        BY <1>2, <1>5
    <2> QED BY <1>3, <1>11, <2>1, <2>2 DEF World!GoBack
<1> QED
    BY <1>2, <1>17, <1>18

(***************************************************************************)
(* Where no snapshot is left, nothing has to be restored.                  *)
(***************************************************************************)
LEMMA NothingSaved ==
    ASSUME NEW f \in 0..Len(journal'), ExactJournal(stored', journal', db', f),
           snapshots' = <<>>, Len(validRevisions') \in Nat,
           \A i \in 1..Len(validRevisions') : validRevisions'[i].id >= txStart' <=> FALSE
    PROVE  SavedInv'
<1>1. snapshots' \in Seq({}) /\ Len(snapshots') = 0 /\ 1..Len(snapshots') = {}
    OBVIOUS
<1>2. Offset' = Len(validRevisions')
    BY <1>1 DEF Offset
<1>3. \A i \in 1..Len(validRevisions') : ~ (i > Offset')
    BY <1>2
<1>4. \A i \in 1..Len(validRevisions') : validRevisions'[i].id >= txStart' <=> i > Offset'
    BY <1>3
<1> QED
    BY <1>1, <1>4 DEF SavedInv

LEMMA InitSaved == Init => SavedInv /\ World!Init
<1> SUFFICES ASSUME Init PROVE SavedInv /\ World!Init
    OBVIOUS
<1>1. snapshots \in Seq({}) /\ Len(snapshots) = 0 /\ 1..Len(snapshots) = {}
    BY DEF Init
<1>2. Len(validRevisions) = 0 /\ 1..Len(validRevisions) = {} /\ 0 \in 0..Len(journal)
    BY DEF Init
<1>3. ExactJournal(stored, journal, db, 0)
    BY NewStateExact DEF Init
<1>4. SavedInv
    BY <1>1, <1>2, <1>3 DEF SavedInv
<1> QED
    BY <1>4 DEF Init, World!Init

LEMMA SetTxContextSaved ==
    ASSUME SoundInv, SavedInv, SetTxContext
    PROVE  SavedInv' /\ (World!Change \/ World!StartPeriod)
<1>1. /\ UNCHANGED <<stored, committed, db, journal, validRevisions, nextRevisionID>>
      /\ snapshots' = <<>> /\ txStart' = nextRevisionID
    BY DEF SetTxContext
<1>2. PICK f \in 0..Len(journal) : ExactJournal(stored, journal, db, f)
    BY DEF SavedInv
<1>3. ASSUME NEW i \in 1..Len(validRevisions) PROVE ~ (validRevisions[i].id >= nextRevisionID)
    <2>1. validRevisions[i].id \in Nat
        BY RevisionTyped DEF SoundInv
    <2> QED BY <2>1 DEF SoundInv, Inv, RevisionsOrdered
<1>4. Len(validRevisions') \in Nat
    BY <1>1, SavedLengths
<1>5. SavedInv'
    BY <1>1, <1>2, <1>3, <1>4, NothingSaved
<1>6. CASE nextRevisionID = txStart
    <2>1. Len(snapshots) = 0
        <3> SUFFICES ASSUME Len(snapshots) # 0 PROVE FALSE
            OBVIOUS
        <3>1. Len(validRevisions) \in 1..Len(validRevisions) /\ Len(validRevisions) > Offset
            BY SavedLengths
        <3>2. validRevisions[Len(validRevisions)].id >= txStart
            BY <3>1 DEF SavedInv
        <3> QED BY <1>3, <1>6, <3>1, <3>2
    <2>2. snapshots = <<>>
        BY <2>1 DEF SavedInv
    <2> QED BY <1>1, <1>5, <1>6, <2>2 DEF World!Change
<1>7. CASE nextRevisionID # txStart
    BY <1>1, <1>5, <1>7 DEF World!StartPeriod
<1> QED
    BY <1>6, <1>7

LEMMA PrepareSaved ==
    ASSUME SoundInv, SavedInv, NEW accesses \in TxAccesses, Prepare(accesses[1], accesses[2])
    PROVE  SavedInv' /\ World!Change
<1>1. /\ UNCHANGED <<stored, committed, journal, validRevisions, txStart, snapshots>>
      /\ prepared' = accesses[1]
    BY DEF Prepare
<1>2. accesses[1] # {}
    BY ConstantsOK
<1>3. Carries(stored, journal, db, journal', db')
    BY <1>1, PrepareCarries
<1>4. Len(journal') \in Nat /\ Len(journal) <= Len(journal')
    BY <1>1, DbTyped
<1>5. SavedInv'
    BY <1>1, <1>2, <1>3, <1>4, WrittenSaved DEF running
<1> QED
    BY <1>1, <1>5 DEF World!Change

LEMMA CommitSaved ==
    ASSUME SoundInv, Commit
    PROVE  SavedInv' /\ World!StartPeriod
<1>1. /\ journal' = <<>> /\ validRevisions' = <<>> /\ db' = NewPikaStateDB /\ snapshots' = <<>>
      /\ committed = FALSE /\ committed' = TRUE
    BY DEF Commit, SoundInv
<1>2. Len(validRevisions') = 0 /\ 0 \in 0..Len(journal') /\ 1..Len(validRevisions') = {}
    BY <1>1
<1>3. ExactJournal(stored', journal', db', 0)
    BY <1>1, NewStateExact
<1>4. SavedInv'
    BY <1>1, <1>2, <1>3, NothingSaved
<1> QED
    BY <1>1, <1>4 DEF World!StartPeriod

LEMMA SavedStutter ==
    ASSUME SavedInv, UNCHANGED vars
    PROVE  SavedInv'
BY DEF SavedInv, vars, tx, Offset, Place, running

(***************************************************************************)
(* What is neither a snapshot nor a revert is a change to the abstract     *)
(* specification.                                                          *)
(***************************************************************************)
LEMMA WriteIsChange ==
    ASSUME UNCHANGED <<stored, committed, validRevisions, nextRevisionID, tx, snapshots>>
    PROVE  World!Change
BY DEF World!Change, tx

LEMMA SavedNext ==
    ASSUME SoundInv, SoundInv', SavedInv, [Next]_vars, [NoneEmptied]_vars
    PROVE  SavedInv' /\ World!Next
<1> DEFINE Goal == SavedInv' /\ World!Next
<1>1. /\ World!Change => World!Next
      /\ World!Take => World!Next
      /\ World!StartPeriod => World!Next
      /\ \A k \in 1..Len(snapshots) : World!GoBack(k) => World!Next
    BY DEF World!Next
<1>2. Written => Goal
    BY <1>1, WriteSaved, WriteIsChange DEF Written
<1>3. ASSUME NEW a \in Addresses PROVE
          /\ ReadAccount(a) \/ CreateAccount(a) \/ AddBalance(a, 1) => Goal
          /\ SetNonce(a) \/ Suicide(a) \/ AddAddressToAccessList(a) => Goal
          /\ \A c \in Codes : SetCode(a, c) => Goal
          /\ \A s \in Slots, v \in Values : SetState(a, s, v) => Goal
          /\ \A s \in Slots : AddSlotToAccessList(a, s) => Goal
    <2> HIDE DEF Goal
    <2>1. ReadAccount(a) \/ CreateAccount(a) \/ AddBalance(a, 1) => Goal
        BY <1>2, ReadAccountWrites, CreateAccountWrites, AddBalanceWrites
    <2>2. SetNonce(a) \/ Suicide(a) \/ AddAddressToAccessList(a) => Goal
        BY <1>2, SetNonceWrites, SuicideWrites, AddAddressWrites
    <2>3. \A c \in Codes : SetCode(a, c) => Goal
        BY <1>2, SetCodeWrites
    <2>4. \A s \in Slots, v \in Values : SetState(a, s, v) => Goal
        BY <1>2, SetStateWrites
    <2>5. \A s \in Slots : AddSlotToAccessList(a, s) => Goal
        BY <1>2, AddSlotWrites
    <2> QED BY <2>1, <2>2, <2>3, <2>4, <2>5
<1>4. ASSUME NEW a \in Addresses, SubBalance(a, 1) PROVE Goal
    <2>1. World!Change
        BY <1>4, SubBalanceWrites, WriteIsChange
    <2>2. CASE NoneEmptied
        BY <1>1, <1>4, <2>1, <2>2, SubBalanceSaved
    <2>3. CASE UNCHANGED vars
        BY <1>1, <2>1, <2>3, SavedStutter
    <2> QED BY <2>2, <2>3
<1>5. CASE AddLog
    BY <1>2, <1>5, AddLogWrites
<1>6. ASSUME NEW gas \in 1..MaxRefund, AddRefund(gas) \/ SubRefund(gas) PROVE Goal
    BY <1>2, <1>6, RefundsWrite
<1>7. CASE Snapshot
    BY <1>1, <1>7, SnapshotSaved
<1>8. ASSUME NEW i \in 1..Len(validRevisions), RevertToSnapshot(i) PROVE Goal
    BY <1>1, <1>8, RevertSaved
<1>9. CASE SetTxContext
    BY <1>1, <1>9, SetTxContextSaved
<1>10. ASSUME NEW accesses \in TxAccesses, Prepare(accesses[1], accesses[2]) PROVE Goal
    BY <1>1, <1>10, PrepareSaved
<1>11. CASE Commit
    BY <1>1, <1>11, CommitSaved
<1>12. CASE UNCHANGED vars
    BY <1>1, <1>12, SavedStutter, WriteIsChange DEF vars
<1> QED
    BY <1>3, <1>4, <1>5, <1>6, <1>7, <1>8, <1>9, <1>10, <1>11, <1>12 DEF Next

(***************************************************************************)
(* RevertToSnapshot restores what a caller could see when the snapshot was *)
(* taken: the balances, nonces, codes, slots, suicides, logs and refunds.  *)
(* The state DB implements the abstract Snapshots, in which a revert       *)
(* brings back the saved view whole, if no account the block began with is *)
(* emptied.                                                                *)
(***************************************************************************)
THEOREM RevertsExactly == Spec /\ [][NoneEmptied]_vars => RevertsWorld
<1>1. Init => SavedInv /\ World!Init
    BY InitSaved
<1>2. SoundInv /\ SoundInv' /\ SavedInv /\ [Next]_vars /\ [NoneEmptied]_vars
        => SavedInv' /\ [World!Next]_World!snapshotsVars
    BY SavedNext
<1> QED
    BY <1>1, <1>2, AlwaysSound, PTL DEF Spec, RevertsWorld, World!Spec

-----------------------------------------------------------------------------
(***************************************************************************)
(* The accounts a block begins with, and why none of them is emptied: an   *)
(* account keeps its nonce above 0 and its code through every change and   *)
(* every revert, as the journal holds no lower nonce and no missing code.  *)
(***************************************************************************)

(***************************************************************************)
(* Every account stored has sent a transaction or has code, or has         *)
(* nothing.                                                                *)
(***************************************************************************)
StoredHaveRun ==
    \A a \in Addresses :
        StoredAccounts[a] # Absent /\ ~ Empty(StoredAccounts[a]) => HasRun(StoredAccounts[a])

(***************************************************************************)
(* A nonce above 0 and a code that the account old has, new has, too; and  *)
(* every account of the state d has what it has in the storage st.         *)
(***************************************************************************)
AsBefore(old, new) ==
    /\ old.nonce > 0 => new.nonce > 0
    /\ old.code # None => new.code # None

HaveRunIn(st, d) == \A a \in Addresses : AsBefore(StoredAccount(st, a), AccountIn(st, d, a))

(***************************************************************************)
(* Undoing the entry e does not take them away either.                     *)
(***************************************************************************)
KeepsRun(st, e) ==
    /\ e.type = "nonce" /\ StoredAccount(st, e.account).nonce > 0 => e.prev > 0
    /\ e.type = "code" /\ StoredAccount(st, e.account).code # None => e.prev # None

(***************************************************************************)
(* The inductive invariant, which also says that nothing buys gas or runs  *)
(* after the commit.                                                       *)
(***************************************************************************)
RunInv ==
    /\ committed => pending = <<>> /\ thash = None /\ ~ running
    /\ ~ committed => stored.accounts = StoredAccounts
    /\ HaveRunIn(stored, db)
    /\ \A p \in 1..Len(journal) : KeepsRun(stored, journal[p])

(***************************************************************************)
(* Undoing one entry, and any part of the journal.                         *)
(***************************************************************************)
LEMMA UndoRun ==
    ASSUME NEW st, st.accounts \in [Addresses -> Account \cup {Absent}],
           NEW d, TypedState(st, d), HaveRunIn(st, d), NEW e \in Entries, KeepsRun(st, e)
    PROVE  HaveRunIn(st, Undo(e, d))
<1> SUFFICES ASSUME NEW a \in Addresses
             PROVE  AsBefore(StoredAccount(st, a), AccountIn(st, Undo(e, d), a))
    BY DEF HaveRunIn
<1>1. AsBefore(StoredAccount(st, a), AccountIn(st, d, a))
    BY DEF HaveRunIn
<1>2. CASE Undo(e, d).accounts[a] = Absent
    BY <1>2 DEF AccountIn, StoredAccount, AsBefore
<1>3. CASE e.type \in AccountTypes /\ a = e.account /\ d.accounts[a] # Absent
    <2> DEFINE acc == d.accounts[a]
    <2>1. acc \in Account
        BY <1>3 DEF TypedState
    <2>2. Undo(e, d).accounts[a] = EarlierAccount(e, acc) /\ EarlierAccount(e, acc) # Absent
        BY <1>3, <2>1, UndoneOne, EarlierAccountTyped
    <2>3. AccountIn(st, Undo(e, d), a) = EarlierAccount(e, acc) /\ AccountIn(st, d, a) = acc
        BY <1>3, <2>2 DEF AccountIn
    <2>4. AsBefore(StoredAccount(st, a), EarlierAccount(e, acc))
        <3> HIDE DEF acc
        <3>1. AsBefore(StoredAccount(st, a), acc)
            BY <1>1, <2>3
        <3>2. /\ EarlierAccount(e, acc).nonce = IF e.type = "nonce" THEN e.prev ELSE acc.nonce
              /\ EarlierAccount(e, acc).code = IF e.type = "code" THEN e.prev ELSE acc.code
            BY <1>3, <2>1 DEF EarlierAccount, AccountTypes, Account
        <3> QED BY <1>3, <3>1, <3>2 DEF AsBefore, KeepsRun
    <2> QED BY <2>3, <2>4
<1>4. CASE Undo(e, d).accounts[a] = d.accounts[a]
    BY <1>1, <1>4 DEF AccountIn
<1> QED
    BY <1>2, <1>3, <1>4, UndoneAccount

LEMMA UndoneRun ==
    ASSUME NEW st, st.accounts \in [Addresses -> Account \cup {Absent}],
           NEW q \in Seq(Entries), NEW d, TypedState(st, d), HaveRunIn(st, d),
           \A p \in 1..Len(q) : KeepsRun(st, q[p])
    PROVE  \A j \in 0..Len(q) : HaveRunIn(st, Undone(q, d, j))
<1> DEFINE L == Len(q)
           S == {j \in 0..L : HaveRunIn(st, Undone(q, d, j))}
<1>1. /\ L \in Nat /\ Undone(q, d, L) = d
      /\ \A n \in 1..L : Undone(q, d, n - 1) = Undo(q[n], Undone(q, d, n))
    <2>1. Len(q) \in Nat
        OBVIOUS
    <2> QED BY <2>1, UndoneSteps
<1>2. L \in S
    BY <1>1
<1>3. ASSUME NEW j \in 1..L, j \in S PROVE j - 1 \in S
    <2>1. q[j] \in Entries /\ KeepsRun(st, q[j])
        BY ElementOfSeq
    <2>2. TypedState(st, Undone(q, d, j)) /\ HaveRunIn(st, Undone(q, d, j))
        BY <1>3, UndoneTyped
    <2>3. HaveRunIn(st, Undo(q[j], Undone(q, d, j)))
        BY <2>1, <2>2, UndoRun
    <2>4. j - 1 \in 0..L
        BY <1>1
    <2> QED BY <1>1, <2>3, <2>4
<1> HIDE DEF S
<1>4. \A j \in 0..L : j \in S
    BY <1>1, <1>2, <1>3, DownFromLength
<1> QED
    BY <1>4 DEF S

(***************************************************************************)
(* What SoundInv says of the accounts.                                     *)
(***************************************************************************)
LEMMA StateTypes ==
    ASSUME SoundInv
    PROVE  /\ stored.accounts \in [Addresses -> Account \cup {Absent}]
           /\ journal \in Seq(Entries)
           /\ TypedState(stored, db)
           /\ db.accounts \in [Addresses -> Account \cup {Absent}]
           /\ \A a, b \in Addresses, acc \in Account :
                 [db EXCEPT !.accounts[a] = acc].accounts[b] = IF a = b THEN acc ELSE db.accounts[b]
<1>1. /\ stored.accounts \in [Addresses -> Account \cup {Absent}]
      /\ journal \in Seq(Entries)
      /\ TypedState(stored, db)
    BY DEF SoundInv, SoundJournal, StoredTyped, Stores
<1>2. db.accounts \in [Addresses -> Account \cup {Absent}] /\ IsState(db)
    BY <1>1 DEF TypedState
<1>3. \A a, b \in Addresses, acc \in Account :
          [db EXCEPT !.accounts[a] = acc].accounts[b] = IF a = b THEN acc ELSE db.accounts[b]
    BY <1>2 DEF IsState, Fields
<1> QED
    BY <1>1, <1>2, <1>3

(***************************************************************************)
(* A method whose entries are es, and that leaves every account a nonce    *)
(* and a code if it had them.                                              *)
(***************************************************************************)
LEMMA WriteRun ==
    ASSUME SoundInv, RunInv, NEW d, NEW S, NEW es \in Seq(S), Write(d, es),
           \A a \in Addresses : AsBefore(AccountOf(db, a), AccountIn(stored, d, a)),
           \A i \in 1..Len(es) : KeepsRun(stored, es[i])
    PROVE  RunInv'
<1>1. /\ journal' = journal \o es /\ db' = d
      /\ UNCHANGED <<stored, committed, thash, pending, prepared>>
    BY DEF Write, tx
<1>2. HaveRunIn(stored, d)
    BY InNewTerms DEF RunInv, HaveRunIn, AsBefore
<1>3. \A p \in 1..Len(journal \o es) : KeepsRun(stored, (journal \o es)[p])
    <2> DEFINE T == Entries \cup S
    <2>1. journal \in Seq(T) /\ es \in Seq(T)
        BY StateTypes
    <2> HIDE DEF T
    <2> SUFFICES ASSUME NEW p \in 1..Len(journal \o es)
                 PROVE  KeepsRun(stored, (journal \o es)[p])
        OBVIOUS
    <2>2. /\ Len(journal) \in Nat /\ Len(es) \in Nat /\ Len(journal \o es) = Len(journal) + Len(es)
          /\ (journal \o es)[p] = IF p <= Len(journal) THEN journal[p] ELSE es[p - Len(journal)]
        BY <2>1
    <2>3. CASE p <= Len(journal)
        BY <2>2, <2>3 DEF RunInv
    <2>4. CASE p > Len(journal)
        <3>1. p - Len(journal) \in 1..Len(es)
            BY <2>2, <2>4
        <3> QED BY <2>2, <2>4, <3>1
    <2> QED BY <2>2, <2>3, <2>4
<1> QED
    BY <1>1, <1>2, <1>3 DEF RunInv, running

LEMMA OneEntryRun ==
    ASSUME SoundInv, RunInv, NEW d, NEW e, Write(d, <<e>>), KeepsRun(stored, e),
           \A a \in Addresses : AsBefore(AccountOf(db, a), AccountIn(stored, d, a))
    PROVE  RunInv'
<1>1. <<e>> \in Seq({e}) /\ \A i \in 1..Len(<<e>>) : <<e>>[i] = e
    OBVIOUS
<1>2. \A i \in 1..Len(<<e>>) : KeepsRun(stored, <<e>>[i])
    BY <1>1
<1> QED
    BY <1>1, <1>2, WriteRun

LEMMA AccountRun ==
    ASSUME SoundInv, RunInv, NEW a \in Addresses, NEW acc \in Account, NEW d, NEW e,
           Write(d, <<e>>), KeepsRun(stored, e), AsBefore(AccountOf(db, a), acc),
           d.accounts[a] = acc, \A b \in Addresses : b # a => d.accounts[b] = db.accounts[b]
    PROVE  RunInv'
<1>1. acc # Absent
    BY ConstantsOK
<1>2. ASSUME NEW b \in Addresses PROVE AsBefore(AccountOf(db, b), AccountIn(stored, d, b))
    <2>1. CASE b = a
        BY <1>1, <2>1 DEF AccountIn
    <2>2. CASE b # a
        BY <2>2 DEF AccountIn, AccountOf, AsBefore
    <2> QED BY <2>1, <2>2
<1> QED
    BY <1>2, OneEntryRun

LEMMA SameAccountsRun ==
    ASSUME SoundInv, RunInv, NEW d, NEW S, NEW es \in Seq(S), Write(d, es),
           d.accounts = db.accounts, \A i \in 1..Len(es) : es[i].type \notin {"nonce", "code"}
    PROVE  RunInv'
<1>1. \A a \in Addresses : AsBefore(AccountOf(db, a), AccountIn(stored, d, a))
    BY DEF AccountIn, AccountOf, AsBefore
<1>2. \A i \in 1..Len(es) : KeepsRun(stored, es[i])
    BY DEF KeepsRun
<1> QED
    BY <1>1, <1>2, WriteRun

(***************************************************************************)
(* The methods that change an account.                                     *)
(***************************************************************************)
LEMMA AccountMethodsRun ==
    ASSUME SoundInv, RunInv, NEW a \in Addresses,
           \/ CreateAccount(a) \/ SubBalance(a, 1) \/ AddBalance(a, 1) \/ SetNonce(a) \/ Suicide(a)
           \/ \E c \in Codes : SetCode(a, c)
    PROVE  RunInv'
<1> DEFINE acc == AccountOf(db, a)
<1>0. /\ acc \in Account /\ acc.balance \in 0..MaxBalance /\ acc.nonce \in 0..MaxNonce
      /\ acc.code \in Codes \cup {None}
      /\ MaxBalance \in Nat /\ MaxNonce \in Nat /\ None \notin Codes
    BY AccountRead, ConstantsOK DEF Account
<1>1. AsBefore(StoredAccount(stored, a), acc)
    BY InNewTerms DEF RunInv, HaveRunIn
<1>2. db.accounts \in [Addresses -> Account \cup {Absent}] /\ IsState(db)
    BY StateTypes DEF TypedState
<1> HIDE DEF acc
<1>3. CASE CreateAccount(a)
    <2> DEFINE d == [db EXCEPT !.accounts[a] = NewAccount]
               e == [type |-> "createObject", account |-> a]
    <2>1. Write(d, <<e>>) /\ acc = NewAccount
        BY <1>3 DEF CreateAccount, Change, Empty, acc
    <2>2. d.accounts[a] = NewAccount /\ \A b \in Addresses : b # a => d.accounts[b] = db.accounts[b]
        BY <1>2 DEF IsState, Fields
    <2>3. NewAccount \in Account /\ AsBefore(acc, NewAccount) /\ KeepsRun(stored, e)
        BY <1>0, <2>1 DEF AsBefore, KeepsRun
    <2> HIDE DEF d, e
    <2> QED BY <2>1, <2>2, <2>3, AccountRun DEF acc
<1>4. CASE SubBalance(a, 1)
    <2> DEFINE new == [acc EXCEPT !.balance = @ - 1]
               d == [db EXCEPT !.accounts[a] = new]
               e == [type |-> "balance", account |-> a, prev |-> acc.balance]
    <2>1. Write(d, <<e>>) /\ acc.balance >= 1
        BY <1>4 DEF SubBalance, acc
    <2>2. new \in Account /\ AsBefore(acc, new) /\ KeepsRun(stored, e)
        BY <1>0, <2>1 DEF AsBefore, KeepsRun, Account
    <2>3. d.accounts[a] = new /\ \A b \in Addresses : b # a => d.accounts[b] = db.accounts[b]
        BY <1>2 DEF IsState, Fields
    <2> HIDE DEF new, d, e
    <2> QED BY <2>1, <2>2, <2>3, AccountRun DEF acc
<1>5. CASE AddBalance(a, 1)
    <2> DEFINE new == [acc EXCEPT !.balance = @ + 1]
               d == [db EXCEPT !.accounts[a] = new]
               e == [type |-> "balance", account |-> a, prev |-> acc.balance]
    <2>1. Write(d, <<e>>) /\ acc.balance + 1 <= MaxBalance
        BY <1>5 DEF AddBalance, Change, acc
    <2>2. new \in Account /\ AsBefore(acc, new) /\ KeepsRun(stored, e)
        BY <1>0, <2>1 DEF AsBefore, KeepsRun, Account
    <2>3. d.accounts[a] = new /\ \A b \in Addresses : b # a => d.accounts[b] = db.accounts[b]
        BY <1>2 DEF IsState, Fields
    <2> HIDE DEF new, d, e
    <2> QED BY <2>1, <2>2, <2>3, AccountRun DEF acc
<1>6. CASE SetNonce(a)
    <2> DEFINE new == [acc EXCEPT !.nonce = @ + 1]
               d == [db EXCEPT !.accounts[a] = new]
               e == [type |-> "nonce", account |-> a, prev |-> acc.nonce]
    <2>1. Write(d, <<e>>) /\ acc.nonce < MaxNonce
        BY <1>6 DEF SetNonce, Change, acc
    <2>2. new \in Account /\ AsBefore(acc, new)
        BY <1>0, <2>1 DEF AsBefore, Account
    <2>3. KeepsRun(stored, e)
        BY <1>1 DEF AsBefore, KeepsRun
    <2>4. d.accounts[a] = new /\ \A b \in Addresses : b # a => d.accounts[b] = db.accounts[b]
        BY <1>2 DEF IsState, Fields
    <2> HIDE DEF new, d, e
    <2> QED BY <2>1, <2>2, <2>3, <2>4, AccountRun DEF acc
<1>7. CASE Suicide(a)
    <2> DEFINE new == [acc EXCEPT !.balance = 0]
               d == [db EXCEPT !.accounts[a] = new, !.suicides = @ \cup {a}]
               e == [type |-> "suicide", account |-> a, prev |-> acc.balance, marked |-> a \in db.suicides]
    <2>1. Write(d, <<e>>)
        BY <1>7 DEF Suicide, Change, acc
    <2>2. new \in Account /\ AsBefore(acc, new) /\ KeepsRun(stored, e)
        BY <1>0 DEF AsBefore, KeepsRun, Account
    <2>3. d.accounts[a] = new /\ \A b \in Addresses : b # a => d.accounts[b] = db.accounts[b]
        BY <1>2 DEF IsState, Fields
    <2> HIDE DEF new, d, e
    <2> QED BY <2>1, <2>2, <2>3, AccountRun DEF acc
<1>8. ASSUME NEW c \in Codes, SetCode(a, c) PROVE RunInv'
    <2> DEFINE new == [acc EXCEPT !.code = c]
               d == [db EXCEPT !.accounts[a] = new, !.codes = @ \cup {c}]
               e == [type |-> "code", account |-> a, prev |-> acc.code]
    <2>1. Write(d, <<e>>)
        BY <1>8 DEF SetCode, Change, acc
    <2>2. new \in Account /\ AsBefore(acc, new)
        BY <1>0 DEF AsBefore, Account
    <2>3. KeepsRun(stored, e)
        BY <1>1 DEF AsBefore, KeepsRun
    <2>4. d.accounts[a] = new /\ \A b \in Addresses : b # a => d.accounts[b] = db.accounts[b]
        BY <1>2 DEF IsState, Fields
    <2> HIDE DEF new, d, e
    <2> QED BY <2>1, <2>2, <2>3, <2>4, AccountRun DEF acc
<1> QED
    BY <1>3, <1>4, <1>5, <1>6, <1>7, <1>8

(***************************************************************************)
(* The methods that change something else, or load an account.             *)
(***************************************************************************)
LEMMA OtherMethodsRun ==
    ASSUME SoundInv, RunInv,
           \/ AddLog
           \/ \E gas \in 1..MaxRefund : AddRefund(gas) \/ SubRefund(gas)
           \/ \E a \in Addresses :
                 \/ ReadAccount(a) \/ AddAddressToAccessList(a)
                 \/ \E s \in Slots, v \in Values : SetState(a, s, v)
                 \/ \E s \in Slots : AddSlotToAccessList(a, s)
    PROVE  RunInv'
<1>0. db.accounts \in [Addresses -> Account \cup {Absent}] /\ IsState(db)
    BY StateTypes DEF TypedState
<1>1. ASSUME NEW d, NEW e, Write(d, <<e>>), d.accounts = db.accounts, e.type \notin {"nonce", "code"}
      PROVE  RunInv'
    <2>1. <<e>> \in Seq({e}) /\ \A i \in 1..Len(<<e>>) : <<e>>[i] = e
        OBVIOUS
    <2> QED BY <1>1, <2>1, SameAccountsRun
<1>2. CASE AddLog
    <2> DEFINE d == [db EXCEPT !.logs[thash] = Append(@, db.logSize), !.logSize = @ + 1]
               e == [type |-> "addLog", txhash |-> thash]
    <2>1. Write(d, <<e>>) /\ e.type = "addLog"
        BY <1>2 DEF AddLog, Change
    <2>2. d.accounts = db.accounts
        BY <1>0 DEF IsState, Fields
    <2> HIDE DEF d, e
    <2> QED BY <1>1, <2>1, <2>2
<1>3. ASSUME NEW gas \in 1..MaxRefund, AddRefund(gas) \/ SubRefund(gas) PROVE RunInv'
    <2>1. PICK refund : Write([db EXCEPT !.refund = refund], <<RefundChange>>)
        BY <1>3 DEF AddRefund, SubRefund, Change
    <2>2. [db EXCEPT !.refund = refund].accounts = db.accounts /\ RefundChange.type = "refund"
        BY <1>0 DEF IsState, Fields, RefundChange
    <2> QED BY <1>1, <2>1, <2>2
<1>4. ASSUME NEW a \in Addresses, ReadAccount(a) PROVE RunInv'
    <2> DEFINE d == [db EXCEPT !.accounts[a] = stored.accounts[a]]
    <2>1. Write(d, <<>>) /\ db.accounts[a] = Absent /\ stored.accounts[a] # Absent
        BY <1>4 DEF ReadAccount, Loaded
    <2>2. \A b \in Addresses : d.accounts[b] = IF b = a THEN stored.accounts[a] ELSE db.accounts[b]
        BY <1>0 DEF IsState, Fields
    <2> HIDE DEF d
    <2>3. \A b \in Addresses : AsBefore(AccountOf(db, b), AccountIn(stored, d, b))
        BY <2>1, <2>2 DEF AccountOf, AccountIn, AsBefore
    <2>4. <<>> \in Seq(Entries) /\ \A i \in 1..Len(<<>>) : KeepsRun(stored, <<>>[i])
        OBVIOUS
    <2> QED BY <2>1, <2>3, <2>4, WriteRun
<1>5. ASSUME NEW a \in Addresses, AddAddressToAccessList(a) PROVE RunInv'
    <2> DEFINE d == [db EXCEPT !.accessList[a] = {}]
               e == [type |-> "accessAddress", account |-> a]
    <2>1. Write(d, <<e>>) /\ e.type = "accessAddress"
        BY <1>5 DEF AddAddressToAccessList, Change
    <2>2. d.accounts = db.accounts
        BY <1>0 DEF IsState, Fields
    <2> HIDE DEF d, e
    <2> QED BY <1>1, <2>1, <2>2
<1>6. ASSUME NEW a \in Addresses, NEW s \in Slots, NEW v \in Values, SetState(a, s, v) PROVE RunInv'
    <2> DEFINE d == [db EXCEPT !.storages[a][s] = v]
               e == [type |-> "storage", account |-> a, key |-> s, prev |-> GetState(db, a, s)]
    <2>1. Write(d, <<e>>) /\ e.type = "storage"
        BY <1>6 DEF SetState, Change
    <2>2. d.accounts = db.accounts
        BY <1>0 DEF IsState, Fields
    <2> HIDE DEF d, e
    <2> QED BY <1>1, <2>1, <2>2
<1>7. ASSUME NEW a \in Addresses, NEW s \in Slots, AddSlotToAccessList(a, s) PROVE RunInv'
    <2> DEFINE d == [db EXCEPT !.accessList[a] = SlotsOf(db, a) \cup {s}]
               x == [type |-> "accessAddress", account |-> a]
               y == [type |-> "accessSlot", account |-> a, key |-> s]
    <2>1. PICK ex \in {<<x>>, <<>>}, ey \in {<<y>>, <<>>} : Write(d, ex \o ey)
        BY <1>7 DEF AddSlotToAccessList, Change
    <2>2. d.accounts = db.accounts
        BY <1>0 DEF IsState, Fields
    <2>3. x.type = "accessAddress" /\ y.type = "accessSlot"
        OBVIOUS
    <2> HIDE DEF d, x, y
    <2>4. ex \o ey \in Seq({x, y})
        <3>1. <<x>> \in Seq({x, y}) /\ <<y>> \in Seq({x, y}) /\ <<>> \in Seq({x, y})
            OBVIOUS
        <3>2. ex \in Seq({x, y}) /\ ey \in Seq({x, y})
            BY <3>1
        <3> QED BY <3>2, ConcatProperties
    <2>5. \A i \in 1..Len(ex \o ey) : (ex \o ey)[i] \in {x, y}
        BY <2>4, ElementOfSeq
    <2> QED BY <2>1, <2>2, <2>3, <2>4, <2>5, SameAccountsRun
<1> QED
    BY <1>2, <1>3, <1>4, <1>5, <1>6, <1>7

LEMMA RevertRun ==
    ASSUME SoundInv, RunInv, NEW i \in 1..Len(validRevisions), RevertToSnapshot(i)
    PROVE  RunInv'
<1> DEFINE n == validRevisions[i].journalIndex
<1>1. /\ n \in 0..Len(journal) /\ db' = Undone(journal, db, n) /\ journal' = SubSeq(journal, 1, n)
      /\ Len(journal') = n
      /\ UNCHANGED <<stored, committed, thash, pending, prepared>>
    BY Reverted
<1> HIDE DEF n
<1>2. HaveRunIn(stored, Undone(journal, db, n))
    BY <1>1, StateTypes, UndoneRun DEF RunInv
<1>3. \A p \in 1..n : KeepsRun(stored, SubSeq(journal, 1, n)[p])
    <2>1. journal \in Seq(Entries) /\ Len(journal) \in Nat
        BY StateTypes
    <2>2. \A p \in 1..n : p \in 1..Len(journal) /\ SubSeq(journal, 1, n)[p] = journal[p]
        BY <1>1, <2>1
    <2> QED BY <2>2 DEF RunInv
<1> QED
    BY <1>1, <1>2, <1>3 DEF RunInv, running

(***************************************************************************)
(* Commit begins again with what it has stored, and nothing runs after it. *)
(***************************************************************************)
LEMMA CommitRun == RunInv /\ Commit => RunInv'
<1> SUFFICES ASSUME Commit PROVE RunInv'
    OBVIOUS
<1>1. \A a \in Addresses : AccountIn(stored', NewPikaStateDB, a) = StoredAccount(stored', a)
    BY DEF AccountIn, StoredAccount, NewPikaStateDB
<1>2. HaveRunIn(stored', db')
    BY <1>1 DEF Commit, HaveRunIn, AsBefore
<1>3. journal' = <<>> /\ \A p \in 1..Len(journal') : KeepsRun(stored', journal'[p])
    BY DEF Commit
<1>4. committed' /\ pending' = <<>> /\ thash' = None /\ ~ running'
    BY DEF Commit, running
<1> QED
    BY <1>2, <1>3, <1>4 DEF RunInv

LEMMA NextRun == SoundInv /\ RunInv /\ [Next]_vars => RunInv'
<1> SUFFICES ASSUME SoundInv, RunInv, [Next]_vars PROVE RunInv'
    OBVIOUS
<1>1. CASE Snapshot
    BY <1>1 DEF Snapshot, RunInv, running, tx
<1>2. CASE SetTxContext
    <2>1. ~ committed /\ UNCHANGED <<stored, committed, db, journal>>
        BY <1>2 DEF SetTxContext, RunInv
    <2> QED BY <2>1 DEF RunInv
<1>3. ASSUME NEW accesses \in TxAccesses, Prepare(accesses[1], accesses[2]) PROVE RunInv'
    <2>1. /\ ~ committed /\ UNCHANGED <<stored, committed, journal>>
        BY <1>3 DEF Prepare, RunInv
    <2>2. db'.accounts = db.accounts
        BY <1>3, StateTypes DEF Prepare, TypedState, IsState, Fields
    <2>3. HaveRunIn(stored, db')
        BY <2>2 DEF RunInv, HaveRunIn, AccountIn
    <2> QED BY <2>1, <2>3 DEF RunInv
<1>4. CASE UNCHANGED vars
    BY <1>4 DEF vars, tx, RunInv, running
<1>5. CASE \/ AddLog
           \/ \E gas \in 1..MaxRefund : AddRefund(gas) \/ SubRefund(gas)
           \/ \E a \in Addresses :
                 \/ ReadAccount(a) \/ AddAddressToAccessList(a)
                 \/ \E s \in Slots, v \in Values : SetState(a, s, v)
                 \/ \E s \in Slots : AddSlotToAccessList(a, s)
    BY <1>5, OtherMethodsRun
<1>6. ASSUME NEW a \in Addresses,
             \/ CreateAccount(a) \/ SubBalance(a, 1) \/ AddBalance(a, 1) \/ SetNonce(a) \/ Suicide(a)
             \/ \E c \in Codes : SetCode(a, c)
      PROVE  RunInv'
    BY <1>6, AccountMethodsRun
<1> QED
    BY <1>1, <1>2, <1>3, <1>4, <1>5, <1>6, RevertRun, CommitRun DEF Next

LEMMA InitRun == Init => RunInv
<1> SUFFICES ASSUME Init PROVE RunInv
    OBVIOUS
<1>1. \A a \in Addresses : AccountIn(stored, NewPikaStateDB, a) = StoredAccount(stored, a)
    BY DEF AccountIn, StoredAccount, NewPikaStateDB
<1>2. HaveRunIn(stored, db)
    BY <1>1 DEF Init, HaveRunIn, AsBefore
<1>3. ~ committed /\ stored.accounts = StoredAccounts
    BY DEF Init
<1>4. \A p \in 1..Len(journal) : KeepsRun(stored, journal[p])
    BY DEF Init
<1> QED
    BY <1>2, <1>3, <1>4 DEF RunInv

(***************************************************************************)
(* An account that keeps its nonce or its code is not empty.               *)
(***************************************************************************)
LEMMA RunNotEmptied == SoundInv /\ RunInv /\ StoredHaveRun => NoneEmptied
<1> SUFFICES ASSUME SoundInv, RunInv, StoredHaveRun,
                    NEW a \in Addresses, SubBalance(a, 1), ~ Empty(AccountOf(NewPikaStateDB, a))
             PROVE  ~ Empty(AccountOf(db, a)')
    BY DEF NoneEmptied
<1> DEFINE old == AccountOf(db, a)
           acc == [old EXCEPT !.balance = @ - 1]
<1>1. ~ committed
    BY DEF SubBalance, RunInv
<1>2. StoredAccount(stored, a) = AccountOf(NewPikaStateDB, a)
    BY DEF AccountOf, StoredAccount, NewPikaStateDB
<1>3. HasRun(StoredAccount(stored, a))
    BY <1>1, <1>2 DEF RunInv, StoredHaveRun, StoredAccount, Empty
<1>4. old \in Account /\ old.nonce \in Nat
    BY AccountRead, ConstantsOK DEF Account
<1>5. old.nonce > 0 \/ old.code # None
    BY <1>3, InNewTerms DEF RunInv, HaveRunIn, AsBefore, HasRun
<1>6. acc.nonce = old.nonce /\ acc.code = old.code /\ acc # Absent
    <2>1. acc.nonce = old.nonce /\ acc.code = old.code
        BY <1>4 DEF Account
    <2>2. old.balance \in 0..MaxBalance /\ old.balance >= 1 /\ MaxBalance \in Nat
        BY <1>4, ConstantsOK DEF SubBalance, Account
    <2>3. acc \in Account
        BY <1>4, <2>2 DEF Account
    <2> QED BY <2>1, <2>3, ConstantsOK
<1>7. acc # NewAccount
    BY <1>4, <1>5, <1>6 DEF NewAccount
<1>8. db' = [db EXCEPT !.accounts[a] = acc]
    BY DEF SubBalance, Write
<1>9. db'.accounts[a] = acc
    BY <1>8, StateTypes DEF TypedState, IsState, Fields
<1> HIDE DEF acc
<1>10. AccountOf(db, a)' = acc
    BY <1>6, <1>9 DEF AccountOf
<1> QED
    BY <1>7, <1>10 DEF Empty

(***************************************************************************)
(* The same without a condition on the behaviour: reverting is exact       *)
(* whatever the EVM does, if no account is stored that has a balance and   *)
(* has neither sent a transaction nor got code.  This is what the run      *)
(* statedb checks on its instance.                                         *)
(***************************************************************************)
THEOREM RevertsAlways == StoredHaveRun => (Spec => RevertsWorld)
<1> SUFFICES ASSUME StoredHaveRun PROVE Spec => RevertsWorld
    OBVIOUS
<1>1. Spec => []RunInv
    BY InitRun, NextRun, AlwaysSound, PTL DEF Spec
<1>2. SoundInv /\ RunInv => NoneEmptied
    BY RunNotEmptied
<1>3. Spec => [][NoneEmptied]_vars
    BY <1>1, <1>2, AlwaysSound, PTL
<1> QED
    BY <1>3, RevertsExactly, PTL
=============================================================================
