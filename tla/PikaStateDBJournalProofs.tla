---------------------- MODULE PikaStateDBJournalProofs ----------------------
(***************************************************************************)
(* Lemmas about the journal of PikaStateDB: what undoing one entry does to *)
(* each part of the state, what undoing many does, when undoing restores   *)
(* exactly what a caller saw before, and that every kind of change keeps   *)
(* it so.  They speak of any journal and state; PikaStateDBProofs applies  *)
(* them to the methods.                                                    *)
(***************************************************************************)
EXTENDS PikaStateDB, Induction, SequenceTheorems, TLAPS

-----------------------------------------------------------------------------
(***************************************************************************)
(* What undoing the entries of the journal q above the first n makes of    *)
(* the state d, as journal.revert does: UndoTo of the model, for any       *)
(* journal and state instead of the current ones.                          *)
(***************************************************************************)
UndoneFrom(q, d, n, g) ==
    g = [i \in n..Len(q) |-> IF i = Len(q) THEN d ELSE Undo(q[i + 1], g[i + 1])]

Undone(q, d, n) == (CHOOSE g : UndoneFrom(q, d, n, g))[n]

LEMMA UndoToIsUndone == ASSUME NEW n PROVE UndoTo(n) = Undone(journal, db, n)
BY DEF UndoTo, Undone, UndoneFrom

(***************************************************************************)
(* Induction from the length of a journal down to 0, the way entries are   *)
(* undone.                                                                 *)
(***************************************************************************)
LEMMA DownFromLength ==
    ASSUME NEW L \in Nat, NEW S, L \in S,
           \A j \in 1..L : j \in S => j - 1 \in S
    PROVE  \A j \in 0..L : j \in S
<1> DEFINE T == {k \in Nat : k <= L => L - k \in S}
<1>1. 0 \in T
    OBVIOUS
<1>2. ASSUME NEW k \in Nat, k \in T PROVE k + 1 \in T
    <2> SUFFICES ASSUME k + 1 <= L PROVE L - (k + 1) \in S
        OBVIOUS
    <2>1. L - k \in S /\ L - k \in 1..L /\ (L - k) - 1 = L - (k + 1)
        BY <1>2
    <2> QED BY <2>1
<1>3. \A k \in Nat : k \in T
    <2> HIDE DEF T
    <2> QED BY <1>1, <1>2, SetInduction
<1> TAKE j \in 0..L
<1>4. L - j \in Nat /\ L - j <= L /\ L - (L - j) = j
    OBVIOUS
<1> QED
    BY <1>3, <1>4

(***************************************************************************)
(* The function UndoneFrom describes exists, it is the same one whichever  *)
(* n it starts from, and so undoing one entry more is undoing that entry.  *)
(***************************************************************************)
LEMMA UndoneExists ==
    ASSUME NEW q, Len(q) \in Nat, NEW d
    PROVE  \A n \in 0..Len(q) : \E g : UndoneFrom(q, d, n, g)
<1> DEFINE S == {n \in 0..Len(q) : \E g : UndoneFrom(q, d, n, g)}
           L == Len(q)
<1>1. L \in S
    <2> DEFINE g == [i \in L..L |-> d]
    <2>1. g = [i \in L..L |-> IF i = L THEN d ELSE Undo(q[i + 1], g[i + 1])]
        OBVIOUS
    <2> QED BY <2>1 DEF UndoneFrom
<1>2. ASSUME NEW j \in 1..L, j \in S PROVE j - 1 \in S
    <2>1. PICK g : UndoneFrom(q, d, j, g)
        BY <1>2
    <2> DEFINE h == [i \in (j - 1)..L |-> IF i = j - 1 THEN Undo(q[j], g[j]) ELSE g[i]]
    <2>2. ASSUME NEW i \in (j - 1)..L
          PROVE  h[i] = IF i = L THEN d ELSE Undo(q[i + 1], h[i + 1])
        <3>1. CASE i = j - 1
            <4>1. i # L /\ i + 1 = j /\ j \in (j - 1)..L /\ j # j - 1
                BY <3>1
            <4>2. h[i] = Undo(q[j], g[j]) /\ h[j] = g[j]
                BY <3>1, <4>1
            <4> QED BY <4>1, <4>2
        <3>2. CASE i # j - 1
            <4>1. i \in j..L
                BY <3>2
            <4>2. h[i] = g[i]
                BY <3>2
            <4>3. g[i] = IF i = L THEN d ELSE Undo(q[i + 1], g[i + 1])
                BY <2>1, <4>1 DEF UndoneFrom
            <4>4. i # L => i + 1 \in (j - 1)..L /\ i + 1 # j - 1
                BY <4>1
            <4>5. i # L => h[i + 1] = g[i + 1]
                BY <4>4
            <4> HIDE DEF h
            <4> QED BY <4>2, <4>3, <4>5
        <3> QED BY <3>1, <3>2
    <2>3. h = [i \in (j - 1)..L |-> h[i]]
        OBVIOUS
    <2> HIDE DEF h
    <2>4. h = [i \in (j - 1)..L |-> IF i = L THEN d ELSE Undo(q[i + 1], h[i + 1])]
        BY <2>2, <2>3
    <2> QED BY <2>4 DEF UndoneFrom
<1> HIDE DEF S
<1>3. \A j \in 0..L : j \in S
    BY <1>1, <1>2, DownFromLength
<1> QED
    BY <1>3 DEF S

LEMMA UndoneUnique ==
    ASSUME NEW q, Len(q) \in Nat, NEW d, NEW n \in 0..Len(q), NEW m \in 0..Len(q),
           NEW g, UndoneFrom(q, d, n, g), NEW h, UndoneFrom(q, d, m, h)
    PROVE  \A i \in 0..Len(q) : i >= n /\ i >= m => g[i] = h[i]
<1> DEFINE L == Len(q)
           S == {i \in 0..L : i >= n /\ i >= m => g[i] = h[i]}
<1>1. \A i \in n..L : g[i] = IF i = L THEN d ELSE Undo(q[i + 1], g[i + 1])
    BY DEF UndoneFrom
<1>2. \A i \in m..L : h[i] = IF i = L THEN d ELSE Undo(q[i + 1], h[i + 1])
    BY DEF UndoneFrom
<1>3. L \in S
    BY <1>1, <1>2
<1>4. ASSUME NEW j \in 1..L, j \in S PROVE j - 1 \in S
    <2> SUFFICES ASSUME j - 1 >= n, j - 1 >= m PROVE g[j - 1] = h[j - 1]
        OBVIOUS
    <2>1. j - 1 \in n..L /\ j - 1 \in m..L /\ j - 1 # L /\ j - 1 + 1 = j
        OBVIOUS
    <2>2. g[j] = h[j]
        BY <1>4
    <2>3. g[j - 1] = Undo(q[j], g[j]) /\ h[j - 1] = Undo(q[j], h[j])
        BY <1>1, <1>2, <2>1
    <2> QED BY <2>2, <2>3
<1> HIDE DEF S
<1>5. \A j \in 0..L : j \in S
    BY <1>3, <1>4, DownFromLength
<1> QED
    BY <1>5 DEF S

LEMMA UndoneSteps ==
    ASSUME NEW q, Len(q) \in Nat, NEW d
    PROVE  /\ Undone(q, d, Len(q)) = d
           /\ \A n \in 1..Len(q) : Undone(q, d, n - 1) = Undo(q[n], Undone(q, d, n))
<1> DEFINE L == Len(q)
           F(n) == CHOOSE g : UndoneFrom(q, d, n, g)
<1>1. ASSUME NEW n \in 0..L PROVE UndoneFrom(q, d, n, F(n))
    <2>1. \E g : UndoneFrom(q, d, n, g)
        BY UndoneExists
    <2> QED BY <2>1
<1>2. \A n \in 0..L : Undone(q, d, n) = F(n)[n]
    BY DEF Undone
<1> HIDE DEF F
<1>3. ASSUME NEW n \in 0..L
      PROVE  \A i \in n..L : F(n)[i] = IF i = L THEN d ELSE Undo(q[i + 1], F(n)[i + 1])
    <2>1. F(n) = [i \in n..L |-> IF i = L THEN d ELSE Undo(q[i + 1], F(n)[i + 1])]
        BY <1>1 DEF UndoneFrom
    <2> QED BY <2>1
<1>4. Undone(q, d, L) = d
    <2>1. L \in 0..L /\ L \in L..L
        OBVIOUS
    <2> QED BY <1>2, <1>3, <2>1
<1>5. ASSUME NEW n \in 1..L PROVE Undone(q, d, n - 1) = Undo(q[n], Undone(q, d, n))
    <2>1. n \in 0..L /\ n - 1 \in 0..L /\ n >= n - 1 /\ n >= n
          /\ n - 1 \in (n - 1)..L /\ n - 1 # L /\ n - 1 + 1 = n
        OBVIOUS
    <2>2. F(n - 1)[n] = F(n)[n]
        BY <1>1, <2>1, UndoneUnique
    <2>3. F(n - 1)[n - 1] = Undo(q[n], F(n - 1)[n])
        BY <1>3, <2>1
    <2> QED BY <1>2, <2>1, <2>2, <2>3
<1> QED
    BY <1>4, <1>5

(***************************************************************************)
(* Undoing a journal with an entry added: that entry first, then the       *)
(* others.                                                                 *)
(***************************************************************************)
LEMMA UndoneAppend ==
    ASSUME NEW S, NEW q \in Seq(S), NEW e \in S, NEW d
    PROVE  \A n \in 0..Len(q) : Undone(Append(q, e), d, n) = Undone(q, Undo(e, d), n)
<1> DEFINE L == Len(q)
           r == Append(q, e)
           U == {n \in 0..L : Undone(r, d, n) = Undone(q, Undo(e, d), n)}
<1>1. /\ L \in Nat /\ Len(r) = L + 1 /\ r[L + 1] = e
      /\ \A i \in 1..L : r[i] = q[i]
    OBVIOUS
<1> HIDE DEF r
<1>2. /\ Undone(r, d, L + 1) = d
      /\ \A n \in 1..(L + 1) : Undone(r, d, n - 1) = Undo(r[n], Undone(r, d, n))
    <2>1. Len(r) \in Nat
        BY <1>1
    <2> QED BY <1>1, <2>1, UndoneSteps
<1>3. /\ Undone(q, Undo(e, d), L) = Undo(e, d)
      /\ \A n \in 1..L : Undone(q, Undo(e, d), n - 1) = Undo(q[n], Undone(q, Undo(e, d), n))
    BY <1>1, UndoneSteps
<1>4. L \in U
    <2>1. L + 1 \in 1..(L + 1) /\ L + 1 - 1 = L
        BY <1>1
    <2> QED BY <1>1, <1>2, <1>3, <2>1
<1>5. ASSUME NEW j \in 1..L, j \in U PROVE j - 1 \in U
    <2>1. j \in 1..(L + 1) /\ r[j] = q[j] /\ j - 1 \in 0..L
        BY <1>1
    <2> QED BY <1>2, <1>3, <1>5, <2>1
<1> HIDE DEF U
<1>6. \A j \in 0..L : j \in U
    BY <1>1, <1>4, <1>5, DownFromLength
<1> QED
    BY <1>6 DEF U, r

(***************************************************************************)
(* Undoing down to m and then, in the journal cut there, down to n.        *)
(***************************************************************************)
LEMMA UndonePrefix ==
    ASSUME NEW S, NEW q \in Seq(S), NEW m \in 0..Len(q), NEW d
    PROVE  \A n \in 0..m : Undone(SubSeq(q, 1, m), Undone(q, d, m), n) = Undone(q, d, n)
<1> DEFINE r == SubSeq(q, 1, m)
           c == Undone(q, d, m)
           U == {n \in 0..m : Undone(r, c, n) = Undone(q, d, n)}
<1>1. /\ Len(q) \in Nat /\ m \in Nat /\ m <= Len(q)
      /\ Len(r) = m /\ \A i \in 1..m : r[i] = q[i]
    OBVIOUS
<1>2. \A n \in 1..Len(q) : Undone(q, d, n - 1) = Undo(q[n], Undone(q, d, n))
    BY <1>1, UndoneSteps
<1> HIDE DEF r, c
<1>3. /\ Undone(r, c, m) = c
      /\ \A n \in 1..m : Undone(r, c, n - 1) = Undo(r[n], Undone(r, c, n))
    BY <1>1, UndoneSteps
<1>4. m \in U
    BY <1>1, <1>3 DEF c
<1>5. ASSUME NEW j \in 1..m, j \in U PROVE j - 1 \in U
    <2>1. j \in 1..Len(q) /\ r[j] = q[j] /\ j - 1 \in 0..m
        BY <1>1
    <2> QED BY <1>2, <1>3, <1>5, <2>1
<1> HIDE DEF U
<1>6. \A j \in 0..m : j \in U
    BY <1>1, <1>4, <1>5, DownFromLength
<1> QED
    BY <1>6 DEF U, r, c

-----------------------------------------------------------------------------
(***************************************************************************)
(* One entry.  Each part of the state has its own undoing, and Undo is all *)
(* of them together.                                                       *)
(***************************************************************************)

(***************************************************************************)
(* The entries that change an account that is in memory: balanceChange,    *)
(* nonceChange, codeChange and suicideChange.                              *)
(***************************************************************************)
AccountTypes == {"balance", "nonce", "code", "suicide"}

(***************************************************************************)
(* The entries the methods make, with every value they can hold.           *)
(***************************************************************************)
Entries ==
    UNION {[type : {"createObject", "accessAddress"}, account : Addresses],
           [type : {"balance"}, account : Addresses, prev : 0..MaxBalance],
           [type : {"nonce"}, account : Addresses, prev : 0..MaxNonce],
           [type : {"code"}, account : Addresses, prev : Codes \cup {None}],
           [type : {"suicide"}, account : Addresses, prev : 0..MaxBalance, marked : BOOLEAN],
           [type : {"storage"}, account : Addresses, key : Slots, prev : Values],
           [type : {"refund"}, prev : 0..MaxRefund],
           [type : {"addLog"}, txhash : Txs \cup {None}],
           [type : {"accessSlot"}, account : Addresses, key : Slots]}

(***************************************************************************)
(* The account acc, and each part of the state, as the entry e restores    *)
(* it.                                                                     *)
(***************************************************************************)
EarlierAccount(e, acc) ==
    CASE e.type \in {"balance", "suicide"} -> [acc EXCEPT !.balance = e.prev]
      [] e.type = "nonce" -> [acc EXCEPT !.nonce = e.prev]
      [] e.type = "code" -> [acc EXCEPT !.code = e.prev]

EarlierAccounts(e, accounts) ==
    IF e.type = "createObject" THEN [accounts EXCEPT ![e.account] = Absent]
    ELSE IF e.type \in AccountTypes /\ accounts[e.account] # Absent
         THEN [accounts EXCEPT ![e.account] = EarlierAccount(e, @)]
         ELSE accounts

EarlierStorages(e, storages) ==
    IF e.type = "storage" THEN [storages EXCEPT ![e.account][e.key] = e.prev] ELSE storages

EarlierCodes(e, codes) == IF e.type = "code" THEN codes \cup {e.prev} ELSE codes

EarlierSuicides(e, suicides) ==
    IF e.type # "suicide" THEN suicides
    ELSE IF e.marked THEN suicides \cup {e.account} ELSE suicides \ {e.account}

EarlierLogs(e, logs) == IF e.type = "addLog" THEN [logs EXCEPT ![e.txhash] = Front(@)] ELSE logs

EarlierLogSize(e, n) == IF e.type = "addLog" THEN n - 1 ELSE n

EarlierRefund(e, refund) == IF e.type = "refund" THEN e.prev ELSE refund

EarlierAccessList(e, list) ==
    IF e.type = "accessAddress" THEN [list EXCEPT ![e.account] = Absent]
    ELSE IF e.type = "accessSlot" /\ list[e.account] # Absent
         THEN [list EXCEPT ![e.account] = @ \ {e.key}]
         ELSE list

(***************************************************************************)
(* The state that has these parts, and what makes a record one.            *)
(***************************************************************************)
Fields(accounts, storages, codes, suicides, logs, logSize, refund, accessList) ==
    [accounts |-> accounts, storages |-> storages, codes |-> codes, suicides |-> suicides,
     logs |-> logs, logSize |-> logSize, refund |-> refund, accessList |-> accessList]

IsState(d) ==
    d = Fields(d.accounts, d.storages, d.codes, d.suicides, d.logs, d.logSize, d.refund, d.accessList)

(***************************************************************************)
(* Undo changes each part of the state as said, whatever the entry.        *)
(***************************************************************************)
LEMMA UndoFields ==
    ASSUME NEW d, IsState(d), NEW e \in Entries
    PROVE  Undo(e, d) = Fields(EarlierAccounts(e, d.accounts), EarlierStorages(e, d.storages),
                               EarlierCodes(e, d.codes), EarlierSuicides(e, d.suicides),
                               EarlierLogs(e, d.logs), EarlierLogSize(e, d.logSize),
                               EarlierRefund(e, d.refund), EarlierAccessList(e, d.accessList))
<1> USE DEF IsState, Fields, AccountTypes
<1>1. CASE e.type = "createObject"
    BY <1>1 DEF Undo, UndoCreateObject, EarlierAccounts, EarlierStorages, EarlierCodes,
               EarlierSuicides, EarlierLogs, EarlierLogSize, EarlierRefund, EarlierAccessList
<1>2. CASE e.type = "balance"
    BY <1>2 DEF Undo, UndoBalance, UndoAccount, EarlierAccount, EarlierAccounts, EarlierStorages, EarlierCodes,
               EarlierSuicides, EarlierLogs, EarlierLogSize, EarlierRefund, EarlierAccessList
<1>3. CASE e.type = "nonce"
    BY <1>3 DEF Undo, UndoNonce, UndoAccount, EarlierAccount, EarlierAccounts, EarlierStorages, EarlierCodes,
               EarlierSuicides, EarlierLogs, EarlierLogSize, EarlierRefund, EarlierAccessList
<1>4. CASE e.type = "code"
    BY <1>4 DEF Undo, UndoCode, UndoAccount, EarlierAccount, EarlierAccounts, EarlierStorages, EarlierCodes,
               EarlierSuicides, EarlierLogs, EarlierLogSize, EarlierRefund, EarlierAccessList
<1>5. CASE e.type = "suicide"
    BY <1>5 DEF Undo, UndoSuicide, UndoBalance, UndoAccount, EarlierAccount, EarlierAccounts, EarlierStorages, EarlierCodes,
               EarlierSuicides, EarlierLogs, EarlierLogSize, EarlierRefund, EarlierAccessList
<1>6. CASE e.type = "storage"
    BY <1>6 DEF Undo, UndoStorage, EarlierAccounts, EarlierStorages, EarlierCodes,
               EarlierSuicides, EarlierLogs, EarlierLogSize, EarlierRefund, EarlierAccessList
<1>7. CASE e.type = "refund"
    BY <1>7 DEF Undo, UndoRefund, EarlierAccounts, EarlierStorages, EarlierCodes,
               EarlierSuicides, EarlierLogs, EarlierLogSize, EarlierRefund, EarlierAccessList
<1>8. CASE e.type = "addLog"
    BY <1>8 DEF Undo, UndoAddLog, EarlierAccounts, EarlierStorages, EarlierCodes,
               EarlierSuicides, EarlierLogs, EarlierLogSize, EarlierRefund, EarlierAccessList
<1>9. CASE e.type = "accessAddress"
    BY <1>9 DEF Undo, UndoAccessAddress, EarlierAccounts, EarlierStorages, EarlierCodes,
               EarlierSuicides, EarlierLogs, EarlierLogSize, EarlierRefund, EarlierAccessList
<1>10. CASE e.type = "accessSlot"
    BY <1>10 DEF Undo, UndoAccessSlot, EarlierAccounts, EarlierStorages, EarlierCodes,
               EarlierSuicides, EarlierLogs, EarlierLogSize, EarlierRefund, EarlierAccessList
<1>11. e.type \in {"createObject", "balance", "nonce", "code", "suicide", "storage", "refund",
                   "addLog", "accessAddress", "accessSlot"}
    BY DEF Entries
<1> QED
    BY <1>1, <1>2, <1>3, <1>4, <1>5, <1>6, <1>7, <1>8, <1>9, <1>10, <1>11

(***************************************************************************)
(* Every account in memory has no code, or one that is in memory or        *)
(* stored: so an account that is loaded, changed or undone never loses its *)
(* code.                                                                   *)
(***************************************************************************)
CodesKnown(st, accounts, codes) ==
    \A a \in Addresses :
        accounts[a] # Absent => accounts[a].code \in {None} \cup codes \cup st.codes

(***************************************************************************)
(* The types of the state's parts, except its logs, with the stored data   *)
(* st.                                                                     *)
(***************************************************************************)
TypedState(st, d) ==
    /\ IsState(d)
    /\ d.accounts \in [Addresses -> Account \cup {Absent}]
    /\ d.storages \in Slotted
    /\ d.codes \subseteq Codes \cup {None}
    /\ d.suicides \subseteq Addresses
    /\ d.refund \in 0..MaxRefund
    /\ d.accessList \in [Addresses -> {Absent} \cup SUBSET Slots]
    /\ CodesKnown(st, d.accounts, d.codes)

(***************************************************************************)
(* The types of an entry's parts.                                          *)
(***************************************************************************)
LEMMA EntryTyped ==
    ASSUME NEW e \in Entries
    PROVE  /\ e.type \in AccountTypes \cup {"createObject", "storage", "accessAddress", "accessSlot"}
                 => e.account \in Addresses
           /\ e.type \in {"balance", "suicide"} => e.prev \in 0..MaxBalance
           /\ e.type = "nonce" => e.prev \in 0..MaxNonce
           /\ e.type = "code" => e.prev \in Codes \cup {None}
           /\ e.type = "storage" => e.key \in Slots /\ e.prev \in Values
           /\ e.type = "refund" => e.prev \in 0..MaxRefund
           /\ e.type = "addLog" => e.txhash \in Txs \cup {None}
           /\ e.type = "accessSlot" => e.key \in Slots
           /\ e.type = "suicide" => e.marked \in BOOLEAN
BY DEF Entries, AccountTypes

(***************************************************************************)
(* Undoing one entry gives typed accounts, and a typed state.              *)
(***************************************************************************)
LEMMA EarlierAccountTyped ==
    ASSUME NEW e \in Entries, e.type \in AccountTypes, NEW acc \in Account
    PROVE  /\ EarlierAccount(e, acc) \in Account
           /\ EarlierAccount(e, acc) # Absent
           /\ EarlierAccount(e, acc).code = IF e.type = "code" THEN e.prev ELSE acc.code
<1>1. EarlierAccount(e, acc) \in Account
    BY EntryTyped DEF AccountTypes, EarlierAccount, Account
<1>2. EarlierAccount(e, acc).code = IF e.type = "code" THEN e.prev ELSE acc.code
    BY EntryTyped DEF AccountTypes, EarlierAccount, Account
<1> QED
    BY <1>1, <1>2, ConstantsOK

LEMMA EarlierAccountsTyped ==
    ASSUME NEW e \in Entries, NEW accounts \in [Addresses -> Account \cup {Absent}]
    PROVE  /\ EarlierAccounts(e, accounts) \in [Addresses -> Account \cup {Absent}]
           /\ \A a \in Addresses :
                 EarlierAccounts(e, accounts)[a] =
                    IF e.type = "createObject" /\ a = e.account THEN Absent
                    ELSE IF e.type \in AccountTypes /\ a = e.account /\ accounts[a] # Absent
                         THEN EarlierAccount(e, accounts[a])
                         ELSE accounts[a]
<1>1. CASE e.type = "createObject"
    BY <1>1, EntryTyped DEF EarlierAccounts, AccountTypes
<1>2. CASE e.type \in AccountTypes
    <2>1. e.account \in Addresses /\ e.type # "createObject"
        BY <1>2, EntryTyped DEF AccountTypes
    <2>2. accounts[e.account] # Absent => EarlierAccount(e, accounts[e.account]) \in Account
        BY <1>2, <2>1, EarlierAccountTyped
    <2> QED
        BY <1>2, <2>1, <2>2 DEF EarlierAccounts
<1>3. CASE e.type # "createObject" /\ e.type \notin AccountTypes
    BY <1>3 DEF EarlierAccounts
<1> QED
    BY <1>1, <1>2, <1>3

LEMMA UndoTyped ==
    ASSUME NEW st, NEW d, TypedState(st, d), NEW e \in Entries
    PROVE  TypedState(st, Undo(e, d))
<1> DEFINE x == Undo(e, d)
<1>1. x = Fields(EarlierAccounts(e, d.accounts), EarlierStorages(e, d.storages),
                 EarlierCodes(e, d.codes), EarlierSuicides(e, d.suicides),
                 EarlierLogs(e, d.logs), EarlierLogSize(e, d.logSize),
                 EarlierRefund(e, d.refund), EarlierAccessList(e, d.accessList))
    BY UndoFields DEF TypedState
<1> HIDE DEF x
<1>2. /\ x.accounts = EarlierAccounts(e, d.accounts)
      /\ x.storages = EarlierStorages(e, d.storages)
      /\ x.codes = EarlierCodes(e, d.codes)
      /\ x.suicides = EarlierSuicides(e, d.suicides)
      /\ x.refund = EarlierRefund(e, d.refund)
      /\ x.accessList = EarlierAccessList(e, d.accessList)
    BY <1>1 DEF Fields
<1>3. IsState(x)
    BY <1>1 DEF Fields, IsState
<1>4. EarlierAccounts(e, d.accounts) \in [Addresses -> Account \cup {Absent}]
    BY EarlierAccountsTyped DEF TypedState
<1>5. EarlierStorages(e, d.storages) \in Slotted
    BY EntryTyped DEF EarlierStorages, Slotted, TypedState
<1>6. EarlierCodes(e, d.codes) \subseteq Codes \cup {None} /\ d.codes \subseteq EarlierCodes(e, d.codes)
    BY EntryTyped DEF EarlierCodes, TypedState
<1>7. EarlierSuicides(e, d.suicides) \subseteq Addresses
    BY EntryTyped DEF EarlierSuicides, TypedState, AccountTypes
<1>8. EarlierRefund(e, d.refund) \in 0..MaxRefund
    BY EntryTyped DEF EarlierRefund, TypedState
<1>9. EarlierAccessList(e, d.accessList) \in [Addresses -> {Absent} \cup SUBSET Slots]
    BY EntryTyped DEF EarlierAccessList, TypedState
<1>10. CodesKnown(st, EarlierAccounts(e, d.accounts), EarlierCodes(e, d.codes))
    <2> SUFFICES ASSUME NEW a \in Addresses, EarlierAccounts(e, d.accounts)[a] # Absent
                 PROVE  EarlierAccounts(e, d.accounts)[a].code \in
                            {None} \cup EarlierCodes(e, d.codes) \cup st.codes
        BY DEF CodesKnown
    <2>1. d.accounts \in [Addresses -> Account \cup {Absent}]
        BY DEF TypedState
    <2>2. CASE e.type \in AccountTypes /\ a = e.account /\ d.accounts[a] # Absent /\ e.type = "code"
        BY <2>1, <2>2, EarlierAccountsTyped, EarlierAccountTyped DEF EarlierCodes, AccountTypes
    <2>3. CASE e.type \in AccountTypes /\ a = e.account /\ d.accounts[a] # Absent /\ e.type # "code"
        <3>1. EarlierAccounts(e, d.accounts)[a] = EarlierAccount(e, d.accounts[a])
            BY <2>1, <2>3, EarlierAccountsTyped DEF AccountTypes
        <3>2. EarlierAccounts(e, d.accounts)[a].code = d.accounts[a].code
            BY <2>1, <2>3, <3>1, EarlierAccountTyped
        <3> QED BY <1>6, <2>3, <3>2 DEF TypedState, CodesKnown
    <2>4. CASE ~(e.type \in AccountTypes /\ a = e.account /\ d.accounts[a] # Absent)
        <3>1. EarlierAccounts(e, d.accounts)[a] = d.accounts[a]
            BY <2>1, <2>4, EarlierAccountsTyped
        <3> QED BY <1>6, <3>1 DEF TypedState, CodesKnown
    <2> QED BY <2>2, <2>3, <2>4
<1> QED
    BY <1>2, <1>3, <1>4, <1>5, <1>6, <1>7, <1>8, <1>9, <1>10 DEF TypedState, x

-----------------------------------------------------------------------------
(***************************************************************************)
(* Reading the state: what a caller sees of an account or a slot is what   *)
(* is in memory, and else what is stored.                                  *)
(***************************************************************************)

(***************************************************************************)
(* AccountOf and GetState of the model, with the stored data as an         *)
(* argument.                                                               *)
(***************************************************************************)
AccountIn(st, d, a) ==
    IF d.accounts[a] # Absent THEN d.accounts[a]
    ELSE IF st.accounts[a] # Absent THEN st.accounts[a] ELSE NewAccount

SlotIn(st, d, a, s) ==
    IF d.storages[a][s] # Absent THEN d.storages[a][s]
    ELSE IF st.storages[a][s] # Absent THEN st.storages[a][s] ELSE 0

(***************************************************************************)
(* Two states that read alike but for the accounts.  What is in memory may *)
(* differ: reading an account loads it, and undoing does not unload it.    *)
(***************************************************************************)
Similar(st, x, y) ==
    /\ x.suicides = y.suicides
    /\ x.logs = y.logs
    /\ x.logSize = y.logSize
    /\ x.refund = y.refund
    /\ \A a \in Addresses, s \in Slots : SlotIn(st, x, a, s) = SlotIn(st, y, a, s)

(***************************************************************************)
(* Two states whose accounts read alike, and those in F are in memory in   *)
(* both: the undoing of an entry of a balance changes an account only when *)
(* it is in memory.                                                        *)
(***************************************************************************)
SameAccounts(st, F, x, y) ==
    /\ \A a \in Addresses : AccountIn(st, x, a) = AccountIn(st, y, a)
    /\ \A a \in F : x.accounts[a] # Absent /\ y.accounts[a] # Absent

(***************************************************************************)
(* What undoing one entry does to each part.                               *)
(***************************************************************************)
LEMMA UndoParts ==
    ASSUME NEW d, IsState(d), NEW e \in Entries
    PROVE  /\ Undo(e, d).accounts = EarlierAccounts(e, d.accounts)
           /\ Undo(e, d).storages = EarlierStorages(e, d.storages)
           /\ Undo(e, d).codes = EarlierCodes(e, d.codes)
           /\ Undo(e, d).suicides = EarlierSuicides(e, d.suicides)
           /\ Undo(e, d).logs = EarlierLogs(e, d.logs)
           /\ Undo(e, d).logSize = EarlierLogSize(e, d.logSize)
           /\ Undo(e, d).refund = EarlierRefund(e, d.refund)
           /\ Undo(e, d).accessList = EarlierAccessList(e, d.accessList)
<1>1. Undo(e, d) = Fields(EarlierAccounts(e, d.accounts), EarlierStorages(e, d.storages),
                 EarlierCodes(e, d.codes), EarlierSuicides(e, d.suicides),
                 EarlierLogs(e, d.logs), EarlierLogSize(e, d.logSize),
                 EarlierRefund(e, d.refund), EarlierAccessList(e, d.accessList))
    BY UndoFields
<1> QED
    BY <1>1 DEF Fields

(***************************************************************************)
(* Undoing one entry in two similar states gives similar ones: the slot it *)
(* restores reads the same, and no other is touched.                       *)
(***************************************************************************)
LEMMA UndoneSlot ==
    ASSUME NEW st, NEW d, TypedState(st, d), NEW e \in Entries, NEW a \in Addresses, NEW s \in Slots
    PROVE  SlotIn(st, Undo(e, d), a, s) =
              IF e.type = "storage" /\ a = e.account /\ s = e.key THEN e.prev ELSE SlotIn(st, d, a, s)
<1>1. Undo(e, d).storages = EarlierStorages(e, d.storages) /\ d.storages \in Slotted
    BY UndoParts DEF TypedState
<1>2. e.type = "storage" => e.account \in Addresses /\ e.key \in Slots /\ e.prev # Absent
    BY EntryTyped, ConstantsOK DEF AccountTypes
<1>3. EarlierStorages(e, d.storages)[a][s] =
         IF e.type = "storage" /\ a = e.account /\ s = e.key THEN e.prev ELSE d.storages[a][s]
    BY <1>1, <1>2 DEF EarlierStorages, Slotted
<1> QED
    BY <1>1, <1>2, <1>3 DEF SlotIn

LEMMA UndoSimilar ==
    ASSUME NEW st, NEW x, TypedState(st, x), NEW y, TypedState(st, y), NEW e \in Entries,
           Similar(st, x, y)
    PROVE  Similar(st, Undo(e, x), Undo(e, y))
<1>1. IsState(x) /\ IsState(y)
    BY DEF TypedState
<1>2. ASSUME NEW d, IsState(d)
      PROVE  /\ Undo(e, d).suicides = EarlierSuicides(e, d.suicides)
             /\ Undo(e, d).logs = EarlierLogs(e, d.logs)
             /\ Undo(e, d).logSize = EarlierLogSize(e, d.logSize)
             /\ Undo(e, d).refund = EarlierRefund(e, d.refund)
    BY <1>2, UndoParts
<1>3. \A a \in Addresses, s \in Slots : SlotIn(st, Undo(e, x), a, s) = SlotIn(st, Undo(e, y), a, s)
    BY UndoneSlot DEF Similar
<1> QED
    BY <1>1, <1>2, <1>3 DEF Similar

(***************************************************************************)
(* The same of an account.  An entry that restores an account needs it in  *)
(* memory in both states; and once a creation is undone the account is not *)
(* in memory, so it must not be one that entries before it restore.        *)
(***************************************************************************)
LEMMA UndoneAccount ==
    ASSUME NEW st, NEW d, TypedState(st, d), NEW e \in Entries, NEW a \in Addresses
    PROVE  Undo(e, d).accounts[a] =
              IF e.type = "createObject" /\ a = e.account THEN Absent
              ELSE IF e.type \in AccountTypes /\ a = e.account /\ d.accounts[a] # Absent
                   THEN EarlierAccount(e, d.accounts[a])
                   ELSE d.accounts[a]
<1>1. Undo(e, d).accounts = EarlierAccounts(e, d.accounts)
    BY UndoParts DEF TypedState
<1>2. d.accounts \in [Addresses -> Account \cup {Absent}]
    BY DEF TypedState
<1> QED
    BY <1>1, <1>2, EarlierAccountsTyped

LEMMA UndoneOne ==
    ASSUME NEW st, NEW d, TypedState(st, d), NEW e \in Entries, NEW a \in Addresses
    PROVE  /\ e.type = "createObject" /\ a = e.account => Undo(e, d).accounts[a] = Absent
           /\ e.type \in AccountTypes /\ a = e.account /\ d.accounts[a] # Absent
                 => Undo(e, d).accounts[a] = EarlierAccount(e, d.accounts[a])
           /\ a # e.account \/ e.type \notin AccountTypes \cup {"createObject"}
                 => Undo(e, d).accounts[a] = d.accounts[a]
<1>1. "createObject" \notin AccountTypes
    BY DEF AccountTypes
<1> QED
    BY <1>1, UndoneAccount

LEMMA UndoSameAccounts ==
    ASSUME NEW st, NEW x, TypedState(st, x), NEW y, TypedState(st, y), NEW e \in Entries,
           NEW F \in SUBSET Addresses, NEW G \in SUBSET F,
           SameAccounts(st, F, x, y),
           e.type \in AccountTypes => e.account \in F,
           e.type = "createObject" => e.account \notin G
    PROVE  SameAccounts(st, G, Undo(e, x), Undo(e, y))
<1>1. x.accounts \in [Addresses -> Account \cup {Absent}] /\ y.accounts \in [Addresses -> Account \cup {Absent}]
    BY DEF TypedState
<1>2. ASSUME NEW a \in Addresses
      PROVE  /\ AccountIn(st, Undo(e, x), a) = AccountIn(st, Undo(e, y), a)
             /\ a \in G => Undo(e, x).accounts[a] # Absent /\ Undo(e, y).accounts[a] # Absent
    <2>1. CASE e.type = "createObject" /\ a = e.account
        BY <2>1, UndoneAccount DEF AccountIn
    <2>2. CASE e.type \in AccountTypes /\ a = e.account
        <3>1. x.accounts[a] # Absent /\ y.accounts[a] # Absent /\ x.accounts[a] = y.accounts[a]
            BY <2>2 DEF SameAccounts, AccountIn
        <3>2. /\ Undo(e, x).accounts[a] = EarlierAccount(e, x.accounts[a])
              /\ Undo(e, y).accounts[a] = EarlierAccount(e, y.accounts[a])
            BY <2>2, <3>1, UndoneAccount DEF AccountTypes
        <3>3. EarlierAccount(e, x.accounts[a]) # Absent
            BY <1>1, <2>2, <3>1, EarlierAccountTyped
        <3> QED BY <3>1, <3>2, <3>3 DEF AccountIn
    <2>3. CASE ~(e.type = "createObject" /\ a = e.account) /\ ~(e.type \in AccountTypes /\ a = e.account)
        <3>1. Undo(e, x).accounts[a] = x.accounts[a] /\ Undo(e, y).accounts[a] = y.accounts[a]
            BY <2>3, UndoneAccount
        <3> QED BY <3>1 DEF SameAccounts, AccountIn
    <2> QED BY <2>1, <2>2, <2>3
<1> QED
    BY <1>2 DEF SameAccounts

-----------------------------------------------------------------------------
(***************************************************************************)
(* The journal.  What holds of undoing one entry holds of undoing many.    *)
(***************************************************************************)

LEMMA UndoneTyped ==
    ASSUME NEW st, NEW q \in Seq(Entries), NEW d, TypedState(st, d)
    PROVE  \A j \in 0..Len(q) : TypedState(st, Undone(q, d, j))
<1> DEFINE L == Len(q)
           S == {j \in 0..L : TypedState(st, Undone(q, d, j))}
<1>1. /\ L \in Nat /\ Undone(q, d, L) = d
      /\ \A n \in 1..L : Undone(q, d, n - 1) = Undo(q[n], Undone(q, d, n))
    <2>1. Len(q) \in Nat
        OBVIOUS
    <2> QED BY <2>1, UndoneSteps
<1>2. L \in S
    BY <1>1
<1>3. ASSUME NEW j \in 1..L, j \in S PROVE j - 1 \in S
    <2>1. q[j] \in Entries
        BY ElementOfSeq
    <2> QED BY <1>1, <1>3, <2>1, UndoTyped
<1> HIDE DEF S
<1>4. \A j \in 0..L : j \in S
    BY <1>1, <1>2, <1>3, DownFromLength
<1> QED
    BY <1>4 DEF S

LEMMA UndoneSimilar ==
    ASSUME NEW st, NEW q \in Seq(Entries), NEW x, TypedState(st, x), NEW y, TypedState(st, y),
           Similar(st, x, y)
    PROVE  \A j \in 0..Len(q) : Similar(st, Undone(q, x, j), Undone(q, y, j))
<1> DEFINE L == Len(q)
           S == {j \in 0..L : Similar(st, Undone(q, x, j), Undone(q, y, j))}
<1>1. /\ L \in Nat /\ Undone(q, x, L) = x /\ Undone(q, y, L) = y
      /\ \A n \in 1..L : Undone(q, x, n - 1) = Undo(q[n], Undone(q, x, n))
      /\ \A n \in 1..L : Undone(q, y, n - 1) = Undo(q[n], Undone(q, y, n))
    <2>1. Len(q) \in Nat
        OBVIOUS
    <2> QED BY <2>1, UndoneSteps
<1>2. L \in S
    BY <1>1
<1>3. ASSUME NEW j \in 1..L, j \in S PROVE j - 1 \in S
    <2>1. q[j] \in Entries
        BY ElementOfSeq
    <2>2. TypedState(st, Undone(q, x, j)) /\ TypedState(st, Undone(q, y, j))
        BY UndoneTyped
    <2> QED BY <1>1, <1>3, <2>1, <2>2, UndoSimilar
<1> HIDE DEF S
<1>4. \A j \in 0..L : j \in S
    BY <1>1, <1>2, <1>3, DownFromLength
<1> QED
    BY <1>4 DEF S

(***************************************************************************)
(* The accounts that the entries from f + 1 to j restore when they are     *)
(* undone.                                                                 *)
(***************************************************************************)
Touched(q, f, j) == {q[p].account : p \in {k \in (f + 1)..j : q[k].type \in AccountTypes}}

(***************************************************************************)
(* Above f the creation of an account comes before all its changes.  It is *)
(* so when no account is emptied: CreateAccount of an account that is      *)
(* there does nothing.                                                     *)
(***************************************************************************)
CreatedFirst(q, f) ==
    \A p \in (f + 1)..Len(q) : q[p].type = "createObject" => q[p].account \notin Touched(q, f, p - 1)

LEMMA UndoneSameAccounts ==
    ASSUME NEW st, NEW q \in Seq(Entries), NEW x, TypedState(st, x), NEW y, TypedState(st, y),
           NEW f \in 0..Len(q),
           SameAccounts(st, Touched(q, f, Len(q)), x, y), CreatedFirst(q, f)
    PROVE  \A j \in f..Len(q) : SameAccounts(st, Touched(q, f, j), Undone(q, x, j), Undone(q, y, j))
<1> DEFINE L == Len(q)
           S == {j \in 0..L : j >= f =>
                    SameAccounts(st, Touched(q, f, j), Undone(q, x, j), Undone(q, y, j))}
<1>1. /\ L \in Nat /\ Undone(q, x, L) = x /\ Undone(q, y, L) = y
      /\ \A n \in 1..L : Undone(q, x, n - 1) = Undo(q[n], Undone(q, x, n))
      /\ \A n \in 1..L : Undone(q, y, n - 1) = Undo(q[n], Undone(q, y, n))
    <2>1. Len(q) \in Nat
        OBVIOUS
    <2> QED BY <2>1, UndoneSteps
<1>2. L \in S
    BY <1>1
<1>3. ASSUME NEW j \in 1..L, j \in S, j - 1 >= f
      PROVE  SameAccounts(st, Touched(q, f, j - 1), Undone(q, x, j - 1), Undone(q, y, j - 1))
    <2>1. q[j] \in Entries /\ j \in (f + 1)..L /\ j >= f
        BY <1>1, <1>3, ElementOfSeq
    <2>2. TypedState(st, Undone(q, x, j)) /\ TypedState(st, Undone(q, y, j))
        BY UndoneTyped
    <2>3. Touched(q, f, j - 1) \subseteq Touched(q, f, j)
        BY <2>1 DEF Touched
    <2>4. Touched(q, f, j) \subseteq Addresses
        <3>1. \A p \in (f + 1)..j : q[p] \in Entries
            BY <1>1, ElementOfSeq
        <3> QED BY <3>1, EntryTyped DEF Touched
    <2>5. q[j].type \in AccountTypes => q[j].account \in Touched(q, f, j)
        BY <2>1 DEF Touched
    <2>6. q[j].type = "createObject" => q[j].account \notin Touched(q, f, j - 1)
        BY <2>1 DEF CreatedFirst
    <2>7. SameAccounts(st, Touched(q, f, j), Undone(q, x, j), Undone(q, y, j))
        BY <1>3, <2>1
    <2>8. SameAccounts(st, Touched(q, f, j - 1), Undo(q[j], Undone(q, x, j)), Undo(q[j], Undone(q, y, j)))
        BY <2>1, <2>2, <2>3, <2>4, <2>5, <2>6, <2>7, UndoSameAccounts
    <2> QED BY <1>1, <2>8
<1>4. \A j \in 1..L : j \in S => j - 1 \in S
    BY <1>1, <1>3
<1> HIDE DEF S
<1>5. \A j \in 0..L : j \in S
    BY <1>1, <1>2, <1>4, DownFromLength
<1> QED
    BY <1>1, <1>5 DEF S

(***************************************************************************)
(* The logs of a state reached with j entries: their indexes are the       *)
(* numbers below logSize, each once, and in increasing order under each    *)
(* hash.                                                                   *)
(***************************************************************************)
LogsNumbered(x, j) ==
    /\ x.logs \in [Txs \cup {None} -> Seq(Nat)]
    /\ x.logSize \in 0..j
    /\ \A t \in Txs \cup {None} : \A i \in 1..Len(x.logs[t]) : x.logs[t][i] < x.logSize
    /\ \A n \in Nat : n < x.logSize =>
          \E t \in Txs \cup {None} : \E i \in 1..Len(x.logs[t]) : x.logs[t][i] = n
    /\ \A t, u \in Txs \cup {None} : \A i \in 1..Len(x.logs[t]), k \in 1..Len(x.logs[u]) :
          x.logs[t][i] = x.logs[u][k] => t = u
    /\ \A t \in Txs \cup {None} : \A i, k \in 1..Len(x.logs[t]) :
          i < k => x.logs[t][i] < x.logs[t][k]

(***************************************************************************)
(* A journal of the program, with the state it belongs to: whatever is     *)
(* undone leaves a typed state and numbered logs.                          *)
(***************************************************************************)
SoundJournal(st, q, d) ==
    /\ q \in Seq(Entries)
    /\ TypedState(st, d)
    /\ \A j \in 0..Len(q) : LogsNumbered(Undone(q, d, j), j)

(***************************************************************************)
(* A journal stays sound when an entry is added that undoes what is done   *)
(* to the state, when accounts are only loaded, and when it is cut.        *)
(***************************************************************************)
LEMMA SimilarLogs ==
    ASSUME NEW st, NEW x, NEW y, Similar(st, x, y), NEW j, LogsNumbered(x, j)
    PROVE  LogsNumbered(y, j)
BY DEF Similar, LogsNumbered

LEMMA SoundAfter ==
    ASSUME NEW st, NEW q, NEW c, SoundJournal(st, q, c), NEW e \in Entries,
           NEW d, TypedState(st, d), Similar(st, c, Undo(e, d)), LogsNumbered(d, Len(q) + 1)
    PROVE  SoundJournal(st, Append(q, e), d)
<1>1. q \in Seq(Entries) /\ TypedState(st, c) /\ Len(q) \in Nat
    BY DEF SoundJournal
<1>2. /\ Append(q, e) \in Seq(Entries) /\ Len(Append(q, e)) = Len(q) + 1
    BY <1>1
<1>3. ASSUME NEW j \in 0..(Len(q) + 1) PROVE LogsNumbered(Undone(Append(q, e), d, j), j)
    <2>1. CASE j = Len(q) + 1
        <3>1. Len(Append(q, e)) \in Nat
            BY <1>1, <1>2
        <3>2. Undone(Append(q, e), d, Len(Append(q, e))) = d
            BY <3>1, UndoneSteps
        <3> QED BY <1>2, <2>1, <3>2
    <2>2. CASE j \in 0..Len(q)
        <3>1. Undone(Append(q, e), d, j) = Undone(q, Undo(e, d), j)
            BY <1>1, <2>2, UndoneAppend
        <3>2. Similar(st, Undone(q, c, j), Undone(q, Undo(e, d), j))
            BY <1>1, <2>2, UndoTyped, UndoneSimilar
        <3> QED BY <2>2, <3>1, <3>2, SimilarLogs DEF SoundJournal
    <2> QED BY <1>1, <2>1, <2>2
<1> QED
    BY <1>2, <1>3 DEF SoundJournal

LEMMA SoundReplaced ==
    ASSUME NEW st, NEW q, NEW c, SoundJournal(st, q, c),
           NEW d, TypedState(st, d), Similar(st, c, d)
    PROVE  SoundJournal(st, q, d)
<1>1. q \in Seq(Entries) /\ TypedState(st, c)
    BY DEF SoundJournal
<1>2. ASSUME NEW j \in 0..Len(q) PROVE LogsNumbered(Undone(q, d, j), j)
    <2>1. Similar(st, Undone(q, c, j), Undone(q, d, j))
        BY <1>1, UndoneSimilar
    <2> QED BY <2>1, SimilarLogs DEF SoundJournal
<1> QED
    BY <1>1, <1>2 DEF SoundJournal

LEMMA SoundCut ==
    ASSUME NEW st, NEW q, NEW c, SoundJournal(st, q, c), NEW n \in 0..Len(q)
    PROVE  SoundJournal(st, SubSeq(q, 1, n), Undone(q, c, n))
<1>1. q \in Seq(Entries) /\ TypedState(st, c) /\ Len(q) \in Nat
    BY DEF SoundJournal
<1>2. SubSeq(q, 1, n) \in Seq(Entries) /\ Len(SubSeq(q, 1, n)) = n
    BY <1>1
<1>3. TypedState(st, Undone(q, c, n))
    BY <1>1, UndoneTyped
<1>4. ASSUME NEW j \in 0..n PROVE LogsNumbered(Undone(SubSeq(q, 1, n), Undone(q, c, n), j), j)
    <2>1. j \in 0..Len(q)
        BY <1>1
    <2>2. Undone(SubSeq(q, 1, n), Undone(q, c, n), j) = Undone(q, c, j)
        BY <1>1, UndonePrefix
    <2> QED BY <2>1, <2>2 DEF SoundJournal
<1> QED
    BY <1>2, <1>3, <1>4 DEF SoundJournal

-----------------------------------------------------------------------------
(***************************************************************************)
(* What undoing the journal restores, exactly.                             *)
(***************************************************************************)

(***************************************************************************)
(* The account a block begins with.                                        *)
(***************************************************************************)
StoredAccount(st, a) == IF st.accounts[a] # Absent THEN st.accounts[a] ELSE NewAccount

(***************************************************************************)
(* The accounts in F are in memory and differ from a new one, and an       *)
(* account that reads as a new one is stored as one, or not at all: no     *)
(* account has been emptied.                                               *)
(***************************************************************************)
AccountsKept(st, F, x) ==
    /\ \A a \in F : x.accounts[a] # Absent /\ AccountIn(st, x, a) # NewAccount
    /\ \A a \in Addresses : AccountIn(st, x, a) = NewAccount => StoredAccount(st, a) = NewAccount

(***************************************************************************)
(* A sound journal that restores every earlier state exactly down to the   *)
(* place f: below f the accounts that entries change were loaded in        *)
(* another block or have been emptied since, and no snapshot points there. *)
(***************************************************************************)
ExactJournal(st, q, d, f) ==
    /\ SoundJournal(st, q, d)
    /\ f \in 0..Len(q)
    /\ \A j \in f..Len(q) : AccountsKept(st, Touched(q, f, j), Undone(q, d, j))
    /\ CreatedFirst(q, f)

(***************************************************************************)
(* What a caller sees of a state: WorldView of the model, with the stored  *)
(* data as an argument.                                                    *)
(***************************************************************************)
ViewIn(st, d) ==
    [accounts |-> [a \in Addresses |-> AccountIn(st, d, a)],
     codes    |-> [a \in Addresses |-> AccountIn(st, d, a).code],
     storages |-> [a \in Addresses |-> [s \in Slots |-> SlotIn(st, d, a, s)]],
     suicides |-> d.suicides,
     logs     |-> d.logs,
     logSize  |-> d.logSize,
     refund   |-> d.refund]

LEMMA SameView ==
    ASSUME NEW st, NEW x, NEW y, NEW F, Similar(st, x, y), SameAccounts(st, F, x, y)
    PROVE  ViewIn(st, x) = ViewIn(st, y)
BY DEF Similar, SameAccounts, ViewIn

LEMMA KeptInBoth ==
    ASSUME NEW st, NEW F \in SUBSET Addresses, NEW x, NEW y,
           SameAccounts(st, F, x, y), AccountsKept(st, F, x)
    PROVE  AccountsKept(st, F, y)
BY DEF SameAccounts, AccountsKept

LEMMA TouchedAddresses ==
    ASSUME NEW q \in Seq(Entries), NEW f \in 0..Len(q), NEW j \in f..Len(q)
    PROVE  Touched(q, f, j) \in SUBSET Addresses
<1>1. \A p \in (f + 1)..j : q[p] \in Entries
    BY ElementOfSeq
<1> QED BY <1>1, EntryTyped DEF Touched

LEMMA TouchedSame ==
    ASSUME NEW q, NEW r, NEW f \in Nat, NEW j \in Nat, \A p \in 1..j : q[p] = r[p]
    PROVE  \A k \in f..j : Touched(q, f, k) = Touched(r, f, k)
BY DEF Touched

(***************************************************************************)
(* An exact journal stays exact, and restores the same views, when an      *)
(* entry is added that undoes what is done, when accounts are only loaded, *)
(* and when it is cut.                                                     *)
(***************************************************************************)
LEMMA ExactAfter ==
    ASSUME NEW st, NEW q, NEW c, NEW f, ExactJournal(st, q, c, f), NEW e \in Entries,
           NEW d, SoundJournal(st, Append(q, e), d),
           Similar(st, c, Undo(e, d)),
           SameAccounts(st, Touched(q, f, Len(q)), c, Undo(e, d)),
           AccountsKept(st, Touched(Append(q, e), f, Len(q) + 1), d),
           e.type = "createObject" => e.account \notin Touched(q, f, Len(q))
    PROVE  /\ ExactJournal(st, Append(q, e), d, f)
           /\ \A j \in f..Len(q) : ViewIn(st, Undone(Append(q, e), d, j)) = ViewIn(st, Undone(q, c, j))
<1> DEFINE r == Append(q, e)
           L == Len(q)
<1>1. q \in Seq(Entries) /\ TypedState(st, c) /\ TypedState(st, d) /\ L \in Nat /\ f \in 0..L
    BY DEF ExactJournal, SoundJournal
<1>2. /\ Len(r) = L + 1 /\ r[L + 1] = e
      /\ \A p \in 1..L : r[p] = q[p]
    BY <1>1
<1>3. \A k \in f..L : Touched(r, f, k) = Touched(q, f, k)
    <2> HIDE DEF r, L
    <2>1. f \in Nat /\ L \in Nat /\ \A p \in 1..L : r[p] = q[p]
        BY <1>1, <1>2
    <2> QED BY <2>1, TouchedSame, SMTT(30)
<1>4. ASSUME NEW j \in f..L
      PROVE  /\ Undone(r, d, j) = Undone(q, Undo(e, d), j)
             /\ Similar(st, Undone(q, c, j), Undone(q, Undo(e, d), j))
             /\ SameAccounts(st, Touched(q, f, j), Undone(q, c, j), Undone(q, Undo(e, d), j))
    <2>1. TypedState(st, Undo(e, d))
        BY <1>1, UndoTyped
    <2>2. Undone(r, d, j) = Undone(q, Undo(e, d), j)
        BY <1>1, UndoneAppend
    <2>3. Similar(st, Undone(q, c, j), Undone(q, Undo(e, d), j))
        BY <1>1, <2>1, UndoneSimilar
    <2>4. SameAccounts(st, Touched(q, f, j), Undone(q, c, j), Undone(q, Undo(e, d), j))
        BY <1>1, <2>1, UndoneSameAccounts DEF ExactJournal
    <2> QED BY <2>2, <2>3, <2>4
<1> HIDE DEF r
<1>5. ASSUME NEW j \in f..(L + 1) PROVE AccountsKept(st, Touched(r, f, j), Undone(r, d, j))
    <2>1. CASE j = L + 1
        <3>1. Len(r) \in Nat
            BY <1>1, <1>2
        <3>2. Undone(r, d, Len(r)) = d
            BY <3>1, UndoneSteps
        <3> QED BY <1>2, <2>1, <3>2 DEF r
    <2>2. CASE j \in f..L
        <3>1. Touched(q, f, j) \in SUBSET Addresses
            BY <1>1, <2>2, TouchedAddresses
        <3>2. AccountsKept(st, Touched(q, f, j), Undone(q, c, j))
            BY <2>2 DEF ExactJournal
        <3>3. AccountsKept(st, Touched(q, f, j), Undone(q, Undo(e, d), j))
            BY <1>4, <2>2, <3>1, <3>2, KeptInBoth
        <3> QED BY <1>3, <1>4, <2>2, <3>3
    <2> QED BY <1>1, <2>1, <2>2
<1>6. CreatedFirst(r, f)
    <2> SUFFICES ASSUME NEW p \in (f + 1)..(L + 1), r[p].type = "createObject"
                 PROVE  r[p].account \notin Touched(r, f, p - 1)
        BY <1>2 DEF CreatedFirst
    <2>1. p - 1 \in f..L /\ Touched(r, f, p - 1) = Touched(q, f, p - 1)
        BY <1>1, <1>3
    <2>2. CASE p = L + 1
        BY <1>1, <1>2, <2>1, <2>2
    <2>3. CASE p \in (f + 1)..L
        BY <1>2, <2>1, <2>3 DEF ExactJournal, CreatedFirst
    <2> QED BY <1>1, <2>2, <2>3
<1>7. ExactJournal(st, r, d, f)
    BY <1>2, <1>5, <1>6 DEF ExactJournal, r
<1>8. \A j \in f..L : ViewIn(st, Undone(r, d, j)) = ViewIn(st, Undone(q, c, j))
    BY <1>4, SameView
<1> QED
    BY <1>7, <1>8 DEF r

LEMMA ExactReplaced ==
    ASSUME NEW st, NEW q, NEW c, NEW f, ExactJournal(st, q, c, f), NEW d, SoundJournal(st, q, d),
           Similar(st, c, d), SameAccounts(st, Touched(q, f, Len(q)), c, d)
    PROVE  /\ ExactJournal(st, q, d, f)
           /\ \A j \in f..Len(q) : ViewIn(st, Undone(q, d, j)) = ViewIn(st, Undone(q, c, j))
<1>1. q \in Seq(Entries) /\ TypedState(st, c) /\ TypedState(st, d) /\ f \in 0..Len(q)
    BY DEF ExactJournal, SoundJournal
<1>2. ASSUME NEW j \in f..Len(q)
      PROVE  /\ Similar(st, Undone(q, c, j), Undone(q, d, j))
             /\ SameAccounts(st, Touched(q, f, j), Undone(q, c, j), Undone(q, d, j))
    <2>1. Similar(st, Undone(q, c, j), Undone(q, d, j))
        BY <1>1, UndoneSimilar
    <2>2. SameAccounts(st, Touched(q, f, j), Undone(q, c, j), Undone(q, d, j))
        BY <1>1, UndoneSameAccounts DEF ExactJournal
    <2> QED BY <2>1, <2>2
<1>3. ASSUME NEW j \in f..Len(q) PROVE AccountsKept(st, Touched(q, f, j), Undone(q, d, j))
    BY <1>1, <1>2, TouchedAddresses, KeptInBoth DEF ExactJournal
<1>4. \A j \in f..Len(q) : ViewIn(st, Undone(q, d, j)) = ViewIn(st, Undone(q, c, j))
    BY <1>2, SameView
<1> QED
    BY <1>3, <1>4 DEF ExactJournal

LEMMA ExactCut ==
    ASSUME NEW st, NEW q, NEW c, NEW f, ExactJournal(st, q, c, f), NEW n \in f..Len(q)
    PROVE  ExactJournal(st, SubSeq(q, 1, n), Undone(q, c, n), f)
<1> DEFINE r == SubSeq(q, 1, n)
<1>1. q \in Seq(Entries) /\ Len(q) \in Nat /\ f \in 0..Len(q)
    BY DEF ExactJournal, SoundJournal
<1>2. Len(r) = n /\ \A p \in 1..n : r[p] = q[p]
    BY <1>1
<1>3. SoundJournal(st, r, Undone(q, c, n))
    BY SoundCut DEF ExactJournal
<1> HIDE DEF r
<1>4. \A k \in f..n : Touched(r, f, k) = Touched(q, f, k)
    BY <1>1, <1>2, TouchedSame
<1>5. ASSUME NEW j \in f..n PROVE AccountsKept(st, Touched(r, f, j), Undone(r, Undone(q, c, n), j))
    <2>1. j \in 0..Len(q)
        BY <1>1
    <2>2. Undone(r, Undone(q, c, n), j) = Undone(q, c, j)
        BY <1>1, UndonePrefix DEF r
    <2> QED BY <1>4, <2>1, <2>2 DEF ExactJournal
<1>6. CreatedFirst(r, f)
    <2> SUFFICES ASSUME NEW p \in (f + 1)..n, r[p].type = "createObject"
                 PROVE  r[p].account \notin Touched(r, f, p - 1)
        BY <1>2 DEF CreatedFirst
    <2>1. p - 1 \in f..n /\ p \in (f + 1)..Len(q)
        BY <1>1
    <2> QED BY <1>2, <1>4, <2>1 DEF ExactJournal, CreatedFirst
<1> QED
    BY <1>2, <1>3, <1>5, <1>6 DEF ExactJournal, r

-----------------------------------------------------------------------------
(***************************************************************************)
(* Each kind of change, and the undoing of its entry.                      *)
(***************************************************************************)

LEMMA AccountInTyped ==
    ASSUME NEW st, NEW d, TypedState(st, d), st.accounts \in [Addresses -> Account \cup {Absent}],
           NEW a \in Addresses
    PROVE  AccountIn(st, d, a) \in Account /\ AccountIn(st, d, a) # Absent
<1>1. NewAccount \in Account
    BY ConstantsOK DEF NewAccount, Account
<1>2. AccountIn(st, d, a) \in Account
    BY <1>1 DEF AccountIn, TypedState
<1> QED BY <1>2, ConstantsOK

(***************************************************************************)
(* An account is changed and the entry holds what it was: undoing gives an *)
(* account that reads as before, and it is in memory afterwards.  If the   *)
(* change empties the account, only the first of this is left.             *)
(***************************************************************************)
LEMMA AccountUndone ==
    ASSUME NEW st, NEW c, TypedState(st, c), NEW d, TypedState(st, d),
           st.accounts \in [Addresses -> Account \cup {Absent}],
           NEW a \in Addresses, NEW acc \in Account,
           d.accounts[a] = acc, \A b \in Addresses : b # a => d.accounts[b] = c.accounts[b],
           d.storages = c.storages, d.logs = c.logs, d.logSize = c.logSize, d.refund = c.refund,
           NEW e \in Entries, e.type \in AccountTypes, e.account = a,
           EarlierAccount(e, acc) = AccountIn(st, c, a),
           EarlierSuicides(e, d.suicides) = c.suicides
    PROVE  /\ Similar(st, c, Undo(e, d))
           /\ \A F \in SUBSET Addresses :
                 /\ AccountsKept(st, F, c) => SameAccounts(st, F, c, Undo(e, d))
                 /\ AccountsKept(st, F, c) /\ acc # NewAccount => AccountsKept(st, F \cup {a}, d)
<1>1. e.type \notin {"createObject", "storage", "refund", "addLog"}
    BY DEF AccountTypes
<1>2. Similar(st, c, Undo(e, d))
    <2>1. /\ Undo(e, d).suicides = EarlierSuicides(e, d.suicides)
          /\ Undo(e, d).logs = EarlierLogs(e, d.logs)
          /\ Undo(e, d).logSize = EarlierLogSize(e, d.logSize)
          /\ Undo(e, d).refund = EarlierRefund(e, d.refund)
        BY UndoParts DEF TypedState
    <2>2. \A b \in Addresses, s \in Slots : SlotIn(st, Undo(e, d), b, s) = SlotIn(st, d, b, s)
        BY <1>1, UndoneSlot
    <2>3. \A b \in Addresses, s \in Slots : SlotIn(st, d, b, s) = SlotIn(st, c, b, s)
        BY DEF SlotIn
    <2>4. /\ EarlierLogs(e, d.logs) = d.logs
          /\ EarlierLogSize(e, d.logSize) = d.logSize
          /\ EarlierRefund(e, d.refund) = d.refund
        BY <1>1 DEF EarlierLogs, EarlierLogSize, EarlierRefund
    <2> QED BY <2>1, <2>2, <2>3, <2>4 DEF Similar
<1>3. c.accounts \in [Addresses -> Account \cup {Absent}]
    BY DEF TypedState
<1>4. d.accounts[a] = acc /\ acc # Absent
    BY <1>3, ConstantsOK
<1>5. \A b \in Addresses : b # a => d.accounts[b] = c.accounts[b]
    BY <1>3
<1>6. Undo(e, d).accounts[a] = AccountIn(st, c, a)
    <2>1. Undo(e, d).accounts[a] = EarlierAccount(e, d.accounts[a])
        BY <1>1, <1>4, UndoneOne
    <2> QED BY <1>4, <2>1
<1>7. ASSUME NEW b \in Addresses, b # a PROVE Undo(e, d).accounts[b] = c.accounts[b]
    <2>1. Undo(e, d).accounts[b] = d.accounts[b]
        BY <1>7, UndoneOne
    <2> QED BY <1>5, <1>7, <2>1
<1>8. AccountIn(st, c, a) # Absent
    BY AccountInTyped
<1>9. \A b \in Addresses : AccountIn(st, Undo(e, d), b) = AccountIn(st, c, b)
    BY <1>6, <1>7, <1>8 DEF AccountIn
<1>10. ASSUME NEW F \in SUBSET Addresses, AccountsKept(st, F, c)
       PROVE  SameAccounts(st, F, c, Undo(e, d))
    BY <1>6, <1>7, <1>8, <1>9, <1>10 DEF SameAccounts, AccountsKept
<1>11. ASSUME NEW F \in SUBSET Addresses, AccountsKept(st, F, c), acc # NewAccount
       PROVE  AccountsKept(st, F \cup {a}, d)
    <2>1. AccountIn(st, d, a) = acc
        BY <1>4 DEF AccountIn
    <2>2. \A b \in Addresses : b # a => AccountIn(st, d, b) = AccountIn(st, c, b)
        BY <1>5 DEF AccountIn
    <2> QED BY <1>4, <1>5, <1>11, <2>1, <2>2 DEF AccountsKept
<1> QED
    BY <1>2, <1>10, <1>11

(***************************************************************************)
(* An account is created that reads as a new one: undoing takes it from    *)
(* memory again, and it reads as before because it is stored as a new one  *)
(* or not at all.                                                          *)
(***************************************************************************)
LEMMA CreationUndone ==
    ASSUME NEW st, NEW c, TypedState(st, c), NEW d, TypedState(st, d),
           NEW a \in Addresses, AccountIn(st, c, a) = NewAccount,
           d.accounts[a] = NewAccount,
           \A b \in Addresses : b # a => d.accounts[b] = c.accounts[b],
           d.storages = c.storages, d.logs = c.logs, d.logSize = c.logSize, d.refund = c.refund,
           d.suicides = c.suicides,
           NEW e \in Entries, e.type = "createObject", e.account = a
    PROVE  /\ Similar(st, c, Undo(e, d))
           /\ \A F \in SUBSET Addresses : AccountsKept(st, F, c) =>
                 /\ SameAccounts(st, F, c, Undo(e, d))
                 /\ AccountsKept(st, F, d)
                 /\ a \notin F
<1>1. Similar(st, c, Undo(e, d))
    <2>1. /\ Undo(e, d).suicides = EarlierSuicides(e, d.suicides)
          /\ Undo(e, d).logs = EarlierLogs(e, d.logs)
          /\ Undo(e, d).logSize = EarlierLogSize(e, d.logSize)
          /\ Undo(e, d).refund = EarlierRefund(e, d.refund)
        BY UndoParts DEF TypedState
    <2>4. /\ EarlierSuicides(e, d.suicides) = d.suicides
          /\ EarlierLogs(e, d.logs) = d.logs
          /\ EarlierLogSize(e, d.logSize) = d.logSize
          /\ EarlierRefund(e, d.refund) = d.refund
        BY DEF EarlierSuicides, EarlierLogs, EarlierLogSize, EarlierRefund
    <2>2. \A b \in Addresses, s \in Slots : SlotIn(st, Undo(e, d), b, s) = SlotIn(st, d, b, s)
        BY UndoneSlot
    <2>3. \A b \in Addresses, s \in Slots : SlotIn(st, d, b, s) = SlotIn(st, c, b, s)
        BY DEF SlotIn
    <2> QED BY <2>1, <2>2, <2>3, <2>4 DEF Similar
<1>2. c.accounts \in [Addresses -> Account \cup {Absent}]
    BY DEF TypedState
<1>3. /\ d.accounts[a] = NewAccount
      /\ \A b \in Addresses : b # a => d.accounts[b] = c.accounts[b]
    BY <1>2
<1>4. /\ Undo(e, d).accounts[a] = Absent
      /\ \A b \in Addresses : b # a => Undo(e, d).accounts[b] = c.accounts[b]
    <2>1. Undo(e, d).accounts[a] = Absent
        BY UndoneOne
    <2>2. ASSUME NEW b \in Addresses, b # a PROVE Undo(e, d).accounts[b] = d.accounts[b]
        BY <2>2, UndoneOne
    <2> QED BY <1>3, <2>1, <2>2
<1>5. ASSUME NEW F \in SUBSET Addresses, AccountsKept(st, F, c)
      PROVE  /\ SameAccounts(st, F, c, Undo(e, d))
             /\ AccountsKept(st, F, d)
             /\ a \notin F
    <2>1. a \notin F /\ StoredAccount(st, a) = NewAccount
        BY <1>5 DEF AccountsKept
    <2>2. \A b \in Addresses : AccountIn(st, Undo(e, d), b) = AccountIn(st, c, b)
        BY <1>4, <2>1 DEF AccountIn, StoredAccount
    <2>3. SameAccounts(st, F, c, Undo(e, d))
        BY <1>4, <1>5, <2>1, <2>2 DEF SameAccounts, AccountsKept
    <2>4. NewAccount # Absent
        BY ConstantsOK DEF NewAccount, Account
    <2>5. \A b \in Addresses : AccountIn(st, d, b) = AccountIn(st, c, b)
        BY <1>3, <2>4 DEF AccountIn
    <2>6. AccountsKept(st, F, d)
        BY <1>3, <1>5, <2>1, <2>5 DEF AccountsKept
    <2> QED BY <2>1, <2>3, <2>6
<1> QED
    BY <1>1, <1>5

(***************************************************************************)
(* A change that is not of an account.                                     *)
(***************************************************************************)
LEMMA OtherUndone ==
    ASSUME NEW st, NEW c, TypedState(st, c), NEW d, TypedState(st, d), d.accounts = c.accounts,
           NEW e \in Entries, e.type \notin AccountTypes \cup {"createObject"}
    PROVE  \A F \in SUBSET Addresses : AccountsKept(st, F, c) =>
              SameAccounts(st, F, c, Undo(e, d)) /\ AccountsKept(st, F, d)
<1>1. \A b \in Addresses : Undo(e, d).accounts[b] = c.accounts[b]
    BY UndoneOne
<1>2. \A b \in Addresses : /\ AccountIn(st, Undo(e, d), b) = AccountIn(st, c, b)
                           /\ AccountIn(st, d, b) = AccountIn(st, c, b)
    BY <1>1 DEF AccountIn
<1> QED
    BY <1>1, <1>2 DEF SameAccounts, AccountsKept

(***************************************************************************)
(* The accounts touched after one entry more.                              *)
(***************************************************************************)
LEMMA NowTouched ==
    ASSUME NEW q \in Seq(Entries), NEW f \in 0..Len(q), NEW e \in Entries
    PROVE  Touched(Append(q, e), f, Len(q) + 1) =
              IF e.type \in AccountTypes THEN Touched(q, f, Len(q)) \cup {e.account}
              ELSE Touched(q, f, Len(q))
<1> DEFINE r == Append(q, e)
           L == Len(q)
<1>1. L \in Nat /\ r[L + 1] = e /\ \A p \in 1..L : r[p] = q[p]
    OBVIOUS
<1>2. /\ \A p \in (f + 1)..(L + 1) : p \in (f + 1)..L \/ p = L + 1
      /\ \A p \in (f + 1)..L : r[p] = q[p]
    BY <1>1
<1>3. L + 1 \in (f + 1)..(L + 1) /\ \A p \in (f + 1)..L : p \in (f + 1)..(L + 1)
    BY <1>1
<1> HIDE DEF r, L
<1> QED
    BY <1>1, <1>2, <1>3 DEF Touched, r, L

(***************************************************************************)
(* A state with the same logs has them numbered, and one entry more does   *)
(* no harm.                                                                *)
(***************************************************************************)
LEMMA SameLogs ==
    ASSUME NEW x, NEW j \in Nat, LogsNumbered(x, j), NEW y, y.logs = x.logs, y.logSize = x.logSize
    PROVE  LogsNumbered(y, j) /\ LogsNumbered(y, j + 1)
<1>1. 0..j \subseteq 0..(j + 1)
    OBVIOUS
<1> QED BY <1>1 DEF LogsNumbered

(***************************************************************************)
(* What a method does to the journal q and the state c: it leaves the      *)
(* journal r and the state d, sound, and as exact as before, with the same *)
(* earlier views.                                                          *)
(***************************************************************************)
Carries(st, q, c, r, d) ==
    /\ SoundJournal(st, r, d)
    /\ \A f \in 0..Len(q) : ExactJournal(st, q, c, f) =>
          /\ ExactJournal(st, r, d, f)
          /\ \A j \in f..Len(q) : ViewIn(st, Undone(r, d, j)) = ViewIn(st, Undone(q, c, j))

(***************************************************************************)
(* What is so of the state a journal belongs to.                           *)
(***************************************************************************)
LEMMA SoundNow ==
    ASSUME NEW st, NEW q, NEW c, SoundJournal(st, q, c)
    PROVE  /\ q \in Seq(Entries) /\ TypedState(st, c) /\ Len(q) \in Nat
           /\ LogsNumbered(c, Len(q))
<1>1. q \in Seq(Entries) /\ TypedState(st, c) /\ Len(q) \in Nat
    BY DEF SoundJournal
<1>2. Undone(q, c, Len(q)) = c /\ Len(q) \in 0..Len(q)
    BY <1>1, UndoneSteps
<1>3. LogsNumbered(c, Len(q))
    BY <1>2 DEF SoundJournal
<1> QED
    BY <1>1, <1>3

LEMMA ExactNow ==
    ASSUME NEW st, NEW q, NEW c, NEW f, ExactJournal(st, q, c, f)
    PROVE  /\ Touched(q, f, Len(q)) \in SUBSET Addresses
           /\ AccountsKept(st, Touched(q, f, Len(q)), c)
<1>1. q \in Seq(Entries) /\ Len(q) \in Nat /\ f \in 0..Len(q)
    BY DEF ExactJournal, SoundJournal
<1>2. Undone(q, c, Len(q)) = c /\ Len(q) \in f..Len(q)
    BY <1>1, UndoneSteps
<1> QED
    BY <1>1, <1>2, TouchedAddresses DEF ExactJournal

(***************************************************************************)
(* Changing an account, creating one, changing something else and loading  *)
(* accounts carry a journal on; so do two of them after each other.        *)
(***************************************************************************)
LEMMA AccountWritten ==
    ASSUME NEW st, NEW q, NEW c, SoundJournal(st, q, c),
           st.accounts \in [Addresses -> Account \cup {Absent}],
           NEW d, TypedState(st, d), NEW a \in Addresses, NEW acc \in Account,
           d.accounts[a] = acc, \A b \in Addresses : b # a => d.accounts[b] = c.accounts[b],
           d.storages = c.storages, d.logs = c.logs, d.logSize = c.logSize, d.refund = c.refund,
           NEW e \in Entries, e.type \in AccountTypes, e.account = a,
           EarlierAccount(e, acc) = AccountIn(st, c, a),
           EarlierSuicides(e, d.suicides) = c.suicides
    PROVE  /\ SoundJournal(st, Append(q, e), d)
           /\ acc # NewAccount => Carries(st, q, c, Append(q, e), d)
<1>1. q \in Seq(Entries) /\ TypedState(st, c) /\ Len(q) \in Nat /\ LogsNumbered(c, Len(q))
    BY SoundNow
<1>2. /\ Similar(st, c, Undo(e, d))
      /\ \A F \in SUBSET Addresses :
            /\ AccountsKept(st, F, c) => SameAccounts(st, F, c, Undo(e, d))
            /\ AccountsKept(st, F, c) /\ acc # NewAccount => AccountsKept(st, F \cup {a}, d)
    BY <1>1, AccountUndone, ZenonT(60)
<1>3. LogsNumbered(d, Len(q) + 1)
    BY <1>1, SameLogs
<1>4. SoundJournal(st, Append(q, e), d)
    BY <1>2, <1>3, SoundAfter
<1>5. e.type # "createObject"
    BY DEF AccountTypes
<1>6. ASSUME acc # NewAccount, NEW f \in 0..Len(q), ExactJournal(st, q, c, f)
      PROVE  /\ ExactJournal(st, Append(q, e), d, f)
             /\ \A j \in f..Len(q) : ViewIn(st, Undone(Append(q, e), d, j)) = ViewIn(st, Undone(q, c, j))
    <2> DEFINE F == Touched(q, f, Len(q))
    <2>1. F \in SUBSET Addresses /\ AccountsKept(st, F, c)
        BY <1>6, ExactNow
    <2>2. Touched(Append(q, e), f, Len(q) + 1) = F \cup {a}
        BY <1>1, NowTouched
    <2> HIDE DEF F
    <2>3. SameAccounts(st, F, c, Undo(e, d))
        BY <1>2, <2>1
    <2>4. AccountsKept(st, Touched(Append(q, e), f, Len(q) + 1), d)
        BY <1>2, <1>6, <2>1, <2>2
    <2> QED BY <1>2, <1>4, <1>5, <1>6, <2>3, <2>4, ExactAfter DEF F
<1> QED
    BY <1>4, <1>6 DEF Carries

LEMMA CreationWritten ==
    ASSUME NEW st, NEW q, NEW c, SoundJournal(st, q, c),
           NEW d, TypedState(st, d), NEW a \in Addresses, AccountIn(st, c, a) = NewAccount,
           d.accounts[a] = NewAccount,
           \A b \in Addresses : b # a => d.accounts[b] = c.accounts[b],
           d.storages = c.storages, d.logs = c.logs, d.logSize = c.logSize, d.refund = c.refund,
           d.suicides = c.suicides,
           NEW e \in Entries, e.type = "createObject", e.account = a
    PROVE  Carries(st, q, c, Append(q, e), d)
<1>1. q \in Seq(Entries) /\ TypedState(st, c) /\ Len(q) \in Nat /\ LogsNumbered(c, Len(q))
    BY SoundNow
<1>2. /\ Similar(st, c, Undo(e, d))
      /\ \A F \in SUBSET Addresses : AccountsKept(st, F, c) =>
            SameAccounts(st, F, c, Undo(e, d)) /\ AccountsKept(st, F, d) /\ a \notin F
    BY <1>1, CreationUndone
<1>3. LogsNumbered(d, Len(q) + 1)
    BY <1>1, SameLogs
<1>4. SoundJournal(st, Append(q, e), d)
    BY <1>2, <1>3, SoundAfter
<1>5. ASSUME NEW f \in 0..Len(q), ExactJournal(st, q, c, f)
      PROVE  /\ ExactJournal(st, Append(q, e), d, f)
             /\ \A j \in f..Len(q) : ViewIn(st, Undone(Append(q, e), d, j)) = ViewIn(st, Undone(q, c, j))
    <2> DEFINE F == Touched(q, f, Len(q))
    <2>1. F \in SUBSET Addresses /\ AccountsKept(st, F, c)
        BY <1>5, ExactNow
    <2>2. Touched(Append(q, e), f, Len(q) + 1) = F
        BY <1>1, NowTouched DEF AccountTypes
    <2> HIDE DEF F
    <2>3. SameAccounts(st, F, c, Undo(e, d)) /\ AccountsKept(st, F, d) /\ a \notin F
        BY <1>2, <2>1
    <2> QED BY <1>2, <1>4, <1>5, <2>2, <2>3, ExactAfter DEF F
<1> QED
    BY <1>4, <1>5 DEF Carries

LEMMA OtherWritten ==
    ASSUME NEW st, NEW q, NEW c, SoundJournal(st, q, c),
           NEW d, TypedState(st, d), d.accounts = c.accounts,
           NEW e \in Entries, e.type \notin AccountTypes \cup {"createObject"},
           Similar(st, c, Undo(e, d)), LogsNumbered(d, Len(q) + 1)
    PROVE  Carries(st, q, c, Append(q, e), d)
<1>1. q \in Seq(Entries) /\ TypedState(st, c) /\ Len(q) \in Nat
    BY SoundNow
<1>2. \A F \in SUBSET Addresses : AccountsKept(st, F, c) =>
          SameAccounts(st, F, c, Undo(e, d)) /\ AccountsKept(st, F, d)
    BY <1>1, OtherUndone
<1>3. SoundJournal(st, Append(q, e), d)
    BY SoundAfter
<1>4. ASSUME NEW f \in 0..Len(q), ExactJournal(st, q, c, f)
      PROVE  /\ ExactJournal(st, Append(q, e), d, f)
             /\ \A j \in f..Len(q) : ViewIn(st, Undone(Append(q, e), d, j)) = ViewIn(st, Undone(q, c, j))
    <2> DEFINE F == Touched(q, f, Len(q))
    <2>1. F \in SUBSET Addresses /\ AccountsKept(st, F, c)
        BY <1>4, ExactNow
    <2>2. Touched(Append(q, e), f, Len(q) + 1) = F /\ e.type # "createObject"
        BY <1>1, NowTouched
    <2> HIDE DEF F
    <2>3. SameAccounts(st, F, c, Undo(e, d)) /\ AccountsKept(st, F, d)
        BY <1>2, <2>1
    <2> QED BY <1>3, <1>4, <2>2, <2>3, ExactAfter DEF F
<1> QED
    BY <1>3, <1>4 DEF Carries

LEMMA NothingWritten ==
    ASSUME NEW st, NEW q, NEW c, SoundJournal(st, q, c),
           NEW d, TypedState(st, d), Similar(st, c, d),
           \A a \in Addresses : AccountIn(st, d, a) = AccountIn(st, c, a),
           \A a \in Addresses : c.accounts[a] # Absent => d.accounts[a] # Absent
    PROVE  Carries(st, q, c, q, d)
<1>1. SoundJournal(st, q, d)
    BY SoundReplaced
<1>2. ASSUME NEW f \in 0..Len(q), ExactJournal(st, q, c, f)
      PROVE  /\ ExactJournal(st, q, d, f)
             /\ \A j \in f..Len(q) : ViewIn(st, Undone(q, d, j)) = ViewIn(st, Undone(q, c, j))
    <2> DEFINE F == Touched(q, f, Len(q))
    <2>1. F \in SUBSET Addresses /\ AccountsKept(st, F, c)
        BY <1>2, ExactNow
    <2> HIDE DEF F
    <2>2. SameAccounts(st, F, c, d)
        BY <2>1 DEF AccountsKept, SameAccounts
    <2> QED BY <1>1, <1>2, <2>2, ExactReplaced DEF F
<1> QED
    BY <1>1, <1>2 DEF Carries

LEMMA CarriesTwice ==
    ASSUME NEW st, NEW q, NEW c, NEW r, NEW d, NEW s, NEW x, Len(q) \in Nat, Len(r) \in Nat, Len(q) <= Len(r),
           Carries(st, q, c, r, d), Carries(st, r, d, s, x)
    PROVE  Carries(st, q, c, s, x)
<1>1. \A f \in 0..Len(q) : f \in 0..Len(r) /\ f..Len(q) \subseteq f..Len(r)
    OBVIOUS
<1> QED BY <1>1 DEF Carries
=============================================================================
