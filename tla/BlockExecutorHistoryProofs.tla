--------------------- MODULE BlockExecutorHistoryProofs ---------------------
(***************************************************************************)
(* Proofs about the state BlockExecutor stores, for any number of replicas *)
(* and any transactions: that it is what executing every block once leaves *)
(* (NoDoubleApply), and that replicas agree on it (HistoryStable).         *)
(***************************************************************************)
EXTENDS BlockExecutorProofs, Induction

-----------------------------------------------------------------------------
(***************************************************************************)
(* One step of executing block n on the entries p: the recursion that      *)
(* Completion is defined by, for any function f in its place.              *)
(***************************************************************************)
Step(n, p, f, found) ==
    IF NextRead(n, found) = NoMore THEN Modified(n, found)
    ELSE f[Append(found, p[NextRead(n, found)])]

(***************************************************************************)
(* There is such a function: the reads of a block end, so it can be built  *)
(* from the longest sequences of answers down to the empty one.            *)
(***************************************************************************)
LEMMA CompletionExists ==
    ASSUME NEW n \in Blocks, NEW p \in Entries
    PROVE  \E f : f = [found \in Answers |-> Step(n, p, f, found)]
<1> DEFINE Next1(found) == Append(found, p[NextRead(n, found)])
           Solves(f, d) == \A found \in Answers : Len(found) + d >= MaxReads
                                => f[found] = Step(n, p, f, found)
           S == {d \in Nat : \E f : f = [found \in Answers |-> f[found]] /\ Solves(f, d)}
<1>1. ASSUME NEW found \in Answers, NextRead(n, found) # NoMore
      PROVE  Next1(found) \in Answers /\ Len(Next1(found)) = Len(found) + 1
    <2>1. NextRead(n, found) \in Keys
        BY <1>1, TransactionsOK
    <2>2. p[NextRead(n, found)] \in Entry
        BY <2>1 DEF Entries
    <2>3. found \in Seq(Entry)
        BY AnswersShape
    <2> QED BY <1>1, <2>2, <2>3, OneMoreAnswer
<1>2. \A found \in Answers : Len(found) \in 0..MaxReads
    BY AnswersShape
<1>3. 0 \in S
    <2> DEFINE f == [found \in Answers |-> Modified(n, found)]
    <2>1. Solves(f, 0)
        <3> SUFFICES ASSUME NEW found \in Answers, Len(found) + 0 >= MaxReads
                     PROVE  f[found] = Step(n, p, f, found)
            OBVIOUS
        <3>1. Len(found) = MaxReads
            BY <1>2, ConstantsOK
        <3>2. NextRead(n, found) = NoMore
            BY <3>1, TransactionsOK
        <3> QED BY <3>2 DEF Step
    <2>2. f = [found \in Answers |-> f[found]]
        OBVIOUS
    <2> HIDE DEF f, Solves
    <2> QED BY <2>1, <2>2
<1>4. ASSUME NEW d \in Nat, d \in S PROVE d + 1 \in S
    <2>1. PICK f : Solves(f, d)
        BY <1>4
    <2> DEFINE g == [found \in Answers |-> Step(n, p, f, found)]
    <2>2. Solves(g, d + 1)
        <3> SUFFICES ASSUME NEW found \in Answers, Len(found) + (d + 1) >= MaxReads
                     PROVE  g[found] = Step(n, p, g, found)
            OBVIOUS
        <3>1. CASE NextRead(n, found) = NoMore
            BY <3>1 DEF Step
        <3>2. CASE NextRead(n, found) # NoMore
            <4>1. /\ Next1(found) \in Answers
                  /\ Len(Next1(found)) = Len(found) + 1
                BY <1>1, <3>2
            <4>2. Len(Next1(found)) + d >= MaxReads
                BY <1>2, <4>1, ConstantsOK
            <4>3. f[Next1(found)] = Step(n, p, f, Next1(found))
                BY <2>1, <4>1, <4>2
            <4>4. g[found] = f[Next1(found)] /\ g[Next1(found)] = Step(n, p, f, Next1(found))
                BY <3>2, <4>1 DEF Step
            <4>5. Step(n, p, g, found) = g[Next1(found)]
                BY <3>2 DEF Step
            <4> QED BY <4>3, <4>4, <4>5
        <3> QED BY <3>1, <3>2
    <2>3. g = [found \in Answers |-> g[found]]
        OBVIOUS
    <2> HIDE DEF g, Solves
    <2> QED BY <2>2, <2>3
<1>5. MaxReads \in S
    <2>1. \A d \in Nat : d \in S
        <3> HIDE DEF S
        <3> QED BY <1>3, <1>4, SetInduction
    <2> QED BY <2>1, ConstantsOK
<1>6. PICK f : f = [found \in Answers |-> f[found]] /\ Solves(f, MaxReads)
    BY <1>5
<1>7. \A found \in Answers : f[found] = Step(n, p, f, found)
    BY <1>2, <1>6, ConstantsOK
<1>8. f = [found \in Answers |-> Step(n, p, f, found)]
    BY <1>6, <1>7
<1> QED
    BY <1>8

(***************************************************************************)
(* So executing a block goes on from what its reads have found as its      *)
(* transactions say.                                                       *)
(***************************************************************************)
LEMMA CompletionUnfolds ==
    ASSUME NEW n \in Blocks, NEW p \in Entries, NEW found \in Answers
    PROVE  Completion(n, p)[found] = Step(n, p, Completion(n, p), found)
<1>1. Completion(n, p) = CHOOSE f : f = [a \in Answers |-> Step(n, p, f, a)]
    BY DEF Completion, Step
<1>2. Completion(n, p) = [a \in Answers |-> Step(n, p, Completion(n, p), a)]
    BY <1>1, CompletionExists
<1> QED
    BY <1>2

(***************************************************************************)
(* The entries before a block are entries.                                 *)
(***************************************************************************)
LEMMA ParentEntriesType ==
    ASSUME TypeOK, NEW n \in Blocks
    PROVE  ParentEntries(n) \in Entries
<1>1. CASE n = 1
    BY <1>1, ConstantsOK DEF ParentEntries
<1>2. CASE n # 1
    <2>1. n - 1 \in Blocks
        BY <1>2, ConstantsOK DEF Blocks
    <2> QED BY <1>2, <2>1 DEF ParentEntries, TypeOK
<1> QED BY <1>1, <1>2

-----------------------------------------------------------------------------
(***************************************************************************)
(* The invariant behind NoDoubleApply and HistoryStable.  With entries     *)
(* that neither expire nor are lost by a failed read, what block n stores  *)
(* is a function of what its parent stored: a replica that reaches block n *)
(* finds all blocks below it done.                                         *)
(***************************************************************************)
Done(n) == hist[n] = Outcome(n, ParentEntries(n))

DoneTo(n) == \A m \in Blocks : m <= n => Done(m)

(***************************************************************************)
(* An entry that is stored follows from the parent's, which are complete.  *)
(***************************************************************************)
Follows(n, k) ==
    hist[n][k] # Absent => DoneTo(n - 1) /\ hist[n][k] = Outcome(n, ParentEntries(n))[k]

(***************************************************************************)
(* A latest key was there before block 1 or is some block's entry.         *)
(***************************************************************************)
LatestFollows(k) ==
    \/ latest[k] = Genesis[k]
    \/ latest[k] # Absent /\ \E n \in Blocks : latest[k] = hist[n][k]

(***************************************************************************)
(* The reads of a cancelled replica fail, and it commits nothing.          *)
(***************************************************************************)
Sure(e) == pc[e] \in Worked /\ (ctxLive[e] \/ pc[e] \in {"commit", "update"})

JobFollows(e) ==
    /\ pc[e] \in InBatch => DoneTo(job[e].blockNum - 1)
    /\ pc[e] \notin Worked => job[e].found = <<>>
    /\ Sure(e) =>
          LET n == job[e].blockNum
              p == ParentEntries(n)
          IN  IF pc[e] = "execute" THEN Completion(n, p)[job[e].found] = Outcome(n, p)
              ELSE job[e].accounts = Outcome(n, p)

JobStores(e) ==
    /\ job[e].histOps \subseteq Dirty(e)
    /\ pc[e] = "commit" => job[e].histOps \subseteq job[e].latestOps
    /\ pc[e] # "commit" => job[e].histOps = {}
    /\ Sure(e) /\ pc[e] # "execute" =>
          \A k \in Dirty(e) \ job[e].histOps :
              hist[job[e].blockNum][k] = job[e].accounts[k]

HistoryInv ==
    /\ DoneTo(execHeight)
    /\ \A n \in Blocks, k \in Keys : Follows(n, k)
    /\ \A k \in Keys : LatestFollows(k)
    /\ \A e \in Executors : JobFollows(e) /\ JobStores(e)

(***************************************************************************)
(* No entry ever expires, and no read of one fails.                        *)
(***************************************************************************)
Reliable == {"expire", "state"} \cap Mishaps = {}

(***************************************************************************)
(* Block 1 is executed on the latest keys, so a second execution of it     *)
(* would read what the first one wrote.  Nothing below holds unless what   *)
(* it reads is what the keys held before it.                               *)
(***************************************************************************)
FirstReads ==
    \A e \in Executors :
        /\ pc[e] = "execute"
        /\ ctxLive[e]
        /\ job[e].blockNum = 1
        /\ NextRead(1, job[e].found) # NoMore
        => latest = Genesis

(***************************************************************************)
(* A replica writes an entry of block n only where none is, or the same.   *)
(***************************************************************************)
LEMMA WritesFollow ==
    ASSUME Inv, HistoryInv, Reliable, [Next]_vars,
           NEW n \in Blocks, NEW k \in Keys, hist'[n][k] # hist[n][k]
    PROVE  /\ hist[n][k] = Absent
           /\ hist'[n][k] # Absent
           /\ DoneTo(n - 1)
           /\ hist'[n][k] = Outcome(n, ParentEntries(n))[k]
<1>1. PICK e \in Executors : /\ pc[e] = "commit"
                            /\ job[e].blockNum = n
                            /\ k \in job[e].histOps
                            /\ hist'[n][k] = job[e].accounts[k]
    BY HistSteps DEF Inv, Reliable
<1>2. JobFollows(e) /\ JobStores(e) /\ Sure(e)
    BY <1>1 DEF HistoryInv, Sure, Worked
<1>3. job[e].accounts[k] # Absent
    BY <1>1, <1>2 DEF JobStores, Dirty, Present
<1>4. hist'[n][k] = Outcome(n, ParentEntries(n))[k] /\ DoneTo(n - 1)
    BY <1>1, <1>2 DEF JobFollows, InBatch
<1>5. hist[n][k] = Absent
    BY <1>4 DEF HistoryInv, Follows
<1> QED
    BY <1>1, <1>3, <1>4, <1>5

(***************************************************************************)
(* Blocks that are done stay as they are.                                  *)
(***************************************************************************)
LEMMA EntriesStay ==
    ASSUME Inv, HistoryInv, Reliable, [Next]_vars,
           NEW n \in Int, DoneTo(n), NEW m \in Blocks, m <= n
    PROVE  hist'[m] = hist[m]
<1>1. ASSUME NEW k \in Keys, hist'[m][k] # hist[m][k]
      PROVE  FALSE
    <2>1. hist'[m][k] = Outcome(m, ParentEntries(m))[k]
        BY <1>1, WritesFollow
    <2>2. hist[m][k] = Outcome(m, ParentEntries(m))[k]
        BY DEF DoneTo, Done
    <2> QED BY <1>1, <2>1, <2>2
<1>2. hist[m] \in [Keys -> Entry] /\ hist'[m] \in [Keys -> Entry]
    <2>1. TypeOK /\ TypeOK'
        BY NextInv DEF Inv
    <2> QED BY <2>1 DEF TypeOK, Entries
<1> QED
    BY <1>1, <1>2

LEMMA ParentStays ==
    ASSUME Inv, HistoryInv, Reliable, [Next]_vars, NEW n \in Blocks, DoneTo(n - 1)
    PROVE  ParentEntries(n)' = ParentEntries(n)
<1>1. CASE n = 1
    BY <1>1 DEF ParentEntries
<1>2. CASE n # 1
    <2>1. n - 1 \in Blocks /\ n - 1 \in Int /\ n - 1 <= n - 1
        BY <1>2, ConstantsOK DEF Blocks
    <2>2. hist'[n - 1] = hist[n - 1]
        BY <2>1, EntriesStay
    <2> QED BY <1>2, <2>2 DEF ParentEntries
<1> QED BY <1>1, <1>2

LEMMA DoneStays ==
    ASSUME Inv, HistoryInv, Reliable, [Next]_vars, NEW n \in Int, DoneTo(n)
    PROVE  DoneTo(n)'
<1>1. ASSUME NEW m \in Blocks, m <= n PROVE Done(m)'
    <2>1. DoneTo(m - 1)
        BY <1>1, ConstantsOK DEF DoneTo, Blocks
    <2>2. ParentEntries(m)' = ParentEntries(m)
        BY <2>1, ParentStays
    <2>3. hist'[m] = hist[m]
        BY <1>1, EntriesStay
    <2>4. hist[m] = Outcome(m, ParentEntries(m))
        BY <1>1 DEF DoneTo, Done
    <2>5. Outcome(m, ParentEntries(m))' = Outcome(m, ParentEntries(m))
        BY <2>2
    <2> QED BY <2>3, <2>4, <2>5 DEF Done
<1> QED
    BY <1>1 DEF DoneTo

LEMMA FollowsNext ==
    ASSUME Inv, HistoryInv, Reliable, [Next]_vars, NEW n \in Blocks, NEW k \in Keys
    PROVE  Follows(n, k)'
<1> SUFFICES ASSUME hist'[n][k] # Absent
             PROVE  DoneTo(n - 1)' /\ hist'[n][k] = Outcome(n, ParentEntries(n))'[k]
    BY DEF Follows
<1>1. DoneTo(n - 1) /\ hist'[n][k] = Outcome(n, ParentEntries(n))[k]
    <2>1. CASE hist'[n][k] = hist[n][k]
        BY <2>1 DEF HistoryInv, Follows
    <2>2. CASE hist'[n][k] # hist[n][k]
        BY <2>2, WritesFollow
    <2> QED BY <2>1, <2>2
<1>2. ParentEntries(n)' = ParentEntries(n)
    BY <1>1, ParentStays
<1>3. Outcome(n, ParentEntries(n))' = Outcome(n, ParentEntries(n))
    BY <1>2
<1>4. DoneTo(n - 1)'
    BY <1>1, DoneStays, ConstantsOK DEF Blocks
<1> QED
    BY <1>1, <1>3, <1>4

LEMMA LatestFollowsNext ==
    ASSUME Inv, HistoryInv, Reliable, [Next]_vars, NEW k \in Keys
    PROVE  LatestFollows(k)'
<1>1. ASSUME NEW n \in Blocks, hist[n][k] # Absent PROVE hist'[n][k] = hist[n][k]
    BY <1>1, WritesFollow
<1>2. CASE latest'[k] = latest[k]
    BY <1>1, <1>2 DEF HistoryInv, LatestFollows
<1>3. ASSUME NEW e \in Executors, pc[e] = "commit",
             k \in job[e].latestOps \ job[e].histOps, latest'[k] = job[e].accounts[k]
      PROVE  LatestFollows(k)'
    <2>1. JobOK(e) /\ job[e].blockNum \in Blocks
        BY <1>3, ConstantsOK DEF Inv, TypeOK, JobOK, BatchBound, InBatch, Jobs, Heights, Blocks
    <2>2. k \in Dirty(e) /\ job[e].accounts[k] # Absent
        BY <1>3, <2>1 DEF JobOK, Committing, Dirty, Present
    <2>3. hist[job[e].blockNum][k] = job[e].accounts[k]
        BY <1>3, <2>2 DEF HistoryInv, JobStores, Sure, Worked
    <2>4. hist'[job[e].blockNum][k] = job[e].accounts[k]
        BY <1>1, <2>1, <2>2, <2>3
    <2>5. PICK n \in Blocks : n = job[e].blockNum
        BY <2>1
    <2> QED BY <1>3, <2>2, <2>4, <2>5 DEF LatestFollows
<1> QED
    BY <1>2, <1>3, LatestSteps DEF Inv

(***************************************************************************)
(* A replica goes on with the block it is at work on.                      *)
(***************************************************************************)
LEMMA BatchStays ==
    ASSUME Inv, HistoryInv, Reliable, [Next]_vars,
           NEW e \in Executors, pc[e] \in InBatch, NEW n, n = job[e].blockNum
    PROVE  /\ n \in Blocks
           /\ DoneTo(n - 1)'
           /\ ParentEntries(n)' = ParentEntries(n)
           /\ \A k \in Keys : hist[n][k] # Absent => hist'[n][k] = hist[n][k]
<1>1. n \in Blocks
    BY ConstantsOK DEF Inv, TypeOK, JobOK, BatchBound, Jobs, Heights, Blocks
<1>2. n - 1 \in Int /\ DoneTo(n - 1)
    BY <1>1, ConstantsOK DEF HistoryInv, JobFollows, Blocks
<1>3. \A k \in Keys : hist[n][k] # Absent => hist'[n][k] = hist[n][k]
    BY <1>1, WritesFollow
<1> QED
    BY <1>1, <1>2, <1>3, DoneStays, ParentStays

(***************************************************************************)
(* What is to be shown of a replica that stays at work on block n, in      *)
(* terms of the entries p it started from.                                 *)
(***************************************************************************)
LEMMA GoesOn ==
    ASSUME Inv, HistoryInv, Reliable, [Next]_vars,
           NEW e \in Executors, pc[e] \in InBatch, pc'[e] \in Worked,
           NEW n, n = job[e].blockNum, job'[e].blockNum = n,
           NEW p, p = ParentEntries(n),
           Sure(e)' => IF pc'[e] = "execute"
                       THEN Completion(n, p)[job'[e].found] = Outcome(n, p)
                       ELSE job'[e].accounts = Outcome(n, p)
    PROVE  JobFollows(e)'
<1>1. DoneTo(n - 1)' /\ ParentEntries(n)' = p
    BY BatchStays
<1>2. DoneTo(job[e].blockNum - 1)'
    BY <1>1
<1>3. /\ Outcome(job[e].blockNum, ParentEntries(job[e].blockNum))' = Outcome(n, p)
      /\ Completion(job[e].blockNum, ParentEntries(job[e].blockNum))' = Completion(n, p)
    BY <1>1
<1> QED
    BY <1>2, <1>3 DEF JobFollows, Worked

LEMMA KeepsFollowing ==
    ASSUME Inv, HistoryInv, Reliable, [Next]_vars,
           NEW e \in Executors, pc[e] \in Worked, pc'[e] \in Worked,
           (pc[e] = "execute") <=> (pc'[e] = "execute"),
           job'[e].blockNum = job[e].blockNum, job'[e].accounts = job[e].accounts,
           pc[e] = "execute" => job'[e].found = job[e].found,
           Sure(e)' => Sure(e)
    PROVE  JobFollows(e)'
<1>1. JobFollows(e) /\ pc[e] \in InBatch
    BY DEF HistoryInv, Worked, InBatch
<1>2. PICK n, p : n = job[e].blockNum /\ p = ParentEntries(n)
    OBVIOUS
<1>3. Sure(e)' => IF pc'[e] = "execute"
                  THEN Completion(n, p)[job'[e].found] = Outcome(n, p)
                  ELSE job'[e].accounts = Outcome(n, p)
    BY <1>1, <1>2 DEF JobFollows
<1> QED
    BY <1>1, <1>2, <1>3, GoesOn

LEMMA KeepsStored ==
    ASSUME Inv, HistoryInv, Reliable, [Next]_vars,
           NEW e \in Executors, pc[e] \in Loaded, pc'[e] \in Loaded,
           job'[e].blockNum = job[e].blockNum, job'[e].accounts = job[e].accounts,
           job'[e].histOps \subseteq Dirty(e),
           pc'[e] = "commit" => job'[e].histOps \subseteq job'[e].latestOps,
           pc'[e] # "commit" => job'[e].histOps = {},
           \A k \in job[e].histOps \ job'[e].histOps :
               hist'[job[e].blockNum][k] = job[e].accounts[k],
           Sure(e)' => Sure(e)
    PROVE  JobStores(e)'
<1> DEFINE n == job[e].blockNum
<1>1. JobStores(e) /\ pc[e] \in InBatch /\ pc[e] # "execute"
    BY DEF HistoryInv, Loaded, InBatch
<1>2. Dirty(e)' = Dirty(e) /\ Dirty(e) \subseteq Keys
    BY DEF Dirty, Present
<1>3. ASSUME Sure(e)', NEW k \in Dirty(e) \ job'[e].histOps
      PROVE  hist'[n][k] = job[e].accounts[k]
    <2>1. CASE k \in job[e].histOps
        BY <1>3, <2>1
    <2>2. CASE k \notin job[e].histOps
        <3>1. hist[n][k] = job[e].accounts[k] /\ hist[n][k] # Absent
            BY <1>1, <1>3, <2>2 DEF JobStores, Dirty, Present
        <3> QED BY <1>1, <1>2, <1>3, <3>1, BatchStays
    <2> QED BY <2>1, <2>2
<1> QED
    BY <1>2, <1>3 DEF JobStores

(***************************************************************************)
(* A replica that is not executing a block holds nothing.                  *)
(***************************************************************************)
LEMMA NoWork ==
    ASSUME NEW e \in Executors, NEW n \in Int,
           pc'[e] \notin Worked, job'[e].found = <<>>, job'[e].histOps = {},
           pc'[e] \in InBatch => job'[e].blockNum = n /\ DoneTo(n - 1)'
    PROVE  JobFollows(e)' /\ JobStores(e)'
<1>1. JobStores(e)'
    BY DEF JobStores, Sure, Worked
<1>2. JobFollows(e)'
    BY DEF JobFollows, Sure
<1> QED
    BY <1>1, <1>2

(***************************************************************************)
(* A transaction of a live replica reads the entry the parent stored.      *)
(***************************************************************************)
LEMMA LoadFollows ==
    ASSUME Inv, HistoryInv, Reliable, FirstReads, [Next]_vars,
           NEW e \in Executors, NEW k \in Keys, LoadEntry(e, k)
    PROVE  JobFollows(e)' /\ JobStores(e)'
<1>1. TypeOK /\ job[e] \in Jobs /\ JobOK(e) /\ JobFollows(e) /\ JobStores(e)
    BY DEF Inv, TypeOK, HistoryInv
<1>2. pc[e] = "execute" /\ UNCHANGED <<pc, ctxLive, hist>>
    BY DEF LoadEntry, pika
<1>3. PICK n, p, found : n = job[e].blockNum /\ p = ParentEntries(n) /\ found = job[e].found
    OBVIOUS
<1>4. n \in Blocks /\ p \in Entries /\ found \in Answers
    <2>1. n \in Blocks
        BY <1>1, <1>2, <1>3, ConstantsOK DEF JobOK, BatchBound, InBatch, Jobs, Heights, Blocks
    <2> QED BY <1>1, <1>3, <2>1, ParentEntriesType DEF Jobs
<1>5. k = NextRead(n, found) /\ k # NoMore
    BY <1>3, ConstantsOK DEF LoadEntry
<1>6. PICK v : /\ job' = [job EXCEPT ![e].found = Append(@, v)]
               /\ ctxLive[e] => v = p[k]
    <2>1. ctxLive[e] => ParentEntry(n, k) = p[k]
        BY <1>2, <1>3, <1>5 DEF ParentEntry, ParentEntries, FirstReads
    <2>2. CASE Succeeds(e)
        BY <1>3, <2>1, <2>2 DEF LoadEntry, Succeeds, Fails, Reliable, Mishap
    <2>3. CASE ~Succeeds(e)
        BY <1>3, <2>3 DEF LoadEntry, Fails, Reliable, Mishap
    <2> QED BY <2>2, <2>3
<1>7. /\ job'[e].blockNum = n
      /\ job'[e].found = Append(found, v)
      /\ job'[e].accounts = job[e].accounts
      /\ job'[e].histOps = job[e].histOps
    BY <1>1, <1>3, <1>6 DEF TypeOK, Jobs
<1>8. Sure(e)' => ctxLive[e] /\ Sure(e)
    BY <1>2 DEF Sure, Worked
<1>9. ASSUME Sure(e)' PROVE Completion(n, p)[Append(found, v)] = Outcome(n, p)
    <2>1. Completion(n, p)[found] = Outcome(n, p)
        BY <1>1, <1>2, <1>3, <1>8, <1>9 DEF JobFollows
    <2>2. Completion(n, p)[found] = Completion(n, p)[Append(found, p[k])]
        BY <1>4, <1>5, CompletionUnfolds DEF Step
    <2> QED BY <1>6, <1>8, <1>9, <2>1, <2>2
<1>10. JobFollows(e)'
    BY <1>2, <1>3, <1>7, <1>9, GoesOn DEF InBatch, Worked
<1>11. JobStores(e)'
    BY <1>1, <1>2, <1>7 DEF JobStores, Dirty, Present
<1> QED
    BY <1>10, <1>11

LEMMA StartFollows ==
    ASSUME Inv, HistoryInv, Reliable, [Next]_vars,
           NEW e \in Executors, GetExecProgress(e)
    PROVE  JobFollows(e)' /\ JobStores(e)'
<1>1. TypeOK /\ job[e] \in Jobs /\ JobFollows(e) /\ JobStores(e) /\ pc[e] = "progress"
    BY DEF Inv, TypeOK, HistoryInv, GetExecProgress
<1>2. job[e].found = <<>> /\ job[e].histOps = {}
    BY <1>1 DEF JobFollows, JobStores, Worked
<1>3. CASE BackToRun(e)
    BY <1>1, <1>3, NoWork DEF BackToRun, Goto, NoJob, TypeOK, Worked, InBatch
<1>4. ASSUME NEW h \in Heights, DoneTo(h), HasBlocks(e, h), StartBatch(e, h)
      PROVE  JobFollows(e)' /\ JobStores(e)'
    <2>1. h \in Int /\ h + 1 \in Int /\ (h + 1) - 1 = h
        BY <1>4, ConstantsOK DEF Heights
    <2>2. DoneTo(h)'
        BY <1>4, <2>1, DoneStays
    <2>3. /\ pc'[e] = "block"
          /\ job'[e].blockNum = h + 1
          /\ job'[e].found = <<>>
          /\ job'[e].histOps = {}
        BY <1>1, <1>2, <1>4 DEF StartBatch, FirstBlock, Goto, TypeOK, Jobs
    <2> QED BY <2>1, <2>2, <2>3, NoWork DEF Worked
<1>5. DoneTo(0) /\ DoneTo(execHeight) /\ execHeight \in Heights /\ 0 \in Heights
    BY <1>1, ConstantsOK DEF HistoryInv, DoneTo, Blocks, TypeOK, Heights
<1> QED
    BY <1>3, <1>4, <1>5 DEF GetExecProgress, StartBatch

(***************************************************************************)
(* The block a replica has stored receipts for is done.                    *)
(***************************************************************************)
LEMMA UpdateDone ==
    ASSUME Inv, HistoryInv, NEW e \in Executors, pc[e] = "update",
           NEW n, n = job[e].blockNum
    PROVE  n \in Blocks /\ DoneTo(n) /\ job[e].accounts = hist[n]
<1>1. /\ n \in Blocks
      /\ job[e].accounts \in [Keys -> Entry]
      /\ hist[n] \in [Keys -> Entry]
    <2>1. TypeOK /\ job[e] \in Jobs /\ JobOK(e)
        BY DEF Inv, TypeOK
    <2>2. n \in Blocks
        BY <2>1, ConstantsOK DEF JobOK, BatchBound, InBatch, Jobs, Heights, Blocks
    <2> QED BY <2>1, <2>2 DEF TypeOK, Jobs, Entries
<1>2. JobFollows(e) /\ JobStores(e) /\ Sure(e) /\ job[e].histOps = {}
    BY DEF HistoryInv, JobStores, Sure, Worked
<1>3. DoneTo(n - 1) /\ job[e].accounts = Outcome(n, ParentEntries(n))
    BY <1>2 DEF JobFollows, InBatch
<1>4. ASSUME NEW k \in Keys PROVE hist[n][k] = job[e].accounts[k]
    <2>1. CASE job[e].accounts[k] # Absent
        BY <1>2, <2>1 DEF JobStores, Dirty, Present
    <2>2. CASE job[e].accounts[k] = Absent
        BY <1>1, <1>3, <2>2 DEF HistoryInv, Follows
    <2> QED BY <2>1, <2>2
<1>5. job[e].accounts = hist[n]
    BY <1>1, <1>4
<1>6. Done(n)
    BY <1>3, <1>5 DEF Done
<1>7. ASSUME NEW m \in Blocks, m <= n PROVE Done(m)
    <2>1. m = n \/ m <= n - 1
        BY <1>1, <1>7, ConstantsOK DEF Blocks
    <2> QED BY <1>3, <1>6, <2>1 DEF DoneTo
<1> QED
    BY <1>1, <1>5, <1>7 DEF DoneTo

(***************************************************************************)
(* A live replica that has nothing more to read commits the block's        *)
(* outcome.                                                                *)
(***************************************************************************)
LEMMA CommitFollows ==
    ASSUME Inv, HistoryInv, Reliable, [Next]_vars,
           NEW e \in Executors, Commit(e), ~BackToRun(e)
    PROVE  JobFollows(e)' /\ JobStores(e)'
<1>1. TypeOK /\ job[e] \in Jobs /\ JobOK(e) /\ JobFollows(e) /\ pc[e] = "execute"
    BY DEF Inv, TypeOK, HistoryInv, Commit
<1>2. PICK n, p, found : n = job[e].blockNum /\ p = ParentEntries(n) /\ found = job[e].found
    OBVIOUS
<1>3. n \in Blocks /\ p \in Entries /\ found \in Answers
    <2>1. n \in Blocks
        BY <1>1, <1>2, ConstantsOK DEF JobOK, BatchBound, InBatch, Jobs, Heights, Blocks
    <2> QED BY <1>1, <1>2, <2>1, ParentEntriesType DEF Jobs
<1>4. PICK x : x = Modified(n, found)
    OBVIOUS
<1>5. \E label \in {"receipts", "commit"} :
          /\ label = "commit" => ctxLive[e]
          /\ label = "receipts" => Present(x) = {}
          /\ Goto(e, label)
          /\ job' = [job EXCEPT ![e].found = <<>>, ![e].accounts = x,
                                ![e].histOps = Present(x), ![e].latestOps = Present(x)]
    BY <1>2, <1>4 DEF Commit, Succeeds
<1>6. /\ pc'[e] \in {"receipts", "commit"}
      /\ pc'[e] = "commit" => ctxLive[e]
      /\ pc'[e] = "receipts" => Present(x) = {}
      /\ job'[e].blockNum = n
      /\ job'[e].accounts = x
      /\ job'[e].histOps = Present(x)
      /\ job'[e].latestOps = Present(x)
    BY <1>1, <1>2, <1>5 DEF Goto, TypeOK, Jobs
<1>7. UNCHANGED ctxLive
    BY DEF Commit
<1>8. Sure(e)' => Sure(e)
    BY <1>1, <1>6, <1>7 DEF Sure, Worked
<1>9. Sure(e)' => x = Outcome(n, p)
    <2>1. NextRead(n, found) = NoMore
        BY <1>2 DEF Commit
    <2>2. Completion(n, p)[found] = x
        BY <1>3, <1>4, <2>1, CompletionUnfolds DEF Step
    <2> QED BY <1>1, <1>2, <1>8, <2>2 DEF JobFollows
<1>10. JobFollows(e)'
    BY <1>1, <1>2, <1>6, <1>9, GoesOn DEF InBatch, Worked
<1>11. JobStores(e)'
    <2>1. Dirty(e)' = Present(x)
        BY <1>6 DEF Dirty, Present
    <2> QED BY <1>6, <2>1 DEF JobStores
<1> QED
    BY <1>10, <1>11

LEMMA PipelineFollows ==
    ASSUME Inv, HistoryInv, Reliable, [Next]_vars, NEW e \in Executors,
           \/ \E k \in Keys : SetHistorical(e, k) \/ SetLatest(e, k)
           \/ PipelineBreaks(e) /\ ~BackToRun(e)
    PROVE  JobFollows(e)' /\ JobStores(e)'
<1>1. TypeOK /\ job[e] \in Jobs /\ JobFollows(e) /\ JobStores(e) /\ pc[e] = "commit"
    BY DEF Inv, TypeOK, HistoryInv, SetHistorical, SetLatest, PipelineBreaks
<1>2. job[e].histOps \subseteq Dirty(e) /\ job[e].histOps \subseteq job[e].latestOps /\ Sure(e)
    BY <1>1 DEF JobStores, Sure, Worked
<1>3. /\ job'[e].blockNum = job[e].blockNum
      /\ job'[e].accounts = job[e].accounts
    BY <1>1 DEF SetHistorical, SetLatest, PipelineBreaks, TypeOK, Jobs
<1>4. pc'[e] \in {"commit", "receipts"}
    BY <1>1 DEF SetHistorical, SetLatest, PipelineBreaks, Goto, TypeOK
<1>5. JobFollows(e)'
    BY <1>1, <1>2, <1>3, <1>4, KeepsFollowing DEF Worked
<1>6. CASE \E k \in Keys : SetHistorical(e, k)
    <2>1. PICK k \in Keys : SetHistorical(e, k)
        BY <1>6
    <2>2. /\ job'[e].histOps = job[e].histOps \ {k}
          /\ job'[e].latestOps = job[e].latestOps
          /\ pc'[e] = "commit"
        BY <1>1, <2>1 DEF SetHistorical, TypeOK, Jobs
    <2>3. job[e].blockNum \in Blocks
        BY <1>1, ConstantsOK DEF Inv, JobOK, BatchBound, InBatch, Jobs, Heights, Blocks
    <2>4. hist'[job[e].blockNum][k] = job[e].accounts[k]
        BY <1>1, <2>1, <2>3 DEF SetHistorical, TypeOK, Entries
    <2> QED BY <1>1, <1>2, <1>3, <1>5, <2>2, <2>4, KeepsStored DEF Loaded
<1>7. CASE \E k \in Keys : SetLatest(e, k)
    <2>1. PICK k \in Keys : SetLatest(e, k)
        BY <1>7
    <2>2. /\ job'[e].histOps = job[e].histOps
          /\ job'[e].latestOps = job[e].latestOps \ {k}
          /\ k \notin job[e].histOps
        BY <1>1, <2>1 DEF SetLatest, TypeOK, Jobs
    <2>3. pc'[e] # "commit" => job[e].histOps = {}
        BY <1>1, <1>2, <2>1, <2>2 DEF SetLatest
    <2> QED BY <1>1, <1>2, <1>3, <1>4, <1>5, <2>2, <2>3, KeepsStored DEF Loaded
<1>8. CASE PipelineBreaks(e) /\ ~BackToRun(e)
    <2>1. /\ job'[e].histOps = Dirty(e)
          /\ job'[e].latestOps = Dirty(e)
          /\ pc'[e] = "commit"
        BY <1>1, <1>8 DEF PipelineBreaks, TypeOK, Jobs
    <2> QED BY <1>1, <1>2, <1>3, <1>5, <2>1, KeepsStored DEF Loaded
<1> QED
    BY <1>6, <1>7, <1>8

LEMMA NextBlockFollows ==
    ASSUME Inv, HistoryInv, Reliable, [Next]_vars,
           NEW e \in Executors, UpdateExecProgress(e), ~BackToRun(e)
    PROVE  JobFollows(e)' /\ JobStores(e)'
<1>1. TypeOK /\ pc[e] = "update"
    BY DEF Inv, UpdateExecProgress
<1>2. PICK n : n = job[e].blockNum
    OBVIOUS
<1>3. n \in Blocks /\ DoneTo(n)
    BY <1>1, <1>2, UpdateDone
<1>4. n \in Int /\ n + 1 \in Int /\ (n + 1) - 1 = n
    BY <1>3, ConstantsOK DEF Blocks
<1>5. DoneTo(n)'
    BY <1>3, <1>4, DoneStays
<1>6. /\ pc'[e] = "block"
      /\ job'[e].blockNum = n + 1
      /\ job'[e].found = <<>>
      /\ job'[e].histOps = {}
    BY <1>1, <1>2 DEF UpdateExecProgress, NextBlock, Goto, TypeOK, NoJob
<1> QED
    BY <1>4, <1>5, <1>6, NoWork DEF Worked

LEMMA OwnStepFollows ==
    ASSUME Inv, HistoryInv, Reliable, FirstReads, [Next]_vars,
           NEW e \in Executors, OwnStep(e)
    PROVE  JobFollows(e)' /\ JobStores(e)'
<1>1. TypeOK /\ job[e] \in Jobs /\ JobFollows(e) /\ JobStores(e)
    BY DEF Inv, TypeOK, HistoryInv
<1>2. ASSUME NEW label, Goto(e, label) PROVE pc'[e] = label
    BY <1>1, <1>2 DEF Goto, TypeOK
<1>3. ASSUME NEW label, label \notin InBatch, Goto(e, label), job' = [job EXCEPT ![e] = NoJob]
      PROVE  JobFollows(e)' /\ JobStores(e)'
    <2>1. job'[e] = NoJob /\ pc'[e] \notin InBatch
        BY <1>1, <1>2, <1>3 DEF TypeOK
    <2> QED BY <2>1, NoWork DEF NoJob, Worked, InBatch
<1>4. CASE BackToRun(e)
    BY <1>3, <1>4 DEF BackToRun, InBatch
<1>5. CASE GetSyncProgress(e) \/ RunReturns(e) \/ Restart(e)
    <2>1. pc[e] \notin Worked /\ pc'[e] \notin InBatch
        BY <1>2, <1>5 DEF GetSyncProgress, RunReturns, Restart, Worked, InBatch
    <2>2. job'[e].found = job[e].found /\ job'[e].histOps = job[e].histOps
        BY <1>1, <1>5 DEF GetSyncProgress, RunReturns, Restart, TypeOK, Jobs
    <2>3. job[e].found = <<>> /\ job[e].histOps = {}
        BY <1>1, <2>1 DEF JobFollows, JobStores, Worked
    <2> QED BY <2>1, <2>2, <2>3, NoWork DEF Worked, InBatch
<1>6. CASE GetBlock(e) /\ ~BackToRun(e)
    <2>1. CASE Goto(e, "down") /\ job' = [job EXCEPT ![e] = NoJob]
        BY <1>3, <2>1 DEF InBatch
    <2>2. CASE Goto(e, "execute") /\ UNCHANGED job
        <3>1. pc[e] = "block" /\ pc'[e] = "execute"
            BY <1>2, <1>6, <2>2 DEF GetBlock
        <3>2. PICK n, p : n = job[e].blockNum /\ p = ParentEntries(n)
            OBVIOUS
        <3>3. job'[e].found = <<>> /\ job'[e].blockNum = n /\ job[e].histOps = {}
            BY <1>1, <2>2, <3>1, <3>2 DEF JobFollows, JobStores, Worked
        <3>4. Completion(n, p)[job'[e].found] = Outcome(n, p)
            BY <3>3 DEF Outcome
        <3>5. JobFollows(e)'
            BY <3>1, <3>2, <3>3, <3>4, GoesOn DEF Worked, InBatch
        <3>6. JobStores(e)'
            BY <2>2, <3>1, <3>3 DEF JobStores
        <3> QED BY <3>5, <3>6
    <2> QED BY <1>6, <2>1, <2>2 DEF GetBlock
<1>7. CASE StoreReceipts(e) /\ ~BackToRun(e)
    <2>1. pc[e] = "receipts" /\ pc'[e] = "update" /\ UNCHANGED job /\ ctxLive[e]
        BY <1>2, <1>7 DEF StoreReceipts, Succeeds
    <2>2. Sure(e) /\ job[e].histOps = {}
        BY <1>1, <2>1 DEF Sure, Worked, JobStores
    <2>3. JobFollows(e)'
        BY <2>1, <2>2, KeepsFollowing DEF Worked
    <2>4. JobStores(e)'
        BY <2>1, <2>2, KeepsStored DEF Loaded
    <2> QED BY <2>3, <2>4
<1>8. CASE Signal(e)
    <2>1. UNCHANGED <<pc, job, hist>> /\ ctxLive'[e] = FALSE
        BY <1>1, <1>8 DEF Signal, pika, TypeOK
    <2>2. Sure(e)' => Sure(e)
        BY <2>1 DEF Sure
    <2>3. CASE pc[e] \in Worked
        <3>1. JobFollows(e)'
            BY <2>1, <2>2, <2>3, KeepsFollowing
        <3> QED BY <1>1, <2>1, <2>2, <3>1 DEF JobStores, Dirty, Present
    <2>4. CASE pc[e] \notin Worked
        <3>1. PICK n : n = job[e].blockNum
            OBVIOUS
        <3>2. pc[e] \in InBatch => n \in Int /\ DoneTo(n - 1)'
            BY <3>1, BatchStays, ConstantsOK DEF Blocks
        <3>3. job'[e].found = <<>> /\ job'[e].histOps = {} /\ pc'[e] \notin Worked
            BY <1>1, <2>1, <2>4 DEF JobFollows, JobStores, Worked
        <3>4. CASE pc[e] \in InBatch
            BY <2>1, <3>1, <3>2, <3>3, <3>4, NoWork
        <3>5. CASE pc[e] \notin InBatch
            BY <2>1, <3>3, <3>5, NoWork
        <3> QED BY <3>4, <3>5
    <2> QED BY <2>3, <2>4
<1>9. CASE Exit(e) \/ Crash(e)
    BY <1>3, <1>9 DEF Exit, Crash, InBatch
<1> QED
    BY <1>4, <1>5, <1>6, <1>7, <1>8, <1>9, LoadFollows, StartFollows, CommitFollows,
       PipelineFollows, NextBlockFollows DEF OwnStep, RunStep

LEMMA HistoryNext ==
    ASSUME Reliable
    PROVE  Inv /\ HistoryInv /\ FirstReads /\ [Next]_vars => HistoryInv'
<1> SUFFICES ASSUME Inv, HistoryInv, FirstReads, [Next]_vars PROVE HistoryInv'
    OBVIOUS
<1>1. TypeOK
    BY DEF Inv
<1>2. DoneTo(execHeight)'
    <2>1. CASE UNCHANGED execHeight
        <3>1. PICK h \in Int : h = execHeight
            BY <1>1, ConstantsOK DEF TypeOK, Heights
        <3>2. DoneTo(h)'
            BY <3>1, DoneStays DEF HistoryInv
        <3> QED BY <2>1, <3>1, <3>2
    <2>2. CASE \E e \in Executors : pc[e] = "update" /\ execHeight' = job[e].blockNum
        <3>1. PICK e \in Executors : pc[e] = "update" /\ execHeight' = job[e].blockNum
            BY <2>2
        <3>2. PICK n : n = job[e].blockNum
            OBVIOUS
        <3>3. n \in Blocks /\ DoneTo(n)
            BY <3>1, <3>2, UpdateDone
        <3>4. DoneTo(n)'
            BY <3>3, DoneStays, ConstantsOK DEF Blocks
        <3> QED BY <3>1, <3>2, <3>4
    <2> QED BY <1>1, <2>1, <2>2, ExecSteps
<1>3. ASSUME NEW e \in Executors PROVE JobFollows(e)' /\ JobStores(e)'
    <2>1. CASE UNCHANGED <<pc[e], job[e], ctxLive[e]>>
        <3>1. JobFollows(e) /\ JobStores(e) /\ (Sure(e)' <=> Sure(e))
            BY <2>1 DEF HistoryInv, Sure
        <3>2. CASE pc[e] \in Worked
            <4>1. JobFollows(e)'
                BY <2>1, <3>1, <3>2, KeepsFollowing
            <4>2. CASE pc[e] = "execute"
                BY <2>1, <3>1, <4>1, <4>2 DEF JobStores, Dirty, Present
            <4>3. CASE pc[e] # "execute"
                <5>1. pc[e] \in Loaded
                    BY <3>2, <4>3 DEF Worked, Loaded
                <5>2. JobStores(e)'
                    BY <2>1, <3>1, <5>1, KeepsStored DEF JobStores
                <5> QED BY <4>1, <5>2
            <4> QED BY <4>2, <4>3
        <3>3. CASE pc[e] \notin Worked
            <4>1. PICK n : n = job[e].blockNum
                OBVIOUS
            <4>2. pc[e] \in InBatch => n \in Int /\ DoneTo(n - 1)'
                BY <4>1, BatchStays, ConstantsOK DEF Blocks
            <4>3. job[e].found = <<>> /\ job[e].histOps = {}
                BY <3>1, <3>3 DEF JobFollows, JobStores, Worked
            <4>4. CASE pc[e] \in InBatch
                BY <2>1, <3>3, <4>1, <4>2, <4>3, <4>4, NoWork
            <4>5. CASE pc[e] \notin InBatch
                BY <2>1, <3>3, <4>3, <4>5, NoWork
            <4> QED BY <4>4, <4>5
        <3> QED BY <3>2, <3>3
    <2> QED BY <1>1, <2>1, WhoSteps, OwnStepFollows
<1> QED
    BY <1>2, <1>3, FollowsNext, LatestFollowsNext DEF HistoryInv

LEMMA InitHistory == Init => HistoryInv
<1> SUFFICES ASSUME Init PROVE HistoryInv
    OBVIOUS
<1>1. DoneTo(execHeight)
    BY ConstantsOK DEF Init, DoneTo, Blocks
<1>2. \A n \in Blocks, k \in Keys : Follows(n, k)
    BY DEF Init, Follows, NoEntries
<1>3. \A k \in Keys : LatestFollows(k)
    BY DEF Init, LatestFollows
<1>4. ASSUME NEW e \in Executors PROVE JobFollows(e) /\ JobStores(e)
    BY <1>4 DEF Init, JobFollows, JobStores, Sure, Worked, InBatch, NoJob
<1> QED
    BY <1>1, <1>2, <1>3, <1>4 DEF HistoryInv

-----------------------------------------------------------------------------
(***************************************************************************)
(* With any number of replicas the hypothesis about block 1 is that it     *)
(* reads nothing: it has no transactions.                                  *)
(***************************************************************************)
FirstBlockEmpty == \A found \in Answers : NextRead(1, found) = NoMore

LEMMA EmptyFirstReads ==
    ASSUME FirstBlockEmpty, Inv
    PROVE  FirstReads
BY DEF FirstBlockEmpty, FirstReads, Inv, TypeOK, Jobs

(***************************************************************************)
(* However many replicas execute a block, and however often, after a       *)
(* crash, a signal, a broken pipeline or a lost progress: every entry      *)
(* stored for it is the one that executing it once on its parent's entries *)
(* leaves (accountKey, pkg/storage/state.go), and every latest key holds   *)
(* such an entry or what it held before block 1.  Assumed are that no      *)
(* entry expires, no read of one fails and block 1 has no transactions.    *)
(***************************************************************************)
THEOREM AppliedOnce ==
    ASSUME Reliable, FirstBlockEmpty
    PROVE  Spec => []NoDoubleApply
<1>1. HistoryInv => NoDoubleApply
    BY DEF HistoryInv, Follows, LatestFollows, NoDoubleApply
<1>2. Inv /\ HistoryInv /\ [Next]_vars => HistoryInv'
    BY EmptyFirstReads, HistoryNext
<1> QED
    BY <1>1, <1>2, InitHistory, Invariance, PTL DEF Spec

(***************************************************************************)
(* Under the same assumptions: what one replica has stored for a block     *)
(* (BatchWrite, pkg/storage/state.go) no other ever changes.               *)
(***************************************************************************)
THEOREM ReplicasAgree ==
    ASSUME Reliable, FirstBlockEmpty
    PROVE  Spec => HistoryStable
<1>1. Inv /\ HistoryInv /\ [Next]_vars => HistoryInv'
    BY EmptyFirstReads, HistoryNext
<1>2. ASSUME Inv, HistoryInv, [Next]_vars
      PROVE  \A n \in Blocks, k \in Keys : hist[n][k] # Absent => hist'[n][k] = hist[n][k]
    BY <1>2, WritesFollow
<1>3. Inv /\ HistoryInv /\ [Next]_vars
          => [\A n \in Blocks, k \in Keys :
                 hist[n][k] # Absent => hist'[n][k] = hist[n][k]]_hist
    BY <1>2
<1> QED
    BY <1>1, <1>3, InitHistory, Invariance, PTL DEF Spec, HistoryStable
=============================================================================
