------------------------ MODULE BlockExecutorProofs -------------------------
(***************************************************************************)
(* Proofs about BlockExecutor, for any number of replicas, blocks and keys *)
(* and any mishaps.                                                        *)
(***************************************************************************)
EXTENDS BlockExecutor, TLAPS

-----------------------------------------------------------------------------
(***************************************************************************)
(* The inductive invariant behind ProgressCovered.  A replica that is at   *)
(* work on block n started from a recorded height, or from zero, and has   *)
(* executed the blocks in between itself: all of them are covered.         *)
(***************************************************************************)
InBatch  == {"block", "execute", "commit", "receipts", "update"}
Loaded   == {"commit", "receipts", "update"}

Covered(n) ==
    /\ receipts[n] # Absent
    /\ \A k \in Keys : receipts[n][k] # Absent => latest[k] # Absent

SyncBound == \A e \in Executors : job[e].syncSeen <= syncHeight

BatchBound(e) ==
    pc[e] \in InBatch => /\ 1 <= job[e].blockNum
                         /\ job[e].blockNum <= job[e].endBlock
                         /\ job[e].endBlock <= job[e].syncSeen

BatchCovered(e) ==
    pc[e] \in InBatch => \A n \in Blocks : n < job[e].blockNum => Covered(n)

(***************************************************************************)
(* An entry to commit is written or still pending, and once the receipts   *)
(* are stored the block is covered, by this execution of it or another.    *)
(***************************************************************************)
Committing(e) ==
    /\ job[e].latestOps \subseteq Dirty(e)
    /\ pc[e] # "commit" => job[e].latestOps = {}
    /\ pc[e] \in Loaded =>
          \A k \in Dirty(e) \ job[e].latestOps : latest[k] # Absent
    /\ pc[e] = "update" => Covered(job[e].blockNum)

JobOK(e) == BatchBound(e) /\ BatchCovered(e) /\ Committing(e)

Inv ==
    /\ TypeOK
    /\ SyncBound
    /\ ProgressCovered
    /\ \A e \in Executors : JobOK(e)

-----------------------------------------------------------------------------
(***************************************************************************)
(* The sequences of entries that the reads of a block can find.            *)
(***************************************************************************)
LEMMA NoAnswers == <<>> \in Answers
<1>1. 0 \in 0..MaxReads /\ <<>> \in [1..0 -> Entry]
    BY ConstantsOK
<1> QED
    BY <1>1 DEF Answers

LEMMA AnswersShape ==
    ASSUME NEW found \in Answers
    PROVE  found \in Seq(Entry) /\ Len(found) \in 0..MaxReads
<1>1. PICK m \in 0..MaxReads : found \in [1..m -> Entry]
    BY DEF Answers
<1> QED
    BY <1>1, ConstantsOK

LEMMA AnswersAre ==
    ASSUME NEW found \in Seq(Entry), Len(found) <= MaxReads
    PROVE  found \in Answers
<1>1. found \in [1..Len(found) -> Entry] /\ Len(found) \in 0..MaxReads
    BY ConstantsOK
<1> QED
    BY <1>1 DEF Answers

(***************************************************************************)
(* One more read, as long as the transactions ask for one.                 *)
(***************************************************************************)
LEMMA OneMoreAnswer ==
    ASSUME NEW n \in Blocks, NEW found \in Answers, NextRead(n, found) # NoMore,
           NEW v \in Entry
    PROVE  Append(found, v) \in Answers
<1>1. found \in Seq(Entry) /\ Len(found) \in 0..MaxReads
    BY AnswersShape
<1>2. Len(found) < MaxReads
    BY <1>1, TransactionsOK, ConstantsOK
<1>3. Append(found, v) \in Seq(Entry) /\ Len(Append(found, v)) = Len(found) + 1
    BY <1>1
<1>4. Len(Append(found, v)) <= MaxReads
    BY <1>1, <1>2, <1>3, ConstantsOK
<1> QED
    BY <1>3, <1>4, AnswersAre

(***************************************************************************)
(* The initial state satisfies the invariant.                              *)
(***************************************************************************)
LEMMA InitInv == Init => Inv
<1> SUFFICES ASSUME Init PROVE Inv
    OBVIOUS
<1> USE ConstantsOK
<1>1. NoEntries \in Entries
    BY DEF NoEntries, Entries, Entry
<1>2. NoJob \in Jobs
    BY <1>1, NoAnswers DEF NoJob, Jobs, Heights
<1>3. TypeOK
    BY <1>1, <1>2 DEF Init, TypeOK, Heights, Entries, PCs
<1>4. SyncBound
    BY DEF Init, SyncBound, NoJob
<1>5. ProgressCovered
    BY DEF Init, ProgressCovered
<1>6. ASSUME NEW e \in Executors PROVE JobOK(e)
    BY <1>6 DEF Init, JobOK, BatchBound, BatchCovered, Committing, Dirty, Present,
                NoJob, NoEntries, InBatch, Loaded
<1> QED
    BY <1>3, <1>4, <1>5, <1>6 DEF Inv

(***************************************************************************)
(* Stored data only grows as far as the invariant can tell, and that keeps *)
(* what is covered covered.                                                *)
(***************************************************************************)
Grows ==
    /\ syncHeight <= syncHeight'
    /\ \A k \in Keys : latest[k] # Absent => latest'[k] # Absent
    /\ \A n \in Blocks :
          \/ receipts'[n] = receipts[n]
          \/ /\ receipts'[n] # Absent
             /\ \A k \in Keys : receipts'[n][k] # Absent => latest'[k] # Absent

LEMMA StaysCovered ==
    ASSUME TypeOK, Grows, NEW n \in Blocks, Covered(n)
    PROVE  Covered(n)'
<1>1. CASE receipts'[n] = receipts[n]
    BY <1>1 DEF Covered, Grows
<1>2. CASE receipts'[n] # receipts[n]
    BY <1>2 DEF Covered, Grows
<1> QED BY <1>1, <1>2

(***************************************************************************)
(* A replica that takes no step stays within the invariant.                *)
(***************************************************************************)
LEMMA BystanderOK ==
    ASSUME Inv, Grows, NEW e \in Executors, JobOK(e), UNCHANGED <<pc[e], job[e]>>
    PROVE  JobOK(e)'
<1>1. TypeOK /\ job[e] \in Jobs
    BY DEF Inv, TypeOK
<1>2. BatchBound(e)'
    BY DEF JobOK, BatchBound
<1>3. BatchCovered(e)'
    BY <1>1, StaysCovered DEF JobOK, BatchCovered
<1>4. pc[e] = "update" => job[e].blockNum \in Blocks
    BY <1>1, ConstantsOK DEF JobOK, BatchBound, InBatch, Blocks, Heights, Jobs
<1>5. Dirty(e)' = Dirty(e) /\ Dirty(e) \subseteq Keys
    BY DEF Dirty, Present
<1>6. (pc[e] = "update" => Covered(job[e].blockNum))'
    <2>1. ASSUME NEW n \in Blocks, Covered(n) PROVE Covered(n)'
        BY <1>1, <2>1, StaysCovered
    <2> QED BY <1>4, <2>1 DEF JobOK, Committing, Covered
<1>7. Committing(e)'
    BY <1>5, <1>6 DEF JobOK, Committing, Grows
<1> QED
    BY <1>2, <1>3, <1>7 DEF JobOK

(***************************************************************************)
(* Recorded blocks stay covered while no step records one.                 *)
(***************************************************************************)
StoresOK ==
    /\ syncHeight \in Heights
    /\ execHeight \in Heights
    /\ hist \in [Blocks -> Entries]
    /\ latest \in Entries
    /\ receipts \in [Blocks -> {Absent} \cup Entries]
    /\ ctxLive \in [Executors -> BOOLEAN]
    /\ mishaps \in 0..MaxMishaps

LEMMA StaysRecorded ==
    ASSUME Inv, Grows, StoresOK', UNCHANGED execHeight
    PROVE  ProgressCovered'
<1>1. execHeight \in Heights /\ syncHeight \in Heights /\ syncHeight' \in Heights
    BY DEF Inv, TypeOK, StoresOK
<1>2. execHeight' <= syncHeight'
    BY <1>1 DEF Inv, ProgressCovered, Grows, Heights
<1>3. ASSUME NEW n \in 1..execHeight PROVE Covered(n)'
    <2>1. n \in Blocks
        BY <1>1, ConstantsOK DEF Heights, Blocks
    <2> QED BY <2>1, StaysCovered DEF Inv, ProgressCovered, Covered
<1> QED
    BY <1>2, <1>3 DEF ProgressCovered, Covered

(***************************************************************************)
(* A step that leaves every replica but e alone preserves the invariant    *)
(* when it does so for e.                                                  *)
(***************************************************************************)
LEMMA StepOfOne ==
    ASSUME Inv, Grows, StoresOK', ProgressCovered',
           NEW e \in Executors, NEW label \in PCs, NEW j \in Jobs,
           pc' = [pc EXCEPT ![e] = label], job' = [job EXCEPT ![e] = j],
           j.syncSeen <= syncHeight', JobOK(e)'
    PROVE  Inv'
<1>1. pc \in [Executors -> PCs] /\ job \in [Executors -> Jobs]
    BY DEF Inv, TypeOK
<1>2. TypeOK'
    BY <1>1 DEF TypeOK, StoresOK
<1>3. ASSUME NEW f \in Executors \ {e} PROVE job'[f].syncSeen <= syncHeight' /\ JobOK(f)'
    <2>1. UNCHANGED <<pc[f], job[f]>>
        BY <1>1
    <2>2. JobOK(f)'
        BY <2>1, BystanderOK DEF Inv
    <2>3. job'[f].syncSeen <= syncHeight'
        BY <1>1, <2>1, ConstantsOK DEF Inv, TypeOK, StoresOK, SyncBound, Jobs, Heights, Grows
    <2> QED BY <2>2, <2>3
<1>4. job'[e] = j
    BY <1>1
<1>5. SyncBound'
    BY <1>3, <1>4 DEF SyncBound
<1> QED
    BY <1>2, <1>3, <1>5 DEF Inv

(***************************************************************************)
(* A step that stores nothing.                                             *)
(***************************************************************************)
LEMMA LocalStep ==
    ASSUME Inv, UNCHANGED pika, ctxLive' \in [Executors -> BOOLEAN], mishaps' \in 0..MaxMishaps
    PROVE  Grows /\ StoresOK' /\ ProgressCovered'
<1>1. StoresOK' /\ UNCHANGED execHeight
    BY DEF Inv, TypeOK, StoresOK, pika
<1>2. Grows
    BY ConstantsOK DEF Inv, TypeOK, Grows, pika, Heights
<1> QED
    BY <1>1, <1>2, StaysRecorded

(***************************************************************************)
(* The counter of mishaps stays within its bound.                          *)
(***************************************************************************)
LEMMA MishapsOK ==
    ASSUME TypeOK, \/ \E kind \in MishapKinds : Mishap(kind)
                   \/ \E e \in Executors, kind \in MishapKinds : Succeeds(e) \/ Fails(e, kind)
                   \/ UNCHANGED mishaps
    PROVE  mishaps' \in 0..MaxMishaps
BY ConstantsOK DEF TypeOK, Mishap, Succeeds, Fails

(***************************************************************************)
(* executeNextBlocks returning, or the process ending, leaves no job.      *)
(***************************************************************************)
LEMMA NoJobInv ==
    ASSUME Inv, Grows, StoresOK', ProgressCovered',
           NEW e \in Executors, NEW label \in PCs \ InBatch,
           Goto(e, label), job' = [job EXCEPT ![e] = NoJob]
    PROVE  Inv'
<1>1. pc \in [Executors -> PCs] /\ job \in [Executors -> Jobs]
    BY DEF Inv, TypeOK
<1>2. NoJob \in Jobs
    BY ConstantsOK, NoAnswers DEF NoJob, NoEntries, Entries, Entry, Jobs, Heights
<1>3. pc'[e] = label /\ job'[e] = NoJob
    BY <1>1 DEF Goto
<1>4. Dirty(e)' = {}
    BY <1>3 DEF Dirty, Present, NoJob, NoEntries
<1>5. JobOK(e)'
    BY <1>3, <1>4 DEF JobOK, BatchBound, BatchCovered, Committing, NoJob,
                      InBatch, Loaded
<1>6. NoJob.syncSeen <= syncHeight'
    BY ConstantsOK DEF NoJob, StoresOK, Heights
<1> QED
    BY <1>2, <1>5, <1>6, StepOfOne DEF Goto

-----------------------------------------------------------------------------
(***************************************************************************)
(* The steps of the run goroutine (pkg/executor/executor.go).              *)
(***************************************************************************)
LEMMA GetSyncProgressInv ==
    ASSUME Inv, NEW e \in Executors, GetSyncProgress(e)
    PROVE  Inv'
<1> DEFINE j == [job[e] EXCEPT !.syncSeen = syncHeight]
<1>1. TypeOK /\ job[e] \in Jobs
    BY DEF Inv, TypeOK
<1>2. /\ j \in Jobs
      /\ pc' = [pc EXCEPT ![e] = "progress"]
      /\ job' = [job EXCEPT ![e] = j]
      /\ pc'[e] = "progress"
      /\ job'[e] = j
    BY <1>1 DEF GetSyncProgress, Goto, Jobs, TypeOK
<1>3. Grows /\ StoresOK' /\ ProgressCovered'
    BY <1>1, LocalStep DEF GetSyncProgress, TypeOK
<1>4. Dirty(e)' = Dirty(e)
    BY <1>1, <1>2 DEF Dirty, Present, Jobs
<1>5. JobOK(e)'
    <2>1. pc[e] = "idle" /\ JobOK(e)
        BY DEF Inv, GetSyncProgress
    <2>2. j.latestOps = job[e].latestOps
        BY <1>1 DEF Jobs
    <2>3. BatchBound(e)' /\ BatchCovered(e)'
        BY <1>2 DEF BatchBound, BatchCovered, InBatch
    <2>5. Committing(e)'
        BY <1>2, <1>4, <2>1, <2>2 DEF JobOK, Committing, Loaded
    <2> QED BY <2>3, <2>5 DEF JobOK
<1>6. j.syncSeen <= syncHeight' /\ "progress" \in PCs
    BY <1>1, <1>3 DEF Grows, Jobs, PCs
<1> QED
    BY <1>2, <1>3, <1>5, <1>6, StepOfOne

(***************************************************************************)
(* The blocks up to a height h that is recorded, or zero, are covered.     *)
(***************************************************************************)
LEMMA StartBatchInv ==
    ASSUME Inv, UNCHANGED <<pika, ctxLive>>, mishaps' \in 0..MaxMishaps,
           NEW e \in Executors, NEW h \in Heights, h <= execHeight,
           pc[e] = "progress", StartBatch(e, h)
    PROVE  Inv'
<1> USE ConstantsOK
<1> DEFINE seen == job[e].syncSeen
           last == IF h + BatchSize > seen THEN seen ELSE h + BatchSize
           j == [job[e] EXCEPT !.blockNum = h + 1, !.endBlock = last]
<1>1. TypeOK /\ job[e] \in Jobs /\ seen \in Heights
    BY DEF Inv, TypeOK, Jobs
<1>2. Grows /\ StoresOK' /\ ProgressCovered'
    BY <1>1, LocalStep DEF TypeOK
<1>3. CASE h < last
    <2>1. last <= seen /\ last \in Heights /\ h + 1 \in Heights /\ h + 1 <= last
        BY <1>1, <1>3 DEF Heights
    <2>2. /\ j \in Jobs
          /\ pc' = [pc EXCEPT ![e] = "block"]
          /\ job' = [job EXCEPT ![e] = j]
        BY <1>1, <1>3, <2>1 DEF StartBatch, HasBlocks, FirstBlock, LastBlock, Goto, Jobs, TypeOK
    <2>3. /\ pc'[e] = "block"
          /\ job'[e] = j
        BY <1>1, <2>2 DEF TypeOK
    <2>4. BatchBound(e)'
        BY <1>1, <2>1, <2>3 DEF BatchBound, Jobs, Heights
    <2>5. BatchCovered(e)'
        <3> SUFFICES ASSUME NEW n \in Blocks, n < h + 1 PROVE Covered(n)'
            BY <2>3, <1>1 DEF BatchCovered, Jobs
        <3>1. n \in 1..execHeight
            BY <1>1 DEF Blocks, Heights, TypeOK
        <3> QED BY <1>1, <1>2, <3>1, StaysCovered DEF Inv, ProgressCovered, Covered
    <2>6. Committing(e)'
        <3>1. Dirty(e)' = Dirty(e)
            BY <1>1, <2>3 DEF Dirty, Present, Jobs
        <3> QED
            BY <1>1, <2>3, <3>1 DEF Inv, JobOK, Committing, InBatch, Loaded, Jobs
    <2>7. j.syncSeen <= syncHeight' /\ "block" \in PCs
        BY <1>1 DEF Inv, SyncBound, pika, Jobs, PCs
    <2> QED
        BY <1>2, <2>2, <2>4, <2>5, <2>6, <2>7, StepOfOne DEF JobOK
<1>4. CASE ~(h < last)
    BY <1>2, <1>4, NoJobInv DEF StartBatch, HasBlocks, FirstBlock, LastBlock, BackToRun, PCs, InBatch
<1> QED
    BY <1>3, <1>4

LEMMA GetExecProgressInv ==
    ASSUME Inv, NEW e \in Executors, GetExecProgress(e)
    PROVE  Inv'
<1>1. mishaps' \in 0..MaxMishaps
    BY MishapsOK DEF GetExecProgress, Inv, MishapKinds
<1>2. CASE StartBatch(e, execHeight)
    BY <1>1, <1>2, StartBatchInv, ConstantsOK DEF GetExecProgress, Inv, TypeOK, Heights
<1>3. CASE StartBatch(e, 0)
    BY <1>1, <1>3, StartBatchInv, ConstantsOK DEF GetExecProgress, Inv, TypeOK, Heights
<1> QED
    BY <1>2, <1>3 DEF GetExecProgress

LEMMA GetBlockInv ==
    ASSUME Inv, NEW e \in Executors, GetBlock(e)
    PROVE  Inv'
<1>1. TypeOK /\ job[e] \in Jobs /\ JobOK(e)
    BY DEF Inv, TypeOK
<1>2. mishaps' \in 0..MaxMishaps
    BY <1>1, MishapsOK DEF GetBlock, MishapKinds
<1>3. Grows /\ StoresOK' /\ ProgressCovered'
    BY <1>1, <1>2, LocalStep DEF GetBlock, TypeOK
<1>4. CASE Goto(e, "execute") /\ UNCHANGED job
    <2>1. pc' = [pc EXCEPT ![e] = "execute"] /\ job' = [job EXCEPT ![e] = job[e]]
        BY <1>1, <1>4 DEF Goto, TypeOK
    <2>2. pc[e] = "block" /\ pc'[e] = "execute" /\ job'[e] = job[e] /\ "execute" \in PCs
        BY <1>1, <2>1 DEF GetBlock, TypeOK, PCs
    <2>3. Dirty(e)' = Dirty(e)
        BY <2>2 DEF Dirty, Present
    <2>4. BatchBound(e)'
        BY <1>1, <2>2 DEF JobOK, BatchBound, InBatch, Loaded
    <2>5. BatchCovered(e)'
        BY <1>1, <1>3, <2>2, StaysCovered DEF JobOK, BatchCovered, InBatch
    <2>6. Committing(e)'
        BY <1>1, <2>2, <2>3 DEF JobOK, Committing, Loaded
    <2>7. job[e].syncSeen <= syncHeight'
        BY <1>1 DEF Inv, SyncBound, GetBlock, pika
    <2> QED
        BY <1>1, <1>3, <2>1, <2>2, <2>4, <2>5, <2>6, <2>7, StepOfOne DEF JobOK
<1>5. CASE Goto(e, "down") /\ job' = [job EXCEPT ![e] = NoJob]
    BY <1>3, <1>5, NoJobInv DEF PCs, InBatch
<1>6. CASE BackToRun(e)
    BY <1>3, <1>6, NoJobInv DEF BackToRun, PCs, InBatch
<1> QED
    BY <1>4, <1>5, <1>6 DEF GetBlock

LEMMA LoadEntryInv ==
    ASSUME Inv, NEW e \in Executors, NEW k \in Keys, LoadEntry(e, k)
    PROVE  Inv'
<1> USE ConstantsOK
<1> DEFINE n == job[e].blockNum
           Finds(v) == [job[e] EXCEPT !.found = Append(@, v)]
<1>1. TypeOK /\ job[e] \in Jobs /\ JobOK(e) /\ pc[e] = "execute"
    BY DEF Inv, TypeOK, LoadEntry
<1>2. mishaps' \in 0..MaxMishaps
    BY <1>1, MishapsOK DEF LoadEntry, MishapKinds
<1>3. Grows /\ StoresOK' /\ ProgressCovered'
    BY <1>1, <1>2, LocalStep DEF LoadEntry, TypeOK
<1>4. n \in Blocks
    BY <1>1 DEF JobOK, BatchBound, InBatch, Jobs, Heights, Blocks
<1>5. PICK v \in Entry : job' = [job EXCEPT ![e] = Finds(v)]
    <2>1. ParentEntry(n, k) \in Entry
        BY <1>1, <1>4 DEF ParentEntry, TypeOK, Entries, Blocks
    <2>2. Absent \in Entry
        BY DEF Entry
    <2>3. CASE job' = [job EXCEPT ![e] = Finds(ParentEntry(n, k))]
        BY <2>1, <2>3
    <2>4. CASE job' = [job EXCEPT ![e] = Finds(Absent)]
        BY <2>2, <2>4
    <2> QED BY <1>1, <2>3, <2>4 DEF LoadEntry, TypeOK
<1>6. Append(job[e].found, v) \in Answers
    <2>1. job[e].found \in Answers /\ NextRead(n, job[e].found) # NoMore
        BY <1>1 DEF Jobs, LoadEntry
    <2> QED BY <1>4, <2>1, OneMoreAnswer
<1>7. /\ Finds(v) \in Jobs
      /\ Finds(v).blockNum = n
      /\ Finds(v).endBlock = job[e].endBlock
      /\ Finds(v).syncSeen = job[e].syncSeen
      /\ Finds(v).accounts = job[e].accounts
      /\ Finds(v).latestOps = job[e].latestOps
    BY <1>1, <1>6 DEF Jobs
<1>8. pc' = [pc EXCEPT ![e] = "execute"] /\ pc'[e] = "execute" /\ job'[e] = Finds(v)
    BY <1>1, <1>5 DEF LoadEntry, TypeOK
<1> HIDE DEF Finds
<1>9. BatchBound(e)'
    BY <1>1, <1>7, <1>8 DEF JobOK, BatchBound, InBatch
<1>10. BatchCovered(e)'
    BY <1>1, <1>3, <1>7, <1>8, StaysCovered DEF JobOK, BatchCovered, InBatch
<1>11. Committing(e)'
    BY <1>1, <1>7, <1>8 DEF JobOK, Committing, Loaded
<1>12. Finds(v).syncSeen <= syncHeight' /\ "execute" \in PCs
    BY <1>1, <1>7 DEF Inv, SyncBound, LoadEntry, pika, PCs
<1> QED
    BY <1>3, <1>5, <1>7, <1>8, <1>9, <1>10, <1>11, <1>12, StepOfOne DEF JobOK

(***************************************************************************)
(* Until the receipts are stored a commit has all its entries to write.    *)
(***************************************************************************)
LEMMA CommitInv ==
    ASSUME Inv, NEW e \in Executors, Commit(e)
    PROVE  Inv'
<1> USE ConstantsOK
<1> DEFINE n == job[e].blockNum
           entries == Modified(n, job[e].found)
           j == [job[e] EXCEPT !.found = <<>>, !.accounts = entries,
                               !.histOps = Present(entries), !.latestOps = Present(entries)]
<1>1. TypeOK /\ job[e] \in Jobs /\ JobOK(e) /\ pc[e] = "execute" /\ n \in Blocks
    BY DEF Inv, TypeOK, Commit, JobOK, BatchBound, InBatch, Jobs, Heights, Blocks
<1>2. mishaps' \in 0..MaxMishaps
    BY <1>1, MishapsOK DEF Commit, MishapKinds
<1>3. Grows /\ StoresOK' /\ ProgressCovered'
    BY <1>1, <1>2, LocalStep DEF Commit, TypeOK
<1>4. entries \in Entries /\ Present(entries) \in SUBSET Keys
    BY <1>1, TransactionsOK DEF Jobs, Present
<1> HIDE DEF entries
<1>5. ASSUME NEW label \in {"receipts", "commit"},
             label = "receipts" => Present(entries) = {},
             Goto(e, label), job' = [job EXCEPT ![e] = j]
      PROVE  Inv'
    <2>1. /\ j \in Jobs
          /\ j.blockNum = n
          /\ j.endBlock = job[e].endBlock
          /\ j.syncSeen = job[e].syncSeen
          /\ j.accounts = entries
          /\ j.latestOps = Present(entries)
        BY <1>1, <1>4, NoAnswers DEF Jobs
    <2>2. pc' = [pc EXCEPT ![e] = label] /\ pc'[e] = label /\ job'[e] = j /\ label \in PCs
        BY <1>1, <1>5 DEF Goto, TypeOK, PCs
    <2> HIDE DEF j
    <2>3. Dirty(e)' = Present(entries)
        BY <2>1, <2>2 DEF Dirty, Present
    <2>4. BatchBound(e)'
        BY <1>1, <2>1, <2>2 DEF JobOK, BatchBound, InBatch
    <2>5. BatchCovered(e)'
        BY <1>1, <1>3, <2>1, <2>2, StaysCovered DEF JobOK, BatchCovered, InBatch
    <2>6. Committing(e)'
        BY <1>5, <2>1, <2>2, <2>3 DEF Committing
    <2>7. j.syncSeen <= syncHeight'
        BY <1>1, <2>1 DEF Inv, SyncBound, Commit, pika
    <2> QED
        BY <1>3, <1>5, <2>1, <2>2, <2>4, <2>5, <2>6, <2>7, StepOfOne DEF JobOK
<1>6. job' = [job EXCEPT ![e].found = <<>>, ![e].accounts = entries,
                         ![e].histOps = Present(entries), ![e].latestOps = Present(entries)]
        => job' = [job EXCEPT ![e] = j]
    BY <1>1 DEF TypeOK, Jobs
<1> HIDE DEF j
<1>7. \/ Present(entries) = {} /\ Goto(e, "receipts") /\ job' = [job EXCEPT ![e] = j]
      \/ Goto(e, "commit") /\ job' = [job EXCEPT ![e] = j]
      \/ BackToRun(e)
    BY <1>6 DEF Commit, entries
<1>8. CASE BackToRun(e)
    BY <1>3, <1>8, NoJobInv DEF BackToRun, PCs, InBatch
<1> QED
    BY <1>5, <1>7, <1>8

(***************************************************************************)
(* What the commands of the commit pipeline have in common.                *)
(***************************************************************************)
LEMMA PipelineInv ==
    ASSUME Inv, Grows, StoresOK', UNCHANGED <<syncHeight, execHeight>>,
           NEW e \in Executors, pc[e] = "commit",
           NEW label \in {"receipts", "commit"},
           NEW h \in SUBSET Keys, NEW l \in SUBSET Dirty(e), label = "receipts" => l = {},
           \A k \in Dirty(e) \ l : latest'[k] # Absent,
           pc' = [pc EXCEPT ![e] = label],
           job' = [job EXCEPT ![e] = [job[e] EXCEPT !.histOps = h, !.latestOps = l]]
    PROVE  Inv'
<1> DEFINE j == [job[e] EXCEPT !.histOps = h, !.latestOps = l]
<1>1. TypeOK /\ job[e] \in Jobs /\ JobOK(e)
    BY DEF Inv, TypeOK
<1>2. /\ j \in Jobs
      /\ j.blockNum = job[e].blockNum
      /\ j.endBlock = job[e].endBlock
      /\ j.syncSeen = job[e].syncSeen
      /\ j.accounts = job[e].accounts
      /\ j.latestOps = l
    BY <1>1 DEF Jobs, Dirty, Present
<1>3. pc'[e] = label /\ job'[e] = j /\ label \in PCs
    BY <1>1 DEF TypeOK, PCs
<1> HIDE DEF j
<1>4. Dirty(e)' = Dirty(e)
    BY <1>2, <1>3 DEF Dirty, Present
<1>5. BatchBound(e)'
    BY <1>1, <1>2, <1>3 DEF JobOK, BatchBound, InBatch
<1>6. BatchCovered(e)'
    BY <1>1, <1>2, <1>3, StaysCovered DEF JobOK, BatchCovered, InBatch
<1>8. Committing(e)'
    BY <1>2, <1>3, <1>4 DEF Committing
<1>9. j.syncSeen <= syncHeight' /\ ProgressCovered'
    BY <1>1, <1>2, StaysRecorded DEF Inv, SyncBound
<1> QED
    BY <1>2, <1>3, <1>5, <1>6, <1>8, <1>9, StepOfOne DEF JobOK, j

LEMMA SetHistoricalInv ==
    ASSUME Inv, NEW e \in Executors, NEW k \in Keys, SetHistorical(e, k)
    PROVE  Inv'
<1> USE ConstantsOK
<1> DEFINE h == job[e].histOps \ {k}
           l == job[e].latestOps
<1>1. TypeOK /\ job[e] \in Jobs /\ JobOK(e) /\ pc[e] = "commit"
    BY DEF Inv, TypeOK, SetHistorical
<1>2. hist' \in [Blocks -> Entries]
    BY <1>1 DEF SetHistorical, TypeOK, Jobs, Entries
<1>3. StoresOK' /\ Grows
    BY <1>1, <1>2 DEF SetHistorical, TypeOK, StoresOK, Grows, Heights
<1>4. h \in SUBSET Keys /\ l \in SUBSET Dirty(e)
    BY <1>1 DEF Jobs, JobOK, Committing
<1>5. \A q \in Dirty(e) \ l : latest'[q] # Absent
    BY <1>1 DEF SetHistorical, JobOK, Committing, Loaded
<1>6. pc' = [pc EXCEPT ![e] = "commit"]
    BY <1>1 DEF SetHistorical, TypeOK
<1>7. job' = [job EXCEPT ![e] = [job[e] EXCEPT !.histOps = h, !.latestOps = l]]
    BY <1>1 DEF SetHistorical, TypeOK, Jobs
<1>8. UNCHANGED <<syncHeight, execHeight>>
    BY DEF SetHistorical
<1> QED
    BY <1>1, <1>3, <1>4, <1>5, <1>6, <1>7, <1>8, PipelineInv

LEMMA SetLatestInv ==
    ASSUME Inv, NEW e \in Executors, NEW k \in Keys, SetLatest(e, k)
    PROVE  Inv'
<1> USE ConstantsOK
<1> DEFINE h == job[e].histOps
           l == job[e].latestOps \ {k}
           label == IF l = {} THEN "receipts" ELSE "commit"
<1>1. TypeOK /\ job[e] \in Jobs /\ JobOK(e) /\ pc[e] = "commit" /\ k \in job[e].latestOps
    BY DEF Inv, TypeOK, SetLatest
<1>2. k \in Dirty(e) /\ job[e].accounts[k] \in Entry /\ job[e].accounts[k] # Absent
    BY <1>1 DEF JobOK, Committing, Dirty, Present, Jobs, Entries
<1>3. latest' \in Entries /\ latest'[k] # Absent /\ \A q \in Keys \ {k} : latest'[q] = latest[q]
    BY <1>1, <1>2 DEF SetLatest, TypeOK, Entries
<1>4. StoresOK' /\ Grows
    BY <1>1, <1>3 DEF SetLatest, TypeOK, StoresOK, Grows, Heights
<1>5. h \in SUBSET Keys /\ l \in SUBSET Dirty(e)
    BY <1>1 DEF Jobs, JobOK, Committing
<1>6. \A q \in Dirty(e) \ l : latest'[q] # Absent
    BY <1>1, <1>3 DEF JobOK, Committing, Loaded, Dirty, Present
<1>7. pc' = [pc EXCEPT ![e] = label]
    BY <1>1 DEF SetLatest, Goto, TypeOK
<1>8. job' = [job EXCEPT ![e] = [job[e] EXCEPT !.histOps = h, !.latestOps = l]]
    BY <1>1 DEF SetLatest, TypeOK, Jobs
<1>9. UNCHANGED <<syncHeight, execHeight>>
    BY DEF SetLatest
<1>10. label \in {"receipts", "commit"} /\ (label = "receipts" => l = {})
    OBVIOUS
<1> HIDE DEF h, l, label
<1> QED
    BY <1>1, <1>4, <1>5, <1>6, <1>7, <1>8, <1>9, <1>10, PipelineInv

LEMMA PipelineBreaksInv ==
    ASSUME Inv, NEW e \in Executors, PipelineBreaks(e)
    PROVE  Inv'
<1>1. TypeOK /\ job[e] \in Jobs /\ pc[e] = "commit" /\ Dirty(e) \in SUBSET Keys
    BY DEF Inv, TypeOK, PipelineBreaks, Dirty, Present
<1>2. mishaps' \in 0..MaxMishaps
    BY <1>1, ConstantsOK DEF PipelineBreaks, Mishap, TypeOK
<1>3. Grows /\ StoresOK' /\ ProgressCovered' /\ UNCHANGED <<syncHeight, execHeight>>
    BY <1>1, <1>2, LocalStep DEF PipelineBreaks, TypeOK, pika
<1>4. CASE Mishap("retry")
           /\ job' = [job EXCEPT ![e].histOps = Dirty(e), ![e].latestOps = Dirty(e)]
           /\ UNCHANGED pc
    <2>1. pc' = [pc EXCEPT ![e] = "commit"]
        BY <1>1, <1>4 DEF TypeOK
    <2>2. job' = [job EXCEPT ![e] = [job[e] EXCEPT !.histOps = Dirty(e), !.latestOps = Dirty(e)]]
        BY <1>1, <1>4 DEF TypeOK, Jobs
    <2> QED BY <1>1, <1>3, <2>1, <2>2, PipelineInv
<1>5. CASE BackToRun(e)
    BY <1>3, <1>5, NoJobInv DEF BackToRun, PCs, InBatch
<1> QED
    BY <1>4, <1>5 DEF PipelineBreaks

LEMMA StoreReceiptsInv ==
    ASSUME Inv, NEW e \in Executors, StoreReceipts(e)
    PROVE  Inv'
<1> USE ConstantsOK
<1> DEFINE n == job[e].blockNum
           written == [receipts EXCEPT ![n] = job[e].accounts]
<1>1. TypeOK /\ job[e] \in Jobs /\ JobOK(e) /\ pc[e] = "receipts" /\ n \in Blocks
    BY DEF Inv, TypeOK, StoreReceipts, JobOK, BatchBound, InBatch, Jobs, Heights, Blocks
<1>2. mishaps' \in 0..MaxMishaps
    BY <1>1, MishapsOK DEF StoreReceipts, MishapKinds
<1>3. receipts' = written \/ receipts' = receipts
    BY DEF StoreReceipts
<1>4. /\ written \in [Blocks -> {Absent} \cup Entries]
      /\ written[n] = job[e].accounts
      /\ \A m \in Blocks \ {n} : written[m] = receipts[m]
    BY <1>1 DEF TypeOK, Jobs
<1> HIDE DEF written
<1>9. job[e].accounts # Absent /\ \A k \in Keys : job[e].accounts[k] # Absent => latest[k] # Absent
    BY <1>1 DEF Jobs, JobOK, Committing, Loaded, Dirty, Present
<1>5. /\ StoresOK'
      /\ Grows
      /\ UNCHANGED <<syncHeight, execHeight, latest>>
    BY <1>1, <1>2, <1>3, <1>4, <1>9 DEF StoreReceipts, TypeOK, StoresOK, Grows, Heights
<1>6. ProgressCovered'
    BY <1>5, StaysRecorded
<1>7. CASE receipts' = written /\ Goto(e, "update") /\ UNCHANGED job
    <2>1. pc' = [pc EXCEPT ![e] = "update"] /\ job' = [job EXCEPT ![e] = job[e]]
        BY <1>1, <1>7 DEF Goto, TypeOK
    <2>2. pc'[e] = "update" /\ job'[e] = job[e] /\ "update" \in PCs
        BY <1>1, <2>1 DEF TypeOK, PCs
    <2>3. Dirty(e)' = Dirty(e)
        BY <2>2 DEF Dirty, Present
    <2>4. BatchBound(e)'
        BY <1>1, <2>2 DEF JobOK, BatchBound, InBatch, Loaded
    <2>5. BatchCovered(e)'
        BY <1>1, <1>5, <2>2, StaysCovered DEF JobOK, BatchCovered, InBatch
    <2>6. Committing(e)'
        BY <1>1, <1>4, <1>5, <1>7, <1>9, <2>2, <2>3 DEF JobOK, Committing, Loaded, Covered
    <2>7. job[e].syncSeen <= syncHeight'
        BY <1>1, <1>5 DEF Inv, SyncBound
    <2> QED
        BY <1>1, <1>5, <1>6, <2>1, <2>2, <2>4, <2>5, <2>6, <2>7, StepOfOne DEF JobOK
<1>8. CASE BackToRun(e)
    BY <1>5, <1>6, <1>8, NoJobInv DEF BackToRun, PCs, InBatch
<1> QED
    BY <1>7, <1>8 DEF StoreReceipts, written

(***************************************************************************)
(* The block whose number is recorded is covered by then.                  *)
(***************************************************************************)
LEMMA UpdateExecProgressInv ==
    ASSUME Inv, NEW e \in Executors, UpdateExecProgress(e)
    PROVE  Inv'
<1> USE ConstantsOK
<1> DEFINE n == job[e].blockNum
<1>1. TypeOK /\ job[e] \in Jobs /\ JobOK(e) /\ pc[e] = "update" /\ n \in Blocks
    BY DEF Inv, TypeOK, UpdateExecProgress, JobOK, BatchBound, InBatch, Jobs, Heights, Blocks
<1>2. mishaps' \in 0..MaxMishaps
    BY <1>1, MishapsOK DEF UpdateExecProgress, MishapKinds
<1>3. execHeight' \in {execHeight, n}
    BY DEF UpdateExecProgress
<1>4. /\ StoresOK'
      /\ Grows
      /\ UNCHANGED <<syncHeight, latest, receipts>>
    BY <1>1, <1>2, <1>3 DEF UpdateExecProgress, TypeOK, StoresOK, Grows, Heights, Blocks
<1>5. \A m \in 1..n : Covered(m)
    <2>2. Covered(n)
        BY <1>1 DEF JobOK, Committing
    <2>3. ASSUME NEW m \in 1..n, m # n PROVE Covered(m)
        <3>1. m \in Blocks /\ m < n
            BY <1>1, <2>3 DEF Blocks
        <3> QED BY <1>1, <3>1 DEF JobOK, BatchCovered, InBatch
    <2> QED BY <2>2, <2>3
<1>6. n <= syncHeight
    BY <1>1 DEF Inv, SyncBound, JobOK, BatchBound, InBatch, TypeOK, Jobs, Heights
<1>7. ProgressCovered'
    <2>1. CASE execHeight' = execHeight
        BY <1>4, <2>1, StaysRecorded
    <2>2. CASE execHeight' = n
        BY <1>4, <1>5, <1>6, <2>2 DEF ProgressCovered, Covered
    <2> QED BY <1>3, <2>1, <2>2
<1>8. CASE NextBlock(e) /\ n < job[e].endBlock
    <2> DEFINE j == [NoJob EXCEPT !.syncSeen = job[e].syncSeen,
                                  !.blockNum = n + 1,
                                  !.endBlock = job[e].endBlock]
    <2>1. pc' = [pc EXCEPT ![e] = "block"] /\ job' = [job EXCEPT ![e] = j]
        BY <1>8 DEF NextBlock, Goto
    <2>2. n + 1 \in Heights /\ n + 1 <= job[e].endBlock
        BY <1>1, <1>8 DEF Jobs, Heights, Blocks
    <2>3. /\ j \in Jobs
          /\ j.blockNum = n + 1
          /\ j.endBlock = job[e].endBlock
          /\ j.syncSeen = job[e].syncSeen
          /\ j.accounts = NoEntries
          /\ j.latestOps = {}
        BY <1>1, <2>2, NoAnswers DEF NoJob, NoEntries, Entries, Entry, Jobs, Heights
    <2>4. pc'[e] = "block" /\ job'[e] = j /\ "block" \in PCs
        BY <1>1, <2>1 DEF TypeOK, PCs
    <2> HIDE DEF j
    <2>5. BatchBound(e)'
        BY <1>1, <2>2, <2>3, <2>4 DEF JobOK, BatchBound, InBatch, Blocks
    <2>6. BatchCovered(e)'
        BY <1>1, <1>4, <1>5, <2>3, <2>4, StaysCovered DEF BatchCovered, Blocks
    <2>7. Committing(e)'
        BY <2>3, <2>4 DEF Committing, Loaded, Dirty, Present
    <2>8. j.syncSeen <= syncHeight'
        BY <1>1, <1>4, <2>3 DEF Inv, SyncBound
    <2> QED
        BY <1>4, <1>7, <2>1, <2>3, <2>4, <2>5, <2>6, <2>7, <2>8, StepOfOne DEF JobOK
<1>9. CASE BackToRun(e)
    BY <1>4, <1>7, <1>9, NoJobInv DEF BackToRun, PCs, InBatch
<1> QED
    BY <1>8, <1>9 DEF UpdateExecProgress, NextBlock

-----------------------------------------------------------------------------
(***************************************************************************)
(* The process around the goroutine, and the environment.                  *)
(***************************************************************************)
LEMMA NoJobKeptInv ==
    ASSUME Inv, Grows, StoresOK', ProgressCovered',
           NEW e \in Executors, NEW label \in PCs \ InBatch,
           pc[e] \notin InBatch, Goto(e, label), UNCHANGED job
    PROVE  Inv'
<1>1. TypeOK /\ job[e] \in Jobs /\ JobOK(e)
    BY DEF Inv, TypeOK
<1>2. pc' = [pc EXCEPT ![e] = label] /\ job' = [job EXCEPT ![e] = job[e]]
    BY <1>1 DEF Goto, TypeOK
<1>3. pc'[e] = label /\ job'[e] = job[e]
    BY <1>1, <1>2 DEF TypeOK
<1>4. Dirty(e)' = Dirty(e)
    BY <1>3 DEF Dirty, Present
<1>5. JobOK(e)'
    BY <1>1, <1>3, <1>4 DEF JobOK, BatchBound, BatchCovered, Committing,
                            InBatch, Loaded, PCs
<1>6. job[e].syncSeen <= syncHeight'
    BY <1>1, ConstantsOK DEF Inv, SyncBound, Grows, TypeOK, StoresOK, Jobs, Heights
<1> QED
    BY <1>1, <1>2, <1>5, <1>6, StepOfOne

LEMMA ProcessInv ==
    ASSUME Inv, NEW e \in Executors, RunReturns(e) \/ Exit(e) \/ Crash(e) \/ Restart(e)
    PROVE  Inv'
<1>1. TypeOK
    BY DEF Inv
<1>2. /\ UNCHANGED pika
      /\ ctxLive' \in [Executors -> BOOLEAN]
      /\ mishaps' \in 0..MaxMishaps
    <2>1. UNCHANGED pika
        BY DEF RunReturns, Exit, Crash, Restart
    <2>2. ctxLive' \in [Executors -> BOOLEAN]
        <3>1. CASE UNCHANGED ctxLive
            BY <1>1, <3>1 DEF TypeOK
        <3>2. CASE ctxLive' = [ctxLive EXCEPT ![e] = TRUE]
            BY <1>1, <3>2 DEF TypeOK
        <3> QED BY <3>1, <3>2 DEF RunReturns, Exit, Crash, Restart
    <2>3. mishaps' \in 0..MaxMishaps
        BY <1>1, MishapsOK DEF RunReturns, Exit, Crash, Restart, MishapKinds
    <2> QED BY <2>1, <2>2, <2>3
<1>3. Grows /\ StoresOK' /\ ProgressCovered'
    BY <1>2, LocalStep
<1>4. CASE RunReturns(e)
    BY <1>3, <1>4, NoJobKeptInv DEF RunReturns, PCs, InBatch
<1>5. CASE Restart(e)
    BY <1>3, <1>5, NoJobKeptInv DEF Restart, PCs, InBatch
<1>6. CASE Exit(e) \/ Crash(e)
    BY <1>3, <1>6, NoJobInv DEF Exit, Crash, PCs, InBatch
<1> QED
    BY <1>4, <1>5, <1>6

LEMMA BystandersInv ==
    ASSUME Inv, Grows, StoresOK', UNCHANGED <<execHeight, pc, job>>
    PROVE  Inv'
<1>1. TypeOK'
    BY DEF Inv, TypeOK, StoresOK
<1>2. ASSUME NEW e \in Executors PROVE JobOK(e)' /\ job'[e].syncSeen <= syncHeight'
    <2>1. JobOK(e)'
        BY BystanderOK DEF Inv
    <2>2. job'[e].syncSeen <= syncHeight'
        BY ConstantsOK DEF Inv, TypeOK, StoresOK, SyncBound, Jobs, Heights, Grows
    <2> QED BY <2>1, <2>2
<1> QED
    BY <1>1, <1>2, StaysRecorded DEF Inv, SyncBound

LEMMA EnvironmentInv ==
    ASSUME Inv, \/ \E e \in Executors : Signal(e)
                \/ SyncBlock
                \/ \E n \in Blocks, k \in Keys : Expire(n, k)
    PROVE  Inv'
<1> USE ConstantsOK
<1>1. TypeOK
    BY DEF Inv
<1>2. CASE \E e \in Executors : Signal(e)
    <2>1. Grows /\ StoresOK'
        BY <1>1, <1>2 DEF Signal, Mishap, pika, Grows, StoresOK, TypeOK, Heights
    <2> QED BY <1>2, <2>1, BystandersInv DEF Signal, pika
<1>3. CASE SyncBlock
    <2>1. Grows /\ StoresOK'
        BY <1>1, <1>3 DEF SyncBlock, Grows, StoresOK, TypeOK, Heights
    <2> QED BY <1>3, <2>1, BystandersInv DEF SyncBlock
<1>4. CASE \E n \in Blocks, k \in Keys : Expire(n, k)
    <2>1. hist' \in [Blocks -> Entries]
        BY <1>1, <1>4 DEF Expire, TypeOK, Entries, Entry
    <2>2. Grows /\ StoresOK'
        BY <1>1, <1>4, <2>1 DEF Expire, Mishap, Grows, StoresOK, TypeOK, Heights
    <2> QED BY <1>4, <2>2, BystandersInv DEF Expire
<1> QED
    BY <1>2, <1>3, <1>4

(***************************************************************************)
(* Every step preserves the invariant.                                     *)
(***************************************************************************)
LEMMA NextInv == Inv /\ [Next]_vars => Inv'
<1> SUFFICES ASSUME Inv, [Next]_vars PROVE Inv'
    OBVIOUS
<1>1. ASSUME NEW e \in Executors, RunStep(e) PROVE Inv'
    BY <1>1, GetSyncProgressInv, GetExecProgressInv, GetBlockInv, LoadEntryInv, CommitInv,
       SetHistoricalInv, SetLatestInv, PipelineBreaksInv, StoreReceiptsInv,
       UpdateExecProgressInv, ProcessInv DEF RunStep
<1>2. ASSUME NEW e \in Executors, Exit(e) \/ Crash(e) \/ Restart(e) PROVE Inv'
    BY <1>2, ProcessInv
<1>3. CASE UNCHANGED vars
    <2>1. Grows /\ StoresOK'
        BY <1>3, ConstantsOK DEF Inv, TypeOK, StoresOK, Grows, vars, Heights
    <2> QED BY <1>3, <2>1, BystandersInv DEF vars
<1> QED
    BY <1>1, <1>2, <1>3, EnvironmentInv DEF Next

(***************************************************************************)
(* The invariant holds of the run loops of any number of replicas, with    *)
(* crashes, failed calls and broken pipelines.                             *)
(***************************************************************************)
THEOREM Invariance == Spec => []Inv
BY InitInv, NextInv, PTL DEF Spec

(***************************************************************************)
(* The variables of every replica and the stored data keep their types.    *)
(***************************************************************************)
THEOREM TypeCorrect == Spec => []TypeOK
<1>1. Inv => TypeOK
    BY DEF Inv
<1> QED
    BY <1>1, Invariance, PTL

(***************************************************************************)
(* However many replicas execute which blocks in whatever order, and       *)
(* whatever fails, expires, crashes or is restarted on the way: up to the  *)
(* recorded height (UpdateExecProgress, pkg/storage/block.go) every block  *)
(* has its receipts and everything it modified has a latest key, and no    *)
(* block is recorded that the syncer has not delivered.                    *)
(***************************************************************************)
THEOREM Coverage == Spec => []ProgressCovered
<1>1. Inv => ProgressCovered
    BY DEF Inv
<1> QED
    BY <1>1, Invariance, PTL
-----------------------------------------------------------------------------
(***************************************************************************)
(* What a step can do to the stored state and to a replica.                *)
(***************************************************************************)
Worked == {"execute", "commit", "receipts", "update"}

OwnStep(e) == RunStep(e) \/ Signal(e) \/ Exit(e) \/ Crash(e) \/ Restart(e)

LEMMA WhoSteps ==
    ASSUME TypeOK, [Next]_vars, NEW f \in Executors
    PROVE  OwnStep(f) \/ UNCHANGED <<pc[f], job[f], ctxLive[f]>>
<1>1. ASSUME NEW e \in Executors, e # f, RunStep(e)
      PROVE  UNCHANGED <<pc[f], job[f], ctxLive[f]>>
    <2>1. ASSUME NEW label, Goto(e, label) PROVE pc'[f] = pc[f]
        BY <1>1, <2>1 DEF Goto, TypeOK
    <2>2. ASSUME BackToRun(e) PROVE UNCHANGED <<pc[f], job[f]>>
        BY <1>1, <2>1, <2>2 DEF BackToRun, TypeOK
    <2>3. CASE GetSyncProgress(e)
        BY <1>1, <2>1, <2>3 DEF GetSyncProgress, TypeOK
    <2>4. CASE GetExecProgress(e)
        BY <1>1, <2>1, <2>2, <2>4 DEF GetExecProgress, StartBatch, TypeOK
    <2>5. CASE GetBlock(e)
        BY <1>1, <2>1, <2>2, <2>5 DEF GetBlock, TypeOK
    <2>6. CASE \E k \in Keys : LoadEntry(e, k)
        BY <1>1, <2>6 DEF LoadEntry, TypeOK
    <2>7. CASE Commit(e)
        BY <1>1, <2>1, <2>2, <2>7 DEF Commit, TypeOK
    <2>8. CASE \E k \in Keys : SetHistorical(e, k)
        BY <1>1, <2>8 DEF SetHistorical, TypeOK
    <2>9. CASE \E k \in Keys : SetLatest(e, k)
        BY <1>1, <2>1, <2>9 DEF SetLatest, TypeOK
    <2>10. CASE PipelineBreaks(e)
        BY <1>1, <2>2, <2>10 DEF PipelineBreaks, TypeOK
    <2>11. CASE StoreReceipts(e)
        BY <1>1, <2>1, <2>2, <2>11 DEF StoreReceipts, TypeOK
    <2>12. CASE UpdateExecProgress(e)
        BY <1>1, <2>1, <2>2, <2>12 DEF UpdateExecProgress, NextBlock, TypeOK
    <2>13. CASE RunReturns(e)
        BY <1>1, <2>1, <2>13 DEF RunReturns
    <2> QED
        BY <1>1, <2>3, <2>4, <2>5, <2>6, <2>7, <2>8, <2>9, <2>10, <2>11, <2>12, <2>13 DEF RunStep
<1>2. ASSUME NEW e \in Executors, e # f, Signal(e) \/ Exit(e) \/ Crash(e) \/ Restart(e)
      PROVE  UNCHANGED <<pc[f], job[f], ctxLive[f]>>
    BY <1>2 DEF Signal, Exit, Crash, Restart, Goto, TypeOK
<1>3. ASSUME SyncBlock \/ (\E n \in Blocks, k \in Keys : Expire(n, k)) \/ UNCHANGED vars
      PROVE  UNCHANGED <<pc[f], job[f], ctxLive[f]>>
    BY <1>3 DEF SyncBlock, Expire, vars
<1> QED
    BY <1>1, <1>2, <1>3 DEF Next, OwnStep

LEMMA HistSteps ==
    ASSUME TypeOK, [Next]_vars, NEW n \in Blocks, NEW k \in Keys
    PROVE  \/ hist'[n][k] = hist[n][k]
           \/ \E e \in Executors : /\ pc[e] = "commit"
                                   /\ job[e].blockNum = n
                                   /\ k \in job[e].histOps
                                   /\ hist'[n][k] = job[e].accounts[k]
           \/ hist'[n][k] = Absent /\ "expire" \in Mishaps
<1>1. ASSUME NEW e \in Executors, NEW q \in Keys, SetHistorical(e, q)
      PROVE  \/ hist'[n][k] = hist[n][k]
             \/ /\ pc[e] = "commit"
                /\ job[e].blockNum = n
                /\ k \in job[e].histOps
                /\ hist'[n][k] = job[e].accounts[k]
    BY <1>1 DEF SetHistorical, TypeOK, Entries
<1>2. ASSUME NEW m \in Blocks, NEW q \in Keys, Expire(m, q)
      PROVE  hist'[n][k] = hist[n][k] \/ (hist'[n][k] = Absent /\ "expire" \in Mishaps)
    BY <1>2 DEF Expire, Mishap, TypeOK, Entries
<1>3. CASE UNCHANGED vars
    BY <1>3 DEF vars
<1>4. ASSUME NEW e \in Executors, RunStep(e), ~ \E q \in Keys : SetHistorical(e, q)
      PROVE  UNCHANGED hist
    BY <1>4 DEF RunStep, GetSyncProgress, GetExecProgress, GetBlock, LoadEntry, Commit, SetLatest,
                PipelineBreaks, StoreReceipts, UpdateExecProgress, RunReturns, pika
<1>5. ASSUME NEW e \in Executors, Signal(e) \/ Exit(e) \/ Crash(e) \/ Restart(e)
      PROVE  UNCHANGED hist
    BY <1>5 DEF Signal, Exit, Crash, Restart, pika
<1>6. CASE SyncBlock
    BY <1>6 DEF SyncBlock
<1> QED
    BY <1>1, <1>2, <1>3, <1>4, <1>5, <1>6 DEF Next

LEMMA LatestSteps ==
    ASSUME TypeOK, [Next]_vars, NEW k \in Keys
    PROVE  \/ latest'[k] = latest[k]
           \/ \E e \in Executors : /\ pc[e] = "commit"
                                   /\ k \in job[e].latestOps \ job[e].histOps
                                   /\ latest'[k] = job[e].accounts[k]
<1>1. ASSUME NEW e \in Executors, NEW q \in Keys, SetLatest(e, q)
      PROVE  \/ latest'[k] = latest[k]
             \/ /\ pc[e] = "commit"
                /\ k \in job[e].latestOps \ job[e].histOps
                /\ latest'[k] = job[e].accounts[k]
    BY <1>1 DEF SetLatest, TypeOK, Entries
<1>2. CASE UNCHANGED vars
    BY <1>2 DEF vars
<1>3. ASSUME NEW e \in Executors, RunStep(e), ~ \E q \in Keys : SetLatest(e, q)
      PROVE  UNCHANGED latest
    BY <1>3 DEF RunStep, GetSyncProgress, GetExecProgress, GetBlock, LoadEntry, Commit,
                SetHistorical, PipelineBreaks, StoreReceipts, UpdateExecProgress, RunReturns, pika
<1>4. ASSUME NEW e \in Executors, Signal(e) \/ Exit(e) \/ Crash(e) \/ Restart(e)
      PROVE  UNCHANGED latest
    BY <1>4 DEF Signal, Exit, Crash, Restart, pika
<1>5. CASE SyncBlock \/ \E n \in Blocks, q \in Keys : Expire(n, q)
    BY <1>5 DEF SyncBlock, Expire
<1> QED
    BY <1>1, <1>2, <1>3, <1>4, <1>5 DEF Next

LEMMA ExecSteps ==
    ASSUME TypeOK, [Next]_vars
    PROVE  \/ UNCHANGED execHeight
           \/ \E e \in Executors : /\ pc[e] = "update"
                                   /\ pc'[e] # "update"
                                   /\ execHeight' = job[e].blockNum
<1>1. ASSUME NEW e \in Executors, UpdateExecProgress(e)
      PROVE  \/ UNCHANGED execHeight
             \/ /\ pc[e] = "update"
                /\ pc'[e] # "update"
                /\ execHeight' = job[e].blockNum
    <2>1. pc'[e] # "update"
        BY <1>1 DEF UpdateExecProgress, NextBlock, BackToRun, Goto, TypeOK
    <2> QED BY <1>1, <2>1 DEF UpdateExecProgress
<1>2. CASE UNCHANGED vars
    BY <1>2 DEF vars
<1>3. ASSUME NEW e \in Executors, RunStep(e), ~UpdateExecProgress(e)
      PROVE  UNCHANGED execHeight
    BY <1>3 DEF RunStep, GetSyncProgress, GetExecProgress, GetBlock, LoadEntry, Commit,
                SetHistorical, SetLatest, PipelineBreaks, StoreReceipts, RunReturns, pika
<1>4. ASSUME NEW e \in Executors, Signal(e) \/ Exit(e) \/ Crash(e) \/ Restart(e)
      PROVE  UNCHANGED execHeight
    BY <1>4 DEF Signal, Exit, Crash, Restart, pika
<1>5. CASE SyncBlock \/ \E n \in Blocks, k \in Keys : Expire(n, k)
    BY <1>5 DEF SyncBlock, Expire
<1> QED
    BY <1>1, <1>2, <1>3, <1>4, <1>5 DEF Next

LEMMA ReceiptsSteps ==
    ASSUME TypeOK, [Next]_vars
    PROVE  \/ UNCHANGED receipts
           \/ \E e \in Executors :
                 /\ pc[e] = "receipts"
                 /\ pc'[e] # "receipts"
                 /\ receipts' = [receipts EXCEPT ![job[e].blockNum] = job[e].accounts]
<1>1. ASSUME NEW e \in Executors, StoreReceipts(e)
      PROVE  \/ UNCHANGED receipts
             \/ /\ pc[e] = "receipts"
                /\ pc'[e] # "receipts"
                /\ receipts' = [receipts EXCEPT ![job[e].blockNum] = job[e].accounts]
    <2>1. pc'[e] # "receipts"
        BY <1>1 DEF StoreReceipts, BackToRun, Goto, TypeOK
    <2> QED BY <1>1, <2>1 DEF StoreReceipts
<1>2. CASE UNCHANGED vars
    BY <1>2 DEF vars
<1>3. ASSUME NEW e \in Executors, RunStep(e), ~StoreReceipts(e)
      PROVE  UNCHANGED receipts
    BY <1>3 DEF RunStep, GetSyncProgress, GetExecProgress, GetBlock, LoadEntry, Commit,
                SetHistorical, SetLatest, PipelineBreaks, UpdateExecProgress, RunReturns, pika
<1>4. ASSUME NEW e \in Executors, Signal(e) \/ Exit(e) \/ Crash(e) \/ Restart(e)
      PROVE  UNCHANGED receipts
    BY <1>4 DEF Signal, Exit, Crash, Restart, pika
<1>5. CASE SyncBlock \/ \E n \in Blocks, k \in Keys : Expire(n, k)
    BY <1>5 DEF SyncBlock, Expire
<1> QED
    BY <1>1, <1>2, <1>3, <1>4, <1>5 DEF Next
=============================================================================
