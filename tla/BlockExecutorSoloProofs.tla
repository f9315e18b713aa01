---------------------- MODULE BlockExecutorSoloProofs -----------------------
(***************************************************************************)
(* Proofs about a single executor in BlockExecutor: its progress only goes *)
(* forward, and what it has recorded is final and consistent; the "latest" *)
(* keys are never behind; and it implements ChainState.                    *)
(***************************************************************************)
EXTENDS BlockExecutorHistoryProofs

(***************************************************************************)
(* One replica, and the read of its progress fails only once its context   *)
(* is cancelled: any other failure sends it back to block 1.               *)
(***************************************************************************)
Solo ==
    /\ \A e, f \in Executors : e = f
    /\ "progress" \notin Mishaps

-----------------------------------------------------------------------------
(***************************************************************************)
(* The inductive invariant: the replica works on the block after the       *)
(* recorded height (unless it is cancelled and about to fail), so nothing  *)
(* it writes is about a recorded block; and what it has written of its     *)
(* block is what it holds, or has expired.                                 *)
(***************************************************************************)
AtNextBlock(e) ==
    pc[e] \in InBatch /\ (ctxLive[e] \/ pc[e] # "block")
        => job[e].blockNum = execHeight + 1

Pending(e) ==
    /\ pc[e] = "commit" => job[e].histOps \subseteq job[e].latestOps
    /\ pc[e] # "commit" => job[e].histOps = {}

Written(e) ==
    /\ pc[e] \in Loaded => \A k \in Dirty(e) \ job[e].histOps :
           hist[job[e].blockNum][k] \in {job[e].accounts[k], Absent}
    /\ pc[e] = "update" => receipts[job[e].blockNum] = job[e].accounts

SoloJob(e) == AtNextBlock(e) /\ Pending(e) /\ Written(e)

SoloInv == ReceiptsMatchState /\ \A e \in Executors : SoloJob(e)

(***************************************************************************)
(* The maximum of a set of numbers is the member that bounds it.           *)
(***************************************************************************)
LEMMA MaxIs ==
    ASSUME NEW S, NEW h \in S, h \in Nat, \A y \in S : y \in Nat /\ y <= h
    PROVE  Max(S) = h
<1>1. \A x \in S : (\A y \in S : x >= y) <=> x = h
    OBVIOUS
<1> QED
    BY <1>1 DEF Max

(***************************************************************************)
(* What a step can do to recorded blocks, and to the block at work.        *)
(***************************************************************************)
LEMMA RecordedKept ==
    ASSUME Inv, SoloInv, Solo, [Next]_vars, NEW n \in 1..execHeight
    PROVE  /\ receipts'[n] = receipts[n]
           /\ \A k \in Keys : hist'[n][k] \in {hist[n][k], Absent}
<1>1. TypeOK /\ n \in Blocks /\ execHeight \in Nat /\ n <= execHeight
    BY ConstantsOK DEF Inv, TypeOK, Heights, Blocks
<1>2. \A e \in Executors : pc[e] \in {"commit", "receipts"} => job[e].blockNum # n
    BY <1>1 DEF SoloInv, SoloJob, AtNextBlock, InBatch
<1>3. receipts'[n] = receipts[n]
    BY <1>1, <1>2, ReceiptsSteps DEF TypeOK
<1>4. \A k \in Keys : hist'[n][k] \in {hist[n][k], Absent}
    BY <1>1, <1>2, HistSteps
<1> QED
    BY <1>3, <1>4

LEMMA OwnHist ==
    ASSUME Inv, SoloInv, Solo, [Next]_vars, NEW e \in Executors, NEW n \in Blocks,
           n = job[e].blockNum, NEW k \in Keys
    PROVE  hist'[n][k] \in {hist[n][k], job[e].accounts[k], Absent}
<1>1. TypeOK
    BY DEF Inv
<1> QED
    BY <1>1, HistSteps DEF Solo

LEMMA HeightKept ==
    ASSUME Inv, SoloInv, Solo, [Next]_vars, NEW e \in Executors,
           pc[e] # "update" \/ pc'[e] = "update"
    PROVE  UNCHANGED execHeight
<1>1. TypeOK
    BY DEF Inv
<1> QED
    BY <1>1, ExecSteps DEF Solo

(***************************************************************************)
(* The replica goes on with the same block.                                *)
(***************************************************************************)
LEMMA StaysAtWork ==
    ASSUME Inv, SoloInv, Solo, [Next]_vars, NEW e \in Executors,
           pc[e] \in Loaded, pc'[e] \in Loaded,
           job'[e].blockNum = job[e].blockNum, job'[e].accounts = job[e].accounts,
           Pending(e)', job'[e].histOps \subseteq Keys,
           \A k \in job[e].histOps \ job'[e].histOps :
               hist'[job[e].blockNum][k] = job[e].accounts[k],
           pc[e] = "update" => pc'[e] = "update",
           pc'[e] = "update" => receipts'[job[e].blockNum] = job[e].accounts
    PROVE  SoloJob(e)'
<1>1. PICK n : n = job[e].blockNum
    OBVIOUS
<1>2. n \in Blocks /\ SoloJob(e)
    BY <1>1, ConstantsOK
    DEF SoloInv, Inv, TypeOK, JobOK, BatchBound, Loaded, InBatch, Jobs, Heights, Blocks
<1>3. AtNextBlock(e)'
    <2>1. UNCHANGED execHeight
        BY HeightKept
    <2> QED BY <1>2, <2>1 DEF SoloJob, AtNextBlock, Loaded, InBatch
<1>4. Dirty(e)' = Dirty(e) /\ Dirty(e) \subseteq Keys
    BY DEF Dirty, Present
<1>5. ASSUME NEW k \in Dirty(e) \ job'[e].histOps
      PROVE  hist'[n][k] \in {job[e].accounts[k], Absent}
    <2>1. CASE k \in job[e].histOps
        BY <1>1, <1>5, <2>1
    <2>2. CASE k \notin job[e].histOps
        <3>1. hist[n][k] \in {job[e].accounts[k], Absent}
            BY <1>1, <1>2, <1>5, <2>2 DEF SoloJob, Written
        <3> QED BY <1>1, <1>2, <1>4, <1>5, <3>1, OwnHist
    <2> QED BY <2>1, <2>2
<1>6. Written(e)'
    BY <1>1, <1>4, <1>5 DEF Written
<1> QED
    BY <1>3, <1>6 DEF SoloJob

(***************************************************************************)
(* The replica has nothing to write.                                       *)
(***************************************************************************)
LEMMA NothingWritten ==
    ASSUME NEW e \in Executors, pc'[e] \notin Loaded, job'[e].histOps = {},
           AtNextBlock(e)'
    PROVE  SoloJob(e)'
BY DEF SoloJob, Pending, Written, Loaded

LEMMA OwnStepSolo ==
    ASSUME Inv, SoloInv, Solo, [Next]_vars, NEW e \in Executors, OwnStep(e)
    PROVE  SoloJob(e)'
<1>1. TypeOK /\ job[e] \in Jobs /\ JobOK(e) /\ SoloJob(e) /\ execHeight \in Heights
    BY DEF Inv, TypeOK, SoloInv
<1>2. ASSUME NEW label, Goto(e, label) PROVE pc'[e] = label
    BY <1>1, <1>2 DEF Goto, TypeOK
<1>3. ASSUME NEW label, label \notin InBatch, Goto(e, label), job' = [job EXCEPT ![e] = NoJob]
      PROVE  SoloJob(e)'
    <2>1. job'[e] = NoJob /\ pc'[e] \notin InBatch
        BY <1>1, <1>2, <1>3 DEF TypeOK
    <2> QED BY <2>1, NothingWritten DEF NoJob, Loaded, InBatch, AtNextBlock
<1>4. CASE BackToRun(e)
    BY <1>3, <1>4 DEF BackToRun, InBatch
<1>5. CASE GetSyncProgress(e) \/ RunReturns(e) \/ Restart(e)
    <2>1. pc[e] # "commit" /\ pc'[e] \notin InBatch
        BY <1>2, <1>5 DEF GetSyncProgress, RunReturns, Restart, InBatch
    <2>2. job'[e].histOps = job[e].histOps
        BY <1>1, <1>5 DEF GetSyncProgress, RunReturns, Restart, TypeOK, Jobs
    <2>3. job[e].histOps = {}
        BY <1>1, <2>1 DEF SoloJob, Pending
    <2> QED BY <2>1, <2>2, <2>3, NothingWritten DEF Loaded, InBatch, AtNextBlock
<1>6. CASE GetExecProgress(e) /\ ~BackToRun(e)
    <2>1. PICK h \in Heights :
              /\ StartBatch(e, h)
              /\ h = execHeight \/ ~ctxLive[e]
        BY <1>1, <1>6, ConstantsOK DEF GetExecProgress, Fails, Mishap, Solo, Heights
    <2>2. pc[e] = "progress" /\ UNCHANGED <<ctxLive, execHeight>>
        BY <1>6 DEF GetExecProgress, pika
    <2>3. pc'[e] = "block" /\ job'[e].blockNum = h + 1 /\ job'[e].histOps = job[e].histOps
        BY <1>1, <1>2, <1>6, <2>1 DEF StartBatch, FirstBlock, TypeOK, Jobs
    <2>4. job[e].histOps = {}
        BY <1>1, <2>2 DEF SoloJob, Pending
    <2> QED BY <2>1, <2>2, <2>3, <2>4, NothingWritten DEF Loaded, AtNextBlock
<1>7. CASE GetBlock(e) /\ ~BackToRun(e)
    <2>1. CASE Goto(e, "down") /\ job' = [job EXCEPT ![e] = NoJob]
        BY <1>3, <2>1 DEF InBatch
    <2>2. CASE Goto(e, "execute") /\ UNCHANGED job
        <3>1. pc[e] = "block" /\ ctxLive[e] /\ pc'[e] = "execute" /\ UNCHANGED execHeight
            BY <1>2, <1>7, <2>2 DEF GetBlock, Succeeds, pika
        <3> QED BY <1>1, <2>2, <3>1, NothingWritten
                DEF SoloJob, Pending, AtNextBlock, InBatch, Loaded
    <2> QED BY <1>7, <2>1, <2>2 DEF GetBlock
<1>8. CASE \E k \in Keys : LoadEntry(e, k)
    <2>1. pc[e] = "execute" /\ UNCHANGED <<pc, execHeight>>
        BY <1>8 DEF LoadEntry, pika
    <2>2. job'[e].blockNum = job[e].blockNum /\ job'[e].histOps = job[e].histOps
        BY <1>1, <1>8 DEF LoadEntry, TypeOK, Jobs
    <2> QED BY <1>1, <2>1, <2>2, NothingWritten
            DEF SoloJob, Pending, AtNextBlock, InBatch, Loaded
<1>9. CASE Commit(e) /\ ~BackToRun(e)
    <2>1. pc[e] = "execute" /\ UNCHANGED execHeight
        BY <1>9 DEF Commit, pika
    <2>2. PICK x : x = Modified(job[e].blockNum, job[e].found)
        OBVIOUS
    <2>3. \E label \in {"receipts", "commit"} :
              /\ label = "receipts" => Present(x) = {}
              /\ Goto(e, label)
              /\ job' = [job EXCEPT ![e].found = <<>>, ![e].accounts = x,
                                    ![e].histOps = Present(x), ![e].latestOps = Present(x)]
        BY <1>9, <2>2 DEF Commit
    <2>4. /\ pc'[e] \in {"receipts", "commit"}
          /\ pc'[e] = "receipts" => Present(x) = {}
          /\ job'[e].blockNum = job[e].blockNum
          /\ job'[e].accounts = x
          /\ job'[e].histOps = Present(x)
          /\ job'[e].latestOps = Present(x)
        BY <1>1, <1>2, <2>3 DEF TypeOK, Jobs
    <2>5. Dirty(e)' = Present(x)
        BY <2>4 DEF Dirty, Present
    <2> QED BY <1>1, <2>1, <2>4, <2>5
            DEF SoloJob, Pending, Written, AtNextBlock, InBatch
<1>10. CASE \E k \in Keys : SetHistorical(e, k)
    <2>1. PICK k \in Keys : SetHistorical(e, k)
        BY <1>10
    <2>2. /\ pc[e] = "commit"
          /\ pc'[e] = "commit"
          /\ job'[e].blockNum = job[e].blockNum
          /\ job'[e].accounts = job[e].accounts
          /\ job'[e].histOps = job[e].histOps \ {k}
          /\ job'[e].latestOps = job[e].latestOps
        BY <1>1, <2>1 DEF SetHistorical, TypeOK, Jobs
    <2>3. job[e].blockNum \in Blocks
        BY <1>1, <2>2, ConstantsOK DEF JobOK, BatchBound, InBatch, Jobs, Heights, Blocks
    <2>4. hist'[job[e].blockNum][k] = job[e].accounts[k]
        BY <1>1, <2>1, <2>3 DEF SetHistorical, TypeOK, Entries
    <2>5. Pending(e)' /\ job'[e].histOps \subseteq Keys
        BY <1>1, <2>2 DEF SoloJob, Pending, Jobs
    <2> QED BY <2>2, <2>4, <2>5, StaysAtWork DEF Loaded
<1>11. CASE \E k \in Keys : SetLatest(e, k)
    <2>1. PICK k \in Keys : SetLatest(e, k)
        BY <1>11
    <2>2. /\ pc[e] = "commit"
          /\ job'[e].blockNum = job[e].blockNum
          /\ job'[e].accounts = job[e].accounts
          /\ job'[e].histOps = job[e].histOps
          /\ job'[e].latestOps = job[e].latestOps \ {k}
          /\ k \notin job[e].histOps
        BY <1>1, <2>1 DEF SetLatest, TypeOK, Jobs
    <2>3. pc'[e] = IF job[e].latestOps = {k} THEN "receipts" ELSE "commit"
        BY <1>1, <1>2, <2>1, <2>2 DEF SetLatest
    <2>4. Pending(e)' /\ job'[e].histOps \subseteq Keys
        BY <1>1, <2>2, <2>3 DEF SoloJob, Pending, Jobs
    <2> QED BY <2>2, <2>3, <2>4, StaysAtWork DEF Loaded
<1>12. CASE PipelineBreaks(e) /\ ~BackToRun(e)
    <2>1. /\ pc[e] = "commit"
          /\ pc'[e] = "commit"
          /\ job'[e].blockNum = job[e].blockNum
          /\ job'[e].accounts = job[e].accounts
          /\ job'[e].histOps = Dirty(e)
          /\ job'[e].latestOps = Dirty(e)
        BY <1>1, <1>12 DEF PipelineBreaks, TypeOK, Jobs
    <2>2. Dirty(e)' = Dirty(e) /\ UNCHANGED execHeight
        BY <2>1, <1>12 DEF Dirty, Present, PipelineBreaks, pika
    <2> QED BY <1>1, <2>1, <2>2 DEF SoloJob, Pending, Written, AtNextBlock, InBatch
<1>13. CASE StoreReceipts(e) /\ ~BackToRun(e)
    <2>1. /\ pc[e] = "receipts" /\ pc'[e] = "update" /\ UNCHANGED job
          /\ receipts' = [receipts EXCEPT ![job[e].blockNum] = job[e].accounts]
        BY <1>2, <1>13 DEF StoreReceipts
    <2>2. job[e].blockNum \in Blocks
        BY <1>1, <2>1, ConstantsOK DEF JobOK, BatchBound, InBatch, Jobs, Heights, Blocks
    <2>3. receipts'[job[e].blockNum] = job[e].accounts
        BY <1>1, <2>1, <2>2 DEF TypeOK
    <2>4. job[e].histOps = {}
        BY <1>1, <2>1 DEF SoloJob, Pending
    <2>5. Pending(e)' /\ job'[e].histOps \subseteq Keys
        BY <2>1, <2>4 DEF Pending
    <2> QED BY <2>1, <2>3, <2>4, <2>5, StaysAtWork DEF Loaded
<1>14. CASE UpdateExecProgress(e) /\ ~BackToRun(e)
    <2>1. /\ pc[e] = "update"
          /\ execHeight' = job[e].blockNum
          /\ pc'[e] = "block"
          /\ job'[e].blockNum = job[e].blockNum + 1
          /\ job'[e].histOps = {}
        BY <1>1, <1>2, <1>14 DEF UpdateExecProgress, NextBlock, TypeOK, NoJob
    <2> QED BY <2>1, NothingWritten DEF Loaded, AtNextBlock
<1>15. CASE Signal(e)
    <2>1. UNCHANGED <<pc, job, hist, receipts, execHeight>> /\ ctxLive'[e] = FALSE
        BY <1>1, <1>15 DEF Signal, pika, TypeOK
    <2> QED BY <1>1, <2>1 DEF SoloJob, AtNextBlock, Pending, Written, Dirty, Present
<1>16. CASE Exit(e) \/ Crash(e)
    BY <1>3, <1>16 DEF Exit, Crash, InBatch
<1> QED
    BY <1>4, <1>5, <1>6, <1>7, <1>8, <1>9, <1>10, <1>11, <1>12, <1>13, <1>14, <1>15, <1>16
    DEF OwnStep, RunStep

(***************************************************************************)
(* What is recorded is the block whose receipts were just stored.          *)
(***************************************************************************)
LEMMA RecordedMatches ==
    ASSUME Inv, SoloInv, Solo, [Next]_vars
    PROVE  ReceiptsMatchState'
<1>1. TypeOK /\ execHeight \in Nat
    BY ConstantsOK DEF Inv, TypeOK, Heights
<1>2. ASSUME NEW n \in 1..execHeight, NEW k \in Keys, receipts'[n][k] # Absent
      PROVE  hist'[n][k] \in {receipts'[n][k], Absent}
    BY <1>2, RecordedKept DEF SoloInv, ReceiptsMatchState
<1>3. CASE UNCHANGED execHeight
    BY <1>2, <1>3 DEF ReceiptsMatchState
<1>4. ASSUME NEW e \in Executors, pc[e] = "update", execHeight' = job[e].blockNum
      PROVE  ReceiptsMatchState'
    <2>1. PICK n : n = job[e].blockNum
        OBVIOUS
    <2>2. JobOK(e) /\ job[e] \in Jobs /\ SoloJob(e)
        BY DEF Inv, TypeOK, SoloInv
    <2>3. n \in Blocks /\ n = execHeight + 1
        BY <1>4, <2>1, <2>2, ConstantsOK
        DEF JobOK, BatchBound, InBatch, Jobs, Heights, Blocks, SoloJob, AtNextBlock
    <2>4. receipts[n] = job[e].accounts /\ UNCHANGED receipts
        BY <1>1, <1>4, <2>1, <2>2, ReceiptsSteps DEF SoloJob, Written, Solo
    <2>5. ASSUME NEW k \in Keys, receipts'[n][k] # Absent
          PROVE  hist'[n][k] \in {receipts'[n][k], Absent}
        <3>1. k \in Dirty(e)
            BY <2>4, <2>5 DEF Dirty, Present
        <3>2. hist[n][k] \in {job[e].accounts[k], Absent}
            BY <1>4, <2>1, <2>2, <3>1 DEF SoloJob, Pending, Written, Loaded
        <3>3. hist'[n][k] \in {job[e].accounts[k], Absent}
            BY <2>1, <2>3, <3>2, OwnHist
        <3> QED BY <2>4, <3>3
    <2>6. ASSUME NEW m \in 1..n, m # n PROVE m \in 1..execHeight
        BY <1>1, <2>3, <2>6
    <2> QED BY <1>2, <1>4, <2>1, <2>5, <2>6 DEF ReceiptsMatchState
<1> QED
    BY <1>1, <1>3, <1>4, ExecSteps

LEMMA SoloNext ==
    ASSUME Solo
    PROVE  Inv /\ SoloInv /\ [Next]_vars => SoloInv'
<1> SUFFICES ASSUME Inv, SoloInv, [Next]_vars PROVE SoloInv'
    OBVIOUS
<1>1. TypeOK
    BY DEF Inv
<1>2. ASSUME NEW e \in Executors PROVE SoloJob(e)'
    <2>1. CASE UNCHANGED <<pc[e], job[e], ctxLive[e]>>
        <3>1. SoloJob(e) /\ UNCHANGED execHeight
            BY <2>1, HeightKept DEF SoloInv
        <3>2. CASE pc[e] \in Loaded
            <4>1. pc[e] = "update" => receipts'[job[e].blockNum] = job[e].accounts
                BY <1>1, <2>1, <3>1, ReceiptsSteps DEF SoloJob, Written, Solo
            <4>2. Pending(e)'
                BY <2>1, <3>1 DEF SoloJob, Pending
            <4>3. job[e].histOps \subseteq Keys
                BY <1>1 DEF TypeOK, Jobs
            <4> QED BY <2>1, <3>2, <4>1, <4>2, <4>3, StaysAtWork
        <3>3. CASE pc[e] \notin Loaded
            BY <2>1, <3>1, <3>3 DEF SoloJob, AtNextBlock, Pending, Written, Loaded
        <3> QED BY <3>2, <3>3
    <2> QED BY <1>1, <2>1, WhoSteps, OwnStepSolo
<1> QED
    BY <1>2, RecordedMatches DEF SoloInv

(***************************************************************************)
(* The invariant holds of a single executor whose progress read does not   *)
(* fail: the block it is at is the one after the recorded height.          *)
(***************************************************************************)
THEOREM SoloInvariance ==
    ASSUME Solo
    PROVE  Spec => []SoloInv
<1>1. Init => SoloInv
    BY DEF Init, SoloInv, SoloJob, AtNextBlock, Pending, Written, ReceiptsMatchState, NoJob,
           InBatch, Loaded
<1> QED
    BY <1>1, SoloNext, Invariance, PTL DEF Spec

(***************************************************************************)
(* What the receipts of a recorded block tell of is what its historical    *)
(* keys hold until they expire, although StoreReceipts and Commit are      *)
(* separate calls (ProcessBlock, pkg/executor/processor.go), either may    *)
(* fail and be done again, and the reads of an execution may find anything *)
(* or fail.                                                                *)
(***************************************************************************)
THEOREM Consistency ==
    ASSUME Solo
    PROVE  Spec => []ReceiptsMatchState
<1>1. SoloInv => ReceiptsMatchState
    BY DEF SoloInv
<1> QED
    BY <1>1, SoloInvariance, PTL

(***************************************************************************)
(* The recorded height never goes down (UpdateExecProgress).               *)
(***************************************************************************)
THEOREM Monotonicity ==
    ASSUME Solo
    PROVE  Spec => ProgressMonotone
<1>1. Inv /\ SoloInv /\ [Next]_vars => [execHeight' >= execHeight]_execHeight
    <2> SUFFICES ASSUME Inv, SoloInv, [Next]_vars, execHeight' # execHeight
                 PROVE  execHeight' >= execHeight
        OBVIOUS
    <2>1. TypeOK /\ execHeight \in Nat
        BY ConstantsOK DEF Inv, TypeOK, Heights
    <2>2. PICK e \in Executors : pc[e] = "update" /\ execHeight' = job[e].blockNum
        BY <2>1, ExecSteps
    <2>3. execHeight' = execHeight + 1
        BY <2>2 DEF SoloInv, SoloJob, AtNextBlock, InBatch
    <2> QED BY <2>1, <2>3
<1> QED
    BY <1>1, Invariance, SoloInvariance, PTL DEF Spec, ProgressMonotone

(***************************************************************************)
(* A recorded block is final: executions that are repeated after a failure *)
(* or a restart only ever write the block after the recorded height.       *)
(***************************************************************************)
THEOREM Finality ==
    ASSUME Solo
    PROVE  Spec => ExecutedBlockFrozen
<1>1. Inv /\ SoloInv /\ [Next]_vars
          => [\A n \in 1..execHeight :
                 /\ receipts'[n] = receipts[n]
                 /\ \A k \in Keys : hist'[n][k] \in {hist[n][k], Absent}]_pika
    BY RecordedKept
<1> QED
    BY <1>1, Invariance, SoloInvariance, PTL DEF Spec, ExecutedBlockFrozen

-----------------------------------------------------------------------------
(***************************************************************************)
(* With reads that do not fail and keys that do not expire there is more   *)
(* to say, unless block 1 is executed twice on keys it has written: it has *)
(* no transactions, or nothing goes wrong before it is recorded.           *)
(***************************************************************************)
CleanStart == FirstBlockEmpty \/ CalmStart

Assumptions == Solo /\ Reliable /\ CleanStart

(***************************************************************************)
(* In a calm start the replica is not cancelled, and once it has begun to  *)
(* store block 1 it goes on until the block is recorded.                   *)
(***************************************************************************)
CalmInv ==
    CalmStart /\ execHeight = 0 =>
        \A e \in Executors : ctxLive[e] /\ (pc[e] \notin Loaded => latest = Genesis)

AllInv == Inv /\ SoloInv /\ HistoryInv /\ CalmInv

LEMMA StartReads ==
    ASSUME AllInv, Assumptions
    PROVE  FirstReads
<1>1. CASE FirstBlockEmpty
    BY <1>1, EmptyFirstReads DEF AllInv
<1>2. CASE CalmStart
    <2> SUFFICES ASSUME NEW e \in Executors, pc[e] = "execute", job[e].blockNum = 1
                 PROVE  latest = Genesis
        BY DEF FirstReads
    <2>1. execHeight \in Nat /\ execHeight + 1 = 1
        BY ConstantsOK DEF AllInv, Inv, TypeOK, Heights, SoloInv, SoloJob, AtNextBlock, InBatch
    <2> QED BY <1>2, <2>1 DEF AllInv, CalmInv, Loaded
<1> QED
    BY <1>1, <1>2 DEF Assumptions, CleanStart

LEMMA OneByOne ==
    ASSUME Inv, SoloInv, Solo, [Next]_vars
    PROVE  UNCHANGED execHeight \/ execHeight' = execHeight + 1
<1>1. TypeOK
    BY DEF Inv
<1>2. ASSUME NEW e \in Executors, pc[e] = "update", execHeight' = job[e].blockNum
      PROVE  execHeight' = execHeight + 1
    BY <1>2 DEF SoloInv, SoloJob, AtNextBlock, InBatch
<1> QED
    BY <1>1, <1>2, ExecSteps

(***************************************************************************)
(* Nothing but a mishap makes a live replica drop a block it is storing.   *)
(***************************************************************************)
LEMMA KeepsStoring ==
    ASSUME Inv, [Next]_vars, NEW e \in Executors, OwnStep(e), ctxLive[e], pc[e] \in Loaded,
           \A kind \in MishapKinds : ~Mishap(kind)
    PROVE  pc'[e] \in Loaded \/ execHeight' = job[e].blockNum
<1>1. TypeOK
    BY DEF Inv
<1>2. ASSUME NEW label, Goto(e, label) PROVE pc'[e] = label
    BY <1>1, <1>2 DEF Goto, TypeOK
<1>3. \A kind \in MishapKinds : ~Fails(e, kind)
    BY DEF Fails
<1>4. CASE \E k \in Keys : SetHistorical(e, k) \/ SetLatest(e, k)
    BY <1>2, <1>4 DEF SetHistorical, SetLatest, Loaded
<1>5. CASE PipelineBreaks(e)
    BY <1>5 DEF PipelineBreaks, MishapKinds
<1>6. CASE StoreReceipts(e)
    BY <1>2, <1>3, <1>6 DEF StoreReceipts, Loaded, MishapKinds
<1>7. CASE UpdateExecProgress(e)
    BY <1>3, <1>7 DEF UpdateExecProgress, MishapKinds
<1>8. CASE Signal(e) \/ Exit(e) \/ Crash(e) \/ Restart(e)
    BY <1>8 DEF Signal, Exit, Crash, Restart, Loaded, MishapKinds
<1> QED
    BY <1>4, <1>5, <1>6, <1>7, <1>8
    DEF OwnStep, RunStep, GetSyncProgress, GetExecProgress, GetBlock, LoadEntry, Commit,
        RunReturns, Loaded

LEMMA CalmNext ==
    ASSUME Inv, SoloInv, Solo, CalmInv, [Next]_vars
    PROVE  CalmInv'
<1> SUFFICES ASSUME CalmStart, execHeight' = 0, NEW e \in Executors
             PROVE  ctxLive'[e] /\ (pc'[e] \notin Loaded => latest' = Genesis)
    BY DEF CalmInv
<1>1. TypeOK /\ TypeOK' /\ execHeight = 0
    BY OneByOne, NextInv, ConstantsOK DEF Inv, TypeOK, Heights
<1>2. ctxLive[e] /\ (pc[e] \notin Loaded => latest = Genesis)
    BY <1>1 DEF CalmInv
<1>3. \A kind \in MishapKinds : ~Mishap(kind)
    BY <1>1 DEF Mishap
<1>4. CASE UNCHANGED <<pc[e], job[e], ctxLive[e]>>
    <2>1. pc[e] \notin Loaded => \A k \in Keys : latest'[k] = latest[k]
        BY <1>1, LatestSteps DEF Solo, Loaded
    <2> QED BY <1>1, <1>2, <1>4, <2>1 DEF TypeOK, Entries
<1>5. CASE OwnStep(e)
    <2>1. ctxLive'[e]
        <3>1. CASE UNCHANGED ctxLive
            BY <1>2, <3>1
        <3>2. CASE Signal(e)
            BY <1>3, <3>2 DEF Signal, MishapKinds
        <3>3. CASE Restart(e)
            BY <1>1, <3>3 DEF Restart, TypeOK
        <3> QED BY <1>5, <3>1, <3>2, <3>3
                DEF OwnStep, RunStep, GetSyncProgress, GetExecProgress, GetBlock, LoadEntry,
                    Commit, SetHistorical, SetLatest, PipelineBreaks, StoreReceipts,
                    UpdateExecProgress, RunReturns, Exit, Crash
    <2>2. CASE pc[e] \in Loaded
        <3>1. job[e].blockNum # 0
            BY <2>2, ConstantsOK DEF Inv, TypeOK, JobOK, BatchBound, Loaded, InBatch, Jobs, Heights
        <3> QED BY <1>2, <1>3, <1>5, <2>1, <2>2, <3>1, KeepsStoring
    <2>3. CASE pc[e] \notin Loaded
        <3>1. \A k \in Keys : latest'[k] = latest[k]
            BY <1>1, <2>3, LatestSteps DEF Solo, Loaded
        <3> QED BY <1>1, <1>2, <2>1, <2>3, <3>1 DEF TypeOK, Entries
    <2> QED BY <2>2, <2>3
<1> QED
    BY <1>1, <1>4, <1>5, WhoSteps

(***************************************************************************)
(* All invariants so far hold together.                                    *)
(***************************************************************************)
LEMMA AllInvariance ==
    ASSUME Assumptions
    PROVE  Spec => []AllInv
<1>1. Init => HistoryInv /\ CalmInv
    BY InitHistory DEF Init, CalmInv
<1>2. AllInv /\ [Next]_vars => HistoryInv' /\ CalmInv'
    <2> SUFFICES ASSUME AllInv, [Next]_vars PROVE HistoryInv' /\ CalmInv'
        OBVIOUS
    <2>1. FirstReads
        BY StartReads
    <2> QED BY <2>1, HistoryNext, CalmNext DEF AllInv, Assumptions
<1>3. Spec => []Inv /\ []SoloInv
    BY Invariance, SoloInvariance DEF Assumptions
<1>4. AllInv <=> Inv /\ SoloInv /\ HistoryInv /\ CalmInv
    BY DEF AllInv
<1> QED
    BY <1>1, <1>2, <1>3, <1>4, PTL DEF Spec

-----------------------------------------------------------------------------
(***************************************************************************)
(* The "latest" keys: never behind the recorded height, although they are  *)
(* written one by one, before the height is, and again when a block is     *)
(* repeated.                                                               *)
(***************************************************************************)
Writers(k) == {n \in 1..execHeight : receipts[n][k] # Absent}

AheadOf(h, k) == h < MaxBlock /\ hist[h + 1][k] # Absent /\ latest[k] = hist[h + 1][k]

LatestCurrent(k) ==
    \/ Writers(k) = {}
    \/ \E w \in Writers(k) : /\ \A n \in Writers(k) : n <= w
                             /\ latest[k] = receipts[w][k] \/ AheadOf(execHeight, k)

JobCurrent(e) ==
    pc[e] \in Loaded => \A k \in Dirty(e) \ job[e].latestOps : latest[k] = job[e].accounts[k]

CurrentInv ==
    /\ \A k \in Keys : LatestCurrent(k)
    /\ \A e \in Executors : JobCurrent(e)

(***************************************************************************)
(* A replica is at the same entries as before, and sets the latest key of  *)
(* each one it is done with, or it starts to set them all.                 *)
(***************************************************************************)
Sets(e) ==
    \/ job'[e].latestOps = Dirty(e)'
    \/ /\ pc[e] \in Loaded
       /\ job'[e].accounts = job[e].accounts
       /\ \A k \in job[e].latestOps :
             k \in job'[e].latestOps \/ latest'[k] = job[e].accounts[k]

LEMMA OwnStepSets ==
    ASSUME Inv, [Next]_vars, NEW e \in Executors, OwnStep(e), pc'[e] \in Loaded
    PROVE  Sets(e)
<1>1. TypeOK /\ job[e] \in Jobs
    BY DEF Inv, TypeOK
<1>2. ASSUME NEW label, Goto(e, label) PROVE label \in Loaded
    BY <1>1, <1>2 DEF Goto, TypeOK
<1>3. CASE Commit(e)
    <2>1. PICK x : x = Modified(job[e].blockNum, job[e].found)
        OBVIOUS
    <2>2. job' = [job EXCEPT ![e].found = <<>>, ![e].accounts = x,
                             ![e].histOps = Present(x), ![e].latestOps = Present(x)]
        BY <1>2, <1>3, <2>1 DEF Commit, BackToRun, Loaded
    <2>3. job'[e].accounts = x /\ job'[e].latestOps = Present(x)
        BY <1>1, <2>2 DEF TypeOK, Jobs
    <2> QED BY <2>3 DEF Sets, Dirty, Present
<1>4. CASE \E k \in Keys : SetHistorical(e, k)
    <2>1. pc[e] = "commit"
        BY <1>4 DEF SetHistorical
    <2>2. job'[e].accounts = job[e].accounts /\ job'[e].latestOps = job[e].latestOps
        BY <1>1, <1>4 DEF SetHistorical, TypeOK, Jobs
    <2> QED BY <2>1, <2>2 DEF Sets, Loaded
<1>5. CASE \E k \in Keys : SetLatest(e, k)
    <2>1. PICK k \in Keys : SetLatest(e, k)
        BY <1>5
    <2>2. /\ pc[e] = "commit"
          /\ job'[e].accounts = job[e].accounts
          /\ job'[e].latestOps = job[e].latestOps \ {k}
        BY <1>1, <2>1 DEF SetLatest, TypeOK, Jobs
    <2>3. latest'[k] = job[e].accounts[k]
        BY <1>1, <2>1 DEF SetLatest, TypeOK, Entries
    <2> QED BY <2>2, <2>3 DEF Sets, Loaded
<1>6. CASE PipelineBreaks(e)
    <2>1. job' = [job EXCEPT ![e].histOps = Dirty(e), ![e].latestOps = Dirty(e)]
        BY <1>2, <1>6 DEF PipelineBreaks, BackToRun, Loaded
    <2>2. job'[e].accounts = job[e].accounts /\ job'[e].latestOps = Dirty(e)
        BY <1>1, <2>1 DEF TypeOK, Jobs
    <2> QED BY <2>2 DEF Sets, Dirty, Present
<1>7. CASE StoreReceipts(e)
    <2>1. pc[e] = "receipts" /\ UNCHANGED job
        BY <1>2, <1>7 DEF StoreReceipts, BackToRun, Loaded
    <2> QED BY <2>1 DEF Sets, Loaded
<1>8. CASE Signal(e)
    <2>1. pc[e] \in Loaded /\ UNCHANGED job
        BY <1>8 DEF Signal
    <2> QED BY <2>1 DEF Sets
<1>9. CASE UpdateExecProgress(e)
    BY <1>2, <1>9 DEF UpdateExecProgress, NextBlock, BackToRun, Loaded
<1>10. CASE \/ GetSyncProgress(e) \/ GetExecProgress(e) \/ GetBlock(e)
            \/ \E k \in Keys : LoadEntry(e, k)
    BY <1>2, <1>10 DEF GetSyncProgress, GetExecProgress, StartBatch, GetBlock, LoadEntry,
                       BackToRun, Loaded
<1>11. CASE RunReturns(e) \/ Exit(e) \/ Crash(e) \/ Restart(e)
    BY <1>2, <1>11 DEF RunReturns, Exit, Crash, Restart, Loaded
<1> QED
    BY <1>3, <1>4, <1>5, <1>6, <1>7, <1>8, <1>9, <1>10, <1>11 DEF OwnStep, RunStep

LEMMA JobStaysCurrent ==
    ASSUME Inv, Solo, CurrentInv, [Next]_vars, NEW e \in Executors
    PROVE  JobCurrent(e)'
<1> SUFFICES ASSUME pc'[e] \in Loaded, NEW k \in Keys,
                    k \in Dirty(e)', k \notin job'[e].latestOps
             PROVE  latest'[k] = job'[e].accounts[k]
    BY DEF JobCurrent, Dirty, Present
<1>1. TypeOK /\ JobCurrent(e)
    BY DEF Inv, CurrentInv
<1>2. Sets(e)
    <2>1. CASE UNCHANGED <<pc[e], job[e], ctxLive[e]>>
        BY <2>1 DEF Sets
    <2> QED BY <1>1, <2>1, WhoSteps, OwnStepSets
<1>3. /\ pc[e] \in Loaded
      /\ job'[e].accounts = job[e].accounts
      /\ k \in job[e].latestOps => latest'[k] = job[e].accounts[k]
    BY <1>2 DEF Sets
<1>4. k \in Dirty(e)
    BY <1>3 DEF Dirty, Present
<1>5. latest'[k] = latest[k] \/ latest'[k] = job[e].accounts[k]
    BY <1>1, LatestSteps DEF Solo
<1> QED
    BY <1>1, <1>3, <1>4, <1>5 DEF JobCurrent

(***************************************************************************)
(* A replica at work is at work on the block after the recorded height.    *)
(***************************************************************************)
LEMMA AtWork ==
    ASSUME Inv, SoloInv, NEW e \in Executors, pc[e] \in Worked
    PROVE  /\ job[e].blockNum = execHeight + 1
           /\ job[e].blockNum \in Blocks
           /\ execHeight \in Nat
           /\ execHeight < MaxBlock
<1>1. job[e] \in Jobs /\ execHeight \in Heights /\ BatchBound(e) /\ AtNextBlock(e)
    BY DEF Inv, TypeOK, JobOK, SoloInv, SoloJob
<1>2. job[e].blockNum = execHeight + 1
    BY <1>1 DEF AtNextBlock, Worked, InBatch
<1> QED
    BY <1>1, <1>2, ConstantsOK DEF BatchBound, Worked, InBatch, Jobs, Heights, Blocks

(***************************************************************************)
(* The latest keys after a step that records nothing.                      *)
(***************************************************************************)
LEMMA LatestStaysCurrent ==
    ASSUME AllInv, Assumptions, CurrentInv, [Next]_vars, UNCHANGED execHeight, NEW k \in Keys
    PROVE  LatestCurrent(k)'
<1>1. PICK h : h = execHeight
    OBVIOUS
<1>2. TypeOK /\ h \in Nat /\ \A n \in 1..h : receipts'[n] = receipts[n]
    BY <1>1, RecordedKept, ConstantsOK DEF AllInv, Assumptions, Inv, TypeOK, Heights
<1>3. Writers(k)' = Writers(k)
    BY <1>1, <1>2 DEF Writers
<1>4. CASE latest'[k] = latest[k]
    <2>1. AheadOf(h, k) => AheadOf(h, k)'
        <3> SUFFICES ASSUME AheadOf(h, k) PROVE hist'[h + 1][k] = hist[h + 1][k]
            BY <1>4 DEF AheadOf
        <3>1. h + 1 \in Blocks
            BY <1>2, ConstantsOK DEF AheadOf, Blocks
        <3> QED BY <3>1, WritesFollow DEF AheadOf, AllInv, Assumptions
    <2>2. \A w \in Writers(k) : receipts'[w] = receipts[w]
        BY <1>1, <1>2 DEF Writers
    <2> QED BY <1>1, <1>3, <1>4, <2>1, <2>2 DEF CurrentInv, LatestCurrent
<1>5. ASSUME NEW e \in Executors, pc[e] = "commit",
             k \in job[e].latestOps \ job[e].histOps, latest'[k] = job[e].accounts[k]
      PROVE  AheadOf(h, k)'
    <2>1. job[e].blockNum = h + 1 /\ h + 1 \in Blocks /\ h < MaxBlock
        BY <1>1, <1>5, AtWork DEF AllInv, Worked
    <2>2. k \in Dirty(e) /\ job[e].accounts[k] # Absent
        BY <1>5 DEF AllInv, Inv, JobOK, Committing, Dirty, Present
    <2>3. hist[h + 1][k] = job[e].accounts[k]
        BY <1>5, <2>1, <2>2 DEF AllInv, HistoryInv, JobStores, Sure, Worked
    <2>4. hist'[h + 1][k] = job[e].accounts[k]
        BY <2>1, <2>2, <2>3, WritesFollow DEF AllInv, Assumptions
    <2> QED BY <1>5, <2>1, <2>2, <2>4 DEF AheadOf
<1>6. LatestCurrent(k) /\ (AheadOf(h, k)' => LatestCurrent(k)')
    <2>1. LatestCurrent(k)
        BY DEF CurrentInv
    <2> QED BY <1>1, <1>3, <2>1 DEF LatestCurrent
<1> QED
    BY <1>2, <1>4, <1>5, <1>6, LatestSteps

(***************************************************************************)
(* The step that records a block: its receipts and its historical keys are *)
(* the entries of the replica that executed it.                            *)
(***************************************************************************)
LEMMA RecordStep ==
    ASSUME AllInv, Assumptions, [Next]_vars, execHeight' # execHeight,
           NEW n, n = execHeight + 1
    PROVE  /\ n \in Blocks /\ execHeight' = n /\ DoneTo(n)
           /\ UNCHANGED <<receipts, latest>>
           /\ receipts[n] = hist[n]
           /\ CurrentInv => \A k \in Keys :
                  receipts[n][k] # Absent => latest[k] = receipts[n][k]
<1>1. TypeOK /\ TypeOK'
    BY NextInv DEF AllInv, Inv
<1>2. PICK e \in Executors :
          pc[e] = "update" /\ pc'[e] # "update" /\ execHeight' = job[e].blockNum
    BY <1>1, ExecSteps
<1>3. JobOK(e) /\ SoloJob(e) /\ job[e].blockNum = n /\ n \in Blocks
    BY <1>2, AtWork DEF AllInv, Inv, SoloInv, Worked
<1>4. \A f \in Executors : f = e
    BY DEF Assumptions, Solo
<1>5. UNCHANGED receipts
    BY <1>1, <1>2, <1>4, ReceiptsSteps
<1>6. UNCHANGED latest
    <2>1. \A k \in Keys : latest'[k] = latest[k]
        BY <1>1, <1>2, <1>4, LatestSteps
    <2> QED BY <1>1, <2>1 DEF TypeOK, Entries
<1>7. DoneTo(n) /\ job[e].accounts = hist[n]
    BY <1>2, <1>3, UpdateDone DEF AllInv
<1>8. receipts[n] = job[e].accounts
    BY <1>2, <1>3 DEF SoloJob, Written
<1>9. ASSUME CurrentInv, NEW k \in Keys, receipts[n][k] # Absent
      PROVE  latest[k] = receipts[n][k]
    <2>1. k \in Dirty(e) /\ job[e].latestOps = {}
        BY <1>2, <1>3, <1>8, <1>9 DEF JobOK, Committing, Dirty, Present
    <2> QED BY <1>2, <1>8, <1>9, <2>1 DEF CurrentInv, JobCurrent, Loaded
<1> QED
    BY <1>2, <1>3, <1>5, <1>6, <1>7, <1>8, <1>9

LEMMA RecordCurrent ==
    ASSUME AllInv, Assumptions, CurrentInv, [Next]_vars, execHeight' # execHeight, NEW k \in Keys
    PROVE  LatestCurrent(k)'
<1>1. PICK h, n : h = execHeight /\ n = execHeight + 1
    OBVIOUS
<1>2. h \in Nat /\ 1..n = (1..h) \cup {n} /\ \A m \in 1..n : m <= n
    BY <1>1, ConstantsOK DEF AllInv, Inv, TypeOK, Heights
<1>3. execHeight' = n /\ UNCHANGED <<receipts, latest>> /\ receipts[n] = hist[n]
    BY <1>1, RecordStep
<1>4. CASE receipts[n][k] # Absent
    <2>1. n \in Writers(k)' /\ \A m \in Writers(k)' : m <= n
        BY <1>2, <1>3, <1>4 DEF Writers
    <2>2. latest[k] = receipts[n][k]
        BY <1>1, <1>4, RecordStep
    <2> QED BY <1>3, <2>1, <2>2 DEF LatestCurrent
<1>5. CASE receipts[n][k] = Absent
    <2>1. Writers(k)' = Writers(k)
        BY <1>1, <1>2, <1>3, <1>5 DEF Writers
    <2>2. ~AheadOf(h, k)
        BY <1>1, <1>3, <1>5 DEF AheadOf
    <2> QED BY <1>1, <1>3, <2>1, <2>2 DEF CurrentInv, LatestCurrent
<1> QED
    BY <1>4, <1>5

LEMMA CurrentIsCurrent ==
    ASSUME Inv, CurrentInv
    PROVE  LatestIsCurrent
<1> SUFFICES ASSUME NEW k \in Keys, Writers(k) # {}
             PROVE  latest[k] = receipts[Max(Writers(k))][k] \/ AheadOf(execHeight, k)
    BY DEF LatestIsCurrent, Writers, AheadOf
<1>1. PICK w \in Writers(k) : /\ \A n \in Writers(k) : n <= w
                              /\ latest[k] = receipts[w][k] \/ AheadOf(execHeight, k)
    BY DEF CurrentInv, LatestCurrent
<1>2. \A n \in Writers(k) : n \in Nat
    BY ConstantsOK DEF Inv, TypeOK, Heights, Writers
<1>3. Max(Writers(k)) = w
    <2>1. w \in Nat /\ \A n \in Writers(k) : n \in Nat /\ n <= w
        BY <1>1, <1>2
    <2> QED BY <1>1, <2>1, MaxIs
<1> QED
    BY <1>1, <1>3

(***************************************************************************)
(* The latest keys hold the state of the recorded height, except for what  *)
(* an execution of the next block has already written, although Commit     *)
(* (pkg/state/statedb.go) sets them one by one before UpdateExecProgress   *)
(* and executions are repeated after broken pipelines, failed writes,      *)
(* signals and crashes.  Assumed are a single replica whose reads of the   *)
(* progress and of the state do not fail, keys that do not expire, and a   *)
(* first block that is empty or recorded before anything goes wrong.       *)
(***************************************************************************)
THEOREM Currency ==
    ASSUME Assumptions
    PROVE  Spec => []LatestIsCurrent
<1>1. AllInv /\ CurrentInv /\ [Next]_vars => CurrentInv'
    <2> SUFFICES ASSUME AllInv, CurrentInv, [Next]_vars PROVE CurrentInv'
        OBVIOUS
    <2>1. \A e \in Executors : JobCurrent(e)'
        BY JobStaysCurrent DEF AllInv, Assumptions
    <2>2. \A k \in Keys : LatestCurrent(k)'
        BY LatestStaysCurrent, RecordCurrent
    <2> QED BY <2>1, <2>2 DEF CurrentInv
<1>2. AllInv /\ CurrentInv => LatestIsCurrent
    BY CurrentIsCurrent DEF AllInv
<1>3. Init => CurrentInv
    <2> SUFFICES ASSUME Init PROVE CurrentInv
        OBVIOUS
    <2>1. \A k \in Keys : Writers(k) = {}
        BY DEF Init, Writers
    <2> QED BY <2>1 DEF Init, CurrentInv, LatestCurrent, JobCurrent, Loaded
<1> QED
    BY <1>1, <1>2, <1>3, AllInvariance, PTL DEF Spec

-----------------------------------------------------------------------------
(***************************************************************************)
(* BlockExecutor implements ChainState: recording a block is the step of   *)
(* ChainState, and every other step keeps what it sees.                    *)
(***************************************************************************)
World == ParentEntries(execHeight + 1)

Outcomes == [n \in 1..execHeight |-> receipts[n]]

LEMMA StepIsExecuteBlock ==
    ASSUME AllInv, AllInv', Assumptions, [Next]_vars, execHeight' # execHeight
    PROVE  /\ execHeight < MaxBlock
           /\ execHeight' = execHeight + 1
           /\ World' = Outcome(execHeight + 1, World)
           /\ Outcomes' = Append(Outcomes, World')
<1>1. PICK h, n : h = execHeight /\ n = execHeight + 1
    OBVIOUS
<1>2. h \in Nat /\ n = h + 1 /\ n \in Nat /\ n # 0 /\ n <= n
    BY <1>1, ConstantsOK DEF AllInv, Inv, TypeOK, Heights
<1>3. n \in Blocks /\ execHeight' = n /\ DoneTo(n) /\ UNCHANGED receipts /\ receipts[n] = hist[n]
    BY <1>1, RecordStep
<1>4. hist'[n] = hist[n]
    BY <1>2, <1>3, EntriesStay DEF AllInv, Assumptions
<1>5. World = ParentEntries(n) /\ World' = hist[n]
    BY <1>1, <1>2, <1>3, <1>4 DEF World, ParentEntries
<1>6. hist[n] = Outcome(n, ParentEntries(n))
    BY <1>2, <1>3 DEF DoneTo, Done
<1>7. Outcomes' = Append(Outcomes, receipts[n])
    <2>1. Outcomes = [m \in 1..h |-> receipts[m]] /\ Outcomes' = [m \in 1..n |-> receipts[m]]
        BY <1>1, <1>3 DEF Outcomes
    <2>2. [m \in 1..n |-> receipts[m]] = Append([m \in 1..h |-> receipts[m]], receipts[n])
        BY <1>2
    <2> QED BY <2>1, <2>2
<1>8. h < MaxBlock
    BY <1>2, <1>3, ConstantsOK DEF Blocks
<1> QED
    BY <1>1, <1>3, <1>5, <1>6, <1>7, <1>8

LEMMA StepIsStutter ==
    ASSUME AllInv, Assumptions, [Next]_vars, UNCHANGED execHeight
    PROVE  World' = World /\ Outcomes' = Outcomes
<1>1. PICK h : h = execHeight
    OBVIOUS
<1>2. h \in Nat /\ h <= MaxBlock
    BY <1>1, ConstantsOK DEF AllInv, Inv, TypeOK, Heights
<1>3. World' = World
    <2>1. CASE h = 0
        BY <1>1, <2>1 DEF World, ParentEntries
    <2>2. CASE h # 0
        <3>1. h \in Blocks /\ h \in Int /\ h <= h /\ h + 1 # 1 /\ h + 1 - 1 = h
            BY <1>2, <2>2, ConstantsOK DEF Blocks
        <3>2. hist'[h] = hist[h]
            BY <1>1, <3>1, EntriesStay DEF AllInv, HistoryInv, Assumptions
        <3> QED BY <1>1, <3>1, <3>2 DEF World, ParentEntries
    <2> QED BY <2>1, <2>2
<1>4. \A m \in 1..h : receipts'[m] = receipts[m]
    BY <1>1, RecordedKept DEF AllInv, Assumptions
<1> QED
    BY <1>1, <1>3, <1>4 DEF Outcomes

(***************************************************************************)
(* Under the same assumptions the service is a chain state: whatever       *)
(* pipelines break, writes fail, signals and crashes there are, and        *)
(* however often a block is executed again, each takes effect once, on the *)
(* entries its parent left, and its receipts tell of that effect           *)
(* (ProcessBlock, pkg/executor/processor.go).                              *)
(***************************************************************************)
THEOREM Implementation ==
    ASSUME Assumptions
    PROVE  Spec => ImplementsChainState
<1>1. Init => Chain!Init
    <2> SUFFICES ASSUME Init PROVE Chain!Init
        OBVIOUS
    <2>1. execHeight = 0 /\ ParentEntries(execHeight + 1) = Genesis
        BY DEF Init, ParentEntries
    <2>2. [n \in 1..execHeight |-> receipts[n]] = <<>>
        BY <2>1
    <2> QED BY <2>1, <2>2 DEF Chain!Init
<1>2. AllInv /\ AllInv' /\ [Next]_vars => [Chain!ExecuteBlock]_Chain!chainVars
    <2> SUFFICES ASSUME AllInv, AllInv', [Next]_vars
                 PROVE  [Chain!ExecuteBlock]_Chain!chainVars
        OBVIOUS
    <2>1. CASE UNCHANGED execHeight
        BY <2>1, StepIsStutter DEF Chain!chainVars, World, Outcomes
    <2>2. CASE execHeight' # execHeight
        BY <2>2, StepIsExecuteBlock DEF Chain!ExecuteBlock, World, Outcomes
    <2> QED BY <2>1, <2>2
<1> QED
    BY <1>1, <1>2, AllInvariance, PTL DEF Spec, ImplementsChainState, Chain!Spec
=============================================================================
