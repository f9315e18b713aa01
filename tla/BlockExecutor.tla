--------------------------- MODULE BlockExecutor ----------------------------
(***************************************************************************)
(* The block execution loop of the service: Executor.run,                  *)
(* executeNextBlocks and executeBlock (pkg/executor/executor.go),          *)
(* Processor.ProcessBlock (pkg/executor/processor.go), the way a           *)
(* PikaStateDB loads and commits state (pkg/state/statedb.go) and the four *)
(* storage layers they go through (pkg/storage), with any number of        *)
(* replicas of the process (deployments/kubernetes) sharing one Pika.      *)
(*                                                                         *)
(* Every access to Pika is an action of its own, so the replicas, the      *)
(* syncer, a shutdown, a crash or an expiring key can come between any two *)
(* of them.  The transactions are a parameter: two operators say which key *)
(* a block's transactions read next, and which entries they leave, given   *)
(* what their reads have found so far (BlockTransactions has an instance). *)
(* What a read finds, or fails to find, thus decides what is read next and *)
(* what is committed.                                                      *)
(***************************************************************************)
EXTENDS Naturals, Sequences, FiniteSetsExt

CONSTANTS
    Executors,          \* replicas of the executor process
    Keys,               \* keys of the world state: accounts and storage slots
    Values,             \* what an account or a slot can hold
    MaxBlock,           \* bound: the syncer delivers blocks 1..MaxBlock
    NextRead(_, _),     \* NextRead(n, found): the key the transactions of block n
                        \* read once their reads have found the entries `found`
    Modified(_, _),     \* Modified(n, found): the entries they leave to commit
    NoMore,             \* no key: the transactions are through
    MaxReads,           \* bound: the reads a block's gas allows
    Genesis,            \* Genesis[k]: content of k's "latest" key before block 1
    BatchSize,          \* execution.batch_size
    NewBlockPanics,     \* types.NewBlock with a nil hasher panics on transactions
    Mishaps,            \* the kinds of mishap that may happen
    CalmStart,          \* no mishap before block 1 is recorded
    MaxMishaps,         \* bound: how many of them
    Absent              \* a Pika key that does not exist

MishapKinds == {"progress", "block", "state", "commit", "retry", "receipts",
                "update", "signal", "crash", "expire"}

Blocks  == 1..MaxBlock
Heights == 0..MaxBlock
Entry   == {Absent} \cup Values
Entries == [Keys -> Entry]
Answers == UNION {[1..m -> Entry] : m \in 0..MaxReads}

ASSUME ConstantsOK ==
    /\ MaxBlock \in Nat
    /\ BatchSize \in Nat
    /\ MaxMishaps \in Nat
    /\ MaxReads \in Nat
    /\ NoMore \notin Keys
    /\ Genesis \in Entries
    /\ CalmStart \in BOOLEAN
    /\ NewBlockPanics \in BOOLEAN
    /\ Mishaps \subseteq MishapKinds
    /\ Absent \notin Values \cup Entries

(***************************************************************************)
(* The transactions of a block end within MaxReads reads, whatever these   *)
(* find.                                                                   *)
(***************************************************************************)
ASSUME TransactionsOK ==
    \A n \in Blocks, found \in Answers :
        /\ NextRead(n, found) \in Keys \cup {NoMore}
        /\ Modified(n, found) \in Entries
        /\ Len(found) = MaxReads => NextRead(n, found) = NoMore

VARIABLES
    \* Pika
    syncHeight,     \* idx:sync:progress, written by the block syncer (0: no key)
    execHeight,     \* idx:exec:progress, latestExecutedBlock (0: no key)
    hist,           \* hist[n][k]: st:{n}:acc:{k} or st:{n}:stor:{k}
    latest,         \* latest[k]: st:latest:acc:{k} or st:latest:stor:{k}
    receipts,       \* receipts[n]: blk:rcpt:{n}, shown as the entries that the
                    \* execution they are of left to commit
    \* each process
    pc,             \* where the run goroutine is
    ctxLive,        \* its context is not cancelled
    job,            \* the local variables of executeNextBlocks and below
    \* the environment
    mishaps         \* mishaps so far

pika == <<syncHeight, execHeight, hist, latest, receipts>>
vars == <<syncHeight, execHeight, hist, latest, receipts, pc, ctxLive, job, mishaps>>

NoEntries == [k \in Keys |-> Absent]

NoJob == [syncSeen |-> 0, blockNum |-> 0, endBlock |-> 0, found |-> <<>>,
          accounts |-> NoEntries, histOps |-> {}, latestOps |-> {}]

Jobs == [syncSeen  : Heights,      \* syncHeight read by executeNextBlocks
         blockNum  : Heights,      \* the block it is executing
         endBlock  : Heights,      \* the last block of its batch
         found     : Answers,      \* what the transactions' reads have found
         accounts  : Entries,      \* PikaStateDB.accounts and .storages, once
                                   \* the transactions are through
         histOps   : SUBSET Keys,  \* pipelined sets of historical keys to run
         latestOps : SUBSET Keys]  \* pipelined sets of latest keys to run

PCs == {"idle", "progress", "block", "execute", "commit", "receipts", "update",
        "returned", "down"}

TypeOK ==
    /\ syncHeight \in Heights
    /\ execHeight \in Heights
    /\ hist \in [Blocks -> Entries]
    /\ latest \in Entries
    /\ receipts \in [Blocks -> {Absent} \cup Entries]
    /\ pc \in [Executors -> PCs]
    /\ ctxLive \in [Executors -> BOOLEAN]
    /\ job \in [Executors -> Jobs]
    /\ mishaps \in 0..MaxMishaps

Init ==
    /\ syncHeight = 0
    /\ execHeight = 0
    /\ hist = [n \in Blocks |-> NoEntries]
    /\ latest = Genesis
    /\ receipts = [n \in Blocks |-> Absent]
    /\ pc = [e \in Executors |-> "idle"]
    /\ ctxLive = [e \in Executors |-> TRUE]
    /\ job = [e \in Executors |-> NoJob]
    /\ mishaps = 0

-----------------------------------------------------------------------------
(***************************************************************************)
(* Outcomes of a client call.  A call made with a cancelled context fails  *)
(* before anything is sent; any other may fail too (a timeout, a lost      *)
(* connection): that is a mishap of the kind named for the call.           *)
(***************************************************************************)
Mishap(kind) ==
    /\ kind \in Mishaps
    /\ CalmStart => execHeight > 0
    /\ mishaps < MaxMishaps
    /\ mishaps' = mishaps + 1

\* BUG: calls do not look at the context
SucceedsAlways(e) == UNCHANGED mishaps

Succeeds(e) == ctxLive[e] /\ UNCHANGED mishaps

Fails(e, kind) ==
    \/ ~ctxLive[e] /\ UNCHANGED mishaps
    \/ ctxLive[e] /\ Mishap(kind)

Goto(e, label) == pc' = [pc EXCEPT ![e] = label]

(***************************************************************************)
(* executeNextBlocks returns: its local variables are gone and run waits   *)
(* for the next tick.                                                      *)
(***************************************************************************)
BackToRun(e) ==
    /\ Goto(e, "idle")
    /\ job' = [job EXCEPT ![e] = NoJob]

(***************************************************************************)
(* The entry a PikaStateDB built on the parent of block n finds for key k: *)
(* the keys of block number 0 are the "latest" ones, every other parent is *)
(* looked up under its own number and nowhere else.                        *)
(***************************************************************************)
\* BUG: every block is executed on the latest keys
ParentEntryLatest(n, k) == latest[k]

ParentEntry(n, k) == IF n = 1 THEN latest[k] ELSE hist[n - 1][k]

-----------------------------------------------------------------------------
(***************************************************************************)
(* The ticker fires (or, after a cancellation, wins the select) and the    *)
(* sync progress is read.  When that read fails, as it does without the    *)
(* key, nothing has changed.                                               *)
(***************************************************************************)
GetSyncProgress(e) ==
    /\ pc[e] = "idle"
    /\ ctxLive[e]
    /\ syncHeight > 0
    /\ Goto(e, "progress")
    /\ job' = [job EXCEPT ![e].syncSeen = syncHeight]
    /\ UNCHANGED <<pika, ctxLive, mishaps>>

(***************************************************************************)
(* The batch executeNextBlocks starts after block h: it returns when all   *)
(* is caught up, or at once when the batch is empty.                       *)
(***************************************************************************)
\* BUG: the end of the batch is not capped to the sync progress
LastBlockUncapped(e, h) == h + BatchSize

LastBlock(e, h) ==
    IF h + BatchSize > job[e].syncSeen THEN job[e].syncSeen ELSE h + BatchSize

\* BUG: off by one, the first block of the batch is skipped
FirstBlockSkipping(e, h) == IF h + 1 < LastBlock(e, h) THEN h + 2 ELSE h + 1

\* BUG: the batch starts with the last executed block
FirstBlockAgain(e, h) == IF h = 0 THEN 1 ELSE h

FirstBlock(e, h) == h + 1

\* BUG: caught up one block early
HasBlocksBut1(e, h) == h + 1 < LastBlock(e, h)

HasBlocks(e, h) == h < LastBlock(e, h)

StartBatch(e, h) ==
    IF HasBlocks(e, h)
    THEN /\ Goto(e, "block")
         /\ job' = [job EXCEPT ![e].blockNum = FirstBlock(e, h),
                               ![e].endBlock = LastBlock(e, h)]
    ELSE BackToRun(e)

(***************************************************************************)
(* GetExecProgress takes any error for a missing key and returns the zero  *)
(* progress.                                                               *)
(***************************************************************************)
GetExecProgress(e) ==
    /\ pc[e] = "progress"
    /\ \/ Succeeds(e) /\ StartBatch(e, execHeight)
       \/ Fails(e, "progress") /\ StartBatch(e, 0)
    /\ UNCHANGED <<pika, ctxLive>>

(***************************************************************************)
(* GetBlock, then a new PikaStateDB with empty caches.  GetBlock rebuilds  *)
(* the block with a nil trie hasher; a panic ends the process.             *)
(***************************************************************************)
PanicsOn(n) == NewBlockPanics /\ NextRead(n, <<>>) # NoMore

GetBlock(e) ==
    /\ pc[e] = "block"
    /\ \/ /\ Succeeds(e)
          /\ IF PanicsOn(job[e].blockNum)
             THEN Goto(e, "down") /\ job' = [job EXCEPT ![e] = NoJob]
             ELSE Goto(e, "execute") /\ UNCHANGED job
       \/ Fails(e, "block") /\ BackToRun(e)
    /\ UNCHANGED <<pika, ctxLive>>

(***************************************************************************)
(* The transactions read key k, which the state DB does not hold yet.  A   *)
(* failed read is taken for a missing entry, an empty account or slot, and *)
(* the block goes on with that; neither is remembered, so the next access  *)
(* to the key is another read.                                             *)
(***************************************************************************)
LoadEntry(e, k) ==
    LET n == job[e].blockNum
        Find(v) == job' = [job EXCEPT ![e].found = Append(@, v)]
    IN  /\ pc[e] = "execute"
        /\ k = NextRead(n, job[e].found)
        /\ \/ Succeeds(e) /\ Find(ParentEntry(n, k))
           \/ Fails(e, "state") /\ Find(Absent)
        /\ UNCHANGED <<pika, pc, ctxLive>>

(***************************************************************************)
(* The transactions are through.  Commit queues two sets per entry and     *)
(* runs the pipeline; an empty pipeline succeeds without a connection.     *)
(***************************************************************************)
Present(entries) == {k \in Keys : entries[k] # Absent}

Dirty(e) == Present(job[e].accounts)

Commit(e) ==
    LET n       == job[e].blockNum
        entries == Modified(n, job[e].found)
        Queue(l) == job' = [job EXCEPT ![e].found = <<>>,
                                       ![e].accounts = entries,
                                       ![e].histOps = Present(entries),
                                       ![e].latestOps = Present(entries)]
                    /\ Goto(e, l)
    IN  /\ pc[e] = "execute"
        /\ NextRead(n, job[e].found) = NoMore
        /\ \/ Present(entries) = {} /\ Queue("receipts") /\ UNCHANGED mishaps
           \/ Present(entries) # {} /\ Succeeds(e) /\ Queue("commit")
           \/ Present(entries) # {} /\ ~ctxLive[e] /\ BackToRun(e) /\ UNCHANGED mishaps
        /\ UNCHANGED <<pika, ctxLive>>

(***************************************************************************)
(* Pika runs the pipelined commands one by one, for each entry the         *)
(* historical key and then the latest one, the entries in the order the    *)
(* map iteration happened to give them.                                    *)
(***************************************************************************)
SetHistorical(e, k) ==
    /\ pc[e] = "commit"
    /\ k \in job[e].histOps
    /\ job[e].histOps = job[e].latestOps
    /\ hist' = [hist EXCEPT ![job[e].blockNum][k] = job[e].accounts[k]]
    /\ job' = [job EXCEPT ![e].histOps = @ \ {k}]
    /\ UNCHANGED <<syncHeight, execHeight, latest, receipts, pc, ctxLive, mishaps>>

SetLatest(e, k) ==
    /\ pc[e] = "commit"
    /\ k \in job[e].latestOps \ job[e].histOps
    /\ latest' = [latest EXCEPT ![k] = job[e].accounts[k]]
    /\ job' = [job EXCEPT ![e].latestOps = @ \ {k}]
    /\ IF job[e].latestOps = {k} THEN Goto(e, "receipts") ELSE UNCHANGED pc
    /\ UNCHANGED <<syncHeight, execHeight, hist, receipts, ctxLive, mishaps>>

(***************************************************************************)
(* The pipeline breaks: the client sends it again from the start, or gives *)
(* up and ProcessBlock returns the error with a prefix of it applied.      *)
(***************************************************************************)
\* BUG: ProcessBlock goes on although the commit failed
PipelineBreaksUnnoticed(e) ==
    /\ pc[e] = "commit"
    /\ Mishap("commit")
    /\ Goto(e, "receipts")
    /\ UNCHANGED <<pika, ctxLive, job>>

PipelineBreaks(e) ==
    /\ pc[e] = "commit"
    /\ \/ /\ Mishap("retry")
          /\ job' = [job EXCEPT ![e].histOps = Dirty(e), ![e].latestOps = Dirty(e)]
          /\ UNCHANGED pc
       \/ Mishap("commit") /\ BackToRun(e)
    /\ UNCHANGED <<pika, ctxLive>>

(***************************************************************************)
(* StoreReceipts is one set.  An error leaves it open whether Pika ran it. *)
(***************************************************************************)
StoreReceipts(e) ==
    LET written == [receipts EXCEPT ![job[e].blockNum] = job[e].accounts]
    IN  /\ pc[e] = "receipts"
        /\ \/ /\ Succeeds(e)
              /\ receipts' = written
              /\ Goto(e, "update")
              /\ UNCHANGED job
           \/ /\ Fails(e, "receipts")
              /\ receipts' \in IF ctxLive[e] THEN {receipts, written} ELSE {receipts}
              /\ BackToRun(e)
        /\ UNCHANGED <<syncHeight, execHeight, hist, latest, ctxLive>>

(***************************************************************************)
(* UpdateExecProgress is one set, too; after it the loop goes on to the    *)
(* next block of the batch, with a new state DB, or returns.               *)
(***************************************************************************)
NextBlock(e) ==
    IF job[e].blockNum < job[e].endBlock
    THEN /\ Goto(e, "block")
         /\ job' = [job EXCEPT ![e] = [NoJob EXCEPT !.syncSeen = job[e].syncSeen,
                                                    !.blockNum = job[e].blockNum + 1,
                                                    !.endBlock = job[e].endBlock]]
    ELSE BackToRun(e)

UpdateExecProgress(e) ==
    /\ pc[e] = "update"
    /\ \/ /\ Succeeds(e)
          /\ execHeight' = job[e].blockNum
          /\ NextBlock(e)
       \/ /\ Fails(e, "update")
          /\ execHeight' \in IF ctxLive[e] THEN {execHeight, job[e].blockNum}
                                           ELSE {execHeight}
          /\ BackToRun(e)
    /\ UNCHANGED <<syncHeight, hist, latest, receipts, ctxLive>>

-----------------------------------------------------------------------------
(***************************************************************************)
(* main receives SIGINT or SIGTERM and cancels the context.                *)
(***************************************************************************)
Signal(e) ==
    /\ pc[e] # "down"
    /\ ctxLive[e]
    /\ Mishap("signal")
    /\ ctxLive' = [ctxLive EXCEPT ![e] = FALSE]
    /\ UNCHANGED <<pika, pc, job>>

(***************************************************************************)
(* run sees the cancellation at its select.                                *)
(***************************************************************************)
RunReturns(e) ==
    /\ pc[e] = "idle"
    /\ ~ctxLive[e]
    /\ Goto(e, "returned")
    /\ UNCHANGED <<pika, ctxLive, job, mishaps>>

(***************************************************************************)
(* Stop does not wait for run: after a signal the process may end wherever *)
(* the run goroutine is.                                                   *)
(***************************************************************************)
Exit(e) ==
    /\ pc[e] # "down"
    /\ ~ctxLive[e]
    /\ Goto(e, "down")
    /\ job' = [job EXCEPT ![e] = NoJob]
    /\ UNCHANGED <<pika, ctxLive, mishaps>>

Crash(e) ==
    /\ pc[e] # "down"
    /\ Mishap("crash")
    /\ Goto(e, "down")
    /\ job' = [job EXCEPT ![e] = NoJob]
    /\ UNCHANGED <<pika, ctxLive>>

(***************************************************************************)
(* The orchestrator starts the process again.  main builds everything anew *)
(* and starts the loop; when it cannot, it ends and nothing has changed.   *)
(***************************************************************************)
Restart(e) ==
    /\ pc[e] = "down"
    /\ Goto(e, "idle")
    /\ ctxLive' = [ctxLive EXCEPT ![e] = TRUE]
    /\ UNCHANGED <<pika, job, mishaps>>

(***************************************************************************)
(* The syncer has stored one more block.                                   *)
(***************************************************************************)
SyncBlock ==
    /\ syncHeight < MaxBlock
    /\ syncHeight' = syncHeight + 1
    /\ UNCHANGED <<execHeight, hist, latest, receipts, pc, ctxLive, job, mishaps>>

(***************************************************************************)
(* A historical key reaches its time to live.                              *)
(***************************************************************************)
Expire(n, k) ==
    /\ hist[n][k] # Absent
    /\ Mishap("expire")
    /\ hist' = [hist EXCEPT ![n][k] = Absent]
    /\ UNCHANGED <<syncHeight, execHeight, latest, receipts, pc, ctxLive, job>>

-----------------------------------------------------------------------------
(***************************************************************************)
(* The steps the run goroutine takes by itself.                            *)
(***************************************************************************)
RunStep(e) ==
    \/ GetSyncProgress(e)
    \/ GetExecProgress(e)
    \/ GetBlock(e)
    \/ \E k \in Keys : LoadEntry(e, k)
    \/ Commit(e)
    \/ \E k \in Keys : SetHistorical(e, k)
    \/ \E k \in Keys : SetLatest(e, k)
    \/ PipelineBreaks(e)
    \/ StoreReceipts(e)
    \/ UpdateExecProgress(e)
    \/ RunReturns(e)

Next ==
    \/ \E e \in Executors : RunStep(e)
    \/ \E e \in Executors : Signal(e) \/ Exit(e) \/ Crash(e) \/ Restart(e)
    \/ SyncBlock
    \/ \E n \in Blocks, k \in Keys : Expire(n, k)

Spec == Init /\ [][Next]_vars

(***************************************************************************)
(* The Go scheduler runs the goroutine, the ticker ticks, a signalled      *)
(* process ends and the orchestrator restarts a process that ended.        *)
(***************************************************************************)
Fairness == \A e \in Executors : WF_vars(RunStep(e)) /\ WF_vars(Exit(e) \/ Restart(e))

FairSpec == Spec /\ Fairness
-----------------------------------------------------------------------------
(***************************************************************************)
(* Properties                                                              *)
(***************************************************************************)

(***************************************************************************)
(* What the transactions of block n leave when all they read is the        *)
(* entries p.                                                              *)
(***************************************************************************)
Completion(n, p) ==
    LET run[found \in Answers] ==
            LET k == NextRead(n, found)
            IN  IF k = NoMore THEN Modified(n, found) ELSE run[Append(found, p[k])]
    IN  run

Outcome(n, p) == Completion(n, p)[<<>>]

(***************************************************************************)
(* The state before block n, as the blocks before it left it.              *)
(***************************************************************************)
ParentEntries(n) == IF n = 1 THEN Genesis ELSE hist[n - 1]

-----------------------------------------------------------------------------
(***************************************************************************)
(* The recorded progress is covered, whatever failed on the way and        *)
(* however many replicas run: no block above the sync height is recorded,  *)
(* and every block up to the recorded height has receipts, and left the    *)
(* permanent key of everything they tell of.                               *)
(***************************************************************************)
ProgressCovered ==
    /\ execHeight <= syncHeight
    /\ \A n \in 1..execHeight :
          /\ receipts[n] # Absent
          /\ \A k \in Keys : receipts[n][k] # Absent => latest[k] # Absent

(***************************************************************************)
(* With one executor, whatever its reads find or fail to find: what the    *)
(* receipts of a recorded block tell of is what the block's historical     *)
(* keys hold, until they expire, although the two are stored by separate   *)
(* calls and a block is executed again, possibly with another outcome,     *)
(* after either failed.  (The converse does not hold: the keys of an       *)
(* abandoned execution stay where the next one has nothing to write.)      *)
(***************************************************************************)
ReceiptsMatchState ==
    \A n \in 1..execHeight : \A k \in Keys :
        receipts[n][k] # Absent => hist[n][k] \in {receipts[n][k], Absent}

(***************************************************************************)
(* With one executor whose reads do not fail and find no key expired, the  *)
(* latest keys hold the state of the recorded height, except where an      *)
(* execution of the next block, finished or not, has already written them. *)
(***************************************************************************)
LatestIsCurrent ==
    \A k \in Keys :
        LET writers == {n \in 1..execHeight : receipts[n][k] # Absent}
        IN  writers # {} =>
                \/ latest[k] = receipts[Max(writers)][k]
                \/ /\ execHeight < MaxBlock
                   /\ hist[execHeight + 1][k] # Absent
                   /\ latest[k] = hist[execHeight + 1][k]

(***************************************************************************)
(* However often and by however many replicas a block is executed: what is *)
(* stored for it is what executing it once on the entries of its parent    *)
(* leaves, and a latest key holds what some block left, or its content     *)
(* before block 1.                                                         *)
(***************************************************************************)
NoDoubleApply ==
    /\ \A n \in Blocks : hist[n] # NoEntries =>
          LET left == Outcome(n, ParentEntries(n))
          IN  \A k \in Keys : hist[n][k] \in {left[k], Absent}
    /\ \A k \in Keys : latest[k] \in {Genesis[k]} \cup {hist[n][k] : n \in Blocks}

(***************************************************************************)
(* With one executor the recorded height never goes down.                  *)
(***************************************************************************)
ProgressMonotone == [][execHeight' >= execHeight]_execHeight

(***************************************************************************)
(* With one executor a recorded block is final: its receipts never change  *)
(* and its historical keys only ever expire.                               *)
(***************************************************************************)
ExecutedBlockFrozen ==
    [][\A n \in 1..execHeight :
          /\ receipts'[n] = receipts[n]
          /\ \A k \in Keys : hist'[n][k] \in {hist[n][k], Absent}]_pika

(***************************************************************************)
(* Replicas that execute the same block, at the same time or one after the *)
(* other, write the same historical state: what one has written no other   *)
(* ever changes.                                                           *)
(***************************************************************************)
HistoryStable ==
    [][\A n \in Blocks, k \in Keys :
          hist[n][k] # Absent => hist'[n][k] = hist[n][k]]_hist

(***************************************************************************)
(* A block the syncer has delivered is eventually executed.                *)
(***************************************************************************)
CatchUp == \A n \in Blocks : syncHeight >= n ~> execHeight >= n

(***************************************************************************)
(* What the transactions of a block read is the state its parent left      *)
(* (processor.go: "Create state DB based on parent block state"): for each *)
(* key, the entry of the last block up to the parent that left one.        *)
(***************************************************************************)
NewestEntry(k, h) ==
    LET present == {n \in 1..h : hist[n][k] # Absent}
    IN  IF present = {} THEN Genesis[k] ELSE hist[Max(present)][k]

ReadsParentState ==
    \A e \in Executors : pc[e] = "execute" =>
        LET n     == job[e].blockNum
            found == job[e].found
        IN  \A i \in 1..Len(found) :
                found[i] = NewestEntry(NextRead(n, SubSeq(found, 1, i - 1)), n - 1)

(***************************************************************************)
(* block.go: "Return default progress if not found": a batch starts from   *)
(* the recorded height, and from zero only when none is recorded.          *)
(***************************************************************************)
BatchStartsAtProgress ==
    [][\A e \in Executors :
          pc[e] = "progress" /\ pc'[e] = "block"
              => job'[e].blockNum = execHeight + 1]_<<pc, job>>

(***************************************************************************)
(* README.md: replicas run "with distributed lock coordination": no two    *)
(* replicas are at work on the same block.                                 *)
(***************************************************************************)
Working(e) == pc[e] \in {"execute", "commit", "receipts", "update"}

BlockExecutedExclusively ==
    \A e, f \in Executors :
        e # f /\ Working(e) /\ Working(f) => job[e].blockNum # job[f].blockNum

(***************************************************************************)
(* The executor implements ChainState: the state is what the last recorded *)
(* block left under its number, where the next block looks for it.         *)
(***************************************************************************)
Chain == INSTANCE ChainState WITH
    height  <- execHeight,
    world   <- ParentEntries(execHeight + 1),
    outcome <- [n \in 1..execHeight |-> receipts[n]]

ImplementsChainState == Chain!Spec
=============================================================================
