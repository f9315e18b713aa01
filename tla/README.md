# Verification of the EVM executor

TLA+ specifications of the EVM executor service in this repository, TLC
configurations that check them on small instances, and TLAPS proofs. Paths are
relative to the repository; `executor.go:137` means
`pkg/executor/executor.go`, and so on for `processor.go`, `apply.go`,
`statedb.go`, `account.go` (`pkg/state`), `block.go`, `state.go`, `pika.go`
(`pkg/storage`), `pool.go` (`pkg/worker`).

## The system

A block syncer, which is not part of the repository, writes blocks and the sync
progress to Pika, a Redis-compatible store. The executor polls that progress once a second and
executes the blocks in order. For each block it loads state from Pika, runs the
transactions in go-ethereum's EVM, and stores new state, receipts and its own
progress in Pika. Several replicas may do so on one Pika.

| Component | State | Operations | Modelled in |
|---|---|---|---|
| execution loop (`executor.go`) | local variables of the run goroutine, the context | `run`, `executeNextBlocks`, `executeBlock`, `Stop` | `BlockExecutor` |
| block processing (`processor.go`) | one state DB per block | `ProcessBlock`; `processTransactions`, `GetHeader` | `BlockExecutor`; `BlockTransactions`, `TxProcessing` |
| transaction application (`apply.go`) | gas pool, used gas, receipts, a cache of hashes per transaction | `ApplyTransaction`, `GetHashFn` | `TxProcessing` |
| state database (`statedb.go`, `account.go`) | accounts, slots, codes, logs, refund, access list, journal, revisions | the EVM's `StateDB` interface; loading and `Commit` | `PikaStateDB`; `BlockExecutor` |
| storage (`pkg/storage`) | the keys in Pika | `GetBlock`, `GetAccount`, `GetStorage`, `BatchWrite`, `StoreReceipts`, progress | `BlockExecutor` |
| worker pool (`pool.go`) | a channel, worker goroutines, a context | `Start`, `Submit`, `SubmitWait`, `Stop`, `Shutdown` | `WorkerPool` |
| lifecycle (`cmd/executor/main.go`) | signal, cancellation | wait for a signal, cancel, `Stop` | `BlockExecutor` |
| configuration, chain parameters, metrics, logging | read once, or write only | | not modelled |

**Interactions.** `main` starts the run goroutine and the workers and, on a
signal, cancels the context and calls `Stop`, which does not wait for the run
goroutine. `run` calls the progress storage and the processor; the processor
calls block storage, builds a `PikaStateDB` on the parent's number, gives it to
the EVM, commits it and stores the receipts. Nothing is shared between replicas
but Pika, and there every access is a call of its own: no transaction, no lock. The
executor owns a worker pool but never submits a task to it.

**What is hard.** State, receipts and progress of a block are stored by separate
calls, any of which can fail, be cut off half way or be followed by a crash;
blocks are then executed again over what was stored before. Replicas do the
same things at the same time. What a block leaves depends on what its reads find,
and a failed read goes unnoticed, so two executions of a block may differ. The state of a block is spread over keys that
expire and keys that do not. The journal has to undo any nesting of snapshots
exactly. The pool's channel is closed while others send. `PROJECT.json` lists
these hazards with their lines and the properties about them.

**What makes it correct.**
- Execution: the recorded height only covers blocks whose receipts and state
  are stored; what the receipts tell of is what is stored; a block takes effect
  once, on what its parent left; with one executor the height never goes down, a
  recorded block is final and, with reliable reads, the latest keys are those of
  the recorded height; every delivered block is executed.
- Transactions: one receipt each, gas that adds up and is paid for, logs, and
  BLOCKHASH answers that are hashes of ancestors.
- State database: going back to a snapshot restores what the EVM sees, and what
  a block changed is what the next block reads.
- Pool: a graceful stop loses no task, nothing runs after a stop, and neither tasks nor
  stops wait forever.

## Modules

**`ChainState`** (abstract): a chain state that advances one block at a time,
each block applied once to the entries its parent left, with height, state and
receipts changing together. What a block leaves is a function of what it is
applied to (`Outcome`).

**`BlockExecutor`**: the service on top of Pika, with any number of replicas.
One action per access to Pika, so that anything can come between two of them:

| Action | Code |
|---|---|
| `GetSyncProgress`, `GetExecProgress`, `StartBatch` | `executor.go:137-168`, `block.go:157-187` |
| `GetBlock` | `block.go:43-68` |
| `LoadEntry` | `statedb.go:102-139, 259-281`, `state.go:41-56` |
| `Commit`, `SetHistorical`, `SetLatest`, `PipelineBreaks` | `statedb.go:508-551`, `state.go:159-191`, `pika.go:76` |
| `StoreReceipts`, `UpdateExecProgress` | `block.go:103-111, 190-197` |
| `Signal`, `RunReturns`, `Exit` | `main.go:71-88`, `executor.go:118-126, 203-219` |
| `Crash`, `Restart`, `SyncBlock`, `Expire` | environment; `state.go:13-16` |

A key stands for an account or a storage slot. The transactions are a parameter,
two operators: `NextRead(n, found)` is the key that the transactions of block `n`
read once their reads have found the entries `found`, and `Modified(n, found)`
the entries they leave to commit when they read no more. What a read finds, or
fails to find, thus decides what is read next, which transactions are rejected and
what is written: a block executed twice may write different keys. `receipts[n]`
is shown as the entries of the execution the receipts are of. A call with a
cancelled context fails and changes nothing; a call that fails otherwise may
have been carried out. `Mishaps` names the kinds of failure a run allows and
`MaxMishaps` bounds their number; with `CalmStart` there is none before block 1
is recorded.

**`BlockTransactions`** gives the two operators values, for the runs:
`processTransactions` (`processor.go:124-163`) over the maps and caches of a
`PikaStateDB` (`statedb.go:102-139, 258-300`), as a function of the answers it got from
Pika. A transaction checks and counts up the nonce of its sender, is rejected if the
nonce is not its own, reads keys, increments keys, and may fail at the end, which
undoes its increments as `account.go:159-234` does: a slot and an account that
was not empty stay among what is committed, an account that was created is
dropped. An account that was read is committed again under the new number, a
missing one and a slot that was only read are not. A missing account is not
cached, so it is read again at each access. An entry is a number, the nonce of
an account that sends transactions, the balance of any other, or a slot; gas is
free here, since `TxProcessing` has it; several reads of a missing account in a
row are one; reads of codes and headers, whose failure can change the outcome like that
of an account's, are left out.

`types.NewBlock` with a nil hasher (`block.go:67`) panics on every block that
has transactions. `NewBlockPanics` says whether it does: the run
`panic` has the code as it is; the other runs set it to FALSE, the program with
that call repaired, since otherwise nothing behind it is ever reached. The
theorems hold for both.

**`Snapshots`** (abstract): what taking snapshots and going back to them
promises: a view, and what each valid snapshot was taken of.

**`PikaStateDB`**: one state DB while a block is executed, with the journal and
the revert of each type of entry. One action per method of the EVM's `StateDB`
interface that changes anything, in any order; `SetTxContext` and `Prepare`
mark the transactions. The EVM's own discipline is kept: it debits or destructs
only accounts that have been used and reverts only to snapshots of the current
transaction. `Commit` comes after the
last transaction: it replaces what is stored under the block's number by the
accounts and slots the state DB keeps, adds the codes, and leaves the next
block's state DB, new and empty, to read them. Until then the storage
(`stored`) is constant, so the LRU caches, which only ever hold parts of it, are
left out; so are preimages (recording is off), the journal's dirty counters
(never read), transient storage (not implemented) and failing reads
(`LoadEntry` of `BlockExecutor` has them). `createObjectChange.revert` removes an account
from the block's accounts, which is exact only if the storage has none there. A
stored account that a transaction empties and that is then created breaks this:
one of balance 1, nonce 0 and no code buys gas, the transaction is given up before
`Prepare`, and a later one creates the account and reverts; the old balance is
read from the storage again, and `RevertsWorld` fails. `MCPikaStateDB` therefore
has no stored account of nonce 0 with a balance, and the theorems about
`RevertsWorld` name the condition.

**`TxProcessing`**: the transactions of one block: context, buying gas,
`Prepare`, the EVM burning gas, moving money, adding logs and refunds, asking
for block hashes, and the receipt; or a rejection at either point. `BlockHash`
is the BLOCKHASH instruction with `GetHashFn`'s cache (`apply.go:132-152`) and
`GetHeader` (`processor.go:180-190`): a header read under the number asked for
counts only if its hash is the parent's, so all other ancestors get zero, and a
failed read gets zero, too. What `core.ApplyMessage` of go-ethereum v1.13.8 does is
external and modelled from how it uses the state. A unit of gas costs `BaseFee + Tip`;
the coinbase gets the tip, and the base fee is burned, since the chain has London's
rules from block 0 (`chain.go:45`). The nonce and signature checks are one
nondeterministic rejection. `used` are the accounts with a nonce or code: one that
is not used and has no money is empty (`account.go:38`), and money sent to it
first creates it. When that is undone, `createObjectChange.revert`
(`account.go:159`) deletes the cached account, and the balance that was stored before the
block shows again, whatever the block has done with it: `Undone` does so for a
failed transaction, `CallFails` for a failed call within one. With
an unused account that has money stored, money comes back that was spent:
with bob unused and 4 stored, he buys gas for all of it and is rejected, alice's
failing transaction pays him, and his 4 are there again. `NoStoredMoneyUnused` excludes
such accounts, and `GasIsPaid` holds of the others. A contract that the block itself
creates counts as unused here, although it has a nonce; with nothing stored for it,
that makes no difference.

**`WorkerPool`**: the pool with Go's rules for select and channels: any ready
case, hand-over to a worker that is already waiting (`HandOver`) and from a
blocked sender to the freed buffer slot, panics on a closed channel. The queue may
have any capacity, 0 included (an unbuffered channel). Tasks may submit tasks.

`MCBlockExecutor`, `MCPikaStateDB`, `MCTxProcessing` and `MCWorkerPool` give the
constants their values. The modules whose names end in `Proofs` have the
theorems, and `Induction` the lemmas that two of them share. Definitions marked `BUG` are mutations: `PROJECT.json` says in which run replacing the original by
one violates which property.

## Runs

| Run | Checks | Shows |
|---|---|---|
| `single_executor` | `ProgressCovered`, `ReceiptsMatchState`, `ProgressMonotone`, `ExecutedBlockFrozen` | one executor, four mishaps of any kind but a failed progress read, failed and expired state reads included |
| `replicas` | `ProgressCovered`, `NoDoubleApply`, `HistoryStable` | two uncoordinated executors and two mishaps, failed progress reads included and failed state reads not, leave the state of one execution |
| `chain` | `LatestIsCurrent`, `ImplementsChainState`, `CatchUp` | refinement of `ChainState`, current latest keys, and progress under fairness |
| `statedb` | `RevisionsOrdered`, `LogIndexes`, `RevertsWorld`, `CommitKeepsChanges` | reverting is exact: refinement of `Snapshots`; the next block reads what this one changed |
| `tx_processing` | `ReceiptsAddUp`, `GasIsPaid`, `BlockHashes` | receipts, gas and money of a block, and its answers to BLOCKHASH |
| `worker_pool` | `GracefulStop`, `QuietAfterStop`, `AcceptedIsExecuted`, `StopEnds` | submissions and two stops race |

Each also checks its module's `TypeOK`, except `replicas` and `chain`.
Deadlock is checked in the runs of `BlockExecutor`, whose ticker never stops,
and not in the others: a block ends, a pool stops, a bound is reached.

Six runs show where the program does not do what the repository says of it:

| Run | Violated | What happens |
|---|---|---|
| `gap` | `ReadsParentState` | a key the parent did not touch is read as missing |
| `panic` | `CatchUp` | the first block with a transaction ends every process that tries it |
| `progress_error` | `BatchStartsAtProgress` | a failed progress read restarts at block 1 |
| `no_lock` | `BlockExecutedExclusively` | two replicas execute one block at the same time |
| `statedb_access_list` | `RevertsAccessList` | a revert removes a warm address from the access list |
| `tx_logs` | `ReceiptHasLogs` | receipts have no logs |

**What the passing runs assume.** The violations above would hide
everything behind them, so each passing run states the part of the program in
which they do not occur:
- `single_executor` has no failed progress read (`progress_error`). Failed and
  expired state reads are part of it: a transaction that succeeded is then rejected
  when its block is executed again, and keys of the abandoned execution stay
  beside the receipts of the other. `ReceiptsMatchState` therefore speaks only of
  what the receipts tell of; that nothing else is stored does not hold.
- `replicas` has no failed or expired state read. Its first block is empty: the
  parent of block 1 is read from the latest keys, which a second execution of
  it finds changed, so that its transactions are rejected. Executing a block
  again is harmless only for the blocks after it, and that is what this run shows.
- `chain` has one executor, no failed or expired reads, and no mishap before block 1
  is recorded (`CalmStart`). Its blocks need not use what their parents used: block 3
  leaves an account alone, which block 4 finds empty, as `gap` shows, and the
  executor implements `ChainState` with that: each block is applied to what is stored
  under its parent's number.
- `statedb`: `CommitKeepsChanges` leaves out accounts that have self-destructed, which
  the code keeps although `statedb.go:307` speaks of deletion.
- `worker_pool` has fewer tasks that submit others than workers. With one worker and a
  task that waits to submit another, the pool is stuck until it is shut down
  and `AcceptedIsExecuted` fails. A panic counts as an end of a stop.

**Bounds.** Three or four blocks, so that a batch of two (`BatchSize`) is cut by
the sync height, ends in the middle of the chain and is followed by another;
one account and one slot, or two accounts, since keys interact only through the
order in which the pipeline writes them and through the transactions; up to four
mishaps reach a crash after a broken pipeline after a failed read after a reported failure;
`MaxReads` bounds the reads of every block of the run, which TLC checks
(`TransactionsOK`), and numbers wrap only beyond what the transactions count. `statedb` has two transactions, a used and
an unused address, one slot, journal entries up to `MaxJournal = 3` and two
snapshots: a nested revert over a change of each type, and a revert after a
revert. Balances, nonces and refunds up to 1 suffice to tell a previous value
from a later one, and one code that both addresses can get is a shared code. `tx_processing` has three transactions whose gas limits exceed
the block's, so the pool runs out in some behaviours, and refunds that outlive
the transaction that earned them; bob is unused and has no money at first, is paid,
and may lose it all by buying gas; the header of another fork is stored in place
of the grandparent's, and the parent's own header can be read or not. `worker_pool` has two workers, a queue of one
and four tasks, one of which submits another: the queue fills, senders block
and are handed over.

**Fairness.** `FairSpec` asks weak fairness of the run goroutine (the Go scheduler
runs it and the ticker keeps ticking) and of the end and restart of a signalled
or dead process (Kubernetes restarts it). The syncer, mishaps and expiry have
none. In `WorkerPool` the goroutines of the pool and the callers of `Stop` are
scheduled and tasks end; nobody has to submit or to stop.

## Proofs

Each theorem holds for every value of the constants that `ConstantsOK` of its
module admits, with no other assumption unless one is named here. In each
module there is one lemma per action for its inductive invariant. `ConstantsOK`
says what the program's data are, for instance that a block's transactions are a
sequence (`PikaStateDB`) and that its accounts are finitely many (`TxProcessing`);
bounds such as `MaxJournal` may have any value. Of the transactions
`BlockExecutor` assumes (`TransactionsOK`) that a block's reads end within `MaxReads`,
whatever they find, which its gas limit ensures.

**`BlockExecutorProofs`**: any number of replicas, blocks and keys, any batch size
and mishaps of every kind.

- `TypeCorrect`: `Spec => []TypeOK`
- `Coverage`: `Spec => []ProgressCovered`

`ProgressCovered` is not inductive: that recording a block keeps it true depends
on what its executor has done since it read the progress, and on no other
replica taking anything back. `Inv` adds, for each replica at work, that its
batch ends at or below a sync height that was once read (`BatchBound`,
`SyncBound`), that every block before the current one is covered
(`BatchCovered`) and that every entry it holds is written or still pending in the
pipeline, and its block covered once its receipts are stored (`Committing`). Two facts carry the
steps of other replicas: receipts and latest keys are never removed
(`StaysCovered`), and a replica's local state is changed by its own steps only
(`BystanderOK`). A replica that starts again at 0 after a failed read is covered, too:
everything before block 1 is. The last section (`HistSteps`, `LatestSteps`,
`ExecSteps`, `ReceiptsSteps`) says what any step can do to each part of the
storage; the next modules rest on it.

**`BlockExecutorHistoryProofs`**: what any number of replicas store.

Both theorems assume that no state read fails and no key expires (`Reliable`) and
that block 1 has no transactions (`FirstBlockEmpty`), and nothing of the other
blocks: they may use any keys, and reject any transaction.

- `AppliedOnce`: `NoDoubleApply`
- `ReplicasAgree`: `HistoryStable`

What executing a block once leaves is a recursive function of what it reads
(`Completion`). That there is such a function follows from the bound on the reads, by
induction from the longest sequences of answers down (`CompletionExists`), and
`CompletionUnfolds` is its recursion. `HistoryInv` says that every
stored entry is what executing its block once on its parent's entries gives (`Follows`), that what a
replica's reads have found leads there (`JobFollows`), that it has stored what it holds
(`JobStores`) and that all blocks below one at work are complete (`Done`, `DoneTo`): what
a replica reads from its parent no longer changes (`WritesFollow`, `ParentStays`).

The hypotheses are needed: block 1 reads the latest keys, which a second
execution finds changed, and a failed or expired read is taken for an empty
entry. The run `replicas` satisfies them. Neither theorem restricts any other mishap.

**`BlockExecutorSoloProofs`**: one executor whose progress read does not fail
(`Solo`), as in the run `single_executor`, and any other mishaps.

- `Consistency`: `ReceiptsMatchState`
- `Monotonicity`: `ProgressMonotone`
- `Finality`: `ExecutedBlockFrozen`

`SoloInv` says that the block at work is the one after the recorded height, except
for a cancelled executor that can only fail (`AtNextBlock`), and that what has been
written of it is what the executor holds, or has expired (`Written`): nothing
it still writes is about a recorded block. An execution that was abandoned may have left
other keys, but every key the next one holds is written again before its
receipts are. Without `Solo` all three are false, which
`progress_error` and `no_lock` show the reasons for.

- `Currency`: `LatestIsCurrent`
- `Implementation`: `ImplementsChainState`

These two assume moreover reads that do not fail and keys that do not expire
(`Reliable`), and that block 1 is empty or recorded before the first mishap
(`CleanStart`). The run `chain` satisfies `Assumptions`, with `CalmStart`; there is no
assumption on the blocks after the first. The hypotheses are needed: with a
failed read a repeated execution may leave a latest key alone that the abandoned one
has written, and block 1 executed again rejects what it had accepted.

`CurrentInv` says that a latest key holds what the last receipts that tell of it say, or
what is stored for the block after the recorded height (`LatestCurrent`), and that
the keys the executor is done with hold what it holds (`JobCurrent`). The first
carries over to the next height because a repeated execution holds the same entries
(`HistoryInv`). `CalmInv` says that in a calm start nothing is written before block 1
is committed once, so that it reads the genesis.

For `Implementation` a step either leaves the recorded height and all that is below
it alone (`StepIsStutter`), or records the next block, which by `HistoryInv` was
executed on what its parent had left and by `SoloInv` agrees with its receipts
(`StepIsExecuteBlock`). `ChainState` applies a block to the entries its parent left, no
more: a key the parent left alone is empty there, as in the code, and that this
is not the state that `processor.go:65` speaks of is the subject of the run `gap`.

**`WorkerPoolProofs`**: any number of workers, tasks and callers of `Stop` and
`Shutdown`, any capacity, 0 included.

- `TypeCorrect`: `TypeOK`, which bounds the queue
- `Quiet`: `QuietAfterStop`
- `Graceful`: `GracefulStop`, for a pool with a worker; without one `Stop` returns at
  once and leaves the queue as it is.

The invariant says that a queued, blocked or running task is held by the buffer,
a sender or a worker (`Held`), that nobody is blocked on a closed queue
(`ClosedToSenders`), that a stop that has returned has seen every worker return
(`StoppersWait`) and that, without cancellation, a returned worker has seen the
queue closed and empty (`Drained`).

**`PikaStateDBJournalProofs`, `PikaStateDBProofs`**: any addresses, slots, codes and
transactions; the first has lemmas about any journal and state, the second
applies them to the methods.

- `Ordered`: `RevisionsOrdered`. The invariant `Inv` adds that the journal is a sequence
  and its length a number: a change lengthens it, a revert cuts it at a place
  that every remaining revision points to or before.
- `TypeCorrect`: `TypeOK`
- `LogsInOrder`: `LogIndexes`
- `CommitKeeping`: `CommitKeepsChanges`, which leaves out self-destructed accounts
- `RevertsExactly`: `RevertsWorld`, in every behaviour in which buying gas does not
  empty a stored account (`NoneEmptied`)
- `RevertsAlways`: `RevertsWorld` in every behaviour, if each stored account has
  nothing, or has a nonce above 0 or code (`StoredHaveRun`), as in the run `statedb`

A revert can lead to any state that undoing a part of the journal gives, so
nothing about the current state alone is inductive. `SoundInv` therefore speaks of
all of them: `Undone(q, d, n)` is what undoing the entries of the journal `q` above
the first `n` makes of the state `d`, and `SoundJournal` says that each is typed
and has its logs numbered. What is shown of undoing one entry (`UndoTyped`,
`UndoSimilar`, `UndoSameAccounts`) carries over to many by induction down from the
length of the journal (`DownFromLength`). A method adds an entry that restores
what it changes (`UndoneAppend`, `SoundAfter`), a revert leaves a prefix of the
journal with the state that belongs to it (`UndonePrefix`, `SoundCut`).

That a revert is exact takes more, because the program restores accounts in
memory only: the entries of an account that is not in memory do nothing, reading
loads accounts without an entry, and undoing a creation removes the account.
`ExactJournal` says that, from some place `f` in the journal on, undoing finds the
accounts it is to restore in memory (`AccountsKept`), and that an account's creation
comes before its other entries (`CreatedFirst`). `Carries` is what each method
does: it keeps the journal sound and exact, and leaves every earlier view as it
was. `SavedInv` concludes that the view saved with each snapshot is what undoing down
to its place gives, and that no snapshot of the transaction lies below `f`. A
transaction that buys gas with the last money of an account that had none when
the block began starts a new `f`: its entry is below every snapshot to come.

`NoneEmptied` is what the code does not guarantee, see `PikaStateDB` above.
`RevertsAlways` shows it from the stored accounts: a nonce above 0 and a code stay
through every change and every revert (`RunInv`), since the nonces and codes in
the journal are those that were read.

**`TxProcessingProofs`**: any block, balances, fees, headers and gas limits.

- `TypeCorrect`: `TypeOK`, which bounds the gas pool, the gas used and every receipt by
  the block's gas limit
- `AddedUp`: `ReceiptsAddUp`
- `HashesAnswered`: `BlockHashes`
- `GasPaid`: `GasIsPaid`, if no account without nonce and code has money stored
  (`NoStoredMoneyUnused`)

`GasAllotted` says that a transaction holds back its gas limit from the pool from
buying it to the receipt, so that pool, gas used and that limit never exceed
the block's together. `BlockHashes` rests on the assumption of `ConstantsOK`
that headers of different numbers have different hashes, a number being part of
what is hashed.

`GasIsPaid` compares sums over all accounts. The lemmas on sums show that the
fold of the model does not depend on an order and that changing one account
changes the sum by as much (`SumChanged`), by induction over the subsets of the
accounts. `Costs` has what is used of the price of gas. `MoneyInv` adds that a running
transaction started from a world with as much money as there is now. A
failed transaction goes back to it but for the accounts that show again what is stored for
them, and that is what they had then, nothing (`UndoneMoney`): this is where
`NoStoredMoneyUnused` is needed, and without it the theorem is false (see
`TxProcessing` above).

**`Induction`**: the library's induction theorems take a predicate as a parameter,
which the installed provers cannot instantiate. `SetInduction` and `SubsetInduction`
say the same of a set of numbers and a set of subsets, and follow from the
library's theorem on well-founded relations (`WFMin`). With them, what the recursive
functions of `UndoTo` and of the sum compute is proved for every journal and
every set of accounts.

Only model-checked: the liveness properties `CatchUp`, `AcceptedIsExecuted` and
`StopEnds`. They depend on fairness and thus on ENABLED, which the prover does
not handle. Every other property of a passing run is a theorem.

## Not modelled

- The deletion of destructed accounts: the code has none. `statedb.go:307` says
  that an account is marked for deletion, and the mark is kept until the block
  ends, when the account is committed like any other.
- A gas mismatch between a block and its header: `processor.go:166` logs it and
  nothing depends on it.
- What BLOCKHASH should answer for older ancestors: `apply.go:133` describes a
  cache of all of them, the code finds none but the parent; `BlockHashes` says
  only that no answer is wrong.
- Failing reads within `PikaStateDB`'s journal (`statedb.go:275`). `BlockTransactions`
  has reads that fail and transactions that are undone, with the coarser
  undoing of whole transactions; no property says what a failed read should do.
- Failing reads of codes and of headers as inputs of a block's outcome
  (`TxProcessing` has the latter within a transaction).
- Negative batch sizes and cache sizes of 0, which stop the executor from the
  first block on.
- Encodings, the LRU caches, methods without a caller (`SetAccount`, `SetStorage`,
  `GetReceipts`, `AccessList.Copy`, `AddPreimage`, ...), statistics, connecting and
  pooling, configuration, chain parameters, metrics and logging: they keep no
  state that anything above depends on.

## Plan

Done: `ChainState`, `BlockExecutor` with `BlockTransactions`, `Snapshots`,
`PikaStateDB` with the commit and the next block's reading, `TxProcessing` with
BLOCKHASH and `WorkerPool`, with proofs of all safety and action properties and of
both refinements.

Left, in this order:
1. The theorems on `BlockExecutor` with weaker hypotheses: `ReplicasAgree` for keys
   that expire but are not read afterwards, `Currency` for several executors that
   do not overlap.
2. Reads that fail in the middle of a transaction that reverts, in `PikaStateDB`.
