----------------------------- MODULE WorkerPool -----------------------------
(***************************************************************************)
(* The worker pool (pkg/worker/pool.go): workers that take tasks from a    *)
(* channel, callers that submit them, from inside a task, too, and callers *)
(* that stop the pool, all at the same time.                               *)
(*                                                                         *)
(* A Go select takes any of its ready cases.  A send goes to a worker that *)
(* is already waiting, if there is one, or into the buffer, which may have *)
(* no room at all (QueueSize 0).  A receive moves the first blocked        *)
(* sender's task into the buffer, or takes it when there is no buffer.     *)
(* Closing a channel ends every sender blocked on it, and a send on a      *)
(* closed channel, like closing it again, is a panic that ends the         *)
(* process.                                                                *)
(***************************************************************************)
EXTENDS Naturals, Sequences, SequencesExt

CONSTANTS
    Workers,
    Tasks,
    Stoppers,       \* callers of Stop or Shutdown
    QueueSize,      \* capacity of taskQueue
    Parent,         \* Parent[t]: the task that submits t, or External
    External        \* what is not a task

ASSUME ConstantsOK ==
    /\ QueueSize \in Nat
    /\ External \notin Tasks
    /\ Parent \in [Tasks -> Tasks \cup {External}]
    /\ Tasks \cap {"off", "select", "returned"} = {}

VARIABLES
    task,           \* how far each task is
    taskQueue,      \* the tasks in the channel's buffer
    senders,        \* the tasks whose SubmitWait is blocked, in order
    worker,         \* what each worker goroutine is doing
    cancelled,      \* p.ctx is done
    closed,         \* taskQueue is closed
    stopper,        \* where each caller of Stop or Shutdown is
    panicked        \* the process has ended

vars == <<task, taskQueue, senders, worker, cancelled, closed, stopper, panicked>>
chan == <<taskQueue, senders>>

TaskStates == {"new", "sending", "queued", "running", "executed", "failed", "rejected"}

TypeOK ==
    /\ task \in [Tasks -> TaskStates]
    /\ taskQueue \in Seq(Tasks)
    /\ Len(taskQueue) <= QueueSize
    /\ senders \in Seq(Tasks)
    /\ senders # <<>> => Len(taskQueue) = QueueSize
    /\ worker \in [Workers -> {"off", "select", "returned"} \cup Tasks]
    /\ cancelled \in BOOLEAN
    /\ closed \in BOOLEAN
    /\ stopper \in [Stoppers -> {"outside", "closing", "waiting", "returned"}]
    /\ panicked \in BOOLEAN

Init ==
    /\ task = [t \in Tasks |-> "new"]
    /\ taskQueue = <<>>
    /\ senders = <<>>
    /\ worker = [w \in Workers |-> "off"]
    /\ cancelled = FALSE
    /\ closed = FALSE
    /\ stopper = [s \in Stoppers |-> "outside"]
    /\ panicked = FALSE

Panic ==
    /\ panicked' = TRUE
    /\ UNCHANGED <<task, taskQueue, senders, worker, cancelled, closed, stopper>>

-----------------------------------------------------------------------------
(***************************************************************************)
(* Submitting.  Who submits task t is outside of the pool or a task that   *)
(* is being executed and not blocked in a SubmitWait itself.               *)
(***************************************************************************)
Blocked(t) == \E i \in 1..Len(senders) : Parent[senders[i]] = t

CanSubmit(t) ==
    /\ ~panicked
    /\ task[t] = "new"
    /\ Parent[t] # External => task[Parent[t]] = "running" /\ ~Blocked(Parent[t])

\* BUG: the capacity of the queue is not looked at
NeverFull == FALSE

Full == Len(taskQueue) = QueueSize

Send(t) ==
    /\ task' = [task EXCEPT ![t] = "queued"]
    /\ taskQueue' = Append(taskQueue, t)
    /\ UNCHANGED <<senders, worker, cancelled, closed, stopper, panicked>>

(***************************************************************************)
(* A worker in its loop may be waiting already or be on its way there.     *)
(***************************************************************************)
HandOver(t) ==
    /\ taskQueue = <<>>
    /\ senders = <<>>
    /\ \E w \in Workers :
          /\ worker[w] = "select"
          /\ worker' = [worker EXCEPT ![w] = t]
    /\ task' = [task EXCEPT ![t] = "running"]
    /\ UNCHANGED <<chan, cancelled, closed, stopper, panicked>>

Reject(t) ==
    /\ task' = [task EXCEPT ![t] = "rejected"]
    /\ UNCHANGED <<chan, worker, cancelled, closed, stopper, panicked>>

Submit(t) ==
    /\ CanSubmit(t)
    /\ \/ cancelled /\ Reject(t)
       \/ ~closed /\ HandOver(t)
       \/ ~closed /\ ~Full /\ Send(t)
       \/ ~closed /\ Full /\ Reject(t)
       \/ closed /\ Panic

(***************************************************************************)
(* SubmitWait returns an error when the context of its caller is done, at  *)
(* the call or (GiveUp) while it is blocked.  A blocked one ends, too,     *)
(* when its turn comes (Take) and when the pool is cancelled or closed.    *)
(***************************************************************************)
SubmitWait(t) ==
    /\ CanSubmit(t)
    /\ \/ Reject(t)
       \/ ~closed /\ HandOver(t)
       \/ ~closed /\ ~Full /\ Send(t)
       \/ closed /\ Panic
       \/ /\ ~cancelled /\ ~closed /\ Full
          /\ task' = [task EXCEPT ![t] = "sending"]
          /\ senders' = Append(senders, t)
          /\ UNCHANGED <<taskQueue, worker, cancelled, closed, stopper, panicked>>

GiveUp(t) ==
    /\ ~panicked
    /\ task[t] = "sending"
    /\ task' = [task EXCEPT ![t] = "rejected"]
    /\ \E i \in 1..Len(senders) : senders[i] = t /\ senders' = RemoveAt(senders, i)
    /\ UNCHANGED <<taskQueue, worker, cancelled, closed, stopper, panicked>>

-----------------------------------------------------------------------------
(***************************************************************************)
(* Start, and the loop of a worker.                                        *)
(***************************************************************************)
Start ==
    /\ ~panicked
    /\ \A w \in Workers : worker[w] = "off"
    /\ worker' = [w \in Workers |-> "select"]
    /\ UNCHANGED <<task, chan, cancelled, closed, stopper, panicked>>

Take(w) ==
    LET next    == IF senders = <<>> THEN <<>> ELSE <<Head(senders)>>
        offered == taskQueue \o next
    IN  /\ ~panicked
        /\ worker[w] = "select"
        /\ offered # <<>>
        /\ worker' = [worker EXCEPT ![w] = Head(offered)]
        /\ task' = [t \in Tasks |-> IF t = Head(offered) THEN "running"
                                    ELSE IF t \in Range(next) THEN "queued" ELSE task[t]]
        /\ taskQueue' = Tail(offered)
        /\ senders' = SubSeq(senders, Len(next) + 1, Len(senders))
        /\ UNCHANGED <<cancelled, closed, stopper, panicked>>

\* BUG: a task that fails ends its worker
LoopUnlessFailed(outcome) == IF outcome = "failed" THEN "returned" ELSE "select"

Loop(outcome) == "select"

Finish(w) ==
    /\ ~panicked
    /\ worker[w] \in Tasks
    /\ ~Blocked(worker[w])
    /\ \E outcome \in {"executed", "failed"} :
          /\ task' = [task EXCEPT ![worker[w]] = outcome]
          /\ worker' = [worker EXCEPT ![w] = Loop(outcome)]
    /\ UNCHANGED <<chan, cancelled, closed, stopper, panicked>>

\* BUG: the worker returns as soon as the queue is closed
ReturnsUndrained == cancelled \/ closed

\* BUG: the worker does not notice that the queue is closed
ReturnsCancelled == cancelled

Returns == cancelled \/ (closed /\ taskQueue = <<>>)

Return(w) ==
    /\ ~panicked
    /\ worker[w] = "select"
    /\ Returns
    /\ worker' = [worker EXCEPT ![w] = "returned"]
    /\ UNCHANGED <<task, chan, cancelled, closed, stopper, panicked>>

-----------------------------------------------------------------------------
(***************************************************************************)
(* Stop closes the queue and waits for the workers; Shutdown cancels the   *)
(* context first.  Both come after Start.                                  *)
(***************************************************************************)
CallStop(s) ==
    /\ ~panicked
    /\ stopper[s] = "outside"
    /\ \A w \in Workers : worker[w] # "off"
    /\ stopper' = [stopper EXCEPT ![s] = "closing"]
    /\ UNCHANGED <<task, chan, worker, cancelled, closed, panicked>>

CallShutdown(s) ==
    /\ ~panicked
    /\ stopper[s] = "outside"
    /\ \A w \in Workers : worker[w] # "off"
    /\ stopper' = [stopper EXCEPT ![s] = "closing"]
    /\ cancelled' = TRUE
    /\ task' = [t \in Tasks |-> IF task[t] = "sending" THEN "rejected" ELSE task[t]]
    /\ senders' = <<>>
    /\ UNCHANGED <<taskQueue, worker, closed, panicked>>

Close(s) ==
    /\ ~panicked
    /\ stopper[s] = "closing"
    /\ IF closed \/ senders # <<>>
       THEN Panic
       ELSE /\ closed' = TRUE
            /\ stopper' = [stopper EXCEPT ![s] = "waiting"]
            /\ UNCHANGED <<task, chan, worker, cancelled, panicked>>

\* BUG: the wait group counts one worker only
OneReturned == \E w \in Workers : worker[w] = "returned"

AllReturned == \A w \in Workers : worker[w] = "returned"

StopReturns(s) ==
    /\ ~panicked
    /\ stopper[s] = "waiting"
    /\ AllReturned
    /\ stopper' = [stopper EXCEPT ![s] = "returned"]
    /\ UNCHANGED <<task, chan, worker, cancelled, closed, panicked>>

-----------------------------------------------------------------------------
WorkerStep(w) == Take(w) \/ Finish(w) \/ Return(w)

StopperStep(s) == Close(s) \/ StopReturns(s)

Next ==
    \/ \E t \in Tasks : Submit(t) \/ SubmitWait(t) \/ GiveUp(t)
    \/ Start
    \/ \E w \in Workers : WorkerStep(w)
    \/ \E s \in Stoppers : CallStop(s) \/ CallShutdown(s) \/ StopperStep(s)

(***************************************************************************)
(* The Go scheduler runs every goroutine of the pool, and tasks end.       *)
(***************************************************************************)
Fairness ==
    /\ WF_vars(Start)
    /\ \A w \in Workers : WF_vars(WorkerStep(w))
    /\ \A s \in Stoppers : WF_vars(StopperStep(s))

Spec == Init /\ [][Next]_vars /\ Fairness
-----------------------------------------------------------------------------
(***************************************************************************)
(* Properties                                                              *)
(***************************************************************************)

(***************************************************************************)
(* "Stop gracefully stops the worker pool" (pool.go): when it returns, and *)
(* nobody has cancelled the context, every task the pool accepted, up to   *)
(* the moment the queue was closed, has been executed.                     *)
(***************************************************************************)
GracefulStop ==
    ~cancelled /\ (\E s \in Stoppers : stopper[s] = "returned")
        => \A t \in Tasks : task[t] \in {"new", "rejected", "executed", "failed"}

(***************************************************************************)
(* After Stop or Shutdown has returned no task is executed any more:       *)
(* Executor.Stop closes the Pika client next.                              *)
(***************************************************************************)
QuietAfterStop ==
    (\E s \in Stoppers : stopper[s] = "returned")
        => \A w \in Workers : worker[w] \notin Tasks

(***************************************************************************)
(* A task that was accepted is executed, unless the pool is shut down,     *)
(* whatever the tasks before it do: fail, or submit tasks themselves.      *)
(***************************************************************************)
AcceptedIsExecuted ==
    \A t \in Tasks :
        task[t] = "queued" ~> task[t] \in {"executed", "failed"} \/ cancelled \/ panicked

(***************************************************************************)
(* Stop and Shutdown return or, racing a submission or each other, panic:  *)
(* main does not hang after a signal.                                      *)
(***************************************************************************)
StopEnds ==
    \A s \in Stoppers : stopper[s] = "closing" ~> stopper[s] = "returned" \/ panicked
=============================================================================
