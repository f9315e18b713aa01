-------------------------- MODULE WorkerPoolProofs --------------------------
(***************************************************************************)
(* Proofs about WorkerPool, for any number of workers, tasks and callers   *)
(* of Stop and Shutdown, and any queue size.                               *)
(***************************************************************************)
EXTENDS WorkerPool, SequenceTheorems, TLAPS

-----------------------------------------------------------------------------
(***************************************************************************)
(* The inductive invariant behind GracefulStop.  No task is lost: what is  *)
(* queued, blocked or running is held by the buffer, a sender or a worker. *)
(* Without a cancellation a worker that has returned saw the queue closed  *)
(* and empty, and nothing enters a closed queue.                           *)
(***************************************************************************)
Held ==
    \A t \in Tasks :
        /\ task[t] = "queued" => \E i \in 1..Len(taskQueue) : taskQueue[i] = t
        /\ task[t] = "sending" => \E i \in 1..Len(senders) : senders[i] = t
        /\ task[t] = "running" => \E w \in Workers : worker[w] = t

ClosedToSenders == closed => senders = <<>>

StoppersWait ==
    \A s \in Stoppers :
        /\ stopper[s] \in {"waiting", "returned"} => closed
        /\ stopper[s] = "returned" => AllReturned

Drained == ~cancelled => \A w \in Workers : worker[w] = "returned" => closed /\ taskQueue = <<>>

Inv == TypeOK /\ Held /\ ClosedToSenders /\ StoppersWait /\ Drained

-----------------------------------------------------------------------------
(***************************************************************************)
(* Removing one element leaves the others in the sequence.                 *)
(***************************************************************************)
LEMMA RemoveAtKeeps ==
    ASSUME NEW S, NEW q \in Seq(S), NEW i \in 1..Len(q)
    PROVE  /\ RemoveAt(q, i) \in Seq(S)
           /\ \A j \in 1..Len(q) : j # i =>
                 \E l \in 1..Len(RemoveAt(q, i)) : RemoveAt(q, i)[l] = q[j]
<1> DEFINE a == SubSeq(q, 1, i - 1)
           b == SubSeq(q, i + 1, Len(q))
<1>1. a \in Seq(S) /\ Len(a) = i - 1 /\ \A j \in 1..(i - 1) : a[j] = q[j]
    OBVIOUS
<1>2. b \in Seq(S) /\ Len(b) = Len(q) - i /\ \A j \in 1..(Len(q) - i) : b[j] = q[i + j]
    OBVIOUS
<1>3. RemoveAt(q, i) = a \o b
    BY DEF RemoveAt
<1> HIDE DEF a, b
<1>4. /\ a \o b \in Seq(S)
      /\ Len(a \o b) = Len(q) - 1
      /\ \A l \in 1..(Len(q) - 1) : (a \o b)[l] = IF l <= i - 1 THEN a[l] ELSE b[l - (i - 1)]
    <2>1. Len(a) + Len(b) = Len(q) - 1
        BY <1>1, <1>2
    <2>2. /\ a \o b \in Seq(S)
          /\ Len(a \o b) = Len(a) + Len(b)
          /\ \A l \in 1..(Len(a) + Len(b)) :
                (a \o b)[l] = IF l <= Len(a) THEN a[l] ELSE b[l - Len(a)]
        BY <1>1, <1>2, ConcatProperties
    <2> QED BY <1>1, <2>1, <2>2
<1>5. ASSUME NEW j \in 1..Len(q), j # i
      PROVE  \E l \in 1..Len(a \o b) : (a \o b)[l] = q[j]
    <2>1. CASE j < i
        <3>1. j \in 1..(Len(q) - 1) /\ (a \o b)[j] = q[j]
            BY <1>1, <1>4, <2>1
        <3> QED BY <1>4, <3>1
    <2>2. CASE j > i
        <3>1. /\ j - 1 \in 1..(Len(q) - 1)
              /\ ~(j - 1 <= i - 1)
              /\ (j - 1) - (i - 1) = j - i
              /\ j - i \in 1..(Len(q) - i)
            BY <2>2
        <3>2. (a \o b)[j - 1] = b[(j - 1) - (i - 1)]
            BY <1>4, <3>1
        <3>3. b[j - i] = q[j]
            BY <1>2, <3>1
        <3> QED BY <1>4, <3>1, <3>2, <3>3
    <2> QED BY <1>5, <2>1, <2>2
<1> QED
    BY <1>3, <1>4, <1>5

LEMMA InitInv == Init => Inv
<1> SUFFICES ASSUME Init PROVE Inv
    OBVIOUS
<1>1. TypeOK
    <2>1. taskQueue \in Seq(Tasks) /\ senders \in Seq(Tasks) /\ Len(taskQueue) = 0
        BY EmptySeq DEF Init
    <2>2. Len(taskQueue) <= QueueSize
        BY <2>1, ConstantsOK
    <2> QED BY <2>1, <2>2 DEF Init, TypeOK, TaskStates
<1>2. Held
    BY DEF Init, Held
<1>3. ClosedToSenders /\ StoppersWait /\ Drained
    BY DEF Init, ClosedToSenders, StoppersWait, Drained
<1> QED
    BY <1>1, <1>2, <1>3 DEF Inv

(***************************************************************************)
(* A panic ends the process: the rest of the state stays what it was.      *)
(***************************************************************************)
LEMMA PanicInv == Inv /\ Panic => Inv'
BY DEF Panic, Inv, TypeOK, Held, ClosedToSenders, StoppersWait, Drained, AllReturned

(***************************************************************************)
(* Accepting a task puts it into the buffer, rejecting it keeps it out.    *)
(***************************************************************************)
LEMMA SendInv ==
    ASSUME Inv, NEW t \in Tasks, task[t] = "new", ~closed, ~Full, Send(t)
    PROVE  Inv'
<1>1. TypeOK
    BY DEF Inv
<1>2. /\ taskQueue' \in Seq(Tasks)
      /\ Len(taskQueue') = Len(taskQueue) + 1
      /\ \A i \in 1..Len(taskQueue) : taskQueue'[i] = taskQueue[i]
      /\ taskQueue'[Len(taskQueue) + 1] = t
    BY <1>1 DEF Send, TypeOK
<1>3. TypeOK'
    BY <1>1, <1>2, ConstantsOK DEF Send, Full, TypeOK, TaskStates
<1>4. Held'
    BY <1>1, <1>2 DEF Inv, Held, Send, TypeOK
<1>5. ClosedToSenders' /\ StoppersWait' /\ Drained'
    BY DEF Inv, ClosedToSenders, StoppersWait, Drained, AllReturned, Send
<1> QED
    BY <1>3, <1>4, <1>5 DEF Inv

LEMMA RejectInv ==
    ASSUME Inv, NEW t \in Tasks, task[t] = "new", Reject(t)
    PROVE  Inv'
BY DEF Inv, Reject, chan, TypeOK, TaskStates, Held, ClosedToSenders, StoppersWait, Drained,
       AllReturned

LEMMA HandOverInv ==
    ASSUME Inv, NEW t \in Tasks, task[t] = "new", ~closed, HandOver(t)
    PROVE  Inv'
<1>1. TypeOK
    BY DEF Inv
<1>2. PICK w \in Workers : worker[w] = "select" /\ worker' = [worker EXCEPT ![w] = t]
    BY DEF HandOver
<1>3. task' = [task EXCEPT ![t] = "running"]
    BY DEF HandOver
<1>4. UNCHANGED <<taskQueue, senders, cancelled, closed, stopper, panicked>>
    BY DEF HandOver, chan
<1>5. TypeOK'
    BY <1>1, <1>2, <1>3, <1>4 DEF TypeOK, TaskStates
<1>6. Held'
    <2>1. worker'[w] = t
        BY <1>1, <1>2 DEF TypeOK
    <2>2. ASSUME NEW r \in Tasks, task[r] = "running"
          PROVE  \E v \in Workers : worker'[v] = r
        <3>1. PICK v \in Workers : worker[v] = r
            BY <2>2 DEF Inv, Held
        <3>2. v # w
            BY <1>2, <3>1, ConstantsOK
        <3> QED BY <1>1, <1>2, <3>1, <3>2 DEF TypeOK
    <2>3. \A r \in Tasks : task'[r] = IF r = t THEN "running" ELSE task[r]
        BY <1>1, <1>3 DEF TypeOK
    <2> QED BY <1>4, <2>1, <2>2, <2>3 DEF Inv, Held
<1>7. \A v \in Workers : worker'[v] = "returned" => worker[v] = "returned"
    BY <1>1, <1>2, ConstantsOK DEF TypeOK
<1>8. ClosedToSenders' /\ StoppersWait' /\ Drained'
    <2>1. ~closed
        OBVIOUS
    <2> QED BY <1>4, <1>7, <2>1 DEF Inv, ClosedToSenders, StoppersWait, Drained
<1> QED
    BY <1>5, <1>6, <1>8 DEF Inv

LEMMA SubmitInv ==
    ASSUME Inv, NEW t \in Tasks, Submit(t)
    PROVE  Inv'
BY SendInv, HandOverInv, RejectInv, PanicInv DEF Submit, CanSubmit

LEMMA SubmitWaitInv ==
    ASSUME Inv, NEW t \in Tasks, SubmitWait(t)
    PROVE  Inv'
<1>1. TypeOK /\ task[t] = "new"
    BY DEF Inv, SubmitWait, CanSubmit
<1>2. CASE /\ ~cancelled /\ ~closed /\ Full
           /\ task' = [task EXCEPT ![t] = "sending"]
           /\ senders' = Append(senders, t)
           /\ UNCHANGED <<taskQueue, worker, cancelled, closed, stopper, panicked>>
    <2>1. /\ senders' \in Seq(Tasks)
          /\ Len(senders') = Len(senders) + 1
          /\ \A i \in 1..Len(senders) : senders'[i] = senders[i]
          /\ senders'[Len(senders) + 1] = t
        BY <1>1, <1>2 DEF TypeOK
    <2>2. TypeOK'
        BY <1>1, <1>2, <2>1 DEF Full, TypeOK, TaskStates
    <2>3. Held'
        BY <1>1, <1>2, <2>1 DEF Inv, Held, TypeOK
    <2>4. ClosedToSenders' /\ StoppersWait' /\ Drained'
        BY <1>2 DEF Inv, ClosedToSenders, StoppersWait, Drained, AllReturned
    <2> QED BY <2>2, <2>3, <2>4 DEF Inv
<1> QED
    BY <1>1, <1>2, SendInv, HandOverInv, RejectInv, PanicInv DEF SubmitWait

LEMMA GiveUpInv ==
    ASSUME Inv, NEW t \in Tasks, GiveUp(t)
    PROVE  Inv'
<1>1. TypeOK
    BY DEF Inv
<1>2. PICK i \in 1..Len(senders) : senders[i] = t /\ senders' = RemoveAt(senders, i)
    BY DEF GiveUp
<1>3. /\ senders' \in Seq(Tasks)
      /\ \A j \in 1..Len(senders) : j # i => \E l \in 1..Len(senders') : senders'[l] = senders[j]
    BY <1>1, <1>2, RemoveAtKeeps DEF TypeOK
<1>4. TypeOK'
    BY <1>1, <1>2, <1>3 DEF GiveUp, TypeOK, TaskStates
<1>5. Held'
    <2>1. UNCHANGED <<taskQueue, worker>>
        BY DEF GiveUp
    <2>2. ASSUME NEW r \in Tasks, r # t
          PROVE  task'[r] = task[r]
        BY <1>1, <2>2 DEF GiveUp, TypeOK
    <2>3. task'[t] = "rejected"
        BY <1>1 DEF GiveUp, TypeOK
    <2>4. ASSUME NEW r \in Tasks, r # t, task[r] = "sending"
          PROVE  \E l \in 1..Len(senders') : senders'[l] = r
        BY <1>2, <1>3, <2>4 DEF Inv, Held
    <2> QED BY <2>1, <2>2, <2>3, <2>4 DEF Inv, Held
<1>6. ClosedToSenders'
    BY <1>1, <1>2 DEF Inv, ClosedToSenders, GiveUp, TypeOK
<1>7. StoppersWait' /\ Drained'
    BY DEF Inv, StoppersWait, Drained, AllReturned, GiveUp
<1> QED
    BY <1>4, <1>5, <1>6, <1>7 DEF Inv

-----------------------------------------------------------------------------
(***************************************************************************)
(* The workers.                                                            *)
(***************************************************************************)
LEMMA StartInv ==
    ASSUME Inv, Start
    PROVE  Inv'
<1>1. TypeOK'
    BY DEF Inv, TypeOK, Start, chan
<1>2. \A t \in Tasks : task[t] # "running" \/ \E w \in Workers : worker'[w] = t
    BY ConstantsOK DEF Inv, Held, Start
<1> QED
    BY <1>1, <1>2 DEF Inv, Held, ClosedToSenders, StoppersWait, Drained, AllReturned, Start, chan

LEMMA TakeInv ==
    ASSUME Inv, NEW w \in Workers, Take(w)
    PROVE  Inv'
<1> DEFINE next == IF senders = <<>> THEN <<>> ELSE <<Head(senders)>>
           offered == taskQueue \o next
<1> USE ConstantsOK
<1>1. TypeOK /\ offered # <<>> /\ worker[w] = "select"
    BY DEF Inv, Take
<1>2. /\ next \in Seq(Tasks)
      /\ Len(next) = IF senders = <<>> THEN 0 ELSE 1
      /\ senders # <<>> => next[1] = senders[1]
      /\ Range(next) \subseteq Tasks
      /\ \A t \in Range(next) : senders # <<>> /\ t = senders[1]
      /\ senders # <<>> => senders[1] \in Range(next)
    BY <1>1 DEF TypeOK, Range
<1>3. /\ worker' = [worker EXCEPT ![w] = Head(offered)]
      /\ task' = [t \in Tasks |-> IF t = Head(offered) THEN "running"
                                  ELSE IF t \in Range(next) THEN "queued" ELSE task[t]]
      /\ taskQueue' = Tail(offered)
      /\ senders' = SubSeq(senders, Len(next) + 1, Len(senders))
      /\ UNCHANGED <<cancelled, closed, stopper, panicked>>
    BY DEF Take
<1> HIDE DEF next
<1>4. /\ offered \in Seq(Tasks)
      /\ Len(offered) = Len(taskQueue) + Len(next)
      /\ \A i \in 1..Len(taskQueue) : offered[i] = taskQueue[i]
      /\ senders # <<>> => offered[Len(taskQueue) + 1] = senders[1]
    <2>1. taskQueue \in Seq(Tasks)
        BY <1>1 DEF TypeOK
    <2>2. /\ offered \in Seq(Tasks)
          /\ Len(offered) = Len(taskQueue) + Len(next)
          /\ \A i \in 1..(Len(taskQueue) + Len(next)) :
                offered[i] = IF i <= Len(taskQueue) THEN taskQueue[i]
                             ELSE next[i - Len(taskQueue)]
        BY <1>2, <2>1, ConcatProperties
    <2> HIDE DEF offered
    <2>3. Len(taskQueue) \in Nat /\ Len(next) \in Nat
        BY <1>2, <2>1
    <2>4. \A i \in 1..Len(taskQueue) : offered[i] = taskQueue[i]
        BY <2>2, <2>3
    <2>5. ASSUME senders # <<>> PROVE offered[Len(taskQueue) + 1] = senders[1]
        <3>1. /\ Len(taskQueue) + 1 \in 1..(Len(taskQueue) + Len(next))
              /\ ~(Len(taskQueue) + 1 <= Len(taskQueue))
              /\ (Len(taskQueue) + 1) - Len(taskQueue) = 1
            BY <1>2, <2>3, <2>5
        <3>2. offered[Len(taskQueue) + 1] = next[(Len(taskQueue) + 1) - Len(taskQueue)]
            BY <2>2, <3>1
        <3> QED BY <1>2, <2>5, <3>1, <3>2
    <2> QED BY <2>2, <2>4, <2>5
<1> HIDE DEF offered
<1>5. /\ Head(offered) = offered[1] /\ offered[1] \in Tasks
      /\ taskQueue' \in Seq(Tasks)
      /\ Len(taskQueue') = Len(offered) - 1
      /\ \A i \in 2..Len(offered) : taskQueue'[i - 1] = offered[i]
    <2>1. /\ taskQueue' \in Seq(Tasks)
          /\ Len(taskQueue') = Len(offered) - 1
          /\ \A i \in 1..Len(taskQueue') : taskQueue'[i] = offered[i + 1]
        BY <1>1, <1>3, <1>4, HeadTailProperties
    <2>2. Len(offered) \in Nat
        BY <1>4
    <2>3. ASSUME NEW i \in 2..Len(offered)
          PROVE  taskQueue'[i - 1] = offered[i]
        <3>1. i - 1 \in 1..Len(taskQueue') /\ (i - 1) + 1 = i
            BY <2>1, <2>2
        <3> QED BY <2>1, <3>1
    <2>4. Head(offered) = offered[1] /\ offered[1] \in Tasks
        BY <1>1, <1>4
    <2> QED BY <2>1, <2>3, <2>4
<1>6. /\ senders' \in Seq(Tasks)
      /\ senders = <<>> => senders' = <<>>
      /\ senders # <<>> => /\ Len(senders') = Len(senders) - 1
                           /\ \A i \in 2..Len(senders) : senders'[i - 1] = senders[i]
    <2>1. CASE senders = <<>>
        <3>1. Len(next) = 0
            BY <1>2, <2>1
        <3>2. senders' = SubSeq(<<>>, 1, 0)
            BY <1>3, <2>1, <3>1
        <3>3. senders' = <<>>
            BY <3>2, SubSeqEmpty
        <3> QED BY <2>1, <3>3, EmptySeq
    <2>2. CASE senders # <<>>
        <3>1. senders' = SubSeq(senders, 2, Len(senders))
            BY <1>2, <1>3, <2>2
        <3>2. senders \in Seq(Tasks) /\ Len(senders) \in Nat
            BY <1>1 DEF TypeOK
        <3>3. senders' = Tail(senders)
            BY <2>2, <3>1, <3>2, TailIsSubSeq
        <3>4. /\ senders' \in Seq(Tasks)
              /\ Len(senders') = Len(senders) - 1
              /\ \A i \in 1..Len(senders') : senders'[i] = senders[i + 1]
            BY <2>2, <3>2, <3>3, HeadTailProperties
        <3>5. ASSUME NEW i \in 2..Len(senders)
              PROVE  senders'[i - 1] = senders[i]
            <4>1. i - 1 \in 1..Len(senders') /\ (i - 1) + 1 = i
                BY <3>2, <3>4
            <4> QED BY <3>4, <4>1
        <3> QED BY <2>2, <3>4, <3>5
    <2> QED BY <2>1, <2>2
<1>7. TypeOK'
    <2>1. Len(taskQueue) \in Nat /\ Len(senders) \in Nat /\ (senders # <<>> => Len(senders) > 0)
        BY <1>1 DEF TypeOK
    <2>2. Len(taskQueue') <= QueueSize
        BY <1>1, <1>2, <1>4, <1>5, <2>1 DEF TypeOK
    <2>3. senders' # <<>> => Len(taskQueue') = QueueSize
        BY <1>1, <1>2, <1>4, <1>5, <1>6, <2>1 DEF TypeOK
    <2>4. task' \in [Tasks -> TaskStates]
        BY <1>1, <1>3 DEF TypeOK, TaskStates
    <2>5. worker' \in [Workers -> {"off", "select", "returned"} \cup Tasks]
        BY <1>1, <1>3, <1>5 DEF TypeOK
    <2> QED BY <1>1, <1>3, <1>5, <1>6, <2>2, <2>3, <2>4, <2>5 DEF TypeOK
<1>8. ASSUME NEW t \in Tasks, task'[t] = "queued"
      PROVE  \E i \in 1..Len(taskQueue') : taskQueue'[i] = t
    <2>1. t # offered[1] /\ (t \in Range(next) \/ task[t] = "queued")
        BY <1>3, <1>5, <1>8
    <2>2. PICK i \in 1..Len(offered) : offered[i] = t
        <3>1. CASE t \in Range(next)
            <4>1. senders # <<>> /\ t = senders[1]
                BY <1>2, <3>1
            <4>2. Len(taskQueue) + 1 \in 1..Len(offered)
                BY <1>1, <1>2, <1>4, <4>1 DEF TypeOK
            <4> QED BY <1>4, <4>1, <4>2
        <3>2. CASE task[t] = "queued"
            <4>1. PICK i \in 1..Len(taskQueue) : taskQueue[i] = t
                BY <3>2 DEF Inv, Held
            <4>2. i \in 1..Len(offered)
                BY <1>1, <1>2, <1>4 DEF TypeOK
            <4> QED BY <1>4, <4>1, <4>2
        <3> QED BY <2>1, <3>1, <3>2
    <2>3. i \in 2..Len(offered)
        BY <2>1, <2>2, <1>4
    <2>4. i - 1 \in 1..Len(taskQueue') /\ taskQueue'[i - 1] = t
        BY <1>4, <1>5, <2>2, <2>3
    <2> QED BY <2>4
<1>9. ASSUME NEW t \in Tasks, task'[t] = "sending"
      PROVE  \E i \in 1..Len(senders') : senders'[i] = t
    <2>1. task[t] = "sending" /\ t \notin Range(next)
        BY <1>3, <1>9
    <2>2. PICK i \in 1..Len(senders) : senders[i] = t
        BY <2>1 DEF Inv, Held
    <2>3. i - 1 \in 1..Len(senders') /\ senders'[i - 1] = t
        BY <1>1, <1>2, <1>6, <2>1, <2>2 DEF TypeOK
    <2> QED BY <2>3
<1>10. ASSUME NEW t \in Tasks, task'[t] = "running"
       PROVE  \E v \in Workers : worker'[v] = t
    <2>1. CASE t = Head(offered)
        BY <1>1, <1>3, <2>1 DEF TypeOK
    <2>2. CASE t # Head(offered)
        <3>1. task[t] = "running"
            BY <1>3, <1>10, <2>2
        <3>2. PICK v \in Workers : worker[v] = t
            BY <3>1 DEF Inv, Held
        <3>3. v # w
            BY <1>1, <3>2
        <3> QED BY <1>1, <1>3, <3>2, <3>3 DEF TypeOK
    <2> QED BY <2>1, <2>2
<1>11. Held'
    BY <1>8, <1>9, <1>10 DEF Held
<1>12. ClosedToSenders'
    BY <1>3, <1>6 DEF Inv, ClosedToSenders
<1>13. StoppersWait'
    BY <1>1, <1>3 DEF Inv, StoppersWait, AllReturned
<1>14. Drained'
    <2>1. \A v \in Workers : worker'[v] = "returned" => worker[v] = "returned"
        BY <1>1, <1>3, <1>5 DEF TypeOK
    <2>2. closed /\ taskQueue = <<>> => offered = <<>>
        <3> SUFFICES ASSUME closed, taskQueue = <<>> PROVE Len(offered) = 0
            BY <1>4, EmptySeq
        <3>1. senders = <<>>
            BY DEF Inv, ClosedToSenders
        <3> QED BY <1>2, <1>4, <3>1, EmptySeq
    <2>3. UNCHANGED <<closed, cancelled>>
        BY <1>3
    <2> QED BY <1>1, <2>1, <2>2, <2>3 DEF Inv, Drained
<1> QED
    BY <1>7, <1>11, <1>12, <1>13, <1>14 DEF Inv

LEMMA FinishInv ==
    ASSUME Inv, NEW w \in Workers, Finish(w)
    PROVE  Inv'
<1>1. TypeOK /\ worker[w] \in Tasks
    BY DEF Inv, Finish
<1>2. PICK outcome \in {"executed", "failed"} :
          task' = [task EXCEPT ![worker[w]] = outcome]
    BY DEF Finish
<1>3. worker' = [worker EXCEPT ![w] = "select"]
    BY DEF Finish, Loop
<1>4. TypeOK'
    BY <1>1, <1>2, <1>3 DEF TypeOK, TaskStates, Finish, chan
<1>5. Held'
    BY <1>1, <1>2, <1>3 DEF Inv, Held, TypeOK, Finish, chan
<1>6. worker[w] # "returned"
    BY <1>1, ConstantsOK
<1>7. ClosedToSenders' /\ StoppersWait' /\ Drained'
    BY <1>1, <1>3, <1>6
    DEF Inv, TypeOK, ClosedToSenders, StoppersWait, Drained, AllReturned, Finish, chan
<1> QED
    BY <1>4, <1>5, <1>7 DEF Inv

LEMMA ReturnInv ==
    ASSUME Inv, NEW w \in Workers, Return(w)
    PROVE  Inv'
<1>1. TypeOK /\ worker[w] = "select"
    BY DEF Inv, Return
<1>2. TypeOK'
    BY <1>1 DEF TypeOK, Return, chan
<1>3. Held'
    BY <1>1, ConstantsOK DEF Inv, Held, TypeOK, Return, chan
<1>4. ClosedToSenders' /\ StoppersWait' /\ Drained'
    BY <1>1
    DEF Inv, TypeOK, ClosedToSenders, StoppersWait, Drained, AllReturned, Return, Returns, chan
<1> QED
    BY <1>2, <1>3, <1>4 DEF Inv

-----------------------------------------------------------------------------
(***************************************************************************)
(* The callers of Stop and Shutdown.                                       *)
(***************************************************************************)
LEMMA CallInv ==
    ASSUME Inv, NEW s \in Stoppers, CallStop(s) \/ CallShutdown(s)
    PROVE  Inv'
<1>1. TypeOK /\ stopper[s] = "outside" /\ stopper' = [stopper EXCEPT ![s] = "closing"]
    BY DEF Inv, CallStop, CallShutdown
<1>2. UNCHANGED <<taskQueue, worker, closed, panicked>>
    BY DEF CallStop, CallShutdown, chan
<1>3. \/ UNCHANGED <<task, senders, cancelled>>
      \/ /\ cancelled' = TRUE
         /\ task' = [t \in Tasks |-> IF task[t] = "sending" THEN "rejected" ELSE task[t]]
         /\ senders' = <<>>
    BY DEF CallStop, CallShutdown, chan
<1>4. TypeOK'
    <2>1. task' \in [Tasks -> TaskStates]
        BY <1>1, <1>3 DEF TypeOK, TaskStates
    <2>2. senders' \in Seq(Tasks) /\ (senders' = senders \/ senders' = <<>>)
        BY <1>1, <1>3, EmptySeq DEF TypeOK
    <2>3. cancelled' \in BOOLEAN
        BY <1>1, <1>3 DEF TypeOK
    <2> QED BY <1>1, <1>2, <2>1, <2>2, <2>3 DEF TypeOK
<1>5. Held'
    BY <1>2, <1>3 DEF Inv, Held
<1>6. ClosedToSenders' /\ Drained'
    BY <1>2, <1>3 DEF Inv, ClosedToSenders, Drained
<1>7. StoppersWait'
    BY <1>1, <1>2 DEF Inv, TypeOK, StoppersWait, AllReturned
<1> QED
    BY <1>4, <1>5, <1>6, <1>7 DEF Inv

LEMMA CloseInv ==
    ASSUME Inv, NEW s \in Stoppers, Close(s)
    PROVE  Inv'
<1>1. CASE /\ ~closed /\ senders = <<>>
           /\ closed' = TRUE
           /\ stopper' = [stopper EXCEPT ![s] = "waiting"]
           /\ UNCHANGED <<task, chan, worker, cancelled, panicked>>
    BY <1>1 DEF Inv, TypeOK, Held, ClosedToSenders, StoppersWait, Drained, AllReturned, chan
<1> QED
    BY <1>1, PanicInv DEF Close

LEMMA StopReturnsInv ==
    ASSUME Inv, NEW s \in Stoppers, StopReturns(s)
    PROVE  Inv'
BY DEF Inv, TypeOK, Held, ClosedToSenders, StoppersWait, Drained, AllReturned, StopReturns, chan

LEMMA NextInv == Inv /\ [Next]_vars => Inv'
<1> SUFFICES ASSUME Inv, [Next]_vars PROVE Inv'
    OBVIOUS
<1>1. CASE UNCHANGED vars
    BY <1>1 DEF vars, Inv, TypeOK, Held, ClosedToSenders, StoppersWait, Drained, AllReturned
<1> QED
    BY <1>1, SubmitInv, SubmitWaitInv, GiveUpInv, StartInv, TakeInv, FinishInv, ReturnInv,
       CallInv, CloseInv, StopReturnsInv
    DEF Next, WorkerStep, StopperStep

(***************************************************************************)
(* The invariant holds of every pool, with any submissions and stops.      *)
(***************************************************************************)
THEOREM Invariance == Spec => []Inv
BY InitInv, NextInv, PTL DEF Spec

(***************************************************************************)
(* The channel never holds more tasks than its capacity, and a submitter   *)
(* is blocked only while it is full (Submit, SubmitWait, pkg/worker).      *)
(***************************************************************************)
THEOREM TypeCorrect == Spec => []TypeOK
<1>1. Inv => TypeOK
    BY DEF Inv
<1> QED
    BY <1>1, Invariance, PTL

(***************************************************************************)
(* No task is executed once Stop or Shutdown has returned, whoever else    *)
(* stops the pool or submits at the same time (Stop, pkg/worker/pool.go).  *)
(***************************************************************************)
THEOREM Quiet == Spec => []QuietAfterStop
<1>1. Inv => QuietAfterStop
    BY ConstantsOK DEF Inv, StoppersWait, AllReturned, QuietAfterStop
<1> QED
    BY <1>1, Invariance, PTL

(***************************************************************************)
(* A pool with at least one worker, stopped without a cancellation, has    *)
(* executed every task it accepted when Stop returns.                      *)
(***************************************************************************)
THEOREM Graceful ==
    ASSUME Workers # {}
    PROVE  Spec => []GracefulStop
<1>1. Inv => GracefulStop
    <2> SUFFICES ASSUME Inv, ~cancelled, NEW s \in Stoppers, stopper[s] = "returned",
                        NEW t \in Tasks
                 PROVE  task[t] \in {"new", "rejected", "executed", "failed"}
        BY DEF GracefulStop
    <2>1. closed /\ senders = <<>> /\ AllReturned
        BY DEF Inv, StoppersWait, ClosedToSenders
    <2>2. taskQueue = <<>>
        BY <2>1 DEF Inv, Drained, AllReturned
    <2>3. task[t] \notin {"queued", "sending", "running"}
        BY <2>1, <2>2, ConstantsOK DEF Inv, Held, AllReturned
    <2> QED BY <2>3 DEF Inv, TypeOK, TaskStates
<1> QED
    BY <1>1, Invariance, PTL
=============================================================================
