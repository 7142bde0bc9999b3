-------------------------- MODULE TaskQueueProofs --------------------------
(***************************************************************************)
(* Proofs about TaskQueue, for any number of workers, tasks and callers    *)
(* and any configuration.  DeliveryInv says what a worker may be doing     *)
(* with the message it holds, LockInv how running, runLock and stateLock   *)
(* agree; both are inductive together with TypeOK.                         *)
(***************************************************************************)
EXTENDS TaskQueue, TLAPS

Holding == {"received", "awaiting", "extending", "deleting"}

\* A worker's message, the handler it awaits and what is known of the task.
WorkerInv ==
  \A w \in Workers :
    /\ current[w] \in Tasks <=> wpc[w] \in Holding
    /\ result[w] # "none" <=> wpc[w] \in {"awaiting", "extending"}
    /\ result[w] = "nil" => current[w] \in handled
    /\ wpc[w] = "deleting" => current[w] \in handled \cup Malformed
    /\ result[w] # "none" => current[w] \notin Malformed
    /\ current[w] \in Tasks => message[current[w]] # "unsent"

\* A message is on the queue only if its Submit call, or a producer elsewhere,
\* has sent it, and a Submit call still to send has not.
SubmitInv ==
  \A t \in Tasks :
    /\ submitted[t] \in {"none", "sending"} /\ t \notin Malformed => message[t] = "unsent"
    /\ submitted[t] \in {"sending", "ok"} => t \notin Malformed
    /\ submitted[t] = "ok" => message[t] # "unsent"

OrphanInv == \A t \in orphans : t \notin Malformed /\ message[t] # "unsent"

DeliveryInv == WorkerInv /\ SubmitInv /\ OrphanInv /\ DeletedOnlyHandled

LockInv ==
  /\ running <=> runLock = "open"
  /\ stateLock # None <=> runLock = "pending"
  /\ \A c \in Callers : stateLock = c <=> cpc[c] = "locking"
  /\ PausedMeansNotPolling
  /\ \A w \in Workers : wpc[w] = "blocked" => runLock # "open"

DrainInv == once = "drained" => \A w \in Workers : wpc[w] = "stopped"

-----------------------------------------------------------------------------
\* Every step of TaskQueue keeps each variable in its range.  A worker that
\* abandons a task must hold one for orphans to stay a set of tasks.
LEMMA TypeStep == TypeOK /\ WorkerInv /\ [Next]_vars => TypeOK'
<1> USE ConfigAssumption, NoneAssumption
    DEF TypeOK, Goto, sqsVars, taskVars, workerVars, controlVars, MessageStates,
        WorkerStates, ResultStates, CallerStates
<1> SUFFICES ASSUME TypeOK, WorkerInv, [Next]_vars PROVE TypeOK'
  OBVIOUS
<1>0. \A w \in Workers : wpc[w] \in Holding => current[w] \in Tasks
  BY DEF WorkerInv
<1>1. ASSUME NEW w \in Workers, WorkerStep(w) PROVE TypeOK'
  <2>1. CASE CheckShutdown(w)
    BY <2>1 DEF CheckShutdown
  <2>2. CASE RLock(w)
    BY <2>2 DEF RLock
  <2>3. CASE PollEmpty(w)
    BY <2>3 DEF PollEmpty
  <2>4. CASE PollError(w)
    BY <2>4 DEF PollError, HandOut
  <2>5. CASE SleepOver(w)
    BY <2>5 DEF SleepOver
  <2>6. ASSUME NEW t \in Tasks, Receive(w, t) PROVE TypeOK'
    BY <2>6 DEF Receive, HandOut
  <2>7. CASE RejectBody(w)
    BY <2>7 DEF RejectBody
  <2>8. CASE StartHandler(w)
    BY <1>0, <2>8 DEF Holding, StartHandler, LeaveTask
  <2>9. CASE AwaitShutdown(w)
    BY <1>0, <2>9 DEF Holding, AwaitShutdown, Abandon, LeaveTask
  <2>10. CASE AwaitNil(w)
    BY <2>10 DEF AwaitNil, LeaveTask
  <2>11. CASE AwaitErr(w)
    BY <1>0, <2>11 DEF Holding, AwaitErr, Abandon, LeaveTask
  <2>12. CASE AwaitTimeout(w)
    BY <1>0, <2>12 DEF Holding, AwaitTimeout, Abandon, LeaveTask
  <2>13. CASE ExtendOk(w)
    BY <1>0, <2>13 DEF Holding, ExtendOk, Abandon, LeaveTask
  <2>14. CASE ExtendError(w)
    BY <1>0, <2>14 DEF Holding, ExtendError, Abandon, LeaveTask
  <2>15. CASE DeleteApplied(w)
    BY <2>15, Zenon DEF DeleteApplied, AfterDelete
  <2>16. CASE DeleteMissed(w)
    BY <2>16 DEF DeleteMissed, AfterDelete
  <2> QED
    BY <1>1, <2>1, <2>2, <2>3, <2>4, <2>5, <2>6, <2>7, <2>8, <2>9, <2>10, <2>11,
       <2>12, <2>13, <2>14, <2>15, <2>16 DEF WorkerStep
<1>2. ASSUME NEW w \in Workers, NEW r \in {"nil", "err"}, HandlerReturns(w, r)
      PROVE TypeOK'
  <2>1. current[w] \in Tasks
    BY <1>2 DEF WorkerInv, HandlerReturns, Holding
  <2> QED
    BY <1>2, <2>1 DEF HandlerReturns
<1>3. ASSUME NEW c \in Callers, CallerStep(c) PROVE TypeOK'
  <2>0. ASSUME StartBody
        PROVE  /\ wpc' \in [Workers -> WorkerStates]
               /\ running' \in BOOLEAN
               /\ runLock' \in {"open", "pending", "locked"}
    <3>1. CASE running
      BY <2>0, <3>1 DEF StartBody
    <3>2. CASE ~running
      <4>1. OpenRunLock
        BY <2>0, <3>2 DEF StartBody
      <4> QED
        BY <4>1 DEF OpenRunLock
    <3> QED
      BY <3>1, <3>2
  <2>1. CASE Start(c)
    BY <2>0, <2>1 DEF Start
  <2>2. CASE PauseBegin(c)
    BY <2>2, Zenon DEF PauseBegin
  <2>3. CASE PauseEnd(c)
    BY <2>3 DEF PauseEnd
  <2>4. CASE ShutdownClose(c)
    BY <2>4, Zenon DEF ShutdownClose
  <2>5. CASE ShutdownStart(c)
    BY <2>0, <2>5 DEF ShutdownStart
  <2>6. CASE ShutdownReturn(c)
    BY <2>6 DEF ShutdownReturn
  <2> QED
    BY <1>3, <2>1, <2>2, <2>3, <2>4, <2>5, <2>6 DEF CallerStep
<1>4. ASSUME NEW t \in Tasks, TaskStep(t) PROVE TypeOK'
  BY <1>4 DEF TaskStep, SubmitCheck, SubmitSend, ForeignSend, Expire,
       OrphanReturns, Enqueue
<1>5. CASE Crash
  BY <1>5, Zenon DEF Crash, Idle, NewRunLock
<1>6. CASE UNCHANGED vars
  BY <1>6 DEF vars
<1> QED
  BY <1>1, <1>2, <1>3, <1>4, <1>5, <1>6 DEF Next

\* Every step preserves what DeliveryInv says of messages, workers and orphans.
LEMMA DeliveryStep == TypeOK /\ DeliveryInv /\ [Next]_vars => DeliveryInv'
<1> USE NoneAssumption, ConfigAssumption
    DEF TypeOK, DeliveryInv, WorkerInv, SubmitInv, OrphanInv, DeletedOnlyHandled, Holding,
        Goto, sqsVars, taskVars, workerVars, controlVars, MessageStates,
        WorkerStates, ResultStates, CallerStates
<1> SUFFICES ASSUME TypeOK, DeliveryInv, [Next]_vars PROVE DeliveryInv'
  OBVIOUS
<1>1. ASSUME NEW w \in Workers, WorkerStep(w) PROVE DeliveryInv'
  <2>1. CASE CheckShutdown(w)
    BY <2>1 DEF CheckShutdown
  <2>2. CASE RLock(w)
    BY <2>2 DEF RLock
  <2>3. CASE PollEmpty(w)
    BY <2>3 DEF PollEmpty
  <2>4. CASE PollError(w)
    BY <2>4 DEF PollError, HandOut
  <2>5. CASE SleepOver(w)
    BY <2>5 DEF SleepOver
  <2>6. ASSUME NEW t \in Tasks, Receive(w, t) PROVE DeliveryInv'
    BY <2>6 DEF Receive, HandOut
  <2>7. CASE RejectBody(w)
    BY <2>7 DEF RejectBody
  <2>8. CASE StartHandler(w)
    BY <2>8 DEF StartHandler, LeaveTask
  <2>9. CASE AwaitShutdown(w)
    BY <2>9 DEF AwaitShutdown, Abandon, LeaveTask
  <2>10. CASE AwaitNil(w)
    BY <2>10 DEF AwaitNil, LeaveTask
  <2>11. CASE AwaitErr(w)
    BY <2>11 DEF AwaitErr, Abandon, LeaveTask
  <2>12. CASE AwaitTimeout(w)
    BY <2>12 DEF AwaitTimeout, Abandon, LeaveTask
  <2>13. CASE ExtendOk(w)
    BY <2>13 DEF ExtendOk, Abandon, LeaveTask
  <2>14. CASE ExtendError(w)
    BY <2>14 DEF ExtendError, Abandon, LeaveTask
  <2>15. CASE DeleteApplied(w)
    BY <2>15 DEF DeleteApplied, AfterDelete
  <2>16. CASE DeleteMissed(w)
    BY <2>16 DEF DeleteMissed, AfterDelete
  <2> QED
    BY Zenon, <1>1, <2>1, <2>2, <2>3, <2>4, <2>5, <2>6, <2>7, <2>8, <2>9, <2>10, <2>11,
       <2>12, <2>13, <2>14, <2>15, <2>16 DEF WorkerStep
<1>2. ASSUME NEW w \in Workers, NEW r \in {"nil", "err"}, HandlerReturns(w, r)
      PROVE DeliveryInv'
  BY <1>2 DEF HandlerReturns
<1>3. ASSUME NEW c \in Callers, CallerStep(c) PROVE DeliveryInv'
  <2>0. ASSUME StartBody, UNCHANGED <<taskVars,
                                      current, result>>
        PROVE  DeliveryInv'
    <3>1. CASE running
      BY <2>0, <3>1 DEF StartBody
    <3>2. CASE ~running
      <4>1. OpenRunLock
        BY <2>0, <3>2 DEF StartBody
      <4> QED
        BY <2>0, <4>1 DEF OpenRunLock
    <3> QED
      BY <3>1, <3>2
  <2>1. CASE Start(c)
    BY <2>0, <2>1 DEF Start
  <2>2. CASE ShutdownStart(c)
    BY <2>0, <2>2 DEF ShutdownStart
  <2>3. CASE PauseBegin(c) \/ PauseEnd(c) \/ ShutdownClose(c) \/ ShutdownReturn(c)
    BY <2>3 DEF PauseBegin, PauseEnd, ShutdownClose, ShutdownReturn
  <2> QED
    BY <1>3, <2>1, <2>2, <2>3 DEF CallerStep
<1>4. ASSUME NEW t \in Tasks, TaskStep(t) PROVE DeliveryInv'
  <2>1. CASE SubmitCheck(t)
    BY <2>1 DEF SubmitCheck
  <2>2. CASE SubmitSend(t)
    BY <2>2 DEF SubmitSend, Enqueue
  <2>3. CASE ForeignSend(t)
    BY <2>3 DEF ForeignSend, Enqueue
  <2>4. CASE Expire(t)
    BY <2>4 DEF Expire
  <2>5. CASE OrphanReturns(t)
    BY <2>5 DEF OrphanReturns
  <2> QED
    BY <1>4, <2>1, <2>2, <2>3, <2>4, <2>5 DEF TaskStep
<1>5. CASE Crash
  BY <1>5 DEF Crash, Idle, NewRunLock
<1>6. CASE UNCHANGED vars
  BY <1>6 DEF vars
<1> QED
  BY <1>1, <1>2, <1>3, <1>4, <1>5, <1>6 DEF Next

LEMMA InitInv == Init => TypeOK /\ DeliveryInv
<1> SUFFICES ASSUME Init PROVE TypeOK /\ DeliveryInv
  OBVIOUS
<1> USE DEF Init, Idle
<1>1. running \in BOOLEAN /\ closed \in BOOLEAN
  BY ConfigAssumption, Zenon
<1>2. runLock \in {"open", "pending", "locked"}
  BY DEF NewRunLock
<1>3. TypeOK
  BY <1>1, <1>2 DEF TypeOK, MessageStates, WorkerStates, ResultStates, CallerStates
<1>4. DeliveryInv
  BY NoneAssumption DEF DeliveryInv, WorkerInv, SubmitInv, OrphanInv, DeletedOnlyHandled, Holding
<1> QED
  BY <1>3, <1>4

\* TypeOK and DeliveryInv hold in every reachable state of the processor.
THEOREM Invariance == Spec => [](TypeOK /\ DeliveryInv)
<1>1. TypeOK /\ DeliveryInv /\ [Next]_vars => (TypeOK /\ DeliveryInv)'
  BY TypeStep, DeliveryStep DEF DeliveryInv
<1> QED
  BY <1>1, InitInv, PTL DEF Spec

\* Every variable of the processor and of SQS stays in its range.
THEOREM TypeCorrect == Spec => []TypeOK
BY Invariance, PTL

\* taskWorker never deletes the message of a task that no handler completed, and
\* a task for which Submit returned nil is completed or still in the queue,
\* through any number of timeouts, stale receipts, shutdowns and crashes.
THEOREM NeverLost == Spec => []NoTaskLost
<1>1. TypeOK /\ DeliveryInv => NoTaskLost
  BY DEF TypeOK, DeliveryInv, SubmitInv, DeletedOnlyHandled, NoTaskLost, MessageStates
<1> QED
  BY <1>1, Invariance, PTL

-----------------------------------------------------------------------------
\* The processor implements the at-least-once queue: every step is a step of
\* AtLeastOnce on the queue status and the completed tasks, or leaves both.
THEOREM Refinement == Spec => ImplementsAtLeastOnce
<1>1. Init => Promise!Init
  BY DEF Init, Idle, Promise!Init, QueueStatus
<1>2. TypeOK /\ DeliveryInv /\ [Next]_vars => [Promise!Next]_<<QueueStatus, handled>>
  <2> SUFFICES ASSUME TypeOK, DeliveryInv, [Next]_vars
               PROVE  Promise!Next \/ UNCHANGED <<QueueStatus, handled>>
    OBVIOUS
  <2>1. ASSUME UNCHANGED <<message, handled>>
        PROVE  UNCHANGED <<QueueStatus, handled>>
    BY <2>1 DEF QueueStatus
  <2>2. ASSUME NEW t \in Tasks, message[t] \in {"visible", "inflight"},
               message' = [message EXCEPT ![t] = "visible"]
                 \/ message' = [message EXCEPT ![t] = "inflight"],
               UNCHANGED handled
        PROVE  UNCHANGED <<QueueStatus, handled>>
    BY <2>2 DEF QueueStatus, TypeOK, MessageStates
  <2>3. ASSUME NEW t \in Tasks, message[t] = "unsent", Enqueue(t), UNCHANGED handled
        PROVE  Promise!Send(t)
    BY <2>3, Zenon DEF QueueStatus, TypeOK, MessageStates, Enqueue, Promise!Send
  <2>4. ASSUME NEW t \in Tasks, t \notin Malformed, message[t] # "unsent",
               handled' = handled \cup {t}, UNCHANGED message
        PROVE  Promise!Complete(t)
    BY <2>4 DEF QueueStatus, Promise!Complete
  <2>5. ASSUME NEW w \in Workers, WorkerStep(w)
        PROVE  Promise!Next \/ UNCHANGED <<QueueStatus, handled>>
    <3>1. CASE DeleteApplied(w)
      <4>1. current[w] \in Tasks /\ current[w] \in handled \cup Malformed
            /\ message[current[w]] # "unsent"
        BY <3>1 DEF DeleteApplied, DeliveryInv, WorkerInv, Holding
      <4>2. CASE message[current[w]] = "deleted"
        BY <3>1, <4>1, <4>2 DEF DeleteApplied, AfterDelete, TypeOK, QueueStatus
      <4>3. CASE message[current[w]] # "deleted"
        BY <3>1, <4>1, <4>3, Zenon DEF DeleteApplied, AfterDelete, TypeOK, QueueStatus,
             MessageStates, Promise!Next, Promise!Remove
      <4> QED
        BY <4>2, <4>3
    <3>2. CASE PollError(w)
      BY <2>1, <2>2, <3>2 DEF PollError, HandOut, sqsVars, taskVars
    <3>3. ASSUME NEW t \in Tasks, Receive(w, t)
          PROVE  UNCHANGED <<QueueStatus, handled>>
      BY <2>2, <3>3, Zenon DEF Receive, HandOut
    <3> QED
      BY <2>1, <2>5, <3>1, <3>2, <3>3 DEF WorkerStep, CheckShutdown, RLock, PollEmpty,
         SleepOver, RejectBody, StartHandler, AwaitShutdown, AwaitNil, AwaitErr,
         AwaitTimeout, ExtendOk, ExtendError, DeleteMissed, AfterDelete,
         Abandon, Goto, sqsVars, taskVars
  <2>6. ASSUME NEW w \in Workers, NEW r \in {"nil", "err"}, HandlerReturns(w, r)
        PROVE  Promise!Next \/ UNCHANGED <<QueueStatus, handled>>
    <3>1. current[w] \in Tasks \ Malformed /\ message[current[w]] # "unsent"
      BY <2>6 DEF HandlerReturns, DeliveryInv, WorkerInv, Holding
    <3> QED
      BY <2>1, <2>4, <2>6, <3>1 DEF HandlerReturns, sqsVars, taskVars, Promise!Next
  <2>7. ASSUME NEW c \in Callers, CallerStep(c)
        PROVE  UNCHANGED <<QueueStatus, handled>>
    BY <2>1, <2>7 DEF CallerStep, Start, PauseBegin, PauseEnd, ShutdownClose,
         ShutdownStart, ShutdownReturn, sqsVars, taskVars
  <2>8. ASSUME NEW t \in Tasks, TaskStep(t)
        PROVE  Promise!Next \/ UNCHANGED <<QueueStatus, handled>>
    <3>1. CASE SubmitCheck(t)
      BY <2>1, <3>1 DEF SubmitCheck, sqsVars, taskVars
    <3>2. CASE SubmitSend(t)
      BY <2>1, <2>3, <3>2 DEF SubmitSend, DeliveryInv, SubmitInv, Promise!Next
    <3>3. CASE ForeignSend(t)
      BY <2>3, <3>3 DEF ForeignSend, Promise!Next
    <3>4. CASE Expire(t)
      BY <2>2, <3>4, Zenon DEF Expire
    <3>5. CASE OrphanReturns(t)
      BY <2>1, <2>4, <3>5 DEF OrphanReturns, DeliveryInv, OrphanInv, sqsVars,
         taskVars, Promise!Next
    <3> QED
      BY <2>8, <3>1, <3>2, <3>3, <3>4, <3>5 DEF TaskStep
  <2>9. CASE Crash \/ UNCHANGED vars
    BY <2>1, <2>9 DEF Crash, vars, sqsVars, taskVars
  <2> QED
    BY <2>5, <2>6, <2>7, <2>8, <2>9 DEF Next
<1> QED
  BY <1>1, <1>2, Invariance, PTL DEF Spec, ImplementsAtLeastOnce, Promise!Spec

-----------------------------------------------------------------------------
\* What a worker or task step does to the locks: nothing, and it lets a worker
\* into ReceiveMessage or into the wait for runLock only through RLock.
LEMMA OutsideLocks ==
  ASSUME TypeOK,
         \/ \E w \in Workers : WorkerStep(w)
         \/ \E w \in Workers, r \in {"nil", "err"} : HandlerReturns(w, r)
         \/ \E t \in Tasks : TaskStep(t)
  PROVE  /\ UNCHANGED controlVars
         /\ \A w \in Workers :
              /\ wpc'[w] = "polling" => wpc[w] = "polling" \/ runLock = "open"
              /\ wpc'[w] = "blocked" => wpc[w] = "blocked" \/ runLock # "open"
              /\ wpc[w] = "stopped" => wpc'[w] = "stopped"
<1> USE DEF TypeOK, WorkerStates, controlVars, workerVars, Goto
<1>1. ASSUME NEW w \in Workers, WorkerStep(w)
      PROVE  UNCHANGED controlVars /\ \E s \in WorkerStates :
               /\ wpc' = [wpc EXCEPT ![w] = s]
               /\ s = "polling" => wpc[w] = "polling" \/ runLock = "open"
               /\ s = "blocked" => wpc[w] = "blocked" \/ runLock # "open"
               /\ wpc[w] # "stopped"
  <2>1. CASE RLock(w)
    BY <2>1, Zenon DEF RLock
  <2>2. CASE CheckShutdown(w)
    BY <2>2, Zenon DEF CheckShutdown
  <2>3. CASE PollEmpty(w) \/ PollError(w) \/ SleepOver(w) \/ \E t \in Tasks : Receive(w, t)
    BY <2>3 DEF PollEmpty, PollError, SleepOver, Receive
  <2>4. CASE RejectBody(w) \/ StartHandler(w)
    BY <2>4 DEF RejectBody, StartHandler, LeaveTask
  <2>5. CASE AwaitShutdown(w) \/ AwaitNil(w) \/ AwaitErr(w) \/ AwaitTimeout(w)
    BY <2>5 DEF AwaitShutdown, AwaitNil, AwaitErr, AwaitTimeout, Abandon, LeaveTask
  <2>6. CASE ExtendOk(w) \/ ExtendError(w)
    BY <2>6 DEF ExtendOk, ExtendError, Abandon, LeaveTask
  <2>7. CASE DeleteApplied(w) \/ DeleteMissed(w)
    BY <2>7 DEF DeleteApplied, DeleteMissed, AfterDelete
  <2> QED
    BY <1>1, <2>1, <2>2, <2>3, <2>4, <2>5, <2>6, <2>7 DEF WorkerStep
<1>2. ASSUME NEW w \in Workers, NEW r \in {"nil", "err"}, HandlerReturns(w, r)
      PROVE  UNCHANGED <<controlVars, wpc>>
  BY <1>2 DEF HandlerReturns
<1>3. ASSUME NEW t \in Tasks, TaskStep(t)
      PROVE  UNCHANGED <<controlVars, wpc>>
  BY <1>3 DEF TaskStep, SubmitCheck, SubmitSend, ForeignSend, Expire, OrphanReturns
<1>4. ASSUME NEW w \in Workers, WorkerStep(w)
      PROVE  /\ UNCHANGED controlVars
             /\ \A v \in Workers :
                  /\ wpc'[v] = "polling" => wpc[v] = "polling" \/ runLock = "open"
                  /\ wpc'[v] = "blocked" => wpc[v] = "blocked" \/ runLock # "open"
                  /\ wpc[v] = "stopped" => wpc'[v] = "stopped"
  BY <1>1, <1>4
<1> QED
  BY <1>2, <1>3, <1>4

\* The body of Start leaves the processor running with runLock open, and stops
\* nobody.
LEMMA StartOpens ==
  ASSUME TypeOK, LockInv, StartBody
  PROVE  /\ running' = TRUE /\ runLock' = "open" /\ stateLock = None
         /\ \A w \in Workers : /\ wpc'[w] # "blocked"
                               /\ wpc[w] = "stopped" => wpc'[w] = "stopped"
<1>1. CASE running
  BY <1>1 DEF TypeOK, LockInv, StartBody, WorkerStates
<1>2. CASE ~running
  <2>1. OpenRunLock /\ stateLock = None
    BY <1>2 DEF StartBody
  <2> QED
    BY <2>1 DEF OpenRunLock, TypeOK, WorkerStates
<1> QED
  BY <1>1, <1>2, Zenon

\* running, runLock, stateLock and the workers' reads of runLock stay in step.
LEMMA LockStep == TypeOK /\ LockInv /\ [Next]_vars => LockInv'
<1> USE NoneAssumption, ConfigAssumption DEF LockInv, PausedMeansNotPolling
<1> SUFFICES ASSUME TypeOK, LockInv, [Next]_vars PROVE LockInv'
  OBVIOUS
<1>1. ASSUME \/ \E w \in Workers : WorkerStep(w)
             \/ \E w \in Workers, r \in {"nil", "err"} : HandlerReturns(w, r)
             \/ \E t \in Tasks : TaskStep(t)
      PROVE  LockInv'
  BY <1>1, OutsideLocks DEF controlVars
<1>2. ASSUME NEW c \in Callers, CallerStep(c) PROVE LockInv'
  <2> USE DEF TypeOK, CallerStates, workerVars
  <2>1. CASE Start(c)
    BY <2>1, StartOpens, Zenon DEF Start
  <2>2. CASE ShutdownStart(c)
    BY <2>2, StartOpens, Zenon DEF ShutdownStart
  <2>3. CASE PauseBegin(c)
    BY <2>3 DEF PauseBegin
  <2>4. CASE PauseEnd(c)
    BY <2>4 DEF PauseEnd
  <2>5. CASE ShutdownClose(c)
    BY <2>5 DEF ShutdownClose
  <2>6. CASE ShutdownReturn(c)
    BY <2>6 DEF ShutdownReturn
  <2> QED
    BY <1>2, <2>1, <2>2, <2>3, <2>4, <2>5, <2>6 DEF CallerStep
<1>3. CASE Crash
  BY <1>3, Zenon DEF Crash, Idle, NewRunLock
<1>4. CASE UNCHANGED vars
  BY <1>4 DEF vars, controlVars, workerVars
<1> QED
  BY <1>1, <1>2, <1>3, <1>4 DEF Next

\* Nothing brings a stopped worker back but a new process.
LEMMA DrainStep == TypeOK /\ LockInv /\ DrainInv /\ [Next]_vars => DrainInv'
<1> USE DEF DrainInv
<1> SUFFICES ASSUME TypeOK, LockInv, DrainInv, [Next]_vars PROVE DrainInv'
  OBVIOUS
<1>1. ASSUME \/ \E w \in Workers : WorkerStep(w)
             \/ \E w \in Workers, r \in {"nil", "err"} : HandlerReturns(w, r)
             \/ \E t \in Tasks : TaskStep(t)
      PROVE  DrainInv'
  BY <1>1, OutsideLocks DEF controlVars
<1>2. ASSUME NEW c \in Callers, CallerStep(c) PROVE DrainInv'
  <2> USE DEF TypeOK, workerVars
  <2>1. CASE Start(c)
    BY <2>1, StartOpens, Zenon DEF Start
  <2>2. CASE ShutdownStart(c)
    BY <2>2, StartOpens, Zenon DEF ShutdownStart
  <2>3. CASE PauseBegin(c) \/ PauseEnd(c)
    BY <2>3 DEF PauseBegin, PauseEnd
  <2>4. CASE ShutdownClose(c)
    BY <2>4 DEF ShutdownClose
  <2>5. CASE ShutdownReturn(c)
    BY <2>5 DEF ShutdownReturn
  <2> QED
    BY <1>2, <2>1, <2>2, <2>3, <2>4, <2>5 DEF CallerStep
<1>3. CASE Crash
  BY <1>3 DEF Crash
<1>4. CASE UNCHANGED vars
  BY <1>4 DEF vars, controlVars, workerVars
<1> QED
  BY <1>1, <1>2, <1>3, <1>4 DEF Next

\* newQueue leaves the locks as LockInv wants them, paused or not.
LEMMA InitLocks == Init => LockInv /\ DrainInv
<1> SUFFICES ASSUME Init PROVE LockInv /\ DrainInv
  OBVIOUS
<1>1. /\ stateLock = None
      /\ \A c \in Callers : cpc[c] = "idle" /\ stateLock # c
      /\ \A w \in Workers : wpc[w] = "check"
      /\ once = "unused"
  BY NoneAssumption DEF Init, Idle
<1>2. (running <=> runLock = "open") /\ runLock # "pending"
  <2>1. CASE PausedStart
    BY <2>1, Zenon DEF Init, NewRunLock
  <2>2. CASE ~PausedStart
    BY <2>2, Zenon DEF Init, NewRunLock
  <2> QED
    BY <2>1, <2>2
<1> QED
  BY <1>1, <1>2 DEF LockInv, PausedMeansNotPolling, DrainInv

\* The locks of Start, Pause and Shutdown and the drained state, in every
\* reachable state.
THEOREM LockInvariance == Spec => [](LockInv /\ DrainInv)
<1>1. TypeOK /\ LockInv /\ DrainInv /\ [Next]_vars => (LockInv /\ DrainInv)'
  BY LockStep, DrainStep
<1> QED
  BY <1>1, InitLocks, TypeCorrect, PTL DEF Spec

\* Between the return of Pause and the next Start no worker of any number polls.
THEOREM PauseStopsPolling == Spec => []PausedMeansNotPolling
<1>1. LockInv => PausedMeansNotPolling
  BY DEF LockInv
<1> QED
  BY <1>1, LockInvariance, PTL

\* Start never unlocks an unlocked runLock, whoever called Start, Pause and
\* Shutdown in whatever order before it.
THEOREM UnlockIsSafe == Spec => []UnlockOnlyLocked
<1>1. TypeOK /\ LockInv => UnlockOnlyLocked
  BY DEF TypeOK, LockInv, UnlockOnlyLocked
<1> QED
  BY <1>1, LockInvariance, TypeCorrect, PTL

\* A worker waits for runLock only while a Pause is in force.
THEOREM BlockedImpliesPaused == Spec => []BlockedOnlyWhenPaused
<1>1. TypeOK /\ LockInv => BlockedOnlyWhenPaused
  BY DEF TypeOK, LockInv, BlockedOnlyWhenPaused
<1> QED
  BY <1>1, LockInvariance, TypeCorrect, PTL

\* A drained processor takes no task again, for any number of workers and of
\* later calls of Start and Pause.
THEOREM DrainedForGood == Spec => []DrainedStaysDrained
<1>1. TypeOK /\ DeliveryInv /\ DrainInv => DrainedStaysDrained
  BY Zenon DEF TypeOK, DeliveryInv, WorkerInv, DrainInv, DrainedStaysDrained, Holding,
         ResultStates
<1> QED
  BY <1>1, LockInvariance, Invariance, PTL
=============================================================================
