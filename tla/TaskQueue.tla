----------------------------- MODULE TaskQueue -----------------------------
(***************************************************************************)
(* The SQS task processor (taskqueue/sqs/queue.go): its task workers, the  *)
(* handler goroutines they start, the callers of Submit, Start, Pause and  *)
(* Shutdown, and the SQS queue behind them.                                *)
(*                                                                         *)
(* A receipt handle matters only in that SQS honours the one of the most   *)
(* recent receive, so `latest' records which worker holds that one.  Time  *)
(* is left out here: a visibility timeout may expire at any moment and the *)
(* keep-alive timer may fire at any moment (VisibilityTimer adds time).    *)
(* A handler goroutine whose processTask has returned is an orphan: its    *)
(* context is cancelled and nobody reads its result.                       *)
(***************************************************************************)
EXTENDS Naturals

CONSTANTS
  Workers,                     \* task worker goroutines, TaskConcurrency many
  Tasks,                       \* messages that may travel through the queue
  Malformed,                   \* those whose body is nil or does not unmarshal
  Callers,                     \* goroutines that call Start, Pause, Shutdown
  PausedStart,                 \* config.PausedStart
  VisibilityExtensionEnabled,  \* config.VisibilityExtensionEnabled
  MaxVisibilityExtensions,     \* config.MaxVisibilityExtensions
  MayCrash,                    \* whether the process may die and be restarted
  None

ASSUME ConfigAssumption ==
  /\ Malformed \subseteq Tasks
  /\ PausedStart \in BOOLEAN
  /\ VisibilityExtensionEnabled \in BOOLEAN
  /\ MaxVisibilityExtensions \in Nat
  /\ MayCrash \in BOOLEAN

ASSUME NoneAssumption ==
  None \notin Workers \cup Tasks \cup Callers

VARIABLES
  message,    \* SQS: where each message is
  latest,     \* SQS: the worker that holds the last receipt handle issued
  submitted,  \* progress of the Submit call of each task
  handled,    \* history: tasks for which some handler has returned nil
  orphans,    \* tasks with a running handler whose processTask has returned
  wpc,        \* control state of each task worker
  current,    \* the message a worker has received
  result,     \* the handler goroutine of the worker's processTask
  ext,        \* visibility extensions made by the worker's processTask
  running,    \* queue.running
  runLock,    \* queue.runLock as its writer sees it
  stateLock,  \* the caller that holds queue.stateLock
  closed,     \* whether shutdownCh is closed
  once,       \* queue.shutdownOnce
  cpc         \* control state of each caller

sqsVars     == <<message, latest>>
taskVars    == <<sqsVars, submitted, handled, orphans>>
workerVars  == <<wpc, current, result, ext>>
controlVars == <<running, runLock, stateLock, closed, once, cpc>>
vars == <<taskVars, workerVars, controlVars>>

MessageStates == {"unsent", "visible", "inflight", "deleted"}
WorkerStates  == {"check", "rlock", "blocked", "polling", "sleep", "received",
                  "awaiting", "extending", "deleting", "stopped"}
ResultStates  == {"none", "running", "nil", "err"}
CallerStates  == {"idle", "locking", "starting", "draining", "onceWait"}

TypeOK ==
  /\ message \in [Tasks -> MessageStates]
  /\ latest \in [Tasks -> Workers \cup {None}]
  /\ submitted \in [Tasks -> {"none", "sending", "ok", "error"}]
  /\ handled \subseteq Tasks
  /\ orphans \subseteq Tasks
  /\ wpc \in [Workers -> WorkerStates]
  /\ current \in [Workers -> Tasks \cup {None}]
  /\ result \in [Workers -> ResultStates]
  /\ ext \in [Workers -> Nat]
  /\ running \in BOOLEAN
  /\ runLock \in {"open", "pending", "locked"}
  /\ stateLock \in Callers \cup {None}
  /\ closed \in BOOLEAN
  /\ once \in {"unused", "active", "drained", "timedOut"}
  /\ cpc \in [Callers -> CallerStates]

(***************************************************************************)
(* newQueue: a paused start takes runLock before any worker exists; every  *)
(* worker starts at the head of its loop.                                  *)
(***************************************************************************)
Idle(S, state) == [x \in S |-> state]
NewRunLock == IF PausedStart THEN "locked" ELSE "open"

Init ==
  /\ message = Idle(Tasks, "unsent")
  /\ latest = Idle(Tasks, None)
  /\ submitted = Idle(Tasks, "none")
  /\ handled = {}
  /\ orphans = {}
  /\ wpc = Idle(Workers, "check")
  /\ current = Idle(Workers, None)
  /\ result = Idle(Workers, "none")
  /\ ext = Idle(Workers, 0)
  /\ running = ~PausedStart
  /\ runLock = NewRunLock
  /\ stateLock = None
  /\ closed = FALSE
  /\ once = "unused"
  /\ cpc = Idle(Callers, "idle")

-----------------------------------------------------------------------------
(***************************************************************************)
(* Submit.  The shutdown check and SendMessage are two steps.  marshalTask *)
(* refuses what Validate refuses, so a malformed message comes only from   *)
(* another producer.                                                       *)
(***************************************************************************)
Enqueue(t) == message' = [message EXCEPT ![t] = "visible"]

SubmitCheck(t) ==
  /\ submitted[t] = "none"
  /\ submitted' = [submitted EXCEPT
       ![t] = IF closed \/ t \in Malformed THEN "error" ELSE "sending"]
  /\ UNCHANGED <<sqsVars, handled, orphans, workerVars, controlVars>>

SubmitSend(t) ==
  /\ submitted[t] = "sending"
  /\ \/ /\ Enqueue(t)
        /\ submitted' = [submitted EXCEPT ![t] = "ok"]
     \/ /\ Enqueue(t) \/ UNCHANGED message       \* the response may be lost
        /\ submitted' = [submitted EXCEPT ![t] = "error"]
  /\ UNCHANGED <<latest, handled, orphans, workerVars, controlVars>>

\* External: another producer of the same queue.
ForeignSend(t) ==
  /\ t \in Malformed
  /\ message[t] = "unsent"
  /\ Enqueue(t)
  /\ UNCHANGED <<latest, submitted, handled, orphans, workerVars, controlVars>>

\* External: the visibility timeout of a message in flight expires.
Expire(t) ==
  /\ message[t] = "inflight"
  /\ message' = [message EXCEPT ![t] = "visible"]
  /\ UNCHANGED <<latest, submitted, handled, orphans, workerVars, controlVars>>

-----------------------------------------------------------------------------
(***************************************************************************)
(* taskWorker: the loop up to the receive.  The check of shutdownCh and    *)
(* RLock are two steps.  A pending or held write lock blocks new readers.  *)
(***************************************************************************)
Goto(w, state) ==
  /\ wpc' = [wpc EXCEPT ![w] = state]
  /\ UNCHANGED <<taskVars, current, result, ext, controlVars>>

CheckShutdown(w) ==
  /\ wpc[w] = "check"
  /\ Goto(w, IF closed THEN "stopped" ELSE "rlock")

\* Variant: no lock is taken around ReceiveMessage.
RLockMissing(w) ==
  /\ wpc[w] = "rlock"
  /\ Goto(w, "polling")

\* Variant: a lock that lets readers in while a writer waits.
RLockBarging(w) ==
  /\ wpc[w] = "rlock"
  /\ Goto(w, IF runLock = "locked" THEN "blocked" ELSE "polling")

RLock(w) ==
  /\ wpc[w] = "rlock"
  /\ Goto(w, IF runLock = "open" THEN "polling" ELSE "blocked")

\* SQS hands out a visible message: it is in flight, under a new receipt.
HandOut(t, holder) ==
  /\ message[t] = "visible"
  /\ message' = [message EXCEPT ![t] = "inflight"]
  /\ latest' = [latest EXCEPT ![t] = holder]

Receive(w, t) ==
  /\ wpc[w] = "polling"
  /\ HandOut(t, w)
  /\ wpc' = [wpc EXCEPT ![w] = "received"]
  /\ current' = [current EXCEPT ![w] = t]
  /\ UNCHANGED <<submitted, handled, orphans, result, ext, controlVars>>

\* The long poll ends without a message.
PollEmpty(w) ==
  /\ wpc[w] = "polling"
  /\ Goto(w, "check")

\* The receive fails; SQS may have handed out a message nobody will see.
PollError(w) ==
  /\ wpc[w] = "polling"
  /\ (\E t \in Tasks : HandOut(t, None)) \/ UNCHANGED sqsVars
  /\ wpc' = [wpc EXCEPT ![w] = "sleep"]
  /\ UNCHANGED <<submitted, handled, orphans, current, result, ext, controlVars>>

SleepOver(w) ==
  /\ wpc[w] = "sleep"
  /\ Goto(w, "check")

-----------------------------------------------------------------------------
(***************************************************************************)
(* taskWorker and processTask after the receive.  When processTask returns *)
(* its context is cancelled; a handler still running becomes an orphan,    *)
(* and one that has already returned stays blocked on its result channel.  *)
(***************************************************************************)
LeaveTask(w, next) ==
  /\ wpc' = [wpc EXCEPT ![w] = next]
  /\ result' = [result EXCEPT ![w] = "none"]
  /\ ext' = [ext EXCEPT ![w] = 0]

\* The message is left on the queue, to become visible again.
Abandon(w) ==
  /\ LeaveTask(w, "check")
  /\ orphans' = IF result[w] = "running" THEN orphans \cup {current[w]} ELSE orphans
  /\ current' = [current EXCEPT ![w] = None]
  /\ UNCHANGED <<sqsVars, submitted, handled, controlVars>>

\* Variant: every message takes the path of a message that does not decode.
RejectAnyBody(w) ==
  /\ wpc[w] = "received"
  /\ Goto(w, "deleting")

\* A message that cannot be decoded goes straight to deleteMessage.
RejectBody(w) ==
  /\ wpc[w] = "received"
  /\ current[w] \in Malformed
  /\ Goto(w, "deleting")

\* The handler goroutine is started; with no extension allowed the loop of
\* processTask is never entered and the task is given up at once.
StartHandler(w) ==
  /\ wpc[w] = "received"
  /\ current[w] \notin Malformed
  /\ IF MaxVisibilityExtensions > 0
     THEN /\ wpc' = [wpc EXCEPT ![w] = "awaiting"]
          /\ result' = [result EXCEPT ![w] = "running"]
          /\ UNCHANGED <<orphans, current, ext>>
     ELSE /\ LeaveTask(w, "check")
          /\ orphans' = orphans \cup {current[w]}
          /\ current' = [current EXCEPT ![w] = None]
  /\ UNCHANGED <<sqsVars, submitted, handled, controlVars>>

\* External: the handler of the task the worker awaits returns.
HandlerReturns(w, r) ==
  /\ result[w] = "running"
  /\ result' = [result EXCEPT ![w] = r]
  /\ handled' = IF r = "nil" THEN handled \cup {current[w]} ELSE handled
  /\ UNCHANGED <<sqsVars, submitted, orphans, wpc, current, ext, controlVars>>

\* External: an orphan returns.  Several orphans of one task are one element
\* of the set, so the task may or may not have another.
OrphanReturns(t) ==
  /\ t \in orphans
  /\ handled' \in {handled, handled \cup {t}}
  /\ orphans' \in {orphans, orphans \ {t}}
  /\ UNCHANGED <<sqsVars, submitted, workerVars, controlVars>>

AwaitShutdown(w) ==
  /\ wpc[w] = "awaiting"
  /\ closed
  /\ Abandon(w)

\* Variant: the message of a finished task is not deleted.
AwaitNilKeeps(w) ==
  /\ wpc[w] = "awaiting"
  /\ result[w] = "nil"
  /\ Abandon(w)

AwaitNil(w) ==
  /\ wpc[w] = "awaiting"
  /\ result[w] = "nil"
  /\ LeaveTask(w, "deleting")
  /\ UNCHANGED <<taskVars, current, controlVars>>

\* Variant: the message is deleted although the handler failed.
AwaitErrDeletes(w) ==
  /\ wpc[w] = "awaiting"
  /\ result[w] = "err"
  /\ LeaveTask(w, "deleting")
  /\ UNCHANGED <<taskVars, current, controlVars>>

AwaitErr(w) ==
  /\ wpc[w] = "awaiting"
  /\ result[w] = "err"
  /\ Abandon(w)

\* time.After fires: without extensions the handler has timed out.
AwaitTimeout(w) ==
  /\ wpc[w] = "awaiting"
  /\ IF VisibilityExtensionEnabled
     THEN Goto(w, "extending")
     ELSE Abandon(w)

\* ChangeMessageVisibility can succeed only with the current receipt of a
\* message in flight.  After the last extension the task is given up.
ExtendOk(w) ==
  /\ wpc[w] = "extending"
  /\ message[current[w]] = "inflight"
  /\ latest[current[w]] = w
  /\ IF ext[w] + 1 < MaxVisibilityExtensions
     THEN /\ wpc' = [wpc EXCEPT ![w] = "awaiting"]
          /\ ext' = [ext EXCEPT ![w] = @ + 1]
          /\ UNCHANGED <<taskVars, current, result, controlVars>>
     ELSE Abandon(w)

ExtendError(w) ==
  /\ wpc[w] = "extending"
  /\ Abandon(w)

\* deleteMessage.  SQS ignores a receipt that is not the latest, and a call
\* that fails may or may not have been applied; the worker goes on either way.
AfterDelete(w) ==
  /\ wpc' = [wpc EXCEPT ![w] = "check"]
  /\ current' = [current EXCEPT ![w] = None]
  /\ UNCHANGED <<latest, submitted, handled, orphans, result, ext, controlVars>>

DeleteApplied(w) ==
  /\ wpc[w] = "deleting"
  /\ latest[current[w]] = w
  /\ message' = [message EXCEPT ![current[w]] = "deleted"]
  /\ AfterDelete(w)

DeleteMissed(w) ==
  /\ wpc[w] = "deleting"
  /\ UNCHANGED message
  /\ AfterDelete(w)

-----------------------------------------------------------------------------
(***************************************************************************)
(* Start, Pause and Shutdown.  stateLock is held across the whole of Start *)
(* and Pause.  Pause announces itself on runLock, which stops new readers, *)
(* and then waits for the polling workers with stateLock held.  Unlock     *)
(* admits every reader that is blocked.                                    *)
(***************************************************************************)
OpenRunLock ==
  /\ running' = TRUE
  /\ runLock' = "open"
  /\ wpc' = [w \in Workers |-> IF wpc[w] = "blocked" THEN "polling" ELSE wpc[w]]

StartBody ==
  /\ stateLock = None
  /\ IF running THEN UNCHANGED <<running, runLock, wpc>> ELSE OpenRunLock

Start(c) ==
  /\ cpc[c] = "idle"
  /\ StartBody
  /\ UNCHANGED <<taskVars, current, result, ext, stateLock, closed, once, cpc>>

\* Variant: Pause gives stateLock up before it has runLock.
PauseBeginUnguarded(c) ==
  /\ cpc[c] = "idle"
  /\ stateLock = None
  /\ running
  /\ running' = FALSE
  /\ runLock' = "pending"
  /\ cpc' = [cpc EXCEPT ![c] = "locking"]
  /\ UNCHANGED <<taskVars, workerVars, stateLock, closed, once>>

\* With running already false Pause returns and changes nothing.
PauseBegin(c) ==
  /\ cpc[c] = "idle"
  /\ stateLock = None
  /\ running
  /\ running' = FALSE
  /\ stateLock' = c
  /\ runLock' = "pending"
  /\ cpc' = [cpc EXCEPT ![c] = "locking"]
  /\ UNCHANGED <<taskVars, workerVars, closed, once>>

PauseEnd(c) ==
  /\ cpc[c] = "locking"
  /\ \A w \in Workers : wpc[w] # "polling"
  /\ runLock' = "locked"
  /\ stateLock' = None
  /\ cpc' = [cpc EXCEPT ![c] = "idle"]
  /\ UNCHANGED <<taskVars, workerVars, running, closed, once>>

\* The body of shutdownOnce runs in the first caller; others wait for it.
ShutdownClose(c) ==
  /\ cpc[c] = "idle"
  /\ IF once = "unused"
     THEN /\ once' = "active"
          /\ closed' = TRUE
          /\ cpc' = [cpc EXCEPT ![c] = "starting"]
     ELSE /\ once = "active"
          /\ cpc' = [cpc EXCEPT ![c] = "onceWait"]
          /\ UNCHANGED <<once, closed>>
  /\ UNCHANGED <<taskVars, workerVars, running, runLock, stateLock>>

\* Variant: Shutdown does not call Start.
ShutdownNoStart(c) ==
  /\ cpc[c] = "starting"
  /\ cpc' = [cpc EXCEPT ![c] = "draining"]
  /\ UNCHANGED <<taskVars, workerVars, running,
                 runLock, stateLock, closed, once>>

ShutdownStart(c) ==
  /\ cpc[c] = "starting"
  /\ StartBody
  /\ cpc' = [cpc EXCEPT ![c] = "draining"]
  /\ UNCHANGED <<taskVars, current, result, ext, stateLock, closed, once>>

\* waitForGroup returns true when every worker is done, and false when the
\* grace period is over; either way Shutdown returns, here and to the waiters.
ShutdownReturn(c) ==
  /\ cpc[c] = "draining"
  /\ \/ /\ \A w \in Workers : wpc[w] = "stopped"
        /\ once' = "drained"
     \/ once' = "timedOut"
  /\ cpc' = [d \in Callers |->
               IF d = c \/ cpc[d] = "onceWait" THEN "idle" ELSE cpc[d]]
  /\ UNCHANGED <<taskVars, workerVars, running, runLock, stateLock, closed>>

\* The process dies with everything in memory, and a new one calls newQueue.
\* A Submit call that was sending has no answer for its caller.
Crash ==
  /\ MayCrash
  /\ wpc' = Idle(Workers, "check")
  /\ current' = Idle(Workers, None)
  /\ result' = Idle(Workers, "none")
  /\ ext' = Idle(Workers, 0)
  /\ running' = ~PausedStart
  /\ runLock' = NewRunLock
  /\ stateLock' = None
  /\ closed' = FALSE
  /\ once' = "unused"
  /\ cpc' = Idle(Callers, "idle")
  /\ orphans' = {}
  /\ submitted' = [t \in Tasks |->
       IF submitted[t] = "sending" THEN "error" ELSE submitted[t]]
  /\ UNCHANGED <<sqsVars, handled>>

-----------------------------------------------------------------------------
WorkerStep(w) ==
  \/ CheckShutdown(w) \/ RLock(w)
  \/ PollEmpty(w) \/ PollError(w) \/ SleepOver(w)
  \/ \E t \in Tasks : Receive(w, t)
  \/ RejectBody(w) \/ StartHandler(w)
  \/ AwaitShutdown(w) \/ AwaitNil(w) \/ AwaitErr(w) \/ AwaitTimeout(w)
  \/ ExtendOk(w) \/ ExtendError(w)
  \/ DeleteApplied(w) \/ DeleteMissed(w)

CallerStep(c) ==
  \/ Start(c) \/ PauseBegin(c) \/ PauseEnd(c)
  \/ ShutdownClose(c) \/ ShutdownStart(c) \/ ShutdownReturn(c)

TaskStep(t) ==
  SubmitCheck(t) \/ SubmitSend(t) \/ ForeignSend(t) \/ Expire(t) \/ OrphanReturns(t)

Next ==
  \/ \E w \in Workers : WorkerStep(w)
  \/ \E w \in Workers, r \in {"nil", "err"} : HandlerReturns(w, r)
  \/ \E c \in Callers : CallerStep(c)
  \/ \E t \in Tasks : TaskStep(t)
  \/ Crash

Spec == Init /\ [][Next]_vars

(***************************************************************************)
(* Fairness.  Go schedules every goroutine that can run, the long poll and *)
(* the keep-alive timer end, and a mutex is not withheld forever from a    *)
(* goroutine that waits for it.  Nobody is obliged to call anything.       *)
(***************************************************************************)
ProcessorFairness ==
  /\ \A w \in Workers : WF_vars(WorkerStep(w))
  /\ \A c \in Callers : WF_vars(PauseEnd(c)) /\ SF_vars(ShutdownStart(c))
                        /\ WF_vars(ShutdownReturn(c))

\* What is assumed of SQS and of the handler for tasks to get done: visibility
\* timeouts expire, a task offered again and again is received, and an attempt
\* made again and again once gets through before any of its timers fires.
InTime(w) ==
  /\ wpc[w] \in {"received", "awaiting"}
  /\ latest[current[w]] = w

EnvironmentFairness ==
  /\ \A t \in Tasks : /\ WF_vars(Expire(t))
                       /\ SF_vars(\E w \in Workers : Receive(w, t))
  /\ \A w \in Workers : /\ SF_vars(InTime(w) /\ StartHandler(w))
                         /\ SF_vars(InTime(w) /\ HandlerReturns(w, "nil"))
                         /\ SF_vars(InTime(w) /\ AwaitNil(w))
                         /\ SF_vars(DeleteApplied(w))

FairSpec == Spec /\ ProcessorFairness

-----------------------------------------------------------------------------
(***************************************************************************)
(* Safety.                                                                 *)
(***************************************************************************)

\* A message leaves the queue only after a handler returned nil for its task,
\* unless its body was unusable: whatever timeouts, stale receipts, shutdowns
\* and crashes do, taskWorker never deletes work that is still to be done.
DeletedOnlyHandled ==
  \A t \in Tasks : message[t] = "deleted" => t \in handled \cup Malformed

\* No message is deleted before its task is done, and a task whose Submit
\* returned nil is done or is still in the queue.
NoTaskLost ==
  /\ DeletedOnlyHandled
  /\ \A t \in Tasks :
       submitted[t] = "ok" => t \in handled \/ message[t] \in {"visible", "inflight"}

\* Pause has returned and Start has not been called since: no worker is inside
\* ReceiveMessage, so no further message is taken from the queue.
PausedMeansNotPolling ==
  runLock = "locked" => \A w \in Workers : wpc[w] # "polling"

\* Whenever Start may run its body with running false, runLock is write-locked:
\* runLock.Unlock never hits an unlocked mutex, which would kill the process.
UnlockOnlyLocked ==
  stateLock = None /\ ~running => runLock = "locked"

\* A worker is blocked in RLock only while the processor is paused or pausing.
BlockedOnlyWhenPaused ==
  \A w \in Workers : wpc[w] = "blocked" => ~running /\ runLock # "open"

\* Once Shutdown has seen the wait group done, no worker takes or awaits a task
\* again, whatever Start and Pause calls follow.
DrainedStaysDrained ==
  once = "drained" =>
    \A w \in Workers : wpc[w] = "stopped" /\ current[w] = None /\ result[w] = "none"

(***************************************************************************)
(* Refinement: visible or in flight, a message is pending.                 *)
(***************************************************************************)
QueueStatus ==
  [t \in Tasks |-> CASE message[t] = "unsent"  -> "unsent"
                     [] message[t] = "deleted" -> "removed"
                     [] OTHER -> "pending"]

Promise == INSTANCE AtLeastOnce WITH status <- QueueStatus, completed <- handled

\* The processor, its workers, orphaned handlers, shutdowns and crashes together
\* implement an at-least-once queue.
ImplementsAtLeastOnce == Promise!Spec

(***************************************************************************)
(* Liveness.                                                               *)
(***************************************************************************)

\* Pause always returns, although it waits for every worker that is polling.
PauseReturns ==
  \A c \in Callers : cpc[c] = "locking" ~> cpc[c] # "locking"

\* Shutdown calls Start "to ensure that any task worker currently blocked on
\* the runlock becomes unblocked": such a worker gets past RLock.  And every
\* worker stops, provided nobody pauses the processor again: a Pause that follows
\* the Start inside Shutdown can hold back for ever a worker that had already
\* passed its check of shutdownCh.
ShutdownStopsWorkers ==
  /\ \A w \in Workers :
       (\E c \in Callers : cpc[c] = "starting") /\ wpc[w] = "blocked" ~> wpc[w] # "blocked"
  /\ <>[](closed /\ running) => <>[](\A w \in Workers : wpc[w] = "stopped")

\* When SQS and the handler work, in a processor that is not shut down nor left
\* paused, a task whose Submit returned nil is eventually handled and deleted.
AcceptedTaskDone ==
  EnvironmentFairness /\ []<>running /\ []~closed =>
    \A t \in Tasks : submitted[t] = "ok" ~> message[t] = "deleted"
=============================================================================
