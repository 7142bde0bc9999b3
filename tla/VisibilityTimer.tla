-------------------------- MODULE VisibilityTimer --------------------------
(***************************************************************************)
(* The race between processTask's keep-alive timer and the visibility      *)
(* timeout of SQS (taskqueue/sqs/queue.go), in discrete time, for one      *)
(* message and the workers that compete for it.                            *)
(*                                                                         *)
(* SQS counts whole seconds: the code sends int64(VisibilityTimeout.       *)
(* Seconds()), but sets its timer from the full duration.  A call or a     *)
(* response is in transit for at most Latency ticks, which includes the    *)
(* time Go needs to run a goroutine whose timer has fired.                 *)
(***************************************************************************)
EXTENDS Naturals

CONSTANTS
  Workers,
  VisibilityTimeout,           \* config.VisibilityTimeout, in ticks
  TicksPerSecond,
  Latency,                     \* longest transit of a call or a response
  VisibilityExtensionEnabled,
  MaxVisibilityExtensions,
  None

ASSUME TimerAssumption ==
  /\ VisibilityTimeout \in Nat
  /\ TicksPerSecond \in Nat \ {0}
  /\ Latency \in Nat
  /\ VisibilityExtensionEnabled \in BOOLEAN
  /\ MaxVisibilityExtensions \in Nat
  /\ None \notin Workers

SqsTimeout == (VisibilityTimeout \div TicksPerSecond) * TicksPerSecond

\* Variant: the timer runs for the whole timeout.
KeepAliveWhole == VisibilityTimeout

KeepAliveInterval == (VisibilityTimeout \div 5) * 4

\* The keep-alive timer plus three transits fit into the timeout SQS counts.
Timely == KeepAliveInterval + 3 * Latency < SqsTimeout

VARIABLES
  hidden,  \* SQS: ticks until the message is visible again
  gone,    \* SQS: the message has been deleted
  holder,  \* the worker with the latest receipt handle
  phase,   \* what the worker does with the message
  waited,  \* ticks since the worker entered this state
  ext      \* extensions made so far

timerVars == <<hidden, gone, holder, phase, waited, ext>>

\* reply: the received message is in transit; await: processTask's select;
\* request, granted, refused: the extension call and its two answers;
\* deleting: the delete call.  In transit all of them, except await.
Transit  == {"reply", "request", "granted", "refused", "deleting"}
Handling == {"await", "request", "granted", "refused"}

TimerTypeOK ==
  /\ hidden \in Nat
  /\ gone \in BOOLEAN
  /\ holder \in Workers \cup {None}
  /\ phase \in [Workers -> Transit \cup {"idle", "await"}]
  /\ waited \in [Workers -> Nat]
  /\ ext \in [Workers -> 0 .. MaxVisibilityExtensions]

TimerInit ==
  /\ hidden = 0
  /\ gone = FALSE
  /\ holder = None
  /\ phase = [w \in Workers |-> "idle"]
  /\ waited = [w \in Workers |-> 0]
  /\ ext = [w \in Workers |-> 0]

Enter(w, state) ==
  /\ phase' = [phase EXCEPT ![w] = state]
  /\ waited' = [waited EXCEPT ![w] = 0]

\* SQS hands the visible message out for SqsTimeout ticks.
Receive(w) ==
  /\ phase[w] = "idle"
  /\ hidden = 0 /\ ~gone
  /\ hidden' = SqsTimeout
  /\ holder' = w
  /\ Enter(w, "reply")
  /\ UNCHANGED <<gone, ext>>

\* processTask starts the handler; with no extension allowed it gives up.
BeginTask(w) ==
  /\ phase[w] = "reply"
  /\ Enter(w, IF MaxVisibilityExtensions > 0 THEN "await" ELSE "idle")
  /\ ext' = [ext EXCEPT ![w] = 0]
  /\ UNCHANGED <<hidden, gone, holder>>

\* The handler returns nil, or it fails or the processor shuts down.
HandlerSucceeds(w) ==
  /\ phase[w] = "await"
  /\ Enter(w, "deleting")
  /\ UNCHANGED <<hidden, gone, holder, ext>>

GiveUp(w) ==
  /\ phase[w] = "await"
  /\ Enter(w, "idle")
  /\ UNCHANGED <<hidden, gone, holder, ext>>

\* time.After(keepAliveInterval): ask for an extension if that is enabled.
TimerFires(w) ==
  /\ phase[w] = "await"
  /\ waited[w] = KeepAliveInterval
  /\ Enter(w, IF VisibilityExtensionEnabled THEN "request" ELSE "idle")
  /\ UNCHANGED <<hidden, gone, holder, ext>>

\* ChangeMessageVisibility counts a new SqsTimeout from its arrival, for the
\* latest receipt of a hidden message.
Extend(w) ==
  /\ phase[w] = "request"
  /\ holder = w /\ hidden > 0
  /\ hidden' = SqsTimeout
  /\ Enter(w, "granted")
  /\ UNCHANGED <<gone, holder, ext>>

\* The call fails, applied or not.
ExtendFails(w) ==
  /\ phase[w] = "request"
  /\ UNCHANGED hidden \/ (holder = w /\ hidden > 0 /\ hidden' = SqsTimeout)
  /\ Enter(w, "refused")
  /\ UNCHANGED <<gone, holder, ext>>

\* Variant: a failed extension is ignored and the handler goes on.
AnswerAlwaysOn(w) ==
  /\ phase[w] \in {"granted", "refused"}
  /\ Enter(w, "await")
  /\ ext' = [ext EXCEPT ![w] = @ + 1]
  /\ UNCHANGED <<hidden, gone, holder>>

\* The worker goes on waiting for the handler, or cancels it on an error and
\* after the last extension.
Answer(w) ==
  /\ phase[w] \in {"granted", "refused"}
  /\ Enter(w, IF phase[w] = "granted" /\ ext[w] + 1 < MaxVisibilityExtensions
              THEN "await" ELSE "idle")
  /\ ext' = [ext EXCEPT ![w] = @ + 1]
  /\ UNCHANGED <<hidden, gone, holder>>

\* DeleteMessage arrives, and counts if the receipt is the latest, or fails.
Delete(w) ==
  /\ phase[w] = "deleting"
  /\ gone' \in {gone, gone \/ holder = w}
  /\ Enter(w, "idle")
  /\ UNCHANGED <<hidden, holder, ext>>

\* A tick passes unless a transit, or the wait for the timer, is over.
Tick ==
  /\ \A w \in Workers :
       /\ phase[w] \in Transit => waited[w] < Latency
       /\ phase[w] = "await" => waited[w] < KeepAliveInterval
  /\ hidden' = IF hidden > 0 THEN hidden - 1 ELSE 0
  /\ waited' = [w \in Workers |-> IF phase[w] = "idle" THEN 0 ELSE waited[w] + 1]
  /\ UNCHANGED <<gone, holder, phase, ext>>

WorkerStep(w) ==
  \/ Receive(w) \/ BeginTask(w) \/ HandlerSucceeds(w) \/ GiveUp(w) \/ TimerFires(w)
  \/ Extend(w) \/ ExtendFails(w) \/ Answer(w) \/ Delete(w)

TimerNext == Tick \/ \E w \in Workers : WorkerStep(w)

TimerSpec == TimerInit /\ [][TimerNext]_timerVars

-----------------------------------------------------------------------------
\* The keep-alive timer fires, and a worker that has done the task deletes it,
\* while the message is still hidden under this worker's receipt: an extension
\* finds something to extend, and a delete comes before anyone else can get it.
CallsInTime ==
  \A w \in Workers :
    phase[w] \in {"request", "deleting"} => ~gone /\ holder = w /\ hidden > 0

\* Two handlers never run the task at the same time, unless the first one
\* ignores its cancelled context.
OneHandlerAtATime ==
  \A v, w \in Workers : phase[v] \in Handling /\ phase[w] \in Handling => v = w
=============================================================================
