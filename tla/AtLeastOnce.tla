---------------------------- MODULE AtLeastOnce ----------------------------
(***************************************************************************)
(* What a task queue promises (taskqueue/queue.go: a handler that did not  *)
(* complete returns an error and the task is retried later, "otherwise, it *)
(* should return nil"): a task that was sent stays in the queue until some *)
(* handler has completed it.  It may be completed more than once.  Only a  *)
(* message no handler can be given is removed without being completed.     *)
(***************************************************************************)
CONSTANTS Tasks, Malformed

VARIABLES
  status,     \* where each task is: "unsent", "pending" or "removed"
  completed   \* tasks a handler has completed at least once

Init ==
  /\ status = [t \in Tasks |-> "unsent"]
  /\ completed = {}

Send(t) ==
  /\ status[t] = "unsent"
  /\ status' = [status EXCEPT ![t] = "pending"]
  /\ UNCHANGED completed

\* A handler of the task returns nil, for the first time or again.
Complete(t) ==
  /\ t \notin Malformed
  /\ status[t] # "unsent"
  /\ completed' = completed \cup {t}
  /\ UNCHANGED status

Remove(t) ==
  /\ status[t] = "pending"
  /\ t \in completed \cup Malformed
  /\ status' = [status EXCEPT ![t] = "removed"]
  /\ UNCHANGED completed

Next == \E t \in Tasks : Send(t) \/ Complete(t) \/ Remove(t)

Spec == Init /\ [][Next]_<<status, completed>>
=============================================================================
