----------------------------- MODULE BatchQueue -----------------------------
(***************************************************************************)
(* What the batch queue promises to its clients, without saying how: the   *)
(* life cycle of a task as the HTTP API shows it, and what a cancellation  *)
(* that was answered with 200 is worth.  There is no worker, no coroutine  *)
(* and no database here; TaskWorker is shown to implement this module.     *)
(***************************************************************************)

CONSTANT Tasks           \* the tasks that may ever be submitted

VARIABLES
  status,                \* status[t]: what GET /batch/tasks/{t} answers
  wanted                 \* tasks whose cancellation was accepted in flight

vars == <<status, wanted>>

Terminal == {"done", "failed", "cancelled"}
Status   == {"absent", "queued", "running"} \cup Terminal

Init ==
  /\ status = [t \in Tasks |-> "absent"]
  /\ wanted = {}

-----------------------------------------------------------------------------
(* One submission may create several tasks; all of them start out queued.  *)
Submit(new) ==
  /\ new # {}
  /\ \A t \in new : status[t] = "absent"
  /\ status' = [t \in Tasks |-> IF t \in new THEN "queued" ELSE status[t]]
  /\ UNCHANGED wanted

(* Only a queued task can start.                                           *)
Begin(t) ==
  /\ status[t] = "queued"
  /\ status' = [status EXCEPT ![t] = "running"]
  /\ UNCHANGED wanted

(* A running task settles once.  One whose cancellation was accepted never *)
(* becomes done, and only such a task becomes cancelled.                   *)
Settle(t) ==
  /\ status[t] = "running"
  /\ \E final \in Terminal :
       /\ final = "done" => t \notin wanted
       /\ final = "cancelled" => t \in wanted
       /\ status' = [status EXCEPT ![t] = final]
  /\ UNCHANGED wanted

(* The user withdraws a task that has not started.                         *)
Withdraw(t) ==
  /\ status[t] = "queued"
  /\ status' = [status EXCEPT ![t] = "cancelled"]
  /\ UNCHANGED wanted

(* The user cancels a task in flight: only a request is recorded.          *)
RequestCancel(t) ==
  /\ status[t] = "running"
  /\ wanted' = wanted \cup {t}
  /\ UNCHANGED status

(* A restart puts every task it finds running back into the queue.  The    *)
(* accepted cancellations are not forgotten.                               *)
Requeue ==
  /\ status' = [t \in Tasks |-> IF status[t] = "running" THEN "queued"
                                ELSE status[t]]
  /\ UNCHANGED wanted

Next ==
  \/ \E new \in SUBSET Tasks : Submit(new)
  \/ \E t \in Tasks :
       Begin(t) \/ Settle(t) \/ Withdraw(t) \/ RequestCancel(t)
  \/ Requeue

Spec == Init /\ [][Next]_vars
=============================================================================
