----------------------------- MODULE TaskWorker -----------------------------
(***************************************************************************)
(* The batch queue of the backend: the task_queue and analysis_history     *)
(* tables (TaskStore, HistoryStore), the polling loop and the _process     *)
(* coroutines of TaskWorker, the batch endpoints that write the queue, and *)
(* the life of the server process around them.                             *)
(*                                                                         *)
(* Everything runs on one asyncio event loop, so a stretch of code without *)
(* an await is one step for every other coroutine.  A crash is not so      *)
(* polite: each SQL statement commits on its own, and the one stretch that *)
(* commits twice, history_store.save and then mark_done, is two steps here *)
(* between which nothing but a crash can come (see LoopFree).              *)
(*                                                                         *)
(* Tasks are numbered in the order of created_at.  A task row is a record; *)
(* its payload never changes after the INSERT, so the row a coroutine read *)
(* long ago is fully described by its number.                              *)
(***************************************************************************)
EXTENDS Integers, Sequences, FiniteSets

CONSTANTS
  NumTasks,       \* how many tasks are ever submitted (bound)
  Concurrency,    \* BATCH_CONCURRENCY, the permits of the semaphore
  MaxItems,       \* BATCH_MAX_ITEMS of one submission
  MaxStarts,      \* how often the server process starts (bound)
  MaxCrashes,     \* how often it is killed (bound)
  MaxDbErrors,    \* how often a statement on the database raises (bound)
  MaxWaiting      \* coroutines waiting for the semaphore (bound)

ASSUME ConstantsAssumption ==
  /\ NumTasks \in Nat /\ MaxItems \in Nat /\ MaxStarts \in Nat
  /\ MaxCrashes \in Nat /\ MaxDbErrors \in Nat /\ MaxWaiting \in Nat
  /\ Concurrency \in Nat \ {0}

VARIABLES
  (* On disk.                                                              *)
  row,            \* row[t]: the row of task_queue, status "absent" before
  history,        \* the rows of analysis_history the worker has written
  (* In the server process.                                                *)
  server,         \* "up", "stopping" (in stop()), "closing", "down"
  loop,           \* _run: "ready", "sleeping", "ended", "dead" (it raised)
  wake,           \* _wake_event
  backedOff,      \* _current_interval is longer than poll_interval
  waiting,        \* the FIFO of _process coroutines not past the semaphore
  jobs,           \* the coroutines past it, each holding one permit
  (* History variables and fault counters.                                 *)
  attempts,       \* attempts[t]: how often task t was claimed
  before,         \* attempts as the latest start of the server found them
  acked,          \* tasks whose cancellation was answered with 200
  starts, crashes, dbErrors

disk  == <<row, history>>
proc  == <<server, loop, wake, backedOff, waiting, jobs>>
ghost == <<attempts, before, acked, starts, crashes, dbErrors>>
vars  == <<disk, proc, ghost>>

Tasks    == 1..NumTasks
Settled  == {"done", "failed", "cancelled"}
Status   == {"absent", "queued", "running"} \cup Settled
Row      == [status: Status, cancelRequested: BOOLEAN, analysis: Nat]
Job      == [task: Tasks, attempt: Nat, pc: {"calling", "repairing", "saved"}]
Analysis == [task: Tasks, attempt: Nat, llm: {"parsed", "failed"}]

AbsentRow == [status |-> "absent", cancelRequested |-> FALSE, analysis |-> 0]

TypeOK ==
  /\ row \in [Tasks -> Row]
  /\ history \subseteq Analysis
  /\ server \in {"up", "stopping", "closing", "down"}
  /\ loop \in {"ready", "sleeping", "ended", "dead"}
  /\ wake \in BOOLEAN /\ backedOff \in BOOLEAN
  /\ waiting \in Seq(Tasks)
  /\ jobs \subseteq Job /\ IsFiniteSet(jobs)
  /\ Cardinality(jobs) <= Concurrency
  /\ attempts \in [Tasks -> Nat] /\ before \in [Tasks -> Nat]
  /\ acked \subseteq Tasks
  /\ starts \in Nat /\ crashes \in Nat /\ dbErrors \in Nat

Init ==
  /\ row = [t \in Tasks |-> AbsentRow] /\ history = {}
  /\ server = "down" /\ loop = "ended"
  /\ wake = FALSE /\ backedOff = FALSE
  /\ waiting = << >> /\ jobs = {}
  /\ attempts = [t \in Tasks |-> 0] /\ before = attempts /\ acked = {}
  /\ starts = 0 /\ crashes = 0 /\ dbErrors = 0

-----------------------------------------------------------------------------
(* Helpers                                                                 *)

Alive     == server # "down"
Queued(t) == row[t].status = "queued"

(* No coroutine is between the commit of its history row and mark_done.    *)
LoopYields == TRUE
LoopFree   == \A j \in jobs : j.pc # "saved"

SetStatus(t, s) == row' = [row EXCEPT ![t].status = s]

(* A statement on the database raised an exception.                        *)
DbError == dbErrors < MaxDbErrors /\ dbErrors' = dbErrors + 1

(* recover_running_tasks: only the status column is written, a pending     *)
(* cancel_requested survives.                                              *)
ForgetfulRecovery(r) ==
  IF r.status = "running"
  THEN [r EXCEPT !.status = "queued", !.cancelRequested = FALSE] ELSE r
NoRecovery(r) == r
Recovered(r) ==
  IF r.status = "running" THEN [r EXCEPT !.status = "queued"] ELSE r

(* fetch_queued: the oldest queued tasks, at most Concurrency, in order.   *)
(* The set has one element.                                                *)
NewestQueued ==
  {f \in UNION {[1..n -> Tasks] : n \in 0..Concurrency} :
     /\ \A i \in DOMAIN f : Queued(f[i])
     /\ \A i, j \in DOMAIN f : i < j => f[i] > f[j]
     /\ \A t \in Tasks : Queued(t) /\ (\A i \in DOMAIN f : f[i] # t)
          => Len(f) = Concurrency /\ \A i \in DOMAIN f : f[i] > t}
FetchQueued ==
  {f \in UNION {[1..n -> Tasks] : n \in 0..Concurrency} :
     /\ \A i \in DOMAIN f : Queued(f[i])
     /\ \A i, j \in DOMAIN f : i < j => f[i] < f[j]
     /\ \A t \in Tasks : Queued(t) /\ (\A i \in DOMAIN f : f[i] # t)
          => Len(f) = Concurrency /\ \A i \in DOMAIN f : f[i] < t}

-----------------------------------------------------------------------------
(* The server process                                                      *)

(* lifespan startup: TaskWorker.start recovers the rows a dead process     *)
(* left running and creates the task of _run.                              *)
Start ==
  /\ server = "down" /\ starts < MaxStarts
  /\ row' = [t \in Tasks |-> Recovered(row[t])]
  /\ server' = "up" /\ loop' = "ready"
  /\ wake' = FALSE /\ backedOff' = FALSE
  /\ starts' = starts + 1 /\ before' = attempts
  /\ UNCHANGED <<history, waiting, jobs, attempts, acked, crashes, dbErrors>>

(* lifespan shutdown calls stop(), which sets _shutdown and awaits _run.   *)
(* No request is served any more.                                          *)
Stop ==
  /\ server = "up" /\ LoopFree
  /\ server' = "stopping"
  /\ UNCHANGED <<disk, loop, wake, backedOff, waiting, jobs, ghost>>

(* _run sees _shutdown at its next wake-up, or is cancelled after 5 s, or  *)
(* is dead already: in each case stop() is over.  The coroutines it has    *)
(* spawned are neither awaited nor cancelled.                              *)
StopReturns ==
  /\ server = "stopping" /\ LoopFree
  /\ server' = "closing"
  /\ loop' = "ended"
  /\ UNCHANGED <<disk, wake, backedOff, waiting, jobs, ghost>>

(* What the end of the process takes with it.                              *)
ProcessEnds ==
  /\ server' = "down" /\ loop' = "ended"
  /\ wake' = FALSE /\ backedOff' = FALSE
  /\ waiting' = << >> /\ jobs' = {}
  /\ UNCHANGED <<disk, attempts, before, acked, starts, dbErrors>>

Exit == server = "closing" /\ LoopFree /\ ProcessEnds /\ UNCHANGED crashes

Crash ==
  /\ Alive /\ crashes < MaxCrashes
  /\ ProcessEnds /\ crashes' = crashes + 1

-----------------------------------------------------------------------------
(* The HTTP handlers                                                       *)

(* The event set by worker.notify().                                       *)
NotNotified == wake
Notified    == TRUE

NewRows(last) == {t \in 1..last : row[t].status = "absent"}
Enqueued(new) ==
  [t \in Tasks |-> IF t \in new THEN [AbsentRow EXCEPT !.status = "queued"]
                   ELSE row[t]]

(* batch_submit with the tasks up to last that do not exist yet.           *)
Submit(last) ==
  /\ server = "up" /\ LoopFree
  /\ NewRows(last) # {} /\ Cardinality(NewRows(last)) <= MaxItems
  /\ row' = Enqueued(NewRows(last))
  /\ wake' = Notified
  /\ UNCHANGED <<history, server, loop, backedOff, waiting, jobs, ghost>>

(* The INSERT of a later item raises: the items before it are committed    *)
(* and nobody is notified.                                                 *)
SubmitFails(last) ==
  /\ server = "up" /\ LoopFree
  /\ NewRows(last) # {} /\ Cardinality(NewRows(last)) < MaxItems
  /\ DbError
  /\ row' = Enqueued(NewRows(last))
  /\ UNCHANGED <<history, proc, attempts, before, acked, starts, crashes>>

(* TaskStore.cancel: a queued row is cancelled, a running one is flagged.  *)
CancelOutright(r) == [r EXCEPT !.status = "cancelled"]
CancelledRow(r) ==
  IF r.status = "queued" THEN [r EXCEPT !.status = "cancelled"]
  ELSE [r EXCEPT !.cancelRequested = TRUE]

(* cancel_task when it answers 200; the 404 and 409 answers change nothing.*)
Cancel(t) ==
  /\ server = "up" /\ LoopFree
  /\ row[t].status \in {"queued", "running"}
  /\ row' = [row EXCEPT ![t] = CancelledRow(row[t])]
  /\ acked' = acked \cup {t}
  /\ UNCHANGED <<history, proc, attempts, before, starts, crashes, dbErrors>>

-----------------------------------------------------------------------------
(* The polling loop                                                        *)

(* One iteration of _run up to its wait: fetch, spawn, clear the event.    *)
(* The wait may time out at any moment, so a sleeping loop can always go.  *)
(* A row is spawned again for as long as its first coroutine waits.        *)
Poll ==
  /\ server = "up" /\ LoopFree /\ loop \in {"ready", "sleeping"}
  /\ \E fetched \in FetchQueued :
       /\ Len(waiting) + Len(fetched) <= MaxWaiting
       /\ waiting' = waiting \o fetched
       /\ backedOff' = (fetched = << >>)
  /\ wake' = FALSE /\ loop' = "sleeping"
  /\ UNCHANGED <<disk, server, jobs, ghost>>

(* fetch_queued raises, and nothing catches it in _run.                    *)
PollFails ==
  /\ server = "up" /\ LoopFree /\ loop \in {"ready", "sleeping"}
  /\ DbError
  /\ loop' = "dead"
  /\ UNCHANGED <<disk, server, wake, backedOff, waiting, jobs,
                 attempts, before, acked, starts, crashes>>

-----------------------------------------------------------------------------
(* The _process coroutines                                                 *)

(* The semaphore admits the first waiter while a permit is left.           *)
NoSemaphore == waiting # << >>
Admitted    == waiting # << >> /\ Cardinality(jobs) < Concurrency

(* The WHERE clause of mark_running.                                       *)
MarksAnyRow(t)  == row[t].status # "absent"
MarksRunning(t) == Queued(t)

(* mark_running succeeds and _run_analysis gets as far as the provider.    *)
Claim ==
  LET t == Head(waiting)
  IN  /\ Alive /\ LoopFree /\ Admitted
      /\ MarksRunning(t)
      /\ SetStatus(t, "running")
      /\ attempts' = [attempts EXCEPT ![t] = @ + 1]
      /\ jobs' = jobs \cup
           {[task |-> t, attempt |-> attempts[t] + 1, pc |-> "calling"]}
      /\ waiting' = Tail(waiting)
      /\ UNCHANGED <<history, server, loop, wake, backedOff,
                     before, acked, starts, crashes, dbErrors>>

(* mark_running finds the row no longer queued: the coroutine returns.     *)
Drop ==
  /\ Alive /\ LoopFree /\ Admitted
  /\ ~MarksRunning(Head(waiting))
  /\ waiting' = Tail(waiting)
  /\ UNCHANGED <<disk, server, loop, wake, backedOff, jobs, ghost>>

(* mark_running raises, outside the try: the coroutine is gone.            *)
ClaimFails ==
  /\ Alive /\ LoopFree /\ Admitted
  /\ DbError
  /\ waiting' = Tail(waiting)
  /\ UNCHANGED <<disk, server, loop, wake, backedOff, jobs,
                 attempts, before, acked, starts, crashes>>

(* The provider answered with text that does not parse; repair_json is     *)
(* awaited next.                                                           *)
Repair(j) ==
  /\ LoopFree /\ j.pc = "calling"
  /\ jobs' = (jobs \ {j}) \cup {[j EXCEPT !.pc = "repairing"]}
  /\ UNCHANGED <<disk, server, loop, wake, backedOff, waiting, ghost>>

(* How an analysis may end, after either await: with findings ("ok" or     *)
(* "repaired" in the code), or with the payload that stands for a provider *)
(* error or an answer beyond repair.                                       *)
Outcomes == {"parsed", "failed"}

(* is_cancel_requested is true when the last await returns.                *)
FinishCancelled(j) ==
  /\ LoopFree
  /\ row[j.task].cancelRequested
  /\ SetStatus(j.task, "cancelled")
  /\ jobs' = jobs \ {j}
  /\ UNCHANGED <<history, server, loop, wake, backedOff, waiting, ghost>>

(* It is false: history_store.save commits its transaction.                *)
SavesGoodOnly(j, llm) ==
  IF llm = "failed" THEN {}
  ELSE {[task |-> j.task, attempt |-> j.attempt, llm |-> llm]}
Saves(j, llm) == {[task |-> j.task, attempt |-> j.attempt, llm |-> llm]}

SaveHistory(j) ==
  /\ LoopFree
  /\ ~row[j.task].cancelRequested
  /\ \E llm \in Outcomes : history' = history \cup Saves(j, llm)
  /\ jobs' = (jobs \ {j}) \cup {[j EXCEPT !.pc = "saved"]}
  /\ UNCHANGED <<row, server, loop, wake, backedOff, waiting, ghost>>

MarkDone(j) ==
  /\ j.pc = "saved"
  /\ row' = [row EXCEPT ![j.task].status = "done",
                        ![j.task].analysis = j.attempt]
  /\ jobs' = jobs \ {j}
  /\ UNCHANGED <<history, server, loop, wake, backedOff, waiting, ghost>>

(* Any exception inside the try before the history row is committed - no   *)
(* provider can be built, a finding does not validate, a statement raises  *)
(* - ends in mark_failed.                                                  *)
RetryLater == "queued"
OnError    == "failed"
JobFails(j) ==
  /\ LoopFree
  /\ SetStatus(j.task, OnError)
  /\ jobs' = jobs \ {j}
  /\ UNCHANGED <<history, server, loop, wake, backedOff, waiting, ghost>>

(* mark_done raises and mark_failed does not.                              *)
MarkDoneFails(j) ==
  /\ j.pc = "saved" /\ DbError
  /\ SetStatus(j.task, OnError)
  /\ jobs' = jobs \ {j}
  /\ UNCHANGED <<history, server, loop, wake, backedOff, waiting,
                 attempts, before, acked, starts, crashes>>

(* mark_failed itself raises: the row stays running, nobody works on it.   *)
JobDies(j) ==
  /\ j.pc = "saved" \/ LoopFree
  /\ DbError
  /\ jobs' = jobs \ {j}
  /\ UNCHANGED <<disk, server, loop, wake, backedOff, waiting,
                 attempts, before, acked, starts, crashes>>

JobStep(j) ==
  \/ Repair(j) \/ FinishCancelled(j) \/ SaveHistory(j) \/ MarkDone(j)
  \/ JobFails(j) \/ MarkDoneFails(j) \/ JobDies(j)

-----------------------------------------------------------------------------
Next ==
  \/ Start \/ Stop \/ StopReturns \/ Exit \/ Crash
  \/ \E t \in Tasks : Submit(t) \/ SubmitFails(t) \/ Cancel(t)
  \/ Poll \/ PollFails
  \/ Claim \/ Drop \/ ClaimFails
  \/ \E j \in jobs : JobStep(j)

Spec == Init /\ [][Next]_vars

(* The event loop runs every coroutine that is ready, the wait of _run has *)
(* a timeout, and each provider call has one too.  Nothing obliges anybody *)
(* to submit, to cancel, to stop or to start the server.                   *)
FinishOf(t) ==
  \E j \in jobs : j.task = t /\ (FinishCancelled(j) \/ SaveHistory(j)
                                 \/ MarkDone(j) \/ JobFails(j))
Fairness ==
  /\ WF_vars(Poll) /\ WF_vars(Claim) /\ WF_vars(Drop)
  /\ \A t \in Tasks : WF_vars(FinishOf(t))

FairSpec == Spec /\ Fairness

-----------------------------------------------------------------------------
(* Safety                                                                  *)

(* However often the loop spawned a coroutine for a row, at most one of    *)
(* them executes it, and the row says running for as long as it does: the  *)
(* conditional UPDATE of mark_running and the unconditional ones of the    *)
(* other mark_* methods never fight over a row.                            *)
OneJobPerRow ==
  /\ \A j \in jobs : row[j.task].status = "running"
  /\ \A i, j \in jobs : i.task = j.task => i = j

(* A task is sent to the provider at most once in each life of the server, *)
(* whichever life that is: no stale coroutine, failure or cancellation     *)
(* makes the worker pay twice.                                             *)
OneRunPerLife == \A t \in Tasks : attempts[t] <= before[t] + 1

(* The analysis_id of a done task names a history row of that task.        *)
DoneIsInHistory ==
  \A t \in Tasks : row[t].status = "done" =>
    \E h \in history : h.task = t /\ h.attempt = row[t].analysis

(* The history holds the result of done tasks only, apart from the instant *)
(* before mark_done, unless the process was killed or a statement raised   *)
(* in that instant.                                                        *)
HistoryIsOfDoneTasks ==
  crashes = 0 /\ dbErrors = 0 =>
    \A h \in history :
      \/ row[h.task].status = "done" /\ row[h.task].analysis = h.attempt
      \/ \E j \in jobs : j.task = h.task /\ j.pc = "saved"

(* Once cancel_task has answered 200 the task never becomes done, neither  *)
(* in this life of the server nor after a crash and a second run.          *)
CancelIsFinal == \A t \in acked : row[t].status # "done"

(* The loop never sleeps its longer, backed-off interval over a queued row *)
(* without having been notified: a submission is picked up within          *)
(* poll_interval (unless an INSERT raised half way).                       *)
NoLazySleep ==
  loop = "sleeping" /\ backedOff /\ ~wake /\ dbErrors = 0 =>
    \A t \in Tasks : ~Queued(t)

(* Tasks start in the order of created_at, in spite of the re-fetched rows *)
(* and of the rows a restart put back (unless a statement raised).         *)
OldestStartsFirst ==
  [][\A t \in Tasks : Queued(t) /\ row'[t].status = "running" =>
       dbErrors > 0 \/ \A u \in Tasks : u < t => ~Queued(u)]_vars

(* The queue's promise to its clients.                                     *)
Promise == INSTANCE BatchQueue WITH
  status <- [t \in Tasks |-> row[t].status],
  wanted <- {t \in Tasks : row[t].cancelRequested}

ImplementsPromise == Promise!Spec

(* The inductive invariant behind these properties.  A coroutine past the  *)
(* semaphore owns a running row; one that has saved is not to be cancelled *)
(* and its history row exists; none outlives the process.                  *)
JobsInv ==
  /\ OneJobPerRow
  /\ \A j \in jobs : j.pc = "saved" =>
       /\ ~row[j.task].cancelRequested
       /\ \E h \in history : h.task = j.task /\ h.attempt = j.attempt
  /\ ~Alive => jobs = {}

(* A queued row of a live server has not been tried in this life; a row    *)
(* that does not exist has never been.                                     *)
RunsInv ==
  /\ OneRunPerLife
  /\ \A t \in Tasks : Alive /\ Queued(t) => attempts[t] = before[t]
  /\ \A t \in Tasks : row[t].status = "absent" =>
       attempts[t] = 0 /\ before[t] = 0 /\ ~row[t].cancelRequested

(* A cancellation answered with 200 stays visible in the row.              *)
AcksInv ==
  \A t \in acked :
    \/ row[t].status \in {"cancelled", "failed"}
    \/ row[t].status \in {"queued", "running"} /\ row[t].cancelRequested

(* HistoryIsOfDoneTasks with the attempt of the coroutine spelled out.     *)
HistoryInv ==
  crashes = 0 /\ dbErrors = 0 =>
    \A h \in history :
      \/ row[h.task].status = "done" /\ row[h.task].analysis = h.attempt
      \/ \E j \in jobs : /\ j.task = h.task /\ j.attempt = h.attempt
                         /\ j.pc = "saved"

IInv == TypeOK /\ JobsInv /\ RunsInv /\ AcksInv /\ DoneIsInHistory /\ HistoryInv

(* Liveness: while the server stays up and its database works, every task  *)
(* in the queue settles.                                                   *)
EverythingSettles ==
  \A t \in Tasks :
    (server = "up" /\ row[t].status \in {"queued", "running"})
      ~> (row[t].status \in Settled \/ server # "up" \/ dbErrors > 0)

-----------------------------------------------------------------------------
(* What a document of the repository says and the code does not do         *)

(* docs/phase6-batch-queue-design.md:149 "Cancelled tasks do not appear in *)
(* analysis_history. Only done tasks are persisted to history."            *)
CancelledNotInHistory ==
  \A h \in history : row[h.task].status # "cancelled"
=============================================================================
