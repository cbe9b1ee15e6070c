-------------------------- MODULE TaskWorkerProofs --------------------------
(***************************************************************************)
(* Theorems about TaskWorker, for any number of tasks, any concurrency and *)
(* any number of crashes, restarts and failing statements.                 *)
(***************************************************************************)
EXTENDS TaskWorker, FiniteSetTheorems, SequenceTheorems, TLAPS

(* Removing or replacing one coroutine keeps the jobs within the permits.  *)
LEMMA RemoveOne ==
  ASSUME NEW S, NEW n \in Nat, IsFiniteSet(S), Cardinality(S) <= n, NEW x \in S
  PROVE  IsFiniteSet(S \ {x}) /\ Cardinality(S \ {x}) < n
<1>1. IsFiniteSet(S \ {x}) /\ Cardinality(S \ {x}) = Cardinality(S) - 1
  BY FS_RemoveElement
<1>2. Cardinality(S) \in Nat
  BY FS_CardinalityType
<1> QED
  BY <1>1, <1>2

(* A claim under a free permit keeps the jobs within the permits.          *)
LEMMA AddOne ==
  ASSUME NEW S, NEW n \in Nat, IsFiniteSet(S), Cardinality(S) < n, NEW x
  PROVE  IsFiniteSet(S \cup {x}) /\ Cardinality(S \cup {x}) <= n
<1>1. /\ IsFiniteSet(S \cup {x})
      /\ Cardinality(S \cup {x}) \in {Cardinality(S), Cardinality(S) + 1}
  BY FS_AddElement
<1>2. Cardinality(S) \in Nat
  BY FS_CardinalityType
<1> QED
  BY <1>1, <1>2

(* What a query returns is a sequence of tasks.                            *)
LEMMA FetchedIsSequence == FetchQueued \subseteq Seq(Tasks)
<1> SUFFICES ASSUME NEW f \in FetchQueued
             PROVE  f \in Seq(Tasks)
  OBVIOUS
<1>1. PICK n \in 0..Concurrency : f \in [1..n -> Tasks]
  BY DEF FetchQueued
<1> QED
  BY <1>1, ConstantsAssumption, SeqDef

(* Writing the status column keeps the table well formed.                  *)
LEMMA StatusUpdate ==
  ASSUME NEW r \in [Tasks -> Row], NEW t \in Tasks, NEW s \in Status
  PROVE  [r EXCEPT ![t].status = s] \in [Tasks -> Row]
<1>1. [r[t] EXCEPT !.status = s] \in Row
  BY DEF Row
<1> QED
  BY <1>1

(* Recovery writes a legal status.                                         *)
LEMMA RecoveredIsRow == ASSUME NEW r \in Row PROVE Recovered(r) \in Row
BY DEF Recovered, Row, Status

(* No coroutine at all is within the permits.                              *)
LEMMA NobodyWorks ==
  /\ << >> \in Seq(Tasks)
  /\ IsFiniteSet({})
  /\ Cardinality({}) <= Concurrency
<1>1. IsFiniteSet({}) /\ Cardinality({}) = 0
  BY FS_EmptySet
<1> QED
  BY <1>1, EmptySeq, ConstantsAssumption

-----------------------------------------------------------------------------
(* Every step of a coroutine past the semaphore.                           *)
LEMMA JobStepTypeOK ==
  ASSUME TypeOK, NEW j \in jobs, JobStep(j)
  PROVE  TypeOK'
<1> USE ConstantsAssumption
<1>1. j \in Job
  BY DEF TypeOK
<1>2. /\ IsFiniteSet(jobs \ {j}) /\ Cardinality(jobs \ {j}) < Concurrency
      /\ Cardinality(jobs \ {j}) <= Concurrency
      /\ jobs \ {j} \subseteq Job
  <2>1. IsFiniteSet(jobs \ {j}) /\ Cardinality(jobs \ {j}) < Concurrency
    BY RemoveOne DEF TypeOK
  <2>2. Cardinality(jobs \ {j}) \in Nat
    BY <2>1, FS_CardinalityType
  <2> QED BY <2>1, <2>2 DEF TypeOK
<1>3. ASSUME NEW k \in Job
      PROVE  /\ IsFiniteSet((jobs \ {j}) \cup {k})
             /\ Cardinality((jobs \ {j}) \cup {k}) <= Concurrency
             /\ (jobs \ {j}) \cup {k} \subseteq Job
  BY <1>2, AddOne
<1>4. CASE Repair(j)
  <2>1. [j EXCEPT !.pc = "repairing"] \in Job
    BY <1>1 DEF Job
  <2> QED BY <1>3, <1>4, <2>1 DEF TypeOK, Repair, disk, ghost
<1>5. ASSUME NEW s \in Settled, SetStatus(j.task, s)
      PROVE  row' \in [Tasks -> Row]
  <2>1. j.task \in Tasks /\ s \in Status
    BY <1>1 DEF Job, Status
  <2> QED BY <1>5, <2>1, StatusUpdate DEF SetStatus, TypeOK
<1>11. CASE FinishCancelled(j)
  <2>1. row' \in [Tasks -> Row]
    BY <1>5, <1>11 DEF FinishCancelled, Settled
  <2> QED BY <1>2, <1>11, <2>1 DEF TypeOK, FinishCancelled, ghost
<1>6. CASE SaveHistory(j)
  <2>1. [j EXCEPT !.pc = "saved"] \in Job
    BY <1>1 DEF Job
  <2>2. ASSUME NEW llm \in Outcomes
        PROVE  Saves(j, llm) \subseteq Analysis
    BY <1>1 DEF Saves, Analysis, Outcomes, Job
  <2> QED BY <1>3, <1>6, <2>1, <2>2 DEF TypeOK, SaveHistory, ghost
<1>7. CASE MarkDone(j)
  <2>1. j.task \in Tasks /\ j.attempt \in Nat
    BY <1>1 DEF Job
  <2>2. [row[j.task] EXCEPT !.status = "done", !.analysis = j.attempt] \in Row
    BY <2>1 DEF TypeOK, Row, Status, Settled
  <2>3. row' \in [Tasks -> Row]
    BY <1>7, <2>1, <2>2 DEF MarkDone, TypeOK
  <2> QED BY <1>2, <1>7, <2>3 DEF TypeOK, MarkDone, ghost
<1>8. CASE JobFails(j)
  <2>1. row' \in [Tasks -> Row]
    BY <1>5, <1>8 DEF JobFails, OnError, Settled
  <2> QED BY <1>2, <1>8, <2>1 DEF TypeOK, JobFails, ghost
<1>9. CASE MarkDoneFails(j)
  <2>1. row' \in [Tasks -> Row]
    BY <1>5, <1>9 DEF MarkDoneFails, OnError, Settled
  <2> QED BY <1>2, <1>9, <2>1 DEF TypeOK, MarkDoneFails, DbError
<1>10. CASE JobDies(j)
  BY <1>2, <1>10 DEF TypeOK, JobDies, DbError, disk
<1> QED
  BY <1>4, <1>6, <1>7, <1>8, <1>9, <1>10, <1>11 DEF JobStep

(* Every step keeps the types; one numbered step per action.               *)
LEMMA NextTypeOK == TypeOK /\ [Next]_vars => TypeOK'
<1> SUFFICES ASSUME TypeOK, [Next]_vars PROVE TypeOK'
  OBVIOUS
<1> USE ConstantsAssumption
<1>1. CASE Start
  <2>1. \A t \in Tasks : Recovered(row[t]) \in Row
    BY RecoveredIsRow DEF TypeOK
  <2>2. row' = [t \in Tasks |-> Recovered(row[t])]
    BY <1>1 DEF Start
  <2>3. [t \in Tasks |-> Recovered(row[t])] \in [Tasks -> Row]
    BY <2>1, Zenon
  <2>4. row' \in [Tasks -> Row]
    BY <2>2, <2>3
  <2>5. /\ server' = "up" /\ loop' = "ready"
        /\ wake' = FALSE /\ backedOff' = FALSE /\ starts' = starts + 1
        /\ before' = attempts
        /\ UNCHANGED <<history, waiting, jobs, attempts, acked, crashes,
                       dbErrors>>
    BY <1>1 DEF Start
  <2>6. starts' \in Nat
    BY <2>5 DEF TypeOK
  <2>7. /\ jobs' \subseteq Job /\ IsFiniteSet(jobs)'
        /\ Cardinality(jobs)' <= Concurrency /\ waiting' \in Seq(Tasks)
        /\ history' \subseteq Analysis /\ acked' \subseteq Tasks
        /\ attempts' \in [Tasks -> Nat] /\ before' \in [Tasks -> Nat]
        /\ crashes' \in Nat /\ dbErrors' \in Nat
    BY <2>5 DEF TypeOK
  <2> QED BY <2>4, <2>5, <2>6, <2>7 DEF TypeOK
<1>2. CASE Stop
  BY <1>2 DEF TypeOK, Stop, disk, ghost
<1>3. CASE StopReturns
  BY <1>3 DEF TypeOK, StopReturns, disk, ghost
<1>4. ASSUME ProcessEnds, crashes' \in Nat
      PROVE  TypeOK'
  BY <1>4, NobodyWorks DEF TypeOK, ProcessEnds, disk
<1>5. CASE Exit
  BY <1>4, <1>5 DEF Exit, TypeOK
<1>6. CASE Crash
  BY <1>4, <1>6 DEF Crash, TypeOK
<1>7. ASSUME NEW t \in Tasks
      PROVE  Enqueued(NewRows(t)) \in [Tasks -> Row]
  BY DEF TypeOK, Enqueued, AbsentRow, Row, Status
<1>8. ASSUME NEW t \in Tasks, Submit(t)
      PROVE  TypeOK'
  BY <1>7, <1>8 DEF TypeOK, Submit, Notified, ghost
<1>9. ASSUME NEW t \in Tasks, SubmitFails(t)
      PROVE  TypeOK'
  BY <1>7, <1>9 DEF TypeOK, SubmitFails, DbError, proc
<1>10. ASSUME NEW t \in Tasks, Cancel(t)
       PROVE  TypeOK'
  BY <1>10, ZenonT(60) DEF TypeOK, Cancel, CancelledRow, Row, Status, Settled, proc
<1>11. CASE Poll
  <2>1. PICK f \in FetchQueued :
          /\ waiting' = waiting \o f
          /\ backedOff' = (f = << >>)
    BY <1>11 DEF Poll
  <2>2. waiting' \in Seq(Tasks)
    BY <2>1, FetchedIsSequence, ConcatProperties DEF TypeOK
  <2> QED BY <1>11, <2>1, <2>2 DEF TypeOK, Poll, disk, ghost
<1>12. CASE PollFails
  BY <1>12 DEF TypeOK, PollFails, DbError, disk
<1>13. ASSUME Admitted
       PROVE  Head(waiting) \in Tasks /\ Tail(waiting) \in Seq(Tasks)
  BY <1>13, HeadTailProperties DEF Admitted, TypeOK
<1>14. CASE Claim
  <2> DEFINE t == Head(waiting)
             j == [task |-> t, attempt |-> attempts[t] + 1, pc |-> "calling"]
  <2>1. t \in Tasks /\ Tail(waiting) \in Seq(Tasks)
    BY <1>13, <1>14 DEF Claim
  <2>2. /\ jobs' = jobs \cup {j}
        /\ attempts' = [attempts EXCEPT ![t] = @ + 1]
        /\ row' = [row EXCEPT ![t].status = "running"]
        /\ waiting' = Tail(waiting)
        /\ Cardinality(jobs) < Concurrency
        /\ UNCHANGED <<history, server, loop, wake, backedOff,
                       before, acked, starts, crashes, dbErrors>>
    BY <1>14 DEF Claim, Admitted, SetStatus
  <2>3. j \in Job
    BY <2>1 DEF TypeOK, Job
  <2>4. /\ IsFiniteSet(jobs \cup {j})
        /\ Cardinality(jobs \cup {j}) <= Concurrency
    BY <2>2, AddOne DEF TypeOK
  <2>5. row' \in [Tasks -> Row] /\ attempts' \in [Tasks -> Nat]
    <3>1. "running" \in Status
      BY DEF Status
    <3>2. [row EXCEPT ![t].status = "running"] \in [Tasks -> Row]
      BY <2>1, <3>1, StatusUpdate DEF TypeOK
    <3> QED BY <2>1, <2>2, <3>2, SMTT(30) DEF TypeOK
  <2> HIDE DEF t, j
  <2> QED BY <2>1, <2>2, <2>3, <2>4, <2>5 DEF TypeOK
<1>15. CASE Drop
  BY <1>13, <1>15 DEF TypeOK, Drop, disk, ghost
<1>16. CASE ClaimFails
  BY <1>13, <1>16 DEF TypeOK, ClaimFails, DbError, disk
<1>17. ASSUME NEW j \in jobs, JobStep(j)
       PROVE  TypeOK'
  BY <1>17, JobStepTypeOK
<1>18. CASE UNCHANGED vars
  BY <1>18 DEF TypeOK, vars, disk, proc, ghost
<1> QED
  BY <1>1, <1>2, <1>3, <1>5, <1>6, <1>8, <1>9, <1>10, <1>11, <1>12, <1>14,
     <1>15, <1>16, <1>17, <1>18 DEF Next

(* The state before the first start of the server is well typed.           *)
LEMMA InitTypeOK == Init => TypeOK
<1>1. AbsentRow \in Row
  BY DEF AbsentRow, Row, Status
<1> SUFFICES ASSUME Init PROVE TypeOK
  OBVIOUS
<1>2. /\ row \in [Tasks -> Row]
      /\ attempts \in [Tasks -> Nat] /\ before \in [Tasks -> Nat]
  BY <1>1 DEF Init
<1>3. /\ history = {} /\ server = "down" /\ loop = "ended"
      /\ wake = FALSE /\ backedOff = FALSE /\ waiting = << >> /\ jobs = {}
      /\ acked = {} /\ starts = 0 /\ crashes = 0 /\ dbErrors = 0
  BY DEF Init
<1> QED
  BY <1>2, <1>3, NobodyWorks DEF TypeOK

(* Every variable keeps its type; in particular no more coroutines are     *)
(* past the semaphore than it has permits.                                 *)
THEOREM TypeCorrect == Spec => []TypeOK
BY InitTypeOK, NextTypeOK, PTL DEF Spec

-----------------------------------------------------------------------------
(* What SetStatus does to each row.                                        *)
LEMMA SetStatusRows ==
  ASSUME TypeOK, NEW t \in Tasks, NEW s, SetStatus(t, s)
  PROVE  \A u \in Tasks :
           /\ row'[u].status = IF u = t THEN s ELSE row[u].status
           /\ row'[u].cancelRequested = row[u].cancelRequested
           /\ row'[u].analysis = row[u].analysis
<1> SUFFICES ASSUME NEW u \in Tasks
             PROVE  /\ row'[u].status = IF u = t THEN s ELSE row[u].status
                    /\ row'[u].cancelRequested = row[u].cancelRequested
                    /\ row'[u].analysis = row[u].analysis
  OBVIOUS
<1>1. row[u] \in Row /\ row'[u] = IF u = t THEN [row[u] EXCEPT !.status = s]
                                  ELSE row[u]
  BY DEF TypeOK, SetStatus
<1> QED
  BY <1>1 DEF Row

(* The parts of the invariant that look at the rows and the history only   *)
(* through steps that leave both, the jobs and the counts alone.           *)
LEMMA Unaffected ==
  ASSUME IInv, TypeOK', UNCHANGED <<row, history, jobs, attempts, before, acked, starts>>,
         Alive' <=> Alive, crashes' = crashes, dbErrors' >= dbErrors
  PROVE  IInv'
<1>1. TypeOK
  BY DEF IInv
<1>2. JobsInv'
  BY DEF IInv, JobsInv, OneJobPerRow
<1>3. RunsInv'
  BY DEF IInv, RunsInv, OneRunPerLife, Queued
<1>4. AcksInv' /\ DoneIsInHistory'
  BY DEF IInv, AcksInv, DoneIsInHistory
<1>5. HistoryInv'
  <2>1. dbErrors' = 0 => dbErrors = 0
    BY <1>1 DEF TypeOK
  <2> QED BY <2>1 DEF IInv, HistoryInv
<1> QED
  BY <1>2, <1>3, <1>4, <1>5 DEF IInv

(* The process ends: nothing is lost but the coroutines.                   *)
LEMMA ProcessEndsIInv ==
  ASSUME IInv, TypeOK', ProcessEnds,
         (LoopFree /\ crashes' = crashes) \/ crashes' > 0
  PROVE  IInv'
<1>1. /\ UNCHANGED <<row, history, attempts, before, acked, starts, dbErrors>>
      /\ jobs' = {} /\ ~Alive'
  BY DEF ProcessEnds, disk, Alive
<1>2. JobsInv'
  BY <1>1 DEF JobsInv, OneJobPerRow
<1>3. RunsInv'
  BY <1>1 DEF IInv, RunsInv, OneRunPerLife, Queued
<1>4. AcksInv' /\ DoneIsInHistory'
  BY <1>1 DEF IInv, AcksInv, DoneIsInHistory
<1>5. HistoryInv'
  <2>1. CASE crashes' > 0
    BY <2>1 DEF HistoryInv
  <2>2. CASE LoopFree /\ crashes' = crashes
    BY <1>1, <2>2 DEF IInv, HistoryInv, LoopFree
  <2> QED BY <2>1, <2>2
<1> QED
  BY <1>2, <1>3, <1>4, <1>5 DEF IInv

-----------------------------------------------------------------------------
(* lifespan startup.  Every row it requeues was tried in an earlier life.  *)
LEMMA StartIInv ==
  ASSUME IInv, TypeOK', Start
  PROVE  IInv'
<1>1. \A t \in Tasks :
        /\ row'[t].status = IF row[t].status = "running" THEN "queued"
                            ELSE row[t].status
        /\ row'[t].cancelRequested = row[t].cancelRequested
        /\ row'[t].analysis = row[t].analysis
  <2> SUFFICES ASSUME NEW t \in Tasks
               PROVE  /\ row'[t].status = IF row[t].status = "running"
                                          THEN "queued" ELSE row[t].status
                      /\ row'[t].cancelRequested = row[t].cancelRequested
                      /\ row'[t].analysis = row[t].analysis
    OBVIOUS
  <2>1. row[t] \in Row /\ row'[t] = Recovered(row[t])
    BY DEF IInv, TypeOK, Start
  <2> QED BY <2>1 DEF Recovered, Row
<1>2. /\ ~Alive /\ Alive' /\ jobs = {} /\ jobs' = {} /\ before' = attempts
      /\ UNCHANGED <<history, attempts, acked, crashes, dbErrors>>
  BY DEF Start, Alive, IInv, JobsInv
<1>3. history \subseteq Analysis /\ acked \subseteq Tasks
      /\ attempts \in [Tasks -> Nat]
  BY DEF IInv, TypeOK
<1>4. JobsInv'
  BY <1>2 DEF JobsInv, OneJobPerRow
<1>5. RunsInv'
  BY <1>1, <1>2, <1>3 DEF IInv, RunsInv, OneRunPerLife, Queued
<1>6. AcksInv'
  BY <1>1, <1>2, <1>3 DEF IInv, AcksInv
<1>7. DoneIsInHistory'
  BY <1>1, <1>2 DEF IInv, DoneIsInHistory
<1>8. HistoryInv'
  BY <1>1, <1>2, <1>3 DEF IInv, HistoryInv, Analysis
<1> QED
  BY <1>4, <1>5, <1>6, <1>7, <1>8 DEF IInv

(* A submission, complete or broken off half way, adds queued rows.        *)
LEMMA SubmitIInv ==
  ASSUME IInv, TypeOK', NEW last \in Tasks, Submit(last) \/ SubmitFails(last)
  PROVE  IInv'
<1> DEFINE new == NewRows(last)
<1>1. \A t \in new : row[t].status = "absent"
  BY DEF NewRows
<1>2. /\ row' = Enqueued(new)
      /\ Alive /\ Alive'
      /\ UNCHANGED <<history, jobs, attempts, before, acked, starts, crashes>>
      /\ dbErrors' \in {dbErrors, dbErrors + 1}
  BY DEF Submit, SubmitFails, DbError, ghost, proc, Alive
<1>3. \A t \in Tasks :
        IF t \in new
        THEN row'[t].status = "queued" /\ ~row'[t].cancelRequested
        ELSE row'[t] = row[t]
  BY <1>2 DEF Enqueued, AbsentRow
<1> HIDE DEF new
<1>4. /\ dbErrors \in Nat /\ history \subseteq Analysis
      /\ jobs \subseteq Job /\ acked \subseteq Tasks
      /\ attempts \in [Tasks -> Nat] /\ before \in [Tasks -> Nat]
  BY DEF IInv, TypeOK
<1>5. JobsInv'
  BY <1>1, <1>2, <1>3, <1>4 DEF IInv, JobsInv, OneJobPerRow, Job
<1>6. RunsInv'
  BY <1>1, <1>2, <1>3, <1>4 DEF IInv, RunsInv, OneRunPerLife, Queued
<1>7. AcksInv'
  BY <1>1, <1>2, <1>3, <1>4 DEF IInv, AcksInv
<1>8. DoneIsInHistory'
  BY <1>1, <1>2, <1>3 DEF IInv, DoneIsInHistory
<1>9. HistoryInv'
  <2>1. dbErrors' = 0 => dbErrors = 0
    BY <1>2, <1>4
  <2> QED BY <1>1, <1>2, <1>3, <1>4, <2>1 DEF IInv, HistoryInv, Analysis
<1> QED
  BY <1>5, <1>6, <1>7, <1>8, <1>9 DEF IInv

(* A cancellation: outright in the queue, a flag on a running row.         *)
LEMMA CancelIInv ==
  ASSUME IInv, TypeOK', NEW t \in Tasks, Cancel(t)
  PROVE  IInv'
<1>1. /\ row[t].status \in {"queued", "running"} /\ Alive /\ Alive' /\ LoopFree
      /\ acked' = acked \cup {t}
      /\ UNCHANGED <<history, jobs, attempts, before, starts, crashes, dbErrors>>
  BY DEF Cancel, proc, Alive
<1>2. \A u \in Tasks : u # t => row'[u] = row[u]
  BY DEF Cancel, IInv, TypeOK
<1>3. /\ row[t].status = "queued" => row'[t].status = "cancelled"
      /\ row[t].status = "running" =>
           row'[t].status = "running" /\ row'[t].cancelRequested
      /\ row'[t].analysis = row[t].analysis
  <2>1. row[t] \in Row /\ row'[t] = CancelledRow(row[t])
    BY DEF Cancel, IInv, TypeOK
  <2> QED BY <1>1, <2>1 DEF CancelledRow, Row
<1>4. /\ history \subseteq Analysis /\ jobs \subseteq Job /\ acked \subseteq Tasks
  BY DEF IInv, TypeOK
<1>5. JobsInv'
  BY <1>1, <1>2, <1>3, <1>4 DEF IInv, JobsInv, OneJobPerRow, Job, LoopFree
<1>6. RunsInv'
  BY <1>1, <1>2, <1>3 DEF IInv, RunsInv, OneRunPerLife, Queued
<1>7. AcksInv'
  BY <1>1, <1>2, <1>3, <1>4 DEF IInv, AcksInv
<1>8. DoneIsInHistory'
  BY <1>1, <1>2, <1>3 DEF IInv, DoneIsInHistory
<1>9. HistoryInv'
  BY <1>1, <1>2, <1>3, <1>4 DEF IInv, HistoryInv, Analysis
<1> QED
  BY <1>5, <1>6, <1>7, <1>8, <1>9 DEF IInv

-----------------------------------------------------------------------------
(* A claim.  The row was queued, so no coroutine owned it.                 *)
LEMMA ClaimIInv ==
  ASSUME IInv, TypeOK', Claim
  PROVE  IInv'
<1> DEFINE t == Head(waiting)
           k == [task |-> t, attempt |-> attempts[t] + 1, pc |-> "calling"]
<1>1. t \in Tasks
  BY HeadTailProperties DEF Claim, Admitted, IInv, TypeOK
<1>2. /\ row[t].status = "queued" /\ SetStatus(t, "running")
      /\ Alive /\ Alive' /\ LoopFree
      /\ jobs' = jobs \cup {k} /\ attempts' = [attempts EXCEPT ![t] = @ + 1]
      /\ UNCHANGED <<history, before, acked, starts, crashes, dbErrors>>
  BY DEF Claim, MarksRunning, Queued, Alive
<1>3. k.task = t /\ k.pc = "calling"
  OBVIOUS
<1> HIDE DEF t, k
<1>4. \A u \in Tasks :
        /\ row'[u].status = IF u = t THEN "running" ELSE row[u].status
        /\ row'[u].cancelRequested = row[u].cancelRequested
        /\ row'[u].analysis = row[u].analysis
  BY <1>1, <1>2, SetStatusRows DEF IInv
<1>5. /\ history \subseteq Analysis /\ jobs \subseteq Job /\ acked \subseteq Tasks
      /\ attempts \in [Tasks -> Nat] /\ before \in [Tasks -> Nat]
  BY DEF IInv, TypeOK
<1>6. \A j \in jobs : j.task # t
  BY <1>2 DEF IInv, JobsInv, OneJobPerRow
<1>7. JobsInv'
  <2>1. \A j \in jobs : j.task \in Tasks
    BY <1>5 DEF Job
  <2>2. OneJobPerRow'
    BY <1>1, <1>2, <1>3, <1>4, <1>6, <2>1 DEF IInv, JobsInv, OneJobPerRow
  <2>3. \A j \in jobs' : j.pc # "saved"
    BY <1>2, <1>3 DEF LoopFree
  <2> QED BY <1>2, <2>2, <2>3 DEF JobsInv
<1>8. RunsInv'
  <2>1. \A u \in Tasks : attempts'[u] = IF u = t THEN attempts[t] + 1
                                        ELSE attempts[u]
    BY <1>1, <1>2, <1>5
  <2>2. attempts[t] = before[t]
    BY <1>1, <1>2 DEF IInv, RunsInv, Queued
  <2> QED BY <1>1, <1>2, <1>4, <1>5, <2>1, <2>2
          DEF IInv, RunsInv, OneRunPerLife, Queued
<1>9. AcksInv'
  BY <1>2, <1>4, <1>5 DEF IInv, AcksInv
<1>10. DoneIsInHistory'
  BY <1>2, <1>4 DEF IInv, DoneIsInHistory
<1>11. HistoryInv'
  BY <1>2, <1>4, <1>5 DEF IInv, HistoryInv, Analysis
<1> QED
  BY <1>7, <1>8, <1>9, <1>10, <1>11 DEF IInv

(* A coroutine writes a final status other than done and ends.             *)
LEMMA GiveUpIInv ==
  ASSUME IInv, TypeOK', NEW j \in jobs, NEW s \in {"cancelled", "failed"},
         SetStatus(j.task, s), jobs' = jobs \ {j}, LoopFree \/ dbErrors' > 0,
         dbErrors' >= dbErrors,
         UNCHANGED <<history, server, attempts, before, acked, starts, crashes>>
  PROVE  IInv'
<1>1. /\ history \subseteq Analysis /\ jobs \subseteq Job /\ acked \subseteq Tasks
      /\ attempts \in [Tasks -> Nat] /\ before \in [Tasks -> Nat] /\ dbErrors \in Nat
      /\ j.task \in Tasks
  BY DEF IInv, TypeOK, Job
<1>2. \A u \in Tasks :
        /\ row'[u].status = IF u = j.task THEN s ELSE row[u].status
        /\ row'[u].cancelRequested = row[u].cancelRequested
        /\ row'[u].analysis = row[u].analysis
  BY <1>1, SetStatusRows DEF IInv
<1>3. row[j.task].status = "running" /\ (Alive' <=> Alive)
  BY DEF IInv, JobsInv, OneJobPerRow, Alive
<1>4. JobsInv'
  BY <1>1, <1>2, <1>3 DEF IInv, JobsInv, OneJobPerRow, Job
<1>5. RunsInv'
  BY <1>1, <1>2, <1>3 DEF IInv, RunsInv, OneRunPerLife, Queued
<1>6. AcksInv'
  BY <1>1, <1>2 DEF IInv, AcksInv
<1>7. DoneIsInHistory'
  BY <1>1, <1>2, <1>3 DEF IInv, DoneIsInHistory
<1>8. HistoryInv'
  <2>1. CASE dbErrors' > 0
    BY <2>1 DEF HistoryInv
  <2>2. CASE LoopFree
    BY <1>1, <1>2, <1>3, <2>2 DEF IInv, HistoryInv, Analysis, LoopFree
  <2> QED BY <2>1, <2>2
<1> QED
  BY <1>4, <1>5, <1>6, <1>7, <1>8 DEF IInv

(* Every step of a coroutine past the semaphore.                           *)
LEMMA JobStepIInv ==
  ASSUME IInv, TypeOK', NEW j \in jobs, JobStep(j)
  PROVE  IInv'
<1>1. /\ history \subseteq Analysis /\ jobs \subseteq Job /\ acked \subseteq Tasks
      /\ attempts \in [Tasks -> Nat] /\ before \in [Tasks -> Nat] /\ dbErrors \in Nat
      /\ crashes \in Nat /\ j \in Job /\ j.task \in Tasks
  BY DEF IInv, TypeOK, Job
<1>2. /\ row[j.task].status = "running" /\ Alive
      /\ \A i \in jobs : i.task = j.task => i = j
  BY DEF IInv, JobsInv, OneJobPerRow
<1>3. CASE Repair(j)
  <2> DEFINE k == [j EXCEPT !.pc = "repairing"]
  <2>1. k.task = j.task /\ k.attempt = j.attempt /\ k.pc = "repairing"
    BY <1>1 DEF Job
  <2>2. /\ jobs' = (jobs \ {j}) \cup {k} /\ LoopFree /\ Alive'
        /\ UNCHANGED <<row, history, attempts, before, acked, starts, crashes,
                       dbErrors>>
    BY <1>2, <1>3 DEF Repair, disk, ghost, Alive
  <2> HIDE DEF k
  <2>3. JobsInv'
    BY <1>1, <1>2, <2>1, <2>2 DEF IInv, JobsInv, OneJobPerRow, LoopFree
  <2>4. RunsInv' /\ AcksInv' /\ DoneIsInHistory'
    BY <1>2, <2>2
    DEF IInv, RunsInv, OneRunPerLife, Queued, AcksInv, DoneIsInHistory
  <2>5. HistoryInv'
    BY <2>1, <2>2 DEF IInv, HistoryInv, LoopFree
  <2> QED BY <2>3, <2>4, <2>5 DEF IInv
<1>4. CASE FinishCancelled(j)
  BY <1>4, GiveUpIInv, <1>1 DEF FinishCancelled, ghost
<1>5. CASE SaveHistory(j)
  <2> DEFINE k == [j EXCEPT !.pc = "saved"]
  <2>1. k.task = j.task /\ k.attempt = j.attempt /\ k.pc = "saved"
    BY <1>1 DEF Job
  <2>2. PICK llm \in Outcomes : history' = history \cup Saves(j, llm)
    BY <1>5 DEF SaveHistory
  <2> DEFINE h == [task |-> j.task, attempt |-> j.attempt, llm |-> llm]
  <2>3. /\ history' = history \cup {h}
        /\ h.task = j.task /\ h.attempt = j.attempt
    BY <2>2 DEF Saves
  <2>4. /\ jobs' = (jobs \ {j}) \cup {k} /\ LoopFree /\ Alive'
        /\ ~row[j.task].cancelRequested
        /\ UNCHANGED <<row, attempts, before, acked, starts, crashes, dbErrors>>
    BY <1>2, <1>5 DEF SaveHistory, ghost, Alive
  <2> HIDE DEF k, h
  <2>5. JobsInv'
    <3>1. OneJobPerRow'
      BY <1>2, <2>1, <2>4 DEF IInv, JobsInv, OneJobPerRow
    <3>2. \A i \in jobs' : i.pc = "saved" => i = k
      BY <2>4 DEF LoopFree
    <3> QED BY <2>1, <2>3, <2>4, <3>1, <3>2 DEF JobsInv
  <2>6. RunsInv' /\ AcksInv'
    BY <1>2, <2>4 DEF IInv, RunsInv, OneRunPerLife, Queued, AcksInv
  <2>7. DoneIsInHistory'
    BY <2>3, <2>4 DEF IInv, DoneIsInHistory
  <2>8. HistoryInv'
    BY <2>1, <2>3, <2>4 DEF IInv, HistoryInv, LoopFree
  <2> QED BY <2>5, <2>6, <2>7, <2>8 DEF IInv
<1>6. CASE MarkDone(j)
  <2>1. \A u \in Tasks : u # j.task => row'[u] = row[u]
    BY <1>1, <1>6 DEF MarkDone, IInv, TypeOK
  <2>2. /\ row'[j.task].status = "done" /\ row'[j.task].analysis = j.attempt
        /\ ~row'[j.task].cancelRequested
    <3>1. row[j.task] \in Row /\ ~row[j.task].cancelRequested
      BY <1>1, <1>6 DEF MarkDone, IInv, TypeOK, JobsInv
    <3>2. row'[j.task] = [row[j.task] EXCEPT !.status = "done",
                                           !.analysis = j.attempt]
      BY <1>1, <1>6 DEF MarkDone, IInv, TypeOK
    <3> QED BY <3>1, <3>2 DEF Row
  <2>3. /\ jobs' = jobs \ {j} /\ j.pc = "saved" /\ Alive'
        /\ UNCHANGED <<history, attempts, before, acked, starts, crashes, dbErrors>>
    BY <1>2, <1>6 DEF MarkDone, ghost, Alive
  <2>4. \A i \in jobs : i.task \in Tasks
    BY <1>1 DEF Job
  <2>5. JobsInv'
    BY <1>2, <2>1, <2>3, <2>4 DEF IInv, JobsInv, OneJobPerRow
  <2>6. RunsInv'
    BY <1>1, <1>2, <2>1, <2>2, <2>3
    DEF IInv, RunsInv, OneRunPerLife, Queued
  <2>7. AcksInv'
    <3>1. j.task \notin acked
      BY <1>2, <2>3 DEF IInv, JobsInv, AcksInv
    <3> QED BY <1>1, <2>1, <2>3, <3>1 DEF IInv, AcksInv
  <2>8. DoneIsInHistory'
    <3>1. \E h \in history : h.task = j.task /\ h.attempt = j.attempt
      BY <2>3 DEF IInv, JobsInv
    <3> QED BY <2>1, <2>2, <2>3, <3>1 DEF IInv, DoneIsInHistory
  <2>9. HistoryInv'
    <3>1. \A h \in history : h.task \in Tasks
      BY <1>1 DEF Analysis
    <3> QED BY <1>2, <2>1, <2>2, <2>3, <3>1 DEF IInv, HistoryInv
  <2> QED BY <2>5, <2>6, <2>7, <2>8, <2>9 DEF IInv
<1>7. CASE JobFails(j)
  BY <1>1, <1>7, GiveUpIInv DEF JobFails, OnError, ghost
<1>8. CASE MarkDoneFails(j)
  BY <1>1, <1>8, GiveUpIInv DEF MarkDoneFails, DbError, OnError
<1>9. CASE JobDies(j)
  <2>1. /\ jobs' = jobs \ {j} /\ Alive' /\ dbErrors' = dbErrors + 1
        /\ UNCHANGED <<row, history, attempts, before, acked, starts, crashes>>
    BY <1>2, <1>9 DEF JobDies, DbError, disk, Alive
  <2>2. JobsInv'
    BY <1>2, <2>1 DEF IInv, JobsInv, OneJobPerRow
  <2>3. RunsInv' /\ AcksInv' /\ DoneIsInHistory'
    BY <1>2, <2>1
    DEF IInv, RunsInv, OneRunPerLife, Queued, AcksInv, DoneIsInHistory
  <2>4. HistoryInv'
    BY <1>1, <2>1 DEF HistoryInv
  <2> QED BY <2>2, <2>3, <2>4 DEF IInv
<1> QED
  BY <1>3, <1>4, <1>5, <1>6, <1>7, <1>8, <1>9 DEF JobStep

-----------------------------------------------------------------------------
(* Before the first start there are no rows, coroutines or history.        *)
LEMMA InitIInv == Init => IInv
<1> SUFFICES ASSUME Init PROVE IInv
  OBVIOUS
<1>1. /\ \A t \in Tasks : row[t] = AbsentRow /\ attempts[t] = 0 /\ before[t] = 0
      /\ history = {} /\ jobs = {} /\ acked = {} /\ ~Alive
  BY DEF Init, Alive
<1>2. AbsentRow.status = "absent" /\ ~AbsentRow.cancelRequested
  BY DEF AbsentRow
<1>3. JobsInv /\ RunsInv
  BY <1>1, <1>2 DEF JobsInv, OneJobPerRow, RunsInv, OneRunPerLife
<1>4. AcksInv /\ DoneIsInHistory /\ HistoryInv
  BY <1>1, <1>2 DEF AcksInv, DoneIsInHistory, HistoryInv
<1> QED
  BY <1>3, <1>4, InitTypeOK DEF IInv

(* The invariant is inductive: one numbered step per action of the server, *)
(* the handlers, the loop and the coroutines.                              *)
LEMMA NextIInv == IInv /\ [Next]_vars => IInv'
<1> SUFFICES ASSUME IInv, [Next]_vars PROVE IInv'
  OBVIOUS
<1>1. TypeOK'
  BY NextTypeOK DEF IInv
<1>2. dbErrors \in Nat /\ crashes \in Nat
  BY DEF IInv, TypeOK
<1>3. CASE Start
  BY <1>1, <1>3, StartIInv
<1>4. CASE Stop \/ StopReturns \/ Poll \/ Drop
  BY <1>1, <1>2, <1>4, Unaffected
  DEF Stop, StopReturns, Poll, Drop, Alive, disk, ghost
<1>5. CASE PollFails \/ ClaimFails
  BY <1>1, <1>2, <1>5, Unaffected
  DEF PollFails, ClaimFails, DbError, Alive, disk
<1>6. CASE Exit \/ Crash
  BY <1>1, <1>2, <1>6, ProcessEndsIInv DEF Exit, Crash
<1>7. ASSUME NEW t \in Tasks, Submit(t) \/ SubmitFails(t)
      PROVE  IInv'
  BY <1>1, <1>7, SubmitIInv
<1>8. ASSUME NEW t \in Tasks, Cancel(t)
      PROVE  IInv'
  BY <1>1, <1>8, CancelIInv
<1>9. CASE Claim
  BY <1>1, <1>9, ClaimIInv
<1>10. ASSUME NEW j \in jobs, JobStep(j)
       PROVE  IInv'
  BY <1>1, <1>10, JobStepIInv
<1>11. CASE UNCHANGED vars
  BY <1>1, <1>2, <1>11, Unaffected DEF vars, disk, proc, ghost, Alive
<1> QED
  BY <1>3, <1>4, <1>5, <1>6, <1>7, <1>8, <1>9, <1>10, <1>11 DEF Next

(* The inductive invariant holds in every reachable state.                 *)
THEOREM Invariance == Spec => []IInv
BY InitIInv, NextIInv, PTL DEF Spec

(* mark_running's conditional UPDATE gives each running row to one         *)
(* coroutine at most, however many were spawned for it.                    *)
THEOREM OneJobPerRowHolds == Spec => []OneJobPerRow
<1>1. IInv => OneJobPerRow
  BY DEF IInv, JobsInv
<1> QED
  BY <1>1, Invariance, PTL

(* The worker sends a task to the provider at most once in each life of    *)
(* the server, counted from the start of that life.                        *)
THEOREM OneRunPerLifeHolds == Spec => []OneRunPerLife
<1>1. IInv => OneRunPerLife
  BY DEF IInv, RunsInv
<1> QED
  BY <1>1, Invariance, PTL

(* A done task's analysis_id always names a row of its history.            *)
THEOREM DoneIsInHistoryHolds == Spec => []DoneIsInHistory
<1>1. IInv => DoneIsInHistory
  BY DEF IInv
<1> QED
  BY <1>1, Invariance, PTL

(* A task whose cancellation was answered with 200 is never done, over any *)
(* number of crashes, restarts and failing statements.                     *)
THEOREM CancelIsFinalHolds == Spec => []CancelIsFinal
<1>1. IInv => CancelIsFinal
  BY DEF IInv, AcksInv, CancelIsFinal
<1> QED
  BY <1>1, Invariance, PTL

(* Without a crash or a failing statement the history holds nothing but    *)
(* the results of done tasks and of those about to be marked done.         *)
THEOREM HistoryIsOfDoneTasksHolds == Spec => []HistoryIsOfDoneTasks
<1>1. IInv => HistoryIsOfDoneTasks
  BY DEF IInv, HistoryInv, HistoryIsOfDoneTasks
<1> QED
  BY <1>1, Invariance, PTL

-----------------------------------------------------------------------------
(* Refinement: what the clients of the queue see.                          *)
ShownStatus == [t \in Tasks |-> row[t].status]
ShownWanted == {t \in Tasks : row[t].cancelRequested}

(* An empty table is an empty queue.                                       *)
LEMMA InitSimulates == Init => Promise!Init
<1> SUFFICES ASSUME Init PROVE Promise!Init
  OBVIOUS
<1>1. \A t \in Tasks : row[t].status = "absent" /\ ~row[t].cancelRequested
  BY DEF Init, AbsentRow
<1>2. [t \in Tasks |-> row[t].status] = [t \in Tasks |-> "absent"]
  BY <1>1
<1>3. {t \in Tasks : row[t].cancelRequested} = {}
  BY <1>1
<1> QED
  BY <1>2, <1>3 DEF Promise!Init

(* A write of one status column, seen from outside.                        *)
LEMMA ShownUpdate ==
  ASSUME TypeOK, NEW t \in Tasks, NEW s, SetStatus(t, s)
  PROVE  /\ ShownStatus' = [ShownStatus EXCEPT ![t] = s]
         /\ ShownWanted' = ShownWanted
<1>1. \A u \in Tasks :
        /\ row'[u].status = IF u = t THEN s ELSE row[u].status
        /\ row'[u].cancelRequested = row[u].cancelRequested
  BY SetStatusRows
<1>2. ShownStatus' = [ShownStatus EXCEPT ![t] = s]
  BY <1>1 DEF ShownStatus
<1>3. ShownWanted' = ShownWanted
  BY <1>1 DEF ShownWanted
<1> QED
  BY <1>2, <1>3

(* A coroutine that ends settles its task, or leaves it as it is.          *)
LEMMA JobStepSimulates ==
  ASSUME IInv, NEW j \in jobs, JobStep(j)
  PROVE  Promise!Settle(j.task) \/ UNCHANGED row
<1>1. j.task \in Tasks /\ row[j.task].status = "running"
  BY DEF IInv, TypeOK, Job, JobsInv, OneJobPerRow
<1>2. ASSUME NEW s \in Settled, SetStatus(j.task, s),
             s = "done" => ~row[j.task].cancelRequested,
             s = "cancelled" => row[j.task].cancelRequested
      PROVE  Promise!Settle(j.task)
  <2>1. /\ ShownStatus' = [ShownStatus EXCEPT ![j.task] = s]
        /\ ShownWanted' = ShownWanted
    BY <1>1, <1>2, ShownUpdate DEF IInv
  <2>2. /\ ShownStatus[j.task] = "running"
        /\ s = "done" => j.task \notin ShownWanted
        /\ s = "cancelled" => j.task \in ShownWanted
    BY <1>1, <1>2 DEF ShownStatus, ShownWanted
  <2> QED BY <2>1, <2>2
          DEF Promise!Settle, Promise!Terminal, Settled, ShownStatus, ShownWanted
<1>3. CASE FinishCancelled(j)
  BY <1>2, <1>3 DEF FinishCancelled, Settled
<1>4. CASE MarkDone(j)
  <2>1. ~row[j.task].cancelRequested
    BY <1>4 DEF MarkDone, IInv, JobsInv
  <2>2. \A u \in Tasks :
          /\ row'[u].status = IF u = j.task THEN "done" ELSE row[u].status
          /\ row'[u].cancelRequested = row[u].cancelRequested
    <3> SUFFICES ASSUME NEW u \in Tasks
                 PROVE  /\ row'[u].status = IF u = j.task THEN "done"
                                            ELSE row[u].status
                        /\ row'[u].cancelRequested = row[u].cancelRequested
      OBVIOUS
    <3>1. /\ row[u] \in Row
          /\ row'[u] = IF u = j.task
                       THEN [row[u] EXCEPT !.status = "done",
                                           !.analysis = j.attempt]
                       ELSE row[u]
      BY <1>4 DEF MarkDone, IInv, TypeOK
    <3> QED BY <3>1 DEF Row
  <2>3. /\ ShownStatus' = [ShownStatus EXCEPT ![j.task] = "done"]
        /\ ShownWanted' = ShownWanted
    BY <2>2 DEF ShownStatus, ShownWanted
  <2>4. ShownStatus[j.task] = "running" /\ j.task \notin ShownWanted
    BY <1>1, <2>1 DEF ShownStatus, ShownWanted
  <2> QED BY <2>3, <2>4
          DEF Promise!Settle, Promise!Terminal, ShownStatus, ShownWanted
<1>5. CASE JobFails(j) \/ MarkDoneFails(j)
  BY <1>2, <1>5 DEF JobFails, MarkDoneFails, OnError, Settled
<1>6. CASE Repair(j) \/ SaveHistory(j) \/ JobDies(j)
  BY <1>6 DEF Repair, SaveHistory, JobDies, disk
<1> QED
  BY <1>3, <1>4, <1>5, <1>6 DEF JobStep

(* batch_submit, whole or broken off, is one Submit of the promise.        *)
LEMMA SubmitSimulates ==
  ASSUME IInv, NEW last \in Tasks, Submit(last) \/ SubmitFails(last),
         NEW new, new = NewRows(last)
  PROVE  new \in SUBSET Tasks /\ Promise!Submit(new)
<1>1. /\ new # {} /\ new \subseteq Tasks
      /\ \A t \in new : row[t].status = "absent" /\ ~row[t].cancelRequested
  <2>1. new # {} /\ new \subseteq Tasks
    BY ConstantsAssumption DEF NewRows, Submit, SubmitFails, Tasks
  <2>2. \A t \in new : row[t].status = "absent"
    BY DEF NewRows
  <2> QED BY <2>1, <2>2 DEF IInv, RunsInv
<1>2. row' = Enqueued(new)
  BY DEF Submit, SubmitFails
<1>3. \A t \in Tasks :
        IF t \in new
        THEN row'[t].status = "queued" /\ ~row'[t].cancelRequested
        ELSE row'[t] = row[t]
  BY <1>2 DEF Enqueued, AbsentRow
<1>4. /\ ShownStatus' = [t \in Tasks |-> IF t \in new THEN "queued"
                                        ELSE ShownStatus[t]]
      /\ ShownWanted' = ShownWanted
      /\ \A t \in new : ShownStatus[t] = "absent"
  BY <1>1, <1>3 DEF ShownStatus, ShownWanted
<1> QED
  BY <1>1, <1>4 DEF Promise!Submit, ShownStatus, ShownWanted

(* cancel_task withdraws a queued task or records a request for a running  *)
(* one.                                                                    *)
LEMMA CancelSimulates ==
  ASSUME IInv, NEW t \in Tasks, Cancel(t)
  PROVE  Promise!Withdraw(t) \/ Promise!RequestCancel(t)
<1>1. \A u \in Tasks : row[u] \in Row
  BY DEF IInv, TypeOK
<1>2. \A u \in Tasks : row'[u] = IF u = t THEN CancelledRow(row[t]) ELSE row[u]
  BY <1>1 DEF Cancel, IInv, TypeOK
<1>3. CASE row[t].status = "queued"
  <2>1. \A u \in Tasks :
          /\ row'[u].status = IF u = t THEN "cancelled" ELSE row[u].status
          /\ row'[u].cancelRequested = row[u].cancelRequested
    BY <1>1, <1>2, <1>3 DEF CancelledRow, Row
  <2>2. /\ ShownStatus' = [ShownStatus EXCEPT ![t] = "cancelled"]
        /\ ShownWanted' = ShownWanted /\ ShownStatus[t] = "queued"
    BY <1>3, <2>1 DEF ShownStatus, ShownWanted
  <2> QED BY <2>2 DEF Promise!Withdraw, ShownStatus, ShownWanted
<1>4. CASE row[t].status = "running"
  <2>1. \A u \in Tasks :
          /\ row'[u].status = row[u].status
          /\ row'[u].cancelRequested = IF u = t THEN TRUE
                                       ELSE row[u].cancelRequested
    BY <1>1, <1>2, <1>4 DEF CancelledRow, Row
  <2>2. /\ ShownStatus' = ShownStatus /\ ShownStatus[t] = "running"
        /\ ShownWanted' = ShownWanted \cup {t}
    BY <1>4, <2>1 DEF ShownStatus, ShownWanted
  <2> QED BY <2>2 DEF Promise!RequestCancel, ShownStatus, ShownWanted
<1> QED
  BY <1>3, <1>4 DEF Cancel

(* recover_running_tasks is Requeue; the accepted cancellations survive.   *)
LEMMA StartSimulates == IInv /\ Start => Promise!Requeue
<1> SUFFICES ASSUME IInv, Start PROVE Promise!Requeue
  OBVIOUS
<1>1. \A t \in Tasks : row[t] \in Row /\ row'[t] = Recovered(row[t])
  BY DEF IInv, TypeOK, Start
<1>2. \A t \in Tasks :
        /\ row'[t].status = IF row[t].status = "running" THEN "queued"
                            ELSE row[t].status
        /\ row'[t].cancelRequested = row[t].cancelRequested
  BY <1>1 DEF Recovered, Row
<1>3. /\ ShownStatus' = [t \in Tasks |-> IF ShownStatus[t] = "running"
                                        THEN "queued" ELSE ShownStatus[t]]
      /\ ShownWanted' = ShownWanted
  BY <1>2 DEF ShownStatus, ShownWanted
<1> QED
  BY <1>3 DEF Promise!Requeue, ShownStatus, ShownWanted

(* A successful mark_running is Begin.                                     *)
LEMMA ClaimSimulates ==
  ASSUME IInv, Claim, NEW t, t = Head(waiting)
  PROVE  t \in Tasks /\ Promise!Begin(t)
<1>1. t \in Tasks
  BY HeadTailProperties DEF Claim, Admitted, IInv, TypeOK
<1>2. row[t].status = "queued" /\ SetStatus(t, "running")
  BY DEF Claim, MarksRunning, Queued
<1>3. /\ ShownStatus' = [ShownStatus EXCEPT ![t] = "running"]
      /\ ShownWanted' = ShownWanted /\ ShownStatus[t] = "queued"
  BY <1>1, <1>2, ShownUpdate DEF IInv, ShownStatus
<1>4. Promise!Begin(t)
  BY <1>3 DEF Promise!Begin, ShownStatus, ShownWanted
<1> QED
  BY <1>1, <1>4

(* Every step of the worker is a step of the promise or a stutter.         *)
LEMMA NextSimulates ==
  IInv /\ [Next]_vars => [Promise!Next]_(Promise!vars)
<1> SUFFICES ASSUME IInv, [Next]_vars
             PROVE  [Promise!Next]_(Promise!vars)
  OBVIOUS
<1>1. ASSUME UNCHANGED row
      PROVE  UNCHANGED Promise!vars
  BY <1>1 DEF Promise!vars
<1>2. CASE Start
  BY <1>2, StartSimulates DEF Promise!Next
<1>3. CASE Stop \/ StopReturns \/ Exit \/ Crash \/ Poll \/ PollFails \/ Drop
           \/ ClaimFails \/ UNCHANGED vars
  BY <1>1, <1>3 DEF Stop, StopReturns, Exit, Crash, ProcessEnds, Poll,
     PollFails, Drop, ClaimFails, vars, disk
<1>4. ASSUME NEW t \in Tasks, Submit(t) \/ SubmitFails(t)
      PROVE  Promise!Next
  <2>1. PICK new : new = NewRows(t)
    OBVIOUS
  <2> QED BY <1>4, <2>1, SubmitSimulates DEF Promise!Next
<1>5. ASSUME NEW t \in Tasks, Cancel(t)
      PROVE  Promise!Next
  BY <1>5, CancelSimulates DEF Promise!Next
<1>6. CASE Claim
  <2>1. PICK t : t = Head(waiting)
    OBVIOUS
  <2> QED BY <1>6, <2>1, ClaimSimulates DEF Promise!Next
<1>7. ASSUME NEW j \in jobs, JobStep(j)
      PROVE  [Promise!Next]_(Promise!vars)
  <2>1. j.task \in Tasks
    BY DEF IInv, TypeOK, Job
  <2> QED BY <1>1, <1>7, <2>1, JobStepSimulates DEF Promise!Next
<1> QED
  BY <1>2, <1>3, <1>4, <1>5, <1>6, <1>7 DEF Next

(* The worker, with its coroutines, its crashes and its failing database,  *)
(* keeps the promise of BatchQueue.                                        *)
THEOREM Refinement == Spec => ImplementsPromise
BY InitSimulates, NextSimulates, Invariance, PTL
DEF Spec, ImplementsPromise, Promise!Spec

-----------------------------------------------------------------------------
(* A step of the worker puts no row back into the queue.                   *)
LEMMA JobStepQueuesNothing ==
  ASSUME TypeOK, NEW j \in jobs, JobStep(j), NEW t \in Tasks, Queued(t)'
  PROVE  Queued(t)
<1>1. j.task \in Tasks /\ row[t] \in Row /\ row[j.task] \in Row
  BY DEF TypeOK, Job
<1>2. CASE UNCHANGED row
  BY <1>2 DEF Queued
<1>3. ASSUME NEW s \in {"done", "failed", "cancelled"}, row'[j.task].status = s,
             \A u \in Tasks : u # j.task => row'[u] = row[u]
      PROVE  Queued(t)
  BY <1>1, <1>3 DEF Queued
<1>4. CASE FinishCancelled(j) \/ JobFails(j) \/ MarkDoneFails(j)
  BY <1>1, <1>3, <1>4 DEF FinishCancelled, JobFails, MarkDoneFails, SetStatus,
                         OnError, TypeOK, Row
<1>5. CASE MarkDone(j)
  BY <1>1, <1>3, <1>5 DEF MarkDone, TypeOK, Row
<1>6. CASE Repair(j) \/ SaveHistory(j) \/ JobDies(j)
  BY <1>2, <1>6 DEF Repair, SaveHistory, JobDies, disk
<1> QED
  BY <1>4, <1>5, <1>6 DEF JobStep

LEMMA NextAwake == IInv /\ NoLazySleep /\ [Next]_vars => NoLazySleep'
<1> SUFFICES ASSUME IInv, NoLazySleep, [Next]_vars,
                    loop' = "sleeping", backedOff', ~wake', dbErrors' = 0,
                    NEW t \in Tasks, Queued(t)'
             PROVE  FALSE
  BY DEF NoLazySleep
<1>1. TypeOK /\ dbErrors \in Nat
  BY DEF IInv, TypeOK
<1>2. ASSUME UNCHANGED <<loop, backedOff, wake, dbErrors>>, Queued(t)
      PROVE  FALSE
  BY <1>2 DEF NoLazySleep
<1>3. CASE Start \/ StopReturns \/ Exit \/ Crash \/ PollFails
  BY <1>3 DEF Start, StopReturns, Exit, Crash, ProcessEnds, PollFails
<1>4. CASE Stop \/ Drop \/ UNCHANGED vars
  BY <1>2, <1>4 DEF Stop, Drop, vars, disk, proc, ghost, Queued
<1>5. CASE ClaimFails
  BY <1>1, <1>5 DEF ClaimFails, DbError
<1>6. ASSUME NEW u \in Tasks, Submit(u) PROVE FALSE
  BY <1>6 DEF Submit, Notified
<1>7. ASSUME NEW u \in Tasks, SubmitFails(u) PROVE FALSE
  BY <1>1, <1>7 DEF SubmitFails, DbError
<1>8. ASSUME NEW u \in Tasks, Cancel(u) PROVE FALSE
  <2>1. Queued(t)
    BY <1>1, <1>8 DEF Cancel, CancelledRow, Queued, TypeOK, Row
  <2> QED
    BY <1>2, <1>8, <2>1 DEF Cancel, proc
<1>9. CASE Poll
  <2>1. PICK fetched \in FetchQueued : backedOff' = (fetched = << >>)
    BY <1>9 DEF Poll
  <2>2. fetched = << >>
    BY <2>1
  <2>3. Queued(t)
    BY <1>9 DEF Poll, disk, Queued
  <2>4. Len(fetched) = Concurrency
    BY <2>2, <2>3 DEF FetchQueued
  <2> QED
    BY <2>2, <2>4, ConstantsAssumption
<1>10. CASE Claim
  <2>1. Queued(t)
    <3>1. PICK u : u = Head(waiting)
      OBVIOUS
    <3>2. u \in Tasks /\ SetStatus(u, "running")
      BY <1>1, <1>10, <3>1, HeadTailProperties DEF Claim, Admitted, TypeOK
    <3> QED
      BY <1>1, <3>2 DEF SetStatus, Queued, TypeOK, Row
  <2> QED
    BY <1>2, <1>10, <2>1 DEF Claim
<1>11. ASSUME NEW j \in jobs, JobStep(j) PROVE FALSE
  <2>1. Queued(t)
    BY <1>1, <1>11, JobStepQueuesNothing
  <2>2. UNCHANGED <<loop, backedOff, wake>>
    BY <1>11 DEF JobStep, Repair, FinishCancelled, SaveHistory, MarkDone, JobFails,
                 MarkDoneFails, JobDies
  <2>3. dbErrors = 0
    <3>1. CASE MarkDoneFails(j) \/ JobDies(j)
      <4>1. dbErrors' = dbErrors + 1
        BY <3>1 DEF MarkDoneFails, JobDies, DbError
      <4> QED
        BY <1>1, <4>1
    <3>2. CASE Repair(j) \/ FinishCancelled(j) \/ SaveHistory(j) \/ MarkDone(j) \/ JobFails(j)
      BY <3>2 DEF Repair, FinishCancelled, SaveHistory, MarkDone, JobFails, ghost
    <3> QED
      BY <1>11, <3>1, <3>2 DEF JobStep
  <2> QED
    BY <2>1, <2>2, <2>3 DEF NoLazySleep
<1> QED
  BY <1>3, <1>4, <1>5, <1>6, <1>7, <1>8, <1>9, <1>10, <1>11 DEF Next

(* The loop never sleeps its longer interval over a queued row without     *)
(* having been notified, whatever the order of polls, submissions, claims  *)
(* and restarts, as long as no statement has raised.                       *)
THEOREM NoLazySleepHolds == Spec => []NoLazySleep
<1>1. Init => NoLazySleep
  BY DEF Init, NoLazySleep
<1> QED
  BY <1>1, NextAwake, Invariance, PTL DEF Spec

-----------------------------------------------------------------------------
(* The order of the queue.  Rows come into being in the order of their     *)
(* numbers, only existing rows have coroutines, no coroutine outlives the  *)
(* process, and before the first failure of a statement a queued row that  *)
(* is waited for has all older queued rows before it in the FIFO.          *)
InOrder(line) ==
  \A i \in 1..Len(line), u \in Tasks :
    Queued(line[i]) /\ Queued(u) /\ u < line[i] =>
      \E k \in 1..(i - 1) : line[k] = u

OrderInv ==
  /\ \A t, u \in Tasks :
       u < t /\ row[u].status = "absent" => row[t].status = "absent"
  /\ \A i \in 1..Len(waiting) : row[waiting[i]].status # "absent"
  /\ ~Alive => waiting = << >>
  /\ dbErrors = 0 => InOrder(waiting)

(* Rows leave the queue, and no row comes into being or is put back: what  *)
(* waits stays in order.                                                   *)
LEMMA LeavingKeepsOrder ==
  ASSUME TypeOK, OrderInv, UNCHANGED waiting, Alive, Alive',
         dbErrors' = 0 => dbErrors = 0,
         \A t \in Tasks : row'[t].status = "absent" <=> row[t].status = "absent",
         \A t \in Tasks : Queued(t)' => Queued(t)
  PROVE  OrderInv'
<1>1. \A i \in 1..Len(waiting) : waiting[i] \in Tasks
  BY ElementOfSeq DEF TypeOK
<1>2. \A t, u \in Tasks :
        u < t /\ row'[u].status = "absent" => row'[t].status = "absent"
  BY DEF OrderInv
<1>3. \A i \in 1..Len(waiting) : row'[waiting[i]].status # "absent"
  BY <1>1 DEF OrderInv
<1>4. InOrder(waiting) => InOrder(waiting)'
  BY <1>1 DEF InOrder
<1> QED
  BY <1>2, <1>3, <1>4 DEF OrderInv

(* The head of the FIFO is gone, and is not queued any more.               *)
LEMMA HeadKeepsOrder ==
  ASSUME TypeOK, OrderInv, waiting # << >>, waiting' = Tail(waiting), Alive',
         dbErrors' = 0 =>
           dbErrors = 0 /\ row'[Head(waiting)].status # "queued",
         \A t \in Tasks : row'[t].status = "absent" <=> row[t].status = "absent",
         \A t \in Tasks : Queued(t)' => Queued(t)
  PROVE  OrderInv'
<1>1. /\ waiting \in Seq(Tasks) /\ Len(waiting) \in Nat /\ Len(waiting) > 0
      /\ \A i \in 1..Len(waiting) : waiting[i] \in Tasks
  BY ElementOfSeq, LenProperties, EmptySeq DEF TypeOK
<1>2. /\ Len(waiting') = Len(waiting) - 1
      /\ \A i \in 1..Len(waiting') : waiting'[i] = waiting[i + 1]
      /\ Head(waiting) = waiting[1]
  BY <1>1, HeadTailProperties
<1>3. \A t, u \in Tasks :
        u < t /\ row'[u].status = "absent" => row'[t].status = "absent"
  BY DEF OrderInv
<1>4. \A i \in 1..Len(waiting') :
        i + 1 \in 1..Len(waiting) /\ waiting'[i] \in Tasks
  BY <1>1, <1>2
<1>5. \A i \in 1..Len(waiting') : row'[waiting'[i]].status # "absent"
  BY <1>1, <1>2, <1>4 DEF OrderInv
<1>6. \A t \in Tasks : row'[t].status = "queued" => row[t].status = "queued"
  BY DEF Queued
<1>7. ASSUME dbErrors' = 0, NEW i \in 1..Len(waiting'), NEW u \in Tasks,
             row'[waiting'[i]].status = "queued", row'[u].status = "queued",
             u < waiting'[i]
      PROVE  \E k \in 1..(i - 1) : waiting'[k] = u
  <2>1. /\ waiting'[i] = waiting[i + 1] /\ i + 1 \in 1..Len(waiting)
        /\ waiting'[i] \in Tasks /\ i + 1 - 1 = i
    BY <1>2, <1>4
  <2>2. Queued(waiting[i + 1]) /\ Queued(u) /\ u < waiting[i + 1]
    BY <1>6, <1>7, <2>1 DEF Queued
  <2>3. PICK k \in 1..i : waiting[k] = u
    <3>1. InOrder(waiting)
      BY <1>7 DEF OrderInv
    <3>2. \E k \in 1..(i + 1 - 1) : waiting[k] = u
      BY <2>1, <2>2, <3>1 DEF InOrder
    <3> QED
      BY <2>1, <3>2
  <2>4. k # 1
    BY <1>2, <1>7, <2>3
  <2>5. k - 1 \in 1..(i - 1) /\ k - 1 \in 1..Len(waiting') /\ k - 1 + 1 = k
    BY <1>1, <1>2, <2>1, <2>3, <2>4
  <2>6. waiting'[k - 1] = u
    BY <1>2, <2>3, <2>5
  <2> QED
    BY <2>5, <2>6
<1>8. dbErrors' = 0 => InOrder(waiting)'
  BY <1>7 DEF InOrder, Queued
<1> QED
  BY <1>3, <1>5, <1>8 DEF OrderInv

(* A poll appends the oldest queued rows: one that is older than any of    *)
(* them is one of them, in its place.                                      *)
LEMMA PollKeepsOrder == ASSUME TypeOK, OrderInv, Poll PROVE OrderInv'
<1>1. PICK fetched \in FetchQueued : waiting' = waiting \o fetched
  BY DEF Poll
<1>2. /\ waiting \in Seq(Tasks) /\ fetched \in Seq(Tasks)
      /\ Len(waiting) \in Nat /\ Len(fetched) \in Nat
      /\ DOMAIN fetched = 1..Len(fetched)
      /\ \A i \in 1..Len(waiting) : waiting[i] \in Tasks
      /\ \A i \in 1..Len(fetched) : fetched[i] \in Tasks
  BY FetchedIsSequence, ElementOfSeq, LenProperties DEF TypeOK
<1>3. /\ Len(waiting') = Len(waiting) + Len(fetched)
      /\ \A i \in 1..Len(waiting) : waiting'[i] = waiting[i]
      /\ \A i \in 1..Len(fetched) : waiting'[Len(waiting) + i] = fetched[i]
  <2>1. /\ Len(waiting \o fetched) = Len(waiting) + Len(fetched)
        /\ \A i \in 1..(Len(waiting) + Len(fetched)) :
             (waiting \o fetched)[i] = IF i <= Len(waiting) THEN waiting[i]
                                       ELSE fetched[i - Len(waiting)]
    BY <1>2, ConcatProperties
  <2> QED
    BY <1>1, <1>2, <2>1
<1>4. UNCHANGED <<row, dbErrors>> /\ Alive /\ Alive'
  BY DEF Poll, disk, ghost, Alive
<1>5. /\ \A i \in 1..Len(fetched) : Queued(fetched[i])
      /\ \A i, j \in 1..Len(fetched) : i < j => fetched[i] < fetched[j]
      /\ \A t \in Tasks : Queued(t) /\ (\A i \in 1..Len(fetched) : fetched[i] # t) =>
           \A i \in 1..Len(fetched) : fetched[i] < t
  BY <1>2 DEF FetchQueued
<1>6. ASSUME NEW i \in 1..Len(waiting')
      PROVE  \/ i \in 1..Len(waiting)
             \/ i - Len(waiting) \in 1..Len(fetched)
                /\ i = Len(waiting) + (i - Len(waiting))
  BY <1>2, <1>3
<1>7. ASSUME NEW i \in 1..Len(waiting')
      PROVE  row'[waiting'[i]].status # "absent"
  <2>1. CASE i \in 1..Len(waiting)
    BY <1>3, <1>4, <2>1 DEF OrderInv
  <2>2. CASE i - Len(waiting) \in 1..Len(fetched)
    <3>1. waiting'[i] = fetched[i - Len(waiting)]
      BY <1>3, <1>6, <2>2
    <3> QED
      BY <1>4, <1>5, <2>2, <3>1 DEF Queued
  <2> QED
    BY <1>6, <2>1, <2>2
<1>8. ASSUME dbErrors = 0, NEW i \in 1..Len(waiting'), NEW u \in Tasks,
             Queued(waiting'[i]), Queued(u), u < waiting'[i]
      PROVE  \E k \in 1..(i - 1) : waiting'[k] = u
  <2>1. CASE i \in 1..Len(waiting)
    <3>1. PICK k \in 1..(i - 1) : waiting[k] = u
      BY <1>3, <1>8, <2>1 DEF OrderInv, InOrder
    <3>2. k \in 1..Len(waiting)
      BY <1>2, <2>1
    <3> QED
      BY <1>3, <3>1, <3>2
  <2>2. CASE i - Len(waiting) \in 1..Len(fetched)
    <3> DEFINE m == i - Len(waiting)
    <3>1. waiting'[i] = fetched[m] /\ fetched[m] \in Tasks /\ i \in Int
      BY <1>2, <1>3, <2>2
    <3>2. PICK k \in 1..Len(fetched) : fetched[k] = u
      <4>1. ~(fetched[m] < u)
        BY <1>8, <3>1 DEF Tasks
      <4> QED
        BY <1>5, <1>8, <2>2, <4>1
    <3>3. k < m
      <4>1. ~(fetched[m] <= fetched[k])
        BY <1>8, <3>1, <3>2 DEF Tasks
      <4>2. k # m /\ ~(m < k)
        BY <1>5, <2>2, <3>2, <4>1, <3>1 DEF Tasks
      <4> QED
        BY <1>2, <2>2, <3>2, <4>2
    <3>4. Len(waiting) + k \in 1..(i - 1)
      BY <1>2, <2>2, <3>1, <3>2, <3>3
    <3> QED
      BY <1>3, <3>2, <3>4
  <2> QED
    BY <1>6, <2>1, <2>2
<1>9. dbErrors' = 0 => InOrder(waiting)'
  BY <1>4, <1>8 DEF InOrder, Queued
<1> QED
  BY <1>4, <1>7, <1>9 DEF OrderInv

(* New rows are younger than all that exist.                               *)
LEMMA SubmitKeepsOrder ==
  ASSUME TypeOK, OrderInv, NEW last \in Tasks, Submit(last) \/ SubmitFails(last)
  PROVE  OrderInv'
<1> DEFINE new == NewRows(last)
<1>1. /\ row' = Enqueued(new) /\ UNCHANGED waiting /\ Alive /\ Alive'
      /\ dbErrors \in Nat /\ dbErrors' \in {dbErrors, dbErrors + 1}
  BY DEF Submit, SubmitFails, DbError, ghost, proc, Alive, TypeOK
<1>2. \A t \in Tasks : t \in new <=> t <= last /\ row[t].status = "absent"
  BY DEF NewRows, Tasks
<1>3. \A t \in Tasks :
        row'[t].status = IF t \in new THEN "queued" ELSE row[t].status
  BY <1>1 DEF Enqueued, AbsentRow
<1> HIDE DEF new
<1>4. \A i \in 1..Len(waiting) : waiting[i] \in Tasks
  BY ElementOfSeq DEF TypeOK
<1>5. \A t, u \in Tasks :
        u < t /\ row'[u].status = "absent" => row'[t].status = "absent"
  BY <1>2, <1>3 DEF OrderInv, Tasks
<1>6. \A i \in 1..Len(waiting) :
        row'[waiting[i]].status # "absent" /\ waiting[i] \notin new
  BY <1>2, <1>3, <1>4 DEF OrderInv
<1>7. ASSUME dbErrors = 0, NEW i \in 1..Len(waiting), NEW u \in Tasks,
             Queued(waiting[i])', Queued(u)', u < waiting[i]
      PROVE  \E k \in 1..(i - 1) : waiting[k] = u
  <2>1. row[waiting[i]].status # "absent"
    BY DEF OrderInv
  <2>2. row[u].status # "absent"
    BY <1>4, <1>7, <2>1 DEF OrderInv
  <2>3. Queued(u) /\ Queued(waiting[i])
    BY <1>1, <1>2, <1>3, <1>4, <1>6, <1>7, <2>2 DEF Queued
  <2> QED
    BY <1>7, <2>3 DEF OrderInv, InOrder
<1>8. dbErrors' = 0 => InOrder(waiting)'
  BY <1>1, <1>7 DEF InOrder
<1> QED
  BY <1>1, <1>5, <1>6, <1>8 DEF OrderInv

(* A restart puts rows back, but nobody waits any more.                    *)
LEMMA NobodyWaitsInOrder ==
  ASSUME TypeOK, OrderInv, waiting' = << >>,
         \A t \in Tasks : row'[t].status = "absent" <=> row[t].status = "absent"
  PROVE  OrderInv'
<1>1. Len(waiting') = 0
  BY EmptySeq
<1>2. \A t, u \in Tasks :
        u < t /\ row'[u].status = "absent" => row'[t].status = "absent"
  BY DEF OrderInv
<1> QED
  BY <1>1, <1>2 DEF OrderInv, InOrder

LEMMA JobStepKeepsOrder ==
  ASSUME IInv, OrderInv, NEW j \in jobs, JobStep(j)
  PROVE  OrderInv'
<1>1. /\ TypeOK /\ j.task \in Tasks /\ row[j.task].status = "running"
      /\ dbErrors \in Nat /\ Alive
  BY DEF IInv, JobsInv, OneJobPerRow, TypeOK, Job
<1>2. /\ UNCHANGED waiting /\ Alive' /\ (dbErrors' = 0 => dbErrors = 0)
  <2>1. CASE Repair(j) \/ FinishCancelled(j) \/ SaveHistory(j) \/ MarkDone(j) \/ JobFails(j)
    BY <1>1, <2>1 DEF Repair, FinishCancelled, SaveHistory, MarkDone, JobFails,
                      Alive, ghost
  <2>2. CASE MarkDoneFails(j) \/ JobDies(j)
    BY <1>1, <2>2 DEF MarkDoneFails, JobDies, DbError, Alive
  <2> QED
    BY <2>1, <2>2 DEF JobStep
<1>3. \A t \in Tasks : row'[t].status = "absent" <=> row[t].status = "absent"
  <2>1. CASE Repair(j) \/ SaveHistory(j) \/ JobDies(j)
    BY <2>1 DEF Repair, SaveHistory, JobDies, disk
  <2>2. CASE FinishCancelled(j) \/ JobFails(j) \/ MarkDoneFails(j)
    BY <1>1, <2>2, SetStatusRows DEF FinishCancelled, JobFails, MarkDoneFails, OnError
  <2>3. CASE MarkDone(j)
    <3>1. row[j.task] \in Row
      BY <1>1 DEF TypeOK
    <3>2. row'[j.task].status = "done" /\ \A t \in Tasks : t # j.task => row'[t] = row[t]
      BY <1>1, <2>3, <3>1 DEF MarkDone, TypeOK, Row
    <3> QED
      BY <1>1, <3>2
  <2> QED
    BY <2>1, <2>2, <2>3 DEF JobStep
<1>4. \A t \in Tasks : Queued(t)' => Queued(t)
  BY <1>1, JobStepQueuesNothing
<1> QED
  BY <1>1, <1>2, <1>3, <1>4, LeavingKeepsOrder

LEMMA NextInOrder == IInv /\ OrderInv /\ [Next]_vars => OrderInv'
<1> SUFFICES ASSUME IInv, OrderInv, [Next]_vars PROVE OrderInv'
  OBVIOUS
<1>1. TypeOK /\ dbErrors \in Nat
  BY DEF IInv, TypeOK
<1>2. CASE Start
  <2>1. \A t \in Tasks : row'[t].status = "absent" <=> row[t].status = "absent"
    BY <1>1, <1>2 DEF Start, Recovered, TypeOK, Row
  <2>2. waiting' = << >>
    BY <1>2 DEF Start, OrderInv, Alive
  <2> QED
    BY <1>1, <2>1, <2>2, NobodyWaitsInOrder
<1>3. CASE Exit \/ Crash
  BY <1>1, <1>3, NobodyWaitsInOrder DEF Exit, Crash, ProcessEnds, disk
<1>4. CASE Stop \/ StopReturns
  BY <1>4 DEF Stop, StopReturns, disk, ghost, OrderInv, InOrder, Queued, Alive
<1>5. CASE UNCHANGED vars
  BY <1>5 DEF vars, disk, proc, ghost, OrderInv, InOrder, Queued, Alive
<1>6. CASE PollFails
  <2>1. UNCHANGED <<row, waiting, server>> /\ dbErrors' # 0
    BY <1>1, <1>6 DEF PollFails, DbError, disk
  <2> QED
    BY <2>1 DEF OrderInv, Alive
<1>7. ASSUME NEW t \in Tasks, Submit(t) \/ SubmitFails(t) PROVE OrderInv'
  BY <1>1, <1>7, SubmitKeepsOrder
<1>8. ASSUME NEW t \in Tasks, Cancel(t) PROVE OrderInv'
  <2>1. /\ row[t] \in Row /\ row'[t] = CancelledRow(row[t])
        /\ row[t].status \in {"queued", "running"}
        /\ \A u \in Tasks : u # t => row'[u] = row[u]
    BY <1>1, <1>8 DEF Cancel, TypeOK
  <2>2. row'[t].status \in {"cancelled", "running"}
    BY <2>1 DEF CancelledRow, Row
  <2>3. UNCHANGED waiting /\ Alive /\ Alive' /\ dbErrors' = dbErrors
    BY <1>8 DEF Cancel, proc, Alive
  <2> QED
    BY <1>1, <2>1, <2>2, <2>3, LeavingKeepsOrder DEF Queued
<1>9. CASE Poll
  BY <1>1, <1>9, PollKeepsOrder
<1>10. CASE Claim
  <2>1. PICK t : t = Head(waiting)
    OBVIOUS
  <2>2. /\ t \in Tasks /\ Queued(t) /\ SetStatus(t, "running")
        /\ waiting # << >> /\ waiting' = Tail(waiting)
        /\ Alive' /\ dbErrors' = dbErrors
    BY <1>1, <1>10, <2>1, HeadTailProperties
    DEF Claim, Admitted, MarksRunning, TypeOK, Alive
  <2>3. \A u \in Tasks :
          row'[u].status = IF u = t THEN "running" ELSE row[u].status
    BY <1>1, <2>2, SetStatusRows
  <2> QED
    BY <1>1, <2>1, <2>2, <2>3, HeadKeepsOrder DEF Queued
<1>11. CASE Drop
  <2>1. /\ waiting # << >> /\ waiting' = Tail(waiting) /\ Alive'
        /\ ~Queued(Head(waiting)) /\ UNCHANGED <<row, dbErrors>>
    BY <1>11 DEF Drop, Admitted, MarksRunning, Alive, disk, ghost
  <2> QED
    BY <1>1, <2>1, HeadKeepsOrder DEF Queued
<1>12. CASE ClaimFails
  <2>1. /\ waiting # << >> /\ waiting' = Tail(waiting) /\ Alive'
        /\ dbErrors' # 0 /\ UNCHANGED row
    BY <1>1, <1>12 DEF ClaimFails, Admitted, DbError, Alive, disk
  <2> QED
    BY <1>1, <2>1, HeadKeepsOrder DEF Queued
<1>13. ASSUME NEW j \in jobs, JobStep(j) PROVE OrderInv'
  BY <1>13, JobStepKeepsOrder
<1> QED
  BY <1>2, <1>3, <1>4, <1>5, <1>6, <1>7, <1>8, <1>9, <1>10, <1>11, <1>12, <1>13
  DEF Next

LEMMA InitInOrder == Init => OrderInv
<1> SUFFICES ASSUME Init PROVE OrderInv
  OBVIOUS
<1>1. waiting = << >> /\ Len(waiting) = 0 /\ \A t \in Tasks : row[t].status = "absent"
  BY EmptySeq DEF Init, AbsentRow
<1> QED
  BY <1>1 DEF OrderInv, InOrder

(* Only a claim starts a task, and it takes the head of the FIFO.          *)
LEMMA StartsInOrder ==
  ASSUME IInv, OrderInv, [Next]_vars, NEW t \in Tasks, Queued(t),
         row'[t].status = "running", dbErrors = 0, NEW u \in Tasks, u < t
  PROVE  ~Queued(u)
<1>1. TypeOK /\ row[t] \in Row
  BY DEF IInv, TypeOK
<1>2. CASE Claim
  <2>1. PICK h : h = Head(waiting)
    OBVIOUS
  <2>2. /\ h \in Tasks /\ SetStatus(h, "running")
        /\ waiting \in Seq(Tasks) /\ waiting # << >>
    BY <1>1, <1>2, <2>1, HeadTailProperties DEF Claim, Admitted, TypeOK
  <2>3. t = h
    BY <1>1, <2>2, SetStatusRows DEF Queued
  <2>4. 1 \in 1..Len(waiting) /\ waiting[1] = h
    BY <2>1, <2>2, EmptySeq
  <2> QED
    BY <2>3, <2>4 DEF OrderInv, InOrder
<1>3. ASSUME row'[t] = row[t] PROVE FALSE
  BY <1>3 DEF Queued
<1>4. CASE Start
  BY <1>1, <1>4 DEF Start, Recovered, Queued
<1>5. CASE Stop \/ StopReturns \/ Exit \/ Crash \/ Poll \/ PollFails \/ Drop
           \/ ClaimFails \/ UNCHANGED vars
  BY <1>3, <1>5 DEF Stop, StopReturns, Exit, Crash, ProcessEnds, Poll, PollFails,
                    Drop, ClaimFails, vars, disk
<1>6. ASSUME NEW s \in Tasks, Submit(s) \/ SubmitFails(s) PROVE FALSE
  BY <1>6 DEF Submit, SubmitFails, Enqueued, AbsentRow, Queued
<1>7. ASSUME NEW s \in Tasks, Cancel(s) PROVE FALSE
  BY <1>1, <1>7 DEF Cancel, CancelledRow, Queued, TypeOK, Row
<1>8. ASSUME NEW j \in jobs, JobStep(j) PROVE FALSE
  <2>1. j.task \in Tasks /\ row[j.task].status = "running"
    BY DEF IInv, JobsInv, OneJobPerRow, TypeOK, Job
  <2>2. t # j.task
    BY <2>1 DEF Queued
  <2>3. row'[t] = row[t]
    BY <1>1, <1>8, <2>1, <2>2
    DEF JobStep, Repair, FinishCancelled, SaveHistory, MarkDone, JobFails,
        MarkDoneFails, JobDies, SetStatus, disk, TypeOK
  <2> QED
    BY <1>3, <2>3
<1> QED
  BY <1>2, <1>4, <1>5, <1>6, <1>7, <1>8 DEF Next

(* Tasks start in the order of created_at, whatever is fetched again, put  *)
(* back, cancelled or submitted meanwhile, until a statement raises.       *)
THEOREM OldestStartsFirstHolds == Spec => OldestStartsFirst
<1>1. IInv /\ OrderInv /\ [Next]_vars =>
        [\A t \in Tasks : Queued(t) /\ row'[t].status = "running" =>
           dbErrors > 0 \/ \A u \in Tasks : u < t => ~Queued(u)]_vars
  <2>1. IInv => dbErrors \in Nat
    BY DEF IInv, TypeOK
  <2> QED
    BY <2>1, StartsInOrder
<1>2. Spec => []OrderInv
  BY InitInOrder, NextInOrder, Invariance, PTL DEF Spec
<1> QED
  BY <1>1, <1>2, Invariance, PTL DEF Spec, OldestStartsFirst
=============================================================================
