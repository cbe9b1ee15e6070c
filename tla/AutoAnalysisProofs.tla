------------------------- MODULE AutoAnalysisProofs -------------------------
(***************************************************************************)
(* Theorems about AutoAnalysis, for every number of messages, tasks and    *)
(* threads, and over any failed, repeated or unanswered requests.          *)
(***************************************************************************)
EXTENDS AutoAnalysis, TLAPS

(* What the backend does on its own: it neither stores nor loses a task,   *)
(* and what has settled stays as it is.                                    *)
LEMMA BackendStep ==
  ASSUME TypeOK, Backend
  PROVE  /\ status' \in [Tasks -> Queue!Status] /\ wanted' \subseteq Tasks
         /\ \A t \in Tasks : status'[t] = "absent" <=> status[t] = "absent"
         /\ \A t \in Tasks :
              status[t] \in Queue!Terminal => status'[t] = status[t]
<1> USE DEF TypeOK, Queue!Status, Queue!Terminal
<1>1. CASE \E t \in Tasks : Queue!Begin(t)
  BY <1>1 DEF Queue!Begin
<1>2. CASE \E t \in Tasks : Queue!Settle(t)
  BY <1>2 DEF Queue!Settle
<1>3. CASE \E t \in Tasks : Queue!Withdraw(t)
  BY <1>3 DEF Queue!Withdraw
<1>4. CASE \E t \in Tasks : Queue!RequestCancel(t)
  BY <1>4 DEF Queue!RequestCancel
<1>5. CASE Queue!Requeue
  BY <1>5 DEF Queue!Requeue
<1> QED
  BY <1>1, <1>2, <1>3, <1>4, <1>5 DEF Backend

(* What a delivered request does: a task that was not there is stored, and *)
(* named in the answer.                                                    *)
LEMMA DeliverStep ==
  ASSUME TypeOK, NEW m \in Messages, NEW t \in Tasks, Deliver(m, t)
  PROVE  /\ status[t] = "absent" /\ wanted' = wanted
         /\ status' = [status EXCEPT ![t] = "queued"]
         /\ status'[t] = "queued" /\ about'[t] = m /\ reply'[m] = t
         /\ stage[m] \in {"sending", "delivered"}
         /\ \A u \in Tasks \ {t} :
              status'[u] = status[u] /\ about'[u] = about[u]
         /\ \A n \in Messages \ {m} :
              stage'[n] = stage[n] /\ reply'[n] = reply[n]
<1>1. /\ status[t] = "absent" /\ wanted' = wanted
      /\ status' = [u \in Tasks |-> IF u \in {t} THEN "queued" ELSE status[u]]
  BY DEF Deliver, Queue!Submit
<1>2. status' = [status EXCEPT ![t] = "queued"]
  BY <1>1 DEF TypeOK
<1>3. \A u \in Tasks \ {t} : about'[u] = about[u]
  BY DEF Deliver, TypeOK
<1>4. \A n \in Messages \ {m} : stage'[n] = stage[n] /\ reply'[n] = reply[n]
  BY DEF Deliver, TypeOK
<1>5. about'[t] = m /\ reply'[m] = t /\ stage[m] \in {"sending", "delivered"}
  BY DEF Deliver, TypeOK
<1> QED
  BY <1>1, <1>2, <1>3, <1>4, <1>5

-----------------------------------------------------------------------------
LEMMA InitIInv == Init => IInv
<1> SUFFICES ASSUME Init PROVE IInv
  OBVIOUS
<1> USE DEF Init, Queue!Init, NoAnswer
<1>1. TypeOK
  <2>1. status \in [Tasks -> Queue!Status] /\ wanted \subseteq Tasks
    BY DEF Queue!Status
  <2>2. shown \in [Tasks -> Seq(Settled)]
    OBVIOUS
  <2>3. answer \in [task : Tasks \cup {NoTask}, status : Queue!Status]
    BY DEF Queue!Status
  <2> QED
    BY <2>1, <2>2, <2>3 DEF TypeOK, Stages
<1>2. RepliesInv /\ AnswerInv /\ NothingForgotten
  BY DEF RepliesInv, AnswerInv, NothingForgotten
<1>3. HeldInv
  BY DEF HeldInv, Held
<1>4. ShownOnce /\ ShowsTheVerdict
  BY DEF ShownOnce, ShowsTheVerdict
<1> QED
  BY <1>1, <1>2, <1>3, <1>4 DEF IInv

(* A message is annotated only with what may be shown.                     *)
LEMMA AppendShown ==
  ASSUME NEW s \in Settled
  PROVE  /\ Append(<<>>, s) = <<s>> /\ <<s>> # <<>>
         /\ Len(<<s>>) = 1 /\ DOMAIN <<s>> = {1} /\ <<s>>[1] = s
OBVIOUS

(* Every step keeps the types; that a tracked task is a task needs the     *)
(* rest of the invariant.                                                  *)
LEMMA NextTypeOK == IInv /\ [Next]_vars => TypeOK'
<1> SUFFICES ASSUME IInv, [Next]_vars PROVE TypeOK'
  OBVIOUS
<1> USE DEF IInv, TypeOK, Stages, queueVars, postVars, pollVars
<1>1. CASE Backend
  BY <1>1, BackendStep DEF Backend
<1>2. ASSUME NEW m \in Messages, Submission(m) PROVE TypeOK'
  <2>1. CASE Capture(m)
    BY <2>1 DEF Capture
  <2>2. CASE Send(m)
    BY <2>2 DEF Send
  <2>3. CASE PostFails(m)
    BY <2>3 DEF PostFails
  <2>4. CASE Track(m)
    <3>1. reply[m] \in Tasks
      BY <2>4 DEF Track, RepliesInv
    <3> QED
      BY <2>4, <3>1 DEF Track
  <2>5. ASSUME NEW t \in Tasks, Deliver(m, t) PROVE TypeOK'
    <3>1. status' \in [Tasks -> Queue!Status] /\ wanted' = wanted
      BY <2>5, DeliverStep DEF Queue!Status
    <3>2. /\ about' \in [Tasks -> Messages \cup {NoMessage}]
          /\ stage' \in [Messages -> Stages]
          /\ reply' \in [Messages -> Tasks \cup {NoTask}]
          /\ UNCHANGED <<pollVars, engine>>
      BY <2>5 DEF Deliver
    <3> QED
      BY <3>1, <3>2
  <2> QED
    BY <1>2, <2>1, <2>2, <2>3, <2>4, <2>5 DEF Submission
<1>3. ASSUME NEW t \in Tasks, Visit(t) PROVE TypeOK'
  BY <1>3 DEF Visit, GetTask, FetchFails
<1>4. ASSUME NEW t \in Tasks, Resolve(t) PROVE TypeOK'
  <2>0. NoAnswer \in [task : Tasks \cup {NoTask}, status : Queue!Status]
    BY DEF NoAnswer, Queue!Status
  <2>1. CASE Unresolved(t)
    BY <2>0, <2>1 DEF Unresolved
  <2>2. CASE Forget(t)
    BY <2>0, <2>2 DEF Forget
  <2>3. CASE Highlight(t)
    <3>1. Append(shown[t], answer.status) \in Seq(Settled)
      BY <2>3 DEF Highlight, Final
    <3> QED
      BY <2>0, <2>3, <3>1 DEF Highlight
  <2> QED
    BY <1>4, <2>1, <2>2, <2>3 DEF Resolve
<1>5. CASE PollStarts \/ PollEnds
  BY <1>5 DEF PollStarts, PollEnds
<1>6. CASE StopPoller \/ StopExecutor
  BY <1>6 DEF StopPoller, StopExecutor
<1>7. CASE UNCHANGED vars
  BY <1>7 DEF vars
<1> QED
  BY <1>1, <1>2, <1>3, <1>4, <1>5, <1>6, <1>7 DEF Next

(* A message's task stays its task: a stored task is never stored anew.    *)
LEMMA NextReplies == IInv /\ [Next]_vars => RepliesInv'
<1> SUFFICES ASSUME IInv, [Next]_vars PROVE RepliesInv'
  OBVIOUS
<1> USE DEF RepliesInv, queueVars, postVars, pollVars
<1>0. TypeOK /\ RepliesInv
  BY DEF IInv
<1>1. CASE Backend
  <2>1. /\ stage' = stage /\ reply' = reply /\ about' = about
        /\ \A t \in Tasks : status'[t] = "absent" <=> status[t] = "absent"
    BY <1>0, <1>1, BackendStep DEF Backend
  <2> QED
    BY <1>0, <2>1
<1>2. ASSUME NEW m \in Messages, Submission(m) PROVE RepliesInv'
  <2>1. CASE Capture(m) \/ Send(m) \/ PostFails(m) \/ Track(m)
    <3>1. /\ status' = status /\ about' = about /\ reply' = reply
          /\ \A n \in Messages : stage'[n] \in {"delivered", "tracked"}
                                 => stage[n] \in {"delivered", "tracked"}
      BY <1>0, <2>1 DEF Capture, Send, PostFails, Track, TypeOK
    <3> QED
      BY <1>0, <3>1
  <2>2. ASSUME NEW t \in Tasks, Deliver(m, t) PROVE RepliesInv'
    <3>1. /\ status[t] = "absent" /\ status'[t] = "queued"
          /\ about'[t] = m /\ reply'[m] = t
          /\ \A u \in Tasks \ {t} :
               status'[u] = status[u] /\ about'[u] = about[u]
          /\ \A n \in Messages \ {m} :
               stage'[n] = stage[n] /\ reply'[n] = reply[n]
      BY <1>0, <2>2, DeliverStep
    <3>2. ASSUME NEW n \in Messages, stage'[n] \in {"delivered", "tracked"}
          PROVE  /\ reply'[n] \in Tasks /\ about'[reply'[n]] = n
                 /\ status'[reply'[n]] # "absent"
      <4>1. CASE n = m
        BY <3>1, <4>1
      <4>2. CASE n # m
        <5>1. /\ reply'[n] = reply[n] /\ reply[n] \in Tasks
              /\ about[reply[n]] = n /\ status[reply[n]] # "absent"
          BY <1>0, <3>1, <3>2, <4>2
        <5> QED
          BY <3>1, <5>1
      <4> QED
        BY <4>1, <4>2
    <3>3. ASSUME NEW u \in Tasks, status'[u] = "absent"
          PROVE  about'[u] = NoMessage
      BY <1>0, <3>1, <3>3
    <3> QED
      BY <3>2, <3>3
  <2> QED
    BY <1>2, <2>1, <2>2 DEF Submission
<1>3. CASE StopExecutor
  BY <1>0, <1>3 DEF StopExecutor, TypeOK
<1>4. CASE UNCHANGED <<status, about, stage, reply>>
  BY <1>0, <1>4
<1>5. ASSUME NEW t \in Tasks, Visit(t) \/ Resolve(t)
      PROVE  UNCHANGED <<status, about, stage, reply>>
  BY <1>5 DEF Visit, GetTask, FetchFails, Resolve, Unresolved, Forget, Highlight
<1>6. CASE PollStarts \/ PollEnds \/ StopPoller \/ UNCHANGED vars
  BY <1>4, <1>6 DEF PollStarts, PollEnds, StopPoller, vars
<1> QED
  BY <1>1, <1>2, <1>3, <1>4, <1>5, <1>6 DEF Next

(* The poller holds tracked tasks only, and lets go of what it shows.      *)
LEMMA NextHeld == IInv /\ [Next]_vars => HeldInv'
<1> SUFFICES ASSUME IInv, [Next]_vars PROVE HeldInv'
  OBVIOUS
<1> USE DEF queueVars, postVars, pollVars
<1>0. TypeOK /\ RepliesInv /\ HeldInv /\ ShownOnce
  BY DEF IInv
<1>1. CASE Backend
  BY <1>0, <1>1 DEF Backend, HeldInv, Held
<1>2. ASSUME NEW m \in Messages, Submission(m) PROVE HeldInv'
  <2>1. CASE Capture(m) \/ Send(m) \/ PostFails(m)
    <3>1. /\ UNCHANGED <<about, reply, pollVars>>
          /\ \A n \in Messages : stage[n] = "tracked" => stage'[n] = "tracked"
      BY <1>0, <2>1 DEF Capture, Send, PostFails, TypeOK
    <3> QED
      BY <1>0, <3>1 DEF HeldInv, Held
  <2>2. CASE Track(m)
    <3>1. /\ stage[m] = "delivered" /\ stage'[m] = "tracked"
          /\ \A n \in Messages : stage[n] = "tracked" => stage'[n] = "tracked"
          /\ UNCHANGED <<about, reply, polling, answer, shown>>
          /\ reply[m] \in Tasks /\ about[reply[m]] = m
      BY <1>0, <2>2 DEF Track, TypeOK, RepliesInv
    <3>2. reply[m] \notin Held /\ shown[reply[m]] = <<>>
      BY <1>0, <3>1 DEF HeldInv
    <3>3. /\ Held' \subseteq Held \cup {reply[m]}
          /\ round' \subseteq round \cup {reply[m]}
          /\ polling \/ round' = round
      BY <2>2 DEF Track, Held
    <3>4. Held \subseteq Tasks \cup {reply[m]}
      BY <1>0, <3>1 DEF Held, TypeOK
    <3>5. answer.task \notin round'
      <4>1. answer.task # reply[m]
        BY <3>1, <3>2, ConstantsDiffer DEF Held
      <4> QED
        BY <1>0, <3>3, <4>1 DEF HeldInv
    <3> QED
      BY <1>0, <3>1, <3>2, <3>3, <3>4, <3>5 DEF HeldInv
  <2>3. ASSUME NEW t \in Tasks, Deliver(m, t) PROVE HeldInv'
    <3>0. UNCHANGED pollVars
      BY <2>3 DEF Deliver
    <3>1. /\ stage[m] # "tracked"
          /\ about[t] = NoMessage /\ NoMessage \notin Messages
          /\ \A u \in Tasks \ {t} : about'[u] = about[u]
          /\ \A n \in Messages \ {m} :
               stage'[n] = stage[n] /\ reply'[n] = reply[n]
      BY <1>0, <2>3, DeliverStep, ConstantsDiffer DEF RepliesInv
    <3>2. Held' = Held
      BY <3>0 DEF Held
    <3>3. t \notin Held /\ shown[t] = <<>>
      BY <1>0, <3>1 DEF HeldInv
    <3>4. ASSUME NEW u \in Tasks, u \in Held \/ shown[u] # <<>>
          PROVE  /\ about'[u] \in Messages
                 /\ stage'[about'[u]] = "tracked" /\ reply'[about'[u]] = u
      <4>1. u # t /\ about'[u] = about[u]
        BY <3>1, <3>3, <3>4
      <4>2. /\ about[u] \in Messages
            /\ stage[about[u]] = "tracked" /\ reply[about[u]] = u
        BY <1>0, <3>4 DEF HeldInv
      <4>3. about[u] # m
        BY <3>1, <4>2
      <4> QED
        BY <3>1, <4>1, <4>2, <4>3
    <3> QED
      BY <1>0, <3>0, <3>2, <3>4 DEF HeldInv
  <2> QED
    BY <1>2, <2>1, <2>2, <2>3 DEF Submission
<1>3. ASSUME NEW t \in Tasks, Visit(t) PROVE HeldInv'
  <2>0. t # NoTask
    BY ConstantsDiffer
  <2>1. /\ UNCHANGED <<about, stage, reply, pending, polling, shown>>
        /\ t \in round /\ answer = NoAnswer /\ round' = round \ {t} /\ polling
    BY <1>0, <1>3 DEF Visit, GetTask, FetchFails, HeldInv
  <2>2. answer' = NoAnswer \/ answer'.task = t
    BY <1>3, <2>1 DEF Visit, GetTask, FetchFails
  <2>3. NoAnswer.task = NoTask
    BY DEF NoAnswer
  <2>4. Held' \subseteq Held
    BY <2>1, <2>2, <2>3 DEF Held
  <2>5. answer'.task \notin round' /\ (answer'.task = NoTask => answer' = NoAnswer)
    BY <1>0, <2>0, <2>1, <2>2, <2>3, ConstantsDiffer DEF TypeOK
  <2> QED
    BY <1>0, <2>1, <2>4, <2>5 DEF HeldInv
<1>4. ASSUME NEW t \in Tasks, Resolve(t) PROVE HeldInv'
  <2>0. t # NoTask /\ NoAnswer.task = NoTask
    BY ConstantsDiffer DEF NoAnswer
  <2>1. /\ answer.task = t /\ answer' = NoAnswer
        /\ UNCHANGED <<about, stage, reply, polling, round>>
        /\ pending' \subseteq pending
    BY <1>4 DEF Resolve, Unresolved, Forget, Highlight
  <2>2. t \in Held /\ t \notin round /\ Held' \subseteq Held
    BY <1>0, <2>0, <2>1 DEF Held, HeldInv
  <2>3. NoTask \notin round
    BY <1>0, ConstantsDiffer DEF TypeOK
  <2>4. CASE shown' = shown
    BY <1>0, <2>0, <2>1, <2>2, <2>3, <2>4 DEF HeldInv
  <2>5. CASE Highlight(t)
    <3>1. /\ t \notin Held' /\ \A u \in Tasks \ {t} : shown'[u] = shown[u]
      BY <1>0, <2>0, <2>1, <2>2, <2>5 DEF Highlight, Held, TypeOK
    <3>2. /\ about[t] \in Messages
          /\ stage[about[t]] = "tracked" /\ reply[about[t]] = t
      BY <1>0, <2>2 DEF HeldInv
    <3>3. Held' \subseteq Tasks
      BY <1>0, <2>0, <2>1 DEF Held, TypeOK
    <3> QED
      BY <1>0, <2>0, <2>1, <2>2, <2>3, <3>1, <3>2, <3>3 DEF HeldInv
  <2> QED
    BY <1>4, <2>4, <2>5 DEF Resolve, Unresolved, Forget
<1>5. CASE PollStarts
  <2>1. /\ UNCHANGED <<about, stage, reply, pending, answer, shown>>
        /\ polling' /\ ~polling /\ round' = pending
    BY <1>5 DEF PollStarts
  <2>2. answer = NoAnswer /\ Held' = Held /\ answer.task \notin round'
    BY <1>0, <2>1, ConstantsDiffer DEF HeldInv, Held, TypeOK, NoAnswer
  <2> QED
    BY <1>0, <2>1, <2>2 DEF HeldInv
<1>6. CASE PollEnds
  BY <1>0, <1>6 DEF PollEnds, HeldInv, Held
<1>7. CASE StopPoller
  <2>1. /\ UNCHANGED <<about, stage, reply, polling, answer, shown>>
        /\ pending' = {} /\ round' \subseteq round
    BY <1>7 DEF StopPoller
  <2> QED
    BY <1>0, <2>1 DEF HeldInv, Held
<1>8. CASE StopExecutor
  <2>1. /\ UNCHANGED <<about, reply, pollVars>>
        /\ \A n \in Messages : stage[n] = "tracked" => stage'[n] = "tracked"
    BY <1>0, <1>8 DEF StopExecutor
  <2> QED
    BY <1>0, <2>1 DEF HeldInv, Held
<1>9. CASE UNCHANGED vars
  BY <1>0, <1>9 DEF vars, HeldInv, Held
<1> QED
  BY <1>1, <1>2, <1>3, <1>4, <1>5, <1>6, <1>7, <1>8, <1>9 DEF Next

(* A final status the poller has read remains the status of the task.      *)
LEMMA NextAnswer == IInv /\ [Next]_vars => AnswerInv'
<1> SUFFICES ASSUME IInv, [Next]_vars PROVE AnswerInv'
  OBVIOUS
<1> USE DEF queueVars, postVars, pollVars, AnswerInv
<1>0. TypeOK /\ AnswerInv /\ RepliesInv /\ NoAnswer.task = NoTask
  BY DEF IInv, NoAnswer
<1>1. CASE Backend
  <2>1. answer' = answer
    BY <1>1 DEF Backend
  <2>2. \A t \in Tasks : status[t] \in Queue!Terminal => status'[t] = status[t]
    BY <1>0, <1>1, BackendStep
  <2>3. answer.task \in Tasks \cup {NoTask}
    BY <1>0 DEF TypeOK
  <2> QED
    BY <1>0, <2>1, <2>2, <2>3 DEF Queue!Terminal
<1>2. ASSUME NEW m \in Messages, NEW t \in Tasks, Deliver(m, t)
      PROVE  AnswerInv'
  <2>1. answer' = answer
    BY <1>2 DEF Deliver
  <2>2. status[t] = "absent" /\ \A u \in Tasks \ {t} : status'[u] = status[u]
    BY <1>0, <1>2, DeliverStep
  <2>3. answer.task \in Tasks \cup {NoTask}
    BY <1>0 DEF TypeOK
  <2> QED
    BY <1>0, <2>1, <2>2, <2>3 DEF Queue!Terminal
<1>3. ASSUME NEW t \in Tasks, GetTask(t) PROVE AnswerInv'
  BY <1>3 DEF GetTask
<1>4. ASSUME NEW t \in Tasks, Resolve(t) PROVE AnswerInv'
  BY <1>0, <1>4 DEF Resolve, Unresolved, Forget, Highlight
<1>5. CASE UNCHANGED <<status, answer>>
  BY <1>0, <1>5
<1>6. ASSUME NEW m \in Messages,
             Capture(m) \/ Send(m) \/ PostFails(m) \/ Track(m)
      PROVE  UNCHANGED <<status, answer>>
  BY <1>6 DEF Capture, Send, PostFails, Track
<1>7. ASSUME NEW t \in Tasks, FetchFails(t) PROVE UNCHANGED <<status, answer>>
  BY <1>7 DEF FetchFails
<1>8. CASE \/ PollStarts \/ PollEnds \/ StopPoller \/ StopExecutor
           \/ UNCHANGED vars
  BY <1>5, <1>8 DEF PollStarts, PollEnds, StopPoller, StopExecutor, vars
<1> QED
  BY <1>1, <1>2, <1>3, <1>4, <1>5, <1>6, <1>7, <1>8
  DEF Next, Submission, Visit

(* No step lets go of a tracked task without having dealt with it.         *)
LEMMA NextNothingForgotten == IInv /\ [Next]_vars => NothingForgotten'
<1> SUFFICES ASSUME IInv, [Next]_vars PROVE NothingForgotten'
  OBVIOUS
<1> USE DEF queueVars, postVars, pollVars
<1>0. /\ TypeOK /\ RepliesInv /\ HeldInv /\ AnswerInv /\ NothingForgotten
  BY DEF IInv
<1> SUFFICES ASSUME NEW m \in Messages, engine' = "started", stage'[m] = "tracked"
             PROVE  \/ reply'[m] \in pending' \/ shown'[reply'[m]] # <<>>
                    \/ status'[reply'[m]] = "cancelled"
  BY DEF NothingForgotten
<1> DEFINE Kept == \/ reply[m] \in pending \/ shown[reply[m]] # <<>>
                   \/ status[reply[m]] = "cancelled"
<1>a. ASSUME engine = "started", stage[m] = "tracked"
      PROVE  Kept /\ reply[m] \in Tasks
  BY <1>0, <1>a DEF NothingForgotten, RepliesInv
<1>1. CASE Backend
  <2>1. UNCHANGED <<about, postVars, pollVars, engine>>
    BY <1>1 DEF Backend
  <2>2. Kept /\ reply[m] \in Tasks
    BY <1>a, <2>1
  <2>3. status[reply[m]] = "cancelled" => status'[reply[m]] = "cancelled"
    BY <1>0, <1>1, <2>2, BackendStep DEF Queue!Terminal
  <2> QED
    BY <2>1, <2>2, <2>3
<1>2. ASSUME NEW n \in Messages, Submission(n)
      PROVE  \/ reply'[m] \in pending' \/ shown'[reply'[m]] # <<>>
             \/ status'[reply'[m]] = "cancelled"
  <2>1. CASE Capture(n) \/ Send(n) \/ PostFails(n)
    <3>1. UNCHANGED <<status, reply, pollVars, engine>> /\ stage[m] = "tracked"
      BY <1>0, <2>1 DEF Capture, Send, PostFails, TypeOK
    <3> QED
      BY <1>a, <3>1
  <2>2. CASE Track(n)
    <3>1. /\ UNCHANGED <<status, reply, shown, engine>>
          /\ pending' = pending \cup {reply[n]}
          /\ m # n => stage[m] = "tracked"
      BY <1>0, <2>2 DEF Track, TypeOK
    <3> QED
      BY <1>a, <3>1
  <2>3. ASSUME NEW t \in Tasks, Deliver(n, t)
        PROVE  \/ reply'[m] \in pending' \/ shown'[reply'[m]] # <<>>
               \/ status'[reply'[m]] = "cancelled"
    <3>1. UNCHANGED <<pollVars, engine>> /\ stage'[n] = "delivered"
      BY <1>0, <2>3 DEF Deliver, TypeOK
    <3>2. /\ status[t] = "absent" /\ \A u \in Tasks \ {t} : status'[u] = status[u]
          /\ \A l \in Messages \ {n} :
               stage'[l] = stage[l] /\ reply'[l] = reply[l]
      BY <1>0, <2>3, DeliverStep
    <3>3. m # n /\ stage[m] = "tracked" /\ reply'[m] = reply[m]
      BY <3>1, <3>2
    <3>4. Kept /\ reply[m] \in Tasks /\ reply[m] # t
      BY <1>0, <1>a, <3>1, <3>2, <3>3 DEF RepliesInv
    <3> QED
      BY <3>1, <3>2, <3>3, <3>4
  <2> QED
    BY <1>2, <2>1, <2>2, <2>3 DEF Submission
<1>3. ASSUME NEW t \in Tasks, Visit(t)
      PROVE  UNCHANGED <<status, stage, reply, pending, shown, engine>>
  BY <1>3 DEF Visit, GetTask, FetchFails
<1>4. ASSUME NEW t \in Tasks, Resolve(t)
      PROVE  \/ reply'[m] \in pending' \/ shown'[reply'[m]] # <<>>
             \/ status'[reply'[m]] = "cancelled"
  <2>1. UNCHANGED <<status, stage, reply, engine>>
    BY <1>4 DEF Resolve, Unresolved, Forget, Highlight
  <2>2. Kept /\ reply[m] \in Tasks
    BY <1>a, <2>1
  <2>3. CASE Unresolved(t)
    BY <2>1, <2>2, <2>3 DEF Unresolved
  <2>4. CASE Forget(t)
    <3>1. status[t] = "cancelled"
      BY <1>0, <2>4, ConstantsDiffer DEF Forget, AnswerInv, Queue!Terminal
    <3> QED
      BY <2>1, <2>2, <2>4, <3>1 DEF Forget
  <2>5. CASE Highlight(t)
    <3>1. /\ pending' = pending \ {t}
          /\ \A u \in Tasks \ {t} : shown'[u] = shown[u]
          /\ shown'[t] = Append(shown[t], answer.status)
          /\ answer.status \in Settled
      BY <1>0, <2>5 DEF Highlight, Final, TypeOK
    <3>2. shown[t] = <<>>
      BY <1>0, <2>5, ConstantsDiffer DEF HeldInv, Held, Highlight
    <3>3. shown'[t] # <<>>
      BY <3>1, <3>2, AppendShown
    <3> QED
      BY <2>1, <2>2, <3>1, <3>3
  <2> QED
    BY <1>4, <2>3, <2>4, <2>5 DEF Resolve
<1>5. CASE UNCHANGED <<status, stage, reply, pending, shown, engine>>
  BY <1>a, <1>5
<1>6. CASE PollStarts \/ PollEnds \/ UNCHANGED vars
  BY <1>5, <1>6 DEF PollStarts, PollEnds, vars
<1>7. CASE StopPoller \/ StopExecutor
  BY <1>7 DEF StopPoller, StopExecutor
<1> QED
  BY <1>1, <1>2, <1>3, <1>4, <1>5, <1>6, <1>7 DEF Next

(* A message's annotation is set once and says what its task came to.      *)
LEMMA NextShown == IInv /\ [Next]_vars => ShownOnce' /\ ShowsTheVerdict'
<1> SUFFICES ASSUME IInv, [Next]_vars PROVE ShownOnce' /\ ShowsTheVerdict'
  OBVIOUS
<1> USE DEF queueVars, postVars, pollVars
<1>0. /\ TypeOK /\ RepliesInv /\ HeldInv /\ AnswerInv
      /\ ShownOnce /\ ShowsTheVerdict
  BY DEF IInv
<1>h. HeldInv'
  BY NextHeld
<1>v. ASSUME NEW t \in Tasks, shown[t] # <<>>
      PROVE  Len(shown[t]) = 1 /\ shown[t][1] = status[t] /\ shown[t][1] \in Settled
  <2>1. Len(shown[t]) = 1 /\ shown[t] \in Seq(Settled)
    BY <1>0, <1>v DEF ShownOnce, TypeOK
  <2>2. 1 \in DOMAIN shown[t] /\ shown[t][1] \in Settled
    BY <2>1
  <2> QED
    BY <1>0, <2>1, <2>2 DEF ShowsTheVerdict
<1>1. (* It is enough that each annotation stays single and true. *)
      ASSUME \A t \in Tasks : shown'[t] # <<>> =>
               /\ Len(shown'[t]) = 1 /\ DOMAIN shown'[t] = {1}
               /\ shown'[t][1] = status'[t]
      PROVE  ShownOnce' /\ ShowsTheVerdict'
  <2>1. ASSUME NEW t \in Tasks, NEW u \in Tasks, shown'[t] # <<>>,
               shown'[u] # <<>>, about'[t] = about'[u]
        PROVE  t = u /\ Len(shown'[t]) = 1
    BY <1>1, <1>h, <2>1 DEF HeldInv
  <2>2. ASSUME NEW t \in Tasks, NEW i \in DOMAIN shown'[t]
        PROVE  shown'[t][i] = status'[t]
    <3>1. shown'[t] # <<>>
      BY <2>2
    <3> QED
      BY <1>1, <2>2, <3>1
  <2> QED
    BY <2>1, <2>2 DEF ShownOnce, ShowsTheVerdict
<1>2. (* What was annotated before stays true when final statuses stay. *)
      ASSUME NEW t \in Tasks, shown'[t] = shown[t], shown[t] # <<>>,
             status[t] \in Queue!Terminal => status'[t] = status[t]
      PROVE  /\ Len(shown'[t]) = 1 /\ DOMAIN shown'[t] = {1}
             /\ shown'[t][1] = status'[t]
  <2>1. Len(shown[t]) = 1 /\ shown[t][1] = status[t] /\ shown[t][1] \in Settled
    BY <1>v, <1>2
  <2>2. shown[t] \in Seq(Settled)
    BY <1>0 DEF TypeOK
  <2>3. DOMAIN shown[t] = 1..1
    BY <2>1, <2>2
  <2>4. status'[t] = status[t]
    BY <1>2, <2>1 DEF Settled, Queue!Terminal
  <2> QED
    BY <1>2, <2>1, <2>3, <2>4
<1>3. CASE /\ shown' = shown
           /\ \A t \in Tasks :
                status[t] \in Queue!Terminal => status'[t] = status[t]
  BY <1>1, <1>2, <1>3
<1>4. CASE Backend
  BY <1>0, <1>3, <1>4, BackendStep DEF Backend
<1>5. ASSUME NEW m \in Messages, Submission(m)
      PROVE  ShownOnce' /\ ShowsTheVerdict'
  <2>1. CASE Capture(m) \/ Send(m) \/ PostFails(m) \/ Track(m)
    BY <1>3, <2>1 DEF Capture, Send, PostFails, Track
  <2>2. ASSUME NEW t \in Tasks, Deliver(m, t)
        PROVE  ShownOnce' /\ ShowsTheVerdict'
    <3>1. shown' = shown
      BY <2>2 DEF Deliver
    <3>2. status[t] = "absent" /\ \A u \in Tasks \ {t} : status'[u] = status[u]
      BY <1>0, <2>2, DeliverStep
    <3> QED
      BY <1>3, <3>1, <3>2 DEF Queue!Terminal
  <2> QED
    BY <1>5, <2>1, <2>2 DEF Submission
<1>6. ASSUME NEW t \in Tasks, Highlight(t)
      PROVE  ShownOnce' /\ ShowsTheVerdict'
  <2>1. /\ shown'[t] = Append(shown[t], answer.status) /\ status' = status
        /\ \A u \in Tasks \ {t} : shown'[u] = shown[u]
        /\ answer.status \in Settled /\ answer.task = t
    BY <1>0, <1>6 DEF Highlight, Final, TypeOK
  <2>2. shown[t] = <<>>
    BY <1>0, <2>1, ConstantsDiffer DEF HeldInv, Held
  <2>3. status[t] = answer.status
    BY <1>0, <2>1, ConstantsDiffer DEF AnswerInv, Settled, Queue!Terminal
  <2>4. /\ Len(shown'[t]) = 1 /\ DOMAIN shown'[t] = {1}
        /\ shown'[t][1] = status'[t]
    BY <2>1, <2>2, <2>3, AppendShown
  <2> QED
    BY <1>1, <1>2, <2>1, <2>4
<1>7. ASSUME NEW t \in Tasks, Visit(t) \/ Unresolved(t) \/ Forget(t)
      PROVE  shown' = shown /\ status' = status
  BY <1>7 DEF Visit, GetTask, FetchFails, Unresolved, Forget
<1>8. CASE \/ PollStarts \/ PollEnds \/ StopPoller \/ StopExecutor
           \/ UNCHANGED vars
  BY <1>3, <1>8 DEF PollStarts, PollEnds, StopPoller, StopExecutor, vars
<1> QED
  BY <1>3, <1>4, <1>5, <1>6, <1>7, <1>8 DEF Next, Resolve

-----------------------------------------------------------------------------
(* The inductive invariant holds of every state.                           *)
THEOREM AutoInvariance == Spec => []IInv
<1>1. IInv /\ [Next]_vars => IInv'
  BY NextTypeOK, NextReplies, NextHeld, NextAnswer, NextNothingForgotten,
     NextShown DEF IInv
<1> QED
  BY InitIInv, <1>1, PTL DEF Spec

(* No tracked task is forgotten while the extension is loaded.             *)
THEOREM NothingForgottenHolds == Spec => []NothingForgotten
<1>1. IInv => NothingForgotten
  BY DEF IInv
<1> QED
  BY <1>1, AutoInvariance, PTL

(* A message is annotated once, whatever requests are repeated or fail.    *)
THEOREM ShownOnceHolds == Spec => []ShownOnce
<1>1. IInv => ShownOnce
  BY DEF IInv
<1> QED
  BY <1>1, AutoInvariance, PTL

(* What an annotation says is what became of the task of its message.      *)
THEOREM VerdictHolds == Spec => []ShowsTheVerdict
<1>1. IInv => ShowsTheVerdict
  BY DEF IInv
<1> QED
  BY <1>1, AutoInvariance, PTL
=============================================================================
