---------------------------- MODULE AutoAnalysis ----------------------------
(***************************************************************************)
(* The automation of the Burp extension, AutoAnalysisEngine and TaskPoller,*)
(* in front of the batch queue: a captured message is submitted by one of  *)
(* the executor's threads, its task is tracked, and the poller annotates   *)
(* the message when the task has settled.  The queue is BatchQueue, the    *)
(* promise TaskWorker keeps.                                               *)
(*                                                                         *)
(* Requests travel: a submission may fail before or after the backend has  *)
(* stored the task, and HttpURLConnection may send a POST a second time    *)
(* when the connection breaks before an answer.  Messages that scope, the  *)
(* static-resource filter or the rate limiter turn away change nothing and *)
(* are messages that are never captured.                                   *)
(***************************************************************************)
EXTENDS Naturals, Sequences, FiniteSets

CONSTANTS
  Messages,       \* captured request/response pairs, each with its annotations
  Tasks,          \* the tasks the backend may ever store (bound)
  Threads,        \* threads of the executor
  NoMessage, NoTask

ASSUME ConstantsDiffer ==
  NoMessage \notin Messages /\ NoTask \notin Tasks /\ Threads \in Nat \ {0}

VARIABLES
  status, wanted, \* the queue, see BatchQueue
  about,          \* about[t]: the message in the payload of task t
  stage,          \* stage[m]: how far the submission of m has come
  reply,          \* reply[m]: the task_id its answer carries
  pending,        \* TaskPoller.pending: task ids; the handle of t is about[t]
  polling,        \* whether pollOnce is running
  round,          \* entries its iterator has still to return
  answer,         \* what getTask returned, being resolved
  shown,          \* shown[t]: the colours sink.apply was given for task t
  engine          \* started, stopping (poller stopped) or stopped

queueVars == <<status, wanted, about>>
postVars  == <<stage, reply>>
pollVars  == <<pending, polling, round, answer, shown>>
vars      == <<queueVars, postVars, pollVars, engine>>

Queue == INSTANCE BatchQueue

Stages     == {"unseen", "waiting", "sending", "delivered", "tracked", "lost",
               "dropped"}
NoAnswer   == [task |-> NoTask, status |-> "absent"]
Settled    == {"done", "failed"}

Init ==
  /\ Queue!Init /\ about = [t \in Tasks |-> NoMessage]
  /\ stage = [m \in Messages |-> "unseen"]
  /\ reply = [m \in Messages |-> NoTask]
  /\ pending = {} /\ polling = FALSE /\ round = {} /\ answer = NoAnswer
  /\ shown = [t \in Tasks |-> <<>>]
  /\ engine = "started"

-----------------------------------------------------------------------------
(* The worker and the other clients of the queue move as they please.      *)
Backend ==
  /\ \/ \E t \in Tasks : \/ Queue!Begin(t) \/ Queue!Settle(t)
                         \/ Queue!Withdraw(t) \/ Queue!RequestCancel(t)
     \/ Queue!Requeue
  /\ UNCHANGED <<about, postVars, pollVars, engine>>

(* onProxyResponse and scanSiteMap hand the message to the executor, which *)
(* rejects it once it is shut down.                                        *)
Capture(m) ==
  /\ stage[m] = "unseen" /\ engine # "stopped"
  /\ stage' = [stage EXCEPT ![m] = "waiting"]
  /\ UNCHANGED <<queueVars, reply, pollVars, engine>>

(* A free thread takes the message.  Its queue is first in, first out; the *)
(* order of unrelated messages makes no difference to anything below.      *)
Posting == {m \in Messages : stage[m] \in {"sending", "delivered"}}

Send(m) ==
  /\ stage[m] = "waiting" /\ Cardinality(Posting) < Threads
  /\ stage' = [stage EXCEPT ![m] = "sending"]
  /\ UNCHANGED <<queueVars, reply, pollVars, engine>>

(* The request reaches the backend, which stores a task and answers; from  *)
(* "delivered" it is the request sent again, and the first answer is gone. *)
Deliver(m, t) ==
  /\ stage[m] \in {"sending", "delivered"}
  /\ Queue!Submit({t})
  /\ about' = [about EXCEPT ![t] = m]
  /\ stage' = [stage EXCEPT ![m] = "delivered"]
  /\ reply' = [reply EXCEPT ![m] = t]
  /\ UNCHANGED <<pollVars, engine>>

(* doSubmit catches whatever the request raises; the task may be stored.   *)
PostFails(m) ==
  /\ stage[m] \in {"sending", "delivered"}
  /\ stage' = [stage EXCEPT ![m] = "lost"]
  /\ UNCHANGED <<queueVars, reply, pollVars, engine>>

(* submit: the task is tracked under the annotations of its message.  An   *)
(* iteration under way may or may not come upon the new entry.             *)
Track(m) ==
  /\ stage[m] = "delivered"
  /\ stage' = [stage EXCEPT ![m] = "tracked"]
  /\ pending' = pending \cup {reply[m]}
  /\ round' \in {round, round \cup (IF polling THEN {reply[m]} ELSE {})}
  /\ UNCHANGED <<queueVars, reply, polling, answer, shown, engine>>

-----------------------------------------------------------------------------
(* pollOnce, every five seconds while the poller is started.               *)
PollStarts ==
  /\ engine = "started" /\ ~polling
  /\ polling' = TRUE /\ round' = pending
  /\ UNCHANGED <<queueVars, postVars, pending, answer, shown, engine>>

GetTask(t) ==
  /\ t \in round /\ answer = NoAnswer
  /\ round' = round \ {t}
  /\ answer' = [task |-> t, status |-> status[t]]
  /\ UNCHANGED <<queueVars, postVars, pending, polling, shown, engine>>

(* An exception leaves the entry for the next round.                       *)
FetchFailsForgets(t) ==
  /\ t \in round /\ answer = NoAnswer
  /\ round' = round \ {t} /\ pending' = pending \ {t}
  /\ UNCHANGED <<queueVars, postVars, polling, answer, shown, engine>>

FetchFailsForGood(t) ==
  /\ t \in round /\ answer = NoAnswer
  /\ answer' = [NoAnswer EXCEPT !.status = "running"]
  /\ UNCHANGED <<queueVars, postVars, pending, polling, round, shown, engine>>

FetchFails(t) ==
  /\ t \in round /\ answer = NoAnswer
  /\ round' = round \ {t}
  /\ UNCHANGED <<queueVars, postVars, pending, polling, answer, shown, engine>>

(* resolve: not settled yet, or getAnalysis raises; only a done task has   *)
(* an analysis to get.                                                     *)
Unresolved(t) ==
  /\ answer.task = t /\ answer.status \in {"queued", "running", "done"}
  /\ answer' = NoAnswer
  /\ UNCHANGED <<queueVars, postVars, pending, polling, round, shown, engine>>

(* A cancelled task is forgotten without a highlight.                      *)
Forget(t) ==
  /\ answer.task = t /\ answer.status = "cancelled"
  /\ pending' = pending \ {t} /\ answer' = NoAnswer
  /\ UNCHANGED <<queueVars, postVars, polling, round, shown, engine>>

(* The message is annotated, then the entry removed.                       *)
Early == Settled \cup {"running"}
Final == Settled

HighlightAgain(t) ==
  /\ answer.task = t /\ answer.status \in Final
  /\ shown' = [shown EXCEPT ![t] = Append(@, answer.status)]
  /\ answer' = NoAnswer
  /\ UNCHANGED <<queueVars, postVars, pending, polling, round, engine>>

Highlight(t) ==
  /\ answer.task = t /\ answer.status \in Final
  /\ shown' = [shown EXCEPT ![t] = Append(@, answer.status)]
  /\ pending' = pending \ {t} /\ answer' = NoAnswer
  /\ UNCHANGED <<queueVars, postVars, polling, round, engine>>

PollEnds ==
  /\ polling /\ round = {} /\ answer = NoAnswer
  /\ polling' = FALSE
  /\ UNCHANGED <<queueVars, postVars, pending, round, answer, shown, engine>>

-----------------------------------------------------------------------------
(* stop, when the extension is unloaded: no further round, and the entries *)
(* are cleared under an iteration that may be in progress and has at most  *)
(* one of them in hand.                                                    *)
StopPoller ==
  /\ engine = "started"
  /\ engine' = "stopping" /\ pending' = {}
  /\ round' \in {r \in SUBSET round : Cardinality(r) <= 1}
  /\ UNCHANGED <<queueVars, postVars, polling, answer, shown>>

(* shutdownNow drops what is waiting; requests under way run on, since a   *)
(* socket does not heed the interrupt.                                     *)
StopExecutor ==
  /\ engine = "stopping"
  /\ engine' = "stopped"
  /\ stage' = [m \in Messages |-> IF stage[m] = "waiting" THEN "dropped"
                                  ELSE stage[m]]
  /\ UNCHANGED <<queueVars, reply, pollVars>>

Submission(m) ==
  \/ Capture(m) \/ Send(m) \/ PostFails(m) \/ Track(m)
  \/ \E t \in Tasks : Deliver(m, t)

Visit(t)   == GetTask(t) \/ FetchFails(t)
Resolve(t) == Unresolved(t) \/ Forget(t) \/ Highlight(t)

Next ==
  \/ Backend
  \/ \E m \in Messages : Submission(m)
  \/ \E t \in Tasks : Visit(t) \/ Resolve(t)
  \/ PollStarts \/ PollEnds
  \/ StopPoller \/ StopExecutor

Spec == Init /\ [][Next]_vars

(* The poller's thread is scheduled, its requests have timeouts, and of    *)
(* requests repeated without end some are answered.                        *)
Fairness ==
  /\ WF_vars(PollStarts) /\ WF_vars(PollEnds)
  /\ \A t \in Tasks :
       /\ WF_vars(Visit(t)) /\ WF_vars(Resolve(t))
       /\ SF_vars(GetTask(t)) /\ SF_vars(Highlight(t))

FairSpec == Spec /\ Fairness

-----------------------------------------------------------------------------
TypeOK ==
  /\ status \in [Tasks -> Queue!Status] /\ wanted \subseteq Tasks
  /\ about \in [Tasks -> Messages \cup {NoMessage}]
  /\ stage \in [Messages -> Stages]
  /\ reply \in [Messages -> Tasks \cup {NoTask}]
  /\ pending \subseteq Tasks /\ polling \in BOOLEAN /\ round \subseteq Tasks
  /\ answer \in [task : Tasks \cup {NoTask}, status : Queue!Status]
  /\ shown \in [Tasks -> Seq(Settled)]
  /\ engine \in {"started", "stopping", "stopped"}

(* Until the extension is unloaded no tracked task is forgotten: it is     *)
(* still polled for, or its message was annotated, or it was cancelled -   *)
(* over failed requests, tasks tracked in the middle of a round, and       *)
(* restarts of the backend.                                                *)
NothingForgotten ==
  \A m \in Messages :
    engine = "started" /\ stage[m] = "tracked" =>
      LET t == reply[m]
      IN  t \in pending \/ shown[t] # <<>> \/ status[t] = "cancelled"

(* A message is annotated once, whatever is sent again or polled again.    *)
ShownOnce ==
  \A t, u \in Tasks :
    shown[t] # <<>> /\ shown[u] # <<>> /\ about[t] = about[u] =>
      t = u /\ Len(shown[t]) = 1

(* What a message was annotated with is what became of its task, for good: *)
(* the status the poller has read cannot be overtaken by the backend.      *)
ShowsTheVerdict ==
  \A t \in Tasks :
    \A i \in DOMAIN shown[t] : shown[t][i] = status[t]

(* A tracked task that has settled is resolved, unless the extension is    *)
(* unloaded first.                                                         *)
Resolved ==
  \A t \in Tasks :
    t \in pending /\ status[t] \in Queue!Terminal
      ~> t \notin pending \/ engine # "started"

-----------------------------------------------------------------------------
(* The inductive invariant.  A stored task has a message, and the task a   *)
(* message was answered with is about that message.                        *)
RepliesInv ==
  /\ \A m \in Messages :
       stage[m] \in {"delivered", "tracked"} =>
         /\ reply[m] \in Tasks /\ about[reply[m]] = m
         /\ status[reply[m]] # "absent"
  /\ \A t \in Tasks : status[t] = "absent" => about[t] = NoMessage

(* What the poller holds and what it has shown was tracked; it holds       *)
(* nothing it has shown, and holds each task once.                         *)
Held == pending \cup round \cup ({answer.task} \ {NoTask})

HeldInv ==
  /\ \A t \in Tasks :
       t \in Held \/ shown[t] # <<>> =>
         /\ about[t] \in Messages
         /\ stage[about[t]] = "tracked" /\ reply[about[t]] = t
  /\ \A t \in Held : shown[t] = <<>>
  /\ answer.task \notin round
  /\ answer.task = NoTask => answer = NoAnswer
  /\ polling \/ (round = {} /\ answer = NoAnswer)

(* What getTask has returned is still true if it was final.                *)
AnswerInv ==
  answer.task # NoTask /\ answer.status \in Queue!Terminal =>
    status[answer.task] = answer.status

IInv ==
  /\ TypeOK /\ RepliesInv /\ HeldInv /\ AnswerInv
  /\ NothingForgotten /\ ShownOnce /\ ShowsTheVerdict
=============================================================================
