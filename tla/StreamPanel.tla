----------------------------- MODULE StreamPanel -----------------------------
(***************************************************************************)
(* The extension's tab: one text area, one active request, and the threads *)
(* of all requests that were ever started in it (runStreamInBackground and *)
(* runInBackground of Extension.java, analyzeStream of BackendClient).     *)
(*                                                                         *)
(* Three parties take turns.  The event dispatch thread handles its events *)
(* in order, clicks among them.  A thread of the SwingWorker pool reads    *)
(* the event stream of its request.  What a worker publishes waits in a    *)
(* batch that all workers share, until a timer of SwingWorker has the      *)
(* event dispatch thread take it and run it, one runnable after the other  *)
(* while the workers go on.  setResult always posts an event of its own,   *)
(* while content is appended at once.                                      *)
(*                                                                         *)
(* Left out: the label (statuses and elapsed seconds), which goes with the *)
(* cancel button, and the size of the worker pool.                         *)
(***************************************************************************)
EXTENDS Integers, Sequences, FiniteSets

CONSTANTS
  Requests,       \* the requests a user may start
  Answers,        \* what /analyze/stream may send: content, result
  None            \* no request

(* The result is the last event of a stream.                               *)
ASSUME PanelAssumption ==
  /\ None \notin Requests /\ Answers \subseteq Seq({"content", "result"})
  /\ \A a \in Answers : \A i \in DOMAIN a : a[i] = "result" => i = Len(a)

VARIABLES
  work,           \* work[r]: the SwingWorker of request r
  batch,          \* doSubmit: runnables for the event dispatch thread
  running,        \* those that it has taken and not run yet
  edt,            \* events posted to the event dispatch thread
  area,           \* resultArea: the texts that stand in it
  cancellable,    \* is the cancel button enabled?
  active,         \* activeWorker
  current,        \* the request started last
  quiet           \* nothing else was under way since current was started

vars == <<work, batch, running, edt, area, cancellable, active, current, quiet>>

Text(what, r) == [what |-> what, of |-> r]
Flush == Text("batch", None)

(* thread: where the pool's thread is; said: the chunks it has published,  *)
(* taken of them handled; heard: what it had said when it was cancelled.   *)
NewWork == [kind |-> "stream", thread |-> "new", future |-> "pending",
            answer |-> << >>, read |-> 0, said |-> << >>, taken |-> 0, heard |-> 0]

Init ==
  /\ work = [r \in Requests |-> NewWork]
  /\ batch = << >> /\ running = << >> /\ edt = << >> /\ area = << >>
  /\ cancellable = FALSE /\ active = None /\ current = None /\ quiet = FALSE

Becomes(r, new) == work' = [work EXCEPT ![r] = new]
Goes(r, from, to) ==
  work[r].thread = from /\ Becomes(r, [work[r] EXCEPT !.thread = to])

PanelAlone == UNCHANGED <<running, edt, area, cancellable, active, current, quiet>>
OnlyWork == PanelAlone /\ UNCHANGED batch

(* The event dispatch thread is free for its next event.                   *)
Idle == running = << >>

-----------------------------------------------------------------------------
(* Clicks                                                                  *)

(* cancelActiveWorker.  cancel(true) interrupts the thread, and its done   *)
(* is called at once, as this is the event dispatch thread.                *)
Cancels == active # None /\ work[active].future = "pending"
Cancelled ==
  IF Cancels
  THEN [work EXCEPT ![active].future = "cancelled",
                    ![active].heard = Len(work[active].said)]
  ELSE work
Farewell == IF Cancels THEN <<Text("cancelled", active)>> ELSE << >>

Settled ==
  /\ \A r \in Requests : work[r].thread \in {"new", "through"}
  /\ batch = << >> /\ Idle /\ edt = << >>

(* submitSelected, or testBackend.                                         *)
Start(r, kind, answer) ==
  /\ Idle /\ work[r].thread = "new"
  /\ work' = [Cancelled EXCEPT ![r].kind = kind, ![r].answer = answer,
                               ![r].thread = "queued"]
  /\ edt' = edt \o Farewell \o <<Text("loading", r)>>
  /\ cancellable' = TRUE /\ active' = r /\ current' = r
  /\ quiet' = Settled
  /\ UNCHANGED <<batch, running, area>>

Cancel ==
  /\ Idle /\ cancellable
  /\ work' = Cancelled /\ edt' = edt \o Farewell
  /\ active' = IF Cancels THEN None ELSE active
  /\ cancellable' = FALSE
  /\ UNCHANGED <<batch, running, area, current, quiet>>

(* saveSettings, or a menu without a request: a note of no request.  The   *)
(* model has one per request at most.                                      *)
Note ==
  /\ Idle /\ current # None /\ quiet
  /\ edt' = Append(edt, Text("note", None)) /\ quiet' = FALSE
  /\ UNCHANGED <<work, batch, running, area, cancellable, active, current>>

-----------------------------------------------------------------------------
(* The thread of a request                                                 *)

(* publish: the first chunk since the last batch puts process into it.     *)
Says(r, what, thread) ==
  LET w == work[r]
  IN  /\ Becomes(r, [w EXCEPT !.said = Append(@, Text(what, r)), !.thread = thread])
      /\ batch' = IF Len(w.said) > w.taken THEN batch
                  ELSE Append(batch, Text("process", r))
      /\ PanelAlone

Begin(r) ==
  work[r].future = "pending" /\ Goes(r, "queued", "reading") /\ OnlyWork

(* A worker that was cancelled before is never run.                        *)
NeverBegins(r) ==
  work[r].future = "cancelled" /\ Goes(r, "queued", "through") /\ OnlyWork

Interrupted(r) == work[r].kind = "stream" /\ work[r].future = "cancelled"
More(r) == work[r].thread = "reading" /\ work[r].read < Len(work[r].answer)

(* The next event of the stream has arrived.  A thread that has been       *)
(* interrupted meanwhile notices now, and says so instead.                 *)
ReadOn(r) ==
  /\ More(r)
  /\ Becomes(r, [work[r] EXCEPT !.read = @ + 1, !.thread = "holding"])
  /\ OnlyWork
Read(r) ==
  /\ More(r) /\ ~Interrupted(r)
  /\ Becomes(r, [work[r] EXCEPT !.read = @ + 1, !.thread = "holding"])
  /\ OnlyWork
NoticesInterrupt(r) ==
  More(r) /\ Interrupted(r) /\ Says(r, "error", "returned")

(* handleSseEvent, or the answer of a test.                                *)
Publish(r) ==
  work[r].thread = "holding" /\ Says(r, work[r].answer[work[r].read], "reading")

(* Another status than 200, or a connection that breaks while it is read.  *)
Breaks(r) ==
  /\ work[r].thread = "reading" /\ work[r].kind = "stream"
  /\ Says(r, "error", "returned")

(* No connection, or a test that fails: the exception is left to get().    *)
Throws(r) == work[r].read = 0 /\ Goes(r, "reading", "threw") /\ OnlyWork

EndOfStream(r) ==
  work[r].read = Len(work[r].answer) /\ Goes(r, "reading", "returned") /\ OnlyWork

(* The future completes, and done goes into the batch, unless it was       *)
(* called when the worker was cancelled.                                   *)
Completes(r) ==
  LET w == work[r]
  IN  /\ w.thread \in {"returned", "threw"}
      /\ IF w.future = "cancelled"
         THEN Becomes(r, [w EXCEPT !.thread = "through"]) /\ UNCHANGED batch
         ELSE /\ Becomes(r, [w EXCEPT !.thread = "through",
                               !.future = IF w.thread = "threw" THEN "failed" ELSE "done"])
              /\ batch' = Append(batch, Text("done", r))
      /\ PanelAlone

-----------------------------------------------------------------------------
(* The event dispatch thread                                               *)

TimerFires ==
  /\ batch # << >> /\ \A i \in DOMAIN edt : edt[i] # Flush
  /\ edt' = Append(edt, Flush)
  /\ UNCHANGED <<work, batch, running, area, cancellable, active, current, quiet>>

SetText ==
  /\ Idle /\ edt # << >> /\ Head(edt) # Flush
  /\ area' = <<Head(edt)>> /\ edt' = Tail(edt)
  /\ UNCHANGED <<work, batch, running, cancellable, active, current, quiet>>

TakeBatch ==
  /\ Idle /\ edt # << >> /\ Head(edt) = Flush
  /\ running' = batch /\ batch' = << >> /\ edt' = Tail(edt)
  /\ UNCHANGED <<work, area, cancellable, active, current, quiet>>

(* The texts at the places at, in their order.                             *)
Picked(texts, at) ==
  [n \in 1..Cardinality(at) |->
     texts[CHOOSE i \in at : Cardinality({j \in at : j <= i}) = n]]

IsContent(text) == text.what = "content"
Unhandled(r) == SubSeq(work[r].said, work[r].taken + 1, Len(work[r].said))

(* What process appends, and what it posts.                                *)
Appends(texts) == Picked(texts, {i \in DOMAIN texts : IsContent(texts[i])})
Posts(texts) == Picked(texts, {i \in DOMAIN texts : ~IsContent(texts[i])})

Runs(what, r) ==
  /\ running # << >> /\ Head(running) = Text(what, r)
  /\ running' = Tail(running)
  /\ UNCHANGED <<batch, active, current, quiet>>

Process(r) ==
  /\ Runs("process", r)
  /\ area' = area \o Appends(Unhandled(r)) /\ edt' = edt \o Posts(Unhandled(r))
  /\ Becomes(r, [work[r] EXCEPT !.taken = Len(work[r].said)])
  /\ UNCHANGED cancellable

(* done of any worker disables the cancel button and stops the clock.      *)
NoFailure(r) == << >>
Failure(r) == IF work[r].future = "failed" THEN <<Text("error", r)>> ELSE << >>
Done(r) ==
  /\ Runs("done", r)
  /\ edt' = edt \o Failure(r) /\ cancellable' = FALSE
  /\ UNCHANGED <<work, area>>

Thread(r) ==
  \/ Begin(r) \/ NeverBegins(r) \/ Read(r) \/ NoticesInterrupt(r) \/ Publish(r)
  \/ Breaks(r) \/ Throws(r) \/ EndOfStream(r) \/ Completes(r)

Next ==
  \/ \E r \in Requests :
       \/ Thread(r) \/ Process(r) \/ Done(r)
       \/ Start(r, "test", <<"result">>)
       \/ \E answer \in Answers : Start(r, "stream", answer)
  \/ Cancel \/ Note
  \/ TimerFires \/ SetText \/ TakeBatch

Spec == Init /\ [][Next]_vars

-----------------------------------------------------------------------------
(* Properties                                                              *)

(* What has been said, as a reader expects to see it: from the last text   *)
(* that replaces everything.                                               *)
Display(texts) ==
  LET last == CHOOSE i \in DOMAIN texts :
                /\ ~IsContent(texts[i])
                /\ \A j \in (i + 1)..Len(texts) : IsContent(texts[j])
  IN  SubSeq(texts, last, Len(texts))

(* A request that nothing else interferes with can be cancelled while it   *)
(* is under way, and is shown as it went: what it said in the order it     *)
(* said it, although part of it is appended at once and part is posted,    *)
(* its failure if it failed, and never the loading text once it was        *)
(* cancelled.                                                              *)
UndisturbedIsServed ==
  LET w == work[current]
  IN  quiet =>
      /\ w.future = "pending" => cancellable /\ active = current
      /\ Settled =>
           /\ \A i \in DOMAIN area : area[i].of = current
           /\ w.future = "cancelled" => area[1].what # "loading"
           /\ w.future = "failed" => area = <<Text("error", current)>>
           /\ w.future = "done" => area = Display(<<Text("loading", current)>> \o w.said)

(* cancel(true) does not close the connection, and the thread of a         *)
(* cancelled request waits for what it is reading.  But then it falls      *)
(* silent: it says at most what it had in hand, and that it was            *)
(* interrupted.                                                            *)
CancelledFallsSilent ==
  \A r \in Requests :
    work[r].future = "cancelled" => Len(work[r].said) <= work[r].heard + 2
=============================================================================
