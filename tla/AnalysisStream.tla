--------------------------- MODULE AnalysisStream ---------------------------
(***************************************************************************)
(* One interactive request from its first event to its last: the generator *)
(* AnalysisService.analyze_with_progress behind /analyze and               *)
(* /analyze/stream, RoadmapService._synthesize behind /recon/roadmap, and  *)
(* the provider calls under them with their retries.                       *)
(*                                                                         *)
(* Requests share the event loop and the history.  A stretch without an    *)
(* await or a yield is one step; at every await and yield in between the   *)
(* client of a stream may leave, which closes the generator there: neither *)
(* CancelledError nor GeneratorExit is an Exception, so no handler runs.   *)
(* The handlers of the other two endpoints run to their end regardless.    *)
(***************************************************************************)
EXTENDS ResultParser

CONSTANTS
  Requests,       \* the requests of this run of the server
  MaxAttempts,    \* max_attempts of a provider call
  Answers         \* the answers a provider may send, token by token

ASSUME StreamAssumption ==
  MaxAttempts \in Nat \ {0} /\ Answers \subseteq Seq(STRING)

VARIABLES
  call,           \* call[r]: the local state of the handler of request r
  history         \* the rows of analysis_history, each with its request

vars == <<call, history>>

Kinds == {"stream", "plain", "roadmap"}
Ended == {"answered", "broken", "left"}

(* given[a] is what the provider set out to send in attempt a, origin[i]   *)
(* the attempt that sent the i-th token collected.                         *)
Call == [kind: Kinds,
         pc: {"idle", "opened", "calling", "receiving", "parsing",
              "repairing", "saving", "stored"} \cup Ended,
         attempt: 1..MaxAttempts, given: [1..MaxAttempts -> Seq(STRING)],
         sent: Nat, collected: Seq(STRING), origin: Seq(1..MaxAttempts),
         status: {"none", "ok", "repaired", "failed"},
         parsed: Seq(STRING), source: Seq(1..MaxAttempts)]

(* The analysis as AnalysisResponse and as the row written of it.          *)
Row == [request: Requests, status: {"ok", "repaired", "failed"},
        parsed: Seq(STRING), source: Seq(1..MaxAttempts)]

NewCall == [kind |-> "plain", pc |-> "idle", attempt |-> 1,
            given |-> [a \in 1..MaxAttempts |-> << >>], sent |-> 0,
            collected |-> << >>, origin |-> << >>,
            status |-> "none", parsed |-> << >>, source |-> << >>]

TypeOK == call \in [Requests -> Call] /\ history \subseteq Row

Init == call = [r \in Requests |-> NewCall] /\ history = {}

-----------------------------------------------------------------------------
(* Helpers                                                                 *)

RowOf(r) == [request |-> r, status |-> call[r].status,
             parsed |-> call[r].parsed, source |-> call[r].source]

Becomes(r, new) == call' = [call EXCEPT ![r] = new]
Goes(r, from, to) ==
  call[r].pc = from /\ Becomes(r, [call[r] EXCEPT !.pc = to])

TriedTooOften(r) == call[r].attempt > MaxAttempts
LastAttempt(r) == call[r].attempt = MaxAttempts

-----------------------------------------------------------------------------
(* The provider call                                                       *)

(* The endpoint has found a provider; guard, redaction and prompt follow.  *)
Begin(r, kind) ==
  /\ call[r].pc = "idle"
  /\ Becomes(r, [call[r] EXCEPT !.kind = kind, !.pc = "opened"])
  /\ UNCHANGED history

(* After redacting, the prompt and the status calling_provider.            *)
CallProvider(r) == Goes(r, "opened", "calling") /\ UNCHANGED history

(* A roadmap for a host without endpoints needs no provider.               *)
NothingToPlan(r) ==
  call[r].kind = "roadmap" /\ Goes(r, "opened", "answered") /\ UNCHANGED history

(* Status 200: the stream of an answer begins.                             *)
ConnectResumes(r) ==
  /\ call[r].pc = "calling" /\ call[r].kind # "roadmap"
  /\ \E answer \in Answers :
       Becomes(r, [call[r] EXCEPT !.pc = "receiving",
                                  !.given[call[r].attempt] = answer])
  /\ UNCHANGED history

Connect(r) ==
  /\ call[r].pc = "calling" /\ call[r].kind # "roadmap"
  /\ \E answer \in Answers :
       Becomes(r, [call[r] EXCEPT !.pc = "receiving", !.sent = 0,
                                  !.given[call[r].attempt] = answer])
  /\ UNCHANGED history

(* A data line with content is collected and yielded to the client.        *)
Chunk(r) ==
  LET c == call[r]
      line == c.given[c.attempt]
  IN  /\ c.pc = "receiving" /\ c.sent < Len(line)
      /\ Becomes(r, [c EXCEPT !.sent = @ + 1,
                              !.collected = Append(@, line[c.sent + 1]),
                              !.origin = Append(@, c.attempt)])
      /\ UNCHANGED history

(* [DONE], or the end of the lines without it, which passes for it too.    *)
StreamEnds(r) == Goes(r, "receiving", "parsing") /\ UNCHANGED history

(* _chat, which analyze uses: the whole answer at once.                    *)
WholeAnswer(r) ==
  LET c == call[r]
  IN  /\ c.pc = "calling" /\ c.kind = "roadmap"
      /\ \E answer \in Answers :
           Becomes(r, [c EXCEPT !.pc = "parsing", !.given[c.attempt] = answer,
                                !.collected = answer,
                                !.origin = [i \in DOMAIN answer |-> c.attempt]])
      /\ UNCHANGED history

(* A timeout or transport error at any point, or a transient status: after *)
(* a pause the next attempt starts, and what was yielded stays collected.  *)
Retry(r) ==
  /\ call[r].pc \in {"calling", "receiving"} /\ ~LastAttempt(r)
  /\ Becomes(r, [call[r] EXCEPT !.pc = "calling", !.attempt = @ + 1])
  /\ UNCHANGED history

(* The last attempt fails, or an attempt fails in a way that is not tried  *)
(* again: no key, another status, a closed client, a line of another form. *)
ProviderFails(r) ==
  /\ call[r].pc \in {"calling", "receiving"}
  /\ Becomes(r, [call[r] EXCEPT !.pc = "saving", !.status = "failed"])
  /\ UNCHANGED history

-----------------------------------------------------------------------------
(* What becomes of the answer                                              *)

(* _parse_raw; the client of a stream still hears of it by a status.       *)
Parse(r) ==
  LET c == call[r]
      object == ExtractJsonObject(c.collected)
  IN  /\ c.pc = "parsing"
      /\ IF Parses(c.collected)
         THEN Becomes(r, [c EXCEPT !.pc = "saving", !.status = "ok",
                                   !.parsed = Between(c.collected, object),
                                   !.source = Between(c.origin, object)])
         ELSE Becomes(r, [c EXCEPT !.pc = "repairing"])
      /\ UNCHANGED history

(* repair_json, a call of its own that answers in one piece, or raises.    *)
RepairAgain(r) == Goes(r, "repairing", "parsing") /\ UNCHANGED history
Repaired(r) ==
  /\ call[r].pc = "repairing"
  /\ Becomes(r, [call[r] EXCEPT !.pc = "saving", !.status = "repaired"])
  /\ UNCHANGED history

RepairFails(r) ==
  /\ call[r].pc = "repairing"
  /\ Becomes(r, [call[r] EXCEPT !.pc = "saving", !.status = "failed"])
  /\ UNCHANGED history

(* history.save commits; the next event is the status persisted or failed. *)
SavesUnlessFailed(r) == call[r].status # "failed"
Saves(r) == call[r].kind # "roadmap"

Save(r) ==
  /\ Goes(r, "saving", "stored")
  /\ history' = IF Saves(r) THEN history \cup {RowOf(r)} ELSE history

(* A finding does not validate or the transaction raises: the response is  *)
(* a 500, or a stream that breaks off.                                     *)
SaveRaises(r) == Saves(r) /\ Goes(r, "saving", "broken") /\ UNCHANGED history

(* The result event, or the body of the response.                          *)
Deliver(r) == Goes(r, "stored", "answered") /\ UNCHANGED history

(* The client of a stream disconnects.  From the end of the last await to  *)
(* the status after save there is nothing to interrupt.                    *)
Leaves(r) ==
  /\ call[r].kind = "stream" /\ call[r].pc \notin {"idle", "saving"} \cup Ended
  /\ Becomes(r, [call[r] EXCEPT !.pc = "left"])
  /\ UNCHANGED history

-----------------------------------------------------------------------------
Step(r) ==
  \/ CallProvider(r) \/ NothingToPlan(r) \/ Connect(r) \/ Chunk(r) \/ StreamEnds(r)
  \/ WholeAnswer(r) \/ Retry(r) \/ ProviderFails(r)
  \/ Parse(r) \/ Repaired(r) \/ RepairFails(r)
  \/ Save(r) \/ SaveRaises(r) \/ Deliver(r)

Next == \E r \in Requests :
  Step(r) \/ Leaves(r) \/ \E kind \in Kinds : Begin(r, kind)

Spec == Init /\ [][Next]_vars

(* Every await has a timeout (120 s between two lines of a stream) and the *)
(* client of a stream reads it or leaves.                                  *)
FairSpec == Spec /\ \A r \in Requests : WF_vars(Step(r))

-----------------------------------------------------------------------------
(* Properties                                                              *)

Rows(r) == {h \in history : h.request = r}

(* Whoever has been given a result finds exactly that analysis in the      *)
(* history, and one row of it: the commit comes before the result, and no  *)
(* retry, repair or failure writes a row of its own.  Whoever left may     *)
(* have left it behind; nobody else leaves a row, and a roadmap none.      *)
RowsMatchResults ==
  \A r \in Requests :
    CASE call[r].kind # "roadmap" /\ call[r].pc \in {"stored", "answered"} ->
           Rows(r) = {RowOf(r)}
      [] call[r].kind = "stream" /\ call[r].pc = "left" -> Rows(r) \subseteq {RowOf(r)}
      [] OTHER -> Rows(r) = {}

(* An answer accepted as it came is a piece of what one attempt sent.  The *)
(* pieces of attempts that broke off stay collected and are parsed with it *)
(* as one text; they become part of an analysis only if a later answer     *)
(* closes a brace that it did not open itself.                             *)
ClosesItsOwn(answer) == \A k \in DOMAIN answer : Nesting(answer, k) >= 0

OneAnswersObject ==
  \A h \in history : h.status = "ok" =>
    LET given  == call[h.request].given
        first  == h.source[1]
        answer == given[first]
    IN  \/ /\ \A i \in DOMAIN h.source : h.source[i] = first
           /\ \E from, to \in DOMAIN answer : h.parsed = SubSeq(answer, from, to)
        \/ \E i \in DOMAIN h.source :
             h.source[i] > first /\ ~ClosesItsOwn(given[h.source[i]])

(* The object at from..to is as the prompt asks for it: its first brace is *)
(* the first of the answer, and its braces match each other even when      *)
(* strings are not told apart.  Text may surround it, and blocks of text;  *)
(* if it is fenced, its block ends behind it.                              *)
IsAsked(text, from, to) ==
  /\ from <= to /\ SubSeq(text, from, to) \in ResultObjects
  /\ text[from] = "{" /\ \A i \in 1..(from - 1) : text[i] # "{"
  /\ Depth(text, from, to) = 0 /\ \A i \in from..(to - 1) : Depth(text, from, i) # 0
  /\ LET braced == {b \in Blocks(text) : \E i \in b[1]..b[2] : text[i] = "{"}
     IN  braced = {} \/ \E b \in braced : b[1] < from /\ to < b[2]

AsAsked(text) == \E from, to \in DOMAIN text : IsAsked(text, from, to)

(* A good answer that arrived whole is accepted without another provider   *)
(* call, unless an earlier attempt had yielded some of its answer before   *)
(* it broke.                                                               *)
GoodAnswerIsUsed ==
  \A r \in Requests : call[r].pc = "repairing" =>
    \/ ~AsAsked(call[r].given[call[r].attempt])
    \/ call[r].collected # call[r].given[call[r].attempt]

(* Every request comes to an end, and only the client of a stream can go   *)
(* without its answer or an error.                                         *)
EveryRequestEnds ==
  \A r \in Requests :
    (call[r].pc # "idle") ~>
      \/ call[r].pc \in {"answered", "broken"}
      \/ call[r].kind = "stream" /\ call[r].pc = "left"
=============================================================================
