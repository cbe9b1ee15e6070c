-------------------------- MODULE AnalysisStreamProofs --------------------------
(***************************************************************************)
(* Theorems about AnalysisStream, for any requests, answers and number of  *)
(* attempts: the types, for which the parser must never look outside the   *)
(* text it is given; what is in the history; that a good answer is used;   *)
(* and when an accepted analysis can be of more than one attempt.          *)
(***************************************************************************)
EXTENDS AnalysisStream, SequenceTheorems, FiniteSetTheorems, WellFoundedInduction, TLAPS

-----------------------------------------------------------------------------
(* The parser                                                              *)

LEMMA LeastOf ==
  ASSUME NEW S \in SUBSET Nat, S # {}
  PROVE  Least(S) \in S /\ \A j \in S : Least(S) <= j
<1>1. PICK i \in S : \A j \in S : ~(<<j, i>> \in OpToRel(<, Nat))
  BY NatLessThanWellFounded, WFMin
<1>2. i \in Nat /\ \A j \in S : j \in Nat /\ ~(j < i)
  BY <1>1 DEF OpToRel
<1>3. \A j \in S : i <= j
  BY <1>2
<1> QED
  BY <1>3 DEF Least

Spans(text) == (1..Len(text) + 1) \X (0..Len(text))

LEMMA BodyInText ==
  ASSUME NEW text \in Seq(STRING)
  PROVE  Body(text) \in Spans(text)
<1> DEFINE found == {b \in Blocks(text) :
                       \E i \in Places(text, {"{"}) : b[1] < i /\ i < b[2]}
<1>1. Len(text) \in Nat /\ DOMAIN text = 1..Len(text)
  BY LenProperties
<1>2. CASE found = {}
  <2>1. Body(text) = <<1, Len(text)>>
    BY <1>2 DEF Body
  <2> QED
    BY <1>1, <2>1 DEF Spans
<1>3. CASE found # {}
  <2> DEFINE first == {b[1] : b \in found}
             last  == {b[2] : b \in found}
  <2>1. found \subseteq (1..Len(text)) \X (1..Len(text))
    BY <1>1 DEF Blocks, Places
  <2>2. Body(text) = <<Least(first) + 1, Least(last) - 1>>
    BY <1>3 DEF Body
  <2> HIDE DEF found
  <2>3. /\ first # {} /\ first \subseteq 1..Len(text)
        /\ last # {} /\ last \subseteq 1..Len(text)
    BY <1>3, <2>1
  <2> HIDE DEF first, last
  <2>7. 1..Len(text) \subseteq Nat
    BY <1>1
  <2>4. first \in SUBSET Nat /\ last \in SUBSET Nat
    BY <2>3, <2>7
  <2>5. Least(first) \in 1..Len(text) /\ Least(last) \in 1..Len(text)
    BY <2>3, <2>4, LeastOf
  <2>6. Least(first) + 1 \in 1..Len(text) + 1 /\ Least(last) - 1 \in 0..Len(text)
    BY <1>1, <2>5
  <2> QED
    BY <2>2, <2>6 DEF Spans
<1> QED
  BY <1>2, <1>3

(* What the search for the object stops at.                                *)
Opens(text) == {i \in Body(text)[1]..Body(text)[2] : text[i] = "{"}

RightSpan(text, span) ==
  IF Opens(text) = {} THEN span = Body(text)
  ELSE /\ span[1] \in Opens(text) /\ \A i \in Opens(text) : span[1] <= i
       /\ span[2] <= Body(text)[2]
       /\ \A i \in span[1]..(span[2] - 1) : Depth(text, span[1], i) # 0
       /\ \/ span[2] >= span[1] /\ Depth(text, span[1], span[2]) = 0
          \/ span[2] = Body(text)[2]

(* The span that is accepted or rejected is always one of the text.        *)
LEMMA SpanIsRight ==
  ASSUME NEW text \in Seq(STRING)
  PROVE  /\ ExtractJsonObject(text) \in Spans(text)
         /\ RightSpan(text, ExtractJsonObject(text))
<1> DEFINE body == Body(text)
           opens == {i \in body[1]..body[2] : text[i] = "{"}
           Closed(span, i) == Depth(text, span[1], i) = 0
           Right(span) ==
             IF opens = {} THEN span = body
             ELSE /\ span[1] \in opens /\ \A i \in opens : span[1] <= i
                  /\ span[2] <= body[2]
                  /\ \A i \in span[1]..(span[2] - 1) : ~Closed(span, i)
                  /\ \/ span[2] >= span[1] /\ Closed(span, span[2])
                     \/ span[2] = body[2]
<1>1. Len(text) \in Nat
  BY LenProperties
<1>2. body \in Spans(text) /\ body[1] \in 1..Len(text) + 1 /\ body[2] \in 0..Len(text)
  BY BodyInText DEF Spans
<1>3. \E span \in Spans(text) : Right(span)
  <2>1. CASE opens = {}
    BY <1>2, <2>1
  <2>2. CASE opens # {}
    <3> DEFINE first == Least(opens)
               ends == {i \in first..body[2] : Depth(text, first, i) = 0}
    <3>0. body[1] \in Nat /\ body[2] \in Nat /\ 1 <= body[1] /\ body[2] <= Len(text)
      <4> HIDE DEF body
      <4> QED
        BY <1>1, <1>2
    <3>1. opens \in SUBSET Nat
      <4> HIDE DEF body
      <4>1. body[1]..body[2] \subseteq Nat
        BY <3>0
      <4>2. opens \subseteq body[1]..body[2]
        OBVIOUS
      <4> HIDE DEF opens
      <4> QED
        BY <4>1, <4>2
    <3>2. first \in opens /\ \A i \in opens : first <= i
      <4> HIDE DEF opens
      <4> QED
        BY <2>2, <3>1, LeastOf
    <3>3. first \in body[1]..body[2] /\ first \in Nat
      <4> HIDE DEF first, body
      <4> QED
        BY <3>1, <3>2
    <3> HIDE DEF body, opens, first
    <3>4. first \in 1..Len(text) + 1 /\ body[2] \in Int
      BY <1>1, <3>0, <3>3
    <3>5. CASE ends = {}
      <4>1. <<first, body[2]>> \in Spans(text)
        BY <1>2, <3>4 DEF Spans
      <4>2. \A i \in first..(body[2] - 1) : Depth(text, first, i) # 0
        BY <3>3, <3>4, <3>5
      <4>3. body[2] <= body[2]
        BY <3>4
      <4> QED
        BY <2>2, <3>2, <4>1, <4>2, <4>3
    <3>6. CASE ends # {}
      <4> DEFINE last == Least(ends)
      <4>1. ends \in SUBSET Nat
        BY <3>3, <3>4
      <4>2. last \in ends /\ \A i \in ends : last <= i
        <5> HIDE DEF ends
        <5> QED
          BY <3>6, <4>1, LeastOf
      <4>3. /\ last \in first..body[2] /\ last \in Nat /\ first <= last /\ last <= body[2]
            /\ Depth(text, first, last) = 0
        BY <3>3, <3>4, <4>1, <4>2
      <4>4. \A i \in first..(last - 1) : Depth(text, first, i) # 0
        <5>1. ASSUME NEW i \in first..(last - 1), Depth(text, first, i) = 0
              PROVE  FALSE
          <6>1. i \in first..body[2] /\ ~(last <= i)
            BY <3>3, <3>4, <4>3
          <6> QED
            BY <4>2, <5>1, <6>1
        <5> QED
          BY <5>1
      <4> HIDE DEF last, ends
      <4>5. <<first, last>> \in Spans(text)
        BY <1>1, <1>2, <3>4, <4>3 DEF Spans
      <4> QED
        BY <2>2, <3>2, <4>3, <4>4, <4>5
    <3> QED
      BY <3>5, <3>6
  <2> QED
    BY <2>1, <2>2
<1>4. ExtractJsonObject(text) = CHOOSE span \in Spans(text) : Right(span)
  BY DEF ExtractJsonObject, Spans
<1>5. \A span : Right(span) => RightSpan(text, span)
  BY DEF RightSpan, Opens
<1> HIDE DEF Right
<1> QED
  BY <1>3, <1>4, <1>5

LEMMA SpanInText ==
  ASSUME NEW text \in Seq(STRING)
  PROVE  ExtractJsonObject(text) \in Spans(text)
BY SpanIsRight

LEMMA BetweenType ==
  ASSUME NEW S, NEW text \in Seq(S), NEW span \in Spans(text)
  PROVE  Between(text, span) \in Seq(S)
<1>1. Len(text) \in Nat
  BY LenProperties
<1>2. span[1] \in 1..Len(text) + 1 /\ span[2] \in 0..Len(text)
  BY DEF Spans
<1>3. \A i \in span[1]..span[2] : text[i] \in S
  BY <1>1, <1>2, ElementOfSeq
<1> QED
  BY <1>1, <1>2, <1>3, SubSeqProperties DEF Between

-----------------------------------------------------------------------------
(* The state                                                               *)

RowFor(r, c) ==
  [request |-> r, status |-> c.status, parsed |-> c.parsed, source |-> c.source]

Stored(c) == c.kind # "roadmap" /\ c.pc \in {"stored", "answered"}
Gone(c) == c.kind = "stream" /\ c.pc = "left"

(* The rows of one request fit its state: RowsMatchResults for it.         *)
Fits(r, c, rows) ==
  /\ Stored(c) => rows = {RowFor(r, c)}
  /\ Gone(c) => rows \subseteq {RowFor(r, c)}
  /\ ~Stored(c) /\ ~Gone(c) => rows = {}

(* What is about to be saved has a status, and each token an origin.       *)
Coherent(c) ==
  /\ c.pc = "saving" => c.status # "none"
  /\ Len(c.origin) = Len(c.collected)

IInv ==
  /\ TypeOK
  /\ \A r \in Requests : Coherent(call[r]) /\ Fits(r, call[r], Rows(r))

LEMMA FitsIsMatch == IInv => RowsMatchResults
BY DEF IInv, Fits, Stored, Gone, RowFor, RowsMatchResults, RowOf

(* A step of one request that leaves the history alone.                    *)
LEMMA OneMoves ==
  ASSUME IInv, NEW r \in Requests, NEW new \in Call, Becomes(r, new),
         UNCHANGED history, Coherent(new), Fits(r, new, Rows(r))
  PROVE  IInv'
<1>1. /\ call' \in [Requests -> Call] /\ call'[r] = new
      /\ \A q \in Requests : q # r => call'[q] = call[q]
  BY DEF Becomes, IInv, TypeOK
<1>2. \A q \in Requests : Rows(q)' = Rows(q)
  BY DEF Rows
<1>3. ASSUME NEW q \in Requests
      PROVE  Coherent(call'[q]) /\ Fits(q, call'[q], Rows(q)')
  <2>1. CASE q = r
    BY <2>1, <1>1, <1>2
  <2>2. CASE q # r
    BY <2>2, <1>1, <1>2 DEF IInv
  <2> QED
    BY <2>1, <2>2
<1>4. TypeOK'
  BY <1>1 DEF IInv, TypeOK
<1> QED
  BY <1>3, <1>4 DEF IInv

(* A request on its way has no row and may go anywhere but to where one    *)
(* is due.                                                                 *)
LEMMA OnItsWay ==
  ASSUME IInv, NEW r \in Requests, NEW new \in Call, Becomes(r, new),
         UNCHANGED history, Coherent(new),
         call[r].pc \notin {"stored"} \cup Ended, ~Stored(new)
  PROVE  IInv'
<1>1. Rows(r) = {}
  BY DEF IInv, Fits, Stored, Gone, Ended
<1>2. Fits(r, new, Rows(r))
  BY <1>1 DEF Fits
<1> QED
  BY <1>2, OneMoves

-----------------------------------------------------------------------------
(* The steps                                                               *)

LEMMA CallType ==
  ASSUME IInv, NEW r \in Requests
  PROVE  call[r] \in Call /\ Len(call[r].origin) = Len(call[r].collected)
BY DEF IInv, TypeOK, Coherent

LEMMA BeginInv ==
  ASSUME IInv, NEW r \in Requests, NEW kind \in Kinds, Begin(r, kind)
  PROVE  IInv'
<1> DEFINE new == [call[r] EXCEPT !.kind = kind, !.pc = "opened"]
<1>1. /\ new \in Call /\ new.pc = "opened"
      /\ new.collected = call[r].collected /\ new.origin = call[r].origin
  BY CallType, ZenonT(60) DEF Call
<1>2. Coherent(new) /\ ~Stored(new)
  BY <1>1, CallType DEF Coherent, Stored
<1>3. Becomes(r, new) /\ UNCHANGED history /\ call[r].pc \notin {"stored"} \cup Ended
  BY DEF Begin, Ended
<1> HIDE DEF new
<1> QED
  BY <1>1, <1>2, <1>3, OnItsWay

(* The steps that only move a request on.                                  *)
LEMMA GoesInv ==
  ASSUME IInv, NEW r \in Requests,
         NEW from \in {"opened", "receiving", "saving"},
         NEW to \in {"calling", "parsing", "answered", "broken"},
         Goes(r, from, to), UNCHANGED history,
         to = "answered" => call[r].kind = "roadmap"
  PROVE  IInv'
<1> DEFINE new == [call[r] EXCEPT !.pc = to]
<1>1. /\ new \in Call /\ new.pc = to /\ new.kind = call[r].kind
      /\ new.collected = call[r].collected /\ new.origin = call[r].origin
  BY CallType, SMTT(30) DEF Call, Ended
<1>2. Coherent(new) /\ ~Stored(new)
  BY <1>1, CallType DEF Coherent, Stored
<1>3. Becomes(r, new) /\ call[r].pc \notin {"stored"} \cup Ended
  BY DEF Goes, Ended
<1> HIDE DEF new
<1> QED
  BY <1>1, <1>2, <1>3, OnItsWay

LEMMA ConnectInv ==
  ASSUME IInv, NEW r \in Requests, Connect(r) PROVE IInv'
<1>1. PICK answer \in Answers :
        Becomes(r, [call[r] EXCEPT !.pc = "receiving", !.sent = 0,
                                   !.given[call[r].attempt] = answer])
  BY DEF Connect
<1> DEFINE new == [call[r] EXCEPT !.pc = "receiving", !.sent = 0,
                                  !.given[call[r].attempt] = answer]
<1>2. answer \in Seq(STRING)
  BY StreamAssumption
<1>3. /\ new \in Call /\ new.pc = "receiving"
      /\ new.collected = call[r].collected /\ new.origin = call[r].origin
  BY <1>2, CallType, ZenonT(60) DEF Call
<1>4. Coherent(new) /\ ~Stored(new)
  BY <1>3, CallType DEF Coherent, Stored
<1>5. Becomes(r, new) /\ UNCHANGED history /\ call[r].pc \notin {"stored"} \cup Ended
  BY <1>1 DEF Connect, Ended
<1> HIDE DEF new
<1> QED
  BY <1>3, <1>4, <1>5, OnItsWay

LEMMA ChunkInv ==
  ASSUME IInv, NEW r \in Requests, Chunk(r) PROVE IInv'
<1> DEFINE c    == call[r]
           line == c.given[c.attempt]
           new  == [c EXCEPT !.sent = @ + 1,
                             !.collected = Append(@, line[c.sent + 1]),
                             !.origin = Append(@, c.attempt)]
<1>1. /\ c \in Call /\ c.pc = "receiving" /\ c.sent < Len(line)
      /\ Becomes(r, new) /\ UNCHANGED history
  BY CallType DEF Chunk
<1>2. /\ line \in Seq(STRING) /\ c.sent \in Nat /\ c.attempt \in 1..MaxAttempts
      /\ c.collected \in Seq(STRING) /\ c.origin \in Seq(1..MaxAttempts)
  BY <1>1 DEF Call
<1>3. c.sent + 1 \in 1..Len(line) /\ c.sent + 1 \in Nat
  <2>1. Len(line) \in Nat /\ c.sent \in Nat /\ c.sent < Len(line)
    BY <1>1, <1>2, LenProperties
  <2> HIDE DEF c, line
  <2> QED
    BY <2>1
<1>4. line[c.sent + 1] \in STRING
  BY <1>2, <1>3, ElementOfSeq
<1>5. /\ Append(c.collected, line[c.sent + 1]) \in Seq(STRING)
      /\ Append(c.origin, c.attempt) \in Seq(1..MaxAttempts)
      /\ Len(Append(c.collected, line[c.sent + 1])) = Len(c.collected) + 1
      /\ Len(Append(c.origin, c.attempt)) = Len(c.origin) + 1
  BY <1>2, <1>4, AppendProperties
<1>6. /\ new \in Call /\ new.pc = "receiving"
      /\ Len(new.origin) = Len(c.origin) + 1
      /\ Len(new.collected) = Len(c.collected) + 1
  BY <1>1, <1>3, <1>5 DEF Call
<1>7. Coherent(new) /\ ~Stored(new)
  BY <1>6, CallType DEF Coherent, Stored
<1>8. call[r].pc \notin {"stored"} \cup Ended
  BY <1>1 DEF Ended
<1> HIDE DEF new
<1> QED
  BY <1>1, <1>6, <1>7, <1>8, OnItsWay

LEMMA WholeAnswerInv ==
  ASSUME IInv, NEW r \in Requests, WholeAnswer(r) PROVE IInv'
<1> DEFINE c == call[r]
           After(answer) ==
             [c EXCEPT !.pc = "parsing", !.given[c.attempt] = answer,
                       !.collected = answer,
                       !.origin = [i \in DOMAIN answer |-> c.attempt]]
<1>1. PICK answer \in Answers : Becomes(r, After(answer))
  BY DEF WholeAnswer
<1>2. c \in Call /\ c.attempt \in 1..MaxAttempts
  BY CallType DEF Call
<1>3. answer \in Seq(STRING) /\ Len(answer) \in Nat /\ DOMAIN answer = 1..Len(answer)
  BY StreamAssumption, LenProperties
<1>4. /\ [i \in DOMAIN answer |-> c.attempt] \in Seq(1..MaxAttempts)
      /\ Len([i \in DOMAIN answer |-> c.attempt]) = Len(answer)
  <2>1. [i \in 1..Len(answer) |-> c.attempt] \in [1..Len(answer) -> 1..MaxAttempts]
    BY <1>2
  <2> QED
    BY <1>3, <2>1
<1>5. /\ After(answer) \in Call /\ After(answer).pc = "parsing"
      /\ Len(After(answer).origin) = Len(After(answer).collected)
  BY <1>2, <1>3, <1>4 DEF Call
<1>6. UNCHANGED history /\ call[r].pc \notin {"stored"} \cup Ended
  BY DEF WholeAnswer, Ended
<1> HIDE DEF After
<1>7. Coherent(After(answer)) /\ ~Stored(After(answer))
  BY <1>5, CallType DEF Coherent, Stored
<1> QED
  BY <1>1, <1>5, <1>6, <1>7, OnItsWay

LEMMA RetryInv ==
  ASSUME IInv, NEW r \in Requests, Retry(r) PROVE IInv'
<1> DEFINE c   == call[r]
           new == [c EXCEPT !.pc = "calling", !.attempt = @ + 1]
<1>1. c \in Call /\ c.attempt \in 1..MaxAttempts /\ c.attempt # MaxAttempts
  BY CallType DEF Call, Retry, LastAttempt
<1>2. c.attempt + 1 \in 1..MaxAttempts
  BY <1>1, StreamAssumption
<1>3. /\ new \in Call /\ new.pc = "calling"
      /\ new.collected = call[r].collected /\ new.origin = call[r].origin
  BY <1>1, <1>2 DEF Call
<1>4. Coherent(new) /\ ~Stored(new)
  BY <1>3, CallType DEF Coherent, Stored
<1>5. Becomes(r, new) /\ UNCHANGED history /\ call[r].pc \notin {"stored"} \cup Ended
  BY DEF Retry, Ended
<1> HIDE DEF new
<1> QED
  BY <1>3, <1>4, <1>5, OnItsWay

(* The steps that lead to saving with a status.                            *)
LEMMA SettlesInv ==
  ASSUME IInv, NEW r \in Requests, NEW status \in {"repaired", "failed"},
         call[r].pc \in {"calling", "receiving", "repairing"},
         Becomes(r, [call[r] EXCEPT !.pc = "saving", !.status = status]),
         UNCHANGED history
  PROVE  IInv'
<1> DEFINE new == [call[r] EXCEPT !.pc = "saving", !.status = status]
<1>1. /\ new \in Call /\ new.pc = "saving" /\ new.status = status
      /\ new.collected = call[r].collected /\ new.origin = call[r].origin
  BY CallType, ZenonT(60) DEF Call
<1>2. Coherent(new) /\ ~Stored(new)
  BY <1>1, CallType DEF Coherent, Stored
<1>3. call[r].pc \notin {"stored"} \cup Ended
  BY DEF Ended
<1>4. Becomes(r, new)
  OBVIOUS
<1> HIDE DEF new
<1> QED
  BY <1>1, <1>2, <1>3, <1>4, OnItsWay

LEMMA BetweenOfCall ==
  ASSUME NEW c \in Call, Len(c.origin) = Len(c.collected)
  PROVE  LET object == ExtractJsonObject(c.collected)
         IN  /\ Between(c.collected, object) \in Seq(STRING)
             /\ Between(c.origin, object) \in Seq(1..MaxAttempts)
<1>1. c.collected \in Seq(STRING) /\ c.origin \in Seq(1..MaxAttempts)
  BY DEF Call
<1>2. /\ ExtractJsonObject(c.collected) \in Spans(c.collected)
      /\ Spans(c.origin) = Spans(c.collected)
  BY <1>1, SpanInText DEF Spans
<1> QED
  BY <1>1, <1>2, BetweenType

LEMMA ParseInv ==
  ASSUME IInv, NEW r \in Requests, Parse(r) PROVE IInv'
<1> DEFINE c      == call[r]
           object == ExtractJsonObject(c.collected)
<1>1. /\ c \in Call /\ c.pc = "parsing" /\ UNCHANGED history
      /\ call[r].pc \notin {"stored"} \cup Ended
  BY CallType DEF Parse, Ended
<1>2. CASE Parses(c.collected)
  <2> DEFINE new == [c EXCEPT !.pc = "saving", !.status = "ok",
                              !.parsed = Between(c.collected, object),
                              !.source = Between(c.origin, object)]
  <2>1. Becomes(r, new)
    BY <1>2 DEF Parse
  <2>2. /\ Between(c.collected, object) \in Seq(STRING)
        /\ Between(c.origin, object) \in Seq(1..MaxAttempts)
    BY <1>1, CallType, BetweenOfCall
  <2>3. /\ new \in Call /\ new.pc = "saving" /\ new.status = "ok"
        /\ new.collected = call[r].collected /\ new.origin = call[r].origin
    BY <1>1, <2>2 DEF Call
  <2>4. Coherent(new) /\ ~Stored(new)
    BY <2>3, CallType DEF Coherent, Stored
  <2> HIDE DEF new
  <2> QED
    BY <1>1, <2>1, <2>3, <2>4, OnItsWay
<1>3. CASE ~Parses(c.collected)
  <2> DEFINE new == [c EXCEPT !.pc = "repairing"]
  <2>1. Becomes(r, new)
    BY <1>3 DEF Parse
  <2>3. /\ new \in Call /\ new.pc = "repairing"
        /\ new.collected = call[r].collected /\ new.origin = call[r].origin
    BY <1>1 DEF Call
  <2>4. Coherent(new) /\ ~Stored(new)
    BY <2>3, CallType DEF Coherent, Stored
  <2> HIDE DEF new
  <2> QED
    BY <1>1, <2>1, <2>3, <2>4, OnItsWay
<1> QED
  BY <1>2, <1>3

(* The commit, which gives the request its row.                            *)
LEMMA SaveInv ==
  ASSUME IInv, NEW r \in Requests, Save(r) PROVE IInv'
<1> DEFINE new == [call[r] EXCEPT !.pc = "stored"]
<1>1. /\ call[r] \in Call /\ call[r].pc = "saving" /\ Becomes(r, new)
      /\ history' = IF Saves(r) THEN history \cup {RowOf(r)} ELSE history
      /\ Coherent(call[r])
  BY CallType DEF Save, Goes, IInv
<1>2. /\ new \in Call /\ new.pc = "stored" /\ new.kind = call[r].kind
      /\ new.collected = call[r].collected /\ new.origin = call[r].origin
      /\ RowFor(r, new) = RowOf(r)
  BY <1>1 DEF Call, RowFor, RowOf
<1>3. RowOf(r) \in Row /\ RowOf(r).request = r
  BY <1>1 DEF RowOf, Row, Call, Coherent
<1>4. Rows(r) = {}
  BY <1>1 DEF IInv, Fits, Stored, Gone
<1> HIDE DEF new
<1>5. /\ call' \in [Requests -> Call] /\ call'[r] = new
      /\ \A q \in Requests : q # r => call'[q] = call[q]
  BY <1>1, <1>2 DEF Becomes, IInv, TypeOK
<1>6. TypeOK'
  BY <1>1, <1>3, <1>5 DEF IInv, TypeOK
<1>7. ASSUME NEW q \in Requests, q # r
      PROVE  Coherent(call'[q]) /\ Fits(q, call'[q], Rows(q)')
  <2>1. Rows(q)' = Rows(q)
    BY <1>1, <1>3, <1>7 DEF Rows
  <2> QED
    BY <2>1, <1>5, <1>7 DEF IInv
<1>8. Coherent(new)
  BY <1>1, <1>2 DEF Coherent
<1>9. Fits(r, new, Rows(r)')
  <2>1. CASE Saves(r)
    <3>1. Rows(r)' = {RowOf(r)}
      BY <1>1, <1>3, <1>4, <2>1 DEF Rows
    <3> QED
      BY <1>2, <3>1, <2>1 DEF Fits, Stored, Gone, Saves
  <2>2. CASE ~Saves(r)
    <3>1. Rows(r)' = {}
      BY <1>1, <1>4, <2>2 DEF Rows
    <3> QED
      BY <1>2, <3>1, <2>2 DEF Fits, Stored, Gone, Saves
  <2> QED
    BY <2>1, <2>2
<1> QED
  BY <1>5, <1>6, <1>7, <1>8, <1>9 DEF IInv

LEMMA DeliverInv ==
  ASSUME IInv, NEW r \in Requests, Deliver(r) PROVE IInv'
<1> DEFINE new == [call[r] EXCEPT !.pc = "answered"]
<1>1. call[r].pc = "stored" /\ Becomes(r, new) /\ UNCHANGED history
  BY DEF Deliver, Goes
<1>2. /\ new \in Call /\ new.pc = "answered" /\ new.kind = call[r].kind
      /\ new.collected = call[r].collected /\ new.origin = call[r].origin
      /\ RowFor(r, new) = RowFor(r, call[r])
  BY CallType DEF Call, Ended, RowFor
<1> HIDE DEF new
<1>3. Coherent(new)
  BY <1>2, CallType DEF Coherent
<1>4. Fits(r, new, Rows(r))
  BY <1>1, <1>2 DEF IInv, Fits, Stored, Gone
<1> QED
  BY <1>1, <1>2, <1>3, <1>4, OneMoves

LEMMA LeavesInv ==
  ASSUME IInv, NEW r \in Requests, Leaves(r) PROVE IInv'
<1> DEFINE new == [call[r] EXCEPT !.pc = "left"]
<1>1. /\ call[r].kind = "stream" /\ call[r].pc \notin Ended
      /\ Becomes(r, new) /\ UNCHANGED history
  BY DEF Leaves
<1>2. /\ new \in Call /\ new.pc = "left" /\ new.kind = call[r].kind
      /\ new.collected = call[r].collected /\ new.origin = call[r].origin
      /\ RowFor(r, new) = RowFor(r, call[r])
  BY CallType, ZenonT(60) DEF Call, Ended, RowFor
<1> HIDE DEF new
<1>3. Coherent(new)
  BY <1>2, CallType DEF Coherent
<1>4. Fits(r, new, Rows(r))
  BY <1>1, <1>2 DEF IInv, Fits, Stored, Gone, Ended
<1> QED
  BY <1>1, <1>2, <1>3, <1>4, OneMoves

-----------------------------------------------------------------------------
LEMMA InitInv == Init => IInv
<1> SUFFICES ASSUME Init PROVE IInv
  OBVIOUS
<1>1. /\ NewCall \in Call /\ NewCall.pc = "idle"
      /\ NewCall.origin = << >> /\ NewCall.collected = << >>
  BY StreamAssumption, EmptySeq DEF NewCall, Call, Kinds
<1>2. /\ call = [r \in Requests |-> NewCall] /\ history = {}
      /\ \A r \in Requests : Rows(r) = {}
  BY DEF Init, Rows
<1>3. TypeOK
  BY <1>1, <1>2 DEF TypeOK
<1>4. Coherent(NewCall) /\ ~Stored(NewCall)
  BY <1>1 DEF Coherent, Stored
<1> QED
  BY <1>2, <1>3, <1>4 DEF IInv, Fits

LEMMA StepInv == IInv /\ [Next]_vars => IInv'
<1> SUFFICES ASSUME IInv, [Next]_vars PROVE IInv'
  OBVIOUS
<1>1. CASE UNCHANGED vars
  BY <1>1 DEF vars, IInv, TypeOK, Rows
<1>2. ASSUME NEW r \in Requests, NEW kind \in Kinds, Begin(r, kind) PROVE IInv'
  BY <1>2, BeginInv
<1>3. ASSUME NEW r \in Requests, Leaves(r) PROVE IInv'
  BY <1>3, LeavesInv
<1>4. ASSUME NEW r \in Requests, Step(r) PROVE IInv'
  <2>1. CASE CallProvider(r) \/ NothingToPlan(r) \/ StreamEnds(r) \/ SaveRaises(r)
    BY <2>1, GoesInv DEF CallProvider, NothingToPlan, StreamEnds, SaveRaises
  <2>2. CASE Connect(r) \/ Chunk(r) \/ WholeAnswer(r) \/ Retry(r)
    BY <2>2, ConnectInv, ChunkInv, WholeAnswerInv, RetryInv
  <2>3. CASE ProviderFails(r) \/ Repaired(r) \/ RepairFails(r)
    BY <2>3, SettlesInv DEF ProviderFails, Repaired, RepairFails
  <2>4. CASE Parse(r) \/ Save(r) \/ Deliver(r)
    BY <2>4, ParseInv, SaveInv, DeliverInv
  <2> QED
    BY <1>4, <2>1, <2>2, <2>3, <2>4 DEF Step
<1> QED
  BY <1>1, <1>2, <1>3, <1>4 DEF Next

(* The inductive invariant of a request, whatever its provider sends.      *)
THEOREM Invariance == Spec => []IInv
BY InitInv, StepInv, PTL DEF Spec

(* Types: in particular no call has more attempts than allowed.            *)
THEOREM TypeCorrect == Spec => []TypeOK
<1>1. IInv => TypeOK
  BY DEF IInv
<1> QED
  BY <1>1, Invariance, PTL

(* Whoever has been given a result finds exactly that analysis in the      *)
(* history; whoever left may have left it behind; nobody else has one.     *)
THEOREM RowsMatchHolds == Spec => []RowsMatchResults
BY FitsIsMatch, Invariance, PTL

-----------------------------------------------------------------------------
(* A good answer                                                           *)

(* The part that is searched holds the whole object: a fenced block with a *)
(* brace is not before the one around the object, for no brace is.         *)
(* Braces by name: the provers read a string of a single brace as syntax.  *)
IsOpen(token) == token = "{"

(* The object, seen from the places of its braces and fences.              *)
HoldsObject(text, from, to) ==
  LET braced == {b \in Blocks(text) : \E i \in b[1]..b[2] : IsOpen(text[i])}
  IN  /\ from <= to /\ IsOpen(text[from])
      /\ \A i \in 1..(from - 1) : ~IsOpen(text[i])
      /\ braced = {} \/ \E b \in braced : b[1] < from /\ to < b[2]

LEMMA FenceIsNoBrace == ~IsOpen("fence")
BY DEF IsOpen

LEMMA OpenPlaces ==
  ASSUME NEW text
  PROVE  /\ Places(text, {"{"}) = {i \in DOMAIN text : IsOpen(text[i])}
         /\ Opens(text) = {i \in Body(text)[1]..Body(text)[2] : IsOpen(text[i])}
<1>1. Places(text, {"{"}) = {i \in DOMAIN text : IsOpen(text[i])}
  BY Zenon DEF Places, IsOpen
<1>2. Opens(text) = {i \in Body(text)[1]..Body(text)[2] : IsOpen(text[i])}
  BY Zenon DEF Opens, IsOpen
<1> QED
  BY <1>1, <1>2, Zenon

LEMMA AskedHoldsObject ==
  ASSUME NEW text, NEW from, NEW to, IsAsked(text, from, to)
  PROVE  /\ HoldsObject(text, from, to) /\ SubSeq(text, from, to) \in ResultObjects
         /\ Depth(text, from, to) = 0
         /\ \A i \in from..(to - 1) : Depth(text, from, i) # 0
BY Zenon DEF IsAsked, HoldsObject, IsOpen

(* The first block with a brace is the one around the object: no brace is  *)
(* before the object, so that every other such block comes behind it.      *)
LEMMA BodyHoldsObject ==
  ASSUME NEW text \in Seq(STRING), NEW from \in DOMAIN text, NEW to \in DOMAIN text,
         HoldsObject(text, from, to)
  PROVE  Body(text)[1] <= from /\ to <= Body(text)[2]
<1> DEFINE Inside(b) == \E i \in Places(text, {"{"}) : b[1] < i /\ i < b[2]
           found  == {b \in Blocks(text) : Inside(b)}
           Braced(b) == \E i \in b[1]..b[2] : IsOpen(text[i])
           braced == {b \in Blocks(text) : Braced(b)}
           fences == Places(text, {"fence"})
           braces == Places(text, {"{"})
<1>1. Len(text) \in Nat /\ DOMAIN text = 1..Len(text)
  BY LenProperties
<1>2. ASSUME NEW b \in Blocks(text)
      PROVE  /\ b[1] \in fences /\ b[2] \in fences /\ b[1] < b[2]
             /\ \A f \in fences : f <= b[1] \/ b[2] <= f
  BY DEF Blocks
<1>3. \A f \in fences : f \in 1..Len(text) /\ ~IsOpen(text[f])
  BY <1>1, FenceIsNoBrace DEF Places
<1>4. \A i : i \in braces <=> i \in 1..Len(text) /\ IsOpen(text[i])
  BY <1>1, OpenPlaces, Zenon
<1>5. Body(text) = IF found = {} THEN <<1, Len(text)>>
                   ELSE <<Least({b[1] : b \in found}) + 1, Least({b[2] : b \in found}) - 1>>
  BY Zenon DEF Body
<1>6. /\ from <= to /\ IsOpen(text[from]) /\ \A i \in 1..(from - 1) : ~IsOpen(text[i])
      /\ braced = {} \/ \E b \in braced : b[1] < from /\ to < b[2]
  BY Zenon DEF HoldsObject
<1>7. \A b : b \in found <=> b \in Blocks(text) /\ \E i \in braces : b[1] < i /\ i < b[2]
  BY Zenon
<1> HIDE DEF found, fences, braces, Inside
<1>8. found = braced
  <2>1. ASSUME NEW b \in Blocks(text)
        PROVE  (\E i \in braces : b[1] < i /\ i < b[2]) <=> Braced(b)
    <3>1. /\ b[1] \in 1..Len(text) /\ ~IsOpen(text[b[1]])
          /\ b[2] \in 1..Len(text) /\ ~IsOpen(text[b[2]])
      BY <1>2, <1>3
    <3> QED
      BY <1>1, <1>4, <3>1, SMTT(30)
  <2> HIDE DEF Braced
  <2> QED
    BY <2>1, <1>7
<1>9. CASE found = {}
  <2>1. Body(text) = <<1, Len(text)>>
    BY <1>5, <1>9
  <2> QED
    BY <1>1, <2>1
<1>10. CASE found # {}
  <2>1. PICK b \in found : b[1] < from /\ to < b[2]
    BY <1>6, <1>8, <1>10
  <2> DEFINE first == {c[1] : c \in found}
             last  == {c[2] : c \in found}
  <2>2. Body(text) = <<Least(first) + 1, Least(last) - 1>>
    BY <1>5, <1>10
  <2> HIDE DEF braced
  <2>3. ASSUME NEW c \in found
        PROVE  b[1] <= c[1] /\ b[2] <= c[2] /\ c[1] \in Nat /\ c[2] \in Nat
    <3>1. /\ b[1] \in fences /\ b[2] \in fences /\ b[1] < b[2]
          /\ \A f \in fences : f <= b[1] \/ b[2] <= f
          /\ c[1] \in fences /\ c[2] \in fences /\ c[1] < c[2]
          /\ \A f \in fences : f <= c[1] \/ c[2] <= f
      BY <1>2, <1>7
    <3>2. /\ b[1] \in Nat /\ b[2] \in Nat /\ c[1] \in Nat /\ c[2] \in Nat
      BY <1>1, <1>3, <3>1
    <3>3. PICK i \in braces : c[1] < i /\ i < c[2]
      BY <1>7
    <3>4. i \in 1..Len(text) /\ IsOpen(text[i])
      BY <1>4
    <3>5. from <= i
      BY <1>1, <1>6, <3>4
    <3>6. ~(c[2] <= b[1])
      BY <1>1, <2>1, <3>2, <3>3, <3>4, <3>5
    <3>7. b[1] <= c[1]
      BY <3>1, <3>2, <3>6
    <3>8. b[2] <= c[2]
      BY <3>1, <3>2, <3>7
    <3> QED
      BY <3>2, <3>7, <3>8
  <2>4. /\ first \in SUBSET Nat /\ b[1] \in first /\ \A f \in first : b[1] <= f
        /\ last \in SUBSET Nat /\ b[2] \in last /\ \A f \in last : b[2] <= f
    BY <2>3
  <2> HIDE DEF first, last
  <2>5. Least(first) = b[1] /\ Least(last) = b[2]
    <3>1. /\ Least(first) \in first /\ Least(first) <= b[1]
          /\ Least(last) \in last /\ Least(last) <= b[2]
      BY <2>4, LeastOf
    <3>2. /\ Least(first) \in Nat /\ Least(last) \in Nat /\ b[1] \in Nat /\ b[2] \in Nat
          /\ b[1] <= Least(first) /\ b[2] <= Least(last)
      BY <2>4, <3>1
    <3> QED
      BY <3>1, <3>2
  <2>6. b[1] \in Nat /\ b[2] \in Nat /\ from \in Nat /\ to \in Nat
    <3>1. b[1] \in Nat /\ b[2] \in Nat
      BY <2>3
    <3>2. from \in Nat /\ to \in Nat
      BY <1>1
    <3> QED
      BY <3>1, <3>2
  <2>7. b[1] + 1 <= from /\ to <= b[2] - 1
    BY <2>1, <2>6
  <2>8. Body(text)[1] = b[1] + 1 /\ Body(text)[2] = b[2] - 1
    <3>1. Body(text) = <<b[1] + 1, b[2] - 1>>
      BY <2>2, <2>5, Zenon
    <3> QED
      BY <3>1
  <2> DEFINE body == Body(text)
  <2> HIDE DEF body
  <2>9. body[1] = b[1] + 1 /\ body[2] = b[2] - 1
    BY <2>8 DEF body
  <2>10. body[1] <= from /\ to <= body[2]
    BY <2>6, <2>7, <2>9
  <2> QED
    BY <2>10 DEF body
<1> QED
  BY <1>9, <1>10

(* An object as it was asked for is what the search finds.                 *)
LEMMA AskedIsFound ==
  ASSUME NEW text \in Seq(STRING), NEW from \in DOMAIN text, NEW to \in DOMAIN text,
         IsAsked(text, from, to)
  PROVE  ExtractJsonObject(text) = <<from, to>>
<1> DEFINE span == ExtractJsonObject(text)
           body == Body(text)
<1>1. /\ HoldsObject(text, from, to) /\ SubSeq(text, from, to) \in ResultObjects
      /\ Depth(text, from, to) = 0 /\ \A i \in from..(to - 1) : Depth(text, from, i) # 0
  BY AskedHoldsObject
<1>2. /\ Len(text) \in Nat /\ from \in 1..Len(text) /\ to \in 1..Len(text)
      /\ from <= to /\ IsOpen(text[from]) /\ \A i \in 1..(from - 1) : ~IsOpen(text[i])
  BY <1>1, LenProperties DEF HoldsObject
<1>3. /\ body[1] \in 1..Len(text) + 1 /\ body[2] \in 0..Len(text)
      /\ span[1] \in 1..Len(text) + 1 /\ span[2] \in 0..Len(text)
  BY BodyInText, SpanIsRight DEF Spans
<1>4. body[1] <= from /\ to <= body[2]
  BY <1>1, BodyHoldsObject
<1>5. \A i : i \in Opens(text) <=> i \in body[1]..body[2] /\ IsOpen(text[i])
  BY OpenPlaces, Zenon
<1>6. Opens(text) # {} =>
        /\ span[1] \in Opens(text) /\ \A i \in Opens(text) : span[1] <= i
        /\ span[2] <= body[2]
        /\ \A i \in span[1]..(span[2] - 1) : Depth(text, span[1], i) # 0
        /\ \/ span[2] >= span[1] /\ Depth(text, span[1], span[2]) = 0
           \/ span[2] = body[2]
  BY SpanIsRight, Zenon DEF RightSpan
<1> HIDE DEF span, body
<1>7. from \in Opens(text) /\ \A i \in Opens(text) : i \in 1..Len(text) /\ IsOpen(text[i])
  BY <1>2, <1>3, <1>4, <1>5
<1>8. span[1] \in Opens(text) /\ span[1] <= from
  BY <1>6, <1>7
<1>9. span[1] = from
  BY <1>2, <1>7, <1>8
<1>10. ~(span[2] < to)
  BY <1>1, <1>2, <1>3, <1>4, <1>6, <1>7, <1>9
<1>11. ~(to < span[2])
  BY <1>1, <1>2, <1>3, <1>6, <1>7, <1>9
<1>12. span[2] = to
  BY <1>2, <1>3, <1>10, <1>11
<1>13. span = <<span[1], span[2]>>
  BY SpanIsRight DEF Spans, span
<1> QED
  BY <1>9, <1>12, <1>13, Zenon DEF span

LEMMA GoodAnswerParses ==
  ASSUME NEW text \in Seq(STRING), AsAsked(text)
  PROVE  Parses(text)
<1>1. PICK from \in DOMAIN text, to \in DOMAIN text : IsAsked(text, from, to)
  BY DEF AsAsked
<1>2. SubSeq(text, from, to) \in ResultObjects
  BY <1>1, AskedHoldsObject
<1>3. ExtractJsonObject(text) = <<from, to>>
  BY <1>1, AskedIsFound
<1>4. Between(text, <<from, to>>) = SubSeq(text, from, to)
  BY DEF Between
<1> QED
  BY <1>2, <1>3, <1>4, Zenon DEF Parses

-----------------------------------------------------------------------------
(* Nothing is repaired that parses.                                        *)
RepairInv == \A r \in Requests : call[r].pc = "repairing" => ~Parses(call[r].collected)

LEMMA StepRepair == IInv /\ RepairInv /\ [Next]_vars => RepairInv'
<1> SUFFICES ASSUME IInv, RepairInv, [Next]_vars PROVE RepairInv'
  OBVIOUS
<1>1. CASE UNCHANGED vars
  BY <1>1 DEF vars, RepairInv
<1>2. ASSUME NEW r \in Requests, NEW new, Becomes(r, new),
             new.pc = "repairing" => ~Parses(new.collected)
      PROVE  RepairInv'
  BY <1>2 DEF Becomes, RepairInv, IInv, TypeOK
<1>3. ASSUME NEW r \in Requests,
             Step(r) \/ Leaves(r) \/ \E kind \in Kinds : Begin(r, kind)
      PROVE  RepairInv'
  <2>1. call[r] \in Call
    BY CallType
  <2>2. CASE Parse(r)
    <3>1. CASE Parses(call[r].collected)
      BY <1>2, <2>1, <2>2, <3>1 DEF Parse, Call
    <3>2. CASE ~Parses(call[r].collected)
      BY <1>2, <2>1, <2>2, <3>2 DEF Parse, Call
    <3> QED
      BY <3>1, <3>2
  <2>3. CASE CallProvider(r) \/ NothingToPlan(r) \/ StreamEnds(r) \/ Save(r)
             \/ SaveRaises(r) \/ Deliver(r) \/ Leaves(r)
    BY <1>2, <2>1, <2>3 DEF CallProvider, NothingToPlan, StreamEnds, Save, SaveRaises,
                            Deliver, Leaves, Goes, Call
  <2>4. CASE Connect(r) \/ WholeAnswer(r) \/ Retry(r) \/ \E kind \in Kinds : Begin(r, kind)
    BY <1>2, <2>1, <2>4 DEF Connect, WholeAnswer, Retry, Begin, Call
  <2>5. CASE Chunk(r)
    BY <1>2, <2>1, <2>5 DEF Chunk, Call
  <2>6. CASE ProviderFails(r) \/ Repaired(r) \/ RepairFails(r)
    BY <1>2, <2>1, <2>6 DEF ProviderFails, Repaired, RepairFails, Call
  <2> QED
    BY <1>3, <2>2, <2>3, <2>4, <2>5, <2>6 DEF Step
<1> QED
  BY <1>1, <1>3 DEF Next

(* A good answer that arrived whole is never sent to repair: the search    *)
(* for the object finds it whatever text and fenced blocks surround it.    *)
THEOREM GoodAnswerIsUsedHolds == Spec => []GoodAnswerIsUsed
<1>1. Init => RepairInv
  BY DEF Init, NewCall, RepairInv
<1>2. IInv /\ RepairInv => GoodAnswerIsUsed
  <2> SUFFICES ASSUME IInv, RepairInv, NEW r \in Requests, call[r].pc = "repairing",
                      AsAsked(call[r].given[call[r].attempt]),
                      call[r].collected = call[r].given[call[r].attempt]
               PROVE  FALSE
    BY DEF GoodAnswerIsUsed
  <2>1. call[r].collected \in Seq(STRING)
    BY CallType DEF Call
  <2> QED
    BY <2>1, GoodAnswerParses DEF RepairInv
<1> QED
  BY <1>1, <1>2, Invariance, StepRepair, PTL DEF Spec

-----------------------------------------------------------------------------
(* One answer's object                                                     *)

(* Where a text is moved to makes no difference to what is counted in it.  *)
Counted(text, tokens, from, to) == Cardinality({i \in from..to : text[i] \in tokens})

LEMMA CountShift ==
  ASSUME NEW text, NEW o, NEW tokens, NEW f \in Nat, NEW n \in Nat,
         \A j \in 1..n : o[j] = text[f + j - 1]
  PROVE  Counted(o, tokens, 1, n) = Counted(text, tokens, f, f + n - 1)
<1> DEFINE S == {j \in 1..n : o[j] \in tokens}
           T == {i \in f..(f + n - 1) : text[i] \in tokens}
           g == [j \in S |-> f + j - 1]
<1>1. IsFiniteSet(S)
  <2>1. IsFiniteSet(1..n)
    BY FS_Interval
  <2> QED
    BY <2>1, FS_Subset
<1>2. g \in [S -> T]
  <2>1. ASSUME NEW j \in S PROVE f + j - 1 \in T
    BY <2>1
  <2> QED
    BY <2>1
<1>3. \A j, k \in S : g[j] = g[k] => j = k
  BY DEF g
<1>4. \A i \in T : \E j \in S : g[j] = i
  <2>1. ASSUME NEW i \in T PROVE i - f + 1 \in S /\ g[i - f + 1] = i
    <3>1. /\ i - f + 1 \in 1..n /\ i \in Nat /\ f + (i - f + 1) - 1 = i
          /\ text[i] \in tokens
      OBVIOUS
    <3>2. o[i - f + 1] = text[f + (i - f + 1) - 1]
      BY <3>1
    <3>3. i - f + 1 \in S
      BY <3>1, <3>2
    <3> QED
      BY <3>1, <3>3
  <2> QED
    BY <2>1
<1> HIDE DEF S, T, g
<1>5. g \in Bijection(S, T)
  BY <1>2, <1>3, <1>4 DEF Bijection, Injection, Surjection, IsInjective
<1>6. Cardinality(T) = Cardinality(S)
  BY <1>1, <1>5, FS_Bijection DEF ExistsBijection
<1> QED
  BY <1>6 DEF S, T, Counted

LEMMA CountSplit ==
  ASSUME NEW text, NEW tokens, NEW a \in Nat, NEW m \in Nat, NEW b \in Nat,
         a <= m + 1, m <= b
  PROVE  /\ Counted(text, tokens, a, m) \in Nat /\ Counted(text, tokens, m + 1, b) \in Nat
         /\ Counted(text, tokens, a, b)
              = Counted(text, tokens, a, m) + Counted(text, tokens, m + 1, b)
<1> DEFINE S == {i \in a..m : text[i] \in tokens}
           T == {i \in (m + 1)..b : text[i] \in tokens}
           U == {i \in a..b : text[i] \in tokens}
<1>1. IsFiniteSet(S) /\ IsFiniteSet(T)
  <2>1. IsFiniteSet(a..m) /\ IsFiniteSet((m + 1)..b)
    BY FS_Interval
  <2> QED
    BY <2>1, FS_Subset
<1>2. S \cap T = {} /\ S \cup T = U
  OBVIOUS
<1> HIDE DEF S, T, U
<1>3. /\ Cardinality(S) \in Nat /\ Cardinality(T) \in Nat
      /\ Cardinality(U) = Cardinality(S) + Cardinality(T) - Cardinality(S \cap T)
  BY <1>1, <1>2, FS_Union, FS_CardinalityType
<1>4. Cardinality(S \cap T) = 0
  BY <1>2, FS_EmptySet
<1>5. Cardinality(U) = Cardinality(S) + Cardinality(T)
  BY <1>3, <1>4
<1> QED
  BY <1>3, <1>5 DEF Counted, S, T, U

(* The braces opened and not closed between two places.                    *)
Net(text, from, to) == Counted(text, {"{"}, from, to) - Counted(text, {"}"}, from, to)

LEMMA NetSplit ==
  ASSUME NEW text, NEW a \in Nat, NEW m \in Nat, NEW b \in Nat, a <= m + 1, m <= b
  PROVE  /\ Net(text, a, m) \in Int /\ Net(text, m + 1, b) \in Int
         /\ Net(text, a, b) = Net(text, a, m) + Net(text, m + 1, b)
<1> DEFINE p(from, to) == Counted(text, {"{"}, from, to)
           q(from, to) == Counted(text, {"}"}, from, to)
<1>0. \A tokens :
        /\ Counted(text, tokens, a, m) \in Nat /\ Counted(text, tokens, m + 1, b) \in Nat
        /\ Counted(text, tokens, a, b)
             = Counted(text, tokens, a, m) + Counted(text, tokens, m + 1, b)
  BY CountSplit
<1>1. /\ p(a, m) \in Nat /\ p(m + 1, b) \in Nat /\ p(a, b) = p(a, m) + p(m + 1, b)
      /\ q(a, m) \in Nat /\ q(m + 1, b) \in Nat /\ q(a, b) = q(a, m) + q(m + 1, b)
  BY <1>0, Zenon
<1>2. \A from, to : Net(text, from, to) = p(from, to) - q(from, to)
  BY Zenon DEF Net
<1> HIDE DEF p, q
<1> QED
  BY <1>1, <1>2

LEMMA NetShift ==
  ASSUME NEW text, NEW o, NEW f \in Nat, NEW n \in Nat,
         \A j \in 1..n : o[j] = text[f + j - 1]
  PROVE  Nesting(o, n) = Net(text, f, f + n - 1)
<1>1. Nesting(o, n) = Counted(o, {"{"}, 1, n) - Counted(o, {"}"}, 1, n)
  <2>1. /\ {i \in 1..n : o[i] \in {"{"}} = {i \in 1..n : o[i] = "{"}
        /\ {i \in 1..n : o[i] \in {"}"}} = {i \in 1..n : o[i] = "}"}
    BY Zenon
  <2> QED
    BY <2>1, Zenon DEF Nesting, Counted
<1>2. \A tokens : Counted(o, tokens, 1, n) = Counted(text, tokens, f, f + n - 1)
  BY CountShift
<1>3. /\ Counted(o, {"{"}, 1, n) = Counted(text, {"{"}, f, f + n - 1)
      /\ Counted(o, {"}"}, 1, n) = Counted(text, {"}"}, f, f + n - 1)
  BY <1>2, Zenon
<1> QED
  BY <1>1, <1>3, Zenon DEF Net

-----------------------------------------------------------------------------
(* Each token collected is one of what its attempt was to send, and the    *)
(* next one is the next of it or the first of a later one.  pos[i] is the  *)
(* place of the i-th token in the answer that it comes from.               *)
Placed(c, pos) ==
  /\ pos \in Seq(Nat) /\ Len(pos) = Len(c.collected)
  /\ \A i \in 1..Len(pos) :
       /\ pos[i] \in 1..Len(c.given[c.origin[i]])
       /\ c.collected[i] = c.given[c.origin[i]][pos[i]]
       /\ i = 1 => pos[i] = 1
       /\ i > 1 => pos[i] = IF c.origin[i - 1] = c.origin[i] THEN pos[i - 1] + 1 ELSE 1

(* How far the present attempt has got.                                    *)
Reached(c, pos) ==
  c.pc = "receiving" =>
    \/ Len(pos) > 0 /\ c.origin[Len(pos)] = c.attempt /\ pos[Len(pos)] = c.sent
    \/ (Len(pos) > 0 => c.origin[Len(pos)] # c.attempt) /\ c.sent = 0

(* Attempts follow one another.                                            *)
InOrder(c) ==
  \A i, j \in 1..Len(c.origin) : i <= j => c.origin[i] <= c.origin[j]

LEMMA PlacedType ==
  ASSUME NEW c \in Call, Len(c.origin) = Len(c.collected), NEW pos, Placed(c, pos)
  PROVE  /\ Len(c.collected) \in Nat /\ Len(pos) = Len(c.collected)
         /\ \A i \in 1..Len(c.collected) :
              /\ c.origin[i] \in 1..MaxAttempts /\ c.collected[i] \in STRING
              /\ c.given[c.origin[i]] \in Seq(STRING)
              /\ Len(c.given[c.origin[i]]) \in Nat
              /\ pos[i] \in 1..Len(c.given[c.origin[i]]) /\ pos[i] \in Nat
              /\ c.collected[i] = c.given[c.origin[i]][pos[i]]
         /\ \A i \in 2..Len(c.collected) :
              pos[i] = IF c.origin[i - 1] = c.origin[i] THEN pos[i - 1] + 1 ELSE 1
<1>1. /\ Len(c.collected) \in Nat /\ Len(pos) = Len(c.collected)
      /\ c.collected \in Seq(STRING) /\ c.origin \in Seq(1..MaxAttempts)
      /\ c.given \in [1..MaxAttempts -> Seq(STRING)]
  BY LenProperties DEF Call, Placed
<1>2. ASSUME NEW i \in 1..Len(c.collected)
      PROVE  /\ c.origin[i] \in 1..MaxAttempts /\ c.collected[i] \in STRING
             /\ c.given[c.origin[i]] \in Seq(STRING)
             /\ Len(c.given[c.origin[i]]) \in Nat
             /\ pos[i] \in 1..Len(c.given[c.origin[i]]) /\ pos[i] \in Nat
             /\ c.collected[i] = c.given[c.origin[i]][pos[i]]
  <2>1. c.origin[i] \in 1..MaxAttempts /\ c.collected[i] \in STRING
    BY <1>1, ElementOfSeq
  <2>2. c.given[c.origin[i]] \in Seq(STRING)
    BY <1>1, <2>1
  <2>3. Len(c.given[c.origin[i]]) \in Nat
    BY <2>2, LenProperties
  <2>4. /\ pos[i] \in 1..Len(c.given[c.origin[i]])
        /\ c.collected[i] = c.given[c.origin[i]][pos[i]]
    BY <1>1 DEF Placed
  <2> QED
    BY <2>1, <2>2, <2>3, <2>4
<1>3. \A i \in 2..Len(c.collected) :
        pos[i] = IF c.origin[i - 1] = c.origin[i] THEN pos[i - 1] + 1 ELSE 1
  BY <1>1 DEF Placed
<1> QED
  BY <1>1, <1>2, <1>3

(* Tokens of one attempt stand next to each other in its answer too.       *)
LEMMA SameAttempt ==
  ASSUME NEW c \in Call, Len(c.origin) = Len(c.collected), NEW pos, Placed(c, pos),
         NEW f \in Nat, NEW t \in Nat, 1 <= f, t <= Len(c.collected),
         \A i \in f..t : c.origin[i] = c.origin[f]
  PROVE  \A i \in f..t : pos[i] = pos[f] + (i - f)
<1> DEFINE n == Len(c.collected)
<1>1. /\ n \in Nat /\ \A i \in 1..n : pos[i] \in Nat
      /\ \A i \in 2..n : pos[i] = IF c.origin[i - 1] = c.origin[i] THEN pos[i - 1] + 1 ELSE 1
  BY PlacedType
<1> HIDE DEF n
<1>2. \A i \in f..t : i \in 1..n /\ pos[i] \in Nat
  BY <1>1 DEF n
<1>3. ASSUME NEW i \in (f + 1)..t PROVE pos[i] = pos[i - 1] + 1
  <2>1. i \in 2..n /\ i \in f..t /\ i - 1 \in f..t
    BY <1>1 DEF n
  <2>2. c.origin[i] = c.origin[f] /\ c.origin[i - 1] = c.origin[f]
    BY <2>1
  <2> QED
    BY <1>1, <2>1, <2>2
<1> DEFINE Good(i) == pos[i] = pos[f] + (i - f)
           bad == {i \in f..t : ~Good(i)}
<1>4. bad = {}
  <2> SUFFICES ASSUME bad # {} PROVE FALSE
    OBVIOUS
  <2> DEFINE i == Least(bad)
  <2>1. bad \in SUBSET Nat
    OBVIOUS
  <2>2. i \in bad /\ \A j \in bad : i <= j
    <3> HIDE DEF bad
    <3> QED
      BY <2>1, LeastOf
  <2>3. i \in f..t /\ ~Good(i)
    BY <2>2
  <2> HIDE DEF i
  <2>4. i # f
    BY <1>2, <2>3
  <2>5. i \in (f + 1)..t /\ i - 1 \in f..t
    BY <2>3, <2>4
  <2>6. i - 1 \notin bad
    BY <2>2, <2>5
  <2>7. Good(i - 1)
    BY <2>5, <2>6
  <2>8. pos[i] = pos[i - 1] + 1
    BY <1>3, <2>5
  <2>9. f \in f..t
    BY <2>5
  <2>10. pos[i] = pos[f] + ((i - 1) - f) + 1 /\ pos[f] \in Nat /\ i \in Nat
    BY <1>2, <2>5, <2>7, <2>8, <2>9
  <2>11. Good(i)
    BY <2>10
  <2> QED
    BY <2>3, <2>11
<1> QED
  BY <1>4

(* Answers that close no brace but their own leave none closed too often,  *)
(* one after the other, each to wherever it broke off.                     *)
LEMMA OwnBraces ==
  ASSUME NEW c \in Call, Len(c.origin) = Len(c.collected), NEW pos, Placed(c, pos),
         NEW m \in Nat, NEW t \in Nat, 1 <= m, m <= t, t <= Len(c.collected), pos[m] = 1,
         \A i \in m..t : ClosesItsOwn(c.given[c.origin[i]])
  PROVE  Net(c.collected, m, t) >= 0
<1> DEFINE n == Len(c.collected)
           text == c.collected
           Start(j) == j - pos[j] + 1
           Good(j) == /\ m <= Start(j) /\ \A i \in Start(j)..j : c.origin[i] = c.origin[j]
                      /\ Net(text, m, j) >= 0
           bad == {j \in m..t : ~Good(j)}
<1>0. \A f, e \in Nat :
        1 <= f /\ e <= Len(c.collected) /\ (\A i \in f..e : c.origin[i] = c.origin[f])
          => \A i \in f..e : pos[i] = pos[f] + (i - f)
  <2> SUFFICES ASSUME NEW f \in Nat, NEW e \in Nat, 1 <= f, e <= Len(c.collected),
                      \A i \in f..e : c.origin[i] = c.origin[f]
               PROVE  \A i \in f..e : pos[i] = pos[f] + (i - f)
    OBVIOUS
  <2> HIDE DEF n, text, Start, Good, bad
  <2> QED
    BY SameAttempt, ZenonT(30)
<1>1. /\ n \in Nat
      /\ \A i \in 1..n : /\ pos[i] \in Nat
                         /\ c.given[c.origin[i]] \in Seq(STRING)
                         /\ Len(c.given[c.origin[i]]) \in Nat
                         /\ pos[i] \in 1..Len(c.given[c.origin[i]])
                         /\ text[i] = c.given[c.origin[i]][pos[i]]
      /\ \A i \in 2..n : pos[i] = IF c.origin[i - 1] = c.origin[i] THEN pos[i - 1] + 1 ELSE 1
  BY PlacedType
<1>2. \A i \in m..t : i \in 1..n
  BY <1>1
<1>3. ASSUME NEW j \in m..t, m <= Start(j), \A i \in Start(j)..j : c.origin[i] = c.origin[j]
      PROVE  Net(text, Start(j), j) >= 0
  <2> DEFINE s == Start(j)
             answer == c.given[c.origin[j]]
  <2>1. /\ j \in 1..n /\ j \in Nat /\ n \in Nat
        /\ pos[j] \in Nat /\ pos[j] \in 1..Len(answer) /\ Len(answer) \in Nat
        /\ answer \in Seq(STRING)
    BY <1>1, <1>2
  <2> HIDE DEF text, n, answer
  <2>2. s \in Nat /\ 1 <= s /\ s <= j /\ s \in s..j /\ j \in s..j /\ j = s + pos[j] - 1
    BY <2>1, <1>3
  <2>3. m <= s /\ \A i \in s..j : c.origin[i] = c.origin[j]
    BY <1>3
  <2> HIDE DEF s
  <2>4. \A i \in s..j : pos[i] = pos[s] + (i - s)
    <3>1. \A i \in s..j : c.origin[i] = c.origin[s]
      BY <2>2, <2>3
    <3>2. j <= Len(c.collected)
      BY <2>1 DEF n
    <3>3. s \in Nat /\ j \in Nat /\ 1 <= s
      BY <2>1, <2>2
    <3> QED
      BY <1>0, <3>1, <3>2, <3>3
  <2>5. s \in 1..n /\ pos[s] \in Nat
    BY <1>1, <2>1, <2>2
  <2>6. pos[s] = 1
    BY <2>1, <2>2, <2>4, <2>5
  <2>7. ASSUME NEW k \in 1..pos[j] PROVE answer[k] = text[s + k - 1]
    <3>1. s + k - 1 \in s..j /\ s + k - 1 \in 1..n /\ (s + k - 1) - s = k - 1
      BY <1>1, <2>1, <2>2
    <3>2. pos[s + k - 1] = k
      BY <2>4, <2>6, <3>1
    <3>3. c.origin[s + k - 1] = c.origin[j]
      BY <2>3, <3>1
    <3> QED
      BY <1>1, <3>1, <3>2, <3>3 DEF answer
  <2>8. Nesting(answer, pos[j]) = Net(text, s, s + pos[j] - 1)
    <3> DEFINE p == pos[j]
    <3>1. p \in Nat /\ \A k \in 1..p : answer[k] = text[s + k - 1]
      BY <2>1, <2>7
    <3> HIDE DEF p
    <3>2. Nesting(answer, p) = Net(text, s, s + p - 1)
      BY <2>2, <3>1, NetShift
    <3> QED
      BY <3>2 DEF p
  <2>9. Nesting(answer, pos[j]) >= 0
    <3>1. pos[j] \in DOMAIN answer
      BY <2>1, LenProperties
    <3> QED
      BY <3>1 DEF ClosesItsOwn, answer
  <2> QED
    BY <2>2, <2>8, <2>9 DEF s
<1> HIDE DEF n, text
<1>4. ASSUME NEW j \in m..t, \A i \in m..(j - 1) : Good(i) PROVE Good(j)
  <2>1. j \in Nat /\ pos[j] \in Nat /\ pos[j] >= 1 /\ j \in 1..n /\ m \in 1..n
    BY <1>1, <1>2
  <2>2. m <= Start(j) /\ \A i \in Start(j)..j : c.origin[i] = c.origin[j]
    <3>1. CASE pos[j] = 1
      BY <2>1, <3>1
    <3>2. CASE pos[j] # 1
      <4>1. j # m /\ j \in 2..n /\ j - 1 \in m..(j - 1) /\ j - 1 \in 1..n
        BY <2>1, <3>2, <1>1
      <4>2. pos[j] = pos[j - 1] + 1 /\ c.origin[j - 1] = c.origin[j] /\ pos[j - 1] \in Nat
        BY <1>1, <3>2, <4>1
      <4>3. Start(j) = Start(j - 1)
        BY <2>1, <4>2
      <4>4. m <= Start(j - 1) /\ \A i \in Start(j - 1)..(j - 1) : c.origin[i] = c.origin[j - 1]
        BY <1>4, <4>1
      <4> DEFINE s == Start(j)
      <4>5. s \in Int
        BY <2>1
      <4>6. m <= s /\ \A i \in s..(j - 1) : c.origin[i] = c.origin[j]
        BY <4>2, <4>3, <4>4
      <4> HIDE DEF s
      <4>7. \A i \in s..j : i \in s..(j - 1) \/ i = j
        BY <2>1, <4>5
      <4> QED
        BY <4>6, <4>7 DEF s
    <3> QED
      BY <3>1, <3>2
  <2>3. Net(text, Start(j), j) >= 0
    BY <1>3, <2>2
  <2> DEFINE s == Start(j)
  <2>4. s \in Nat /\ m <= s /\ s <= j
    BY <2>1, <2>2
  <2>5. CASE s = m
    BY <2>2, <2>3, <2>5
  <2>6. CASE s # m
    <3>1. s - 1 \in m..(j - 1) /\ s - 1 \in Nat /\ (s - 1) + 1 = s
      BY <2>1, <2>4, <2>6
    <3>2. Net(text, m, s - 1) >= 0
      BY <1>4, <3>1
    <3> HIDE DEF s
    <3>3. /\ Net(text, m, s - 1) \in Int /\ Net(text, s, j) \in Int
          /\ Net(text, m, j) = Net(text, m, s - 1) + Net(text, s, j)
      <4> DEFINE b == s - 1
      <4>1. b \in Nat /\ m <= b + 1 /\ b <= j /\ b + 1 = s /\ j \in Nat
        BY <2>1, <2>4, <3>1
      <4> HIDE DEF b
      <4>2. /\ Net(text, m, b) \in Int /\ Net(text, b + 1, j) \in Int
            /\ Net(text, m, j) = Net(text, m, b) + Net(text, b + 1, j)
        BY <4>1, NetSplit
      <4> QED
        BY <4>1, <4>2 DEF b
    <3>4. Net(text, m, j) >= 0
      BY <2>3, <3>2, <3>3 DEF s
    <3> QED
      BY <2>2, <3>4
  <2> QED
    BY <2>5, <2>6
<1>5. bad = {}
  <2> SUFFICES ASSUME bad # {} PROVE FALSE
    OBVIOUS
  <2> HIDE DEF Good
  <2>1. bad \in SUBSET Nat
    OBVIOUS
  <2> DEFINE j == Least(bad)
  <2>2. j \in bad /\ \A i \in bad : j <= i
    <3> HIDE DEF bad
    <3> QED
      BY <2>1, LeastOf
  <2>3. j \in m..t /\ ~Good(j)
    BY <2>2
  <2> HIDE DEF j
  <2>4. ASSUME NEW i \in m..(j - 1) PROVE Good(i)
    <3>1. i \in m..t /\ ~(j <= i)
      BY <2>3
    <3> QED
      BY <2>2, <3>1
  <2> QED
    BY <1>4, <2>3, <2>4
<1> HIDE DEF Good
<1>6. t \in m..t
  OBVIOUS
<1>7. Good(t)
  BY <1>5, <1>6
<1> QED
  BY <1>7 DEF Good, text

-----------------------------------------------------------------------------
(* The analysis is a piece of one attempt's answer, or some later answer   *)
(* closes a brace that is not its own.                                     *)
FromOne(given, parsed, source) ==
  LET first  == source[1]
      answer == given[first]
  IN  \/ /\ \A i \in DOMAIN source : source[i] = first
         /\ \E from, to \in DOMAIN answer : parsed = SubSeq(answer, from, to)
      \/ \E i \in DOMAIN source : source[i] > first /\ ~ClosesItsOwn(given[source[i]])

(* What json.loads accepts is not empty and not before or behind the text. *)
LEMMA ParsedSpan ==
  ASSUME NEW text \in Seq(STRING), Parses(text)
  PROVE  LET span == ExtractJsonObject(text)
         IN  /\ span[1] \in Nat /\ span[2] \in Nat
             /\ 1 <= span[1] /\ span[1] <= span[2] /\ span[2] <= Len(text)
<1> DEFINE span == ExtractJsonObject(text)
           o    == Between(text, span)
<1>1. /\ Len(text) \in Nat /\ span \in Spans(text)
      /\ span[1] \in 1..Len(text) + 1 /\ span[2] \in 0..Len(text)
  BY LenProperties, SpanInText DEF Spans
<1>2. o \in ResultObjects /\ o # << >>
  BY ObjectsAssumption, Zenon DEF Parses
<1>3. o = SubSeq(text, span[1], span[2])
  BY DEF Between
<1> HIDE DEF span, o
<1>4. span[1] <= span[2]
  <2> SUFFICES ASSUME span[2] < span[1] PROVE FALSE
    BY <1>1
  <2>1. o = << >>
    BY <1>1, <1>3, SubSeqEmpty
  <2> QED
    BY <1>2, <2>1
<1>5. /\ span[1] \in Nat /\ span[2] \in Nat
      /\ 1 <= span[1] /\ span[1] <= span[2] /\ span[2] <= Len(text)
  BY <1>1, <1>4
<1> QED
  BY <1>5 DEF span

(* An object in the tokens of one attempt is a piece of its answer.        *)
LEMMA PieceOfAnswer ==
  ASSUME NEW c \in Call, Len(c.origin) = Len(c.collected), NEW pos, Placed(c, pos),
         NEW f \in Nat, NEW t \in Nat, 1 <= f, f <= t, t <= Len(c.collected),
         \A i \in f..t : c.origin[i] = c.origin[f]
  PROVE  LET answer == c.given[c.origin[f]]
         IN  \E from, to \in DOMAIN answer :
               SubSeq(c.collected, f, t) = SubSeq(answer, from, to)
<1> DEFINE answer == c.given[c.origin[f]]
           from == pos[f]
           to == pos[t]
           o == SubSeq(c.collected, f, t)
           s == SubSeq(answer, from, to)
<1>0. /\ Len(c.collected) \in Nat
      /\ \A i \in 1..Len(c.collected) :
           /\ c.collected[i] \in STRING
           /\ c.given[c.origin[i]] \in Seq(STRING)
           /\ Len(c.given[c.origin[i]]) \in Nat
           /\ pos[i] \in 1..Len(c.given[c.origin[i]]) /\ pos[i] \in Nat
           /\ c.collected[i] = c.given[c.origin[i]][pos[i]]
  BY PlacedType
<1>1. /\ Len(c.collected) \in Nat
      /\ \A i \in f..t : /\ c.collected[i] \in STRING
                         /\ pos[i] \in 1..Len(answer) /\ pos[i] \in Nat
                         /\ c.collected[i] = answer[pos[i]]
      /\ answer \in Seq(STRING) /\ Len(answer) \in Nat
  <2>1. \A i \in f..t : i \in 1..Len(c.collected)
    BY PlacedType
  <2>2. f \in f..t
    OBVIOUS
  <2>3. ASSUME NEW i \in f..t
        PROVE  /\ c.collected[i] \in STRING
               /\ pos[i] \in 1..Len(answer) /\ pos[i] \in Nat
               /\ c.collected[i] = answer[pos[i]]
               /\ answer \in Seq(STRING) /\ Len(answer) \in Nat
    <3>1. i \in 1..Len(c.collected) /\ c.origin[i] = c.origin[f]
      BY <2>1
    <3>2. /\ c.collected[i] \in STRING
          /\ c.given[c.origin[i]] \in Seq(STRING)
          /\ Len(c.given[c.origin[i]]) \in Nat
          /\ pos[i] \in 1..Len(c.given[c.origin[i]]) /\ pos[i] \in Nat
          /\ c.collected[i] = c.given[c.origin[i]][pos[i]]
      BY <1>0, <3>1
    <3>3. c.given[c.origin[i]] = answer
      BY <3>1
    <3> HIDE DEF answer
    <3> QED
      BY <3>2, <3>3
  <2> HIDE DEF answer
  <2> QED
    BY <1>0, <2>2, <2>3
<1>2. \A i \in f..t : pos[i] = from + (i - f)
  BY SameAttempt
<1>3. f \in f..t /\ t \in f..t
  OBVIOUS
<1>4. from \in 1..Len(answer) /\ to \in 1..Len(answer) /\ to = from + (t - f)
  BY <1>1, <1>2, <1>3
<1>5. /\ o \in Seq(STRING) /\ Len(o) = t - f + 1
      /\ \A j \in 1..(t - f + 1) : o[j] = c.collected[f + j - 1]
  BY <1>1, SubSeqProperties
<1> HIDE DEF from, to, answer, o
<1>6. DOMAIN answer = 1..Len(answer)
  BY <1>1, LenProperties
<1>7. /\ s \in Seq(STRING) /\ Len(s) = t - f + 1
      /\ \A j \in 1..(t - f + 1) : s[j] = answer[from + j - 1]
  <2>1. \A i \in from..to : answer[i] \in STRING
    BY <1>1, <1>4, ElementOfSeq
  <2>2. from \in Int /\ to \in Int /\ from <= to /\ to - from + 1 = t - f + 1
    BY <1>1, <1>4
  <2> HIDE DEF s
  <2> QED
    BY <2>1, <2>2, SubSeqProperties DEF s
<1> HIDE DEF s
<1>8. ASSUME NEW j \in 1..(t - f + 1) PROVE s[j] = o[j]
  <2>1. f + j - 1 \in f..t /\ from + ((f + j - 1) - f) = from + j - 1
    BY <1>1, <1>4, SMTT(30)
  <2>2. c.collected[f + j - 1] = answer[pos[f + j - 1]] /\ pos[f + j - 1] = from + j - 1
    BY <1>1, <1>2, <2>1
  <2> QED
    BY <1>5, <1>7, <2>2
<1>9. o = s
  BY <1>5, <1>7, <1>8, SeqEqual
<1> QED
  BY <1>4, <1>6, <1>9 DEF answer, o, s

LEMMA ParsedIsFromOne ==
  ASSUME NEW c \in Call, Len(c.origin) = Len(c.collected), InOrder(c),
         NEW pos, Placed(c, pos), Parses(c.collected)
  PROVE  LET object == ExtractJsonObject(c.collected)
         IN  FromOne(c.given, Between(c.collected, object), Between(c.origin, object))
<1> DEFINE span == ExtractJsonObject(c.collected)
           f == span[1]
           t == span[2]
           text == c.collected
           o == SubSeq(text, f, t)
           source == SubSeq(c.origin, f, t)
           first == c.origin[f]
<1>1. text \in Seq(STRING) /\ c.origin \in Seq(1..MaxAttempts)
  BY DEF Call
<1>2. /\ f \in Nat /\ t \in Nat /\ 1 <= f /\ f <= t /\ t <= Len(text)
  BY <1>1, ParsedSpan
<1>3. o \in ResultObjects /\ o = Between(text, span) /\ source = Between(c.origin, span)
  BY Zenon DEF Parses, Between
<1> HIDE DEF span, f, t
<1>4. /\ Len(text) \in Nat /\ Len(c.origin) = Len(text) /\ Len(pos) = Len(text)
      /\ \A i \in f..t : /\ i \in 1..Len(text) /\ text[i] \in STRING
                         /\ c.origin[i] \in 1..MaxAttempts
  <2>1. Len(text) \in Nat /\ Len(pos) = Len(text)
    BY PlacedType
  <2>2. \A i \in f..t : i \in 1..Len(text)
    BY <1>2, <2>1
  <2> QED
    BY <2>1, <2>2, PlacedType
<1>5. /\ Len(o) = t - f + 1 /\ \A j \in 1..(t - f + 1) : o[j] = text[f + j - 1]
  BY <1>1, <1>2, <1>4, SubSeqProperties
<1>6. /\ DOMAIN source = 1..(t - f + 1)
      /\ \A j \in 1..(t - f + 1) : source[j] = c.origin[f + j - 1]
  <2>1. /\ source \in Seq(1..MaxAttempts) /\ Len(source) = t - f + 1
        /\ \A j \in 1..(t - f + 1) : source[j] = c.origin[f + j - 1]
    BY <1>1, <1>2, <1>4, SubSeqProperties
  <2> HIDE DEF source
  <2> QED
    BY <2>1, LenProperties
<1> HIDE DEF o, source
<1>7. source[1] = first
  BY <1>2, <1>6
<1>8. CASE \A i \in f..t : c.origin[i] = first
  <2>1. \E from, to \in DOMAIN c.given[first] : o = SubSeq(c.given[first], from, to)
    BY <1>2, <1>4, <1>8, PieceOfAnswer DEF o, text
  <2>2. \A j \in DOMAIN source : source[j] = first
    <3>1. \A j \in 1..(t - f + 1) : f + j - 1 \in f..t
      BY <1>2
    <3> QED
      BY <1>6, <1>8, <3>1
  <2>3. FromOne(c.given, o, source)
    BY <1>7, <2>1, <2>2 DEF FromOne
  <2> QED
    BY <1>3, <2>3 DEF span
<1>9. CASE ~ \A i \in f..t : c.origin[i] = first
  <2> DEFINE other == {i \in f..t : c.origin[i] # first}
             m == Least(other)
  <2>1. other \in SUBSET Nat /\ other # {}
    BY <1>2, <1>9
  <2>2. m \in other /\ \A i \in other : m <= i
    <3> HIDE DEF other
    <3> QED
      BY <2>1, LeastOf
  <2> HIDE DEF m
  <2>3. m \in f..t /\ c.origin[m] # first /\ m # f /\ m \in Nat
    BY <1>2, <2>2
  <2>4. \A i \in f..(m - 1) : c.origin[i] = first
    <3>1. ASSUME NEW i \in f..(m - 1), c.origin[i] # first PROVE FALSE
      <4>1. i \in other
        BY <1>2, <2>3, <3>1
      <4> QED
        BY <2>2, <2>3, <3>1, <4>1
    <3> QED
      BY <3>1
  <2>5. m \in 2..Len(text) /\ m - 1 \in f..(m - 1) /\ f < m
    BY <1>2, <1>4, <2>3
  <2>6. pos[m] = 1
    BY <2>3, <2>4, <2>5, PlacedType
  <2>7. \A i \in m..t : c.origin[i] > first
    <3>1. ASSUME NEW i \in m..t PROVE c.origin[i] > first
      <4>1. i \in f..t /\ f \in f..t /\ m <= i /\ f <= m
        BY <1>2, <2>3, <2>5
      <4>2. c.origin[m] <= c.origin[i] /\ first <= c.origin[m]
        BY <1>4, <2>3, <4>1 DEF InOrder
      <4>3. c.origin[i] \in Int /\ c.origin[m] \in Int /\ first \in Int
        BY <1>4, <2>3, <4>1, StreamAssumption
      <4> HIDE DEF first
      <4> QED
        BY <2>3, <4>2, <4>3
    <3> QED
      BY <3>1
  <2> SUFFICES ASSUME \A i \in m..t : ClosesItsOwn(c.given[c.origin[i]]) PROVE FALSE
    <3>1. ASSUME NEW i \in m..t, ~ClosesItsOwn(c.given[c.origin[i]])
          PROVE  FromOne(c.given, o, source)
      <4>1. i - f + 1 \in DOMAIN source /\ source[i - f + 1] = c.origin[i]
        <5>1. i - f + 1 \in 1..(t - f + 1) /\ f + (i - f + 1) - 1 = i
          BY <1>2, <2>3
        <5> QED
          BY <1>6, <5>1
      <4>2. source[i - f + 1] > source[1] /\ ~ClosesItsOwn(c.given[source[i - f + 1]])
        BY <1>7, <2>7, <3>1, <4>1
      <4> QED
        BY <4>1, <4>2 DEF FromOne
    <3> QED
      BY <1>3, <3>1 DEF span
  <2>8. Net(text, m, t) >= 0
    BY <1>2, <2>3, <2>5, <2>6, OwnBraces DEF text
  <2>9. /\ Nesting(o, t - f + 1) = Net(text, f, t)
        /\ Nesting(o, m - f) = Net(text, f, m - 1)
    <3>1. t - f + 1 \in Nat /\ f + (t - f + 1) - 1 = t
      BY <1>2
    <3>2. Nesting(o, t - f + 1) = Net(text, f, f + (t - f + 1) - 1)
      <4> DEFINE n == t - f + 1
      <4>1. n \in Nat /\ \A j \in 1..n : o[j] = text[f + j - 1]
        BY <1>5, <3>1
      <4> HIDE DEF n, text
      <4>2. Nesting(o, n) = Net(text, f, f + n - 1)
        BY <1>2, <4>1, NetShift
      <4> QED
        BY <4>2 DEF n
    <3>3. m - f \in Nat /\ f + (m - f) - 1 = m - 1 /\ \A j \in 1..(m - f) : j \in 1..(t - f + 1)
      BY <1>2, <2>3, <2>5
    <3>4. Nesting(o, m - f) = Net(text, f, f + (m - f) - 1)
      <4> DEFINE n == m - f
      <4>1. n \in Nat /\ \A j \in 1..n : o[j] = text[f + j - 1]
        BY <1>5, <3>3
      <4> HIDE DEF n, text
      <4>2. Nesting(o, n) = Net(text, f, f + n - 1)
        BY <1>2, <4>1, NetShift
      <4> QED
        BY <4>2 DEF n
    <3> QED
      BY <3>1, <3>2, <3>3, <3>4
  <2>10. Nesting(o, t - f + 1) = 0 /\ Nesting(o, m - f) > 0
    <3>1. m - f \in 1..(Len(o) - 1)
      BY <1>2, <1>5, <2>3, <2>5
    <3>2. Nesting(o, Len(o)) = 0 /\ Nesting(o, m - f) > 0
      BY <1>3, <3>1, ObjectsAssumption
    <3> QED
      BY <1>5, <3>2
  <2>11. /\ Net(text, f, m - 1) \in Int /\ Net(text, m, t) \in Int
         /\ Net(text, f, t) = Net(text, f, m - 1) + Net(text, m, t)
    <3> DEFINE b == m - 1
    <3>1. b \in Nat /\ f <= b + 1 /\ b <= t /\ b + 1 = m
      BY <1>2, <2>3, <2>5
    <3> HIDE DEF b, text
    <3>2. /\ Net(text, f, b) \in Int /\ Net(text, b + 1, t) \in Int
          /\ Net(text, f, t) = Net(text, f, b) + Net(text, b + 1, t)
      BY <1>2, <3>1, NetSplit
    <3> QED
      BY <3>1, <3>2 DEF b
  <2> HIDE DEF text
  <2> QED
    BY <2>8, <2>9, <2>10, <2>11
<1> QED
  BY <1>8, <1>9

-----------------------------------------------------------------------------
Early == {"idle", "opened", "calling", "receiving", "parsing", "repairing"}
BeforeAnswer == {"idle", "opened", "calling"}

(* Nothing collected is of a later attempt, nor of one that has not been   *)
(* answered yet; there is no analysis before there is a status.            *)
Traced(c) ==
  /\ InOrder(c)
  /\ \A i \in 1..Len(c.origin) : c.origin[i] <= c.attempt
  /\ c.pc \in BeforeAnswer => \A i \in 1..Len(c.origin) : c.origin[i] < c.attempt
  /\ \E pos : Placed(c, pos) /\ Reached(c, pos)
  /\ c.pc \in Early => c.status = "none"
  /\ c.status = "ok" => FromOne(c.given, c.parsed, c.source)

TracedInv == \A r \in Requests : Traced(call[r])

LEMMA TracedMoves ==
  ASSUME IInv, TracedInv, NEW r \in Requests, NEW new, Becomes(r, new), Traced(new)
  PROVE  TracedInv'
<1>1. call'[r] = new /\ \A q \in Requests : q # r => call'[q] = call[q]
  BY DEF Becomes, IInv, TypeOK
<1>2. \A q \in Requests : Traced(call'[q])
  BY <1>1 DEF TracedInv
<1> QED
  BY <1>2 DEF TracedInv

(* A step that collects nothing.                                           *)
LEMMA TracedKept ==
  ASSUME NEW c, NEW new, Traced(c), new.given = c.given, new.collected = c.collected,
         new.origin = c.origin,
         \A i \in 1..Len(c.origin) : c.origin[i] <= new.attempt,
         new.pc # "receiving",
         new.pc \in BeforeAnswer => \A i \in 1..Len(c.origin) : c.origin[i] < new.attempt,
         new.pc \in Early => new.status = "none",
         new.status = "ok" => FromOne(new.given, new.parsed, new.source)
  PROVE  Traced(new)
<1>1. PICK pos : Placed(c, pos)
  BY DEF Traced
<1>2. Placed(new, pos) /\ Reached(new, pos)
  BY <1>1 DEF Placed, Reached
<1>3. InOrder(new)
  BY DEF Traced, InOrder
<1> QED
  BY <1>2, <1>3 DEF Traced

LEMMA TracedConnect ==
  ASSUME IInv, TracedInv, NEW r \in Requests, Connect(r) PROVE TracedInv'
<1> DEFINE c == call[r]
<1>1. PICK answer \in Answers :
        Becomes(r, [call[r] EXCEPT !.pc = "receiving", !.sent = 0,
                                   !.given[call[r].attempt] = answer])
  BY DEF Connect
<1> DEFINE new == [c EXCEPT !.pc = "receiving", !.sent = 0, !.given[c.attempt] = answer]
<1>2. /\ c \in Call /\ Traced(c) /\ c.pc = "calling"
      /\ c.given \in [1..MaxAttempts -> Seq(STRING)] /\ c.attempt \in 1..MaxAttempts
      /\ Len(c.origin) = Len(c.collected)
  BY CallType DEF TracedInv, Connect, Call
<1>3. /\ new.pc = "receiving" /\ new.sent = 0 /\ new.status = c.status
      /\ new.given = [c.given EXCEPT ![c.attempt] = answer]
      /\ new.collected = c.collected /\ new.origin = c.origin /\ new.attempt = c.attempt
  BY <1>2 DEF Call
<1>4. /\ c.status = "none" /\ InOrder(c) /\ \A i \in 1..Len(c.origin) : c.origin[i] < c.attempt
  BY <1>2 DEF Traced, Early, BeforeAnswer
<1>5. PICK pos : Placed(c, pos)
  BY <1>2 DEF Traced
<1>6. Becomes(r, new)
  BY <1>1
<1> HIDE DEF new, c
<1>7. InOrder(new)
  BY <1>3, <1>4 DEF InOrder
<1>8. Len(pos) = Len(c.origin)
  BY <1>2, <1>5 DEF Placed
<1>9. /\ c.origin \in Seq(1..MaxAttempts) /\ Len(c.origin) \in Nat
      /\ \A i \in 1..Len(pos) : c.origin[i] \in 1..MaxAttempts
  <2>1. c.origin \in Seq(1..MaxAttempts)
    BY <1>2 DEF Call
  <2> QED
    BY <1>8, <2>1, LenProperties, ElementOfSeq
<1>10. \A i \in 1..Len(pos) : /\ c.origin[i] # c.attempt
                              /\ new.given[c.origin[i]] = c.given[c.origin[i]]
  BY <1>2, <1>3, <1>4, <1>8, <1>9
<1>11. Placed(new, pos)
  BY <1>3, <1>5, <1>10, SMTT(30) DEF Placed
<1>12. Reached(new, pos)
  BY <1>3, <1>8, <1>9, <1>10 DEF Reached
<1>13. \A i \in 1..Len(new.origin) : new.origin[i] <= new.attempt
  BY <1>2, <1>3, <1>4, <1>8, <1>9
<1>14. Traced(new)
  BY <1>3, <1>4, <1>7, <1>11, <1>12, <1>13 DEF Traced, BeforeAnswer
<1> QED
  BY <1>6, <1>14, TracedMoves

LEMMA TracedChunk ==
  ASSUME IInv, TracedInv, NEW r \in Requests, Chunk(r) PROVE TracedInv'
<1> DEFINE c    == call[r]
           line == c.given[c.attempt]
           new  == [c EXCEPT !.sent = @ + 1,
                             !.collected = Append(@, line[c.sent + 1]),
                             !.origin = Append(@, c.attempt)]
<1>1. /\ c \in Call /\ Traced(c) /\ c.pc = "receiving" /\ c.sent < Len(line)
      /\ Len(c.origin) = Len(c.collected) /\ Becomes(r, new)
  BY CallType DEF Chunk, TracedInv
<1>2. /\ line \in Seq(STRING) /\ Len(line) \in Nat /\ c.sent \in Nat
      /\ c.attempt \in 1..MaxAttempts
      /\ c.collected \in Seq(STRING) /\ c.origin \in Seq(1..MaxAttempts)
      /\ Len(c.origin) \in Nat
  BY <1>1, LenProperties DEF Call
<1>3. /\ new.pc = "receiving" /\ new.sent = c.sent + 1 /\ new.status = c.status
      /\ new.given = c.given /\ new.attempt = c.attempt
      /\ new.collected = Append(c.collected, line[c.sent + 1])
      /\ new.origin = Append(c.origin, c.attempt)
  BY <1>1 DEF Call
<1>4. c.status = "none" /\ InOrder(c) /\ \A i \in 1..Len(c.origin) : c.origin[i] <= c.attempt
  BY <1>1 DEF Traced, Early
<1>5. PICK pos : Placed(c, pos) /\ Reached(c, pos)
  BY <1>1 DEF Traced
<1> DEFINE n    == Len(c.origin)
           next == Append(pos, c.sent + 1)
<1>6. pos \in Seq(Nat) /\ Len(pos) = n /\ Len(c.collected) = n
  BY <1>1, <1>5 DEF Placed
<1> HIDE DEF new, c, line, n
<1>7. /\ next \in Seq(Nat) /\ Len(next) = n + 1 /\ next[n + 1] = c.sent + 1
      /\ \A i \in 1..n : next[i] = pos[i]
  BY <1>2, <1>6, AppendProperties
<1>8. /\ Len(new.origin) = n + 1 /\ new.origin[n + 1] = c.attempt
      /\ \A i \in 1..n : new.origin[i] = c.origin[i]
  BY <1>2, <1>3, AppendProperties DEF n
<1>9. /\ Len(new.collected) = n + 1 /\ new.collected[n + 1] = line[c.sent + 1]
      /\ \A i \in 1..n : new.collected[i] = c.collected[i]
  <2>1. c.sent + 1 \in 1..Len(line)
    BY <1>1, <1>2
  <2>2. line[c.sent + 1] \in STRING
    BY <1>2, <2>1, ElementOfSeq
  <2> QED
    BY <1>2, <1>3, <1>6, <2>2, AppendProperties
<1> HIDE DEF next
<1>10. n \in Nat
  BY <1>2 DEF n
<1>11. Placed(new, next)
  <2>1. ASSUME NEW i \in 1..n
        PROVE  /\ next[i] \in 1..Len(new.given[new.origin[i]])
               /\ new.collected[i] = new.given[new.origin[i]][next[i]]
               /\ i = 1 => next[i] = 1
               /\ i > 1 => next[i] = IF new.origin[i - 1] = new.origin[i]
                                     THEN next[i - 1] + 1 ELSE 1
    <3>1. /\ pos[i] \in 1..Len(c.given[c.origin[i]])
          /\ c.collected[i] = c.given[c.origin[i]][pos[i]]
          /\ i = 1 => pos[i] = 1
          /\ i > 1 => pos[i] = IF c.origin[i - 1] = c.origin[i] THEN pos[i - 1] + 1 ELSE 1
      BY <1>5, <1>6 DEF Placed
    <3>2. next[i] = pos[i] /\ new.origin[i] = c.origin[i] /\ new.collected[i] = c.collected[i]
      BY <1>7, <1>8, <1>9
    <3>3. i > 1 => next[i - 1] = pos[i - 1] /\ new.origin[i - 1] = c.origin[i - 1]
      BY <1>7, <1>8, <1>10
    <3> QED
      BY <1>3, <3>1, <3>2, <3>3
  <2>2. /\ next[n + 1] \in 1..Len(new.given[new.origin[n + 1]])
        /\ new.collected[n + 1] = new.given[new.origin[n + 1]][next[n + 1]]
    BY <1>1, <1>2, <1>3, <1>7, <1>8, <1>9 DEF line
  <2>3. \/ n > 0 /\ c.origin[n] = c.attempt /\ pos[n] = c.sent
        \/ (n > 0 => c.origin[n] # c.attempt) /\ c.sent = 0
    BY <1>1, <1>5, <1>6 DEF Reached
  <2>4. n + 1 = 1 => next[n + 1] = 1
    BY <1>7, <1>10, <2>3
  <2>5. n + 1 > 1 => next[n + 1] = IF new.origin[(n + 1) - 1] = new.origin[n + 1]
                                   THEN next[(n + 1) - 1] + 1 ELSE 1
    <3> SUFFICES ASSUME n > 0
                 PROVE  next[n + 1] = IF new.origin[n] = new.origin[n + 1]
                                      THEN next[n] + 1 ELSE 1
      BY <1>10
    <3>1. n \in 1..n
      BY <1>10
    <3>2. new.origin[n] = c.origin[n] /\ next[n] = pos[n]
      BY <1>7, <1>8, <3>1
    <3> QED
      BY <1>7, <1>8, <2>3, <3>2
  <2>6. ASSUME NEW i \in 1..(n + 1)
        PROVE  /\ next[i] \in 1..Len(new.given[new.origin[i]])
               /\ new.collected[i] = new.given[new.origin[i]][next[i]]
               /\ i = 1 => next[i] = 1
               /\ i > 1 => next[i] = IF new.origin[i - 1] = new.origin[i]
                                     THEN next[i - 1] + 1 ELSE 1
    <3>1. CASE i \in 1..n
      BY <2>1, <3>1
    <3>2. CASE i = n + 1
      BY <2>2, <2>4, <2>5, <3>2
    <3> QED
      BY <1>10, <3>1, <3>2
  <2> QED
    BY <1>7, <1>9, <2>6 DEF Placed
<1>12. Reached(new, next)
  BY <1>3, <1>7, <1>8, <1>10 DEF Reached
<1>13. \A i \in 1..Len(new.origin) : new.origin[i] <= new.attempt
  <2>1. ASSUME NEW i \in 1..(n + 1) PROVE new.origin[i] <= new.attempt
    <3>1. CASE i \in 1..n
      BY <1>3, <1>4, <1>8, <3>1 DEF n
    <3>2. CASE i = n + 1
      BY <1>2, <1>3, <1>8, <3>2
    <3> QED
      BY <1>10, <3>1, <3>2
  <2> QED
    BY <1>8, <2>1
<1>14. Traced(new)
  <2>1. InOrder(new)
    <3> SUFFICES ASSUME NEW i \in 1..(n + 1), NEW j \in 1..(n + 1), i <= j
                 PROVE  new.origin[i] <= new.origin[j]
      BY <1>8 DEF InOrder
    <3>1. CASE j \in 1..n
      <4>1. i \in 1..n
        BY <1>10, <3>1
      <4> QED
        BY <1>4, <1>8, <3>1, <4>1 DEF InOrder, n
    <3>2. CASE j = n + 1
      BY <1>3, <1>8, <1>13, <3>2
    <3> QED
      BY <1>10, <3>1, <3>2
  <2> QED
    BY <1>3, <1>4, <1>11, <1>12, <1>13, <2>1 DEF Traced, BeforeAnswer
<1> QED
  BY <1>1, <1>14, TracedMoves DEF new, c, line

LEMMA TracedWholeAnswer ==
  ASSUME IInv, TracedInv, NEW r \in Requests, WholeAnswer(r) PROVE TracedInv'
<1> DEFINE c == call[r]
           After(answer) ==
             [c EXCEPT !.pc = "parsing", !.given[c.attempt] = answer,
                       !.collected = answer,
                       !.origin = [i \in DOMAIN answer |-> c.attempt]]
<1>1. PICK answer \in Answers : Becomes(r, After(answer))
  BY DEF WholeAnswer
<1> DEFINE new == After(answer)
           pos == [i \in 1..Len(answer) |-> i]
<1>2. /\ c \in Call /\ Traced(c) /\ c.pc = "calling" /\ c.attempt \in 1..MaxAttempts
      /\ c.given \in [1..MaxAttempts -> Seq(STRING)]
  BY CallType DEF Call, TracedInv, WholeAnswer
<1>3. answer \in Seq(STRING) /\ Len(answer) \in Nat /\ DOMAIN answer = 1..Len(answer)
  BY StreamAssumption, LenProperties
<1>4. /\ new.pc = "parsing" /\ new.status = c.status /\ new.attempt = c.attempt
      /\ new.given = [c.given EXCEPT ![c.attempt] = answer]
      /\ new.collected = answer /\ new.origin = [i \in 1..Len(answer) |-> c.attempt]
  BY <1>2, <1>3 DEF Call
<1>5. c.status = "none"
  BY <1>2 DEF Traced, Early
<1>6. Becomes(r, new)
  BY <1>1
<1> HIDE DEF new, c
<1>7. /\ Len(new.origin) = Len(answer) /\ new.given[c.attempt] = answer
      /\ \A i \in 1..Len(answer) : new.origin[i] = c.attempt
  <2>1. new.origin \in [1..Len(answer) -> 1..MaxAttempts]
    BY <1>2, <1>4
  <2>2. Len(new.origin) = Len(answer)
    BY <1>3, <2>1
  <2> QED
    BY <1>2, <1>4, <2>2
<1>8. pos \in Seq(Nat) /\ Len(pos) = Len(answer) /\ \A i \in 1..Len(answer) : pos[i] = i
  <2>1. pos \in [1..Len(answer) -> Nat]
    BY <1>3
  <2> QED
    BY <1>3, <2>1
<1> HIDE DEF pos
<1>9. Placed(new, pos)
  <2>1. ASSUME NEW i \in 1..Len(answer)
        PROVE  /\ pos[i] \in 1..Len(new.given[new.origin[i]])
               /\ new.collected[i] = new.given[new.origin[i]][pos[i]]
               /\ i = 1 => pos[i] = 1
               /\ i > 1 => pos[i] = IF new.origin[i - 1] = new.origin[i]
                                    THEN pos[i - 1] + 1 ELSE 1
    <3>1. new.given[new.origin[i]] = answer /\ new.collected[i] = answer[i] /\ pos[i] = i
      BY <1>4, <1>7, <1>8
    <3>2. i > 1 => i - 1 \in 1..Len(answer) /\ (i - 1) + 1 = i
      BY <1>3
    <3>3. i > 1 => /\ new.origin[i - 1] = new.origin[i]
                   /\ pos[i] = pos[i - 1] + 1
      BY <1>7, <1>8, <3>2
    <3> QED
      BY <3>1, <3>3
  <2> QED
    BY <1>4, <1>8, <2>1 DEF Placed
<1>10. Reached(new, pos)
  BY <1>4 DEF Reached
<1>11. InOrder(new)
  BY <1>2, <1>7, StreamAssumption DEF InOrder
<1>12. \A i \in 1..Len(new.origin) : new.origin[i] <= new.attempt
  BY <1>2, <1>4, <1>7
<1>13. Traced(new)
  BY <1>4, <1>5, <1>9, <1>10, <1>11, <1>12 DEF Traced, BeforeAnswer
<1> QED
  BY <1>6, <1>13, TracedMoves

LEMMA TracedParse ==
  ASSUME IInv, TracedInv, NEW r \in Requests, Parse(r) PROVE TracedInv'
<1> DEFINE c      == call[r]
           object == ExtractJsonObject(c.collected)
<1>1. /\ c \in Call /\ Traced(c) /\ c.pc = "parsing" /\ Len(c.origin) = Len(c.collected)
  BY CallType DEF Parse, TracedInv
<1>2. /\ InOrder(c) /\ \A i \in 1..Len(c.origin) : c.origin[i] <= c.attempt
      /\ c.status = "none"
  BY <1>1 DEF Traced, Early
<1>3. CASE Parses(c.collected)
  <2> DEFINE new == [c EXCEPT !.pc = "saving", !.status = "ok",
                              !.parsed = Between(c.collected, object),
                              !.source = Between(c.origin, object)]
  <2>1. Becomes(r, new)
    BY <1>3 DEF Parse
  <2>2. /\ new.pc = "saving" /\ new.given = c.given /\ new.attempt = c.attempt
        /\ new.collected = c.collected /\ new.origin = c.origin
        /\ new.parsed = Between(c.collected, object)
        /\ new.source = Between(c.origin, object)
    BY <1>1 DEF Call
  <2>3. PICK pos : Placed(c, pos)
    BY <1>1 DEF Traced
  <2>4. FromOne(c.given, Between(c.collected, object), Between(c.origin, object))
    BY <1>1, <1>2, <1>3, <2>3, ParsedIsFromOne
  <2> HIDE DEF new, c, object
  <2>5. Traced(new)
    BY <1>1, <1>2, <2>2, <2>4, TracedKept DEF Early, BeforeAnswer
  <2> QED
    BY <2>1, <2>5, TracedMoves
<1>4. CASE ~Parses(c.collected)
  <2> DEFINE new == [c EXCEPT !.pc = "repairing"]
  <2>1. Becomes(r, new)
    BY <1>4 DEF Parse
  <2>2. /\ new.pc = "repairing" /\ new.given = c.given /\ new.attempt = c.attempt
        /\ new.collected = c.collected /\ new.origin = c.origin /\ new.status = c.status
    BY <1>1 DEF Call
  <2> HIDE DEF new, c
  <2>3. Traced(new)
    BY <1>1, <1>2, <2>2, TracedKept DEF Early, BeforeAnswer
  <2> QED
    BY <2>1, <2>3, TracedMoves
<1> QED
  BY <1>3, <1>4

LEMMA TracedRetry ==
  ASSUME IInv, TracedInv, NEW r \in Requests, Retry(r) PROVE TracedInv'
<1> DEFINE c   == call[r]
           new == [c EXCEPT !.pc = "calling", !.attempt = @ + 1]
<1>1. /\ c \in Call /\ Traced(c) /\ c.pc \in {"calling", "receiving"} /\ Becomes(r, new)
      /\ Len(c.origin) = Len(c.collected)
  BY CallType DEF Retry, TracedInv
<1>2. /\ \A i \in 1..Len(c.origin) : c.origin[i] <= c.attempt
      /\ c.status = "none"
  BY <1>1 DEF Traced, Early
<1>3. /\ new.pc = "calling" /\ new.given = c.given /\ new.attempt = c.attempt + 1
      /\ new.collected = c.collected /\ new.origin = c.origin /\ new.status = c.status
  BY <1>1 DEF Call
<1>4. c.attempt \in Nat /\ \A i \in 1..Len(c.origin) : c.origin[i] \in Nat
  <2>1. c.origin \in Seq(1..MaxAttempts) /\ c.attempt \in 1..MaxAttempts
    BY <1>1 DEF Call
  <2> QED
    BY <2>1, StreamAssumption, ElementOfSeq
<1> HIDE DEF new, c
<1>5. \A i \in 1..Len(c.origin) : c.origin[i] <= new.attempt /\ c.origin[i] < new.attempt
  BY <1>2, <1>3, <1>4
<1>6. Traced(new)
  BY <1>1, <1>2, <1>3, <1>5, TracedKept
<1> QED
  BY <1>1, <1>6, TracedMoves DEF new, c

(* The steps that touch neither the answers nor what was collected.        *)
LEMMA TracedGoes ==
  ASSUME IInv, TracedInv, NEW r \in Requests,
         NEW from \in {"opened", "receiving", "saving", "stored"},
         NEW to \in {"calling", "parsing", "stored", "answered", "broken"},
         to \in Early => from \in Early, to = "calling" => from \in BeforeAnswer,
         Goes(r, from, to)
  PROVE  TracedInv'
<1> DEFINE c == call[r]
           new == [c EXCEPT !.pc = to]
<1>1. c \in Call /\ Traced(c) /\ c.pc = from /\ Becomes(r, new)
  BY CallType DEF Goes, TracedInv
<1>2. /\ new.pc = to /\ new.given = c.given /\ new.attempt = c.attempt
      /\ new.collected = c.collected /\ new.origin = c.origin /\ new.status = c.status
      /\ new.parsed = c.parsed /\ new.source = c.source
  BY <1>1 DEF Call
<1> HIDE DEF new, c
<1>3. Traced(new)
  <2>1. /\ \A i \in 1..Len(c.origin) : c.origin[i] <= new.attempt
        /\ new.status = "ok" => FromOne(new.given, new.parsed, new.source)
    BY <1>1, <1>2 DEF Traced
  <2>2. new.pc \in BeforeAnswer => \A i \in 1..Len(c.origin) : c.origin[i] < new.attempt
    BY <1>1, <1>2 DEF Traced, BeforeAnswer
  <2>3. new.pc # "receiving" /\ (new.pc \in Early => new.status = "none")
    BY <1>1, <1>2 DEF Traced
  <2> QED
    BY <1>1, <1>2, <2>1, <2>2, <2>3, TracedKept
<1> QED
  BY <1>1, <1>3, TracedMoves DEF new, c

LEMMA TracedSettles ==
  ASSUME IInv, TracedInv, NEW r \in Requests, NEW status \in {"repaired", "failed"},
         Becomes(r, [call[r] EXCEPT !.pc = "saving", !.status = status])
  PROVE  TracedInv'
<1> DEFINE c == call[r]
           new == [c EXCEPT !.pc = "saving", !.status = status]
<1>1. c \in Call /\ Traced(c) /\ Becomes(r, new)
  BY CallType DEF TracedInv
<1>2. /\ new.pc = "saving" /\ new.given = c.given /\ new.attempt = c.attempt
      /\ new.collected = c.collected /\ new.origin = c.origin /\ new.status = status
  BY <1>1 DEF Call
<1> HIDE DEF new, c
<1>3. Traced(new)
  <2>1. \A i \in 1..Len(c.origin) : c.origin[i] <= new.attempt
    BY <1>1, <1>2 DEF Traced
  <2> QED
    BY <1>1, <1>2, <2>1, TracedKept DEF Early, BeforeAnswer
<1> QED
  BY <1>1, <1>3, TracedMoves DEF new, c

LEMMA TracedBegin ==
  ASSUME IInv, TracedInv, NEW r \in Requests, NEW kind \in Kinds, Begin(r, kind)
  PROVE  TracedInv'
<1> DEFINE c == call[r]
           new == [c EXCEPT !.kind = kind, !.pc = "opened"]
<1>1. c \in Call /\ Traced(c) /\ c.pc = "idle" /\ Becomes(r, new)
  BY CallType DEF Begin, TracedInv
<1>2. /\ new.pc = "opened" /\ new.given = c.given /\ new.attempt = c.attempt
      /\ new.collected = c.collected /\ new.origin = c.origin /\ new.status = c.status
  BY <1>1 DEF Call
<1> HIDE DEF new, c
<1>3. Traced(new)
  <2>1. /\ \A i \in 1..Len(c.origin) : c.origin[i] <= new.attempt /\ c.origin[i] < new.attempt
        /\ new.status = "none"
    BY <1>1, <1>2 DEF Traced, BeforeAnswer, Early
  <2> QED
    BY <1>1, <1>2, <2>1, TracedKept
<1> QED
  BY <1>1, <1>3, TracedMoves DEF new, c

LEMMA TracedLeaves ==
  ASSUME IInv, TracedInv, NEW r \in Requests, Leaves(r) PROVE TracedInv'
<1> DEFINE c == call[r]
           new == [c EXCEPT !.pc = "left"]
<1>1. c \in Call /\ Traced(c) /\ Becomes(r, new)
  BY CallType DEF Leaves, TracedInv
<1>2. /\ new.pc = "left" /\ new.given = c.given /\ new.attempt = c.attempt
      /\ new.collected = c.collected /\ new.origin = c.origin /\ new.status = c.status
      /\ new.parsed = c.parsed /\ new.source = c.source
  BY <1>1 DEF Call
<1> HIDE DEF new, c
<1>3. Traced(new)
  <2>1. /\ \A i \in 1..Len(c.origin) : c.origin[i] <= new.attempt
        /\ new.status = "ok" => FromOne(new.given, new.parsed, new.source)
    BY <1>1, <1>2 DEF Traced
  <2> QED
    BY <1>1, <1>2, <2>1, TracedKept DEF Early, BeforeAnswer
<1> QED
  BY <1>1, <1>3, TracedMoves DEF new, c

LEMMA TracedInit == Init => TracedInv
<1> SUFFICES ASSUME Init PROVE TracedInv
  OBVIOUS
<1>1. /\ NewCall.pc = "idle" /\ NewCall.collected = << >> /\ NewCall.origin = << >>
      /\ NewCall.status = "none"
  BY DEF NewCall
<1>2. Placed(NewCall, << >>) /\ Reached(NewCall, << >>)
  BY <1>1 DEF Placed, Reached
<1>3. Traced(NewCall)
  BY <1>1, <1>2 DEF Traced, InOrder
<1> QED
  BY <1>3 DEF Init, TracedInv

LEMMA TracedStep == IInv /\ TracedInv /\ [Next]_vars => TracedInv'
<1> SUFFICES ASSUME IInv, TracedInv, [Next]_vars PROVE TracedInv'
  OBVIOUS
<1>1. CASE UNCHANGED vars
  BY <1>1 DEF vars, TracedInv
<1>2. ASSUME NEW r \in Requests, NEW kind \in Kinds, Begin(r, kind) PROVE TracedInv'
  BY <1>2, TracedBegin
<1>3. ASSUME NEW r \in Requests, Leaves(r) PROVE TracedInv'
  BY <1>3, TracedLeaves
<1>4. ASSUME NEW r \in Requests, Step(r) PROVE TracedInv'
  <2>1. CASE CallProvider(r) \/ NothingToPlan(r) \/ StreamEnds(r)
             \/ Save(r) \/ SaveRaises(r) \/ Deliver(r)
    BY <2>1, TracedGoes DEF CallProvider, NothingToPlan, StreamEnds, Save, SaveRaises,
                            Deliver, Early, BeforeAnswer
  <2>2. CASE Connect(r) \/ Chunk(r) \/ WholeAnswer(r) \/ Retry(r) \/ Parse(r)
    BY <2>2, TracedConnect, TracedChunk, TracedWholeAnswer, TracedRetry, TracedParse
  <2>3. CASE ProviderFails(r) \/ Repaired(r) \/ RepairFails(r)
    BY <2>3, TracedSettles DEF ProviderFails, Repaired, RepairFails
  <2> QED
    BY <1>4, <2>1, <2>2, <2>3 DEF Step
<1> QED
  BY <1>1, <1>2, <1>3, <1>4 DEF Next

(* Each accepted analysis in the history is a piece of what one attempt    *)
(* sent, or a later attempt's answer closes a brace that is not its own.   *)
THEOREM OneAnswersObjectHolds == Spec => []OneAnswersObject
<1>1. IInv /\ TracedInv => OneAnswersObject
  <2> SUFFICES ASSUME IInv, TracedInv, NEW h \in history, h.status = "ok"
               PROVE  FromOne(call[h.request].given, h.parsed, h.source)
    BY Zenon DEF OneAnswersObject, FromOne
  <2> DEFINE r == h.request
  <2>1. r \in Requests /\ h \in Rows(r)
    BY DEF IInv, TypeOK, Row, Rows
  <2>2. h = RowFor(r, call[r])
    BY <2>1 DEF IInv, Fits
  <2>3. h.status = call[r].status /\ h.parsed = call[r].parsed /\ h.source = call[r].source
    BY <2>2 DEF RowFor
  <2> QED
    BY <2>1, <2>3 DEF TracedInv, Traced
<1> QED
  BY <1>1, TracedInit, TracedStep, Invariance, PTL DEF Spec
=============================================================================
