---------------------------- MODULE MessageIntake ----------------------------
(***************************************************************************)
(* A captured message on its way into a prompt and a row.  The extension   *)
(* filters what it sends (HttpMessageFilter.prepare), and the backend      *)
(* guards whatever it is sent (guard_payload), by the extension or by a    *)
(* client of its own.  The two filters are written twice, in Java and in   *)
(* Python, and their differences are kept: the list of static resources,   *)
(* what is left of a static response, and bodies that are empty.           *)
(*                                                                         *)
(* A text is a sequence of characters, of which the filters tell apart     *)
(* those of the head, empty lines of either kind ("crlf" is CR LF CR LF,   *)
(* "lf" is LF LF, one token each), those of the body, and control          *)
(* characters.  No response and an empty one are the same to both filters: *)
(* the empty sequence.  The line end that starts the marker may make an    *)
(* empty line where a text is cut; nothing but the marker follows it.      *)
(***************************************************************************)
EXTENDS Integers, Sequences

CONSTANTS
  MaxChars,       \* MAX_TOTAL_CHARS, 256 * 1024
  MarkerLength,   \* of "\n[truncated: too_large]"
  NoteLength,     \* of "[body omitted: ...]"
  Texts           \* the requests and responses that are captured

EmptyLines == {"crlf", "lf"}
Characters == {"head", "char", "control"} \cup EmptyLines

ASSUME IntakeAssumption ==
  /\ MaxChars \in Nat /\ MarkerLength \in 1..MaxChars /\ NoteLength \in Nat
  /\ Texts \subseteq Seq(Characters)

VARIABLES
  stage,          \* how far the message has come
  sender,         \* who sends it to the backend
  capture,        \* the message as captured
  message         \* the message with its metadata, as far as it has come

vars == <<stage, sender, capture, message>>

(* A page, a resource static for both filters, or for one of them.  Java's *)
(* list has .avif and .webp and its paths are decoded; Python's paths end  *)
(* before the ";parameters" of a URL, so that only it sees /app.js;v=1.    *)
Urls == {"page", "static", "java", "python"}
StaticForJava == {"static", "java"}
StaticForPython == {"static", "python"}

Encodings == {"utf-8", "base64", "omitted"}

Captures == [request: Texts \ {<< >>}, response: Texts \cup {<< >>}, url: Urls]

Message == [request: Seq(Characters \cup {"mark", "note"}),
            response: Seq(Characters \cup {"mark", "note"}),
            encoding: Encodings,
            requestTruncated: BOOLEAN, responseTruncated: BOOLEAN,
            reason: {"none", "static_resource", "binary", "too_large"}]

TypeOK ==
  /\ stage \in {"captured", "sent", "guarded"}
  /\ sender \in {"extension", "client"}
  /\ capture \in Captures /\ message \in Message

Raw(texts, encoding) ==
  [request |-> texts.request, response |-> texts.response,
   encoding |-> encoding, requestTruncated |-> FALSE,
   responseTruncated |-> FALSE, reason |-> "none"]

(* The extension always says utf-8.  A client says what it wants of the    *)
(* encoding, and claims no cuts.                                           *)
Init ==
  /\ capture \in Captures
  /\ \/ /\ stage = "captured" /\ sender = "extension"
        /\ message = Raw(capture, "utf-8")
     \/ /\ stage = "sent" /\ sender = "client"
        /\ \E encoding \in Encodings : message = Raw(capture, encoding)

-----------------------------------------------------------------------------
(* What both filters do                                                    *)

Marker == [i \in 1..MarkerLength |-> "mark"]
Note == [i \in 1..NoteLength |-> "note"]

Has(line, text) == \E i \in DOMAIN text : text[i] = line
FirstOf(line, text) ==
  CHOOSE i \in DOMAIN text : text[i] = line /\ \A j \in 1..(i - 1) : text[j] # line

(* The end of the head with its empty line; 0 if there is none.  A "crlf"  *)
(* anywhere goes before an "lf", even one of the body.                     *)
Split(text) ==
  CASE Has("crlf", text) -> FirstOf("crlf", text)
    [] ~Has("crlf", text) /\ Has("lf", text) -> FirstOf("lf", text)
    [] ~Has("crlf", text) /\ ~Has("lf", text) -> 0

HasBinaryBody(text) ==
  /\ Split(text) > 0
  /\ \E j \in DOMAIN text : j > Split(text) /\ text[j] = "control"

RequestIsBinary(m) == HasBinaryBody(m.request)
IsBinary(m) == HasBinaryBody(m.request) \/ HasBinaryBody(m.response)

WithNote(text) == SubSeq(text, 1, Split(text)) \o Note

(* Java puts the note after an empty body as well, Python does not.        *)
PrepareOmits(text) == IF Split(text) > 0 THEN WithNote(text) ELSE text
GuardOmits(text) ==
  IF Split(text) > 0 /\ Split(text) < Len(text) THEN WithNote(text) ELSE text

OrZero(n) == IF n < 0 THEN 0 ELSE n

Truncate(text, limit) ==
  IF Len(text) <= limit THEN text
  ELSE SubSeq(text, 1, OrZero(limit - MarkerLength)) \o Marker

IsTooLarge(m) == Len(m.request) + Len(m.response) > MaxChars

LimitOfEach(m) == MaxChars
Remaining(m) == OrZero(MaxChars - Len(Truncate(m.request, MaxChars)))

CutSilently(m) ==
  [m EXCEPT !.request = Truncate(m.request, MaxChars),
            !.response = Truncate(m.response, Remaining(m)),
            !.reason = "too_large"]
CutToSize(m) ==
  [m EXCEPT !.request = Truncate(m.request, MaxChars),
            !.response = Truncate(m.response, Remaining(m)),
            !.requestTruncated = Len(m.request) > MaxChars,
            !.responseTruncated = Len(m.response) > Remaining(m),
            !.reason = "too_large"]

-----------------------------------------------------------------------------
(* HttpMessageFilter.prepare                                               *)

Prepared(m, url) ==
  CASE url \in StaticForJava -> [m EXCEPT !.response = PrepareOmits(@),
                                          !.reason = "static_resource"]
    [] url \notin StaticForJava /\ IsBinary(m) ->
         [m EXCEPT !.request = PrepareOmits(@), !.response = PrepareOmits(@),
                   !.reason = "binary"]
    [] url \notin StaticForJava /\ ~IsBinary(m) ->
         IF IsTooLarge(m) THEN CutToSize(m) ELSE m

SendCapture ==
  /\ stage = "captured" /\ stage' = "sent" /\ UNCHANGED <<message, sender, capture>>
Prepare ==
  /\ stage = "captured" /\ stage' = "sent"
  /\ message' = Prepared(message, capture.url)
  /\ UNCHANGED <<sender, capture>>

-----------------------------------------------------------------------------
(* guard_payload                                                           *)

BodiesOmitted(m) == [m EXCEPT !.request = GuardOmits(@), !.response = GuardOmits(@),
                              !.reason = "binary"]

Guarded(m, url) ==
  CASE url \in StaticForPython -> [m EXCEPT !.response = << >>, !.reason = "static_resource"]
    [] url \notin StaticForPython /\ (m.encoding # "utf-8" \/ IsBinary(m)) ->
         BodiesOmitted(m)
    [] url \notin StaticForPython /\ m.encoding = "utf-8" /\ ~IsBinary(m) ->
         IF IsTooLarge(m) THEN CutToSize(m) ELSE m

(* In analyze_with_progress, or for one item of batch_submit.              *)
Guard ==
  /\ stage = "sent" /\ stage' = "guarded"
  /\ message' = Guarded(message, capture.url)
  /\ UNCHANGED <<sender, capture>>

Next == Prepare \/ Guard
Spec == Init /\ [][Next]_vars

-----------------------------------------------------------------------------
(* Properties                                                              *)

HasMark(text) == \E i \in DOMAIN text : text[i] = "mark"

(* What a reader calls a control character in the body: one after an empty *)
(* line, of whichever kind.  The filters agree with the reader unless an   *)
(* empty line of the other kind follows in the body.                       *)
ControlInBody(text) ==
  \E i, j \in DOMAIN text : i < j /\ text[i] \in EmptyLines /\ text[j] = "control"
MixesLineEnds(text) ==
  \E i, j \in DOMAIN text : i < j /\ text[i] = "lf" /\ text[j] = "crlf"

(* What goes into a prompt fits: the request within the limit, both texts  *)
(* within the limit and one marker, whoever cut them and however the       *)
(* limit falls on the marker.  Static resources and omitted bodies are not *)
(* measured at all.                                                        *)
WithinLimit ==
  stage = "guarded" /\ message.reason \in {"none", "too_large"} =>
    /\ Len(message.request) <= MaxChars
    /\ Len(message.request) + Len(message.response) <= MaxChars + MarkerLength

(* The guard does not cut again what the extension has cut, although a     *)
(* marker may still be over the limit, and leaves alone what it let pass.  *)
(* Two differences are excepted: a URL that only Python calls static, and  *)
(* a cut that takes the "crlf" off a text and so moves its split.          *)
GuardIsStable ==
  [][/\ stage = "sent" /\ sender = "extension" /\ capture.url # "python"
     /\ \/ message.reason = "none"
        \/ /\ message.reason = "too_large"
           /\ ~MixesLineEnds(capture.request) /\ ~MixesLineEnds(capture.response)
     => /\ message'.request = message.request
        /\ message'.response = message.response]_vars

(* No control character after an empty line reaches a prompt, by either    *)
(* filter or by both, in a text that does not mix its line ends, unless it *)
(* is a static resource: of that the request is kept.                      *)
NothingBinary ==
  stage = "guarded" /\ message.reason # "static_resource" =>
    /\ ~MixesLineEnds(capture.request) => ~ControlInBody(message.request)
    /\ ~MixesLineEnds(capture.response) => ~ControlInBody(message.response)

(* A text that is not the captured one has a reason, a cut response is     *)
(* flagged, and a text flagged as cut to size carries the marker.          *)
ChangesAreExplained ==
  stage = "guarded" =>
    /\ \/ message.reason # "none"
       \/ message.request = capture.request /\ message.response = capture.response
    /\ message.reason = "too_large" =>
         /\ message.response = capture.response \/ message.responseTruncated
         /\ message.requestTruncated => HasMark(message.request)
         /\ message.responseTruncated => HasMark(message.response)

(* A request that was cut is recorded as cut: the flag of                  *)
(* backend/tests/test_input_guard.py, for the request that the extension   *)
(* has cut before.                                                         *)
TruncationIsRecorded ==
  stage = "guarded" /\ HasMark(message.request) => message.requestTruncated
=============================================================================
