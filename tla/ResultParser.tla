---------------------------- MODULE ResultParser ----------------------------
(***************************************************************************)
(* parse_llm_json: how an answer of the model becomes an analysis.  A text *)
(* is a sequence of tokens, the ones the parser tells apart:               *)
(*   "fence"    three backticks, with or without a language tag            *)
(*   "{" "}"    braces that open and close JSON objects                    *)
(*   "}s"       a closing brace inside a JSON string                       *)
(*   "members"  what the schema requires of the object around it           *)
(*   "prose"    anything else                                              *)
(* What json.loads and the schema accept is given as the set of the object *)
(* texts that an answer may contain.                                       *)
(***************************************************************************)
EXTENDS Integers, Sequences, FiniteSets

CONSTANT ResultObjects  \* the texts json.loads and VALIDATOR accept

(* How many objects are open after the k-th token.                         *)
Nesting(text, k) ==
  Cardinality({i \in 1..k : text[i] = "{"}) - Cardinality({i \in 1..k : text[i] = "}"})

(* What JSON says of them: each is one object, which ends where it closes. *)
ASSUME ObjectsAssumption ==
  \A o \in ResultObjects :
    /\ o # << >> /\ o[1] = "{" /\ Nesting(o, Len(o)) = 0
    /\ \A k \in 1..(Len(o) - 1) : Nesting(o, k) > 0

Least(S) == CHOOSE i \in S : \A j \in S : i <= j

Places(text, tokens) == {i \in DOMAIN text : text[i] \in tokens}

(* The fenced blocks that re.findall pairs up, as <<opening, closing>>.    *)
Blocks(text) ==
  LET fences == Places(text, {"fence"})
  IN  {b \in fences \X fences :
         /\ b[1] < b[2]
         /\ Cardinality({f \in fences : f < b[1]}) % 2 = 0
         /\ \A f \in fences : f <= b[1] \/ b[2] <= f}

(* The part of the text that is searched, as <<first, last>>: the first    *)
(* fenced block with a brace in it, or else everything.                    *)
Body(text) ==
  LET found == {b \in Blocks(text) :
                  \E i \in Places(text, {"{"}) : b[1] < i /\ i < b[2]}
  IN  IF found = {} THEN <<1, Len(text)>>
      ELSE <<Least({b[1] : b \in found}) + 1, Least({b[2] : b \in found}) - 1>>

(* depth after the character at to, counted from the one at from.          *)
Depth(text, from, to) ==
  Cardinality({i \in from..to : text[i] = "{"})
    - Cardinality({i \in from..to : text[i] \in {"}", "}s"}})

(* From the first brace to the one that closes it, counting the braces in  *)
(* strings like any other; to the end if nothing closes it.                *)
GreedySpan(text) ==
  LET opens == {i \in Body(text)[1]..Body(text)[2] : text[i] = "{"}
  IN  IF opens = {} THEN Body(text) ELSE <<Least(opens), Body(text)[2]>>
ExtractJsonObject(text) ==
  CHOOSE span \in (1..Len(text) + 1) \X (0..Len(text)) :
    \E body \in {Body(text)} :
      LET opens     == {i \in body[1]..body[2] : text[i] = "{"}
          Closed(i) == Depth(text, span[1], i) = 0
      IN  IF opens = {} THEN span = body
          ELSE /\ span[1] \in opens /\ \A i \in opens : span[1] <= i
               /\ span[2] <= body[2]
               /\ \A i \in span[1]..(span[2] - 1) : ~Closed(i)
               /\ \/ span[2] >= span[1] /\ Closed(span[2])
                  \/ span[2] = body[2]

Between(text, span) == SubSeq(text, span[1], span[2])

(* parse_llm_json returns instead of raising ValueError.                   *)
Parses(text) == Between(text, ExtractJsonObject(text)) \in ResultObjects
=============================================================================
