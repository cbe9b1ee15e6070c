------------------------- MODULE MessageIntakeProofs -------------------------
(***************************************************************************)
(* Theorems about MessageIntake, for every limit, length of the marker and *)
(* set of texts.  First what the helpers do to a text, then to a message,  *)
(* then the invariant: which message there is at which stage.              *)
(***************************************************************************)
EXTENDS MessageIntake, SequenceTheorems, WellFoundedInduction, TLAPS

Signs == Characters \cup {"mark", "note"}

(* Arithmetic: two lengths that fit together, and what is left of a limit. *)
LEMMA BothFit ==
  ASSUME NEW a \in Nat, NEW b \in Nat, NEW limit \in Nat, NEW more \in Nat,
         ~(a + b > limit)
  PROVE  a <= limit /\ a + b <= limit + more
OBVIOUS

LEMMA NothingLeft ==
  ASSUME NEW a \in Nat, NEW b \in Nat, NEW limit \in Nat, NEW cut \in Nat,
         NEW rest \in Nat, rest + cut = limit, a + b > limit, b > 0,
         a <= limit => cut = a, a > limit => cut = limit
  PROVE  b > rest
OBVIOUS

(* The marker and the note are texts of their length.                      *)
LEMMA TailType ==
  ASSUME NEW sign \in Signs, NEW k \in Nat
  PROVE  LET tail == [i \in 1..k |-> sign]
         IN  tail \in Seq(Signs) /\ Len(tail) = k
<1> DEFINE tail == [i \in 1..k |-> sign]
<1>1. tail \in [1..k -> Signs]
  OBVIOUS
<1>2. tail \in Seq(Signs)
  BY <1>1
<1>3. DOMAIN tail = 1..Len(tail) /\ Len(tail) \in Nat
  BY <1>2, LenProperties
<1>4. DOMAIN tail = 1..k
  OBVIOUS
<1> HIDE DEF tail
<1> QED
  BY <1>2, <1>3, <1>4

(* A text that is cut and given a tail.                                    *)
LEMMA CutProperties ==
  ASSUME NEW text \in Seq(Signs), NEW n \in 0..Len(text),
         NEW tail \in Seq(Signs)
  PROVE  LET new == SubSeq(text, 1, n) \o tail
         IN  /\ new \in Seq(Signs)
             /\ Len(new) = n + Len(tail)
             /\ \A i \in 1..n : new[i] = text[i]
             /\ \A i \in 1..Len(tail) : new[n + i] = tail[i]
<1> DEFINE head == SubSeq(text, 1, n)
<1>1. Len(text) \in Nat /\ \A i \in 1..n : text[i] \in Signs
  BY ElementOfSeq, LenProperties
<1>2. /\ head \in Seq(Signs)
      /\ Len(head) = n
      /\ \A i \in 1..n : head[i] = text[i]
  <2>1. n \in Int /\ 1 \in Int /\ n \in Nat
    BY <1>1
  <2>2. /\ head \in Seq(Signs)
        /\ Len(head) = IF 1 <= n THEN n - 1 + 1 ELSE 0
        /\ \A i \in 1..n - 1 + 1 : head[i] = text[1 + i - 1]
    BY <1>1, <2>1, SubSeqProperties
  <2> QED
    BY <2>1, <2>2
<1>3. /\ head \o tail \in Seq(Signs)
      /\ Len(head \o tail) = Len(head) + Len(tail)
      /\ \A i \in 1..Len(head) + Len(tail) :
           (head \o tail)[i] = IF i <= Len(head) THEN head[i] ELSE tail[i - Len(head)]
  BY <1>2, ConcatProperties
<1>4. Len(tail) \in Nat
  BY LenProperties
<1> HIDE DEF head
<1>5. \A i \in 1..n : (head \o tail)[i] = text[i]
  BY <1>1, <1>2, <1>3, <1>4
<1>6. \A i \in 1..Len(tail) : (head \o tail)[n + i] = tail[i]
  BY <1>1, <1>2, <1>3, <1>4
<1> QED
  BY <1>2, <1>3, <1>5, <1>6 DEF head

(* The first of the characters of a kind.                                  *)
LEMMA FirstOfProperties ==
  ASSUME NEW text \in Seq(Signs), NEW line, Has(line, text)
  PROVE  /\ FirstOf(line, text) \in 1..Len(text)
         /\ text[FirstOf(line, text)] = line
         /\ \A j \in 1..(FirstOf(line, text) - 1) : text[j] # line
<1>1. Len(text) \in Nat /\ DOMAIN text = 1..Len(text)
  BY LenProperties
<1> DEFINE S == {i \in 1..Len(text) : text[i] = line}
<1>2. S \subseteq Nat /\ S # {}
  BY <1>1 DEF Has
<1>3. PICK i \in S : \A j \in S : ~(<<j, i>> \in OpToRel(<, Nat))
  <2> HIDE DEF S
  <2> QED
    BY <1>2, NatLessThanWellFounded, WFMin
<1>4. \A j \in S : ~(j < i)
  BY <1>2, <1>3 DEF OpToRel
<1> DEFINE First(k) == text[k] = line /\ \A j \in 1..(k - 1) : text[j] # line
<1>5. i \in DOMAIN text /\ First(i)
  BY <1>1, <1>2, <1>4
<1>6. FirstOf(line, text) = CHOOSE k \in DOMAIN text : First(k)
  BY DEF FirstOf
<1>7. FirstOf(line, text) \in DOMAIN text /\ First(FirstOf(line, text))
  <2> HIDE DEF First
  <2> QED
    BY <1>5, <1>6
<1> QED
  BY <1>1, <1>7

(* The empty line at which a text is split, if there is one: unless the    *)
(* text mixes its line ends, there is no empty line before it.             *)
LEMMA SplitProperties ==
  ASSUME NEW text \in Seq(Signs)
  PROVE  /\ Split(text) \in 0..Len(text)
         /\ Split(text) > 0 => text[Split(text)] \in EmptyLines
         /\ Split(text) = 0 => \A i \in DOMAIN text : text[i] \notin EmptyLines
         /\ ~MixesLineEnds(text) =>
              \A i \in DOMAIN text : text[i] \in EmptyLines => i >= Split(text)
<1>1. Len(text) \in Nat /\ DOMAIN text = 1..Len(text)
  BY LenProperties
<1>2. CASE Has("crlf", text)
  <2> DEFINE k == FirstOf("crlf", text)
  <2>1. Split(text) = k
    BY <1>2 DEF Split
  <2>2. /\ k \in 1..Len(text) /\ text[k] = "crlf"
        /\ \A j \in 1..(k - 1) : text[j] # "crlf"
    BY <1>2, FirstOfProperties
  <2> HIDE DEF k
  <2>3. ASSUME ~MixesLineEnds(text), NEW i \in DOMAIN text, text[i] \in EmptyLines
        PROVE  i >= k
    BY <1>1, <2>2, <2>3 DEF MixesLineEnds, EmptyLines
  <2> QED
    BY <1>1, <2>1, <2>2, <2>3 DEF EmptyLines
<1>3. CASE ~Has("crlf", text) /\ Has("lf", text)
  <2> DEFINE k == FirstOf("lf", text)
  <2>1. Split(text) = k
    BY <1>3 DEF Split
  <2>2. /\ k \in 1..Len(text) /\ text[k] = "lf"
        /\ \A j \in 1..(k - 1) : text[j] # "lf"
    BY <1>3, FirstOfProperties
  <2> HIDE DEF k
  <2>3. ASSUME NEW i \in DOMAIN text, text[i] \in EmptyLines
        PROVE  i >= k
    BY <1>1, <1>3, <2>2, <2>3 DEF Has, EmptyLines
  <2> QED
    BY <1>1, <2>1, <2>2, <2>3 DEF EmptyLines
<1>4. CASE ~Has("crlf", text) /\ ~Has("lf", text)
  <2>1. Split(text) = 0
    BY <1>4 DEF Split
  <2>2. \A i \in DOMAIN text : text[i] \notin EmptyLines
    BY <1>4 DEF Has, EmptyLines
  <2> QED
    BY <1>1, <2>1, <2>2
<1> QED
  BY <1>2, <1>3, <1>4

(* The filters' test of a body, and a reader's: the same, unless the text  *)
(* mixes its line ends.                                                    *)
LEMMA SameControls ==
  ASSUME NEW text \in Seq(Signs)
  PROVE  /\ HasBinaryBody(text) => ControlInBody(text)
         /\ ~MixesLineEnds(text) /\ ControlInBody(text) => HasBinaryBody(text)
<1>1. Len(text) \in Nat /\ DOMAIN text = 1..Len(text)
  BY LenProperties
<1>2. ASSUME HasBinaryBody(text) PROVE ControlInBody(text)
  BY <1>1, <1>2, SplitProperties DEF HasBinaryBody, ControlInBody
<1>3. ASSUME ~MixesLineEnds(text), ControlInBody(text) PROVE HasBinaryBody(text)
  <2>1. PICK i \in DOMAIN text, j \in DOMAIN text :
          i < j /\ text[i] \in EmptyLines /\ text[j] = "control"
    BY <1>3 DEF ControlInBody
  <2>2. Split(text) > 0 /\ i >= Split(text) /\ Split(text) \in Nat
    BY <1>1, <1>3, <2>1, SplitProperties
  <2> QED
    BY <1>1, <2>1, <2>2 DEF HasBinaryBody
<1> QED
  BY <1>2, <1>3

LEMMA MarkerType == Marker \in Seq(Signs) /\ Len(Marker) = MarkerLength
<1>1. MarkerLength \in Nat /\ "mark" \in Signs
  BY IntakeAssumption DEF Signs
<1> QED
  BY <1>1, TailType DEF Marker

LEMMA NoteType == Note \in Seq(Signs) /\ Len(Note) = NoteLength
<1>1. NoteLength \in Nat /\ "note" \in Signs
  BY IntakeAssumption DEF Signs
<1> QED
  BY <1>1, TailType DEF Note

-----------------------------------------------------------------------------
(* Cutting a text, and omitting its body                                   *)

(* A text that is legible, or does not mix its line ends, stays so,        *)
(* wherever it is cut and whatever tail of marks or notes it is given.     *)
LEMMA CutKeeps ==
  ASSUME NEW text \in Seq(Signs), NEW n \in 0..Len(text),
         NEW tail \in Seq(Signs),
         \A i \in 1..Len(tail) : tail[i] \in {"mark", "note"}
  PROVE  LET new == SubSeq(text, 1, n) \o tail
         IN  /\ ~MixesLineEnds(text) => ~MixesLineEnds(new)
             /\ (\A i \in 1..n, j \in 1..n :
                   ~(i < j /\ text[i] \in EmptyLines /\ text[j] = "control"))
                  => ~ControlInBody(new)
<1> DEFINE new == SubSeq(text, 1, n) \o tail
<1>1. /\ new \in Seq(Signs)
      /\ Len(new) = n + Len(tail)
      /\ \A i \in 1..n : new[i] = text[i]
      /\ \A i \in 1..Len(tail) : new[n + i] = tail[i]
  BY CutProperties
<1> HIDE DEF new
<1>2. /\ DOMAIN new = 1..Len(new) /\ DOMAIN text = 1..Len(text)
      /\ Len(tail) \in Nat /\ n \in Nat /\ Len(text) \in Nat
  BY <1>1, LenProperties
<1>3. ASSUME NEW i \in DOMAIN new, new[i] \notin {"mark", "note"}
      PROVE  i \in 1..n /\ i \in DOMAIN text /\ new[i] = text[i]
  <2>1. CASE i <= n
    BY <1>1, <1>2, <2>1
  <2>2. CASE i > n
    <3>1. i - n \in 1..Len(tail) /\ n + (i - n) = i
      BY <1>1, <1>2, <2>2
    <3>2. new[i] = tail[i - n]
      BY <1>1, <3>1
    <3> QED
      BY <1>3, <3>1, <3>2
  <2> QED
    BY <1>2, <2>1, <2>2
<1>4. ASSUME MixesLineEnds(new) PROVE MixesLineEnds(text)
  BY <1>3, <1>4 DEF MixesLineEnds
<1>5. ASSUME ControlInBody(new)
      PROVE  \E i \in 1..n, j \in 1..n :
               i < j /\ text[i] \in EmptyLines /\ text[j] = "control"
  BY <1>3, <1>5 DEF ControlInBody, EmptyLines
<1> QED
  BY <1>4, <1>5 DEF new

(* What Truncate returns fits, or is a marker alone.                       *)
LEMMA TruncateProperties ==
  ASSUME NEW text \in Seq(Signs), NEW limit \in Nat
  PROVE  /\ Truncate(text, limit) \in Seq(Signs)
         /\ Len(text) <= limit => Truncate(text, limit) = text
         /\ Len(text) > limit =>
              Len(Truncate(text, limit)) =
                IF limit >= MarkerLength THEN limit ELSE MarkerLength
         /\ Len(text) > limit => HasMark(Truncate(text, limit))
         /\ ~MixesLineEnds(text) => ~MixesLineEnds(Truncate(text, limit))
         /\ ~ControlInBody(text) => ~ControlInBody(Truncate(text, limit))
<1>1. Len(text) \in Nat /\ DOMAIN text = 1..Len(text)
  BY LenProperties
<1>2. MarkerLength \in Nat \ {0} /\ Marker \in Seq(Signs) /\ Len(Marker) = MarkerLength
  BY MarkerType, IntakeAssumption
<1>3. CASE Len(text) <= limit
  <2>1. ~(Len(text) > limit) /\ Truncate(text, limit) = text
    BY <1>1, <1>3 DEF Truncate
  <2> QED
    BY <1>3, <2>1
<1>4. CASE Len(text) > limit
  <2> DEFINE n == OrZero(limit - MarkerLength)
             new == SubSeq(text, 1, n) \o Marker
  <2>1. n \in 0..Len(text) /\ n + MarkerLength = IF limit >= MarkerLength THEN limit ELSE MarkerLength
    BY <1>1, <1>2, <1>4 DEF OrZero
  <2>2. Truncate(text, limit) = new
    <3>1. ~(Len(text) <= limit)
      BY <1>1, <1>4
    <3> QED
      BY <3>1 DEF Truncate
  <2> HIDE DEF n
  <2>3. /\ new \in Seq(Signs)
        /\ Len(new) = n + Len(Marker)
        /\ \A i \in 1..Len(Marker) : new[n + i] = Marker[i]
    BY <1>2, <2>1, CutProperties
  <2>4. DOMAIN new = 1..Len(new)
    BY <2>3, LenProperties
  <2>5. \A i \in 1..MarkerLength : Marker[i] = "mark"
    BY DEF Marker
  <2>6. HasMark(new)
    <3>1. n + 1 \in DOMAIN new /\ new[n + 1] = "mark"
      <4> HIDE DEF new
      <4> QED
        BY <1>2, <2>1, <2>3, <2>4, <2>5
    <3> QED
      BY <3>1 DEF HasMark
  <2>7. \A i \in 1..Len(Marker) : Marker[i] \in {"mark", "note"}
    BY <1>2, <2>5
  <2>8. ~MixesLineEnds(text) => ~MixesLineEnds(new)
    BY <1>2, <2>1, <2>7, CutKeeps
  <2>9. ~ControlInBody(text) => ~ControlInBody(new)
    <3> SUFFICES ASSUME ~ControlInBody(text) PROVE ~ControlInBody(new)
      OBVIOUS
    <3>1. \A i \in 1..n, j \in 1..n :
            ~(i < j /\ text[i] \in EmptyLines /\ text[j] = "control")
      BY <1>1, <2>1 DEF ControlInBody
    <3> QED
      BY <1>2, <2>1, <2>7, <3>1, CutKeeps
  <2> HIDE DEF new
  <2> QED
    BY <1>1, <1>2, <1>4, <2>1, <2>2, <2>3, <2>6, <2>8, <2>9
<1> QED
  BY <1>1, <1>3, <1>4

(* A text that was cut to a limit is not cut again at that limit, not even *)
(* a marker that is over it.                                               *)
LEMMA TruncateTwice ==
  ASSUME NEW text \in Seq(Signs), NEW limit \in Nat
  PROVE  Truncate(Truncate(text, limit), limit) = Truncate(text, limit)
<1>1. Len(text) \in Nat /\ MarkerLength \in Nat \ {0}
      /\ Marker \in Seq(Signs) /\ Len(Marker) = MarkerLength
  BY LenProperties, MarkerType, IntakeAssumption
<1>2. CASE Len(text) <= limit
  BY <1>1, <1>2 DEF Truncate
<1>3. CASE Len(text) > limit /\ limit >= MarkerLength
  <2>1. Len(Truncate(text, limit)) = limit
    BY <1>1, <1>3, TruncateProperties
  <2>2. Len(Truncate(text, limit)) <= limit /\ Truncate(text, limit) \in Seq(Signs)
    BY <2>1, TruncateProperties
  <2> QED
    BY <2>2, TruncateProperties
<1>4. CASE Len(text) > limit /\ limit < MarkerLength
  <2>1. OrZero(limit - MarkerLength) = 0
    BY <1>1, <1>4 DEF OrZero
  <2>2. \A t \in Seq(Signs) : SubSeq(t, 1, 0) \o Marker = Marker
    <3>1. \A t \in Seq(Signs) : SubSeq(t, 1, 0) = << >>
      BY SubSeqEmpty
    <3> QED
      BY <1>1, <3>1, ConcatEmptySeq
  <2>3. Truncate(text, limit) = Marker
    BY <1>1, <1>4, <2>1, <2>2 DEF Truncate
  <2>4. Truncate(Marker, limit) = Marker
    BY <1>1, <1>4, <2>1, <2>2 DEF Truncate
  <2> QED
    BY <2>3, <2>4
<1> QED
  BY <1>1, <1>2, <1>3, <1>4

(* Neither way of omitting a body leaves control characters in it.         *)
LEMMA OmitProperties ==
  ASSUME NEW text \in Seq(Signs)
  PROVE  /\ PrepareOmits(text) \in Seq(Signs) /\ GuardOmits(text) \in Seq(Signs)
         /\ ~MixesLineEnds(text) =>
              ~MixesLineEnds(PrepareOmits(text)) /\ ~ControlInBody(GuardOmits(text))
         /\ PrepareOmits(text) = << >> => text = << >>
<1>1. Len(text) \in Nat /\ DOMAIN text = 1..Len(text)
  BY LenProperties
<1>2. /\ Split(text) \in 0..Len(text)
      /\ Split(text) = 0 => \A i \in DOMAIN text : text[i] \notin EmptyLines
      /\ ~MixesLineEnds(text) =>
           \A i \in DOMAIN text : text[i] \in EmptyLines => i >= Split(text)
  BY SplitProperties
<1>3. Note \in Seq(Signs) /\ \A i \in 1..Len(Note) : Note[i] \in {"mark", "note"}
  BY NoteType DEF Note
<1>4. WithNote(text) \in Seq(Signs)
  BY <1>2, <1>3, CutProperties DEF WithNote
<1>5. ASSUME ~MixesLineEnds(text)
      PROVE  ~MixesLineEnds(WithNote(text)) /\ ~ControlInBody(WithNote(text))
  <2>1. \A i \in 1..Split(text), j \in 1..Split(text) :
          ~(i < j /\ text[i] \in EmptyLines /\ text[j] = "control")
    BY <1>1, <1>2, <1>5
  <2> QED
    BY <1>2, <1>3, <1>5, <2>1, CutKeeps DEF WithNote
<1>6. Split(text) > 0 => WithNote(text) # << >>
  <2> SUFFICES ASSUME Split(text) > 0 PROVE WithNote(text) # << >>
    OBVIOUS
  <2>1. Len(WithNote(text)) = Split(text) + Len(Note)
    BY <1>2, <1>3, CutProperties DEF WithNote
  <2>2. Len(WithNote(text)) > 0
    BY <1>1, <1>2, <1>3, <2>1, LenProperties
  <2> QED
    BY <2>2
<1>7. ASSUME Split(text) = 0 \/ Split(text) = Len(text), ~MixesLineEnds(text)
      PROVE  ~ControlInBody(text)
  BY <1>1, <1>2, <1>7 DEF ControlInBody
<1> QED
  BY <1>1, <1>2, <1>4, <1>5, <1>6, <1>7 DEF PrepareOmits, GuardOmits

-----------------------------------------------------------------------------
(* Messages                                                                *)

LEMMA RestIsNat ==
  ASSUME NEW m \in Message
  PROVE  /\ Remaining(m) \in Nat
         /\ Len(Truncate(m.request, MaxChars)) <= MaxChars
         /\ Remaining(m) + Len(Truncate(m.request, MaxChars)) = MaxChars
<1>1. m.request \in Seq(Signs) /\ MaxChars \in Nat /\ MarkerLength \in 1..MaxChars
  BY IntakeAssumption DEF Message, Signs
<1>2. Truncate(m.request, MaxChars) \in Seq(Signs)
  BY <1>1, TruncateProperties
<1>3. Len(m.request) \in Nat /\ Len(Truncate(m.request, MaxChars)) \in Nat
  BY <1>1, <1>2, LenProperties
<1> DEFINE first == Truncate(m.request, MaxChars)
<1>4. /\ Len(m.request) <= MaxChars => first = m.request
      /\ Len(m.request) > MaxChars =>
           Len(first) = IF MaxChars >= MarkerLength THEN MaxChars ELSE MarkerLength
  BY <1>1, TruncateProperties
<1>5. Remaining(m) = OrZero(MaxChars - Len(first))
  BY DEF Remaining
<1> HIDE DEF first
<1>6. Len(first) <= MaxChars
  BY <1>1, <1>3, <1>4
<1>7. Len(first) \in Nat
  BY <1>3 DEF first
<1>8. Remaining(m) = MaxChars - Len(first)
  BY <1>1, <1>5, <1>6, <1>7 DEF OrZero
<1> QED
  BY <1>1, <1>6, <1>7, <1>8 DEF first

(* A message cut to size fits, keeps legible what is legible, flags and    *)
(* marks the texts it cuts, and would not be cut to another again.         *)
LEMMA CutToSizeProperties ==
  ASSUME NEW m \in Message
  PROVE  LET cut == CutToSize(m)
             again == CutToSize(cut)
         IN  /\ cut \in Message
             /\ Len(cut.request) <= MaxChars
             /\ Len(cut.request) + Len(cut.response) <= MaxChars + MarkerLength
             /\ ~MixesLineEnds(m.request) => ~MixesLineEnds(cut.request)
             /\ ~MixesLineEnds(m.response) => ~MixesLineEnds(cut.response)
             /\ ~ControlInBody(m.request) => ~ControlInBody(cut.request)
             /\ ~ControlInBody(m.response) => ~ControlInBody(cut.response)
             /\ cut.encoding = m.encoding /\ cut.reason = "too_large"
             /\ cut.response = m.response \/ cut.responseTruncated
             /\ cut.requestTruncated => HasMark(cut.request)
             /\ cut.responseTruncated => HasMark(cut.response)
             /\ again.request = cut.request /\ again.response = cut.response
             /\ IsTooLarge(m) /\ m.response # << >> => cut.responseTruncated
             /\ cut.response = << >> <=> m.response = << >>
<1> DEFINE cut == CutToSize(m)
           again == CutToSize(cut)
           first == Truncate(m.request, MaxChars)
           rest == Remaining(m)
           second == Truncate(m.response, rest)
<1>1. /\ m.request \in Seq(Signs) /\ m.response \in Seq(Signs)
      /\ MaxChars \in Nat /\ MarkerLength \in 1..MaxChars
  BY IntakeAssumption DEF Message, Signs
<1>2. /\ Len(m.request) \in Nat /\ Len(m.response) \in Nat
      /\ rest \in Nat /\ rest + Len(first) = MaxChars /\ Len(first) <= MaxChars
  BY <1>1, RestIsNat, LenProperties
<1>3. first \in Seq(Signs) /\ second \in Seq(Signs)
  BY <1>1, <1>2, TruncateProperties
<1>4. Len(first) \in Nat /\ Len(second) \in Nat
  BY <1>3, LenProperties
<1>5. /\ cut.request = first /\ cut.response = second
      /\ cut.encoding = m.encoding /\ cut.reason = "too_large"
      /\ cut.requestTruncated = (Len(m.request) > MaxChars)
      /\ cut.responseTruncated = (Len(m.response) > rest)
  BY DEF CutToSize, Message
<1>6. cut \in Message
  <2>1. \A long, much \in BOOLEAN :
          [m EXCEPT !.request = first, !.response = second, !.requestTruncated = long,
                    !.responseTruncated = much, !.reason = "too_large"] \in Message
    <3> HIDE DEF first, second
    <3> QED
      BY <1>3 DEF Message, Signs
  <2>2. (Len(m.request) > MaxChars) \in BOOLEAN /\ (Len(m.response) > rest) \in BOOLEAN
    OBVIOUS
  <2> QED
    BY <2>1, <2>2, Zenon DEF CutToSize
<1>7. /\ Len(m.request) <= MaxChars => first = m.request
      /\ Len(m.request) > MaxChars => Len(first) = MaxChars
      /\ Len(m.response) <= rest => second = m.response
      /\ Len(m.response) > rest =>
           Len(second) = IF rest >= MarkerLength THEN rest ELSE MarkerLength
  <2>1. /\ Len(m.request) <= MaxChars => first = m.request
        /\ Len(m.request) > MaxChars =>
             Len(first) = IF MaxChars >= MarkerLength THEN MaxChars ELSE MarkerLength
    BY <1>1, TruncateProperties
  <2>2. /\ Len(m.response) <= rest => second = m.response
        /\ Len(m.response) > rest =>
             Len(second) = IF rest >= MarkerLength THEN rest ELSE MarkerLength
    BY <1>1, <1>2, TruncateProperties
  <2> HIDE DEF first, second, rest
  <2> QED
    BY <1>1, <2>1, <2>2
<1>8. /\ ~MixesLineEnds(m.request) => ~MixesLineEnds(first)
      /\ ~MixesLineEnds(m.response) => ~MixesLineEnds(second)
      /\ ~ControlInBody(m.request) => ~ControlInBody(first)
      /\ ~ControlInBody(m.response) => ~ControlInBody(second)
  BY <1>1, <1>2, TruncateProperties
<1>9. /\ Len(m.request) > MaxChars => HasMark(first)
      /\ Len(m.response) > rest => HasMark(second)
  BY <1>1, <1>2, TruncateProperties
<1> HIDE DEF cut, first, second, rest
<1>10. cut.response = m.response \/ cut.responseTruncated
  <2>1. CASE Len(m.response) > rest
    BY <1>5, <2>1, Zenon
  <2>2. CASE ~(Len(m.response) > rest)
    BY <1>2, <1>5, <1>7, <2>2
  <2> QED
    BY <2>1, <2>2
<1>11. Truncate(cut.request, MaxChars) = cut.request
  BY <1>1, <1>5, TruncateTwice DEF first
<1>12. Remaining(cut) = rest
  <2>1. MaxChars - Len(first) = rest
    BY <1>1, <1>2, <1>4
  <2> QED
    BY <1>2, <1>5, <1>11, <2>1 DEF Remaining, OrZero
<1>13. Truncate(cut.response, rest) = cut.response
  BY <1>1, <1>2, <1>5, TruncateTwice DEF second
<1>14. again.request = cut.request /\ again.response = cut.response
  BY <1>6, <1>11, <1>12, <1>13 DEF CutToSize, Message
<1>15. IsTooLarge(m) /\ m.response # << >> => cut.responseTruncated
  <2> SUFFICES ASSUME IsTooLarge(m), m.response # << >>
               PROVE  cut.responseTruncated
    OBVIOUS
  <2>1. Len(m.response) > 0
    BY <1>1, <1>2, EmptySeq
  <2>2. Len(m.request) + Len(m.response) > MaxChars
    BY DEF IsTooLarge
  <2>3. Len(m.response) > rest
    <3>1. /\ Len(m.request) <= MaxChars => Len(first) = Len(m.request)
          /\ Len(m.request) > MaxChars => Len(first) = MaxChars
      BY <1>7
    <3> QED
      BY <1>1, <1>2, <1>4, <2>1, <2>2, <3>1, NothingLeft
  <2> QED
    BY <1>5, <2>3, Zenon
<1>16. cut.response = << >> <=> m.response = << >>
  <2>1. ASSUME m.response = << >> PROVE second = << >>
    BY <1>2, <1>7, <2>1
  <2>2. ASSUME m.response # << >> PROVE second # << >>
    <3>1. Len(m.response) > 0
      BY <1>1, <1>2, <2>2, EmptySeq
    <3>2. Len(second) > 0
      BY <1>1, <1>2, <1>7, <3>1
    <3> QED
      BY <3>2
  <2> QED
    BY <1>5, <2>1, <2>2
<1>17. /\ Len(cut.request) <= MaxChars
       /\ Len(cut.request) + Len(cut.response) <= MaxChars + MarkerLength
  BY <1>1, <1>2, <1>4, <1>5, <1>7
<1>18. /\ cut.requestTruncated => HasMark(cut.request)
       /\ cut.responseTruncated => HasMark(cut.response)
  BY <1>5, <1>9, Zenon
<1> QED
  BY <1>5, <1>6, <1>8, <1>10, <1>14, <1>15, <1>16, <1>17, <1>18 DEF cut

LEMMA RawType ==
  ASSUME TypeOK, NEW encoding \in Encodings
  PROVE  LET m == Raw(capture, encoding)
         IN  /\ m \in Message /\ m.request = capture.request
             /\ m.response = capture.response /\ m.encoding = encoding
             /\ m.reason = "none" /\ ~m.requestTruncated /\ ~m.responseTruncated
<1>1. Seq(Characters) \subseteq Seq(Signs) /\ << >> \in Seq(Signs)
  BY DEF Signs
<1>2. capture.request \in Seq(Signs) /\ capture.response \in Seq(Signs)
  BY <1>1, IntakeAssumption DEF TypeOK, Captures
<1> QED
  BY <1>2 DEF Raw, Message, Signs

LEMMA PreparedType ==
  ASSUME NEW m \in Message, NEW url \in Urls
  PROVE  Prepared(m, url) \in Message
<1>1. m.request \in Seq(Signs) /\ m.response \in Seq(Signs)
  BY DEF Message, Signs
<1>2. PrepareOmits(m.request) \in Seq(Signs) /\ PrepareOmits(m.response) \in Seq(Signs)
  BY <1>1, OmitProperties
<1>3. CutToSize(m) \in Message
  BY CutToSizeProperties
<1>4. CASE url \in StaticForJava
  BY <1>2, <1>4 DEF Prepared, Message, Signs
<1>5. CASE url \notin StaticForJava /\ IsBinary(m)
  BY <1>2, <1>5 DEF Prepared, Message, Signs
<1>6. CASE url \notin StaticForJava /\ ~IsBinary(m)
  BY <1>3, <1>6 DEF Prepared
<1> QED
  BY <1>4, <1>5, <1>6

LEMMA GuardedType ==
  ASSUME NEW m \in Message, NEW url \in Urls
  PROVE  Guarded(m, url) \in Message
<1>1. m.request \in Seq(Signs) /\ m.response \in Seq(Signs) /\ << >> \in Seq(Signs)
  BY DEF Message, Signs
<1>2. GuardOmits(m.request) \in Seq(Signs) /\ GuardOmits(m.response) \in Seq(Signs)
  BY <1>1, OmitProperties
<1>3. CutToSize(m) \in Message
  BY CutToSizeProperties
<1>4. CASE url \in StaticForPython
  BY <1>1, <1>4 DEF Guarded, Message, Signs
<1>5. CASE url \notin StaticForPython /\ (m.encoding # "utf-8" \/ IsBinary(m))
  BY <1>2, <1>5 DEF Guarded, BodiesOmitted, Message, Signs
<1>6. CASE url \notin StaticForPython /\ m.encoding = "utf-8" /\ ~IsBinary(m)
  BY <1>3, <1>6 DEF Guarded
<1> QED
  BY <1>4, <1>5, <1>6

-----------------------------------------------------------------------------
(* The invariant: which message there is at which stage                    *)

(* What the backend may be sent.                                           *)
Arrives(m) ==
  IF sender = "extension" THEN m = Prepared(Raw(capture, "utf-8"), capture.url)
  ELSE \E encoding \in Encodings : m = Raw(capture, encoding)

IInv ==
  /\ TypeOK
  /\ stage = "captured" => sender = "extension" /\ message = Raw(capture, "utf-8")
  /\ stage = "sent" => Arrives(message)
  /\ stage = "guarded" =>
       \E m \in Message : Arrives(m) /\ message = Guarded(m, capture.url)

LEMMA InitIInv == Init => IInv
<1> SUFFICES ASSUME Init PROVE IInv
  OBVIOUS
<1>1. stage \in {"captured", "sent"} /\ sender \in {"extension", "client"}
      /\ capture \in Captures
  BY DEF Init
<1>2. PICK encoding \in Encodings :
        /\ message = Raw(capture, encoding)
        /\ \/ stage = "captured" /\ sender = "extension" /\ encoding = "utf-8"
           \/ stage = "sent" /\ sender = "client"
  BY DEF Init, Encodings
<1>3. message \in Message
  <2>1. Seq(Characters) \subseteq Seq(Signs) /\ << >> \in Seq(Signs)
    BY DEF Signs
  <2>2. capture.request \in Seq(Signs) /\ capture.response \in Seq(Signs)
    BY <1>1, <2>1, IntakeAssumption DEF Captures
  <2> QED
    BY <1>2, <2>2 DEF Raw, Message, Signs
<1>4. TypeOK
  BY <1>1, <1>3 DEF TypeOK
<1> QED
  BY <1>2, <1>4 DEF IInv, Arrives

LEMMA NextIInv == IInv /\ [Next]_vars => IInv'
<1> SUFFICES ASSUME IInv, [Next]_vars PROVE IInv'
  OBVIOUS
<1>1. capture \in Captures /\ message \in Message /\ capture.url \in Urls
  BY DEF IInv, TypeOK, Captures
<1>2. CASE Prepare
  <2>1. /\ stage = "captured" /\ stage' = "sent" /\ sender' = sender /\ capture' = capture
        /\ message' = Prepared(message, capture.url)
    BY <1>2 DEF Prepare
  <2>2. sender = "extension" /\ message = Raw(capture, "utf-8")
    BY <2>1 DEF IInv
  <2>3. message' \in Message
    BY <1>1, <2>1, PreparedType
  <2>4. Arrives(message)'
    BY <2>1, <2>2 DEF Arrives
  <2> QED
    BY <2>1, <2>3, <2>4 DEF IInv, TypeOK
<1>3. CASE Guard
  <2>1. /\ stage = "sent" /\ stage' = "guarded" /\ sender' = sender /\ capture' = capture
        /\ message' = Guarded(message, capture.url)
    BY <1>3 DEF Guard
  <2>2. Arrives(message)
    BY <2>1 DEF IInv
  <2>3. message' \in Message
    BY <1>1, <2>1, GuardedType
  <2>4. \A m \in Message : Arrives(m) => Arrives(m)'
    BY <2>1 DEF Arrives
  <2> QED
    BY <1>1, <2>1, <2>2, <2>3, <2>4 DEF IInv, TypeOK
<1>4. CASE UNCHANGED vars
  BY <1>4 DEF IInv, TypeOK, Arrives, vars
<1> QED
  BY <1>2, <1>3, <1>4 DEF Next

LEMMA Invariance == Spec => []IInv
<1> QED
  BY InitIInv, NextIInv, PTL DEF Spec

(* What the guard can rely on of a message that arrives.                   *)
LEMMA ArrivesProperties ==
  ASSUME TypeOK, NEW m \in Message, Arrives(m)
  PROVE  /\ ~MixesLineEnds(capture.request) => ~MixesLineEnds(m.request)
         /\ ~MixesLineEnds(capture.response) => ~MixesLineEnds(m.response)
         /\ m.reason = "none" =>
              m.request = capture.request /\ m.response = capture.response
         /\ m.response = << >> => capture.response = << >>
         /\ sender = "extension" /\ m.reason = "none" =>
              /\ capture.url \notin StaticForJava /\ m.encoding = "utf-8"
              /\ ~IsBinary(m) /\ ~IsTooLarge(m)
         /\ m.reason = "too_large" =>
              /\ capture.url \notin StaticForJava /\ m.encoding = "utf-8"
              /\ \E raw \in Message :
                   /\ raw.request = capture.request /\ raw.response = capture.response
                   /\ ~IsBinary(raw) /\ m = CutToSize(raw)
<1> DEFINE raw == Raw(capture, "utf-8")
<1>1. /\ capture.url \in Urls /\ sender \in {"extension", "client"}
      /\ "utf-8" \in Encodings
  BY DEF TypeOK, Captures, Encodings
<1>2. CASE sender = "client"
  <2>1. PICK encoding \in Encodings : m = Raw(capture, encoding)
    BY <1>2 DEF Arrives
  <2>2. m.reason = "none" /\ m.request = capture.request /\ m.response = capture.response
    BY <2>1, RawType
  <2> QED
    BY <1>2, <2>2
<1>3. CASE sender = "extension"
  <2>1. m = Prepared(raw, capture.url)
    BY <1>3 DEF Arrives
  <2>2. /\ raw \in Message /\ raw.request = capture.request
        /\ raw.response = capture.response /\ raw.encoding = "utf-8"
        /\ raw.reason = "none"
    BY <1>1, RawType
  <2>3. raw.request \in Seq(Signs) /\ raw.response \in Seq(Signs)
    BY <2>2 DEF Message, Signs
  <2>4. /\ ~MixesLineEnds(raw.request) => ~MixesLineEnds(PrepareOmits(raw.request))
        /\ ~MixesLineEnds(raw.response) => ~MixesLineEnds(PrepareOmits(raw.response))
        /\ PrepareOmits(raw.response) = << >> => raw.response = << >>
    BY <2>3, OmitProperties
  <2> HIDE DEF raw
  <2>5. CASE capture.url \in StaticForJava
    <3>1. m = [raw EXCEPT !.response = PrepareOmits(raw.response),
                          !.reason = "static_resource"]
      BY <2>1, <2>5 DEF Prepared
    <3>2. /\ m.reason = "static_resource" /\ m.request = raw.request
          /\ m.response = PrepareOmits(raw.response)
      BY <2>2, <3>1 DEF Message
    <3> QED
      BY <2>2, <2>4, <3>2
  <2>6. CASE capture.url \notin StaticForJava /\ IsBinary(raw)
    <3>1. m = [raw EXCEPT !.request = PrepareOmits(raw.request),
                          !.response = PrepareOmits(raw.response), !.reason = "binary"]
      BY <2>1, <2>6 DEF Prepared
    <3>2. /\ m.reason = "binary" /\ m.request = PrepareOmits(raw.request)
          /\ m.response = PrepareOmits(raw.response)
      BY <2>2, <3>1 DEF Message
    <3> QED
      BY <2>2, <2>4, <3>2
  <2>7. CASE capture.url \notin StaticForJava /\ ~IsBinary(raw) /\ IsTooLarge(raw)
    <3>1. m = CutToSize(raw)
      BY <2>1, <2>7 DEF Prepared
    <3>2. /\ m.encoding = raw.encoding /\ m.reason = "too_large"
          /\ ~MixesLineEnds(raw.request) => ~MixesLineEnds(m.request)
          /\ ~MixesLineEnds(raw.response) => ~MixesLineEnds(m.response)
          /\ m.response = << >> <=> raw.response = << >>
      BY <2>2, <3>1, CutToSizeProperties
    <3> QED
      BY <2>2, <2>7, <3>1, <3>2
  <2>8. CASE capture.url \notin StaticForJava /\ ~IsBinary(raw) /\ ~IsTooLarge(raw)
    <3>1. m = raw
      BY <2>1, <2>8 DEF Prepared
    <3> QED
      BY <2>2, <2>8, <3>1
  <2> QED
    BY <2>5, <2>6, <2>7, <2>8
<1> QED
  BY <1>1, <1>2, <1>3
-----------------------------------------------------------------------------
(* The theorems                                                            *)

(* Every message is well-formed at every stage.                            *)
THEOREM TypeCorrect == Spec => []TypeOK
<1> QED
  BY Invariance, PTL DEF IInv

(* What the guard does to a message that arrives, one case a step.         *)
LEMMA Cases ==
  ASSUME NEW m \in Message, NEW url \in Urls
  PROVE  \/ /\ url \in StaticForPython
            /\ Guarded(m, url) = [m EXCEPT !.response = << >>, !.reason = "static_resource"]
         \/ /\ url \notin StaticForPython /\ (m.encoding # "utf-8" \/ IsBinary(m))
            /\ Guarded(m, url) = BodiesOmitted(m)
         \/ /\ url \notin StaticForPython /\ m.encoding = "utf-8" /\ ~IsBinary(m) /\ IsTooLarge(m)
            /\ Guarded(m, url) = CutToSize(m)
         \/ /\ url \notin StaticForPython /\ m.encoding = "utf-8" /\ ~IsBinary(m) /\ ~IsTooLarge(m)
            /\ Guarded(m, url) = m
<1>1. CASE url \in StaticForPython
  BY <1>1 DEF Guarded
<1>2. CASE url \notin StaticForPython /\ (m.encoding # "utf-8" \/ IsBinary(m))
  BY <1>2 DEF Guarded
<1>3. CASE url \notin StaticForPython /\ m.encoding = "utf-8" /\ ~IsBinary(m)
  BY <1>3 DEF Guarded
<1> QED
  BY <1>1, <1>2, <1>3

LEMMA OmittedProperties ==
  ASSUME NEW m \in Message
  PROVE  LET omitted == BodiesOmitted(m)
         IN  /\ omitted.reason = "binary"
             /\ ~MixesLineEnds(m.request) => ~ControlInBody(omitted.request)
             /\ ~MixesLineEnds(m.response) => ~ControlInBody(omitted.response)
<1>1. m.request \in Seq(Signs) /\ m.response \in Seq(Signs)
  BY DEF Message, Signs
<1>2. /\ BodiesOmitted(m).request = GuardOmits(m.request)
      /\ BodiesOmitted(m).response = GuardOmits(m.response)
      /\ BodiesOmitted(m).reason = "binary"
  BY DEF BodiesOmitted, Message
<1> QED
  BY <1>1, <1>2, OmitProperties

(* What reaches a prompt with its texts fits the limit and one marker,     *)
(* whatever the limit and however it falls on the marker.                  *)
THEOREM Fits == Spec => []WithinLimit
<1>1. IInv => WithinLimit
  <2> SUFFICES ASSUME IInv, stage = "guarded", message.reason \in {"none", "too_large"}
               PROVE  /\ Len(message.request) <= MaxChars
                      /\ Len(message.request) + Len(message.response)
                           <= MaxChars + MarkerLength
    BY DEF WithinLimit
  <2>1. capture.url \in Urls /\ MaxChars \in Nat /\ MarkerLength \in Nat
    BY IntakeAssumption DEF IInv, TypeOK, Captures
  <2>2. PICK m \in Message : message = Guarded(m, capture.url)
    BY DEF IInv
  <2>3. CASE message = CutToSize(m)
    BY <2>3, CutToSizeProperties
  <2>4. CASE message = m /\ ~IsTooLarge(m)
    <3>1. Len(m.request) \in Nat /\ Len(m.response) \in Nat
      <4>1. m.request \in Seq(Signs) /\ m.response \in Seq(Signs)
        BY DEF Message, Signs
      <4> QED
        BY <4>1, LenProperties
    <3>2. ~(Len(m.request) + Len(m.response) > MaxChars)
      BY <2>4 DEF IsTooLarge
    <3>3. /\ Len(m.request) <= MaxChars
          /\ Len(m.request) + Len(m.response) <= MaxChars + MarkerLength
      BY <2>1, <3>1, <3>2, BothFit
    <3> QED
      BY <2>4, <3>3
  <2>5. CASE message = [m EXCEPT !.response = << >>, !.reason = "static_resource"]
    BY <2>5 DEF Message
  <2>6. CASE message = BodiesOmitted(m)
    BY <2>6, OmittedProperties
  <2> QED
    BY <2>1, <2>2, <2>3, <2>4, <2>5, <2>6, Cases
<1> QED
  BY <1>1, Invariance, PTL

(* No control character after an empty line reaches a prompt by either     *)
(* filter or by both, in a text that does not mix its line ends; static    *)
(* resources excepted.                                                     *)
THEOREM Legible == Spec => []NothingBinary
<1>1. IInv => NothingBinary
  <2> SUFFICES ASSUME IInv, stage = "guarded", message.reason # "static_resource"
               PROVE  /\ ~MixesLineEnds(capture.request) => ~ControlInBody(message.request)
                      /\ ~MixesLineEnds(capture.response) => ~ControlInBody(message.response)
    BY DEF NothingBinary
  <2>1. capture.url \in Urls /\ TypeOK
    BY DEF IInv, TypeOK, Captures
  <2>2. PICK m \in Message : Arrives(m) /\ message = Guarded(m, capture.url)
    BY DEF IInv
  <2>3. /\ ~MixesLineEnds(capture.request) => ~MixesLineEnds(m.request)
        /\ ~MixesLineEnds(capture.response) => ~MixesLineEnds(m.response)
    BY <2>1, <2>2, ArrivesProperties
  <2>4. ASSUME ~IsBinary(m)
        PROVE  /\ ~MixesLineEnds(m.request) => ~ControlInBody(m.request)
               /\ ~MixesLineEnds(m.response) => ~ControlInBody(m.response)
    <3>1. m.request \in Seq(Signs) /\ m.response \in Seq(Signs)
      BY DEF Message, Signs
    <3> QED
      BY <2>4, <3>1, SameControls DEF IsBinary
  <2>5. CASE message = CutToSize(m) /\ ~IsBinary(m)
    <3>1. /\ ~ControlInBody(m.request) => ~ControlInBody(message.request)
          /\ ~ControlInBody(m.response) => ~ControlInBody(message.response)
      BY <2>5, CutToSizeProperties
    <3> QED
      BY <2>3, <2>4, <2>5, <3>1
  <2>6. CASE message = m /\ ~IsBinary(m)
    BY <2>3, <2>4, <2>6
  <2>7. CASE message = [m EXCEPT !.response = << >>, !.reason = "static_resource"]
    BY <2>7 DEF Message
  <2>8. CASE message = BodiesOmitted(m)
    BY <2>3, <2>8, OmittedProperties
  <2> QED
    BY <2>1, <2>2, <2>5, <2>6, <2>7, <2>8, Cases
<1> QED
  BY <1>1, Invariance, PTL

(* A text changed on the way has a reason, a cut response its flag, and a  *)
(* text flagged as cut to size the marker.                                 *)
THEOREM Explained == Spec => []ChangesAreExplained
<1>1. IInv => ChangesAreExplained
  <2> SUFFICES ASSUME IInv, stage = "guarded"
      PROVE  /\ \/ message.reason # "none"
                \/ message.request = capture.request /\ message.response = capture.response
             /\ message.reason = "too_large" =>
                  /\ message.response = capture.response \/ message.responseTruncated
                  /\ message.requestTruncated => HasMark(message.request)
                  /\ message.responseTruncated => HasMark(message.response)
    BY DEF ChangesAreExplained
  <2>1. capture.url \in Urls /\ TypeOK
    BY DEF IInv, TypeOK, Captures
  <2>2. PICK m \in Message : Arrives(m) /\ message = Guarded(m, capture.url)
    BY DEF IInv
  <2>3. /\ m.reason = "none" =>
              m.request = capture.request /\ m.response = capture.response
        /\ m.response = << >> => capture.response = << >>
        /\ m.reason = "too_large" =>
              \E raw \in Message : raw.response = capture.response /\ m = CutToSize(raw)
    BY <2>1, <2>2, ArrivesProperties
  <2>4. CASE message = m
    <3>1. CASE m.reason = "too_large"
      <4>1. PICK raw \in Message : raw.response = capture.response /\ m = CutToSize(raw)
        BY <2>3, <3>1
      <4>2. /\ m.response = raw.response \/ m.responseTruncated
            /\ m.requestTruncated => HasMark(m.request)
            /\ m.responseTruncated => HasMark(m.response)
        BY <4>1, CutToSizeProperties
      <4> QED
        BY <2>4, <3>1, <4>1, <4>2
    <3> QED
      BY <2>3, <2>4, <3>1
  <2>5. CASE message = [m EXCEPT !.response = << >>, !.reason = "static_resource"]
    <3>1. message.reason = "static_resource"
      BY <2>5 DEF Message
    <3> QED
      BY <3>1
  <2>6. CASE message = BodiesOmitted(m)
    <3>1. message.reason = "binary"
      BY <2>6, OmittedProperties
    <3> QED
      BY <3>1
  <2>7. CASE message = CutToSize(m) /\ IsTooLarge(m)
    <3>1. /\ message.reason = "too_large"
          /\ message.requestTruncated => HasMark(message.request)
          /\ message.responseTruncated => HasMark(message.response)
          /\ m.response # << >> => message.responseTruncated
          /\ m.response = << >> => message.response = << >>
      BY <2>7, CutToSizeProperties
    <3>2. message.response = capture.response \/ message.responseTruncated
      BY <2>3, <3>1
    <3> QED
      BY <3>1, <3>2
  <2> QED
    BY <2>1, <2>2, <2>4, <2>5, <2>6, <2>7, Cases
<1> QED
  BY <1>1, Invariance, PTL

(* The guard leaves what the extension has cut, or let pass, as it is,     *)
(* but for the two differences of the filters that GuardIsStable names.    *)
THEOREM Stable == Spec => GuardIsStable
<1>1. ASSUME IInv, [Next]_vars, stage = "sent", sender = "extension",
             capture.url # "python",
             \/ message.reason = "none"
             \/ /\ message.reason = "too_large"
                /\ ~MixesLineEnds(capture.request) /\ ~MixesLineEnds(capture.response)
      PROVE  message'.request = message.request /\ message'.response = message.response
  <2>1. TypeOK /\ message \in Message /\ Arrives(message) /\ capture.url \in Urls
    BY <1>1 DEF IInv, TypeOK, Captures
  <2>2. /\ capture.url \notin StaticForJava /\ message.encoding = "utf-8"
        /\ message.reason = "none" => ~IsBinary(message) /\ ~IsTooLarge(message)
        /\ message.reason = "too_large" =>
             \E raw \in Message :
               /\ raw.request = capture.request /\ raw.response = capture.response
               /\ ~IsBinary(raw) /\ message = CutToSize(raw)
    BY <1>1, <2>1, ArrivesProperties
  <2>3. capture.url \notin StaticForPython
    BY <1>1, <2>1, <2>2 DEF Urls, StaticForJava, StaticForPython
  <2>4. ~IsBinary(message)
    <3>1. CASE message.reason = "none"
      BY <2>2, <3>1
    <3>2. CASE message.reason = "too_large"
      <4>1. PICK raw \in Message :
              /\ raw.request = capture.request /\ raw.response = capture.response
              /\ ~IsBinary(raw) /\ message = CutToSize(raw)
        BY <2>2, <3>2
      <4>2. /\ raw.request \in Seq(Signs) /\ raw.response \in Seq(Signs)
            /\ message.request \in Seq(Signs) /\ message.response \in Seq(Signs)
        BY <2>1 DEF Message, Signs
      <4>3. ~MixesLineEnds(raw.request) /\ ~MixesLineEnds(raw.response)
        BY <1>1, <3>2, <4>1
      <4>4. ~ControlInBody(raw.request) /\ ~ControlInBody(raw.response)
        BY <4>1, <4>2, <4>3, SameControls DEF IsBinary
      <4>5. ~ControlInBody(message.request) /\ ~ControlInBody(message.response)
        BY <4>1, <4>4, CutToSizeProperties
      <4> QED
        BY <4>2, <4>5, SameControls DEF IsBinary
    <3> QED
      BY <1>1, <3>1, <3>2
  <2>5. CASE Guard
    <3>1. message' = Guarded(message, capture.url)
      BY <2>5 DEF Guard
    <3>2. CASE message' = message
      BY <3>2
    <3>3. CASE message' = CutToSize(message) /\ IsTooLarge(message)
      <4>1. PICK raw \in Message : message = CutToSize(raw)
        BY <1>1, <2>2, <3>3
      <4> QED
        BY <3>3, <4>1, CutToSizeProperties
    <3> QED
      BY <2>1, <2>2, <2>3, <2>4, <3>1, <3>2, <3>3, Cases
  <2>6. CASE Prepare
    BY <1>1, <2>6 DEF Prepare
  <2>7. CASE UNCHANGED vars
    BY <2>7 DEF vars
  <2> QED
    BY <1>1, <2>5, <2>6, <2>7 DEF Next
<1> QED
  BY <1>1, Invariance, PTL DEF Spec, GuardIsStable
=============================================================================
