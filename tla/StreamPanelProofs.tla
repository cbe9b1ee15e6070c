--------------------------- MODULE StreamPanelProofs ---------------------------
(***************************************************************************)
(* Theorems about StreamPanel, for any number of requests and any answers: *)
(* how much a cancelled request still says, and that a request which is on *)
(* its own is shown as it went.                                            *)
(***************************************************************************)
EXTENDS StreamPanel, SequenceTheorems, FiniteSetTheorems, WellFoundedInduction, TLAPS

Chunks == [what : {"content", "result", "error"}, of : Requests]

Work == [kind : {"stream", "test"},
         thread : {"new", "queued", "reading", "holding", "returned", "threw", "through"},
         future : {"pending", "cancelled", "done", "failed"},
         answer : Seq({"content", "result"}), read : Nat,
         said : Seq(Chunks), taken : Nat, heard : Nat]

(* A thread that reads has said all it has read, one that holds an event   *)
(* all but that, and one that has not begun nothing.                       *)
KeepsPace(w) ==
  /\ w.read <= Len(w.answer)
  /\ w.kind = "test" => w.answer = <<"result">>
  /\ w.thread = "new" => w.future = "pending"
  /\ w.thread \in {"new", "queued"} => w.read = 0 /\ w.said = << >>
  /\ w.thread = "reading" => Len(w.said) = w.read
  /\ w.thread = "holding" => Len(w.said) + 1 = w.read

(* A cancelled thread that holds an event has not spoken since, one that   *)
(* reads on at most once.                                                  *)
FallsSilent(w) ==
  w.future = "cancelled" =>
    /\ Len(w.said) <= w.heard + 2
    /\ w.thread = "holding" => Len(w.said) <= w.heard
    /\ w.thread = "reading" => Len(w.said) <= w.heard + 1

(* What is said is said by the request itself, as far as it has read, with *)
(* all content before what replaces it; a thread that is through is done   *)
(* or was cancelled, and one that threw has said nothing.                  *)
Spoken(r, w) ==
  /\ w.taken <= Len(w.said)
  /\ \A i \in 1..Len(w.said) : w.said[i].of = r
  /\ \A i, j \in 1..Len(w.said) : i < j /\ IsContent(w.said[j]) => IsContent(w.said[i])
  /\ w.thread \in {"reading", "holding"} =>
       \A i \in 1..Len(w.said) : w.said[i].what = w.answer[i]
  /\ \A i \in 1..Len(w.answer) : w.answer[i] = "result" => i = Len(w.answer)
  /\ w.thread = "through" => w.future # "pending"
  /\ w.thread # "through" => w.future \in {"pending", "cancelled"}
  /\ w.thread = "threw" \/ w.future = "failed" => w.said = << >>

PanelInv ==
  /\ work \in [Requests -> Work]
  /\ active \in Requests \cup {None}
  /\ active # None => work[active].thread # "new"
  /\ \A r \in Requests :
       KeepsPace(work[r]) /\ FallsSilent(work[r]) /\ Spoken(r, work[r])

-----------------------------------------------------------------------------
(* One worker changes, and keeps what the invariant says of it.            *)

LEMMA OneChanges ==
  ASSUME PanelInv, NEW r \in Requests, NEW new \in Work, Becomes(r, new),
         new.thread # "new", KeepsPace(new), FallsSilent(new), Spoken(r, new),
         active' = active
  PROVE  PanelInv'
<1>1. /\ work' \in [Requests -> Work] /\ work'[r] = new
      /\ \A q \in Requests : q # r => work'[q] = work[q]
  BY DEF Becomes, PanelInv
<1>2. active' # None => work'[active'].thread # "new"
  <2>1. CASE active = r
    BY <2>1, <1>1
  <2>2. CASE active # r
    BY <2>2, <1>1 DEF PanelInv
  <2> QED
    BY <2>1, <2>2
<1>3. \A q \in Requests :
        KeepsPace(work'[q]) /\ FallsSilent(work'[q]) /\ Spoken(q, work'[q])
  BY <1>1 DEF PanelInv
<1> QED
  BY <1>1, <1>2, <1>3 DEF PanelInv

LEMMA Types ==
  ASSUME NEW w \in Work
  PROVE  /\ Len(w.said) \in Nat /\ Len(w.answer) \in Nat
         /\ w.read \in Nat /\ w.heard \in Nat /\ w.taken \in Nat
BY LenProperties DEF Work

-----------------------------------------------------------------------------
(* The steps of a thread                                                   *)

LEMMA BeginInv == ASSUME PanelInv, NEW r \in Requests, Begin(r) PROVE PanelInv'
<1> DEFINE new == [work[r] EXCEPT !.thread = "reading"]
<1>1. work[r] \in Work /\ KeepsPace(work[r]) /\ work[r].thread = "queued"
      /\ work[r].future = "pending" /\ Spoken(r, work[r])
  BY DEF PanelInv, Begin, Goes
<1>2. new \in Work /\ Becomes(r, new) /\ active' = active
  BY <1>1 DEF Begin, Goes, OnlyWork, PanelAlone, Work
<1>3. /\ new.thread = "reading"
      /\ \A f \in {"kind", "future", "answer", "read", "said", "taken", "heard"} :
           new[f] = work[r][f]
  BY <1>1 DEF Work
<1>4. work[r].read = 0 /\ work[r].said = << >> /\ Len(<< >>) = 0
  BY <1>1, EmptySeq DEF KeepsPace
<1>5. KeepsPace(new) /\ FallsSilent(new) /\ new.thread # "new"
  BY <1>1, <1>3, <1>4, Types DEF KeepsPace, FallsSilent
<1>6. Spoken(r, new)
  BY <1>1, <1>3, <1>4 DEF Spoken
<1> HIDE DEF new
<1> QED
  BY <1>2, <1>5, <1>6, OneChanges

LEMMA NeverBeginsInv ==
  ASSUME PanelInv, NEW r \in Requests, NeverBegins(r) PROVE PanelInv'
<1> DEFINE new == [work[r] EXCEPT !.thread = "through"]
<1>1. /\ work[r] \in Work /\ KeepsPace(work[r]) /\ FallsSilent(work[r])
      /\ Spoken(r, work[r]) /\ work[r].future = "cancelled"
  BY DEF PanelInv, NeverBegins
<1>2. new \in Work /\ Becomes(r, new) /\ active' = active
  BY <1>1 DEF NeverBegins, Goes, OnlyWork, PanelAlone, Work
<1>3. /\ new.thread = "through"
      /\ \A f \in {"kind", "future", "answer", "read", "said", "taken", "heard"} :
           new[f] = work[r][f]
  BY <1>1 DEF Work
<1>5. KeepsPace(new) /\ FallsSilent(new) /\ new.thread # "new"
  BY <1>1, <1>3, Types DEF KeepsPace, FallsSilent
<1>6. Spoken(r, new)
  BY <1>1, <1>3 DEF Spoken
<1> HIDE DEF new
<1> QED
  BY <1>2, <1>5, <1>6, OneChanges

(* A test reads one answer, so it has said nothing before.                 *)
LEMMA ReadInv == ASSUME PanelInv, NEW r \in Requests, Read(r) PROVE PanelInv'
<1> DEFINE w   == work[r]
           new == [w EXCEPT !.read = w.read + 1, !.thread = "holding"]
<1>1. /\ w \in Work /\ KeepsPace(w) /\ FallsSilent(w)
      /\ w.thread = "reading" /\ w.read < Len(w.answer) /\ ~Interrupted(r)
      /\ Spoken(r, w)
  BY DEF PanelInv, Read, More
<1>0. w.read + 1 \in Nat
  BY <1>1, Types
<1>2. new \in Work
  BY <1>0, <1>1 DEF Work
<1>7. Becomes(r, new) /\ active' = active
  BY DEF Read, OnlyWork, PanelAlone
<1>3. /\ new.thread = "holding" /\ new.read = w.read + 1
      /\ \A f \in {"kind", "future", "answer", "said", "taken", "heard"} : new[f] = w[f]
  BY <1>1 DEF Work
<1>4. KeepsPace(new)
  BY <1>1, <1>3, Types DEF KeepsPace
<1>5. ASSUME w.future = "cancelled" PROVE Len(w.said) = 0
  <2>1. w.kind = "test"
    BY <1>1, <1>5 DEF Interrupted, Work
  <2>2. w.answer = <<"result">> /\ Len(w.said) = w.read
    BY <2>1, <1>1 DEF KeepsPace
  <2>3. Len(<<"result">>) = 1
    OBVIOUS
  <2> QED
    BY <2>2, <2>3, <1>1, Types
<1>6. FallsSilent(new)
  BY <1>1, <1>3, <1>5, Types DEF FallsSilent
<1>8. Spoken(r, new)
  BY <1>1, <1>3 DEF Spoken
<1> HIDE DEF new
<1> QED
  BY <1>2, <1>3, <1>4, <1>6, <1>7, <1>8, OneChanges

(* A worker that says something has said one chunk more.                   *)
LEMMA SpeaksInv ==
  ASSUME PanelInv, NEW r \in Requests,
         NEW what \in {"content", "result", "error"}, NEW thread,
         Says(r, what, thread),
         \/ /\ work[r].thread = "holding" /\ thread = "reading"
            /\ what = work[r].answer[work[r].read]
         \/ work[r].thread = "reading" /\ thread = "returned" /\ what = "error"
  PROVE  PanelInv'
<1> DEFINE w   == work[r]
           new == [work[r] EXCEPT !.said = Append(@, Text(what, r)), !.thread = thread]
<1>1. w \in Work /\ KeepsPace(w) /\ FallsSilent(w) /\ Spoken(r, w)
  BY DEF PanelInv
<1>7. /\ Append(w.said, Text(what, r)) \in Seq(Chunks)
      /\ Len(Append(w.said, Text(what, r))) = Len(w.said) + 1
      /\ Append(w.said, Text(what, r))[Len(w.said) + 1] = Text(what, r)
      /\ \A i \in 1..Len(w.said) : Append(w.said, Text(what, r))[i] = w.said[i]
  <2>1. w.said \in Seq(Chunks) /\ Text(what, r) \in Chunks
    BY <1>1 DEF Work, Chunks, Text
  <2> QED
    BY <2>1, AppendProperties
<1>8. Becomes(r, new) /\ active' = active
  BY DEF Says, PanelAlone
<1>2. /\ new.said \in Seq(Chunks) /\ Len(new.said) = Len(w.said) + 1
      /\ new.said[Len(w.said) + 1] = Text(what, r)
      /\ \A i \in 1..Len(w.said) : new.said[i] = w.said[i]
      /\ new.thread = thread
      /\ \A f \in {"kind", "future", "answer", "read", "taken", "heard"} : new[f] = w[f]
  BY <1>1, <1>7 DEF Work
<1>3. new \in Work
  BY <1>1, <1>2 DEF Work
<1>4. KeepsPace(new)
  BY <1>1, <1>2, Types DEF KeepsPace
<1>5. FallsSilent(new)
  BY <1>1, <1>2, Types DEF FallsSilent
<1>6. new.thread # "new"
  BY <1>2
<1>9. Spoken(r, new)
  <2> DEFINE n == Len(w.said)
  <2>1. n \in Nat /\ w.taken \in Nat /\ Len(w.answer) \in Nat
    BY <1>1, Types
  <2> HIDE DEF new, w, n
  <2>2. \A i \in 1..(n + 1) : i \in 1..n \/ i = n + 1
    BY <2>1
  <2>3. /\ Len(new.said) = n + 1 /\ new.said[n + 1] = Text(what, r)
        /\ \A i \in 1..n : new.said[i] = w.said[i]
    BY <1>2 DEF n
  <2>4. \A i \in 1..(n + 1) : new.said[i].of = r
    <3>1. \A i \in 1..n : w.said[i].of = r
      BY <1>1 DEF Spoken, n
    <3> QED
      BY <2>2, <2>3, <3>1 DEF Text
  <2>5. w.thread \in {"reading", "holding"} /\ \A i \in 1..n : w.said[i].what = w.answer[i]
    <3>1. w.thread \in {"reading", "holding"}
      BY DEF w
    <3> QED
      BY <1>1, <3>1 DEF Spoken, n
  <2>6. IsContent(Text(what, r)) =>
          \A i \in 1..n : IsContent(w.said[i])
    <3> SUFFICES ASSUME what = "content", NEW i \in 1..n PROVE w.said[i].what = "content"
      BY DEF IsContent, Text
    <3>1. w.read = n + 1 /\ w.answer[n + 1] = "content" /\ n + 1 <= Len(w.answer)
      <4>1. w.thread = "holding" /\ what = w.answer[w.read]
        BY DEF w
      <4> QED
        BY <1>1, <2>1, <4>1 DEF KeepsPace, n
    <3>2. i \in 1..Len(w.answer) /\ i # Len(w.answer)
      BY <2>1, <3>1
    <3>3. w.answer[i] # "result"
      BY <1>1, <3>2 DEF Spoken
    <3>4. w.answer[i] \in {"content", "result"}
      BY <1>1, <3>2, ElementOfSeq DEF Work
    <3> QED
      BY <2>5, <3>3, <3>4
  <2>7. \A i, j \in 1..(n + 1) :
          i < j /\ IsContent(new.said[j]) => IsContent(new.said[i])
    <3> SUFFICES ASSUME NEW i \in 1..(n + 1), NEW j \in 1..(n + 1), i < j,
                        IsContent(new.said[j])
                 PROVE  IsContent(new.said[i])
      OBVIOUS
    <3>1. i \in 1..n
      BY <2>1
    <3>2. CASE j = n + 1
      BY <2>3, <2>6, <3>1, <3>2
    <3>3. CASE j \in 1..n
      <4>1. \A k, l \in 1..n : k < l /\ IsContent(w.said[l]) => IsContent(w.said[k])
        BY <1>1 DEF Spoken, n
      <4> QED
        BY <2>3, <3>1, <3>3, <4>1
    <3> QED
      BY <2>2, <3>2, <3>3
  <2>8. new.thread \in {"reading", "holding"} =>
          \A i \in 1..(n + 1) : new.said[i].what = w.answer[i]
    <3> SUFFICES ASSUME thread = "reading", NEW i \in 1..(n + 1)
                 PROVE  new.said[i].what = w.answer[i]
      BY <1>2 DEF w
    <3>1. CASE i \in 1..n
      BY <2>3, <2>5, <3>1
    <3>2. CASE i = n + 1
      <4>1. w.thread = "holding" /\ what = w.answer[w.read]
        BY DEF w
      <4>2. w.read = n + 1
        BY <1>1, <2>1, <4>1 DEF KeepsPace, n
      <4> QED
        BY <2>3, <3>2, <4>1, <4>2 DEF Text
    <3> QED
      BY <2>2, <3>1, <3>2
  <2>9. w.taken <= n + 1
    BY <1>1, <2>1 DEF Spoken, n
  <2>10. new.thread \notin {"threw", "through"} /\ new.future \in {"pending", "cancelled"}
    BY <1>1, <1>2, <2>5 DEF Spoken
  <2> QED
    BY <1>1, <1>2, <2>3, <2>4, <2>7, <2>8, <2>9, <2>10 DEF Spoken
<1> HIDE DEF new
<1> QED
  BY <1>3, <1>4, <1>5, <1>6, <1>8, <1>9, OneChanges

LEMMA StopsInv ==
  ASSUME PanelInv, NEW r \in Requests,
         NEW thread \in {"returned", "threw"},
         thread = "threw" => work[r].read = 0,
         Goes(r, "reading", thread), OnlyWork
  PROVE  PanelInv'
<1> DEFINE new == [work[r] EXCEPT !.thread = thread]
<1>1. /\ work[r] \in Work /\ KeepsPace(work[r]) /\ FallsSilent(work[r])
      /\ Spoken(r, work[r]) /\ work[r].thread = "reading"
  BY DEF PanelInv, Goes
<1>2. new \in Work /\ Becomes(r, new) /\ active' = active
  BY <1>1 DEF Goes, OnlyWork, PanelAlone, Work
<1>3. /\ new.thread = thread
      /\ \A f \in {"kind", "future", "answer", "read", "said", "taken", "heard"} :
           new[f] = work[r][f]
  BY <1>1 DEF Work
<1>5. KeepsPace(new) /\ FallsSilent(new) /\ new.thread # "new"
  BY <1>1, <1>3, Types DEF KeepsPace, FallsSilent
<1>6. Spoken(r, new)
  <2>1. thread = "threw" => work[r].said = << >>
    <3>1. thread = "threw" => Len(work[r].said) = 0
      BY <1>1 DEF KeepsPace
    <3>2. work[r].said \in Seq(Chunks)
      BY <1>1 DEF Work
    <3> QED
      BY <3>1, <3>2, EmptySeq
  <2> QED
    BY <1>1, <1>3, <2>1 DEF Spoken
<1> HIDE DEF new
<1> QED
  BY <1>2, <1>5, <1>6, OneChanges

LEMMA CompletesInv ==
  ASSUME PanelInv, NEW r \in Requests, Completes(r) PROVE PanelInv'
<1> DEFINE w   == work[r]
           new == IF w.future = "cancelled" THEN [w EXCEPT !.thread = "through"]
                  ELSE [w EXCEPT !.thread = "through",
                          !.future = IF w.thread = "threw" THEN "failed" ELSE "done"]
<1>1. /\ w \in Work /\ KeepsPace(w) /\ FallsSilent(w) /\ Spoken(r, w)
      /\ w.thread \in {"returned", "threw"}
  BY DEF PanelInv, Completes
<1>2. Becomes(r, new) /\ active' = active
  BY DEF Completes, PanelAlone
<1>3. new \in Work /\ new.thread = "through"
      /\ (new.future = "cancelled" => w.future = "cancelled")
      /\ new.future # "pending" /\ (new.future = "failed" => w.thread = "threw")
      /\ \A f \in {"kind", "answer", "read", "said", "taken", "heard"} : new[f] = w[f]
  BY <1>1 DEF Work
<1>5. KeepsPace(new) /\ FallsSilent(new)
  BY <1>1, <1>3, Types DEF KeepsPace, FallsSilent
<1>6. Spoken(r, new)
  BY <1>1, <1>3 DEF Spoken
<1> HIDE DEF new
<1> QED
  BY <1>2, <1>3, <1>5, <1>6, OneChanges

LEMMA ThreadInv == ASSUME PanelInv, NEW r \in Requests, Thread(r) PROVE PanelInv'
<1>1. CASE Begin(r) \/ NeverBegins(r)
  BY <1>1, BeginInv, NeverBeginsInv
<1>2. CASE Read(r)
  BY <1>2, ReadInv
<1>3. CASE NoticesInterrupt(r) \/ Breaks(r)
  BY <1>3, SpeaksInv DEF NoticesInterrupt, Breaks, More
<1>4. CASE Publish(r)
  <2>1. /\ work[r] \in Work /\ KeepsPace(work[r]) /\ work[r].thread = "holding"
        /\ Says(r, work[r].answer[work[r].read], "reading")
    BY <1>4 DEF PanelInv, Publish
  <2>2. work[r].read \in 1..Len(work[r].answer)
    BY <2>1, Types DEF KeepsPace
  <2>3. work[r].answer[work[r].read] \in {"content", "result"}
    BY <2>1, <2>2, ElementOfSeq DEF Work
  <2> QED
    BY <2>1, <2>3, SpeaksInv
<1>5. CASE Throws(r) \/ EndOfStream(r)
  BY <1>5, StopsInv DEF Throws, EndOfStream
<1>6. CASE Completes(r)
  BY <1>6, CompletesInv
<1> QED
  BY <1>1, <1>2, <1>3, <1>4, <1>5, <1>6 DEF Thread

-----------------------------------------------------------------------------
(* Clicks                                                                  *)

LEMMA CancelledInv ==
  ASSUME PanelInv
  PROVE  /\ Cancelled \in [Requests -> Work]
         /\ \A r \in Requests :
              /\ KeepsPace(Cancelled[r]) /\ FallsSilent(Cancelled[r])
              /\ Spoken(r, Cancelled[r])
              /\ Cancelled[r].thread = work[r].thread
              /\ work[r].thread = "new" => Cancelled[r] = work[r]
<1>1. CASE ~Cancels
  BY <1>1 DEF Cancelled, PanelInv
<1>2. CASE Cancels
  <2> DEFINE w   == work[active]
             new == [w EXCEPT !.future = "cancelled", !.heard = Len(w.said)]
  <2>1. /\ active \in Requests /\ w \in Work /\ KeepsPace(w) /\ w.thread # "new"
        /\ Spoken(active, w) /\ w.future = "pending"
    BY <1>2 DEF PanelInv, Cancels
  <2>2. new \in Work /\ new.heard = Len(w.said) /\ new.future = "cancelled"
        /\ \A f \in {"kind", "thread", "answer", "read", "said", "taken"} : new[f] = w[f]
    BY <2>1, Types DEF Work
  <2>3. KeepsPace(new) /\ FallsSilent(new)
    BY <2>1, <2>2, Types DEF KeepsPace, FallsSilent
  <2>5. Spoken(active, new)
    BY <2>1, <2>2 DEF Spoken
  <2>4. Cancelled = [work EXCEPT ![active] = new]
    BY <1>2, <2>1 DEF Cancelled, PanelInv
  <2> HIDE DEF new
  <2> QED
    BY <2>1, <2>2, <2>3, <2>4, <2>5 DEF PanelInv
<1> QED
  BY <1>1, <1>2

LEMMA StartInv ==
  ASSUME PanelInv, NEW r \in Requests, NEW kind \in {"stream", "test"},
         NEW answer \in Seq({"content", "result"}),
         kind = "test" => answer = <<"result">>,
         \A i \in 1..Len(answer) : answer[i] = "result" => i = Len(answer),
         Start(r, kind, answer)
  PROVE  PanelInv'
<1> DEFINE new == [Cancelled[r] EXCEPT !.kind = kind, !.answer = answer,
                                      !.thread = "queued"]
<1>1. /\ Cancelled \in [Requests -> Work] /\ work[r] \in Work
      /\ KeepsPace(work[r]) /\ work[r].thread = "new" /\ Cancelled[r] = work[r]
      /\ Spoken(r, work[r])
  BY CancelledInv DEF Start, PanelInv
<1>2. /\ new \in Work /\ new.kind = kind /\ new.answer = answer /\ new.thread = "queued"
      /\ \A f \in {"future", "read", "said", "taken", "heard"} : new[f] = work[r][f]
  BY <1>1 DEF Work
<1>3. work' = [Cancelled EXCEPT ![r] = new]
  BY <1>1 DEF Start
<1>4. work[r].read = 0 /\ work[r].said = << >> /\ work[r].future = "pending"
  BY <1>1 DEF KeepsPace
<1>5. Len(answer) \in Nat
  BY LenProperties
<1>6. KeepsPace(new) /\ FallsSilent(new)
  BY <1>2, <1>4, <1>5 DEF KeepsPace, FallsSilent
<1>10. Spoken(r, new)
  BY <1>1, <1>2, <1>4 DEF Spoken
<1> HIDE DEF new
<1>7. \A q \in Requests :
        KeepsPace(work'[q]) /\ FallsSilent(work'[q]) /\ Spoken(q, work'[q])
  BY <1>1, <1>3, <1>6, <1>10, CancelledInv
<1>8. work' \in [Requests -> Work] /\ work'[r] = new
  BY <1>1, <1>2, <1>3
<1>9. active' = r
  BY DEF Start
<1> QED
  BY <1>2, <1>7, <1>8, <1>9 DEF PanelInv

LEMMA CancelInv == ASSUME PanelInv, Cancel PROVE PanelInv'
<1>1. work' = Cancelled /\ (active' = active \/ active' = None)
  BY DEF Cancel
<1> QED
  BY <1>1, CancelledInv DEF PanelInv

-----------------------------------------------------------------------------
LEMMA ProcessInv ==
  ASSUME PanelInv, NEW r \in Requests, Process(r) PROVE PanelInv'
<1> DEFINE w   == work[r]
           new == [w EXCEPT !.taken = Len(w.said)]
<1>1. w \in Work /\ KeepsPace(w) /\ FallsSilent(w) /\ Spoken(r, w)
  BY DEF PanelInv
<1>2. /\ new \in Work /\ new.taken = Len(w.said)
      /\ \A f \in {"kind", "thread", "future", "answer", "read", "said", "heard"} :
           new[f] = w[f]
  BY <1>1, Types DEF Work
<1>3. KeepsPace(new) /\ FallsSilent(new)
  BY <1>1, <1>2 DEF KeepsPace, FallsSilent
<1>4. Spoken(r, new)
  BY <1>1, <1>2, Types DEF Spoken
<1>5. Becomes(r, new) /\ active' = active
  BY DEF Process, Runs
<1> HIDE DEF new
<1>6. CASE w.thread # "new"
  BY <1>2, <1>3, <1>4, <1>5, <1>6, OneChanges
<1>7. CASE w.thread = "new"
  <2>1. /\ work' \in [Requests -> Work] /\ work'[r] = new
        /\ \A q \in Requests : q # r => work'[q] = work[q]
    BY <1>2, <1>5 DEF Becomes, PanelInv
  <2>2. active' # None => work'[active'].thread # "new"
    BY <1>5, <1>7, <2>1 DEF PanelInv
  <2> QED
    BY <1>3, <1>4, <1>5, <2>1, <2>2 DEF PanelInv
<1> QED
  BY <1>6, <1>7

LEMMA InitInv == Init => PanelInv
<1> SUFFICES ASSUME Init PROVE PanelInv
  OBVIOUS
<1>1. /\ NewWork \in Work /\ NewWork.read = 0 /\ NewWork.said = << >>
      /\ NewWork.answer = << >> /\ NewWork.thread = "new"
      /\ NewWork.future = "pending" /\ NewWork.kind = "stream"
  BY EmptySeq DEF NewWork, Work
<1>2. KeepsPace(NewWork) /\ FallsSilent(NewWork) /\ \A r \in Requests : Spoken(r, NewWork)
  <2>1. NewWork.taken = 0 /\ Len(NewWork.said) = 0 /\ Len(NewWork.answer) = 0
    BY <1>1, EmptySeq DEF NewWork
  <2> QED
    BY <1>1, <2>1, EmptySeq DEF KeepsPace, FallsSilent, Spoken
<1>3. work = [r \in Requests |-> NewWork] /\ active = None
  BY DEF Init
<1> QED
  BY <1>1, <1>2, <1>3 DEF PanelInv

LEMMA StepInv == PanelInv /\ [Next]_vars => PanelInv'
<1> SUFFICES ASSUME PanelInv, [Next]_vars PROVE PanelInv'
  OBVIOUS
<1>1. CASE UNCHANGED vars
  BY <1>1 DEF vars, PanelInv
<1>2. ASSUME NEW r \in Requests, Thread(r) PROVE PanelInv'
  BY <1>2, ThreadInv
<1>3. ASSUME NEW r \in Requests, Start(r, "test", <<"result">>) PROVE PanelInv'
  <2>1. /\ <<"result">> \in Seq({"content", "result"})
        /\ \A i \in 1..Len(<<"result">>) : i = Len(<<"result">>)
    OBVIOUS
  <2> QED
    BY <1>3, <2>1, StartInv
<1>4. ASSUME NEW r \in Requests, NEW answer \in Answers, Start(r, "stream", answer)
      PROVE  PanelInv'
  <2>1. /\ answer \in Seq({"content", "result"})
        /\ \A i \in 1..Len(answer) : answer[i] = "result" => i = Len(answer)
    BY PanelAssumption, LenProperties
  <2> QED
    BY <1>4, <2>1, StartInv
<1>5. CASE Cancel
  BY <1>5, CancelInv
<1>6. CASE Note \/ TimerFires \/ SetText \/ TakeBatch
  BY <1>6 DEF Note, TimerFires, SetText, TakeBatch, PanelInv
<1>7. ASSUME NEW r \in Requests, Process(r) PROVE PanelInv'
  BY <1>7, ProcessInv
<1>8. ASSUME NEW r \in Requests, Done(r) PROVE PanelInv'
  BY <1>8 DEF Done, Runs, PanelInv
<1> QED
  BY <1>1, <1>2, <1>3, <1>4, <1>5, <1>6, <1>7, <1>8 DEF Next

(* A cancelled request, whether by the button or by the next request, and  *)
(* wherever its thread was, says at most two more chunks.                  *)
THEOREM SilentHolds == Spec => []CancelledFallsSilent
<1>1. PanelInv => CancelledFallsSilent
  BY DEF PanelInv, FallsSilent, CancelledFallsSilent
<1> QED
  BY <1>1, InitInv, StepInv, PTL DEF Spec

-----------------------------------------------------------------------------
(* Sequences as what is in them                                            *)

Elems(s) == {s[i] : i \in 1..Len(s)}

LEMMA ElemsEmpty == Elems(<< >>) = {}
BY DEF Elems

LEMMA ElemsAppend ==
  ASSUME NEW S, NEW s \in Seq(S), NEW x \in S
  PROVE  Elems(Append(s, x)) = Elems(s) \cup {x}
<1> DEFINE n == Len(s)
           t == Append(s, x)
<1>1. n \in Nat /\ Len(t) = n + 1 /\ t[n + 1] = x /\ \A i \in 1..n : t[i] = s[i]
  BY LenProperties, AppendProperties
<1> HIDE DEF n, t
<1>2. \A i \in 1..(n + 1) : i \in 1..n \/ i = n + 1
  BY <1>1
<1>3. n + 1 \in 1..(n + 1) /\ \A i \in 1..n : i \in 1..(n + 1)
  BY <1>1
<1>4. {t[i] : i \in 1..(n + 1)} = {s[i] : i \in 1..n} \cup {x}
  BY <1>1, <1>2, <1>3
<1> QED
  BY <1>1, <1>4 DEF Elems, n, t

LEMMA ElemsConcat ==
  ASSUME NEW S, NEW s \in Seq(S), NEW t \in Seq(S)
  PROVE  Elems(s \o t) = Elems(s) \cup Elems(t)
<1> DEFINE m == Len(s)
           n == Len(t)
           u == s \o t
<1>1. /\ m \in Nat /\ n \in Nat /\ Len(u) = m + n
      /\ \A i \in 1..(m + n) : u[i] = IF i <= m THEN s[i] ELSE t[i - m]
  BY LenProperties, ConcatProperties
<1> HIDE DEF m, n, u
<1>2. ASSUME NEW i \in 1..(m + n)
      PROVE  u[i] \in {s[j] : j \in 1..m} \cup {t[j] : j \in 1..n}
  <2>1. CASE i <= m
    BY <1>1, <2>1
  <2>2. CASE ~(i <= m)
    <3>1. i - m \in 1..n /\ u[i] = t[i - m]
      BY <1>1, <2>2
    <3> QED
      BY <3>1
  <2> QED
    BY <2>1, <2>2
<1>3. ASSUME NEW j \in 1..m PROVE s[j] \in {u[i] : i \in 1..(m + n)}
  <2>1. j \in 1..(m + n) /\ u[j] = s[j]
    BY <1>1
  <2> QED
    BY <2>1
<1>4. ASSUME NEW j \in 1..n PROVE t[j] \in {u[i] : i \in 1..(m + n)}
  <2>1. j + m \in 1..(m + n) /\ ~(j + m <= m) /\ (j + m) - m = j
    BY <1>1
  <2>2. u[j + m] = t[j]
    BY <1>1, <2>1
  <2> QED
    BY <2>1, <2>2
<1>5. {u[i] : i \in 1..(m + n)} = {s[j] : j \in 1..m} \cup {t[j] : j \in 1..n}
  BY <1>2, <1>3, <1>4
<1> QED
  BY <1>1, <1>5 DEF Elems, m, n, u

LEMMA ElemsHead ==
  ASSUME NEW S, NEW s \in Seq(S), s # << >>
  PROVE  /\ Elems(s) = {Head(s)} \cup Elems(Tail(s))
         /\ Head(s) = s[1] /\ Tail(s) \in Seq(S) /\ Len(s) \in Nat
         /\ Len(Tail(s)) = Len(s) - 1
         /\ \A i \in 1..(Len(s) - 1) : Tail(s)[i] = s[i + 1]
<1> DEFINE n == Len(s)
           t == Tail(s)
<1>1. /\ n \in Nat /\ n # 0 /\ Head(s) = s[1] /\ t \in Seq(S) /\ Len(t) = n - 1
      /\ \A i \in 1..(n - 1) : t[i] = s[i + 1]
  <2>1. n \in Nat \ {0} /\ Head(s) = s[1]
    BY EmptySeq
  <2> QED
    BY <2>1, HeadTailProperties
<1> HIDE DEF n, t
<1>2. ASSUME NEW i \in 1..n PROVE s[i] \in {s[1]} \cup {t[j] : j \in 1..(n - 1)}
  <2>1. CASE i = 1
    BY <2>1
  <2>2. CASE i # 1
    <3>1. i - 1 \in 1..(n - 1) /\ (i - 1) + 1 = i
      BY <1>1, <2>2
    <3>2. t[i - 1] = s[i]
      BY <1>1, <3>1
    <3> QED
      BY <3>1, <3>2
  <2> QED
    BY <2>1, <2>2
<1>3. ASSUME NEW j \in 1..(n - 1) PROVE t[j] \in {s[i] : i \in 1..n}
  <2>1. j + 1 \in 1..n /\ t[j] = s[j + 1]
    BY <1>1
  <2> QED
    BY <2>1
<1>4. s[1] \in {s[i] : i \in 1..n}
  BY <1>1
<1>5. {s[i] : i \in 1..n} = {s[1]} \cup {t[j] : j \in 1..(n - 1)}
  BY <1>2, <1>3, <1>4
<1> QED
  BY <1>1, <1>5 DEF Elems, n, t

-----------------------------------------------------------------------------
(* What is picked                                                          *)

LEMMA PickedInterval ==
  ASSUME NEW texts, NEW a \in Nat, NEW b \in Nat, a <= b + 1
  PROVE  Picked(texts, a..b) = [n \in 1..(b - a + 1) |-> texts[a + n - 1]]
<1> DEFINE Rank(i) == Cardinality({j \in a..b : j <= i})
<1>1. Cardinality(a..b) = b - a + 1
  <2>1. a \in Int /\ b \in Int
    OBVIOUS
  <2> QED
    BY <2>1, FS_Interval
<1>2. ASSUME NEW i \in a..b PROVE Rank(i) = i - a + 1
  <2>1. {j \in a..b : j <= i} = a..i
    OBVIOUS
  <2>2. Cardinality(a..i) = i - a + 1
    <3>1. a \in Int /\ i \in Int /\ ~(a > i)
      OBVIOUS
    <3> QED
      BY <3>1, FS_Interval
  <2> QED
    BY <2>1, <2>2
<1>3. ASSUME NEW n \in 1..(b - a + 1)
      PROVE  (CHOOSE i \in a..b : Rank(i) = n) = a + n - 1
  <2> DEFINE c == CHOOSE i \in a..b : Rank(i) = n
  <2> HIDE DEF Rank
  <2>1. a + n - 1 \in a..b /\ Rank(a + n - 1) = n
    <3>1. a + n - 1 \in a..b /\ (a + n - 1) - a + 1 = n
      OBVIOUS
    <3> QED
      BY <1>2, <3>1
  <2>2. c \in a..b /\ Rank(c) = n
    BY <2>1
  <2> HIDE DEF c
  <2>3. c - a + 1 = n /\ c \in Nat
    BY <1>2, <2>2
  <2>4. c = a + n - 1
    BY <2>3
  <2> QED
    BY <2>4 DEF c
<1>4. Picked(texts, a..b) = [n \in 1..(b - a + 1) |-> texts[CHOOSE i \in a..b : Rank(i) = n]]
  BY <1>1, Zenon DEF Picked
<1> HIDE DEF Rank
<1> QED
  BY <1>3, <1>4

LEMMA HasLeast ==
  ASSUME NEW S \in SUBSET Nat, S # {}
  PROVE  \E i \in S : \A j \in S : i <= j
<1>1. PICK i \in S : \A j \in S : ~(<<j, i>> \in OpToRel(<, Nat))
  BY NatLessThanWellFounded, WFMin
<1>2. i \in Nat /\ \A j \in S : j \in Nat /\ ~(j < i)
  BY <1>1 DEF OpToRel
<1> QED
  BY <1>2

(* What process appends is the content before what it posts.               *)
LEMMA AppendsThenPosts ==
  ASSUME NEW u \in Seq(Chunks),
         \A i, j \in 1..Len(u) : i < j /\ IsContent(u[j]) => IsContent(u[i])
  PROVE  \E m \in 0..Len(u) :
           /\ \A i \in 1..Len(u) : IsContent(u[i]) <=> i <= m
           /\ Appends(u) = [n \in 1..m |-> u[n]]
           /\ Posts(u) = [n \in 1..(Len(u) - m) |-> u[m + n]]
<1> DEFINE N == Len(u)
           other == {i \in 1..N : ~IsContent(u[i])}
<1>1. N \in Nat /\ DOMAIN u = 1..N
  BY LenProperties
<1>2. \E m \in 0..N : \A i \in 1..N : IsContent(u[i]) <=> i <= m
  <2>1. CASE other = {}
    <3>1. N \in 0..N /\ \A i \in 1..N : IsContent(u[i]) <=> i <= N
      BY <1>1, <2>1
    <3> QED
      BY <3>1
  <2>2. CASE other # {}
    <3>1. other \in SUBSET Nat
      BY <1>1
    <3>2. PICK k \in other : \A j \in other : k <= j
      BY <2>2, <3>1, HasLeast
    <3>3. k \in 1..N /\ ~IsContent(u[k]) /\ k - 1 \in 0..N
      BY <1>1, <3>2
    <3>4. ASSUME NEW i \in 1..N PROVE IsContent(u[i]) <=> i <= k - 1
      <4>1. IsContent(u[i]) => ~(k < i) /\ k # i
        BY <3>3
      <4>2. ~IsContent(u[i]) => k <= i
        BY <3>2
      <4> QED
        BY <1>1, <3>3, <4>1, <4>2
    <3> QED
      BY <3>3, <3>4
  <2> QED
    BY <2>1, <2>2
<1>3. PICK m \in 0..N : \A i \in 1..N : IsContent(u[i]) <=> i <= m
  BY <1>2
<1>4. /\ {i \in DOMAIN u : IsContent(u[i])} = 1..m
      /\ {i \in DOMAIN u : ~IsContent(u[i])} = (m + 1)..N
  <2> HIDE DEF N
  <2>1. \A i : i \in DOMAIN u /\ IsContent(u[i]) <=> i \in 1..m
    BY <1>1, <1>3
  <2>2. \A i : i \in DOMAIN u /\ ~IsContent(u[i]) <=> i \in (m + 1)..N
    BY <1>1, <1>3
  <2> QED
    BY <2>1, <2>2
<1>5. Appends(u) = [n \in 1..m |-> u[n]]
  <2>1. Picked(u, 1..m) = [n \in 1..(m - 1 + 1) |-> u[1 + n - 1]]
    <3>1. 1 \in Nat /\ m \in Nat /\ 1 <= m + 1
      BY <1>1
    <3> HIDE DEF N
    <3> QED
      BY <3>1, PickedInterval
  <2>2. m - 1 + 1 = m /\ \A n \in 1..m : 1 + n - 1 = n
    BY <1>1
  <2> QED
    BY <1>4, <2>1, <2>2 DEF Appends
<1>6. Posts(u) = [n \in 1..(N - m) |-> u[m + n]]
  <2>1. Picked(u, (m + 1)..N) = [n \in 1..(N - (m + 1) + 1) |-> u[(m + 1) + n - 1]]
    <3> DEFINE k == m + 1
    <3>1. k \in Nat /\ N \in Nat /\ k <= N + 1
      BY <1>1
    <3> HIDE DEF N, k
    <3>2. Picked(u, k..N) = [n \in 1..(N - k + 1) |-> u[k + n - 1]]
      BY <3>1, PickedInterval
    <3> QED
      BY <3>2 DEF k
  <2>2. N - (m + 1) + 1 = N - m /\ \A n \in 1..(N - m) : (m + 1) + n - 1 = m + n
    BY <1>1
  <2> QED
    BY <1>4, <2>1, <2>2 DEF Posts
<1> QED
  BY <1>3, <1>5, <1>6

-----------------------------------------------------------------------------
(* What an undisturbed request r has coming (posted, in order), and what   *)
(* is shown; l is its loading text.                                        *)

Texts == [what : {"content", "result", "error", "loading", "cancelled", "note",
                  "process", "done", "batch"},
          of : Requests \cup {None}]

Loading(r) == Text("loading", r)
Failed(r) == Text("error", r)

(* In the end x alone will be shown, whatever is said until then.          *)
FinalIs(x, posted, shown) ==
  \/ /\ x # Flush
     /\ \E i \in 1..Len(posted) :
          posted[i] = x /\ \A j \in 1..Len(posted) : i < j => posted[j] = Flush
  \/ Elems(posted) \subseteq {Flush} /\ shown = <<x>>

(* As long as everything taken is content, it stands after the loading     *)
(* text, or nothing is taken yet and the loading text is to come; then the *)
(* last chunk replaces everything.                                         *)
AsTaken(r, w, posted, shown) ==
  IF \A i \in 1..w.taken : IsContent(w.said[i])
  THEN \/ /\ Elems(posted) \subseteq {Flush}
          /\ Len(shown) = w.taken + 1 /\ shown[1] = Loading(r)
          /\ \A i \in 1..w.taken : shown[i + 1] = w.said[i]
       \/ /\ Loading(r) \in Elems(posted) /\ Elems(posted) \subseteq {Flush, Loading(r)}
          /\ w.taken = 0
  ELSE FinalIs(w.said[w.taken], posted, shown)

OwnTexts(r, posted, shown) ==
  /\ \A x \in Elems(posted) : x = Flush \/ x.of = r
  /\ \A i \in 1..Len(posted) : posted[i] = Loading(r) => i = 1
  /\ Loading(r) \notin Elems(posted) =>
       shown # << >> /\ \A x \in Elems(shown) : x.of = r

LoadingGoes(r, posted, shown) ==
  \/ \E x \in Elems(posted) : x # Flush /\ x # Loading(r)
  \/ Loading(r) \notin Elems(posted) /\ shown[1] # Loading(r)

Displayed(r, w, posted, shown) ==
  /\ OwnTexts(r, posted, shown)
  /\ w.future = "cancelled" => LoadingGoes(r, posted, shown)
  /\ w.future \in {"pending", "done"} => AsTaken(r, w, posted, shown)

LEMMA Distinct ==
  ASSUME NEW r \in Requests
  PROVE  /\ Flush \in Texts /\ Loading(r) \in Texts /\ Failed(r) \in Texts
         /\ Text("process", r) \in Texts /\ Text("done", r) \in Texts
         /\ Text("cancelled", r) \in Texts
         /\ Flush # Loading(r) /\ Flush # Failed(r) /\ Failed(r) # Loading(r)
         /\ Text("process", r) # Text("done", r)
         /\ Text("cancelled", r) # Flush /\ Text("cancelled", r) # Loading(r)
         /\ \A what : Text(what, r).of = r /\ Text(what, r).what = what
         /\ \A x \in Chunks : x \in Texts /\ x # Flush /\ x # Loading(r)
BY DEF Texts, Flush, Loading, Failed, Text, Chunks

-----------------------------------------------------------------------------
(* A batch announced                                                       *)

LEMMA FinalFlush ==
  ASSUME NEW x, NEW posted \in Seq(Texts), NEW shown, FinalIs(x, posted, shown)
  PROVE  FinalIs(x, Append(posted, Flush), shown)
<1> DEFINE n == Len(posted)
           new == Append(posted, Flush)
<1>0. Flush \in Texts
  BY DEF Texts, Flush, Text
<1>1. n \in Nat /\ Len(new) = n + 1 /\ new[n + 1] = Flush /\ \A i \in 1..n : new[i] = posted[i]
  BY <1>0, LenProperties, AppendProperties
<1>2. Elems(new) = Elems(posted) \cup {Flush}
  BY <1>0, ElemsAppend
<1> HIDE DEF n, new
<1>3. CASE Elems(posted) \subseteq {Flush} /\ shown = <<x>>
  BY <1>2, <1>3 DEF FinalIs, new
<1>4. CASE x # Flush /\ \E i \in 1..n :
             posted[i] = x /\ \A j \in 1..n : i < j => posted[j] = Flush
  <2>1. PICK i \in 1..n : posted[i] = x /\ \A j \in 1..n : i < j => posted[j] = Flush
    BY <1>4
  <2>2. i \in 1..Len(new) /\ new[i] = x
    BY <1>1, <2>1
  <2>3. ASSUME NEW j \in 1..Len(new), i < j PROVE new[j] = Flush
    <3>1. j = n + 1 \/ j \in 1..n
      BY <1>1
    <3> QED
      BY <1>1, <2>1, <2>3, <3>1
  <2> QED
    BY <1>4, <2>2, <2>3 DEF FinalIs, new
<1> QED
  BY <1>3, <1>4 DEF FinalIs, n

LEMMA AnnouncedDisplay ==
  ASSUME NEW r \in Requests, NEW w \in Work, NEW posted \in Seq(Texts),
         NEW shown, Displayed(r, w, posted, shown)
  PROVE  Displayed(r, w, Append(posted, Flush), shown)
<1> DEFINE n == Len(posted)
           new == Append(posted, Flush)
<1>1. n \in Nat /\ Len(new) = n + 1 /\ new[n + 1] = Flush /\ \A i \in 1..n : new[i] = posted[i]
  BY LenProperties, AppendProperties, Distinct
<1>2. Elems(new) = Elems(posted) \cup {Flush}
  BY ElemsAppend, Distinct
<1>3. AsTaken(r, w, posted, shown) => AsTaken(r, w, new, shown)
  BY <1>2, FinalFlush, Distinct DEF AsTaken
<1>4. LoadingGoes(r, posted, shown) => LoadingGoes(r, new, shown)
  BY <1>2, Distinct DEF LoadingGoes
<1> HIDE DEF n, new
<1>5. OwnTexts(r, new, shown)
  <2>1. OwnTexts(r, posted, shown)
    BY DEF Displayed
  <2>2. \A i \in 1..(n + 1) : i \in 1..n \/ i = n + 1
    BY <1>1
  <2>3. \A i \in 1..Len(new) : new[i] = Loading(r) => i = 1
    BY <1>1, <2>1, <2>2, Distinct DEF OwnTexts, n
  <2> QED
    BY <1>2, <2>1, <2>3, Distinct DEF OwnTexts
<1> QED
  BY <1>3, <1>4, <1>5 DEF Displayed, new

-----------------------------------------------------------------------------
(* A text set, or a batch taken                                            *)

LEMMA FinalTail ==
  ASSUME NEW x, NEW posted \in Seq(Texts), posted # << >>, NEW shown, NEW later,
         FinalIs(x, posted, shown),
         \/ Head(posted) = Flush /\ later = shown
         \/ Head(posted) # Flush /\ later = <<Head(posted)>>
  PROVE  FinalIs(x, Tail(posted), later)
<1> DEFINE n == Len(posted)
           new == Tail(posted)
<1>1. /\ Elems(posted) = {Head(posted)} \cup Elems(new) /\ Head(posted) = posted[1]
      /\ n \in Nat /\ Len(new) = n - 1 /\ \A i \in 1..(n - 1) : new[i] = posted[i + 1]
  BY ElemsHead
<1> HIDE DEF n, new
<1>2. CASE Elems(posted) \subseteq {Flush} /\ shown = <<x>>
  BY <1>1, <1>2 DEF FinalIs, new
<1>3. CASE x # Flush /\ \E i \in 1..n :
             posted[i] = x /\ \A j \in 1..n : i < j => posted[j] = Flush
  <2>1. PICK i \in 1..n : posted[i] = x /\ \A j \in 1..n : i < j => posted[j] = Flush
    BY <1>3
  <2>2. CASE i = 1
    <3>1. later = <<x>>
      BY <1>1, <1>3, <2>1, <2>2
    <3>2. \A j \in 1..(n - 1) : new[j] = Flush
      <4> TAKE j \in 1..(n - 1)
      <4>1. j + 1 \in 1..n /\ 1 < j + 1
        BY <1>1
      <4> QED
        BY <1>1, <2>1, <2>2, <4>1
    <3>3. Elems(new) \subseteq {Flush}
      BY <1>1, <3>2 DEF Elems
    <3> QED
      BY <3>1, <3>3 DEF FinalIs, new
  <2>3. CASE i # 1
    <3>1. i - 1 \in 1..Len(new) /\ new[i - 1] = x
      <4>1. i - 1 \in 1..(n - 1) /\ (i - 1) + 1 = i
        BY <1>1, <2>3
      <4> QED
        BY <1>1, <2>1, <4>1
    <3>2. ASSUME NEW j \in 1..Len(new), i - 1 < j PROVE new[j] = Flush
      <4>1. j + 1 \in 1..n /\ i < j + 1 /\ j \in 1..(n - 1)
        BY <1>1, <3>2
      <4> QED
        BY <1>1, <2>1, <4>1
    <3> QED
      BY <1>3, <3>1, <3>2 DEF FinalIs, new
  <2> QED
    BY <2>2, <2>3
<1> QED
  BY <1>2, <1>3 DEF FinalIs, n

(* The event dispatch thread takes a batch.                                *)
LEMMA TakenDisplay ==
  ASSUME NEW r \in Requests, NEW w \in Work, NEW posted \in Seq(Texts),
         posted # << >>, Head(posted) = Flush,
         NEW shown, Displayed(r, w, posted, shown)
  PROVE  /\ Displayed(r, w, Tail(posted), shown)
         /\ Loading(r) \notin Elems(Tail(posted))
<1> DEFINE n == Len(posted)
           new == Tail(posted)
<1>1. /\ Elems(posted) = {Flush} \cup Elems(new) /\ posted[1] = Flush
      /\ n \in Nat /\ Len(new) = n - 1 /\ \A i \in 1..(n - 1) : new[i] = posted[i + 1]
  BY ElemsHead
<1> HIDE DEF n, new
<1>2. Loading(r) \notin Elems(posted)
  <2> SUFFICES ASSUME NEW i \in 1..n PROVE posted[i] # Loading(r)
    BY DEF Elems, n
  <2>1. posted[i] = Loading(r) => i = 1
    BY DEF Displayed, OwnTexts, n
  <2> QED
    BY <1>1, <2>1, Distinct
<1>3. Loading(r) \notin Elems(new)
  BY <1>1, <1>2
<1>4. \A i \in 1..Len(new) : new[i] # Loading(r)
  BY <1>3 DEF Elems
<1>5. OwnTexts(r, new, shown)
  BY <1>1, <1>2, <1>4 DEF Displayed, OwnTexts
<1>6. LoadingGoes(r, posted, shown) => LoadingGoes(r, new, shown)
  BY <1>1, <1>3 DEF LoadingGoes
<1>7. AsTaken(r, w, posted, shown) => AsTaken(r, w, new, shown)
  <2>1. \A x : FinalIs(x, posted, shown) => FinalIs(x, new, shown)
    BY FinalTail DEF new
  <2> QED
    BY <1>1, <1>2, <2>1 DEF AsTaken
<1> QED
  BY <1>3, <1>5, <1>6, <1>7 DEF Displayed, new

(* The event dispatch thread sets a text.                                  *)
LEMMA SetDisplay ==
  ASSUME NEW r \in Requests, NEW w \in Work, NEW posted \in Seq(Texts),
         posted # << >>, Head(posted) # Flush,
         NEW shown, Displayed(r, w, posted, shown)
  PROVE  Displayed(r, w, Tail(posted), <<Head(posted)>>)
<1> DEFINE n == Len(posted)
           new == Tail(posted)
           h == Head(posted)
           later == <<h>>
<1>1. /\ Elems(posted) = {h} \cup Elems(new) /\ posted[1] = h /\ h # Flush
      /\ n \in Nat /\ Len(new) = n - 1 /\ \A i \in 1..(n - 1) : new[i] = posted[i + 1]
  BY ElemsHead
<1>2. later # << >> /\ later[1] = h /\ Len(later) = 1 /\ Elems(later) = {h}
  BY DEF Elems
<1> HIDE DEF n, new, later, h
<1>3. \A i \in 1..Len(new) : new[i] # Loading(r)
  <2> TAKE i \in 1..Len(new)
  <2>1. i + 1 \in 1..n /\ i + 1 # 1 /\ new[i] = posted[i + 1]
    BY <1>1
  <2> QED
    BY <2>1 DEF Displayed, OwnTexts, n
<1>4. Loading(r) \notin Elems(new)
  BY <1>3 DEF Elems
<1>5. OwnTexts(r, new, later)
  BY <1>1, <1>2, <1>3 DEF Displayed, OwnTexts
<1>6. LoadingGoes(r, posted, shown) => LoadingGoes(r, new, later)
  BY <1>1, <1>2, <1>4 DEF LoadingGoes
<1>7. AsTaken(r, w, posted, shown) => AsTaken(r, w, new, later)
  <2>1. \A x : FinalIs(x, posted, shown) => FinalIs(x, new, later)
    BY <1>1, FinalTail DEF new, later, h
  <2>2. CASE ~(\A i \in 1..w.taken : IsContent(w.said[i]))
    BY <2>1, <2>2 DEF AsTaken
  <2>3. CASE \A i \in 1..w.taken : IsContent(w.said[i])
    <3>1. AsTaken(r, w, posted, shown) => w.taken = 0 /\ Elems(posted) \subseteq {Flush, Loading(r)}
      BY <1>1, <2>3 DEF AsTaken
    <3>2. AsTaken(r, w, posted, shown) => h = Loading(r) /\ Elems(new) \subseteq {Flush}
      BY <1>1, <1>4, <3>1
    <3> QED
      BY <1>2, <2>3, <3>1, <3>2 DEF AsTaken
  <2> QED
    BY <2>2, <2>3
<1> QED
  BY <1>5, <1>6, <1>7 DEF Displayed, new, later, h

-----------------------------------------------------------------------------
(* Texts posted                                                            *)

LEMMA FinalPosted ==
  ASSUME NEW posted \in Seq(Texts), NEW more \in Seq(Texts), NEW shown,
         more # << >>, more[Len(more)] # Flush
  PROVE  FinalIs(more[Len(more)], posted \o more, shown)
<1> DEFINE m == Len(posted)
           n == Len(more)
           new == posted \o more
<1>1. /\ m \in Nat /\ n \in Nat /\ n # 0 /\ Len(new) = m + n
      /\ \A i \in 1..(m + n) : new[i] = IF i <= m THEN posted[i] ELSE more[i - m]
  BY LenProperties, ConcatProperties, EmptySeq
<1>2. more[n] # Flush
  OBVIOUS
<1> HIDE DEF m, n, new
<1>3. m + n \in 1..(m + n) /\ ~(m + n <= m) /\ (m + n) - m = n
  BY <1>1
<1>4. new[m + n] = more[n]
  BY <1>1, <1>3
<1>5. \A j \in 1..Len(new) : ~(m + n < j)
  BY <1>1
<1>6. m + n \in 1..Len(new)
  BY <1>1
<1> QED
  BY <1>2, <1>4, <1>5, <1>6 DEF FinalIs, new, n

(* Own texts other than the loading text.                                  *)
LEMMA PostedOwn ==
  ASSUME NEW r \in Requests, NEW posted \in Seq(Texts), NEW more \in Seq(Texts),
         NEW shown, OwnTexts(r, posted, shown),
         \A x \in Elems(more) : x.of = r /\ x # Loading(r)
  PROVE  /\ OwnTexts(r, posted \o more, shown)
         /\ LoadingGoes(r, posted, shown) => LoadingGoes(r, posted \o more, shown)
         /\ Loading(r) \in Elems(posted \o more) <=> Loading(r) \in Elems(posted)
<1> DEFINE m == Len(posted)
           n == Len(more)
           new == posted \o more
<1>1. /\ m \in Nat /\ n \in Nat /\ Len(new) = m + n
      /\ \A i \in 1..(m + n) : new[i] = IF i <= m THEN posted[i] ELSE more[i - m]
  BY LenProperties, ConcatProperties
<1>2. Elems(new) = Elems(posted) \cup Elems(more)
  BY ElemsConcat
<1> HIDE DEF m, n, new
<1>3. ASSUME NEW i \in 1..Len(new), new[i] = Loading(r) PROVE i = 1
  <2>1. CASE i <= m
    BY <1>1, <1>3, <2>1 DEF OwnTexts, m
  <2>2. CASE ~(i <= m)
    <3>1. i - m \in 1..n /\ new[i] = more[i - m]
      BY <1>1, <2>2
    <3>2. more[i - m] \in Elems(more)
      BY <3>1 DEF Elems, n
    <3> QED
      BY <1>3, <3>1, <3>2
  <2> QED
    BY <2>1, <2>2
<1>4. Loading(r) \in Elems(new) <=> Loading(r) \in Elems(posted)
  BY <1>2
<1>5. OwnTexts(r, new, shown)
  BY <1>2, <1>3, <1>4 DEF OwnTexts
<1>6. LoadingGoes(r, posted, shown) => LoadingGoes(r, new, shown)
  BY <1>2, <1>4 DEF LoadingGoes
<1> QED
  BY <1>4, <1>5, <1>6 DEF new

-----------------------------------------------------------------------------
(* The panel of an undisturbed request                                     *)

Own(r) == {Text("process", r), Text("done", r)}

(* Requests before it are through, and none after it has begun.            *)
Alone ==
  /\ current \in Requests /\ work[current].thread # "new"
  /\ \A q \in Requests \ {current} : work[q].thread \in {"new", "through"}
  /\ work[current].future = "pending" => cancellable /\ active = current

(* What waits for the event dispatch thread.                               *)
InHand(waiting, r, w) ==
  /\ waiting \subseteq Own(r)
  /\ w.taken < Len(w.said) => Text("process", r) \in waiting
  /\ Text("done", r) \in waiting => w.future \in {"done", "failed"}

Ends(waiting, r, w, posted, shown) ==
  w.future = "failed" =>
    Text("done", r) \in waiting \/ FinalIs(Failed(r), posted, shown)

Waiting == Elems(batch) \cup Elems(running)

Served ==
  /\ Alone
  /\ InHand(Waiting, current, work[current])
  /\ Displayed(current, work[current], edt, area)
  /\ Ends(Waiting, current, work[current], edt, area)
  /\ running # << >> => Loading(current) \notin Elems(edt)

QueuesOK ==
  batch \in Seq(Texts) /\ running \in Seq(Texts)
  /\ edt \in Seq(Texts) /\ area \in Seq(Texts)

ServedInv == PanelInv /\ QueuesOK /\ (quiet => Served)

-----------------------------------------------------------------------------
(* The thread of the request itself goes on.                               *)

LEMMA ThreadServed ==
  ASSUME PanelInv, QueuesOK, Served,
         NEW r, r = current, NEW new, NEW added,
         work' = [work EXCEPT ![r] = new], PanelAlone,
         Elems(batch') = Elems(batch) \cup added, added \subseteq Own(r),
         new.thread # "new", new.taken = work[r].taken,
         \A i \in 1..new.taken : new.said[i] = work[r].said[i],
         new.taken < Len(new.said) => Text("process", r) \in added \cup Waiting,
         Text("done", r) \in added => new.future \in {"done", "failed"},
         \/ new.future = work[r].future
         \/ /\ work[r].future = "pending" /\ new.future \in {"done", "failed"}
            /\ Text("done", r) \in added
  PROVE  Served'
<1> DEFINE w == work[r]
<1>1. /\ r \in Requests /\ work'[r] = new /\ w.taken \in Nat
      /\ \A q \in Requests \ {r} : work'[q] = work[q]
  BY Types DEF Served, Alone, PanelInv
<1>2. /\ running' = running /\ edt' = edt /\ area' = area /\ cancellable' = cancellable
      /\ active' = active /\ current' = r
  BY DEF PanelAlone
<1>3. Waiting' = Waiting \cup added
  BY <1>2 DEF Waiting
<1> HIDE DEF w
<1>4. Alone'
  BY <1>1, <1>2 DEF Served, Alone, w
<1>5. InHand(Waiting', r, new)
  BY <1>1, <1>3 DEF Served, InHand, w
<1>6. Displayed(r, new, edt, area)
  <2>1. AsTaken(r, w, edt, area) => AsTaken(r, new, edt, area)
    <3>1. CASE w.taken = 0
      BY <1>1, <3>1 DEF AsTaken, w
    <3>2. CASE w.taken # 0
      <4>1. w.taken \in 1..w.taken
        BY <1>1, <3>2
      <4> QED
        BY <1>1, <4>1 DEF AsTaken, w
    <3> QED
      BY <3>1, <3>2
  <2>2. Displayed(r, w, edt, area)
    BY DEF Served, w
  <2> QED
    BY <2>1, <2>2 DEF Displayed, w
<1>7. Ends(Waiting', r, new, edt, area)
  BY <1>3 DEF Served, Ends
<1> QED
  BY <1>1, <1>2, <1>4, <1>5, <1>6, <1>7 DEF Served

(* The steps of a thread that say nothing.                                 *)
LEMMA SilentServed ==
  ASSUME PanelInv, QueuesOK, Served, NEW r, r = current, NEW new \in Work,
         Becomes(r, new), OnlyWork, new.thread # "new",
         new.taken = work[r].taken, new.said = work[r].said,
         new.future = work[r].future
  PROVE  Served'
<1> DEFINE added == {}
<1>1. /\ batch' = batch /\ PanelAlone /\ work' = [work EXCEPT ![r] = new]
      /\ Elems(batch') = Elems(batch) \cup added
  BY DEF OnlyWork, Becomes
<1>2. new.taken < Len(new.said) => Text("process", r) \in added \cup Waiting
  BY DEF Served, InHand
<1>3. added \subseteq Own(r) /\ Text("done", r) \notin added
  OBVIOUS
<1>4. \A i \in 1..new.taken : new.said[i] = work[r].said[i]
  OBVIOUS
<1> HIDE DEF added
<1> QED
  BY <1>1, <1>2, <1>3, <1>4, ThreadServed

LEMMA SaysServed ==
  ASSUME PanelInv, QueuesOK, Served, NEW r, r = current,
         NEW what \in {"content", "result", "error"}, NEW thread, thread # "new",
         Says(r, what, thread)
  PROVE  Served'
<1> DEFINE w   == work[r]
           new == [work[r] EXCEPT !.said = Append(@, Text(what, r)), !.thread = thread]
           added == IF Len(w.said) > w.taken THEN {} ELSE {Text("process", r)}
<1>1. /\ r \in Requests /\ w \in Work /\ Spoken(r, w)
      /\ work' = [work EXCEPT ![r] = new] /\ PanelAlone
  BY DEF Says, Becomes, Served, Alone, PanelInv
<1>2. /\ Append(w.said, Text(what, r)) \in Seq(Chunks)
      /\ Len(Append(w.said, Text(what, r))) = Len(w.said) + 1
      /\ \A i \in 1..Len(w.said) : Append(w.said, Text(what, r))[i] = w.said[i]
  <2>1. w.said \in Seq(Chunks) /\ Text(what, r) \in Chunks
    BY <1>1 DEF Work, Chunks, Text
  <2> QED
    BY <2>1, AppendProperties
<1>3. /\ Len(new.said) = Len(w.said) + 1
      /\ \A i \in 1..Len(w.said) : new.said[i] = w.said[i]
      /\ new.thread = thread /\ new.taken = w.taken /\ new.future = w.future
  BY <1>1, <1>2 DEF Work
<1>4. Elems(batch') = Elems(batch) \cup added
  BY <1>1, ElemsAppend, Distinct DEF Says, QueuesOK
<1>5. /\ w.taken \in Nat /\ Len(w.said) \in Nat /\ w.taken <= Len(w.said)
  BY <1>1, Types DEF Spoken
<1>6. \A i \in 1..new.taken : new.said[i] = w.said[i]
  BY <1>3, <1>5
<1>7. Text("process", r) \in added \cup Waiting
  <2>1. CASE Len(w.said) > w.taken
    BY <1>5, <2>1 DEF Served, InHand
  <2>2. CASE ~(Len(w.said) > w.taken)
    BY <2>2
  <2> QED
    BY <2>1, <2>2
<1>8. added \subseteq Own(r) /\ Text("done", r) \notin added
  BY <1>1, Distinct DEF Own
<1> HIDE DEF new, added, w
<1>9. w = work[r]
  BY DEF w
<1> QED
  BY <1>1, <1>3, <1>4, <1>6, <1>7, <1>8, <1>9, ThreadServed

LEMMA CompletesServed ==
  ASSUME PanelInv, QueuesOK, Served, NEW r, r = current, Completes(r)
  PROVE  Served'
<1> DEFINE w   == work[r]
           new == IF w.future = "cancelled" THEN [w EXCEPT !.thread = "through"]
                  ELSE [w EXCEPT !.thread = "through",
                          !.future = IF w.thread = "threw" THEN "failed" ELSE "done"]
           added == IF w.future = "cancelled" THEN {} ELSE {Text("done", r)}
<1>1. /\ r \in Requests /\ w \in Work /\ Spoken(r, w)
      /\ work' = [work EXCEPT ![r] = new] /\ PanelAlone
      /\ w.thread \in {"returned", "threw"}
  BY DEF Completes, Becomes, Served, Alone, PanelInv
<1>2. /\ new.said = w.said /\ new.thread = "through" /\ new.taken = w.taken
      /\ new.future = IF w.future = "cancelled" THEN w.future
                      ELSE IF w.thread = "threw" THEN "failed" ELSE "done"
  BY <1>1 DEF Work
<1>3. w.future \in {"pending", "cancelled"}
  BY <1>1 DEF Spoken
<1>4. Elems(batch') = Elems(batch) \cup added
  <2>1. Text("done", r) \in Texts
    BY <1>1, Distinct
  <2>2. CASE w.future = "cancelled"
    BY <2>2 DEF Completes
  <2>3. CASE w.future # "cancelled"
    <3>1. batch' = Append(batch, Text("done", r))
      BY <2>3 DEF Completes
    <3> QED
      BY <2>1, <2>3, <3>1, ElemsAppend DEF QueuesOK
  <2> QED
    BY <2>2, <2>3
<1>5. new.taken < Len(new.said) => Text("process", r) \in added \cup Waiting
  BY <1>2 DEF Served, InHand
<1>6. added \subseteq Own(r)
  BY DEF Own
<1>7. w = work[r] /\ (added = {} \/ w.future # "cancelled")
      /\ (w.future = "cancelled" \/ Text("done", r) \in added)
  OBVIOUS
<1> HIDE DEF new, added, w
<1> QED
  BY <1>1, <1>2, <1>3, <1>4, <1>5, <1>6, <1>7, ThreadServed

LEMMA ThreadStepServed ==
  ASSUME PanelInv, QueuesOK, Served, NEW q \in Requests, Thread(q)
  PROVE  Served'
<1> DEFINE w == work[q]
<1>1. q = current
  <2>1. w.thread \notin {"new", "through"}
    BY DEF Thread, Begin, NeverBegins, Goes, Read, NoticesInterrupt, More, Publish,
           Breaks, Throws, EndOfStream, Completes
  <2> QED
    BY <2>1 DEF Served, Alone
<1>2. w \in Work /\ KeepsPace(w)
  BY DEF PanelInv
<1>3. CASE Begin(q) \/ NeverBegins(q) \/ Throws(q) \/ EndOfStream(q)
  <2>1. PICK thread \in {"reading", "through", "threw", "returned"} :
          Becomes(q, [w EXCEPT !.thread = thread]) /\ OnlyWork
    BY <1>3 DEF Begin, NeverBegins, Throws, EndOfStream, Goes
  <2> DEFINE new == [w EXCEPT !.thread = thread]
  <2>2. new \in Work /\ new.thread # "new" /\ new.taken = w.taken
        /\ new.said = w.said /\ new.future = w.future
    BY <1>2 DEF Work
  <2> HIDE DEF new
  <2> QED
    BY <1>1, <2>1, <2>2, SilentServed DEF new
<1>4. CASE Read(q)
  <2> DEFINE new == [w EXCEPT !.read = w.read + 1, !.thread = "holding"]
  <2>0. w.read + 1 \in Nat
    BY <1>2, Types
  <2>1. Becomes(q, new) /\ OnlyWork
    BY <1>4 DEF Read
  <2>2. new \in Work /\ new.thread # "new" /\ new.taken = w.taken
        /\ new.said = w.said /\ new.future = w.future
    BY <1>2, <2>0 DEF Work
  <2> HIDE DEF new
  <2> QED
    BY <1>1, <2>1, <2>2, SilentServed
<1>5. CASE NoticesInterrupt(q) \/ Breaks(q)
  BY <1>1, <1>5, SaysServed DEF NoticesInterrupt, Breaks
<1>6. CASE Publish(q)
  <2>1. w.thread = "holding" /\ Says(q, w.answer[w.read], "reading")
    BY <1>6 DEF Publish
  <2>2. w.read \in 1..Len(w.answer)
    BY <1>2, <2>1, Types DEF KeepsPace
  <2>3. w.answer[w.read] \in {"content", "result"}
    BY <1>2, <2>2, ElementOfSeq DEF Work
  <2> QED
    BY <1>1, <2>1, <2>3, SaysServed
<1>7. CASE Completes(q)
  BY <1>1, <1>7, CompletesServed
<1> QED
  BY <1>3, <1>4, <1>5, <1>6, <1>7 DEF Thread

-----------------------------------------------------------------------------
(* What process does                                                       *)

LEMMA TextsOfChunks == Seq(Chunks) \subseteq Seq(Texts)
<1>1. Chunks \subseteq Texts
  BY DEF Chunks, Texts
<1> QED
  BY <1>1, SeqMonotonic

LEMMA PartIsSeq ==
  ASSUME NEW u \in Seq(Chunks), NEW a \in Nat, NEW n \in Nat, a + n <= Len(u)
  PROVE  LET part == [i \in 1..n |-> u[a + i]]
         IN  /\ part \in Seq(Chunks) /\ Len(part) = n
             /\ \A i \in 1..n : part[i] = u[a + i]
<1> DEFINE part == [i \in 1..n |-> u[a + i]]
<1>1. \A i \in 1..n : a + i \in 1..Len(u)
  BY LenProperties
<1>2. \A i \in 1..n : u[a + i] \in Chunks
  BY <1>1, ElementOfSeq
<1>3. part \in Seq(Chunks)
  BY <1>2, IsASeq
<1>4. DOMAIN part = 1..n /\ \A i \in 1..n : part[i] = u[a + i]
  OBVIOUS
<1> HIDE DEF part
<1>5. Len(part) = n
  <2>1. Len(part) \in Nat /\ 1..n = 1..Len(part)
    BY <1>3, <1>4, LenProperties
  <2> QED
    BY <2>1
<1> QED
  BY <1>3, <1>4, <1>5 DEF part

(* It appends the content and posts the rest, in the order of what has     *)
(* been said since the last batch.                                         *)
LEMMA ProcessDoes ==
  ASSUME NEW r \in Requests, NEW w \in Work, w = work[r], Spoken(r, w)
  PROVE  LET k == w.taken
             n == Len(w.said)
         IN  \E m \in 0..(n - k) :
               /\ \A i \in 1..n : i > k => (IsContent(w.said[i]) <=> i <= k + m)
               /\ Appends(Unhandled(r)) \in Seq(Chunks)
               /\ Len(Appends(Unhandled(r))) = m
               /\ \A i \in 1..m : Appends(Unhandled(r))[i] = w.said[k + i]
               /\ Posts(Unhandled(r)) \in Seq(Chunks)
               /\ Len(Posts(Unhandled(r))) = n - k - m
               /\ \A i \in 1..(n - k - m) : Posts(Unhandled(r))[i] = w.said[k + m + i]
<1> DEFINE k == w.taken
           n == Len(w.said)
           u == Unhandled(r)
<1>1. k \in Nat /\ n \in Nat /\ k <= n /\ w.said \in Seq(Chunks)
  BY Types DEF Spoken, Work
<1>2. u \in Seq(Chunks) /\ Len(u) = n - k /\ \A i \in 1..(n - k) : u[i] = w.said[k + i]
  <2> DEFINE j == k + 1
  <2>3. u = SubSeq(w.said, j, n)
    BY DEF Unhandled
  <2>2. \A i \in j..n : w.said[i] \in Chunks
    <3>1. \A i \in j..n : i \in 1..n
      BY <1>1
    <3> QED
      BY <1>1, <3>1, ElementOfSeq
  <2> HIDE DEF k, n, u
  <2>0. j \in Int /\ n \in Int
    BY <1>1
  <2>1. /\ n - j + 1 = n - k
        /\ \A i \in 1..(n - k) : j + i - 1 = k + i
    BY <1>1
  <2>7. (IF j <= n THEN n - j + 1 ELSE 0) = n - k
    BY <1>1
  <2> HIDE DEF j
  <2>4. /\ u \in Seq(Chunks) /\ Len(u) = (IF j <= n THEN n - j + 1 ELSE 0)
        /\ \A i \in 1..(n - j + 1) : u[i] = w.said[j + i - 1]
    BY <2>0, <2>2, <2>3, SubSeqProperties
  <2>5. Len(u) = n - k /\ \A i \in 1..(n - k) : u[i] = w.said[j + i - 1]
    BY <2>1, <2>4, <2>7
  <2>6. \A i \in 1..(n - k) : w.said[j + i - 1] = w.said[k + i]
    BY <2>1
  <2> QED
    BY <2>4, <2>5, <2>6
<1> HIDE DEF k, n, u
<1>3. \A i \in 1..(n - k) : k + i \in 1..n
  BY <1>1
<1>4. \A i, j \in 1..Len(u) : i < j /\ IsContent(u[j]) => IsContent(u[i])
  <2> SUFFICES ASSUME NEW i \in 1..(n - k), NEW j \in 1..(n - k), i < j, IsContent(u[j])
               PROVE  IsContent(u[i])
    BY <1>2
  <2>1. k + i \in 1..n /\ k + j \in 1..n /\ k + i < k + j
    BY <1>1
  <2>2. IsContent(w.said[k + j])
    BY <1>2
  <2>3. IsContent(w.said[k + i])
    BY <2>1, <2>2 DEF Spoken, n
  <2> QED
    BY <1>2, <2>3
<1>5. PICK m \in 0..Len(u) :
        /\ \A i \in 1..Len(u) : IsContent(u[i]) <=> i <= m
        /\ Appends(u) = [i \in 1..m |-> u[i]]
        /\ Posts(u) = [i \in 1..(Len(u) - m) |-> u[m + i]]
  BY <1>2, <1>4, AppendsThenPosts
<1>6. m \in 0..(n - k) /\ m \in Nat
  BY <1>1, <1>2
<1>7. \A i \in 1..n : i > k => (IsContent(w.said[i]) <=> i <= k + m)
  <2> SUFFICES ASSUME NEW i \in 1..n, i > k
               PROVE  IsContent(w.said[i]) <=> i <= k + m
    OBVIOUS
  <2>1. i - k \in 1..(n - k) /\ k + (i - k) = i /\ (i - k <= m <=> i <= k + m)
    BY <1>1, <1>6
  <2>2. u[i - k] = w.said[i]
    BY <1>2, <2>1
  <2> QED
    BY <1>2, <1>5, <2>1, <2>2
<1>8. /\ Appends(u) \in Seq(Chunks) /\ Len(Appends(u)) = m
      /\ \A i \in 1..m : Appends(u)[i] = w.said[k + i]
  <2>1. 0 \in Nat /\ 0 + m <= Len(u)
    BY <1>1, <1>2, <1>6
  <2>2. [i \in 1..m |-> u[0 + i]] = [i \in 1..m |-> u[i]]
    <3>1. \A i \in 1..m : 0 + i = i
      BY <1>6
    <3> QED
      BY <3>1
  <2>3. \A i \in 1..m : u[0 + i] = w.said[k + i]
    BY <1>1, <1>2, <1>6
  <2> QED
    BY <1>2, <1>5, <1>6, <2>1, <2>2, <2>3, PartIsSeq
<1>9. /\ Posts(u) \in Seq(Chunks) /\ Len(Posts(u)) = n - k - m
      /\ \A i \in 1..(n - k - m) : Posts(u)[i] = w.said[k + m + i]
  <2> DEFINE d == n - k - m
  <2>1. d \in Nat /\ m + d <= Len(u) /\ Len(u) - m = d
    BY <1>1, <1>2, <1>6
  <2>2. \A i \in 1..d : m + i \in 1..(n - k) /\ k + (m + i) = k + m + i
    BY <1>1, <1>6
  <2> HIDE DEF d
  <2>3. Posts(u) = [i \in 1..d |-> u[m + i]]
    BY <1>5, <2>1
  <2>4. /\ Posts(u) \in Seq(Chunks) /\ Len(Posts(u)) = d
        /\ \A i \in 1..d : Posts(u)[i] = u[m + i]
    BY <1>2, <1>6, <2>1, <2>3, PartIsSeq, SMTT(30)
  <2>5. \A i \in 1..d : Posts(u)[i] = w.said[k + m + i]
    BY <1>2, <2>2, <2>4
  <2> QED
    BY <2>4, <2>5 DEF d
<1> QED
  BY <1>6, <1>7, <1>8, <1>9 DEF k, n, u

(* Own texts appended.                                                     *)
LEMMA AppendedOwn ==
  ASSUME NEW r \in Requests, NEW posted \in Seq(Texts), NEW shown \in Seq(Texts),
         NEW more \in Seq(Texts), OwnTexts(r, posted, shown),
         Loading(r) \notin Elems(posted), \A x \in Elems(more) : x.of = r
  PROVE  /\ OwnTexts(r, posted, shown \o more)
         /\ LoadingGoes(r, posted, shown) => LoadingGoes(r, posted, shown \o more)
<1> DEFINE m == Len(shown)
           n == Len(more)
           new == shown \o more
<1>1. /\ m \in Nat /\ n \in Nat /\ Len(new) = m + n
      /\ \A i \in 1..(m + n) : new[i] = IF i <= m THEN shown[i] ELSE more[i - m]
  BY LenProperties, ConcatProperties
<1>2. Elems(new) = Elems(shown) \cup Elems(more)
  BY ElemsConcat
<1>3. shown # << >> /\ m # 0
  BY EmptySeq DEF OwnTexts
<1> HIDE DEF m, n, new
<1>4. new[1] = shown[1] /\ new # << >>
  <2>1. 1 \in 1..(m + n) /\ 1 <= m /\ Len(new) # 0
    BY <1>1, <1>3
  <2> QED
    BY <1>1, <2>1, EmptySeq
<1>5. OwnTexts(r, posted, new)
  BY <1>2, <1>4 DEF OwnTexts
<1>6. LoadingGoes(r, posted, shown) => LoadingGoes(r, posted, new)
  BY <1>4 DEF LoadingGoes
<1> QED
  BY <1>5, <1>6 DEF new

LEMMA ProcessDisplay ==
  ASSUME NEW r \in Requests, NEW w \in Work, w = work[r], Spoken(r, w),
         NEW posted \in Seq(Texts), NEW shown \in Seq(Texts),
         Displayed(r, w, posted, shown), Loading(r) \notin Elems(posted),
         NEW new, new.taken = Len(w.said), new.said = w.said, new.future = w.future
  PROVE  /\ Displayed(r, new, posted \o Posts(Unhandled(r)), shown \o Appends(Unhandled(r)))
         /\ Loading(r) \notin Elems(posted \o Posts(Unhandled(r)))
         /\ w.said = << >> => /\ posted \o Posts(Unhandled(r)) = posted
                              /\ shown \o Appends(Unhandled(r)) = shown
<1> DEFINE k == w.taken
           n == Len(w.said)
           posts == Posts(Unhandled(r))
           appends == Appends(Unhandled(r))
           posted2 == posted \o posts
           shown2 == shown \o appends
<1>1. k \in Nat /\ n \in Nat /\ k <= n /\ w.said \in Seq(Chunks)
  BY Types DEF Spoken, Work
<1>2. PICK m \in 0..(n - k) :
        /\ \A i \in 1..n : i > k => (IsContent(w.said[i]) <=> i <= k + m)
        /\ appends \in Seq(Chunks) /\ Len(appends) = m
        /\ \A i \in 1..m : appends[i] = w.said[k + i]
        /\ posts \in Seq(Chunks) /\ Len(posts) = n - k - m
        /\ \A i \in 1..(n - k - m) : posts[i] = w.said[k + m + i]
  BY ProcessDoes
<1>3. appends \in Seq(Texts) /\ posts \in Seq(Texts)
  BY <1>2, TextsOfChunks
<1> HIDE DEF k, n, posts, appends
<1>4. \A i \in 1..n : w.said[i] \in Chunks /\ w.said[i].of = r
  BY <1>1, ElementOfSeq DEF Spoken, n
<1>5. \A x \in Elems(posts) \cup Elems(appends) : x \in Chunks /\ x.of = r
  <2>1. \A i \in 1..(n - k - m) : k + m + i \in 1..n
    BY <1>1, <1>2
  <2>2. \A i \in 1..m : k + i \in 1..n
    BY <1>1, <1>2
  <2>3. ASSUME NEW i \in 1..Len(posts) PROVE posts[i] \in Chunks /\ posts[i].of = r
    <3>1. i \in 1..(n - k - m)
      BY <1>2
    <3> QED
      BY <1>2, <1>4, <2>1, <3>1
  <2>4. ASSUME NEW i \in 1..Len(appends) PROVE appends[i] \in Chunks /\ appends[i].of = r
    <3>1. i \in 1..m
      BY <1>2
    <3> QED
      BY <1>2, <1>4, <2>2, <3>1
  <2> QED
    BY <2>3, <2>4 DEF Elems
<1>6. \A x \in Elems(posts) : x.of = r /\ x # Loading(r)
  BY <1>5, Distinct
<1>7. /\ OwnTexts(r, posted2, shown) /\ Loading(r) \notin Elems(posted2)
      /\ LoadingGoes(r, posted, shown) => LoadingGoes(r, posted2, shown)
  BY <1>3, <1>6, PostedOwn DEF Displayed
<1>8. posted2 \in Seq(Texts)
  BY <1>3, ConcatProperties
<1>9. /\ OwnTexts(r, posted2, shown2)
      /\ LoadingGoes(r, posted, shown) => LoadingGoes(r, posted2, shown2)
  BY <1>3, <1>5, <1>7, <1>8, AppendedOwn
<1>10. n - k - m = 0 => posted2 = posted
  <2>1. n - k - m = 0 => posts = << >>
    BY <1>2, EmptySeq
  <2> QED
    BY <2>1, ConcatEmptySeq
<1>11. m = 0 => shown2 = shown
  <2>1. m = 0 => appends = << >>
    BY <1>2, EmptySeq
  <2> QED
    BY <2>1, ConcatEmptySeq
<1>12. n - k - m # 0 => FinalIs(w.said[n], posted2, shown2)
  <2> SUFFICES ASSUME n - k - m # 0
               PROVE  FinalIs(w.said[n], posted2, shown2)
    OBVIOUS
  <2>1. n - k - m \in 1..(n - k - m) /\ k + m + (n - k - m) = n /\ n \in 1..n
    BY <1>1, <1>2
  <2>2. posts[n - k - m] = w.said[n]
    BY <1>2, <2>1
  <2>3. posts[Len(posts)] = w.said[n] /\ w.said[n] # Flush
    BY <1>2, <1>4, <2>1, <2>2, Distinct
  <2>4. posts # << >>
    <3>1. Len(posts) # 0
      BY <1>2
    <3> QED
      BY <3>1, EmptySeq
  <2> QED
    BY <1>3, <2>3, <2>4, FinalPosted
<1>13. AsTaken(r, w, posted, shown) => AsTaken(r, new, posted2, shown2)
  <2> SUFFICES ASSUME AsTaken(r, w, posted, shown)
               PROVE  AsTaken(r, new, posted2, shown2)
    OBVIOUS
  <2>0. new.taken = n /\ new.said = w.said /\ k = w.taken
    BY DEF n, k
  <2>1. CASE \A i \in 1..n : IsContent(w.said[i])
    <3>1. \A i \in 1..k : IsContent(w.said[i])
      BY <1>1, <2>1
    <3>2. /\ Elems(posted) \subseteq {Flush} /\ Len(shown) = k + 1
          /\ shown[1] = Loading(r) /\ \A i \in 1..k : shown[i + 1] = w.said[i]
      BY <2>0, <3>1 DEF AsTaken
    <3>3. m = n - k
      <4>1. CASE n = k
        BY <1>1, <1>2, <4>1
      <4>2. CASE n # k
        <5>1. n \in 1..n /\ n > k
          BY <1>1, <4>2
        <5>2. n <= k + m
          BY <1>2, <2>1, <5>1
        <5> QED
          BY <1>1, <1>2, <5>2
      <4> QED
        BY <4>1, <4>2
    <3>4. posted2 = posted
      BY <1>1, <1>10, <3>3
    <3>5. /\ Len(shown2) = (k + 1) + m
          /\ \A i \in 1..((k + 1) + m) :
               shown2[i] = IF i <= k + 1 THEN shown[i] ELSE appends[i - (k + 1)]
      <4>1. /\ Len(shown2) = Len(shown) + Len(appends)
            /\ \A i \in 1..(Len(shown) + Len(appends)) :
                 shown2[i] = IF i <= Len(shown) THEN shown[i] ELSE appends[i - Len(shown)]
        BY <1>3, ConcatProperties
      <4>2. Len(shown) = k + 1 /\ Len(appends) = m
        BY <1>2, <3>2
      <4> HIDE DEF shown2
      <4> QED
        BY <4>1, <4>2
    <3>6. Len(shown2) = n + 1 /\ shown2[1] = Loading(r)
      <4>1. (k + 1) + m = n + 1 /\ 1 \in 1..((k + 1) + m) /\ 1 <= k + 1
        BY <1>1, <3>3
      <4> HIDE DEF shown2
      <4> QED
        BY <3>2, <3>5, <4>1
    <3>7. ASSUME NEW i \in 1..n PROVE shown2[i + 1] = w.said[i]
      <4>1. CASE i <= k
        <5>1. i + 1 \in 1..((k + 1) + m) /\ i + 1 <= k + 1 /\ i \in 1..k
          BY <1>1, <3>3, <4>1
        <5> QED
          BY <3>2, <3>5, <5>1
      <4>2. CASE ~(i <= k)
        <5>1. /\ i + 1 \in 1..((k + 1) + m) /\ ~(i + 1 <= k + 1)
              /\ (i + 1) - (k + 1) = i - k /\ i - k \in 1..m /\ k + (i - k) = i
          BY <1>1, <3>3, <4>2
        <5>2. shown2[i + 1] = appends[i - k]
          BY <3>5, <5>1
        <5> QED
          BY <1>2, <5>1, <5>2
      <4> QED
        BY <4>1, <4>2
    <3> HIDE DEF posted2, shown2
    <3> QED
      BY <2>0, <2>1, <3>2, <3>4, <3>6, <3>7 DEF AsTaken
  <2>2. CASE ~(\A i \in 1..n : IsContent(w.said[i]))
    <3>1. CASE n - k - m # 0
      <4> HIDE DEF posted2, shown2
      <4> QED
        BY <1>12, <2>0, <2>2, <3>1 DEF AsTaken
    <3>2. CASE n - k - m = 0
      <4>1. ~(\A i \in 1..k : IsContent(w.said[i]))
        <5> SUFFICES ASSUME \A i \in 1..k : IsContent(w.said[i]) PROVE FALSE
          OBVIOUS
        <5>1. ASSUME NEW i \in 1..n PROVE IsContent(w.said[i])
          <6>1. i \in 1..k \/ (i > k /\ i <= k + m)
            BY <1>1, <1>2, <3>2
          <6> QED
            BY <1>2, <6>1
        <5> QED
          BY <2>2, <5>1
      <4>2. n = k /\ m = 0
        <5>1. PICK i \in 1..k : ~IsContent(w.said[i])
          BY <4>1
        <5>2. CASE n = k
          BY <1>1, <1>2, <3>2, <5>2
        <5>3. CASE n # k
          <6>1. n \in 1..n /\ i \in 1..n /\ i < n /\ n > k /\ n <= k + m
            BY <1>1, <1>2, <3>2, <5>3
          <6>2. IsContent(w.said[n])
            BY <1>2, <6>1
          <6>3. IsContent(w.said[i])
            BY <6>1, <6>2 DEF Spoken, n
          <6> QED
            BY <5>1, <6>3
        <5> QED
          BY <5>2, <5>3
      <4>3. posted2 = posted /\ shown2 = shown
        BY <1>10, <1>11, <3>2, <4>2
      <4> HIDE DEF posted2, shown2
      <4> QED
        BY <2>0, <4>2, <4>3 DEF AsTaken
    <3> QED
      BY <3>1, <3>2
  <2> QED
    BY <2>1, <2>2
<1>14. w.said = << >> => posted2 = posted /\ shown2 = shown
  <2>1. w.said = << >> => n = 0
    BY EmptySeq DEF n
  <2> QED
    BY <1>1, <1>2, <1>10, <1>11, <2>1
<1> HIDE DEF posted2, shown2
<1> QED
  BY <1>7, <1>9, <1>13, <1>14 DEF Displayed, posted2, shown2, posts, appends

-----------------------------------------------------------------------------
(* Every queue and the area hold texts.                                    *)

LEMMA QueuesStep == PanelInv /\ QueuesOK /\ [Next]_vars => QueuesOK'
<1> SUFFICES ASSUME PanelInv, QueuesOK, [Next]_vars PROVE QueuesOK'
  OBVIOUS
<1> USE DEF QueuesOK
<1>1. CASE UNCHANGED vars
  BY <1>1 DEF vars
<1>2. ASSUME NEW r \in Requests, Thread(r) PROVE QueuesOK'
  <2>1. UNCHANGED <<running, edt, area>>
    BY <1>2 DEF Thread, Begin, NeverBegins, Read, NoticesInterrupt, Publish, Breaks,
                Throws, EndOfStream, Completes, Says, OnlyWork, PanelAlone
  <2>2. \/ batch' = batch
        \/ \E what \in {"process", "done"} : batch' = Append(batch, Text(what, r))
    BY <1>2 DEF Thread, Begin, NeverBegins, Read, NoticesInterrupt, Publish, Breaks,
                Throws, EndOfStream, Completes, Says, OnlyWork
  <2>3. \A what \in {"process", "done"} : Text(what, r) \in Texts
    BY Distinct
  <2>4. batch' \in Seq(Texts)
    <3>1. \A x \in Texts : Append(batch, x) \in Seq(Texts)
      BY AppendProperties
    <3> QED
      BY <2>2, <2>3, <3>1
  <2> QED
    BY <2>1, <2>4
<1>3. ASSUME NEW r \in Requests, NEW kind, NEW answer, Start(r, kind, answer)
      PROVE  QueuesOK'
  <2>1. Farewell \in Seq(Texts) /\ <<Text("loading", r)>> \in Seq(Texts)
    <3>1. Text("loading", r) \in Texts /\ (Cancels => Text("cancelled", active) \in Texts)
      BY DEF Texts, Text, PanelInv, Cancels
    <3> QED
      BY <3>1, EmptySeq DEF Farewell
  <2>2. edt' \in Seq(Texts)
    BY <1>3, <2>1, ConcatProperties DEF Start
  <2> QED
    BY <1>3, <2>2 DEF Start
<1>4. CASE Cancel
  <2>1. Farewell \in Seq(Texts)
    <3>1. Cancels => Text("cancelled", active) \in Texts
      BY DEF Texts, Text, PanelInv, Cancels
    <3> QED
      BY <3>1, EmptySeq DEF Farewell
  <2>2. edt' \in Seq(Texts)
    BY <1>4, <2>1, ConcatProperties DEF Cancel
  <2> QED
    BY <1>4, <2>2 DEF Cancel
<1>5. CASE Note \/ TimerFires
  <2>1. Flush \in Texts /\ Text("note", None) \in Texts
    BY DEF Texts, Text, Flush
  <2>2. edt' \in Seq(Texts)
    <3>1. \A x \in Texts : Append(edt, x) \in Seq(Texts)
      BY AppendProperties
    <3> QED
      BY <1>5, <2>1, <3>1 DEF Note, TimerFires
  <2> QED
    BY <1>5, <2>2 DEF Note, TimerFires
<1>6. CASE SetText
  <2>1. Head(edt) \in Texts /\ Tail(edt) \in Seq(Texts)
    BY <1>6, HeadTailProperties DEF SetText
  <2>2. area' \in Seq(Texts)
    BY <1>6, <2>1 DEF SetText
  <2> QED
    BY <1>6, <2>1, <2>2 DEF SetText
<1>7. CASE TakeBatch
  <2>1. Tail(edt) \in Seq(Texts) /\ << >> \in Seq(Texts)
    BY <1>7, HeadTailProperties, EmptySeq DEF TakeBatch
  <2> QED
    BY <1>7, <2>1 DEF TakeBatch
<1>8. ASSUME NEW r \in Requests, Process(r) PROVE QueuesOK'
  <2>1. Tail(running) \in Seq(Texts)
    BY <1>8, HeadTailProperties DEF Process, Runs
  <2>2. Appends(Unhandled(r)) \in Seq(Texts) /\ Posts(Unhandled(r)) \in Seq(Texts)
    <3>1. work[r] \in Work /\ Spoken(r, work[r])
      BY DEF PanelInv
    <3> QED
      BY <3>1, ProcessDoes, TextsOfChunks
  <2>3. area' \in Seq(Texts) /\ edt' \in Seq(Texts)
    BY <1>8, <2>2, ConcatProperties DEF Process
  <2> QED
    BY <1>8, <2>1, <2>3 DEF Process, Runs
<1>9. ASSUME NEW r \in Requests, Done(r) PROVE QueuesOK'
  <2>1. Tail(running) \in Seq(Texts)
    BY <1>9, HeadTailProperties DEF Done, Runs
  <2>2. Failure(r) \in Seq(Texts)
    <3>1. Text("error", r) \in Texts
      BY DEF Texts, Text
    <3> QED
      BY <3>1, EmptySeq DEF Failure
  <2>3. edt' \in Seq(Texts)
    BY <1>9, <2>2, ConcatProperties DEF Done
  <2> QED
    BY <1>9, <2>1, <2>3 DEF Done, Runs
<1> QED
  BY <1>1, <1>2, <1>3, <1>4, <1>5, <1>6, <1>7, <1>8, <1>9 DEF Next

-----------------------------------------------------------------------------
(* Clicks and the event dispatch thread                                    *)

(* A request started in a settled panel is served from the beginning.      *)
LEMMA StartServed ==
  ASSUME PanelInv, QueuesOK, Settled, NEW r \in Requests, NEW kind, NEW answer,
         Start(r, kind, answer)
  PROVE  Served'
<1> DEFINE new == [work[r] EXCEPT !.kind = kind, !.answer = answer, !.thread = "queued"]
<1>1. ~Cancels
  <2> SUFFICES ASSUME active # None, work[active].future = "pending" PROVE FALSE
    BY DEF Cancels
  <2>1. active \in Requests /\ work[active].thread = "through"
    BY DEF PanelInv, Settled
  <2>2. Spoken(active, work[active])
    BY <2>1 DEF PanelInv
  <2> QED
    BY <2>1, <2>2 DEF Spoken
<1>2. /\ work[r] \in Work /\ KeepsPace(work[r]) /\ Spoken(r, work[r])
      /\ work[r].thread = "new"
  BY DEF PanelInv, Start
<1>3. work[r].said = << >> /\ work[r].taken = 0 /\ work[r].future = "pending"
  BY <1>2, Types, EmptySeq DEF KeepsPace, Spoken
<1>4. /\ new.said = << >> /\ new.taken = 0 /\ new.future = "pending"
      /\ new.thread = "queued"
  BY <1>2, <1>3 DEF Work
<1>5. work'[r] = new /\ \A q \in Requests \ {r} : work'[q] = work[q]
  BY <1>1 DEF Start, Cancelled, PanelInv
<1>6. /\ edt' = <<Loading(r)>> /\ batch' = << >> /\ running' = << >>
      /\ cancellable' = TRUE /\ active' = r /\ current' = r
  <2>1. edt = << >> /\ Farewell = << >> /\ batch = << >> /\ running = << >>
    BY <1>1 DEF Settled, Idle, Farewell
  <2>2. << >> \o << >> \o <<Loading(r)>> = <<Loading(r)>>
    OBVIOUS
  <2> QED
    BY <2>1, <2>2 DEF Start, Loading
<1> HIDE DEF new
<1>7. Alone'
  <2>1. \A q \in Requests \ {r} : work'[q].thread \in {"new", "through"}
    BY <1>5 DEF Settled
  <2> QED
    BY <1>4, <1>5, <1>6, <2>1 DEF Alone
<1>8. Waiting' = {}
  BY <1>6, ElemsEmpty DEF Waiting
<1>9. InHand({}, r, new)
  BY <1>4, EmptySeq DEF InHand
<1>10. Elems(<<Loading(r)>>) = {Loading(r)} /\ Len(<<Loading(r)>>) = 1
  BY DEF Elems
<1>11. Displayed(r, new, edt', area')
  <2>1. OwnTexts(r, edt', area')
    <3>1. \A i \in 1..1 : i = 1
      OBVIOUS
    <3> QED
      BY <1>6, <1>10, <3>1, Distinct DEF OwnTexts, Loading
  <2>2. AsTaken(r, new, edt', area')
    <3>1. \A i \in 1..new.taken : IsContent(new.said[i])
      BY <1>4
    <3> QED
      BY <1>4, <1>6, <1>10, <3>1 DEF AsTaken
  <2> QED
    BY <1>4, <2>1, <2>2 DEF Displayed
<1>12. Ends({}, r, new, edt', area')
  BY <1>4 DEF Ends
<1> QED
  BY <1>5, <1>6, <1>7, <1>8, <1>9, <1>11, <1>12 DEF Served

LEMMA CancelServed ==
  ASSUME PanelInv, QueuesOK, Served, Cancel
  PROVE  Served'
<1> DEFINE r == current
           w == work[r]
           new == [w EXCEPT !.future = "cancelled", !.heard = Len(w.said)]
<1>1. /\ r \in Requests /\ w \in Work /\ r' = r /\ Waiting' = Waiting
      /\ running' = running /\ area' = area
  BY DEF Cancel, Served, Alone, PanelInv, Waiting
<1>2. CASE ~Cancels
  <2>1. work' = work /\ edt' = edt /\ active' = active
    <3>1. edt \o << >> = edt
      BY ConcatEmptySeq DEF QueuesOK
    <3> QED
      BY <1>2, <3>1 DEF Cancel, Cancelled, Farewell
  <2>2. w.future # "pending"
    <3>1. w.future = "pending" => active = r /\ active # None
      BY <1>1, PanelAssumption DEF Served, Alone
    <3> QED
      BY <1>2, <3>1 DEF Cancels
  <2>3. Alone'
    BY <1>1, <2>1, <2>2 DEF Served, Alone
  <2> QED
    BY <1>1, <2>1, <2>3 DEF Served
<1>3. CASE Cancels
  <2>1. active = r /\ w.future = "pending"
    <3>1. active \in Requests /\ work[active].future = "pending" /\ work[active].thread # "new"
      BY <1>3 DEF Cancels, PanelInv
    <3>2. work[active].thread # "through"
      BY <3>1 DEF PanelInv, Spoken
    <3> QED
      BY <3>1, <3>2 DEF Served, Alone
  <2>2. /\ new.future = "cancelled"
        /\ new.thread = w.thread /\ new.said = w.said /\ new.taken = w.taken
    BY <1>1 DEF Work
  <2>3. work' = [work EXCEPT ![r] = new]
    BY <1>1, <1>3, <2>1 DEF Cancel, Cancelled, PanelInv
  <2>4. work'[r] = new /\ \A q \in Requests \ {r} : work'[q] = work[q]
    BY <1>1, <2>3 DEF PanelInv
  <2> DEFINE more == <<Text("cancelled", r)>>
  <2>5. edt' = edt \o more /\ more \in Seq(Texts) /\ Elems(more) = {Text("cancelled", r)}
    <3>1. Text("cancelled", r) \in Texts
      BY <1>1, Distinct
    <3> QED
      BY <1>3, <2>1, <3>1 DEF Cancel, Farewell, Elems
  <2> HIDE DEF new, more, w
  <2>6. \A x \in Elems(more) : x.of = r /\ x # Loading(r)
    BY <1>1, <2>5, Distinct
  <2>7. OwnTexts(r, edt', area)
    BY <1>1, <2>5, <2>6, PostedOwn DEF QueuesOK, Served, Displayed
  <2>8. LoadingGoes(r, edt', area)
    <3>1. Text("cancelled", r) \in Elems(edt')
      BY <2>5, ElemsConcat DEF QueuesOK
    <3> QED
      BY <1>1, <3>1, Distinct DEF LoadingGoes
  <2>9. Displayed(r, new, edt', area)
    BY <2>2, <2>7, <2>8 DEF Displayed
  <2>10. InHand(Waiting, r, new)
    BY <2>1, <2>2 DEF Served, InHand, w
  <2>11. Alone'
    BY <1>1, <2>2, <2>4 DEF Served, Alone, w
  <2>12. Ends(Waiting, r, new, edt', area)
    BY <2>2 DEF Ends
  <2>13. running # << >> => Loading(r) \notin Elems(edt')
    BY <1>1, <2>5, <2>6, PostedOwn DEF QueuesOK, Served, Displayed
  <2> QED
    BY <1>1, <2>4, <2>9, <2>10, <2>11, <2>12, <2>13 DEF Served
<1> QED
  BY <1>2, <1>3

LEMMA TimerServed ==
  ASSUME PanelInv, QueuesOK, Served, TimerFires
  PROVE  Served'
<1> DEFINE r == current
           w == work[r]
<1>1. /\ r \in Requests /\ w \in Work /\ r' = r /\ w' = w /\ Waiting' = Waiting
      /\ running' = running /\ area' = area /\ edt' = Append(edt, Flush)
      /\ UNCHANGED <<work, cancellable, active>>
  BY DEF TimerFires, Served, Alone, PanelInv, Waiting
<1> HIDE DEF w
<1>2. Displayed(r, w, edt', area)
  BY <1>1, AnnouncedDisplay DEF QueuesOK, Served, w
<1>3. Ends(Waiting, r, w, edt', area)
  BY <1>1, FinalFlush DEF QueuesOK, Served, Ends, w
<1>4. running # << >> => Loading(r) \notin Elems(edt')
  BY <1>1, ElemsAppend, Distinct DEF QueuesOK, Served
<1>5. Alone'
  BY <1>1 DEF Served, Alone
<1> QED
  BY <1>1, <1>2, <1>3, <1>4, <1>5 DEF Served, w

LEMMA SetTextServed ==
  ASSUME PanelInv, QueuesOK, Served, SetText
  PROVE  Served'
<1> DEFINE r == current
           w == work[r]
<1>1. /\ r \in Requests /\ w \in Work /\ r' = r /\ w' = w /\ Waiting' = Waiting
      /\ running' = << >> /\ area' = <<Head(edt)>> /\ edt' = Tail(edt)
      /\ edt # << >> /\ Head(edt) # Flush
      /\ UNCHANGED <<work, cancellable, active>>
  BY DEF SetText, Served, Alone, PanelInv, Waiting, Idle
<1> HIDE DEF w
<1>2. Displayed(r, w, edt', area')
  BY <1>1, SetDisplay DEF QueuesOK, Served, w
<1>3. Ends(Waiting, r, w, edt', area')
  BY <1>1, FinalTail DEF QueuesOK, Served, Ends, w
<1>4. Alone'
  BY <1>1 DEF Served, Alone
<1> QED
  BY <1>1, <1>2, <1>3, <1>4 DEF Served, w

LEMMA TakeBatchServed ==
  ASSUME PanelInv, QueuesOK, Served, TakeBatch
  PROVE  Served'
<1> DEFINE r == current
           w == work[r]
<1>1. /\ r \in Requests /\ w \in Work /\ r' = r /\ w' = w
      /\ running = << >> /\ running' = batch /\ batch' = << >>
      /\ area' = area /\ edt' = Tail(edt)
      /\ edt # << >> /\ Head(edt) = Flush
      /\ UNCHANGED <<work, cancellable, active>>
  BY DEF TakeBatch, Served, Alone, PanelInv, Idle
<1> HIDE DEF w
<1>2. Waiting' = Waiting
  BY <1>1, ElemsEmpty DEF Waiting
<1>3. Displayed(r, w, edt', area) /\ Loading(r) \notin Elems(edt')
  BY <1>1, TakenDisplay DEF QueuesOK, Served, w
<1>4. Ends(Waiting, r, w, edt', area)
  BY <1>1, FinalTail DEF QueuesOK, Served, Ends, w
<1>5. Alone'
  BY <1>1 DEF Served, Alone
<1> QED
  BY <1>1, <1>2, <1>3, <1>4, <1>5 DEF Served, w

(* What runs next in the event dispatch thread is the request's own.       *)
LEMMA RunsOwn ==
  ASSUME QueuesOK, Served, NEW what, NEW q \in Requests, Runs(what, q)
  PROVE  /\ q = current /\ Text(what, q) \in Waiting
         /\ Waiting' \subseteq Waiting
         /\ \A x \in Waiting : x # Text(what, q) => x \in Waiting'
<1>1. /\ Elems(running) = {Text(what, q)} \cup Elems(running')
      /\ Elems(batch') = Elems(batch)
  BY ElemsHead DEF Runs, QueuesOK
<1>2. Text(what, q) \in Own(current)
  BY <1>1 DEF Served, InHand, Waiting
<1>3. q = current
  BY <1>2 DEF Own, Text
<1> QED
  BY <1>1, <1>3 DEF Waiting

LEMMA ProcessServed ==
  ASSUME PanelInv, QueuesOK, Served, NEW q \in Requests, Process(q)
  PROVE  Served'
<1> DEFINE w == work[q]
           new == [w EXCEPT !.taken = Len(w.said)]
<1>1. /\ q = current /\ Waiting' \subseteq Waiting
      /\ \A x \in Waiting : x # Text("process", q) => x \in Waiting'
  BY RunsOwn DEF Process
<1>2. w \in Work /\ Spoken(q, w) /\ Len(w.said) \in Nat
  BY Types DEF PanelInv
<1>3. /\ new.taken = Len(w.said) /\ new.said = w.said
      /\ new.future = w.future /\ new.thread = w.thread
  BY <1>2 DEF Work
<1>4. work'[q] = new /\ \A p \in Requests \ {q} : work'[p] = work[p]
  BY DEF Process, Becomes, PanelInv
<1>5. /\ running # << >> /\ edt' = edt \o Posts(Unhandled(q))
      /\ area' = area \o Appends(Unhandled(q))
      /\ UNCHANGED <<cancellable, active, current>>
  BY DEF Process, Runs
<1>6. w = work[q]
  OBVIOUS
<1> HIDE DEF new, w
<1>7. /\ Displayed(q, new, edt', area') /\ Loading(q) \notin Elems(edt')
      /\ w.said = << >> => edt' = edt /\ area' = area
  <2>1. Displayed(q, w, edt, area) /\ Loading(q) \notin Elems(edt)
    BY <1>1, <1>5, <1>6 DEF Served
  <2> DEFINE posts == Posts(Unhandled(q))
             appends == Appends(Unhandled(q))
  <2>2. edt \in Seq(Texts) /\ area \in Seq(Texts)
    BY DEF QueuesOK
  <2>3. /\ Displayed(q, new, edt \o posts, area \o appends)
        /\ Loading(q) \notin Elems(edt \o posts)
        /\ w.said = << >> => edt \o posts = edt /\ area \o appends = area
    BY <1>2, <1>3, <1>6, <2>1, <2>2, ProcessDisplay
  <2> QED
    BY <1>5, <2>3
<1>8. Ends(Waiting', q, new, edt', area')
  <2> SUFFICES ASSUME new.future = "failed"
               PROVE  Text("done", q) \in Waiting' \/ FinalIs(Failed(q), edt', area')
    BY DEF Ends
  <2>1. w.said = << >>
    BY <1>2, <1>3 DEF Spoken
  <2>2. Text("done", q) \in Waiting \/ FinalIs(Failed(q), edt, area)
    BY <1>1, <1>3, <1>6 DEF Served, Ends
  <2> QED
    BY <1>1, <1>7, <2>1, <2>2, Distinct
<1>9. InHand(Waiting', q, new)
  <2>1. InHand(Waiting, q, w)
    BY <1>1, <1>6 DEF Served
  <2> QED
    BY <1>1, <1>2, <1>3, <2>1 DEF InHand
<1>10. Alone'
  BY <1>1, <1>3, <1>4, <1>5, <1>6 DEF Served, Alone
<1> QED
  BY <1>1, <1>4, <1>5, <1>7, <1>8, <1>9, <1>10 DEF Served

LEMMA DoneServed ==
  ASSUME PanelInv, QueuesOK, Served, NEW q \in Requests, Done(q)
  PROVE  Served'
<1> DEFINE w == work[q]
<1>1. /\ q = current /\ Text("done", q) \in Waiting /\ Waiting' \subseteq Waiting
      /\ \A x \in Waiting : x # Text("done", q) => x \in Waiting'
  BY RunsOwn DEF Done
<1>2. /\ running # << >> /\ edt' = edt \o Failure(q)
      /\ UNCHANGED <<work, area, active, current>>
  BY DEF Done, Runs
<1>3. w.future \in {"done", "failed"}
  BY <1>1 DEF Served, InHand
<1>4. Displayed(q, w, edt, area) /\ Loading(q) \notin Elems(edt)
  BY <1>1, <1>2 DEF Served
<1>5. Failure(q) \in Seq(Texts) /\ Elems(Failure(q)) \subseteq {Failed(q)}
  <2>1. Failed(q) \in Texts /\ Elems(<<Failed(q)>>) = {Failed(q)} /\ Elems(<< >>) = {}
    BY Distinct DEF Elems
  <2> QED
    BY <2>1, EmptySeq DEF Failure, Failed
<1>6. /\ OwnTexts(q, edt', area) /\ Loading(q) \notin Elems(edt')
  <2>1. \A x \in Elems(Failure(q)) : x.of = q /\ x # Loading(q)
    BY <1>5, Distinct DEF Failed
  <2> QED
    BY <1>2, <1>4, <1>5, <2>1, PostedOwn DEF QueuesOK, Displayed
<1>7. w.future = "done" => edt' = edt
  <2>1. w.future = "done" => Failure(q) = << >>
    BY DEF Failure
  <2> QED
    BY <1>2, <2>1, ConcatEmptySeq DEF QueuesOK
<1>8. w.future = "failed" => FinalIs(Failed(q), edt', area)
  <2> SUFFICES ASSUME w.future = "failed" PROVE FinalIs(Failed(q), edt', area)
    OBVIOUS
  <2>1. Failure(q) = <<Failed(q)>>
    BY DEF Failure, Failed
  <2>2. /\ <<Failed(q)>> # << >> /\ Len(<<Failed(q)>>) = 1
        /\ <<Failed(q)>>[1] = Failed(q)
    OBVIOUS
  <2>3. Failed(q) # Flush
    BY Distinct
  <2> QED
    BY <1>2, <1>5, <2>1, <2>2, <2>3, FinalPosted DEF QueuesOK
<1>9. Displayed(q, w, edt', area)
  BY <1>3, <1>4, <1>6, <1>7 DEF Displayed
<1>10. InHand(Waiting', q, w)
  <2>1. Text("process", q) # Text("done", q)
    BY Distinct
  <2>2. InHand(Waiting, q, w)
    BY <1>1 DEF Served
  <2> QED
    BY <1>1, <2>1, <2>2 DEF InHand
<1>11. Alone'
  BY <1>1, <1>2, <1>3 DEF Served, Alone
<1>12. Ends(Waiting', q, w, edt', area)
  BY <1>8 DEF Ends
<1>13. work'[q] = w
  BY <1>2
<1> HIDE DEF w
<1> QED
  BY <1>1, <1>2, <1>6, <1>9, <1>10, <1>11, <1>12, <1>13 DEF Served

-----------------------------------------------------------------------------
LEMMA ServedStep == ServedInv /\ [Next]_vars => ServedInv'
<1> SUFFICES ASSUME ServedInv, [Next]_vars, quiet' PROVE Served'
  BY StepInv, QueuesStep DEF ServedInv
<1>0. PanelInv /\ QueuesOK /\ (quiet => Served)
  BY DEF ServedInv
<1>1. CASE UNCHANGED vars
  BY <1>0, <1>1 DEF vars, Served, Alone, Waiting
<1>2. ASSUME NEW r \in Requests, Thread(r) PROVE Served'
  <2>1. quiet
    BY <1>2 DEF Thread, Begin, NeverBegins, Goes, Read, NoticesInterrupt, Publish,
                Breaks, Throws, EndOfStream, Completes, Says, OnlyWork, PanelAlone
  <2> QED
    BY <1>0, <1>2, <2>1, ThreadStepServed
<1>3. ASSUME NEW r \in Requests, NEW kind, NEW answer, Start(r, kind, answer)
      PROVE  Served'
  <2>1. Settled
    BY <1>3 DEF Start
  <2> QED
    BY <1>0, <1>3, <2>1, StartServed
<1>4. CASE Cancel
  BY <1>0, <1>4, CancelServed DEF Cancel
<1>5. CASE Note
  BY <1>5 DEF Note
<1>6. CASE TimerFires
  BY <1>0, <1>6, TimerServed DEF TimerFires
<1>7. CASE SetText
  BY <1>0, <1>7, SetTextServed DEF SetText
<1>8. CASE TakeBatch
  BY <1>0, <1>8, TakeBatchServed DEF TakeBatch
<1>9. ASSUME NEW r \in Requests, Process(r) PROVE Served'
  BY <1>0, <1>9, ProcessServed DEF Process, Runs
<1>10. ASSUME NEW r \in Requests, Done(r) PROVE Served'
  BY <1>0, <1>10, DoneServed DEF Done, Runs
<1> QED
  BY <1>1, <1>2, <1>3, <1>4, <1>5, <1>6, <1>7, <1>8, <1>9, <1>10 DEF Next

-----------------------------------------------------------------------------
(* The settled panel shows what was said, from the last text on that       *)
(* replaces everything.                                                    *)
LEMMA ShownIsDisplay ==
  ASSUME NEW r \in Requests, NEW w \in Work, Spoken(r, w),
         NEW shown \in Seq(Texts), w.taken = Len(w.said),
         AsTaken(r, w, << >>, shown)
  PROVE  shown = Display(<<Loading(r)>> \o w.said)
<1> DEFINE n == Len(w.said)
           texts == <<Loading(r)>> \o w.said
           Last(i) == /\ ~IsContent(texts[i])
                      /\ \A j \in (i + 1)..Len(texts) : IsContent(texts[j])
           last == CHOOSE i \in DOMAIN texts : Last(i)
<1>1. n \in Nat /\ w.said \in Seq(Chunks) /\ w.said \in Seq(Texts)
  BY Types, TextsOfChunks DEF Work
<1>2. /\ texts \in Seq(Texts) /\ Len(texts) = n + 1 /\ DOMAIN texts = 1..(n + 1)
      /\ texts[1] = Loading(r) /\ \A i \in 1..n : texts[i + 1] = w.said[i]
  <2>1. <<Loading(r)>> \in Seq(Texts) /\ Len(<<Loading(r)>>) = 1 /\ <<Loading(r)>>[1] = Loading(r)
    BY Distinct
  <2> DEFINE first == <<Loading(r)>>
  <2> HIDE DEF first, n
  <2>2. /\ texts \in Seq(Texts) /\ Len(texts) = 1 + n
        /\ \A i \in 1..(1 + n) : texts[i] = IF i <= 1 THEN first[i] ELSE w.said[i - 1]
    BY <1>1, <2>1, ConcatProperties DEF first, n
  <2>3. 1 \in 1..(1 + n) /\ 1 + n = n + 1
        /\ \A i \in 1..n : i + 1 \in 1..(1 + n) /\ ~(i + 1 <= 1) /\ (i + 1) - 1 = i
    BY <1>1
  <2>4. DOMAIN texts = 1..Len(texts)
    BY <2>2, LenProperties
  <2> HIDE DEF texts
  <2> QED
    BY <2>1, <2>2, <2>3, <2>4 DEF first
<1>3. ~IsContent(texts[1])
  BY <1>2 DEF IsContent, Loading, Text
<1>4. Display(texts) = SubSeq(texts, last, n + 1)
  BY <1>2 DEF Display
<1>5. Elems(<< >>) = {} /\ Loading(r) \notin {}
  BY ElemsEmpty
<1> HIDE DEF n, texts
<1>6. CASE \A i \in 1..n : IsContent(w.said[i])
  <2>1. /\ Len(shown) = n + 1 /\ shown[1] = Loading(r)
        /\ \A i \in 1..n : shown[i + 1] = w.said[i]
    BY <1>5, <1>6 DEF AsTaken, n
  <2>2. \A j \in 2..(n + 1) : IsContent(texts[j])
    <3> TAKE j \in 2..(n + 1)
    <3>1. j - 1 \in 1..n /\ (j - 1) + 1 = j
      BY <1>1
    <3>2. texts[j] = w.said[j - 1]
      BY <1>2, <3>1
    <3> QED
      BY <1>6, <3>1, <3>2
  <2>3. Last(1) /\ 1 \in DOMAIN texts
    BY <1>1, <1>2, <1>3, <2>2
  <2>4. \A i \in DOMAIN texts : Last(i) => i = 1
    BY <1>1, <1>2, <2>2
  <2> HIDE DEF Last
  <2>5. last = 1
    BY <2>3, <2>4
  <2>6. SubSeq(texts, 1, n + 1) = texts
    BY <1>2, SubSeqFull
  <2>7. \A i \in 1..(n + 1) : shown[i] = texts[i]
    <3> TAKE i \in 1..(n + 1)
    <3>1. CASE i = 1
      BY <1>2, <2>1, <3>1
    <3>2. CASE i # 1
      <4>1. i - 1 \in 1..n /\ (i - 1) + 1 = i
        BY <1>1, <3>2
      <4>2. shown[i] = w.said[i - 1] /\ texts[i] = w.said[i - 1]
        BY <1>2, <2>1, <4>1
      <4> QED
        BY <4>2
    <3> QED
      BY <3>1, <3>2
  <2>8. shown = texts
    BY <1>2, <2>1, <2>7, SeqEqual
  <2> QED
    BY <1>4, <2>5, <2>6, <2>8 DEF texts
<1>7. CASE ~(\A i \in 1..n : IsContent(w.said[i]))
  <2>1. PICK k \in 1..n : ~IsContent(w.said[k])
    BY <1>7
  <2>2. n \in 1..n /\ ~IsContent(w.said[n])
    <3>1. n \in 1..n
      BY <1>1, <2>1
    <3>2. CASE k = n
      BY <2>1, <3>1, <3>2
    <3>3. CASE k # n
      <4>1. k < n
        BY <1>1, <2>1, <3>3
      <4> QED
        BY <2>1, <3>1, <4>1 DEF Spoken, n
    <3> QED
      BY <3>2, <3>3
  <2>3. shown = <<w.said[n]>>
    BY <1>5, <1>7, EmptySeq DEF AsTaken, FinalIs, n
  <2>4. n + 1 \in DOMAIN texts /\ Last(n + 1)
    <3>1. texts[n + 1] = w.said[n]
      BY <1>2, <2>2
    <3>2. (n + 1 + 1)..Len(texts) = {}
      BY <1>1, <1>2
    <3> QED
      BY <1>1, <1>2, <2>2, <3>1, <3>2
  <2>5. \A i \in DOMAIN texts : Last(i) => i = n + 1
    <3> SUFFICES ASSUME NEW i \in 1..(n + 1), Last(i), i # n + 1 PROVE FALSE
      BY <1>2
    <3>1. n + 1 \in (i + 1)..Len(texts)
      BY <1>1, <1>2
    <3> QED
      BY <2>4, <3>1
  <2> HIDE DEF Last
  <2>6. last = n + 1
    BY <2>4, <2>5
  <2>7. SubSeq(texts, n + 1, n + 1) = <<texts[n + 1]>>
    <3> DEFINE m == n + 1
               part == SubSeq(texts, m, m)
    <3>1. m \in Int /\ m \in 1..Len(texts) /\ \A i \in m..m : texts[i] \in Texts
      <4>1. m \in 1..Len(texts) /\ \A i \in m..m : i = m
        BY <1>1, <1>2
      <4> QED
        BY <1>2, <4>1, ElementOfSeq
    <3> HIDE DEF m
    <3>2. /\ part \in Seq(Texts)
          /\ Len(part) = IF m <= m THEN m - m + 1 ELSE 0
          /\ \A i \in 1..(m - m + 1) : part[i] = texts[m + i - 1]
      BY <3>1, SubSeqProperties
    <3> HIDE DEF part
    <3>3. Len(part) = 1 /\ part[1] = texts[m]
      BY <3>1, <3>2
    <3>4. <<texts[m]>> \in Seq(Texts) /\ Len(<<texts[m]>>) = 1 /\ <<texts[m]>>[1] = texts[m]
      BY <3>1
    <3>5. part = <<texts[m]>>
      BY <3>2, <3>3, <3>4, SeqEqual
    <3> QED
      BY <3>5 DEF part, m
  <2>8. texts[n + 1] = w.said[n]
    BY <1>2, <2>2
  <2> QED
    BY <1>4, <2>3, <2>6, <2>7, <2>8 DEF texts
<1> QED
  BY <1>6, <1>7

LEMMA ServedShows == ServedInv => UndisturbedIsServed
<1> SUFFICES ASSUME ServedInv, quiet
             PROVE  LET w == work[current]
                    IN  /\ w.future = "pending" => cancellable /\ active = current
                        /\ Settled =>
                             /\ \A i \in DOMAIN area : area[i].of = current
                             /\ w.future = "cancelled" => area[1].what # "loading"
                             /\ w.future = "failed" => area = <<Text("error", current)>>
                             /\ w.future = "done" =>
                                  area = Display(<<Text("loading", current)>> \o w.said)
  BY DEF UndisturbedIsServed
<1> DEFINE r == current
           w == work[r]
<1>1. /\ PanelInv /\ QueuesOK /\ Served /\ r \in Requests
      /\ w \in Work /\ Spoken(r, w)
  BY DEF ServedInv, Served, Alone, PanelInv
<1>2. w.future = "pending" => cancellable /\ active = r
  BY <1>1 DEF Served, Alone
<1>3. ASSUME Settled
      PROVE  /\ \A i \in DOMAIN area : area[i].of = r
             /\ w.future = "cancelled" => area[1].what # "loading"
             /\ w.future = "failed" => area = <<Text("error", r)>>
             /\ w.future = "done" => area = Display(<<Text("loading", r)>> \o w.said)
  <2>1. Waiting = {} /\ edt = << >> /\ Elems(edt) = {}
    BY <1>3, ElemsEmpty DEF Settled, Idle, Waiting
  <2> HIDE DEF w
  <2>2. /\ InHand({}, r, w) /\ Displayed(r, w, << >>, area) /\ Ends({}, r, w, << >>, area)
    BY <1>1, <2>1 DEF Served, w
  <2>3. area # << >> /\ \A x \in Elems(area) : x.of = r
    BY <2>1, <2>2 DEF Displayed, OwnTexts
  <2>4. area \in Seq(Texts) /\ Len(area) \in Nat \ {0} /\ DOMAIN area = 1..Len(area)
    BY <1>1, <2>3, EmptySeq, LenProperties DEF QueuesOK
  <2>5. \A i \in DOMAIN area : area[i].of = r /\ area[i] \in Texts
    <3>1. \A i \in DOMAIN area : area[i].of = r
      BY <2>3, <2>4 DEF Elems
    <3> QED
      BY <2>4, <3>1, ElementOfSeq
  <2>6. w.future = "cancelled" => area[1].what # "loading"
    <3> SUFFICES ASSUME w.future = "cancelled", area[1].what = "loading" PROVE FALSE
      OBVIOUS
    <3>1. area[1] # Loading(r)
      BY <2>1, <2>2 DEF Displayed, LoadingGoes
    <3>2. 1 \in DOMAIN area
      BY <2>4
    <3> QED
      BY <2>5, <3>1, <3>2 DEF Loading, Text, Texts
  <2>7. w.future = "failed" => area = <<Text("error", r)>>
    BY <2>2, EmptySeq DEF Ends, FinalIs, Failed
  <2>8. w.future = "done" => area = Display(<<Text("loading", r)>> \o w.said)
    <3> SUFFICES ASSUME w.future = "done"
                 PROVE  area = Display(<<Text("loading", r)>> \o w.said)
      OBVIOUS
    <3>1. w.taken = Len(w.said)
      BY <1>1, <2>2, Types DEF InHand, Spoken
    <3>2. AsTaken(r, w, << >>, area)
      BY <2>2 DEF Displayed
    <3> QED
      BY <1>1, <2>4, <3>1, <3>2, ShownIsDisplay DEF Loading
  <2> QED
    BY <2>5, <2>6, <2>7, <2>8
<1> HIDE DEF w
<1> QED
  BY <1>2, <1>3 DEF w

(* A request that nothing else interferes with can be cancelled while it   *)
(* is under way, and in the end stands in the panel as it went, although   *)
(* part of it is appended at once and part is posted.                      *)
THEOREM UndisturbedIsServedHolds == Spec => []UndisturbedIsServed
<1>1. Init => ServedInv
  <2> SUFFICES ASSUME Init PROVE ServedInv
    OBVIOUS
  <2>1. QueuesOK
    BY EmptySeq DEF Init, QueuesOK
  <2> QED
    BY <2>1, InitInv DEF Init, ServedInv
<1> QED
  BY <1>1, ServedStep, ServedShows, PTL DEF Spec
=============================================================================
