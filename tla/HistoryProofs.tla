----------------------------- MODULE HistoryProofs -----------------------------
(***************************************************************************)
(* Theorems about History, for any analyses, hosts, times and lengths of   *)
(* lists: the two tables agree, the column min_severity looks at tells the *)
(* truth, pages skip nothing, the answers of the dashboard agree, scores   *)
(* do not fall and profiles do not fade.                                   *)
(***************************************************************************)
EXTENDS History, SequenceTheorems, FiniteSetTheorems, TLAPS

NewRows == {NewRow(a, t) : a \in Analyses, t \in Times}
OldRows == {OldRow(a, t) : a \in Analyses, t \in Times}
AllRows == NewRows \cup OldRows

Listings == {EndpointOf(i, r) : i \in Nat, r \in NewRows}

TablesInv ==
  /\ rows \in Seq(AllRows)
  /\ endpoints \in Seq(Listings)

(* A transaction under way is that of a row of this version.               *)
TxnInv == txn \in {NoTxn} \cup [statements : {1, 2}, row : NewRows]

(* EveryRequestLineListed alone is not inductive: what is committed must   *)
(* be a row of this version.                                               *)
IInv == TablesInv /\ TxnInv /\ EveryRequestLineListed

ListedAs(i) == {n \in DOMAIN endpoints : endpoints[n].id = i}

-----------------------------------------------------------------------------
(* Rows                                                                    *)

LEMMA RowOf ==
  ASSUME NEW r \in AllRows
  PROVE  /\ r.what \in Analyses /\ r.time \in Times
         /\ r.version = "new" <=> r \in NewRows
         /\ r \in NewRows => r.top = TopSeverity(r.what.findings)
BY DEF AllRows, NewRows, OldRows, NewRow, OldRow

(* The worst of some findings is one of them.                              *)
LEMMA WorstOf ==
  ASSUME NEW S \in SUBSET Severities, S # {}
  PROVE  \E s \in S : \A t \in S : Rank[s] <= Rank[t]
<1>0. /\ Rank["critical"] = 0 /\ Rank["high"] = 1 /\ Rank["medium"] = 2
      /\ Rank["low"] = 3 /\ Rank["info"] = 4
  BY DEF Rank
<1>1. CASE "critical" \in S
  BY <1>0, <1>1 DEF Severities
<1>2. CASE "critical" \notin S /\ "high" \in S
  BY <1>0, <1>2 DEF Severities
<1>3. CASE "critical" \notin S /\ "high" \notin S /\ "medium" \in S
  BY <1>0, <1>3 DEF Severities
<1>4. CASE /\ "critical" \notin S /\ "high" \notin S /\ "medium" \notin S
           /\ "low" \in S
  BY <1>0, <1>4 DEF Severities
<1>5. CASE S = {"info"}
  BY <1>0, <1>5 DEF Severities
<1> QED
  BY <1>1, <1>2, <1>3, <1>4, <1>5 DEF Severities

LEMMA TopSeverityIsWorst ==
  ASSUME NEW findings \in Seq(Severities)
  PROVE  /\ findings = << >> => TopSeverity(findings) = None /\ In(findings) = {}
         /\ findings # << >> =>
              /\ TopSeverity(findings) \in In(findings)
              /\ TopSeverity(findings) \in Severities
              /\ \A t \in In(findings) : Rank[TopSeverity(findings)] <= Rank[t]
<1>1. CASE findings = << >>
  BY <1>1, EmptySeq DEF TopSeverity, In
<1>2. CASE findings # << >>
  <2>1. In(findings) \in SUBSET Severities
    BY ElementOfSeq, LenProperties DEF In
  <2>2. 1 \in DOMAIN findings
    BY <1>2, EmptySeq, LenProperties
  <2>3. In(findings) # {}
    BY <2>2 DEF In
  <2>4. \E s \in In(findings) : \A t \in In(findings) : Rank[s] <= Rank[t]
    BY <2>1, <2>3, WorstOf
  <2>5. TopSeverity(findings) =
          CHOOSE s \in In(findings) : \A t \in In(findings) : Rank[s] <= Rank[t]
    BY <1>2 DEF TopSeverity
  <2> QED
    BY <1>2, <2>1, <2>4, <2>5
<1> QED
  BY <1>1, <1>2

-----------------------------------------------------------------------------
(* A commit                                                                *)

LEMMA CommitInv == ASSUME IInv, Commit PROVE IInv'
<1> DEFINE row == txn.row
           last == Len(rows) + 1
           new == EndpointOf(last, row)
<1>1. /\ rows \in Seq(AllRows) /\ Len(rows) \in Nat /\ DOMAIN rows = 1..Len(rows)
      /\ endpoints \in Seq(Listings)
      /\ Len(endpoints) \in Nat /\ DOMAIN endpoints = 1..Len(endpoints)
  BY LenProperties DEF IInv, TablesInv
<1>2. row \in NewRows /\ row \in AllRows /\ row.version = "new"
  <2>1. row \in NewRows /\ row \in AllRows
    BY DEF IInv, TxnInv, Commit, AllRows
  <2> QED
    BY <2>1, RowOf
<1>3. /\ rows' = Append(rows, row) /\ txn' = NoTxn
      /\ endpoints' = IF Listed(row) THEN Append(endpoints, new) ELSE endpoints
  BY DEF Commit
<1>4. last \in Nat /\ new \in Listings
      /\ new.id = last /\ new.entry = ExtractEndpoint(row.what)
  <2>1. last \in Nat
    BY <1>1
  <2>2. new \in Listings
    BY <1>2, <2>1 DEF Listings
  <2> QED
    BY <2>1, <2>2 DEF EndpointOf
<1>5. /\ rows' \in Seq(AllRows) /\ DOMAIN rows' = 1..last
      /\ rows'[last] = row /\ \A i \in DOMAIN rows : rows'[i] = rows[i]
  <2>1. rows' \in Seq(AllRows) /\ Len(rows') = last
    BY <1>1, <1>2, <1>3, AppendProperties
  <2>2. DOMAIN rows' = 1..last
    BY <2>1, LenProperties
  <2> QED
    BY <1>1, <1>2, <1>3, <2>1, <2>2, AppendProperties
<1>6. \A n \in DOMAIN endpoints :
        endpoints[n].id \in DOMAIN rows
        /\ endpoints[n].entry = ExtractEndpoint(rows[endpoints[n].id].what)
  BY DEF IInv, EveryRequestLineListed
<1>7. \A i \in DOMAIN rows :
        Cardinality(ListedAs(i)) = IF Listed(rows[i]) /\ rows[i].version = "new" THEN 1 ELSE 0
  BY DEF IInv, EveryRequestLineListed, ListedAs
<1>8. TxnInv'
  BY <1>3 DEF TxnInv
<1>9. ListedAs(last) = {}
  BY <1>1, <1>6 DEF ListedAs
<1> HIDE DEF new, row, last
<1>10. CASE ~Listed(row)
  <2>1. endpoints' = endpoints
    BY <1>3, <1>10
  <2>2. \A i : ListedAs(i)' = ListedAs(i)
    BY <2>1 DEF ListedAs
  <2>3. \A n \in DOMAIN endpoints' :
          endpoints'[n].id \in DOMAIN rows'
          /\ endpoints'[n].entry = ExtractEndpoint(rows'[endpoints'[n].id].what)
    BY <1>1, <1>5, <1>6, <2>1 DEF last
  <2>4. ASSUME NEW i \in DOMAIN rows'
        PROVE  Cardinality(ListedAs(i)') =
                 IF Listed(rows'[i]) /\ rows'[i].version = "new" THEN 1 ELSE 0
    <3>1. CASE i \in DOMAIN rows
      BY <3>1, <2>2, <1>5, <1>7
    <3>2. CASE i = last
      BY <3>2, <2>2, <1>5, <1>9, <1>10, FS_EmptySet
    <3> QED
      BY <3>1, <3>2, <1>1, <1>5 DEF last
  <2> QED
    BY <2>1, <2>3, <2>4, <1>1, <1>5, <1>8
    DEF IInv, TablesInv, EveryRequestLineListed, ListedAs, Listed
<1>11. CASE Listed(row)
  <2>1. endpoints' = Append(endpoints, new)
    BY <1>3, <1>11
  <2>2. /\ endpoints' \in Seq(Listings)
        /\ DOMAIN endpoints' = 1..(Len(endpoints) + 1)
        /\ endpoints'[Len(endpoints) + 1] = new
        /\ \A n \in DOMAIN endpoints : endpoints'[n] = endpoints[n]
    <3>1. /\ endpoints' \in Seq(Listings)
          /\ Len(endpoints') = Len(endpoints) + 1
      BY <1>1, <1>4, <2>1, AppendProperties
    <3>2. DOMAIN endpoints' = 1..(Len(endpoints) + 1)
      BY <3>1, LenProperties
    <3> QED
      BY <1>1, <1>4, <2>1, <3>1, <3>2, AppendProperties
  <2>3. \A n \in DOMAIN endpoints' :
          endpoints'[n].id \in DOMAIN rows'
          /\ endpoints'[n].entry = ExtractEndpoint(rows'[endpoints'[n].id].what)
    <3>1. ASSUME NEW n \in DOMAIN endpoints
          PROVE  endpoints'[n].id \in DOMAIN rows'
                 /\ endpoints'[n].entry = ExtractEndpoint(rows'[endpoints'[n].id].what)
      BY <1>1, <1>5, <1>6, <2>2 DEF last
    <3>2. new.id \in DOMAIN rows' /\ new.entry = ExtractEndpoint(rows'[new.id].what)
      BY <1>1, <1>4, <1>5 DEF last
    <3> QED
      BY <1>1, <2>2, <3>1, <3>2
  <2>4. ASSUME NEW i \in DOMAIN rows'
        PROVE  Cardinality(ListedAs(i)') =
                 IF Listed(rows'[i]) /\ rows'[i].version = "new" THEN 1 ELSE 0
    <3>1. CASE i \in DOMAIN rows
      <4>1. i # last
        BY <3>1, <1>1 DEF last
      <4>2. ListedAs(i)' = ListedAs(i)
        BY <4>1, <1>1, <1>4, <2>2 DEF ListedAs
      <4> QED
        BY <3>1, <4>2, <1>5, <1>7
    <3>2. CASE i = last
      <4>1. ListedAs(i)' = {Len(endpoints) + 1}
        BY <3>2, <1>1, <1>4, <1>9, <2>2 DEF ListedAs
      <4> QED
        BY <3>2, <4>1, <1>2, <1>5, <1>11, FS_Singleton
    <3> QED
      BY <3>1, <3>2, <1>1, <1>5 DEF last
  <2> QED
    BY <2>2, <2>3, <2>4, <1>5, <1>8
    DEF IInv, TablesInv, EveryRequestLineListed, ListedAs, Listed
<1> QED
  BY <1>10, <1>11

-----------------------------------------------------------------------------
LEMMA InitInv == Init => IInv
<1> SUFFICES ASSUME Init PROVE IInv
  OBVIOUS
<1>1. PICK old \in OldAnalyses, t \in Times : rows = [i \in DOMAIN old |-> OldRow(old[i], t)]
  BY DEF Init
<1>2. old \in Seq(Analyses) /\ DOMAIN old = 1..Len(old) /\ Len(old) \in Nat
  BY HistoryAssumption, LenProperties
<1>3. \A i \in 1..Len(old) : OldRow(old[i], t) \in AllRows
  BY <1>2, ElementOfSeq DEF AllRows, OldRows
<1>4. rows \in [1..Len(old) -> AllRows]
  BY <1>1, <1>2, <1>3
<1>5. rows \in Seq(AllRows) /\ DOMAIN rows = DOMAIN old
  BY <1>2, <1>4
<1>6. \A i \in DOMAIN rows : rows[i].version = "old"
  BY <1>1, <1>5 DEF OldRow
<1>7. endpoints = << >> /\ DOMAIN endpoints = {}
  BY EmptySeq DEF Init
<1>8. \A i \in DOMAIN rows : Cardinality({n \in DOMAIN endpoints : endpoints[n].id = i}) = 0
  <2>1. \A i \in DOMAIN rows : {n \in DOMAIN endpoints : endpoints[n].id = i} = {}
    BY <1>7
  <2> QED
    BY <2>1, FS_EmptySet
<1>9. endpoints \in Seq(Listings)
  BY <1>7, EmptySeq
<1>10. TxnInv
  BY DEF Init, TxnInv
<1> QED
  BY <1>5, <1>6, <1>7, <1>8, <1>9, <1>10 DEF IInv, TablesInv, EveryRequestLineListed

LEMMA SameTables ==
  ASSUME IInv, UNCHANGED <<rows, endpoints>>, TxnInv'
  PROVE  IInv'
BY DEF IInv, TablesInv, EveryRequestLineListed, Listed

LEMMA StepInv == IInv /\ [Next]_vars => IInv'
<1> SUFFICES ASSUME IInv, [Next]_vars PROVE IInv'
  OBVIOUS
<1>1. CASE UNCHANGED vars
  <2>1. UNCHANGED <<rows, endpoints>> /\ TxnInv'
    BY <1>1 DEF vars, IInv, TxnInv
  <2> QED
    BY <2>1, SameTables
<1>2. CASE Start \/ NextPage \/ Crash \/ Rollback
  <2>1. UNCHANGED <<rows, endpoints>> /\ TxnInv'
    BY <1>2 DEF Start, NextPage, Crash, Rollback, IInv, TxnInv
  <2> QED
    BY <2>1, SameTables
<1>3. CASE InsertEndpoint
  <2>1. txn \in [statements : {1, 2}, row : NewRows]
    BY <1>3 DEF InsertEndpoint, IInv, TxnInv, NoTxn
  <2>2. UNCHANGED <<rows, endpoints>> /\ TxnInv'
    BY <1>3, <2>1 DEF InsertEndpoint, TxnInv
  <2> QED
    BY <2>2, SameTables
<1>4. CASE Commit
  BY <1>4, CommitInv
<1>5. ASSUME NEW a \in Analyses, NEW t \in Times, InsertRow(a, t) PROVE IInv'
  <2>1. NewRow(a, t) \in NewRows
    BY DEF NewRows
  <2>2. UNCHANGED <<rows, endpoints>> /\ TxnInv'
    BY <1>5, <2>1 DEF InsertRow, TxnInv
  <2> QED
    BY <2>2, SameTables
<1>6. ASSUME NEW g \in Filters, OpenList(g) PROVE IInv'
  <2>1. UNCHANGED <<rows, endpoints>> /\ TxnInv'
    BY <1>6 DEF OpenList, IInv, TxnInv
  <2> QED
    BY <2>1, SameTables
<1> QED
  BY <1>1, <1>2, <1>3, <1>4, <1>5, <1>6 DEF Next

THEOREM Invariance == Spec => []IInv
BY InitInv, StepInv, PTL DEF Spec

(* Each analysis of this version with a request line is in the inventory   *)
(* exactly once, and nothing else is, whatever is rolled back or killed.   *)
THEOREM EveryRequestLineListedHolds == Spec => []EveryRequestLineListed
<1>1. IInv => EveryRequestLineListed
  BY DEF IInv
<1> QED
  BY <1>1, Invariance, PTL

-----------------------------------------------------------------------------
LEMMA ColumnIsTrue == IInv => SeverityFilterIsTrue
<1> SUFFICES ASSUME IInv, NEW i \in DOMAIN rows, NEW s \in Severities,
                    rows[i].version = "new"
             PROVE  Matches(i, [All EXCEPT !.severity = s])
                      <=> Reaches(rows[i].what.findings, s)
  BY DEF SeverityFilterIsTrue
<1> DEFINE g == [All EXCEPT !.severity = s]
           findings == rows[i].what.findings
<1>1. rows[i] \in AllRows
  BY ElementOfSeq, LenProperties DEF IInv, TablesInv
<1>2. /\ rows[i].top = TopSeverity(findings) /\ rows[i].time \in Nat
      /\ findings \in Seq(Severities)
  BY <1>1, RowOf, HistoryAssumption
<1>3. g.host = None /\ g.since = 0 /\ g.severity = s /\ s # None
  BY DEF All, None, Severities
<1>4. Matches(i, g) <=> TopSeverity(findings) \in Allowed(s)
  <2>1. InRange(i, g)
    BY <1>2, <1>3 DEF InRange
  <2> QED
    BY <2>1, <1>2, <1>3 DEF Matches
<1> HIDE DEF g, findings
<1>5. CASE findings = << >>
  <2>1. TopSeverity(findings) = None /\ In(findings) = {}
    BY <1>2, <1>5, TopSeverityIsWorst
  <2>2. None \notin Allowed(s) /\ ~Reaches(findings, s)
    BY <2>1 DEF None, Allowed, Severities, Reaches
  <2> QED
    BY <2>1, <2>2, <1>4 DEF g, findings
<1>6. CASE findings # << >>
  <2> DEFINE top == TopSeverity(findings)
  <2>1. /\ top \in In(findings) /\ top \in Severities
        /\ \A t \in In(findings) : Rank[top] <= Rank[t]
    BY <1>2, <1>6, TopSeverityIsWorst
  <2>2. In(findings) \subseteq Severities
    BY <1>2, ElementOfSeq, LenProperties DEF In
  <2>3. \A t \in Severities : Rank[t] \in Nat
    BY DEF Severities, Rank
  <2> HIDE DEF top
  <2>4. Rank[top] <= Rank[s] <=> \E t \in In(findings) : Rank[t] <= Rank[s]
    BY <2>1, <2>2, <2>3
  <2>5. top \in Allowed(s) <=> Reaches(findings, s)
    BY <2>1, <2>4 DEF Allowed, Reaches
  <2> QED
    BY <2>5, <1>4 DEF g, findings, top
<1> QED
  BY <1>5, <1>6

(* min_severity selects exactly the analyses of this version that have     *)
(* such a finding.                                                         *)
THEOREM SeverityFilterHolds == Spec => []SeverityFilterIsTrue
BY ColumnIsTrue, Invariance, PTL
-----------------------------------------------------------------------------
(* Places in a strict total order                                          *)

StrictOrder(S, R) ==
  /\ \A x \in S : <<x, x>> \notin R
  /\ \A x, y \in S : <<x, y>> \in R \/ <<y, x>> \in R \/ x = y
  /\ \A x, y, z \in S : <<x, y>> \in R /\ <<y, z>> \in R => <<x, z>> \in R

Earlier(S, R, x) == {y \in S : <<y, x>> \in R}
Place(S, R, x)   == Cardinality(Earlier(S, R, x))

LEMMA PlacesDiffer ==
  ASSUME NEW S, NEW R, IsFiniteSet(S), StrictOrder(S, R),
         NEW x \in S, NEW y \in S, <<x, y>> \in R
  PROVE  Place(S, R, x) < Place(S, R, y)
<1>1. /\ IsFiniteSet(Earlier(S, R, y)) /\ IsFiniteSet(Earlier(S, R, x))
      /\ Cardinality(Earlier(S, R, x)) \in Nat /\ Cardinality(Earlier(S, R, y)) \in Nat
  BY FS_Subset, FS_CardinalityType DEF Earlier
<1>2. Earlier(S, R, x) \subseteq Earlier(S, R, y)
  BY DEF Earlier, StrictOrder
<1>3. x \in Earlier(S, R, y) /\ x \notin Earlier(S, R, x)
  BY DEF Earlier, StrictOrder
<1> QED
  BY <1>1, <1>2, <1>3, FS_Subset DEF Place

(* The places of n things are 0 to n - 1, each taken once.                 *)
LEMMA PlacesAreTaken ==
  ASSUME NEW S, NEW R, IsFiniteSet(S), StrictOrder(S, R)
  PROVE  /\ Cardinality(S) \in Nat
         /\ \A x \in S : Place(S, R, x) \in 0..(Cardinality(S) - 1)
         /\ \A x, y \in S : Place(S, R, x) = Place(S, R, y) => x = y
         /\ \A k \in 0..(Cardinality(S) - 1) : \E x \in S : Place(S, R, x) = k
<1> DEFINE n == Cardinality(S)
           T == 0..(n - 1)
           place == [x \in S |-> Place(S, R, x)]
<1>1. n \in Nat
  BY FS_CardinalityType
<1>2. ASSUME NEW x \in S PROVE Place(S, R, x) \in T
  <2>1. /\ IsFiniteSet(S \ {x}) /\ Cardinality(S \ {x}) = n - 1
    BY FS_RemoveElement
  <2>2. Earlier(S, R, x) \subseteq S \ {x}
    BY DEF Earlier, StrictOrder
  <2>3. /\ IsFiniteSet(Earlier(S, R, x))
        /\ Cardinality(Earlier(S, R, x)) <= n - 1
    BY <2>1, <2>2, FS_Subset
  <2>4. Cardinality(Earlier(S, R, x)) \in Nat
    BY <2>3, FS_CardinalityType
  <2> QED
    BY <1>1, <2>3, <2>4 DEF Place
<1>3. ASSUME NEW x \in S, NEW y \in S, Place(S, R, x) = Place(S, R, y), x # y
      PROVE  FALSE
  <2>1. Place(S, R, x) \in T /\ Place(S, R, y) \in T
    BY <1>2
  <2>2. ~(Place(S, R, x) < Place(S, R, y)) /\ ~(Place(S, R, y) < Place(S, R, x))
    BY <1>3, <2>1
  <2>3. <<x, y>> \in R \/ <<y, x>> \in R
    BY <1>3 DEF StrictOrder
  <2> QED
    BY <2>2, <2>3, PlacesDiffer
<1>4. place \in Injection(S, T)
  BY <1>2, <1>3 DEF Injection, IsInjective
<1>5. IsFiniteSet(T) /\ Cardinality(T) = n
  BY <1>1, FS_Interval
<1>6. place \in Surjection(S, T)
  BY <1>4, <1>5, FS_Injection
<1>7. \A k \in T : \E x \in S : Place(S, R, x) = k
  BY <1>6 DEF Surjection
<1> QED
  BY <1>1, <1>2, <1>3, <1>7

(* As many things have a place in an interval as the interval has places.  *)
LEMMA PlacesInInterval ==
  ASSUME NEW S, NEW R, IsFiniteSet(S), StrictOrder(S, R),
         NEW a \in Nat, NEW b \in Nat, b <= Cardinality(S), a <= b
  PROVE  Cardinality({x \in S : a <= Place(S, R, x) /\ Place(S, R, x) < b}) = b - a
<1> DEFINE W == {x \in S : a <= Place(S, R, x) /\ Place(S, R, x) < b}
           T == a..(b - 1)
           place == [x \in W |-> Place(S, R, x)]
<1>1. /\ Cardinality(S) \in Nat
      /\ \A x \in S : Place(S, R, x) \in 0..(Cardinality(S) - 1)
      /\ \A x, y \in S : Place(S, R, x) = Place(S, R, y) => x = y
      /\ \A k \in 0..(Cardinality(S) - 1) : \E x \in S : Place(S, R, x) = k
  BY PlacesAreTaken
<1>2. IsFiniteSet(T) /\ Cardinality(T) = b - a
  <2>1. a \in Int /\ b - 1 \in Int /\ (a > b - 1 <=> a = b)
    OBVIOUS
  <2>2. IsFiniteSet(T) /\ Cardinality(T) = IF a > b - 1 THEN 0 ELSE b - 1 - a + 1
    BY <2>1, FS_Interval
  <2> QED
    BY <2>1, <2>2
<1>3. place \in Injection(W, T)
  BY <1>1 DEF Injection, IsInjective
<1>4. \A k \in T : \E x \in W : Place(S, R, x) = k
  BY <1>1
<1>5. place \in Surjection(W, T)
  BY <1>3, <1>4 DEF Surjection, Injection
<1> QED
  BY <1>2, <1>3, <1>5, FS_Injection

-----------------------------------------------------------------------------
(* The list and its pages                                                  *)

ByTime == {p \in (DOMAIN rows) \X (DOMAIN rows) : Before(p[1], p[2])}

LEMMA Pairs ==
  ASSUME NEW S, NEW i, NEW j PROVE <<i, j>> \in S \X S <=> i \in S /\ j \in S
OBVIOUS

LEMMA InByTime ==
  \A i, j : <<i, j>> \in ByTime
            <=> i \in DOMAIN rows /\ j \in DOMAIN rows /\ Before(i, j)
<1> SUFFICES ASSUME NEW i, NEW j
             PROVE  <<i, j>> \in ByTime
                      <=> i \in DOMAIN rows /\ j \in DOMAIN rows /\ Before(i, j)
  OBVIOUS
<1>1. <<i, j>>[1] = i /\ <<i, j>>[2] = j
  OBVIOUS
<1>2. <<i, j>> \in (DOMAIN rows) \X (DOMAIN rows) <=> i \in DOMAIN rows /\ j \in DOMAIN rows
  BY Pairs
<1>3. <<i, j>> \in ByTime
        <=> /\ <<i, j>> \in (DOMAIN rows) \X (DOMAIN rows)
            /\ Before(<<i, j>>[1], <<i, j>>[2])
  BY Zenon DEF ByTime
<1> QED
  BY <1>1, <1>2, <1>3

LEMMA InByTimeLater ==
  (\A i, j : <<i, j>> \in ByTime
             <=> i \in DOMAIN rows /\ j \in DOMAIN rows /\ Before(i, j))'
BY InByTime, PTL

LEMMA RowsHaveTimes ==
  ASSUME TablesInv
  PROVE  /\ Len(rows) \in Nat /\ DOMAIN rows = 1..Len(rows)
         /\ IsFiniteSet(DOMAIN rows)
         /\ \A i \in DOMAIN rows :
              rows[i] \in AllRows /\ rows[i].time \in Nat /\ rows[i].what \in Analyses
<1>1. Len(rows) \in Nat /\ DOMAIN rows = 1..Len(rows)
  BY LenProperties DEF TablesInv
<1>2. IsFiniteSet(1..Len(rows))
  BY <1>1, FS_Interval
<1>3. \A i \in DOMAIN rows : rows[i] \in AllRows
  BY <1>1, ElementOfSeq DEF TablesInv
<1> QED
  BY <1>1, <1>2, <1>3, RowOf, HistoryAssumption

(* A page is cut out of the list by the places of its rows.                *)
LEMMA ListIsOrdered ==
  ASSUME TablesInv, NEW ids \in SUBSET DOMAIN rows
  PROVE  /\ IsFiniteSet(ids) /\ StrictOrder(ids, ByTime)
         /\ \A i \in ids : Place(ids, ByTime, i) \in Nat
         /\ \A limit, offset :
              FirstOf(ids, limit, offset) =
                {i \in ids : /\ offset <= Place(ids, ByTime, i)
                             /\ Place(ids, ByTime, i) < offset + limit}
<1>1. IsFiniteSet(ids)
  BY RowsHaveTimes, FS_Subset
<1>2. \A i, j \in ids : <<i, j>> \in ByTime <=> Before(i, j)
  BY InByTime
<1>3. \A i \in ids : i \in Nat /\ rows[i].time \in Nat
  BY RowsHaveTimes
<1>4. \A i, j \in ids :
        Before(i, j) <=> rows[i].time > rows[j].time
                         \/ (rows[i].time = rows[j].time /\ i < j)
  BY DEF Before
<1>5. StrictOrder(ids, ByTime)
  <2>1. \A x \in ids : ~Before(x, x)
    BY <1>3, <1>4
  <2>2. \A x, y \in ids : Before(x, y) \/ Before(y, x) \/ x = y
    BY <1>3, <1>4
  <2>3. ASSUME NEW x \in ids, NEW y \in ids, NEW z \in ids, Before(x, y), Before(y, z)
        PROVE  Before(x, z)
    BY <1>3, <1>4, <2>3
  <2> QED
    BY <1>2, <2>1, <2>2, <2>3 DEF StrictOrder
<1>6. \A i \in ids : Cardinality({j \in ids : Before(j, i)}) = Place(ids, ByTime, i)
  <2>1. ASSUME NEW i \in ids PROVE {j \in ids : Before(j, i)} = Earlier(ids, ByTime, i)
    BY <1>2 DEF Earlier
  <2> QED
    BY <2>1 DEF Place
<1>7. \A i \in ids : Place(ids, ByTime, i) \in Nat
  BY <1>1, <1>5, PlacesAreTaken, FS_CardinalityType
<1> QED
  BY <1>1, <1>5, <1>6, <1>7 DEF FirstOf

(* Where there is a row at or behind its end, a page is full.              *)
LEMMA PageIsFull ==
  ASSUME TablesInv, NEW ids \in SUBSET DOMAIN rows, NEW limit \in Nat, NEW offset \in Nat,
         NEW i \in ids, offset + limit <= Place(ids, ByTime, i)
  PROVE  Cardinality(FirstOf(ids, limit, offset)) = limit
<1>1. /\ IsFiniteSet(ids) /\ StrictOrder(ids, ByTime)
      /\ FirstOf(ids, limit, offset) =
           {j \in ids : /\ offset <= Place(ids, ByTime, j)
                        /\ Place(ids, ByTime, j) < offset + limit}
  BY ListIsOrdered
<1>2. Cardinality(ids) \in Nat /\ Place(ids, ByTime, i) \in 0..(Cardinality(ids) - 1)
  BY <1>1, PlacesAreTaken
<1>3. offset + limit \in Nat /\ offset + limit <= Cardinality(ids) /\ offset <= offset + limit
  BY <1>2
<1> QED
  BY <1>1, <1>3, PlacesInInterval

Matching(f) == {i \in DOMAIN rows : Matches(i, f)}

(* What was there at the first page is read, or still to come.             *)
PagerInv ==
  pager.stage # "idle" =>
    /\ pager.offset \in Nat
    /\ pager.due \subseteq Matching(pager.filter)
    /\ \A i \in pager.due \ pager.got :
         /\ pager.stage = "reading"
         /\ pager.offset <= Place(Matching(pager.filter), ByTime, i)

LEMMA TurnKeepsPages ==
  ASSUME IInv, UNCHANGED rows, NEW f, NEW offset \in Nat, NEW got,
         NEW due \in SUBSET Matching(f),
         \A i \in due \ got : offset <= Place(Matching(f), ByTime, i),
         Turn(f, offset, got, due)
  PROVE  PagerInv'
<1> DEFINE page == List(f, PageSize, offset)
           all  == Matching(f)
<1>1. /\ pager'.stage = IF Cardinality(page) < PageSize THEN "done" ELSE "reading"
      /\ pager'.filter = f /\ pager'.offset = offset + PageSize
      /\ pager'.got = got \cup page /\ pager'.due = due
  BY DEF Turn
<1>2. TablesInv /\ all \in SUBSET DOMAIN rows /\ page = FirstOf(all, PageSize, offset)
  BY DEF IInv, Matching, List
<1>3. PageSize \in Nat
  BY HistoryAssumption
<1>4. /\ \A i \in all : Place(all, ByTime, i) \in Nat
      /\ page = {i \in all : /\ offset <= Place(all, ByTime, i)
                             /\ Place(all, ByTime, i) < offset + PageSize}
  BY <1>2, ListIsOrdered
<1>5. Matching(f)' = all /\ ByTime' = ByTime
  BY DEF Matching, Matches, InRange, ByTime, Before
<1> HIDE DEF page, all
<1>6. ASSUME NEW i \in due \ (got \cup page)
      PROVE  /\ offset + PageSize <= Place(all, ByTime, i)
             /\ pager'.stage = "reading"
  <2>1. i \in all /\ offset <= Place(all, ByTime, i) /\ Place(all, ByTime, i) \in Nat
    BY <1>4, <1>6 DEF all
  <2>2. offset + PageSize <= Place(all, ByTime, i)
    BY <1>3, <1>4, <2>1
  <2>3. Cardinality(page) = PageSize
    BY <1>2, <1>3, <2>1, <2>2, PageIsFull
  <2> QED
    BY <1>1, <1>3, <2>2, <2>3
<1>7. offset + PageSize \in Nat /\ due \subseteq all
  BY <1>3 DEF all
<1> QED
  BY <1>1, <1>5, <1>6, <1>7 DEF PagerInv, Place

(* A row that is saved while a client reads moves the others to later      *)
(* pages, or none.                                                         *)
LEMMA CommitAppends ==
  ASSUME IInv, Commit
  PROVE  /\ Len(rows) \in Nat /\ DOMAIN rows = 1..Len(rows)
         /\ Len(rows') = Len(rows) + 1 /\ DOMAIN rows' = 1..Len(rows')
         /\ IsFiniteSet(DOMAIN rows')
         /\ \A i \in DOMAIN rows : i \in DOMAIN rows' /\ rows'[i] = rows[i]
         /\ UNCHANGED pager
<1>1. rows \in Seq(AllRows) /\ txn.row \in AllRows
  BY DEF IInv, TablesInv, TxnInv, Commit, AllRows
<1>2. rows' = Append(rows, txn.row) /\ UNCHANGED pager
  BY DEF Commit
<1>3. /\ Len(rows') = Len(rows) + 1
      /\ \A i \in 1..Len(rows) : rows'[i] = rows[i]
      /\ rows' \in Seq(AllRows)
  BY <1>1, <1>2, AppendProperties
<1>4. DOMAIN rows = 1..Len(rows) /\ DOMAIN rows' = 1..Len(rows') /\ Len(rows) \in Nat
  BY <1>1, <1>3, LenProperties
<1>5. IsFiniteSet(1..Len(rows'))
  BY <1>3, <1>4, FS_Interval
<1> QED
  BY <1>2, <1>3, <1>4, <1>5

LEMMA CommitKeepsPages == ASSUME IInv, PagerInv, Commit, IInv' PROVE PagerInv'
<1> SUFFICES ASSUME pager.stage # "idle" PROVE PagerInv'
  BY CommitAppends DEF PagerInv
<1> DEFINE f == pager.filter
           all == Matching(f)
<1>1. /\ DOMAIN rows \subseteq DOMAIN rows' /\ UNCHANGED pager
      /\ \A i \in DOMAIN rows : rows'[i] = rows[i]
  BY CommitAppends
<1>2. all \subseteq Matching(f)' /\ all \subseteq DOMAIN rows
  BY <1>1 DEF Matching, Matches, InRange
<1>3. IsFiniteSet(Matching(f)')
  BY CommitAppends, FS_Subset DEF Matching
<1>4. ASSUME NEW i \in all
      PROVE  /\ Place(all, ByTime, i) \in Nat
             /\ Place(all, ByTime, i) <= Place(Matching(f)', ByTime', i)
             /\ Place(Matching(f)', ByTime', i) \in Nat
  <2>1. Earlier(all, ByTime, i) \subseteq Earlier(Matching(f)', ByTime', i)
    <3>1. ASSUME NEW j \in all, <<j, i>> \in ByTime PROVE <<j, i>> \in ByTime'
      <4>1. \A k, l \in DOMAIN rows : Before(k, l) => Before(k, l)'
        BY <1>1 DEF Before
      <4>2. Before(j, i) /\ j \in DOMAIN rows' /\ i \in DOMAIN rows'
        BY <1>1, <1>2, <3>1, InByTime
      <4>3. Before(j, i)'
        BY <1>2, <4>1, <4>2
      <4> QED
        BY <4>2, <4>3, InByTimeLater
    <3> QED
      BY <1>2, <3>1 DEF Earlier
  <2>2. IsFiniteSet(Earlier(Matching(f)', ByTime', i))
    BY <1>3, FS_Subset DEF Earlier
  <2> QED
    BY <2>1, <2>2, FS_Subset, FS_CardinalityType DEF Place
<1>5. pager'.filter = f /\ f' = f
  BY <1>1
<1>6. ASSUME NEW i \in pager.due \ pager.got
      PROVE  pager.stage = "reading" /\ pager.offset <= Place(Matching(f)', ByTime', i)
  <2>1. i \in all /\ pager.offset \in Nat /\ pager.offset <= Place(all, ByTime, i)
        /\ pager.stage = "reading"
    BY <1>6 DEF PagerInv
  <2> QED
    BY <1>4, <2>1
<1> QED
  BY <1>1, <1>2, <1>5, <1>6 DEF PagerInv

LEMMA StepPager == IInv /\ IInv' /\ PagerInv /\ [Next]_vars => PagerInv'
<1> SUFFICES ASSUME IInv, IInv', PagerInv, [Next]_vars PROVE PagerInv'
  OBVIOUS
<1>1. ASSUME UNCHANGED <<rows, pager>> PROVE PagerInv'
  BY <1>1 DEF PagerInv, Matching, Matches, InRange, ByTime, Before
<1>2. CASE \/ Start \/ Rollback \/ InsertEndpoint \/ UNCHANGED vars
           \/ \E a \in Analyses, t \in Times : InsertRow(a, t)
  BY <1>1, <1>2 DEF Start, Rollback, InsertEndpoint, InsertRow, vars
<1>3. CASE Crash
  BY <1>3 DEF Crash, NoPager, PagerInv
<1>4. CASE Commit
  BY <1>4, CommitKeepsPages
<1>5. ASSUME NEW f \in Filters, OpenList(f) PROVE PagerInv'
  <2> DEFINE due == {i \in DOMAIN rows : Matches(i, f)}
  <2>1. UNCHANGED rows /\ Turn(f, 0, {}, due)
    BY <1>5 DEF OpenList
  <2>2. due \in SUBSET Matching(f) /\ Matching(f) \in SUBSET DOMAIN rows
    BY DEF Matching
  <2>3. \A i \in due \ {} : 0 <= Place(Matching(f), ByTime, i)
    <3>1. \A i \in Matching(f) : Place(Matching(f), ByTime, i) \in Nat
      BY <2>2, ListIsOrdered DEF IInv
    <3> QED
      BY <2>2, <3>1
  <2> QED
    BY <2>1, <2>2, <2>3, TurnKeepsPages
<1>6. CASE NextPage
  <2>1. /\ UNCHANGED rows /\ pager.stage = "reading"
        /\ Turn(pager.filter, pager.offset, pager.got, pager.due)
    BY <1>6 DEF NextPage
  <2>2. /\ pager.offset \in Nat /\ pager.due \in SUBSET Matching(pager.filter)
        /\ \A i \in pager.due \ pager.got :
             pager.offset <= Place(Matching(pager.filter), ByTime, i)
    BY <2>1 DEF PagerInv
  <2> QED
    BY <2>1, <2>2, TurnKeepsPages
<1> QED
  BY <1>2, <1>3, <1>4, <1>5, <1>6 DEF Next

(* A client that turns the pages to the last one has seen all that was     *)
(* there at the first, whatever is saved with whatever time meanwhile.     *)
THEOREM PagesSkipNothingHolds == Spec => []PagesSkipNothing
<1>1. Init => PagerInv
  BY DEF Init, NoPager, PagerInv
<1>2. PagerInv => PagesSkipNothing
  BY DEF PagerInv, PagesSkipNothing
<1> QED
  BY <1>1, <1>2, StepPager, Invariance, PTL DEF Spec

-----------------------------------------------------------------------------
(* What a save adds                                                        *)

LEMMA FiniteImage ==
  ASSUME NEW S, IsFiniteSet(S), NEW f
  PROVE  IsFiniteSet({f[x] : x \in S})
<1> DEFINE T == {f[x] : x \in S}
           g == [x \in S |-> f[x]]
<1>1. g \in [S -> T] /\ \A t \in T : \E s \in S : g[s] = t
  OBVIOUS
<1>2. g \in Surjection(S, T)
  BY <1>1 DEF Surjection
<1> QED
  BY <1>2, FS_Surjection

LEMMA FiniteUnion ==
  ASSUME NEW S, IsFiniteSet(S), NEW f, \A x \in S : IsFiniteSet(f[x])
  PROVE  IsFiniteSet(UNION {f[x] : x \in S})
<1>1. IsFiniteSet({f[x] : x \in S})
  BY FiniteImage
<1>2. \A T \in {f[x] : x \in S} : IsFiniteSet(T)
  OBVIOUS
<1> QED
  BY <1>1, <1>2, FS_UNION

LEMMA LargerSet ==
  ASSUME NEW T, IsFiniteSet(T), NEW S \in SUBSET T
  PROVE  /\ IsFiniteSet(S) /\ Cardinality(S) \in Nat /\ Cardinality(T) \in Nat
         /\ Cardinality(S) <= Cardinality(T)
BY FS_Subset, FS_CardinalityType

(* The whole list, when it is not longer than the limit.                   *)
LEMMA WholeList ==
  ASSUME TablesInv, NEW ids \in SUBSET DOMAIN rows, NEW limit \in Nat,
         Cardinality(ids) <= limit
  PROVE  FirstOf(ids, limit, 0) = ids
<1>1. IsFiniteSet(ids) /\ StrictOrder(ids, ByTime)
  BY ListIsOrdered
<1>2. /\ Cardinality(ids) \in Nat
      /\ \A i \in ids : Place(ids, ByTime, i) \in 0..(Cardinality(ids) - 1)
  BY <1>1, PlacesAreTaken
<1>3. FirstOf(ids, limit, 0) =
        {i \in ids : 0 <= Place(ids, ByTime, i) /\ Place(ids, ByTime, i) < 0 + limit}
  BY ListIsOrdered
<1>4. \A i \in ids : 0 <= Place(ids, ByTime, i) /\ Place(ids, ByTime, i) < 0 + limit
  BY <1>2
<1> QED
  BY <1>3, <1>4

LEMMA AllMatch ==
  TablesInv => \A i \in DOMAIN rows : Matches(i, All)
BY RowsHaveTimes DEF Matches, InRange, All, None

IdsOf(key) == {endpoints[n].id : n \in Hits(key)}

LEMMA EveryFindingCounts ==
  IInv /\ Len(rows) <= LargeLimit =>
    /\ List(All, LargeLimit, 0) = DOMAIN rows
    /\ \A key : GroupFindings(key) = FindingsOf(IdsOf(key))
<1> SUFFICES ASSUME IInv, Len(rows) <= LargeLimit
             PROVE  /\ List(All, LargeLimit, 0) = DOMAIN rows
                    /\ \A key : GroupFindings(key) = FindingsOf(IdsOf(key))
  OBVIOUS
<1>1. /\ TablesInv /\ Len(rows) \in Nat /\ DOMAIN rows = 1..Len(rows)
      /\ {i \in DOMAIN rows : Matches(i, All)} = DOMAIN rows
  BY RowsHaveTimes, AllMatch DEF IInv
<1>2. Cardinality(DOMAIN rows) = Len(rows)
  BY <1>1, FS_Interval
<1>3. List(All, LargeLimit, 0) = DOMAIN rows
  BY <1>1, <1>2, WholeList, HistoryAssumption, ZenonT(60) DEF List
<1>4. \A key : IdsOf(key) \subseteq DOMAIN rows
  BY DEF IdsOf, Hits, IInv, EveryRequestLineListed
<1>5. \A key : IdsOf(key) \cap DOMAIN rows = IdsOf(key)
  BY <1>4
<1> QED
  BY <1>3, <1>5 DEF GroupFindings, IdsOf

LEMMA EveryFindingCountsLater ==
  (IInv /\ Len(rows) <= LargeLimit =>
    /\ List(All, LargeLimit, 0) = DOMAIN rows
    /\ \A key : GroupFindings(key) = FindingsOf(IdsOf(key)))'
BY EveryFindingCounts, PTL

(* What is read of an endpoint.                                            *)
LEMMA EntriesAreKnown ==
  IInv =>
    /\ DOMAIN endpoints = 1..Len(endpoints) /\ Len(endpoints) \in Nat
    /\ IsFiniteSet(DOMAIN endpoints)
    /\ \A n \in DOMAIN endpoints :
         /\ endpoints[n].id \in DOMAIN rows
         /\ IsFiniteSet(endpoints[n].entry.params)
         /\ IsFiniteSet(endpoints[n].entry.auth)
<1> SUFFICES ASSUME IInv
             PROVE  /\ DOMAIN endpoints = 1..Len(endpoints) /\ Len(endpoints) \in Nat
                    /\ IsFiniteSet(DOMAIN endpoints)
                    /\ \A n \in DOMAIN endpoints :
                         /\ endpoints[n].id \in DOMAIN rows
                         /\ IsFiniteSet(endpoints[n].entry.params)
                         /\ IsFiniteSet(endpoints[n].entry.auth)
  OBVIOUS
<1>1. DOMAIN endpoints = 1..Len(endpoints) /\ Len(endpoints) \in Nat
  BY LenProperties DEF IInv, TablesInv
<1>2. IsFiniteSet(1..Len(endpoints))
  BY <1>1, FS_Interval
<1>3. ASSUME NEW n \in DOMAIN endpoints
      PROVE  /\ endpoints[n].id \in DOMAIN rows
             /\ IsFiniteSet(endpoints[n].entry.params)
             /\ IsFiniteSet(endpoints[n].entry.auth)
  <2> DEFINE a == rows[endpoints[n].id].what
  <2>1. /\ endpoints[n].id \in DOMAIN rows
        /\ endpoints[n].entry = ExtractEndpoint(a)
    BY DEF IInv, EveryRequestLineListed
  <2>2. a \in Analyses
    BY <2>1, RowsHaveTimes DEF IInv
  <2>3. endpoints[n].entry.params = a.params /\ endpoints[n].entry.auth = a.auth
    BY <2>1 DEF ExtractEndpoint
  <2> QED
    BY <2>1, <2>2, <2>3, HistoryAssumption
<1> QED
  BY <1>1, <1>2, <1>3

LEMMA EntriesAreKnownLater ==
  (IInv =>
    /\ DOMAIN endpoints = 1..Len(endpoints) /\ Len(endpoints) \in Nat
    /\ IsFiniteSet(DOMAIN endpoints)
    /\ \A n \in DOMAIN endpoints :
         /\ endpoints[n].id \in DOMAIN rows
         /\ IsFiniteSet(endpoints[n].entry.params)
         /\ IsFiniteSet(endpoints[n].entry.auth))'
BY EntriesAreKnown, PTL

LEMMA CommitAddsEndpoints ==
  ASSUME IInv, Commit
  PROVE  \A n \in DOMAIN endpoints : n \in DOMAIN endpoints' /\ endpoints'[n] = endpoints[n]
<1>1. endpoints \in Seq(Listings) /\ Len(rows) \in Nat /\ txn.row \in NewRows
  BY LenProperties DEF IInv, TablesInv, TxnInv, Commit
<1>2. EndpointOf(Len(rows) + 1, txn.row) \in Listings
  BY <1>1 DEF Listings
<1>3. CASE endpoints' = endpoints
  BY <1>3
<1>4. CASE endpoints' = Append(endpoints, EndpointOf(Len(rows) + 1, txn.row))
  <2>1. /\ Len(endpoints') = Len(endpoints) + 1 /\ endpoints' \in Seq(Listings)
        /\ \A n \in 1..Len(endpoints) : endpoints'[n] = endpoints[n]
    BY <1>1, <1>2, <1>4, AppendProperties
  <2>2. /\ DOMAIN endpoints = 1..Len(endpoints) /\ Len(endpoints) \in Nat
        /\ DOMAIN endpoints' = 1..Len(endpoints')
    BY <1>1, <2>1, LenProperties
  <2> QED
    BY <2>1, <2>2
<1> QED
  BY <1>3, <1>4 DEF Commit

LEMMA OnlyCommitSaves == [Next]_vars /\ rows' # rows => Commit
BY DEF Next, vars, Start, Crash, InsertEndpoint, Rollback, NextPage, InsertRow, OpenList

(* How urgent some severities are, for the table of the attack surface.    *)
Urgency(found) ==
  LET worst == IF found = {} THEN None
               ELSE CHOOSE s \in found : \A t \in found : SurfaceRank[s] >= SurfaceRank[t]
  IN  IF worst = None THEN 0 ELSE SurfaceRank[worst]

LEMMA SurfaceRankOpposes ==
  \A s \in Severities : s # None /\ Rank[s] \in 0..4 /\ SurfaceRank[s] = 5 - Rank[s]
BY DEF Severities, SurfaceRank, Rank, None

LEMMA WorstOnSurface ==
  ASSUME NEW found \in SUBSET Severities
  PROVE  LET worst == CHOOSE s \in found : \A t \in found : SurfaceRank[s] >= SurfaceRank[t]
         IN  found # {} => worst \in found /\ \A t \in found : SurfaceRank[worst] >= SurfaceRank[t]
<1> SUFFICES ASSUME found # {}
             PROVE  \E s \in found : \A t \in found : SurfaceRank[s] >= SurfaceRank[t]
  OBVIOUS
<1>1. PICK s \in found : \A t \in found : Rank[s] <= Rank[t]
  BY WorstOf
<1>2. \A t \in found : SurfaceRank[s] >= SurfaceRank[t]
  BY <1>1, SurfaceRankOpposes
<1> QED
  BY <1>2

LEMMA MoreIsMoreUrgent ==
  ASSUME NEW more \in SUBSET Severities, NEW found \in SUBSET more
  PROVE  Urgency(found) \in Nat /\ Urgency(more) \in Nat /\ Urgency(found) <= Urgency(more)
<1> DEFINE worst(S) == CHOOSE s \in S : \A t \in S : SurfaceRank[s] >= SurfaceRank[t]
<1>1. ASSUME NEW S \in SUBSET Severities, S # {}
      PROVE  /\ worst(S) \in S /\ \A t \in S : SurfaceRank[worst(S)] >= SurfaceRank[t]
             /\ Urgency(S) = SurfaceRank[worst(S)] /\ Urgency(S) \in Nat
  <2>1. worst(S) \in S /\ \A t \in S : SurfaceRank[worst(S)] >= SurfaceRank[t]
    BY <1>1, WorstOnSurface
  <2>2. worst(S) # None /\ SurfaceRank[worst(S)] \in Nat
    BY <2>1, SurfaceRankOpposes
  <2> QED
    BY <1>1, <2>1, <2>2 DEF Urgency
<1>2. Urgency({}) = 0
  BY DEF Urgency
<1>3. CASE found = {}
  <2>1. CASE more = {}
    BY <1>2, <1>3, <2>1
  <2>2. CASE more # {}
    BY <1>1, <1>2, <1>3, <2>2
  <2> QED
    BY <2>1, <2>2
<1>4. CASE found # {}
  <2>1. /\ worst(found) \in more /\ Urgency(found) = SurfaceRank[worst(found)]
        /\ Urgency(found) \in Nat
    BY <1>1, <1>4
  <2>2. /\ Urgency(more) \in Nat /\ Urgency(more) = SurfaceRank[worst(more)]
        /\ \A t \in more : SurfaceRank[worst(more)] >= SurfaceRank[t]
    BY <1>1, <1>4
  <2> QED
    BY <2>1, <2>2
<1> QED
  BY <1>3, <1>4


Changing(method) == IF method \in {"POST", "PUT", "DELETE", "PATCH"} THEN 10 ELSE 0

LEMMA ScoreIsSum ==
  \A key : PriorityScore(key) =
    10 * Urgency({SeverityOf(f) : f \in GroupFindings(key)})
    + 3 * Cardinality(UNION {e.params : e \in Entries(key)})
    + Changing(key[2]) + (IF HasAuthBoundary(key) THEN 10 ELSE 0)
BY DEF PriorityScore, MaxSeverity, Urgency, Changing

LEMMA ScoreIsSumLater ==
  (\A key : PriorityScore(key) =
    10 * Urgency({SeverityOf(f) : f \in GroupFindings(key)})
    + 3 * Cardinality(UNION {e.params : e \in Entries(key)})
    + Changing(key[2]) + (IF HasAuthBoundary(key) THEN 10 ELSE 0))'
BY ScoreIsSum, PTL

LEMMA SeveritiesOfFindings ==
  TablesInv => \A ids \in SUBSET DOMAIN rows : \A f \in FindingsOf(ids) :
                 SeverityOf(f) \in Severities
<1> SUFFICES ASSUME TablesInv, NEW ids \in SUBSET DOMAIN rows, NEW f \in FindingsOf(ids)
             PROVE  SeverityOf(f) \in Severities
  OBVIOUS
<1>1. PICK i \in ids : \E k \in DOMAIN rows[i].what.findings : f = <<i, k>>
  BY DEF FindingsOf
<1>4. PICK k \in DOMAIN rows[i].what.findings : f = <<i, k>>
  BY <1>1
<1>2. rows[i].what.findings \in Seq(Severities)
  BY RowsHaveTimes, HistoryAssumption
<1>3. rows[i].what.findings[k] \in Severities
  BY <1>2, ElementOfSeq, LenProperties
<1> QED
  BY <1>3, <1>4 DEF SeverityOf

LEMMA SeveritiesOfFindingsLater ==
  (TablesInv => \A ids \in SUBSET DOMAIN rows : \A f \in FindingsOf(ids) :
                  SeverityOf(f) \in Severities)'
BY SeveritiesOfFindings, PTL

LEMMA SumsGrow ==
  ASSUME NEW u \in Nat, NEW v \in Nat, u <= v, NEW m \in Nat, NEW n \in Nat, m <= n,
         NEW a \in Nat, NEW b \in Nat, a <= b, NEW change \in Nat
  PROVE  10 * u + 3 * m + change + a <= 10 * v + 3 * n + change + b
OBVIOUS

LEMMA ScoreNeverFalls ==
  ASSUME IInv, IInv', Commit, Len(rows') <= LargeLimit, NEW key
  PROVE  PriorityScore(key) <= PriorityScore(key)'
<1>1. /\ Len(rows) \in Nat /\ Len(rows') = Len(rows) + 1
      /\ \A i \in DOMAIN rows : i \in DOMAIN rows' /\ rows'[i] = rows[i]
  BY CommitAppends
<1>2. \A n \in DOMAIN endpoints : n \in DOMAIN endpoints' /\ endpoints'[n] = endpoints[n]
  BY CommitAddsEndpoints
<1>3. \A n \in Hits(key) : n \in Hits(key)' /\ endpoints'[n] = endpoints[n]
  BY <1>2 DEF Hits, OfEndpoint
<1> DEFINE found == {SeverityOf(f) : f \in GroupFindings(key)}
           params == UNION {e.params : e \in Entries(key)}
<1>4. Urgency(found) \in Nat /\ Urgency(found') \in Nat /\ Urgency(found) <= Urgency(found')
  <2>1. GroupFindings(key) = FindingsOf(IdsOf(key)) /\ IdsOf(key) \subseteq DOMAIN rows
    BY <1>1, EveryFindingCounts, EntriesAreKnown, HistoryAssumption DEF IdsOf, Hits
  <2>2. /\ GroupFindings(key)' = FindingsOf(IdsOf(key))'
        /\ IdsOf(key)' \subseteq DOMAIN rows'
    BY EveryFindingCountsLater, EntriesAreKnownLater DEF IdsOf, Hits
  <2>3. IdsOf(key) \subseteq IdsOf(key)'
    BY <1>3 DEF IdsOf
  <2>4. FindingsOf(IdsOf(key)) \subseteq FindingsOf(IdsOf(key))'
    BY <1>1, <2>1, <2>3 DEF FindingsOf
  <2>5. \A f \in FindingsOf(IdsOf(key)) : SeverityOf(f)' = SeverityOf(f)
    BY <1>1, <2>1 DEF FindingsOf, SeverityOf
  <2>6. found \subseteq found'
    BY <2>1, <2>2, <2>4, <2>5
  <2>7. found' \in SUBSET Severities
    <3>1. \A f \in FindingsOf(IdsOf(key))' : SeverityOf(f)' \in Severities
      BY <2>2, SeveritiesOfFindingsLater DEF IInv
    <3> QED
      BY <2>2, <3>1
  <2> HIDE DEF found
  <2> QED
    BY <2>6, <2>7, MoreIsMoreUrgent
<1>5. /\ Cardinality(params) \in Nat /\ Cardinality(params') \in Nat
      /\ Cardinality(params) <= Cardinality(params')
  <2>1. params \subseteq params'
    BY <1>3 DEF Entries
  <2>2. IsFiniteSet(params')
    <3> DEFINE hits == Hits(key)'
               f == [n \in hits |-> endpoints'[n].entry.params]
    <3>1. /\ IsFiniteSet(hits)
          /\ \A n \in hits : IsFiniteSet(f[n])
      BY EntriesAreKnownLater, FS_Subset DEF Hits
    <3>2. params' = UNION {f[n] : n \in hits}
      BY DEF Entries
    <3> HIDE DEF hits, f
    <3>3. IsFiniteSet(UNION {f[n] : n \in hits})
      BY <3>1, FiniteUnion
    <3> QED
      BY <3>2, <3>3
  <2> QED
    BY <2>1, <2>2, LargerSet
<1>6. HasAuthBoundary(key) => HasAuthBoundary(key)'
  BY <1>3 DEF HasAuthBoundary, Entries
<1>7. Changing(key[2]) \in Nat
  BY DEF Changing
<1>8. /\ PriorityScore(key) = 10 * Urgency(found) + 3 * Cardinality(params)
           + Changing(key[2]) + (IF HasAuthBoundary(key) THEN 10 ELSE 0)
      /\ PriorityScore(key)' = 10 * Urgency(found') + 3 * Cardinality(params')
           + Changing(key[2]) + (IF HasAuthBoundary(key)' THEN 10 ELSE 0)
  BY ScoreIsSum, ScoreIsSumLater
<1> DEFINE guarded == IF HasAuthBoundary(key) THEN 10 ELSE 0
<1>9. guarded \in Nat /\ guarded' \in Nat /\ guarded <= guarded'
  BY <1>6
<1>10. /\ PriorityScore(key) = 10 * Urgency(found) + 3 * Cardinality(params)
            + Changing(key[2]) + guarded
       /\ PriorityScore(key)' = 10 * Urgency(found') + 3 * Cardinality(params')
            + Changing(key[2]) + guarded'
  BY <1>8
<1> DEFINE urgency == Urgency(found)
           number  == Cardinality(params)
           change  == Changing(key[2])
<1> HIDE DEF found, params, guarded
<1>11. /\ urgency \in Nat /\ urgency' \in Nat /\ urgency <= urgency'
       /\ number \in Nat /\ number' \in Nat /\ number <= number'
       /\ change \in Nat
  BY <1>4, <1>5, <1>7
<1>12. /\ PriorityScore(key) = 10 * urgency + 3 * number + change + guarded
       /\ PriorityScore(key)' = 10 * urgency' + 3 * number' + change + guarded'
  BY <1>10
<1> HIDE DEF urgency, number, change
<1>13. 10 * urgency + 3 * number + change + guarded
         <= 10 * urgency' + 3 * number' + change + guarded'
  BY <1>9, <1>11, SumsGrow
<1> QED
  BY <1>12, <1>13, Zenon

(* No save lets the score of an endpoint fall, as long as all analyses fit *)
(* into the list that is searched for findings.                            *)
THEOREM PriorityNeverFallsHolds == Spec => PriorityNeverFalls
<1>1. IInv /\ IInv' /\ [Next]_vars =>
        [rows' # rows /\ Len(rows') <= LargeLimit =>
           \A key \in Groups : PriorityScore(key) <= PriorityScore(key)']_vars
  BY OnlyCommitSaves, ScoreNeverFalls
<1> QED
  BY <1>1, Invariance, PTL DEF Spec, PriorityNeverFalls

-----------------------------------------------------------------------------
(* The profile of a host                                                   *)

Evidence(h) ==
  Cardinality(SystemTypes(h)) + Cardinality(AuthMethods(h)) + Cardinality(TechStack(h))

LEMMA ProfileFields ==
  \A h : LET known == Cardinality(HostEndpoints(h)) # 0
         IN  /\ Profile(h).types = IF known THEN SystemTypes(h) ELSE {}
             /\ Profile(h).auth = IF known THEN AuthMethods(h) ELSE {}
             /\ Profile(h).tech = IF known THEN {t[2] : t \in TechStack(h)} ELSE {}
             /\ Profile(h).count = Cardinality(HostEndpoints(h))
             /\ Profile(h).confidence =
                  IF ~known THEN 0 ELSE IF SystemTypes(h) = {} THEN 10
                  ELSE LesserOf(95, 30 + 10 * Evidence(h)
                                    + 2 * LesserOf(10, Cardinality(HostEndpoints(h))))
<1> SUFFICES ASSUME NEW h
             PROVE  LET known == Cardinality(HostEndpoints(h)) # 0
                    IN  /\ Profile(h).types = IF known THEN SystemTypes(h) ELSE {}
                        /\ Profile(h).auth = IF known THEN AuthMethods(h) ELSE {}
                        /\ Profile(h).tech = IF known THEN {t[2] : t \in TechStack(h)} ELSE {}
                        /\ Profile(h).count = Cardinality(HostEndpoints(h))
                        /\ Profile(h).confidence =
                             IF ~known THEN 0 ELSE IF SystemTypes(h) = {} THEN 10
                             ELSE LesserOf(95, 30 + 10 * Evidence(h)
                                    + 2 * LesserOf(10, Cardinality(HostEndpoints(h))))
  OBVIOUS
<1>1. CASE Cardinality(HostEndpoints(h)) = 0
  BY <1>1 DEF Profile
<1>2. CASE Cardinality(HostEndpoints(h)) # 0
  BY <1>2 DEF Profile, Evidence
<1> QED
  BY <1>1, <1>2

LEMMA ProfileFieldsLater ==
  (\A h : LET known == Cardinality(HostEndpoints(h)) # 0
          IN  /\ Profile(h).types = IF known THEN SystemTypes(h) ELSE {}
              /\ Profile(h).auth = IF known THEN AuthMethods(h) ELSE {}
              /\ Profile(h).tech = IF known THEN {t[2] : t \in TechStack(h)} ELSE {}
              /\ Profile(h).count = Cardinality(HostEndpoints(h))
              /\ Profile(h).confidence =
                   IF ~known THEN 0 ELSE IF SystemTypes(h) = {} THEN 10
                   ELSE LesserOf(95, 30 + 10 * Evidence(h)
                                     + 2 * LesserOf(10, Cardinality(HostEndpoints(h)))))'
BY ProfileFields, PTL

Mentioning(h) == {i \in DOMAIN rows : rows[i].what.url \in Mentions[h]}

LEMMA WholeProfile ==
  TablesInv => \A h \in Hosts :
    Cardinality(Mentioning(h)) <= ListLimit => ProfileItems(h) = Mentioning(h)
<1> SUFFICES ASSUME TablesInv, NEW h \in Hosts, Cardinality(Mentioning(h)) <= ListLimit
             PROVE  ProfileItems(h) = Mentioning(h)
  OBVIOUS
<1>1. OfHost(h).host = h /\ OfHost(h).since = 0 /\ OfHost(h).severity = None /\ h # None
  BY HistoryAssumption DEF OfHost, All
<1>2. {i \in DOMAIN rows : Matches(i, OfHost(h))} = Mentioning(h)
  BY <1>1, RowsHaveTimes DEF Matches, InRange, Mentioning
<1>3. Mentioning(h) \in SUBSET DOMAIN rows
  BY DEF Mentioning
<1> QED
  BY <1>2, <1>3, WholeList, HistoryAssumption DEF ProfileItems, List

LEMMA WholeProfileLater ==
  (TablesInv => \A h \in Hosts :
     Cardinality(Mentioning(h)) <= ListLimit => ProfileItems(h) = Mentioning(h))'
BY WholeProfile, PTL

LEMMA MoreTraffic ==
  ASSUME IInv, IInv', Commit, NEW h \in Hosts, Cardinality(Mentioning(h)') <= ListLimit
  PROVE  /\ SystemTypes(h) \subseteq SystemTypes(h)' /\ AuthMethods(h) \subseteq AuthMethods(h)'
         /\ TechStack(h) \subseteq TechStack(h)' /\ HostEndpoints(h) \subseteq HostEndpoints(h)'
<1>1. \A i \in DOMAIN rows : i \in DOMAIN rows' /\ rows'[i] = rows[i]
  BY CommitAppends
<1>2. \A n \in DOMAIN endpoints : n \in DOMAIN endpoints' /\ endpoints'[n] = endpoints[n]
  BY CommitAddsEndpoints
<1>3. Mentioning(h) \subseteq Mentioning(h)'
  BY <1>1 DEF Mentioning
<1>4. Cardinality(Mentioning(h)) <= ListLimit
  <2>1. IsFiniteSet(Mentioning(h)')
    BY CommitAppends, FS_Subset DEF Mentioning
  <2> QED
    BY <1>3, <2>1, LargerSet, HistoryAssumption
<1>5. ProfileItems(h) = Mentioning(h) /\ ProfileItems(h)' = Mentioning(h)'
  BY <1>4, WholeProfile, WholeProfileLater DEF IInv
<1>6. \A i \in ProfileItems(h) : i \in ProfileItems(h)' /\ rows'[i] = rows[i]
  BY <1>1, <1>3, <1>5 DEF Mentioning
<1>7. \A n \in HostEndpoints(h) :
        /\ n \in HostEndpoints(h)' /\ endpoints'[n] = endpoints[n]
        /\ rows'[endpoints[n].id] = rows[endpoints[n].id]
  BY <1>1, <1>2, EntriesAreKnown DEF HostEndpoints
<1>8. SystemTypes(h) \subseteq SystemTypes(h)'
  BY <1>6, <1>7 DEF SystemTypes
<1>9. AuthMethods(h) \subseteq AuthMethods(h)'
  BY <1>6, <1>7 DEF AuthMethods
<1>10. TechStack(h) \subseteq TechStack(h)'
  BY <1>6 DEF TechStack
<1> QED
  BY <1>7, <1>8, <1>9, <1>10

(* What one analysis shows is finite, and so is the profile.               *)
LEMMA ProfileIsFinite ==
  IInv => \A h \in Hosts :
    /\ IsFiniteSet(SystemTypes(h)) /\ IsFiniteSet(AuthMethods(h))
    /\ IsFiniteSet(TechStack(h)) /\ IsFiniteSet(HostEndpoints(h))
<1> SUFFICES ASSUME IInv, NEW h \in Hosts
             PROVE  /\ IsFiniteSet(SystemTypes(h)) /\ IsFiniteSet(AuthMethods(h))
                    /\ IsFiniteSet(TechStack(h)) /\ IsFiniteSet(HostEndpoints(h))
  OBVIOUS
<1> DEFINE visits == HostEndpoints(h)
           items == ProfileItems(h)
<1>1. IsFiniteSet(visits)
  BY EntriesAreKnown, FS_Subset DEF HostEndpoints
<1>2. IsFiniteSet(items)
  BY RowsHaveTimes, FS_Subset DEF ProfileItems, List, FirstOf, IInv
<1>3. \A i \in items : rows[i].what \in Analyses
  BY RowsHaveTimes DEF ProfileItems, List, FirstOf, IInv
<1>4. \A n \in visits : /\ rows[endpoints[n].id].what \in Analyses
                        /\ IsFiniteSet(endpoints[n].entry.auth)
  BY EntriesAreKnown, RowsHaveTimes DEF HostEndpoints, IInv
<1> HIDE DEF visits, items
<1>5. IsFiniteSet(SystemTypes(h))
  <2> DEFINE f == [n \in visits |-> rows[endpoints[n].id].what.pathMarks]
             g == [i \in items |-> rows[i].what.answerMarks]
  <2>1. (\A n \in visits : IsFiniteSet(f[n])) /\ \A i \in items : IsFiniteSet(g[i])
    BY <1>3, <1>4, HistoryAssumption
  <2>2. SystemTypes(h) = (UNION {f[n] : n \in visits}) \cup UNION {g[i] : i \in items}
    BY DEF SystemTypes, visits, items
  <2> HIDE DEF f, g
  <2>3. IsFiniteSet(UNION {f[n] : n \in visits}) /\ IsFiniteSet(UNION {g[i] : i \in items})
    BY <1>1, <1>2, <2>1, FiniteUnion
  <2> DEFINE A == UNION {f[n] : n \in visits}
             B == UNION {g[i] : i \in items}
  <2>4. IsFiniteSet(A) /\ IsFiniteSet(B)
    BY <2>3
  <2> HIDE DEF A, B
  <2>5. IsFiniteSet(A \cup B)
    BY <2>4, FS_Union
  <2> QED
    BY <2>2, <2>5 DEF A, B
<1>6. IsFiniteSet(AuthMethods(h))
  <2> DEFINE f == [n \in visits |-> endpoints[n].entry.auth]
             g == [i \in items |-> rows[i].what.answerAuth]
  <2>1. (\A n \in visits : IsFiniteSet(f[n])) /\ \A i \in items : IsFiniteSet(g[i])
    BY <1>3, <1>4, HistoryAssumption
  <2>2. AuthMethods(h) = (UNION {f[n] : n \in visits}) \cup UNION {g[i] : i \in items}
    BY DEF AuthMethods, visits, items
  <2> HIDE DEF f, g
  <2>3. IsFiniteSet(UNION {f[n] : n \in visits}) /\ IsFiniteSet(UNION {g[i] : i \in items})
    BY <1>1, <1>2, <2>1, FiniteUnion
  <2> DEFINE A == UNION {f[n] : n \in visits}
             B == UNION {g[i] : i \in items}
  <2>4. IsFiniteSet(A) /\ IsFiniteSet(B)
    BY <2>3
  <2> HIDE DEF A, B
  <2>5. IsFiniteSet(A \cup B)
    BY <2>4, FS_Union
  <2> QED
    BY <2>2, <2>5 DEF A, B
<1>7. IsFiniteSet(TechStack(h))
  <2> DEFINE f == [i \in items |-> {i} \X rows[i].what.tech]
  <2>1. ASSUME NEW i \in items PROVE IsFiniteSet(f[i])
    <3>1. IsFiniteSet({i}) /\ IsFiniteSet(rows[i].what.tech)
      BY <1>3, FS_Singleton, HistoryAssumption
    <3>2. IsFiniteSet({i} \X rows[i].what.tech)
      BY <3>1, FS_Product
    <3> QED
      BY <3>2
  <2>2. TechStack(h) = UNION {f[i] : i \in items}
    BY DEF TechStack, items
  <2> HIDE DEF f
  <2> QED
    BY <1>2, <2>1, <2>2, FiniteUnion
<1> QED
  BY <1>1, <1>5, <1>6, <1>7 DEF visits

LEMMA ProfileIsFiniteLater ==
  (IInv => \A h \in Hosts :
     /\ IsFiniteSet(SystemTypes(h)) /\ IsFiniteSet(AuthMethods(h))
     /\ IsFiniteSet(TechStack(h)) /\ IsFiniteSet(HostEndpoints(h)))'
BY ProfileIsFinite, PTL

LEMMA ConfidenceGrows ==
  ASSUME NEW e \in Nat, NEW n \in Nat, NEW f \in Nat, NEW m \in Nat, e <= f, n <= m
  PROVE  /\ LesserOf(95, 30 + 10 * e + 2 * LesserOf(10, n))
              <= LesserOf(95, 30 + 10 * f + 2 * LesserOf(10, m))
         /\ 10 <= LesserOf(95, 30 + 10 * f + 2 * LesserOf(10, m))
         /\ LesserOf(95, 30 + 10 * f + 2 * LesserOf(10, m)) \in Nat
BY DEF LesserOf

LEMMA ProfileGrows ==
  ASSUME IInv, IInv', Commit, NEW h \in Hosts, Cardinality(Mentioning(h)') <= ListLimit
  PROVE  /\ Profile(h).types \subseteq Profile(h).types'
         /\ Profile(h).auth \subseteq Profile(h).auth'
         /\ Profile(h).tech \subseteq Profile(h).tech'
         /\ Profile(h).count <= Profile(h).count'
         /\ Profile(h).confidence <= Profile(h).confidence'
<1> DEFINE n == Cardinality(HostEndpoints(h))
           m == Cardinality(HostEndpoints(h)')
<1>1. /\ SystemTypes(h) \subseteq SystemTypes(h)' /\ AuthMethods(h) \subseteq AuthMethods(h)'
      /\ TechStack(h) \subseteq TechStack(h)' /\ HostEndpoints(h) \subseteq HostEndpoints(h)'
  BY MoreTraffic
<1>2. n \in Nat /\ m \in Nat /\ n <= m
  BY <1>1, ProfileIsFiniteLater, LargerSet
<1>3. Evidence(h) \in Nat /\ Evidence(h)' \in Nat /\ Evidence(h) <= Evidence(h)'
  <2>1. /\ Cardinality(SystemTypes(h)) \in Nat /\ Cardinality(SystemTypes(h)') \in Nat
        /\ Cardinality(SystemTypes(h)) <= Cardinality(SystemTypes(h)')
    BY <1>1, ProfileIsFiniteLater, LargerSet
  <2>2. /\ Cardinality(AuthMethods(h)) \in Nat /\ Cardinality(AuthMethods(h)') \in Nat
        /\ Cardinality(AuthMethods(h)) <= Cardinality(AuthMethods(h)')
    BY <1>1, ProfileIsFiniteLater, LargerSet
  <2>3. /\ Cardinality(TechStack(h)) \in Nat /\ Cardinality(TechStack(h)') \in Nat
        /\ Cardinality(TechStack(h)) <= Cardinality(TechStack(h)')
    BY <1>1, ProfileIsFiniteLater, LargerSet
  <2> QED
    BY <2>1, <2>2, <2>3 DEF Evidence
<1>4. /\ Profile(h).types = IF n # 0 THEN SystemTypes(h) ELSE {}
      /\ Profile(h).auth = IF n # 0 THEN AuthMethods(h) ELSE {}
      /\ Profile(h).tech = IF n # 0 THEN {t[2] : t \in TechStack(h)} ELSE {}
      /\ Profile(h).count = n
      /\ Profile(h).confidence =
           IF n = 0 THEN 0 ELSE IF SystemTypes(h) = {} THEN 10
           ELSE LesserOf(95, 30 + 10 * Evidence(h) + 2 * LesserOf(10, n))
  BY ProfileFields
<1>5. /\ Profile(h).types' = IF m # 0 THEN SystemTypes(h)' ELSE {}
      /\ Profile(h).auth' = IF m # 0 THEN AuthMethods(h)' ELSE {}
      /\ Profile(h).tech' = IF m # 0 THEN {t[2] : t \in TechStack(h)'} ELSE {}
      /\ Profile(h).count' = m
      /\ Profile(h).confidence' =
           IF m = 0 THEN 0 ELSE IF SystemTypes(h)' = {} THEN 10
           ELSE LesserOf(95, 30 + 10 * Evidence(h)' + 2 * LesserOf(10, m))
  BY ProfileFieldsLater
<1> HIDE DEF n, m
<1>6. Profile(h).confidence <= Profile(h).confidence'
  <2> DEFINE old == LesserOf(95, 30 + 10 * Evidence(h) + 2 * LesserOf(10, n))
             new == LesserOf(95, 30 + 10 * Evidence(h)' + 2 * LesserOf(10, m))
  <2>1. old <= new /\ 10 <= new /\ new \in Nat
    BY <1>2, <1>3, ConfidenceGrows
  <2>2. /\ Profile(h).confidence = IF n = 0 THEN 0
                                   ELSE IF SystemTypes(h) = {} THEN 10 ELSE old
        /\ Profile(h).confidence' = IF m = 0 THEN 0
                                    ELSE IF SystemTypes(h)' = {} THEN 10 ELSE new
    BY <1>4, <1>5
  <2> HIDE DEF old, new
  <2>3. CASE n = 0
    BY <1>2, <2>1, <2>2, <2>3
  <2>4. CASE n # 0 /\ SystemTypes(h) = {}
    <3>1. m # 0
      BY <1>2, <2>4
    <3>2. Profile(h).confidence = 10 /\ Profile(h).confidence' \in {10, new}
      BY <2>2, <2>4, <3>1
    <3> QED
      BY <2>1, <3>2
  <2>5. CASE n # 0 /\ SystemTypes(h) # {}
    <3>1. m # 0 /\ SystemTypes(h)' # {}
      BY <1>1, <1>2, <2>5
    <3>2. Profile(h).confidence = old /\ Profile(h).confidence' = new
      BY <2>2, <2>5, <3>1
    <3> QED
      BY <2>1, <3>2
  <2> QED
    BY <2>3, <2>4, <2>5
<1> QED
  BY <1>1, <1>2, <1>4, <1>5, <1>6

(* Traffic only adds to the profile of a host, as long as the analyses     *)
(* whose URL mentions it fit into one list.                                *)
THEOREM ProfileNeverFadesHolds == Spec => ProfileNeverFades
<1>1. IInv /\ IInv' /\ [Next]_vars =>
        [rows' # rows => \A h \in Hosts :
           Cardinality({i \in DOMAIN rows' : rows'[i].what.url \in Mentions[h]}) <= ListLimit =>
             /\ Profile(h).types \subseteq Profile(h).types'
             /\ Profile(h).auth \subseteq Profile(h).auth'
             /\ Profile(h).tech \subseteq Profile(h).tech'
             /\ Profile(h).count <= Profile(h).count'
             /\ Profile(h).confidence <= Profile(h).confidence']_vars
  <2>1. \A h : Mentioning(h)' = {i \in DOMAIN rows' : rows'[i].what.url \in Mentions[h]}
    BY DEF Mentioning
  <2> QED
    BY <2>1, OnlyCommitSaves, ProfileGrows
<1> QED
  BY <1>1, Invariance, PTL DEF Spec, ProfileNeverFades

-----------------------------------------------------------------------------
(* The dashboard                                                           *)

LEMMA FiveParts ==
  ASSUME NEW F, IsFiniteSet(F), NEW g, \A f \in F : g[f] \in Severities
  PROVE  LET Count(s) == Cardinality({f \in F : g[f] = s})
         IN  Count("critical") + Count("high") + Count("medium") + Count("low")
               + Count("info") = Cardinality(F)
<1> DEFINE Part(s) == {f \in F : g[f] = s}
           A == Part("critical") \cup Part("high")
           B == A \cup Part("medium")
           C == B \cup Part("low")
<1>1. \A s : IsFiniteSet(Part(s)) /\ Cardinality(Part(s)) \in Nat
  <2> SUFFICES ASSUME NEW s PROVE IsFiniteSet(Part(s)) /\ Cardinality(Part(s)) \in Nat
    OBVIOUS
  <2>1. Part(s) \in SUBSET F
    OBVIOUS
  <2> HIDE DEF Part
  <2> QED
    BY <2>1, LargerSet
<1>2. \A s, S : IsFiniteSet(S) /\ S \cap Part(s) = {} =>
                  /\ IsFiniteSet(S \cup Part(s))
                  /\ Cardinality(S \cup Part(s)) = Cardinality(S) + Cardinality(Part(s))
  <2> SUFFICES ASSUME NEW s, NEW S, IsFiniteSet(S), S \cap Part(s) = {}
               PROVE  /\ IsFiniteSet(S \cup Part(s))
                      /\ Cardinality(S \cup Part(s)) = Cardinality(S) + Cardinality(Part(s))
    BY Zenon
  <2> HIDE DEF Part
  <2>1. /\ IsFiniteSet(S \cup Part(s))
        /\ Cardinality(S \cup Part(s)) = Cardinality(S) + Cardinality(Part(s)) - Cardinality({})
    BY <1>1, FS_Union
  <2>2. Cardinality({}) = 0 /\ Cardinality(S) \in Nat /\ Cardinality(Part(s)) \in Nat
    BY <1>1, FS_EmptySet, FS_CardinalityType
  <2> QED
    BY <2>1, <2>2
<1>3. /\ Part("critical") \cap Part("high") = {} /\ A \cap Part("medium") = {}
      /\ B \cap Part("low") = {} /\ C \cap Part("info") = {}
      /\ C \cup Part("info") = F
  BY DEF Severities
<1> HIDE DEF Part
<1>4. IsFiniteSet(A) /\ Cardinality(A) = Cardinality(Part("critical")) + Cardinality(Part("high"))
  BY <1>1, <1>2, <1>3
<1> HIDE DEF A
<1>5. IsFiniteSet(B) /\ Cardinality(B) = Cardinality(A) + Cardinality(Part("medium"))
  BY <1>2, <1>3, <1>4
<1> HIDE DEF B
<1>6. IsFiniteSet(C) /\ Cardinality(C) = Cardinality(B) + Cardinality(Part("low"))
  BY <1>2, <1>3, <1>5
<1> HIDE DEF C
<1>7. Cardinality(F) = Cardinality(C) + Cardinality(Part("info"))
  BY <1>2, <1>3, <1>6
<1> QED
  BY <1>1, <1>4, <1>5, <1>6, <1>7 DEF Part

LEMMA FindingsAreFinite ==
  ASSUME TablesInv, NEW ids \in SUBSET DOMAIN rows
  PROVE  IsFiniteSet(FindingsOf(ids))
<1> DEFINE f == [i \in ids |-> {i} \X DOMAIN rows[i].what.findings]
<1>1. IsFiniteSet(ids)
  BY ListIsOrdered
<1>2. ASSUME NEW i \in ids PROVE IsFiniteSet(f[i])
  <2>1. rows[i].what.findings \in Seq(Severities)
    BY RowsHaveTimes, HistoryAssumption
  <2>2. /\ Len(rows[i].what.findings) \in Nat
        /\ DOMAIN rows[i].what.findings = 1..Len(rows[i].what.findings)
    BY <2>1, LenProperties
  <2>3. IsFiniteSet(DOMAIN rows[i].what.findings) /\ IsFiniteSet({i})
    <3>1. IsFiniteSet(1..Len(rows[i].what.findings))
      BY <2>2, FS_Interval
    <3> QED
      BY <2>2, <3>1, FS_Singleton
  <2>4. IsFiniteSet({i} \X DOMAIN rows[i].what.findings)
    BY <2>3, FS_Product
  <2> QED
    BY <2>4
<1>3. FindingsOf(ids) = UNION {f[i] : i \in ids}
  <2>1. \A i \in ids : f[i] = {<<i, k>> : k \in DOMAIN rows[i].what.findings}
    OBVIOUS
  <2> HIDE DEF f
  <2> QED
    BY <2>1 DEF FindingsOf
<1> HIDE DEF f
<1> QED
  BY <1>1, <1>2, <1>3, FiniteUnion

Analysed == List(All, LargeLimit, 0)

LEMMA DistributionAddsUp ==
  ASSUME TablesInv
  PROVE  LET counts == Statistics(0).distribution
         IN  counts["critical"] + counts["high"] + counts["medium"] + counts["low"]
               + counts["info"] = Cardinality(FindingsOf(Analysed))
<1> DEFINE F == FindingsOf(Analysed)
           g == [f \in F |-> SeverityOf(f)]
<1>1. Analysed \in SUBSET DOMAIN rows
  BY DEF Analysed, List, FirstOf
<1>2. IsFiniteSet(F) /\ \A f \in F : g[f] \in Severities
  BY <1>1, FindingsAreFinite, SeveritiesOfFindings
<1>3. [All EXCEPT !.since = 0] = All
  BY DEF All
<1>4. \A s \in Severities : Statistics(0).distribution[s] = Cardinality({f \in F : g[f] = s})
  <2>1. \A s : {f \in F : SeverityOf(f) = s} = {f \in F : g[f] = s}
    OBVIOUS
  <2>2. \A s \in Severities :
          Statistics(0).distribution[s] = Cardinality({f \in F : SeverityOf(f) = s})
    BY <1>3 DEF Statistics, Analysed
  <2> QED
    BY <2>1, <2>2
<1>5. /\ "critical" \in Severities /\ "high" \in Severities /\ "medium" \in Severities
      /\ "low" \in Severities /\ "info" \in Severities
  BY DEF Severities
<1> HIDE DEF F, g
<1>6. Cardinality({f \in F : g[f] = "critical"}) + Cardinality({f \in F : g[f] = "high"})
        + Cardinality({f \in F : g[f] = "medium"}) + Cardinality({f \in F : g[f] = "low"})
        + Cardinality({f \in F : g[f] = "info"}) = Cardinality(F)
  BY <1>2, FiveParts
<1> QED
  BY <1>4, <1>5, <1>6 DEF F

LEMMA OfOneAnalysis ==
  \A ids, f : f \in FindingsOf(ids) <=>
    \E i \in ids : \E k \in DOMAIN rows[i].what.findings : f = <<i, k>>
BY DEF FindingsOf

LEMMA FindingHasAnalysis ==
  \A ids, f : f \in FindingsOf(ids) => f[1] \in ids
BY DEF FindingsOf

Unlisted == {i \in Analysed : \A n \in DOMAIN endpoints : endpoints[n].id # i}

LEMMA SharesAreAll ==
  FindingsOf(Analysed) =
    UNION ({GroupFindings(key) : key \in Groups} \cup {FindingsOf(Unlisted)})
<1>1. ASSUME NEW f \in FindingsOf(Analysed)
      PROVE  f \in FindingsOf(Unlisted) \/ \E key \in Groups : f \in GroupFindings(key)
  <2>1. PICK i \in Analysed : \E k \in DOMAIN rows[i].what.findings : f = <<i, k>>
    BY OfOneAnalysis
  <2>2. CASE i \in Unlisted
    BY <2>1, <2>2, OfOneAnalysis
  <2>3. CASE i \notin Unlisted
    <3>1. PICK n \in DOMAIN endpoints : endpoints[n].id = i
      BY <2>1, <2>3 DEF Unlisted
    <3> DEFINE key == OfEndpoint(endpoints[n])
    <3>2. key \in Groups /\ i \in {endpoints[m].id : m \in Hits(key)}
      BY <3>1 DEF Groups, Hits
    <3>3. f \in GroupFindings(key)
      BY <2>1, <3>2, OfOneAnalysis DEF GroupFindings, Analysed
    <3> QED
      BY <3>2, <3>3
  <2> QED
    BY <2>2, <2>3
<1>2. \A key : GroupFindings(key) \subseteq FindingsOf(Analysed)
  BY DEF GroupFindings, FindingsOf, Analysed
<1>3. FindingsOf(Unlisted) \subseteq FindingsOf(Analysed)
  BY DEF FindingsOf, Unlisted
<1> QED
  BY <1>1, <1>2, <1>3

LEMMA SharesAreApart ==
  ASSUME IInv, NEW key
  PROVE  /\ GroupFindings(key) \cap FindingsOf(Unlisted) = {}
         /\ \A other : other # key => GroupFindings(key) \cap GroupFindings(other) = {}
<1>1. \A k, f : f \in GroupFindings(k) => \E n \in Hits(k) : endpoints[n].id = f[1]
  BY FindingHasAnalysis DEF GroupFindings
<1>2. GroupFindings(key) \cap FindingsOf(Unlisted) = {}
  BY <1>1, FindingHasAnalysis DEF Unlisted, Hits
<1>3. ASSUME NEW other, other # key, NEW f \in GroupFindings(key), f \in GroupFindings(other)
      PROVE  FALSE
  <2>1. PICK n \in Hits(key) : endpoints[n].id = f[1]
    BY <1>1
  <2>2. PICK m \in Hits(other) : endpoints[m].id = f[1]
    BY <1>1, <1>3
  <2> DEFINE listed == ListedAs(f[1])
  <2>3. n \in listed /\ m \in listed /\ n # m
    BY <1>3, <2>1, <2>2 DEF ListedAs, Hits
  <2>4. IsFiniteSet(listed) /\ Cardinality(listed) \in {0, 1}
    BY <2>1, EntriesAreKnown, FS_Subset DEF ListedAs, IInv, EveryRequestLineListed, Hits
  <2> HIDE DEF listed
  <2> QED
    BY <2>3, <2>4, FS_EmptySet, FS_Singleton
<1> QED
  BY <1>2, <1>3

(* The order of get_recent_findings.                                       *)
NewerFinding(f, g) == Before(f[1], g[1]) \/ (f[1] = g[1] /\ f[2] < g[2])

LEMMA RecentAreAsManyAsAsked ==
  ASSUME TablesInv, NEW limit \in Nat
  PROVE  Cardinality(RecentFindings(limit))
           = LesserOf(limit, Cardinality(FindingsOf(Analysed)))
<1> DEFINE F == FindingsOf(Analysed)
           R == {p \in F \X F : NewerFinding(p[1], p[2])}
           n == LesserOf(limit, Cardinality(F))
<1>1. Analysed \in SUBSET DOMAIN rows
  BY DEF Analysed, List, FirstOf
<1>2. IsFiniteSet(F) /\ Cardinality(F) \in Nat
  BY <1>1, FindingsAreFinite, FS_CardinalityType
<1>3. ASSUME NEW f \in F
      PROVE  /\ f[1] \in Nat /\ f[2] \in Nat /\ rows[f[1]].time \in Nat
             /\ f = <<f[1], f[2]>>
  <2>1. PICK i \in Analysed : \E k \in DOMAIN rows[i].what.findings : f = <<i, k>>
    BY OfOneAnalysis
  <2>2. PICK k \in DOMAIN rows[i].what.findings : f = <<i, k>>
    BY <2>1
  <2>3. rows[i].what.findings \in Seq(Severities) /\ i \in Nat /\ rows[i].time \in Nat
    BY <1>1, RowsHaveTimes, HistoryAssumption
  <2>4. k \in Nat
    BY <2>3, LenProperties
  <2> QED
    BY <2>2, <2>3, <2>4
<1>4. \A f, g \in F : <<f, g>> \in R <=> NewerFinding(f, g)
  <2> SUFFICES ASSUME NEW f \in F, NEW g \in F
               PROVE  <<f, g>> \in R <=> NewerFinding(f, g)
    OBVIOUS
  <2>1. <<f, g>> \in F \X F /\ <<f, g>>[1] = f /\ <<f, g>>[2] = g
    OBVIOUS
  <2>2. <<f, g>> \in R <=> /\ <<f, g>> \in F \X F
                           /\ NewerFinding(<<f, g>>[1], <<f, g>>[2])
    BY Zenon
  <2> QED
    BY <2>1, <2>2
<1>5. StrictOrder(F, R)
  <2>1. \A f \in F : ~NewerFinding(f, f)
    BY <1>3 DEF NewerFinding, Before
  <2>2. ASSUME NEW f \in F, NEW g \in F, ~NewerFinding(f, g), ~NewerFinding(g, f)
        PROVE  f = g
    <3>1. f[1] = g[1] /\ f[2] = g[2]
      BY <1>3, <2>2 DEF NewerFinding, Before
    <3> QED
      BY <1>3, <3>1
  <2>3. ASSUME NEW f \in F, NEW g \in F, NEW h \in F,
               NewerFinding(f, g), NewerFinding(g, h)
        PROVE  NewerFinding(f, h)
    BY <1>3, <2>3 DEF NewerFinding, Before
  <2> HIDE DEF F, R
  <2> QED
    BY <1>4, <2>1, <2>2, <2>3 DEF StrictOrder
<1>6. RecentFindings(limit) = {f \in F : Place(F, R, f) < limit}
  <2>1. RecentFindings(limit) =
          {f \in F : Cardinality({g \in F : NewerFinding(g, f)}) < limit}
    BY DEF RecentFindings, NewerFinding, Analysed
  <2>2. ASSUME NEW f \in F PROVE {g \in F : NewerFinding(g, f)} = Earlier(F, R, f)
    BY <1>4 DEF Earlier
  <2> HIDE DEF F, R
  <2> QED
    BY <2>1, <2>2 DEF Place
<1> HIDE DEF F, R
<1>7. \A f \in F : Place(F, R, f) \in 0..(Cardinality(F) - 1)
  BY <1>2, <1>5, PlacesAreTaken
<1>8. n \in Nat /\ 0 <= n /\ n <= Cardinality(F)
      /\ \A k \in 0..(Cardinality(F) - 1) : k < limit <=> 0 <= k /\ k < n
  BY <1>2 DEF LesserOf
<1> HIDE DEF n
<1>9. RecentFindings(limit) = {f \in F : 0 <= Place(F, R, f) /\ Place(F, R, f) < n}
  BY <1>6, <1>7, <1>8
<1>10. Cardinality({f \in F : 0 <= Place(F, R, f) /\ Place(F, R, f) < n}) = n - 0
  BY <1>2, <1>5, <1>8, PlacesInInterval
<1> QED
  BY <1>8, <1>9, <1>10 DEF n, F

LEMMA TopsAreTrue ==
  ASSUME IInv, Len(rows) <= LargeLimit, NEW key
  PROVE  LET tops == {rows[endpoints[n].id].top : n \in Hits(key)} \ {None}
         IN  IF tops = {} THEN MaxSeverity(key) = None
             ELSE /\ MaxSeverity(key) \in tops
                  /\ \A s \in tops : Rank[MaxSeverity(key)] <= Rank[s]
<1> DEFINE ids == IdsOf(key)
           tops == {rows[endpoints[n].id].top : n \in Hits(key)} \ {None}
           found == {SeverityOf(f) : f \in GroupFindings(key)}
           worst == CHOOSE s \in found : \A t \in found : SurfaceRank[s] >= SurfaceRank[t]
<1>1. MaxSeverity(key) = IF found = {} THEN None ELSE worst
  BY DEF MaxSeverity
<1>2. GroupFindings(key) = FindingsOf(ids) /\ ids \in SUBSET DOMAIN rows
  BY EveryFindingCounts, EntriesAreKnown DEF IdsOf, Hits
<1>3. ASSUME NEW i \in ids
      PROVE  /\ rows[i].what.findings \in Seq(Severities)
             /\ rows[i].top = TopSeverity(rows[i].what.findings)
  <2>1. PICK n \in DOMAIN endpoints : endpoints[n].id = i
    BY DEF IdsOf, Hits
  <2>2. rows[i] \in AllRows /\ rows[i].what \in Analyses
    BY <1>2, RowsHaveTimes DEF IInv
  <2>3. rows[i].version = "new"
    <3> DEFINE listed == ListedAs(i)
    <3>1. n \in listed /\ IsFiniteSet(listed)
      BY <2>1, EntriesAreKnown, FS_Subset DEF ListedAs
    <3>2. Cardinality(listed)
            = IF Listed(rows[i]) /\ rows[i].version = "new" THEN 1 ELSE 0
      BY <1>2 DEF ListedAs, IInv, EveryRequestLineListed
    <3> HIDE DEF listed
    <3> QED
      BY <3>1, <3>2, FS_EmptySet
  <2> QED
    BY <2>2, <2>3, RowOf, HistoryAssumption
<1>4. found = UNION {In(rows[i].what.findings) : i \in ids}
  <2>1. ASSUME NEW i \in ids, NEW k \in DOMAIN rows[i].what.findings
        PROVE  /\ <<i, k>> \in FindingsOf(ids)
               /\ SeverityOf(<<i, k>>) = rows[i].what.findings[k]
    BY OfOneAnalysis DEF SeverityOf
  <2>2. ASSUME NEW f \in FindingsOf(ids)
        PROVE  \E i \in ids : SeverityOf(f) \in In(rows[i].what.findings)
    <3>1. PICK i \in ids : \E k \in DOMAIN rows[i].what.findings : f = <<i, k>>
      BY OfOneAnalysis
    <3> QED
      BY <2>1, <3>1 DEF In
  <2>3. ASSUME NEW i \in ids, NEW s \in In(rows[i].what.findings)
        PROVE  \E f \in FindingsOf(ids) : SeverityOf(f) = s
    BY <2>1 DEF In
  <2>4. found = {SeverityOf(f) : f \in FindingsOf(ids)}
    BY <1>2
  <2> HIDE DEF found, ids
  <2>5. found \subseteq UNION {In(rows[i].what.findings) : i \in ids}
    BY <2>2, <2>4
  <2>6. \A i \in ids : In(rows[i].what.findings) \subseteq found
    BY <2>3, <2>4
  <2> QED
    BY <2>5, <2>6
<1>5. tops = {rows[i].top : i \in ids} \ {None}
  BY DEF IdsOf
<1>6. \A i \in ids :
        LET findings == rows[i].what.findings
        IN  /\ findings = << >> => rows[i].top = None /\ In(findings) = {}
            /\ findings # << >> =>
                 /\ rows[i].top \in In(findings) /\ rows[i].top \in Severities
                 /\ \A t \in In(findings) : Rank[rows[i].top] <= Rank[t]
  BY <1>3, TopSeverityIsWorst
<1>7. found \in SUBSET Severities
  BY <1>2, SeveritiesOfFindings DEF IInv
<1>8. found # {} => worst \in found /\ \A t \in found : SurfaceRank[worst] >= SurfaceRank[t]
  BY <1>7, WorstOnSurface
<1> HIDE DEF ids, tops, found, worst
<1>9. None \notin Severities
  BY SurfaceRankOpposes
<1>10. tops \subseteq found
  BY <1>4, <1>5, <1>6
<1>11. CASE found = {}
  BY <1>1, <1>10, <1>11 DEF tops
<1>12. CASE found # {}
  <2>1. PICK i \in ids : worst \in In(rows[i].what.findings)
    BY <1>4, <1>8, <1>12
  <2>2. /\ rows[i].top \in tops /\ rows[i].top \in Severities
        /\ Rank[rows[i].top] <= Rank[worst]
    BY <1>5, <1>6, <1>9, <2>1
  <2>3. \A s \in tops : Rank[worst] <= Rank[s]
    <3>1. \A s \in tops : s \in Severities /\ SurfaceRank[worst] >= SurfaceRank[s]
      BY <1>7, <1>8, <1>10, <1>12
    <3>2. worst \in Severities
      BY <1>7, <1>8, <1>12
    <3> QED
      BY <3>1, <3>2, SurfaceRankOpposes
  <2>4. worst = rows[i].top
    <3>1. Rank[worst] <= Rank[rows[i].top] /\ worst \in Severities
      BY <1>7, <1>8, <1>12, <2>2, <2>3
    <3>2. Rank[worst] = Rank[rows[i].top]
      BY <2>2, <3>1, SurfaceRankOpposes
    <3> QED
      BY <2>2, <3>1, <3>2 DEF Rank, Severities
  <2> QED
    BY <1>1, <1>12, <2>2, <2>3, <2>4 DEF tops
<1> QED
  BY <1>11, <1>12

(* The answers of one dashboard request agree with each other and with the *)
(* rows.                                                                   *)
THEOREM DashboardAddsUpHolds == Spec => []DashboardAddsUp
<1>1. IInv => DashboardAddsUp
  <2> SUFFICES ASSUME IInv PROVE DashboardAddsUp
    OBVIOUS
  <2>1. TablesInv /\ PageSize \in Nat
    BY HistoryAssumption DEF IInv
  <2>2. /\ FindingsOf(Analysed) =
             UNION ({GroupFindings(key) : key \in Groups} \cup {FindingsOf(Unlisted)})
        /\ \A key \in Groups :
             /\ GroupFindings(key) \cap FindingsOf(Unlisted) = {}
             /\ \A other \in Groups \ {key} :
                  GroupFindings(key) \cap GroupFindings(other) = {}
    BY SharesAreAll, SharesAreApart
  <2>3. Len(rows) <= LargeLimit =>
          \A key \in Groups :
            LET tops == {rows[endpoints[n].id].top : n \in Hits(key)} \ {None}
            IN  IF tops = {} THEN MaxSeverity(key) = None
                ELSE /\ MaxSeverity(key) \in tops
                     /\ \A s \in tops : Rank[MaxSeverity(key)] <= Rank[s]
    BY TopsAreTrue
  <2> DEFINE counts == Statistics(0).distribution
             findings == counts["critical"] + counts["high"] + counts["medium"]
                         + counts["low"] + counts["info"]
  <2>4. findings = Cardinality(FindingsOf(Analysed))
    BY <2>1, DistributionAddsUp
  <2>5. Cardinality(RecentFindings(PageSize)) = LesserOf(PageSize, findings)
    BY <2>1, <2>4, RecentAreAsManyAsAsked
  <2> QED
    BY <2>2, <2>3, <2>4, <2>5 DEF DashboardAddsUp, Analysed, Unlisted
<1> QED
  BY <1>1, Invariance, PTL
=============================================================================
