------------------------------- MODULE History -------------------------------
(***************************************************************************)
(* The two tables of analyses and what is computed from them: HistoryStore *)
(* with its filtered list, StatisticsService and FingerprintService.       *)
(*                                                                         *)
(* Everything here runs on the event loop without an await, so each query  *)
(* is one step and sees committed rows only.  A save is three statements   *)
(* between which the process may die or a statement may raise.  Rows may   *)
(* be left by an older version, without top_severity and endpoints.        *)
(*                                                                         *)
(* Rows are numbered in the order of their insertion, created_at is what   *)
(* the wall clock said, which may be set back.  What patterns find in a    *)
(* message (marks of a technology, cookies, a host) is part of the         *)
(* analysis that is saved.                                                 *)
(***************************************************************************)
EXTENDS Integers, Sequences, FiniteSets

CONSTANTS
  Analyses,       \* what may be saved: a redacted message and its findings
  OldAnalyses,    \* what an older version has left, in a sequence each
  Hosts,
  Mentions,       \* Mentions[h]: the hosts whose URLs contain the text h
  Ids,            \* the path segments normalize_path replaces
  Times,          \* the values of created_at
  Filters,        \* the filters a client of the list asks for
  PageSize,       \* the limit a client of the list asks for
  ListLimit,      \* limit=500 in fingerprint
  LargeLimit,     \* _LARGE_LIMIT, 100_000
  MaxRows         \* bound of the model

None == "none"
Severities == {"critical", "high", "medium", "low", "info"}

ASSUME HistoryAssumption ==
  /\ Times \subseteq Nat /\ MaxRows \in Nat
  /\ {PageSize, ListLimit, LargeLimit} \subseteq Nat \ {0}
  /\ \A h \in Hosts : h \in Mentions[h] /\ Mentions[h] \subseteq Hosts
  /\ None \notin Hosts
  /\ \A a \in Analyses :
       /\ a.findings \in Seq(Severities)
       /\ \A marks \in {a.params, a.auth, a.answerAuth, a.pathMarks,
                        a.answerMarks, a.tech} : IsFiniteSet(marks)
  /\ OldAnalyses \subseteq Seq(Analyses)

VARIABLES
  up,             \* is the server running?
  rows,           \* analysis_history
  endpoints,      \* endpoints, each with the number of its row
  txn,            \* the statements executed since BEGIN
  pager           \* a client that reads the list page by page

vars == <<up, rows, endpoints, txn, pager>>

-----------------------------------------------------------------------------
(* What is written                                                         *)

Rank == [critical |-> 0, high |-> 1, medium |-> 2, low |-> 3, info |-> 4]

In(findings) == {findings[k] : k \in DOMAIN findings}

TopSeverity(findings) ==
  IF findings = << >> THEN None
  ELSE CHOOSE s \in In(findings) : \A t \in In(findings) : Rank[s] <= Rank[t]

(* normalize_path *)
Template(path) ==
  [i \in DOMAIN path |-> IF path[i] \in Ids THEN "{id}" ELSE path[i]]

(* extract_endpoint; None without a request line.                          *)
ExtractEndpoint(a) ==
  [host |-> IF a.url # None THEN a.url ELSE a.header, method |-> a.method,
   path |-> Template(a.path), params |-> a.params, auth |-> a.auth]

NewRow(a, time) ==
  [what |-> a, time |-> time, top |-> TopSeverity(a.findings), version |-> "new"]

(* ALTER TABLE ADD COLUMN leaves top_severity NULL.                        *)
OldRow(a, time) == [what |-> a, time |-> time, top |-> None, version |-> "old"]

NoTxn == [statements |-> 0]
NoPager == [stage |-> "idle"]

Init ==
  /\ up = FALSE /\ endpoints = << >> /\ txn = NoTxn /\ pager = NoPager
  /\ \E old \in OldAnalyses, t \in Times :
       rows = [i \in DOMAIN old |-> OldRow(old[i], t)]

Listed(r) == r.what.line
EndpointOf(i, r) == [id |-> i, entry |-> ExtractEndpoint(r.what)]

-----------------------------------------------------------------------------
(* HistoryStore                                                            *)

(* The tables are there, old rows with a top_severity of NULL.             *)
Start == ~up /\ up' = TRUE /\ UNCHANGED <<rows, endpoints, txn, pager>>

Crash ==
  /\ up /\ up' = FALSE /\ txn' = NoTxn /\ pager' = NoPager
  /\ UNCHANGED <<rows, endpoints>>

InsertRow(a, time) ==
  /\ up /\ txn = NoTxn /\ Len(rows) < MaxRows
  /\ txn' = [statements |-> 1, row |-> NewRow(a, time)]
  /\ UNCHANGED <<up, rows, endpoints, pager>>

InsertEndpoint ==
  /\ txn.statements = 1 /\ Listed(txn.row)
  /\ txn' = [txn EXCEPT !.statements = 2]
  /\ UNCHANGED <<up, rows, endpoints, pager>>

CommitUnlisted ==
  /\ txn # NoTxn
  /\ rows' = Append(rows, txn.row)
  /\ endpoints' = IF txn.statements = 2
                  THEN Append(endpoints, EndpointOf(Len(rows) + 1, txn.row))
                  ELSE endpoints
  /\ txn' = NoTxn /\ UNCHANGED <<up, pager>>
Commit ==
  /\ txn # NoTxn /\ (txn.statements = 2 <=> Listed(txn.row))
  /\ rows' = Append(rows, txn.row)
  /\ endpoints' = IF Listed(txn.row)
                  THEN Append(endpoints, EndpointOf(Len(rows) + 1, txn.row))
                  ELSE endpoints
  /\ txn' = NoTxn /\ UNCHANGED <<up, pager>>

(* A statement raises.                                                     *)
Rollback ==
  txn # NoTxn /\ txn' = NoTxn /\ UNCHANGED <<up, rows, endpoints, pager>>

(* The order of the list: the newest first, then as inserted.              *)
Before(i, j) ==
  rows[i].time > rows[j].time \/ (rows[i].time = rows[j].time /\ i < j)

WorseThan(severity) == {s \in Severities : Rank[s] < Rank[severity]}
Allowed(severity) == {s \in Severities : Rank[s] <= Rank[severity]}

InRange(i, f) ==
  /\ f.host # None => rows[i].what.url \in Mentions[f.host]
  /\ f.since <= rows[i].time
Matches(i, f) ==
  InRange(i, f) /\ (f.severity # None => rows[i].top \in Allowed(f.severity))

FirstOf(ids, limit, offset) ==
  {i \in ids : LET newer == Cardinality({j \in ids : Before(j, i)})
               IN  offset <= newer /\ newer < offset + limit}

FilterAfterLimit(f, limit, offset) ==
  {j \in FirstOf({i \in DOMAIN rows : InRange(i, f)}, limit, offset) : Matches(j, f)}
List(f, limit, offset) ==
  FirstOf({i \in DOMAIN rows : Matches(i, f)}, limit, offset)

All == [host |-> None, since |-> 0, severity |-> None]
OfHost(h) == [All EXCEPT !.host = h]

(* A client opens the list and turns its pages until one is not full.      *)
Turn(f, offset, got, due) ==
  \E page \in {List(f, PageSize, offset)} :
    pager' = [stage |-> IF Cardinality(page) < PageSize THEN "done" ELSE "reading",
              filter |-> f, offset |-> offset + PageSize,
              got |-> got \cup page, due |-> due]

OpenList(f) ==
  /\ up /\ txn = NoTxn /\ pager.stage = "idle"
  /\ Turn(f, 0, {}, {i \in DOMAIN rows : Matches(i, f)})
  /\ UNCHANGED <<up, rows, endpoints, txn>>

NextPage ==
  /\ up /\ txn = NoTxn /\ pager.stage = "reading"
  /\ Turn(pager.filter, pager.offset, pager.got, pager.due)
  /\ UNCHANGED <<up, rows, endpoints, txn>>

Next ==
  \/ Start \/ Crash \/ InsertEndpoint \/ Commit \/ Rollback \/ NextPage
  \/ \E a \in Analyses, t \in Times : InsertRow(a, t)
  \/ \E f \in Filters : OpenList(f)

Spec == Init /\ [][Next]_vars

-----------------------------------------------------------------------------
(* StatisticsService                                                       *)

FindingsOf(ids) ==
  UNION {{<<i, k>> : k \in DOMAIN rows[i].what.findings} : i \in ids}
SeverityOf(f) == rows[f[1]].what.findings[f[2]]

(* severity_distribution and total_analyses of get_statistics.             *)
Statistics(since) ==
  LET items == List([All EXCEPT !.since = since], LargeLimit, 0)
  IN  [total |-> Cardinality(items),
       success |-> Cardinality({i \in items : rows[i].what.status # "failed"}),
       distribution |-> [s \in Severities |->
         Cardinality({f \in FindingsOf(items) : SeverityOf(f) = s})]]

SurfaceRankSwapped ==
  [critical |-> 5, high |-> 3, medium |-> 4, low |-> 2, info |-> 1]
SurfaceRank == [critical |-> 5, high |-> 4, medium |-> 3, low |-> 2, info |-> 1]

OfEndpoint(e) == <<e.entry.host, e.entry.method, e.entry.path>>
Groups == {OfEndpoint(endpoints[n]) : n \in DOMAIN endpoints}
Hits(key) == {n \in DOMAIN endpoints : OfEndpoint(endpoints[n]) = key}
Entries(key) == {endpoints[n].entry : n \in Hits(key)}

DefaultLimit(key) ==
  FindingsOf({endpoints[n].id : n \in Hits(key)} \cap List(All, PageSize, 0))
GroupFindings(key) ==
  FindingsOf({endpoints[n].id : n \in Hits(key)} \cap List(All, LargeLimit, 0))

MaxSeverity(key) ==
  LET found == {SeverityOf(f) : f \in GroupFindings(key)}
  IN  IF found = {} THEN None
      ELSE CHOOSE s \in found : \A t \in found : SurfaceRank[s] >= SurfaceRank[t]

HasAuthBoundary(key) == \E e \in Entries(key) : e.auth \cap {"bearer_token", "cookie_session"} # {}

(* _priority_score, in tenths.                                             *)
PriorityScore(key) ==
  10 * (IF MaxSeverity(key) = None THEN 0 ELSE SurfaceRank[MaxSeverity(key)])
  + 3 * Cardinality(UNION {e.params : e \in Entries(key)})
  + (IF key[2] \in {"POST", "PUT", "DELETE", "PATCH"} THEN 10 ELSE 0)
  + (IF HasAuthBoundary(key) THEN 10 ELSE 0)

(* get_recent_findings: finding by finding, newest analysis first.         *)
RecentFindings(limit) ==
  LET all == FindingsOf(List(All, LargeLimit, 0))
      Newer(f, g) == Before(f[1], g[1]) \/ (f[1] = g[1] /\ f[2] < g[2])
  IN  {f \in all : Cardinality({g \in all : Newer(g, f)}) < limit}

-----------------------------------------------------------------------------
(* FingerprintService                                                      *)

HostEndpoints(h) == {n \in DOMAIN endpoints : endpoints[n].entry.host = h}

FilteredItems(h) == {i \in List(All, ListLimit, 0) : Matches(i, OfHost(h))}
ProfileItems(h) == List(OfHost(h), ListLimit, 0)

(* Patterns in paths, headers and bodies.                                  *)
SystemTypes(h) ==
  UNION ({rows[endpoints[n].id].what.pathMarks : n \in HostEndpoints(h)}
         \cup {rows[i].what.answerMarks : i \in ProfileItems(h)})

AuthMethods(h) ==
  UNION ({endpoints[n].entry.auth : n \in HostEndpoints(h)}
         \cup {rows[i].what.answerAuth : i \in ProfileItems(h)})

(* Header values are evidence each time they are seen.                     *)
TechStack(h) == UNION {{i} \X rows[i].what.tech : i \in ProfileItems(h)}

LesserOf(m, n) == IF m <= n THEN m ELSE n

(* fingerprint; _estimate_confidence, in hundredths.                       *)
Profile(h) ==
  LET types     == SystemTypes(h)
      endpointCount == Cardinality(HostEndpoints(h))
      evidence  == Cardinality(types) + Cardinality(AuthMethods(h))
                   + Cardinality(TechStack(h))
  IN  IF endpointCount = 0
      THEN [types |-> {}, auth |-> {}, tech |-> {}, count |-> 0, confidence |-> 0]
      ELSE [types |-> types, auth |-> AuthMethods(h),
            tech |-> {t[2] : t \in TechStack(h)}, count |-> endpointCount,
            confidence |->
              IF types = {} THEN 10
              ELSE LesserOf(95, 30 + 10 * evidence + 2 * LesserOf(10, endpointCount))]

-----------------------------------------------------------------------------
(* Properties                                                              *)

(* The two tables agree, whatever is rolled back or killed between their   *)
(* statements: each analysis of this version that has a request line is in *)
(* the inventory exactly once, with what was extracted from it, and        *)
(* nothing else is.                                                        *)
EveryRequestLineListed ==
  /\ \A n \in DOMAIN endpoints :
       endpoints[n].id \in DOMAIN rows
       /\ endpoints[n].entry = ExtractEndpoint(rows[endpoints[n].id].what)
  /\ \A i \in DOMAIN rows :
       Cardinality({n \in DOMAIN endpoints : endpoints[n].id = i})
         = IF Listed(rows[i]) /\ rows[i].version = "new" THEN 1 ELSE 0

Reaches(findings, severity) ==
  \E t \in In(findings) : Rank[t] <= Rank[severity]

(* min_severity selects exactly the analyses with such a finding, though   *)
(* it looks at a column that is computed once, when the row is written.    *)
(* Rows of an older version have NULL there and are never selected.        *)
SeverityFilterIsTrue ==
  \A i \in DOMAIN rows, s \in Severities :
    rows[i].version = "new" =>
      (Matches(i, [All EXCEPT !.severity = s]) <=> Reaches(rows[i].what.findings, s))

(* A client that turns the pages of the list by offset, while analyses are *)
(* saved with whatever time the clock shows, has at the last page seen all *)
(* that was there at the first; rows only ever move to later pages.        *)
PagesSkipNothing == pager.stage = "done" => pager.due \subseteq pager.got

(* The answers of one dashboard request agree with each other and with the *)
(* rows: each finding counted in the distribution is one of exactly one    *)
(* endpoint or of an analysis without one, the recent findings are all or  *)
(* as many as asked for, and the severity of an endpoint, ranked by a      *)
(* table of its own, is the top_severity of one of its analyses.           *)
DashboardAddsUp ==
  LET analyses == List(All, LargeLimit, 0)
      unlisted == {i \in analyses : \A n \in DOMAIN endpoints : endpoints[n].id # i}
      shares   == {GroupFindings(key) : key \in Groups} \cup {FindingsOf(unlisted)}
      counts   == Statistics(0).distribution
      findings == counts["critical"] + counts["high"] + counts["medium"]
                  + counts["low"] + counts["info"]
  IN  up /\ txn = NoTxn =>
      /\ findings = Cardinality(FindingsOf(analyses))
      /\ FindingsOf(analyses) = UNION shares
      /\ \A key \in Groups :
           /\ GroupFindings(key) \cap FindingsOf(unlisted) = {}
           /\ \A other \in Groups \ {key} :
                GroupFindings(key) \cap GroupFindings(other) = {}
      /\ Cardinality(RecentFindings(PageSize)) = LesserOf(PageSize, findings)
      /\ Len(rows) <= LargeLimit =>
           \A key \in Groups :
             LET tops == {rows[endpoints[n].id].top : n \in Hits(key)} \ {None}
             IN  IF tops = {} THEN MaxSeverity(key) = None
                 ELSE /\ MaxSeverity(key) \in tops
                      /\ \A s \in tops : Rank[MaxSeverity(key)] <= Rank[s]

(* Traffic can only make an endpoint more urgent: as long as all analyses  *)
(* fit into the list that is searched for findings, no save lets a score   *)
(* fall.                                                                   *)
PriorityNeverFalls ==
  [][rows' # rows /\ Len(rows') <= LargeLimit =>
       \A key \in Groups : PriorityScore(key) <= PriorityScore(key)']_vars

(* Traffic can only add to the profile of a host: as long as the analyses  *)
(* whose URL mentions the host fit into one list, no save takes away a     *)
(* system type, a method of authentication, a technology or confidence,    *)
(* although other hosts' URLs may mention it too.                          *)
ProfileNeverFades ==
  [][rows' # rows => \A h \in Hosts :
       Cardinality({i \in DOMAIN rows' : rows'[i].what.url \in Mentions[h]}) <= ListLimit =>
         /\ Profile(h).types \subseteq Profile(h).types'
         /\ Profile(h).auth \subseteq Profile(h).auth'
         /\ Profile(h).tech \subseteq Profile(h).tech'
         /\ Profile(h).count <= Profile(h).count'
         /\ Profile(h).confidence <= Profile(h).confidence']_vars
=============================================================================
