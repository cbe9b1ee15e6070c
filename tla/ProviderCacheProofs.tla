------------------------- MODULE ProviderCacheProofs -------------------------
(***************************************************************************)
(* Theorems about ProviderCache, for every set of configurations and of    *)
(* callers and any number of saves: IInv is inductive, and the properties  *)
(* of the runs follow from it.  First what the actions do, point by point, *)
(* then one lemma for each part of the invariant.                          *)
(***************************************************************************)
EXTENDS ProviderCache, TLAPS

LEMMA Appended ==
  ASSUME NEW S, NEW s \in Seq(S), NEW e \in S
  PROVE  /\ Append(s, e) \in Seq(S)
         /\ Len(Append(s, e)) = Len(s) + 1
         /\ DOMAIN Append(s, e) = DOMAIN s \cup {Len(s) + 1}
         /\ Len(s) + 1 \notin DOMAIN s
         /\ \A i \in DOMAIN s : Append(s, e)[i] = s[i]
         /\ Append(s, e)[Len(s) + 1] = e
OBVIOUS

LEMMA Replaced ==
  ASSUME NEW S, NEW s \in Seq(S), NEW i \in DOMAIN s, NEW e \in S
  PROVE  LET t == [s EXCEPT ![i] = e]
         IN  /\ t \in Seq(S) /\ Len(t) = Len(s) /\ DOMAIN t = DOMAIN s
             /\ t[i] = e
             /\ \A j \in DOMAIN s : j # i => t[j] = s[j]
OBVIOUS

(* A wider range of client numbers.                                        *)
LEMMA Widened ==
  ASSUME NEW m \in Nat, NEW n \in Nat, m <= n, NEW s \in Seq(0..m)
  PROVE  s \in Seq(0..n)
OBVIOUS

(* What the types say of a provider and its client.                        *)
LEMMA Domains ==
  ASSUME TypeOK
  PROVE  /\ Len(built) \in Nat /\ DOMAIN built = 1..Len(built)
         /\ DOMAIN http = DOMAIN built
         /\ Len(clients) \in Nat /\ DOMAIN clients = 1..Len(clients)
         /\ \A i \in DOMAIN http : http[i] # 0 => http[i] \in DOMAIN clients
         /\ \A i \in DOMAIN http : http[i] \in 0..Len(clients)
         /\ \A c \in DOMAIN clients : clients[c] \in Client
         /\ \A i \in DOMAIN built : built[i] \in Configs
         /\ cached # 0 => cached \in DOMAIN built
         /\ \A u \in Calls : calls[u] \in Call
BY DEF TypeOK

-----------------------------------------------------------------------------
(* What the actions do                                                     *)

(* _resolve_provider sends the cached provider to be closed.               *)
LEMMA RetiredEffect ==
  ASSUME TypeOK, PointersInv
  PROVE  /\ closers \subseteq Retired /\ Retired \subseteq Closer
         /\ \A k \in Retired \ closers :
              k.inst = cached /\ k.client = 0 /\ k.id = scheduled + 1 /\ cached # 0
         /\ cached # 0 => \E k \in Retired : k.inst = cached /\ k.client = 0
         /\ \A k \in Retired : k.inst \in DOMAIN built /\ k.id \in 1..(scheduled + 1)
<1>1. scheduled \in Nat /\ cached \in Nat /\ closers \subseteq Closer
      /\ \A k \in closers : k.inst \in DOMAIN built /\ k.id \in 1..scheduled
  BY Domains DEF TypeOK, PointersInv
<1>2. cached # 0 => cached \in DOMAIN built
  BY Domains
<1>3. CASE cached = 0
  BY <1>1, <1>3 DEF Retired
<1>4. CASE cached # 0
  <2> DEFINE new == [id |-> scheduled + 1, inst |-> cached, client |-> 0]
  <2>1. new \in Closer /\ new.inst = cached /\ new.client = 0 /\ new.id = scheduled + 1
    BY <1>1 DEF Closer
  <2>2. Retired = closers \cup {new}
    BY <1>4 DEF Retired
  <2> HIDE DEF new
  <2> QED
    BY <1>1, <1>2, <1>4, <2>1, <2>2
<1> QED
  BY <1>3, <1>4

(* Actions that end a call or change its stage only.                       *)
CallOnly(u) == Finish(u) \/ BackOff(u) \/ Retry(u) \/ RetryFails(u)

LEMMA CallOnlyEffect ==
  ASSUME TypeOK, NEW u \in Calls, CallOnly(u)
  PROVE  /\ calls' \in [Calls -> Call]
         /\ \A v \in Calls :
              /\ Active(v)' => /\ Active(v) /\ calls'[v].inst = calls[v].inst
                               /\ calls'[v].want = calls[v].want
                               /\ calls'[v].since = calls[v].since
                               /\ calls'[v].client = calls[v].client
              /\ OnClient(v)' => OnClient(v)
         /\ UNCHANGED <<saved, config, cached, built, http, clients, closers,
                        scheduled, updates, stopped>>
<1>1. calls \in [Calls -> Call] /\ Idle \in Call
  BY DEF TypeOK, Call, Idle, Kinds
<1>2. CASE Finish(u) \/ RetryFails(u)
  BY <1>1, <1>2, ZenonT(60) DEF Finish, RetryFails, Ends, Active, OnClient, Call, Idle
<1>3. CASE BackOff(u)
  BY <1>1, <1>3 DEF BackOff, Active, OnClient, Call
<1>4. CASE Retry(u)
  BY <1>1, <1>4 DEF Retry, Active, OnClient, Call
<1> QED
  BY <1>2, <1>3, <1>4 DEF CallOnly

(* _get_http: the client of the call is open and is the provider's; all    *)
(* other clients are as they were.                                         *)
LEMMA GetHttpEffect ==
  ASSUME TypeOK, PointersInv, NEW u \in Calls, Active(u), GetHttp(u)
  PROVE  LET i == calls[u].inst
             c == calls'[u].client
         IN  /\ i \in DOMAIN built /\ c \in DOMAIN clients'
             /\ clients' \in Seq(Client)
             /\ \A d \in DOMAIN clients : d \in DOMAIN clients' /\ clients'[d] = clients[d]
             /\ \A d \in DOMAIN clients' : d \in DOMAIN clients \/ d = c
             /\ clients'[c].owner = i /\ clients'[c].open
             /\ http' \in Seq(0..Len(clients')) /\ Len(http') = Len(http)
             /\ http'[i] = c
             /\ \A j \in DOMAIN http : j # i => http'[j] = http[j]
             /\ \/ c \in DOMAIN clients /\ c = http[i]
                \/ c \notin DOMAIN clients /\ ~HasClient(i) /\ clients'[c].late = ~Current(i)
             /\ calls' \in [Calls -> Call]
             /\ calls'[u].inst = i /\ calls'[u].want = calls[u].want
             /\ calls'[u].since = calls[u].since
             /\ \A v \in Calls : v # u => calls'[v] = calls[v]
             /\ UNCHANGED <<saved, config, cached, built, closers, scheduled,
                            updates, stopped>>
<1> DEFINE i == calls[u].inst
           c == IF HasClient(i) THEN http[i] ELSE Len(clients) + 1
<1>1. /\ i \in DOMAIN built /\ i \in Nat /\ DOMAIN http = DOMAIN built
      /\ Len(clients) \in Nat /\ DOMAIN clients = 1..Len(clients)
      /\ http[i] # 0 => http[i] \in DOMAIN clients /\ clients[http[i]].owner = i
      /\ clients \in Seq(Client) /\ calls[u] \in Call
      /\ http \in Seq(0..Len(clients))
  BY Domains DEF TypeOK, PointersInv
<1>2. c \in Nat /\ c # 0
  BY <1>1 DEF HasClient
<1>3. /\ clients' = IF HasClient(i) THEN clients ELSE Append(clients, Opened(i))
      /\ http' = [http EXCEPT ![i] = c]
      /\ calls' = [calls EXCEPT ![u].pc = "calling", ![u].client = c, ![u].attempt = 1,
                                ![u].repairing = (calls[u].pc = "calling")]
      /\ UNCHANGED <<saved, config, cached, built, closers, scheduled, updates, stopped>>
  BY DEF GetHttp
<1>4. Opened(i) \in Client /\ Opened(i).owner = i /\ Opened(i).open
      /\ Opened(i).late = ~Current(i)
  BY <1>1 DEF Opened, Client, Current
<1> HIDE DEF c
<1>5. /\ calls' \in [Calls -> Call] /\ calls'[u].client = c
      /\ calls'[u].inst = i /\ calls'[u].want = calls[u].want
      /\ calls'[u].since = calls[u].since
      /\ \A v \in Calls : v # u => calls'[v] = calls[v]
  <2> DEFINE new(b) == [calls[u] EXCEPT !.pc = "calling", !.client = c, !.attempt = 1,
                                       !.repairing = b]
  <2>1. \A b \in BOOLEAN :
          /\ new(b) \in Call /\ new(b).client = c /\ new(b).inst = i
          /\ new(b).want = calls[u].want /\ new(b).since = calls[u].since
    BY <1>1, <1>2 DEF Call
  <2>2. PICK b \in BOOLEAN : b = (calls[u].pc = "calling")
    OBVIOUS
  <2>3. calls' = [calls EXCEPT ![u] = new(b)]
    BY <1>3, <2>2, Zenon
  <2> HIDE DEF new
  <2> QED
    BY <2>1, <2>3 DEF TypeOK
<1>6. CASE HasClient(i)
  <2>1. c = http[i] /\ c \in DOMAIN clients /\ clients[c].open /\ clients[c].owner = i
    BY <1>1, <1>6 DEF HasClient, c
  <2>2. clients' = clients
    BY <1>3, <1>6
  <2>3. c \in 0..Len(clients)
    BY <1>1, <2>1
  <2>4. /\ http' \in Seq(0..Len(clients)) /\ Len(http') = Len(http) /\ http'[i] = c
        /\ \A j \in DOMAIN http : j # i => http'[j] = http[j]
    BY <1>1, <1>3, <2>3, Replaced
  <2> QED
    BY <1>1, <1>3, <1>5, <2>1, <2>2, <2>4
<1>7. CASE ~HasClient(i)
  <2>1. c = Len(clients) + 1
    BY <1>7 DEF c
  <2>2. clients' = Append(clients, Opened(i))
    BY <1>3, <1>7
  <2>3. /\ clients' \in Seq(Client) /\ Len(clients') = Len(clients) + 1
        /\ DOMAIN clients' = DOMAIN clients \cup {c} /\ c \notin DOMAIN clients
        /\ \A d \in DOMAIN clients : clients'[d] = clients[d]
        /\ clients'[c] = Opened(i)
    BY <1>1, <1>4, <2>1, <2>2, Appended
  <2>4. http \in Seq(0..Len(clients')) /\ c \in 0..Len(clients')
    BY <1>1, <2>1, <2>3, Widened
  <2>5. /\ http' \in Seq(0..Len(clients')) /\ Len(http') = Len(http) /\ http'[i] = c
        /\ \A j \in DOMAIN http : j # i => http'[j] = http[j]
    BY <1>1, <1>3, <2>4, Replaced
  <2> QED
    BY <1>1, <1>3, <1>4, <1>5, <1>7, <2>3, <2>5
<1> QED
  BY <1>6, <1>7
(* aclose begins: the open client of the provider, if any, is closed.      *)
LEMMA CloseBeginsEffect ==
  ASSUME TypeOK, PointersInv, NEW k \in closers, CloseBegins(k)
  PROVE  /\ clients' \in Seq(Client) /\ DOMAIN clients' = DOMAIN clients
         /\ Len(clients') = Len(clients)
         /\ \A c \in DOMAIN clients :
              /\ clients'[c].owner = clients[c].owner
              /\ clients'[c].late = clients[c].late
              /\ clients'[c].open => clients[c].open
              /\ clients[c].owner # k.inst => clients'[c] = clients[c]
              /\ http[k.inst] = c => ~clients'[c].open
         /\ http' \in Seq(0..Len(clients')) /\ Len(http') = Len(http)
         /\ \A i \in DOMAIN http : http'[i] = http[i] \/ (http'[i] = 0 /\ i = k.inst)
         /\ \A i \in DOMAIN http : http'[i] # http[i] => ~HasClient(i)
         /\ closers' \subseteq Closer
         /\ \A j \in closers' \ closers :
              j.inst = k.inst /\ j.id = k.id /\ j.client # 0
         /\ \A j \in closers : j.inst # k.inst => j \in closers'
         /\ UNCHANGED <<saved, config, cached, built, scheduled, calls, updates, stopped>>
<1> DEFINE i == k.inst
<1>1. /\ i \in DOMAIN built /\ DOMAIN http = DOMAIN built /\ k \in Closer
      /\ http[i] # 0 => http[i] \in DOMAIN clients /\ clients[http[i]].owner = i
      /\ \A c \in DOMAIN clients : clients[c] \in Client
      /\ clients \in Seq(Client) /\ http \in Seq(0..Len(clients))
      /\ Len(clients) \in Nat /\ DOMAIN clients = 1..Len(clients)
      /\ closers \subseteq Closer
  BY Domains DEF TypeOK, PointersInv
<1>2. UNCHANGED <<saved, config, cached, built, scheduled, calls, updates, stopped>>
  BY DEF CloseBegins
<1>3. CASE HasClient(i)
  <2> DEFINE closed == [clients[http[i]] EXCEPT !.open = FALSE]
             begun == [k EXCEPT !.client = http[i]]
  <2>1. http[i] \in DOMAIN clients /\ http[i] # 0 /\ clients[http[i]].owner = i
    BY <1>1, <1>3 DEF HasClient
  <2>2. /\ clients' = [clients EXCEPT ![http[i]] = closed]
        /\ closers' = (closers \ {k}) \cup {begun} /\ http' = http
    BY <1>3 DEF CloseBegins
  <2>3. /\ closed \in Client /\ closed.owner = clients[http[i]].owner
        /\ closed.late = clients[http[i]].late /\ ~closed.open
    BY <1>1, <2>1 DEF Client
  <2>4. begun \in Closer /\ begun.inst = i /\ begun.id = k.id /\ begun.client # 0
    BY <1>1, <2>1, SMTT(30) DEF Closer
  <2> HIDE DEF closed, begun
  <2>5. /\ clients' \in Seq(Client) /\ DOMAIN clients' = DOMAIN clients
        /\ Len(clients') = Len(clients) /\ clients'[http[i]] = closed
        /\ \A c \in DOMAIN clients : c # http[i] => clients'[c] = clients[c]
    BY <1>1, <2>1, <2>2, <2>3, Replaced
  <2>6. \A j \in closers' : j \in closers \/ j = begun
    BY <2>2
  <2> QED
    BY <1>1, <1>2, <2>1, <2>2, <2>3, <2>4, <2>5, <2>6
<1>4. CASE ~HasClient(i)
  <2>1. http' = [http EXCEPT ![i] = 0] /\ closers' = closers \ {k} /\ clients' = clients
    BY <1>4 DEF CloseBegins
  <2>2. /\ http' \in Seq(0..Len(clients)) /\ Len(http') = Len(http) /\ http'[i] = 0
        /\ \A j \in DOMAIN http : j # i => http'[j] = http[j]
    BY <1>1, <2>1, Replaced
  <2>3. \A c \in DOMAIN clients : http[i] = c => ~clients[c].open
    BY <1>1, <1>4 DEF HasClient
  <2> QED
    BY <1>1, <1>2, <1>4, <2>1, <2>2, <2>3
<1> QED
  BY <1>3, <1>4

-----------------------------------------------------------------------------
(* One lemma for each action, or kind of action                            *)

LEMMA InitIInv == Init => IInv
<1> SUFFICES ASSUME Init PROVE IInv
  OBVIOUS
<1>1. built = << >> /\ http = << >> /\ clients = << >> /\ closers = {} /\ cached = 0
      /\ config = NoConfig /\ saved \in Configs /\ calls = [u \in Calls |-> Idle]
      /\ updates = 0 /\ stopped = FALSE /\ scheduled = 0
  BY DEF Init
<1>2. Idle \in Call /\ Idle.pc = "idle"
  BY DEF Idle, Call, Kinds
<1>3. \A u \in Calls : ~Active(u) /\ ~OnClient(u)
  BY <1>1, <1>2 DEF Active, OnClient
<1>4. TypeOK
  <2>1. /\ built \in Seq(Configs) /\ clients \in Seq(Client)
        /\ Len(http) = Len(built) /\ cached \in 0..Len(built)
        /\ http \in Seq(0..Len(clients))
    BY <1>1
  <2>2. calls \in [Calls -> Call]
    BY <1>1, <1>2
  <2>3. /\ saved \in Configs /\ config \in Configs \cup {NoConfig}
        /\ closers \subseteq Closer /\ scheduled \in Nat /\ updates \in Nat
        /\ stopped \in BOOLEAN
    BY <1>1
  <2> QED
    BY <2>1, <2>2, <2>3 DEF TypeOK
<1>5. PointersInv /\ ClosersInv /\ CallsInv /\ ServesSaved /\ NoClientLeft
  BY <1>1, <1>3 DEF PointersInv, ClosersInv, CallsInv, ServesSaved, NoClientLeft
<1>6. CurrentInv
  BY <1>1 DEF CurrentInv
<1> QED
  BY <1>4, <1>5, <1>6 DEF IInv

(* No call under way began after this save.                                *)
LEMMA UpdateIInv ==
  ASSUME IInv, NEW c \in Configs, Update(c)
  PROVE  IInv'
<1>1. TypeOK /\ PointersInv /\ CurrentInv /\ ClosersInv /\ CallsInv
      /\ ServesSaved /\ NoClientLeft
  BY DEF IInv
<1>2. /\ saved' = c /\ updates' = updates + 1
      /\ UNCHANGED <<config, cached, built, http, clients, closers, scheduled,
                     calls, stopped>>
  BY DEF Update
<1>3. TypeOK'
  BY <1>1, <1>2 DEF TypeOK
<1>4. PointersInv' /\ CurrentInv' /\ ClosersInv' /\ NoClientLeft' /\ ServesSaved'
  BY <1>1, <1>2 DEF PointersInv, CurrentInv, ClosersInv, NoClientLeft, ServesSaved,
                    Current, Closing, Active, OnClient
<1>5. CallsInv'
  <2>1. \A u \in Calls : Active(u) => calls[u].since <= updates
    BY <1>1 DEF CallsInv
  <2>2. updates \in Nat /\ \A u \in Calls : calls[u].since \in Nat
    BY <1>1, Domains DEF TypeOK, Call
  <2>3. \A u \in Calls :
          Active(u)' => calls'[u].since <= updates' /\ calls'[u].since # updates'
    BY <1>2, <2>1, <2>2 DEF Active
  <2> QED
    BY <2>3 DEF CallsInv
<1> QED
  BY <1>3, <1>4, <1>5 DEF IInv

LEMMA ResolvedEffect ==
  ASSUME TypeOK, NEW u \in Calls, NEW kind \in Kinds, NEW i \in Nat,
         Resolved(u, kind, i)
  PROVE  /\ calls' \in [Calls -> Call]
         /\ calls'[u].inst = i /\ calls'[u].want = saved /\ calls'[u].since = updates
         /\ Active(u)' /\ ~OnClient(u)'
         /\ \A v \in Calls : v # u => calls'[v] = calls[v]
BY DEF TypeOK, Resolved, Idle, Call, Kinds, Active, OnClient

LEMMA ReuseIInv ==
  ASSUME IInv, NEW u \in Calls, NEW kind \in Kinds, Reuse(u, kind)
  PROVE  IInv'
<1>1. TypeOK /\ PointersInv /\ CurrentInv /\ ClosersInv /\ CallsInv
      /\ ServesSaved /\ NoClientLeft
  BY DEF IInv
<1>2. /\ config = saved /\ cached # 0 /\ cached \in DOMAIN built /\ cached \in Nat
      /\ UNCHANGED <<saved, config, cached, built, http, clients, closers,
                     scheduled, updates, stopped>>
  BY <1>1, Domains DEF Reuse, Unchanged, TypeOK
<1>3. /\ calls' \in [Calls -> Call]
      /\ calls'[u].inst = cached /\ calls'[u].want = saved /\ calls'[u].since = updates
      /\ Active(u)' /\ ~OnClient(u)'
      /\ \A v \in Calls : v # u => calls'[v] = calls[v]
  BY <1>1, <1>2, ResolvedEffect DEF Reuse
<1>4. TypeOK'
  BY <1>1, <1>2, <1>3 DEF TypeOK
<1>5. PointersInv'
  BY <1>1, <1>2, <1>3 DEF PointersInv, Active, OnClient
<1>6. CurrentInv' /\ ClosersInv' /\ NoClientLeft'
  BY <1>1, <1>2 DEF CurrentInv, ClosersInv, NoClientLeft, Current, Closing
<1>7. saved \notin Unbuildable => built[cached] = saved
  BY <1>1, <1>2 DEF CurrentInv
<1>8. ServesSaved'
  BY <1>1, <1>2, <1>3, <1>7 DEF ServesSaved, Active
<1>9. updates \in Nat
  BY <1>1 DEF TypeOK
<1>10. CallsInv'
  BY <1>1, <1>2, <1>3, <1>7, <1>9 DEF CallsInv, Active, OnClient, Current
<1> QED
  BY <1>4, <1>5, <1>6, <1>8, <1>10 DEF IInv

(* A new provider: there was a save since any call on the one before.      *)
LEMMA RebuildIInv ==
  ASSUME IInv, NEW u \in Calls, NEW kind \in Kinds, Rebuild(u, kind)
  PROVE  IInv'
<1> DEFINE new == Len(built) + 1
<1>1. TypeOK /\ PointersInv /\ CurrentInv /\ ClosersInv /\ CallsInv
      /\ ServesSaved /\ NoClientLeft
  BY DEF IInv
<1>2. /\ config # saved /\ saved \notin Unbuildable /\ saved \in Configs
      /\ config' = saved /\ cached' = new /\ closers' = Retired
      /\ scheduled' = scheduled + 1
      /\ UNCHANGED <<saved, clients, updates, stopped>>
  BY <1>1 DEF Rebuild, Unchanged, TypeOK
<1>3. /\ built' \in Seq(Configs) /\ Len(built') = new
      /\ DOMAIN built' = DOMAIN built \cup {new} /\ new \notin DOMAIN built
      /\ \A i \in DOMAIN built : built'[i] = built[i]
      /\ built'[new] = saved
  BY <1>1, <1>2, Appended DEF TypeOK, Rebuild
<1>4. /\ http' \in Seq(0..Len(clients)) /\ Len(http') = new
      /\ DOMAIN http' = DOMAIN http \cup {new} /\ new \notin DOMAIN http
      /\ \A i \in DOMAIN http : http'[i] = http[i]
      /\ http'[new] = 0
  <2>1. /\ http \in Seq(0..Len(clients)) /\ 0 \in 0..Len(clients)
        /\ http' = Append(http, 0) /\ Len(http) = Len(built)
    BY <1>1, Domains DEF TypeOK, Rebuild
  <2> QED
    BY <2>1, Appended
<1>5. /\ new \in Nat /\ new # 0 /\ DOMAIN http = DOMAIN built
      /\ cached # 0 => cached \in DOMAIN built
  BY <1>1, Domains
<1>6. /\ calls' \in [Calls -> Call]
      /\ calls'[u].inst = new /\ calls'[u].want = saved /\ calls'[u].since = updates
      /\ Active(u)' /\ ~OnClient(u)'
      /\ \A v \in Calls : v # u => calls'[v] = calls[v]
  BY <1>1, <1>5, ResolvedEffect DEF Rebuild
<1>7. /\ closers \subseteq closers' /\ closers' \subseteq Closer
      /\ \A k \in closers' \ closers : k.inst = cached /\ k.client = 0 /\ cached # 0
      /\ cached # 0 => \E k \in closers' : k.inst = cached /\ k.client = 0
      /\ \A k \in closers' : k.inst \in DOMAIN built /\ k.id \in 1..(scheduled + 1)
  BY <1>1, <1>2, RetiredEffect
<1> HIDE DEF new
<1>8. TypeOK'
  <2>1. cached' \in 0..Len(built')
    BY <1>2, <1>3, <1>5
  <2> QED
    BY <1>1, <1>2, <1>3, <1>4, <1>6, <1>7, <2>1 DEF TypeOK
<1>9. PointersInv'
  BY <1>1, <1>2, <1>3, <1>4, <1>5, <1>6, <1>7 DEF PointersInv, Active, OnClient
<1>10. CurrentInv'
  BY <1>1, <1>2, <1>3, <1>5, <1>7 DEF CurrentInv, Current
<1>11. ClosersInv'
  BY <1>1, <1>2, <1>7 DEF ClosersInv
<1>12. ServesSaved'
  BY <1>1, <1>2, <1>3, <1>6 DEF ServesSaved, PointersInv, Active
<1>13. \A v \in Calls : Active(v) => calls[v].since # updates \/ stopped
  <2> SUFFICES ASSUME NEW v \in Calls, Active(v), calls[v].since = updates, ~stopped
               PROVE  FALSE
    OBVIOUS
  <2>1. calls[v].want = saved /\ Current(calls[v].inst)
    BY <1>1, <1>2 DEF CallsInv
  <2>2. built[calls[v].inst] = saved
    BY <1>1, <1>2, <2>1 DEF ServesSaved
  <2> QED
    BY <1>2, <2>1, <2>2 DEF Current
<1>14. CallsInv'
  <2>1. updates \in Nat
    BY <1>1 DEF TypeOK
  <2> QED
    BY <1>1, <1>2, <1>3, <1>6, <1>13, <2>1 DEF CallsInv, Active, OnClient, Current
<1>15. NoClientLeft'
  <2> SUFFICES ASSUME NEW c \in DOMAIN clients, clients[c].open, ~clients[c].late
               PROVE  /\ http'[clients[c].owner] = c
                      /\ Current(clients[c].owner)' \/ Closing(clients[c].owner)'
    BY <1>2 DEF NoClientLeft
  <2>1. /\ http[clients[c].owner] = c /\ clients[c].owner \in DOMAIN built
        /\ Current(clients[c].owner) \/ Closing(clients[c].owner)
    BY <1>1 DEF NoClientLeft, PointersInv
  <2>2. http'[clients[c].owner] = c
    BY <1>4, <1>5, <2>1
  <2>3. Closing(clients[c].owner)'
    <3>1. CASE Closing(clients[c].owner)
      BY <1>2, <1>7, <3>1 DEF Closing
    <3>2. CASE Current(clients[c].owner)
      <4>1. cached = clients[c].owner /\ cached # 0
        BY <2>1, <3>2, Domains, <1>1 DEF Current
      <4> QED
        BY <1>2, <1>7, <4>1 DEF Closing
    <3> QED
      BY <2>1, <3>1, <3>2
  <2> QED
    BY <2>2, <2>3
<1> QED
  BY <1>8, <1>9, <1>10, <1>11, <1>12, <1>14, <1>15 DEF IInv
(* A build that fails: the configuration recorded is nobody's, and every   *)
(* call since which nothing was saved wanted it.                           *)
LEMMA RebuildFailsIInv ==
  ASSUME IInv, NEW kind \in Kinds, RebuildFails(kind)
  PROVE  IInv'
<1>1. TypeOK /\ PointersInv /\ CurrentInv /\ ClosersInv /\ CallsInv
      /\ ServesSaved /\ NoClientLeft
  BY DEF IInv
<1>2. /\ saved \in Unbuildable /\ saved \in Configs
      /\ config' = saved /\ closers' = Retired /\ scheduled' = scheduled + 1
      /\ UNCHANGED <<saved, cached, built, http, clients, calls, updates, stopped>>
  BY <1>1 DEF RebuildFails, TypeOK
<1>3. /\ closers \subseteq closers' /\ closers' \subseteq Closer
      /\ \A k \in closers' \ closers : k.inst = cached /\ k.client = 0 /\ cached # 0
      /\ cached # 0 => \E k \in closers' : k.inst = cached /\ k.client = 0
      /\ \A k \in closers' : k.inst \in DOMAIN built /\ k.id \in 1..(scheduled + 1)
  BY <1>1, <1>2, RetiredEffect
<1>4. TypeOK'
  BY <1>1, <1>2, <1>3 DEF TypeOK
<1>5. PointersInv'
  BY <1>1, <1>2, <1>3 DEF PointersInv, Active, OnClient
<1>6. \A i \in DOMAIN built : built[i] # saved
  BY <1>1, <1>2 DEF CurrentInv
<1>7. CurrentInv'
  BY <1>1, <1>2, <1>3, <1>6 DEF CurrentInv, Current
<1>8. ClosersInv'
  BY <1>1, <1>2, <1>3 DEF ClosersInv
<1>9. ServesSaved'
  BY <1>1, <1>2 DEF ServesSaved, Active
<1>10. CallsInv'
  BY <1>1, <1>2 DEF CallsInv, Active
<1>11. NoClientLeft'
  BY <1>1, <1>2, <1>3, Domains DEF NoClientLeft, PointersInv, Current, Closing
<1> QED
  BY <1>4, <1>5, <1>7, <1>8, <1>9, <1>10, <1>11 DEF IInv

LEMMA CallOnlyIInv ==
  ASSUME IInv, NEW u \in Calls, CallOnly(u)
  PROVE  IInv'
<1>1. TypeOK /\ PointersInv /\ CurrentInv /\ ClosersInv /\ CallsInv
      /\ ServesSaved /\ NoClientLeft
  BY DEF IInv
<1>2. /\ calls' \in [Calls -> Call]
      /\ \A v \in Calls :
           /\ Active(v)' => /\ Active(v) /\ calls'[v].inst = calls[v].inst
                            /\ calls'[v].want = calls[v].want
                            /\ calls'[v].since = calls[v].since
                            /\ calls'[v].client = calls[v].client
           /\ OnClient(v)' => OnClient(v)
      /\ UNCHANGED <<saved, config, cached, built, http, clients, closers,
                     scheduled, updates, stopped>>
  BY <1>1, CallOnlyEffect
<1>3. \A v \in Calls : OnClient(v)' => Active(v)'
  BY DEF OnClient, Active
<1>4. TypeOK'
  BY <1>1, <1>2 DEF TypeOK
<1>5. PointersInv'
  <2>1. \A v \in Calls :
          /\ Active(v)' => calls'[v].inst \in DOMAIN built
          /\ OnClient(v)' => /\ calls'[v].client \in DOMAIN clients
                             /\ clients[calls'[v].client].owner = calls'[v].inst
    BY <1>1, <1>2, <1>3 DEF PointersInv
  <2> QED
    BY <1>1, <1>2, <2>1 DEF PointersInv
<1>6. CurrentInv' /\ ClosersInv' /\ NoClientLeft'
  BY <1>1, <1>2 DEF CurrentInv, ClosersInv, NoClientLeft, Current, Closing
<1>7. ServesSaved'
  BY <1>1, <1>2 DEF ServesSaved
<1>8. CallsInv'
  BY <1>1, <1>2, <1>3 DEF CallsInv, Current
<1> QED
  BY <1>4, <1>5, <1>6, <1>7, <1>8 DEF IInv

(* A client opened or reused: none of another provider is touched.         *)
LEMMA GetHttpIInv ==
  ASSUME IInv, NEW u \in Calls, Active(u), GetHttp(u), calls'[u].pc = "calling"
  PROVE  IInv'
<1> DEFINE i == calls[u].inst
           c == calls'[u].client
<1>1. TypeOK /\ PointersInv /\ CurrentInv /\ ClosersInv /\ CallsInv
      /\ ServesSaved /\ NoClientLeft
  BY DEF IInv
<1>2. /\ i \in DOMAIN built /\ c \in DOMAIN clients'
      /\ clients' \in Seq(Client)
      /\ \A d \in DOMAIN clients : d \in DOMAIN clients' /\ clients'[d] = clients[d]
      /\ \A d \in DOMAIN clients' : d \in DOMAIN clients \/ d = c
      /\ clients'[c].owner = i /\ clients'[c].open
      /\ http' \in Seq(0..Len(clients')) /\ Len(http') = Len(http)
      /\ http'[i] = c
      /\ \A j \in DOMAIN http : j # i => http'[j] = http[j]
      /\ \/ c \in DOMAIN clients /\ c = http[i]
         \/ c \notin DOMAIN clients /\ ~HasClient(i) /\ clients'[c].late = ~Current(i)
      /\ calls' \in [Calls -> Call]
      /\ calls'[u].inst = i /\ calls'[u].want = calls[u].want
      /\ calls'[u].since = calls[u].since
      /\ \A v \in Calls : v # u => calls'[v] = calls[v]
      /\ UNCHANGED <<saved, config, cached, built, closers, scheduled,
                     updates, stopped>>
  BY <1>1, GetHttpEffect
<1>3. DOMAIN http' = DOMAIN http /\ DOMAIN http = DOMAIN built
      /\ \A j \in DOMAIN http : http[j] # 0 => http[j] \in DOMAIN clients
      /\ Len(clients) \in Nat /\ DOMAIN clients = 1..Len(clients)
  BY <1>1, <1>2, Domains DEF TypeOK
<1> HIDE DEF i, c
<1>4. TypeOK'
  BY <1>1, <1>2 DEF TypeOK
<1>5. PointersInv'
  <2>1. \A j \in DOMAIN http' : http'[j] # 0 => clients'[http'[j]].owner = j
    BY <1>1, <1>2, <1>3, SMTT(30) DEF PointersInv
  <2>2. \A d \in DOMAIN clients' : clients'[d].owner \in DOMAIN built
    BY <1>1, <1>2 DEF PointersInv
  <2>3. \A v \in Calls :
          /\ Active(v)' => calls'[v].inst \in DOMAIN built
          /\ OnClient(v)' => /\ calls'[v].client \in DOMAIN clients'
                             /\ clients'[calls'[v].client].owner = calls'[v].inst
    <3> SUFFICES ASSUME NEW v \in Calls
        PROVE /\ Active(v)' => calls'[v].inst \in DOMAIN built
              /\ OnClient(v)' => /\ calls'[v].client \in DOMAIN clients'
                                 /\ clients'[calls'[v].client].owner = calls'[v].inst
      OBVIOUS
    <3>1. CASE v = u
      BY <1>2, <3>1 DEF c
    <3>2. CASE v # u
      BY <1>1, <1>2, <3>2 DEF PointersInv, Active, OnClient
    <3> QED
      BY <3>1, <3>2
  <2> QED
    BY <1>1, <1>2, <2>1, <2>2, <2>3 DEF PointersInv
<1>6. CurrentInv'
  BY <1>1, <1>2 DEF CurrentInv, Current
<1>7. ClosersInv'
  <2> SUFFICES ASSUME NEW k \in closers, NEW d \in DOMAIN clients', k.client # 0,
                      clients'[d].owner = k.inst, clients'[d].open
               PROVE  clients'[d].late
    BY <1>2 DEF ClosersInv
  <2>1. CASE d \in DOMAIN clients
    BY <1>1, <1>2, <2>1 DEF ClosersInv
  <2>2. CASE d \notin DOMAIN clients
    <3>1. d = c /\ k.inst = i /\ clients'[c].late = ~Current(i)
      BY <1>2, <2>2
    <3>2. ~Current(i)
      BY <1>1, <3>1 DEF CurrentInv
    <3> QED
      BY <3>1, <3>2
  <2> QED
    BY <2>1, <2>2
<1>8. ServesSaved'
  BY <1>1, <1>2 DEF ServesSaved, Active, i
<1>9. CallsInv'
  <2> SUFFICES ASSUME NEW v \in Calls, Active(v)', calls'[v].since = updates, ~stopped
               PROVE  /\ calls'[v].want = saved
                      /\ calls'[v].want \notin Unbuildable =>
                           /\ Current(calls'[v].inst)
                           /\ OnClient(v)' => clients'[calls'[v].client].open
    BY <1>1, <1>2 DEF CallsInv, Current, Active
  <2>1. CASE v = u
    BY <1>1, <1>2, <2>1 DEF CallsInv, i, c
  <2>2. CASE v # u
    BY <1>1, <1>2, <2>2 DEF CallsInv, PointersInv, Active, OnClient
  <2> QED
    BY <2>1, <2>2
<1>10. NoClientLeft'
  <2> SUFFICES ASSUME NEW d \in DOMAIN clients', clients'[d].open, ~clients'[d].late
               PROVE  /\ http'[clients'[d].owner] = d
                      /\ Current(clients'[d].owner) \/ Closing(clients'[d].owner)
    BY <1>2 DEF NoClientLeft, Current, Closing
  <2>1. CASE d \notin DOMAIN clients
    <3>1. d = c /\ clients'[c].late = ~Current(i)
      BY <1>2, <2>1
    <3> QED
      BY <1>2, <3>1
  <2>2. CASE d \in DOMAIN clients
    <3>1. /\ clients'[d] = clients[d] /\ http[clients[d].owner] = d
          /\ Current(clients[d].owner) \/ Closing(clients[d].owner)
          /\ clients[d].owner \in DOMAIN http
      BY <1>1, <1>2, <1>3, <2>2 DEF NoClientLeft, PointersInv
    <3>2. CASE clients[d].owner # i
      BY <1>2, <3>1, <3>2
    <3>3. CASE clients[d].owner = i
      <4>1. HasClient(i)
        BY <1>3, <2>2, <3>1, <3>3 DEF HasClient
      <4> QED
        BY <1>2, <3>1, <3>3, <4>1
    <3> QED
      BY <3>2, <3>3
  <2> QED
    BY <2>1, <2>2
<1> QED
  BY <1>4, <1>5, <1>6, <1>7, <1>8, <1>9, <1>10 DEF IInv

(* aclose marks a client closed that no call may count on.                 *)
LEMMA CloseBeginsIInv ==
  ASSUME IInv, NEW k \in closers, CloseBegins(k)
  PROVE  IInv'
<1>1. TypeOK /\ PointersInv /\ CurrentInv /\ ClosersInv /\ CallsInv
      /\ ServesSaved /\ NoClientLeft
  BY DEF IInv
<1>2. /\ clients' \in Seq(Client) /\ DOMAIN clients' = DOMAIN clients
      /\ Len(clients') = Len(clients)
      /\ \A c \in DOMAIN clients :
           /\ clients'[c].owner = clients[c].owner
           /\ clients'[c].late = clients[c].late
           /\ clients'[c].open => clients[c].open
           /\ clients[c].owner # k.inst => clients'[c] = clients[c]
           /\ http[k.inst] = c => ~clients'[c].open
      /\ http' \in Seq(0..Len(clients')) /\ Len(http') = Len(http)
      /\ \A i \in DOMAIN http : http'[i] = http[i] \/ (http'[i] = 0 /\ i = k.inst)
      /\ \A i \in DOMAIN http : http'[i] # http[i] => ~HasClient(i)
      /\ closers' \subseteq Closer
      /\ \A j \in closers' \ closers :
           j.inst = k.inst /\ j.id = k.id /\ j.client # 0
      /\ \A j \in closers : j.inst # k.inst => j \in closers'
      /\ UNCHANGED <<saved, config, cached, built, scheduled, calls, updates, stopped>>
  BY <1>1, CloseBeginsEffect
<1>3. /\ DOMAIN http = DOMAIN built /\ DOMAIN http' = DOMAIN http
      /\ \A i \in DOMAIN http : http[i] # 0 => http[i] \in DOMAIN clients
      /\ 0 \notin DOMAIN clients
  BY <1>1, <1>2, Domains DEF TypeOK
<1>4. TypeOK'
  BY <1>1, <1>2 DEF TypeOK
<1>5. PointersInv'
  <2>1. \A i \in DOMAIN http' : http'[i] # 0 => clients'[http'[i]].owner = i
    BY <1>1, <1>2, <1>3, SMTT(30) DEF PointersInv
  <2>2. \A j \in closers' : j.inst \in DOMAIN built /\ j.id \in 1..scheduled
    BY <1>1, <1>2 DEF PointersInv
  <2>3. \A u \in Calls :
          /\ Active(u) => calls[u].inst \in DOMAIN built
          /\ OnClient(u) => /\ calls[u].client \in DOMAIN clients'
                            /\ clients'[calls[u].client].owner = calls[u].inst
    BY <1>1, <1>2 DEF PointersInv
  <2> QED
    BY <1>1, <1>2, <2>1, <2>2, <2>3 DEF PointersInv, Active, OnClient
<1>6. CurrentInv'
  BY <1>1, <1>2 DEF CurrentInv, Current
<1>7. \A c \in DOMAIN clients :
        clients[c].owner = k.inst /\ clients'[c].open => clients[c].late
  BY <1>1, <1>2 DEF NoClientLeft
<1>8. ClosersInv'
  <2> SUFFICES ASSUME NEW j \in closers', NEW c \in DOMAIN clients, j.client # 0,
                      clients'[c].owner = j.inst, clients'[c].open
               PROVE  clients'[c].late
    BY <1>2 DEF ClosersInv
  <2>1. CASE j \in closers
    BY <1>1, <1>2, <2>1 DEF ClosersInv
  <2>2. CASE j \notin closers
    BY <1>2, <1>7, <2>2
  <2> QED
    BY <2>1, <2>2
<1>9. ServesSaved'
  BY <1>1, <1>2 DEF ServesSaved, Active
<1>10. CallsInv'
  <2> SUFFICES ASSUME NEW u \in Calls, Active(u), calls[u].since = updates, ~stopped
               PROVE  /\ calls[u].want = saved
                      /\ calls[u].want \notin Unbuildable =>
                           /\ Current(calls[u].inst)
                           /\ OnClient(u) => clients'[calls[u].client].open
    BY <1>1, <1>2 DEF CallsInv, Current, Active, OnClient
  <2>1. /\ calls[u].want = saved
        /\ calls[u].want \notin Unbuildable =>
             /\ Current(calls[u].inst)
             /\ OnClient(u) => clients[calls[u].client].open
    BY <1>1 DEF CallsInv
  <2>2. Current(calls[u].inst) => calls[u].inst # k.inst
    BY <1>1 DEF CurrentInv
  <2>3. OnClient(u) => /\ calls[u].client \in DOMAIN clients
                       /\ clients[calls[u].client].owner = calls[u].inst
    BY <1>1 DEF PointersInv
  <2> QED
    BY <1>2, <2>1, <2>2, <2>3
<1>11. NoClientLeft'
  <2> SUFFICES ASSUME NEW c \in DOMAIN clients, clients'[c].open, ~clients'[c].late
               PROVE  /\ http'[clients[c].owner] = c
                      /\ Current(clients[c].owner) \/ Closing(clients[c].owner)'
    BY <1>2 DEF NoClientLeft, Current, Closing
  <2>1. /\ http[clients[c].owner] = c /\ clients[c].owner \in DOMAIN http
        /\ Current(clients[c].owner) \/ Closing(clients[c].owner)
    BY <1>1, <1>2, <1>3 DEF NoClientLeft, PointersInv
  <2>2. clients[c].owner # k.inst
    BY <1>2, <1>7
  <2>3. Closing(clients[c].owner) => Closing(clients[c].owner)'
    BY <1>2, <2>2 DEF Closing
  <2> QED
    BY <1>2, <2>1, <2>2, <2>3
<1> QED
  BY <1>4, <1>5, <1>6, <1>8, <1>9, <1>10, <1>11 DEF IInv

(* aclose forgets the client: what is still open was opened late.          *)
LEMMA CloseEndsIInv ==
  ASSUME IInv, NEW k \in closers, CloseEnds(k)
  PROVE  IInv'
<1>1. TypeOK /\ PointersInv /\ CurrentInv /\ ClosersInv /\ CallsInv
      /\ ServesSaved /\ NoClientLeft
  BY DEF IInv
<1>2. /\ k.client # 0 /\ http' = [http EXCEPT ![k.inst] = 0]
      /\ closers' = closers \ {k}
      /\ UNCHANGED <<saved, config, cached, built, clients, scheduled, calls,
                     updates, stopped>>
  BY DEF CloseEnds
<1>3. /\ k.inst \in DOMAIN http /\ DOMAIN http = DOMAIN built
      /\ Len(clients) \in Nat /\ http \in Seq(0..Len(clients)) /\ 0 \in 0..Len(clients)
  BY <1>1, Domains DEF PointersInv, TypeOK
<1>4. /\ http' \in Seq(0..Len(clients)) /\ Len(http') = Len(http)
      /\ DOMAIN http' = DOMAIN http /\ http'[k.inst] = 0
      /\ \A i \in DOMAIN http : i # k.inst => http'[i] = http[i]
  BY <1>2, <1>3, Replaced
<1>5. TypeOK'
  BY <1>1, <1>2, <1>4 DEF TypeOK
<1>6. PointersInv'
  BY <1>1, <1>2, <1>4 DEF PointersInv, Active, OnClient
<1>7. CurrentInv' /\ ClosersInv' /\ CallsInv' /\ ServesSaved'
  BY <1>1, <1>2 DEF CurrentInv, ClosersInv, CallsInv, ServesSaved, Current, Active, OnClient
<1>8. NoClientLeft'
  <2> SUFFICES ASSUME NEW c \in DOMAIN clients, clients[c].open, ~clients[c].late
               PROVE  /\ http'[clients[c].owner] = c
                      /\ Current(clients[c].owner) \/ Closing(clients[c].owner)'
    BY <1>2 DEF NoClientLeft, Current
  <2>1. /\ http[clients[c].owner] = c /\ clients[c].owner \in DOMAIN http
        /\ Current(clients[c].owner) \/ Closing(clients[c].owner)
    BY <1>1, <1>3 DEF NoClientLeft, PointersInv
  <2>2. clients[c].owner # k.inst
    BY <1>1, <1>2 DEF ClosersInv
  <2>3. Closing(clients[c].owner) => Closing(clients[c].owner)'
    BY <1>2, <2>2 DEF Closing
  <2> QED
    BY <1>4, <2>1, <2>2, <2>3
<1> QED
  BY <1>5, <1>6, <1>7, <1>8 DEF IInv

(* At the end of the lifespan the current provider is sent to be closed.   *)
LEMMA ShutdownIInv ==
  ASSUME IInv, Shutdown
  PROVE  IInv'
<1>1. TypeOK /\ PointersInv /\ CurrentInv /\ ClosersInv /\ CallsInv
      /\ ServesSaved /\ NoClientLeft
  BY DEF IInv
<1>2. /\ stopped' = TRUE /\ closers' = Retired
      /\ scheduled' = scheduled + 1
      /\ UNCHANGED <<saved, config, cached, built, http, clients, calls, updates>>
  BY DEF Shutdown
<1>3. /\ closers \subseteq closers' /\ closers' \subseteq Closer
      /\ \A k \in closers' \ closers : k.inst = cached /\ k.client = 0 /\ cached # 0
      /\ cached # 0 => \E k \in closers' : k.inst = cached /\ k.client = 0
      /\ \A k \in closers' : k.inst \in DOMAIN built /\ k.id \in 1..(scheduled + 1)
  BY <1>1, <1>2, RetiredEffect
<1>5. TypeOK'
  BY <1>1, <1>2, <1>3 DEF TypeOK
<1>6. PointersInv'
  BY <1>1, <1>2, <1>3 DEF PointersInv, Active, OnClient
<1>4. \A u \in Calls : Active(u) => calls[u].since <= updates
  BY <1>1 DEF CallsInv
<1>7. CurrentInv' /\ CallsInv'
  BY <1>1, <1>2, <1>3, <1>4 DEF CurrentInv, CallsInv, Current, Active
<1>8. ClosersInv'
  BY <1>1, <1>2, <1>3 DEF ClosersInv
<1>9. ServesSaved'
  BY <1>1, <1>2 DEF ServesSaved, Active
<1>10. NoClientLeft'
  BY <1>1, <1>2, <1>3, Domains DEF NoClientLeft, PointersInv, Current, Closing
<1> QED
  BY <1>5, <1>6, <1>7, <1>8, <1>9, <1>10 DEF IInv

-----------------------------------------------------------------------------
(* The theorems                                                            *)

LEMMA NextIInv == IInv /\ [Next]_vars => IInv'
<1> SUFFICES ASSUME IInv, [Next]_vars PROVE IInv'
  OBVIOUS
<1>1. ASSUME NEW c \in Configs, Update(c) PROVE IInv'
  BY <1>1, UpdateIInv
<1>2. ASSUME NEW kind \in Kinds, NEW u \in Calls, Reuse(u, kind) PROVE IInv'
  BY <1>2, ReuseIInv
<1>3. ASSUME NEW kind \in Kinds, NEW u \in Calls, Rebuild(u, kind) PROVE IInv'
  BY <1>3, RebuildIInv
<1>4. ASSUME NEW kind \in Kinds, RebuildFails(kind) PROVE IInv'
  BY <1>4, RebuildFailsIInv
<1>5. ASSUME NEW u \in Calls, Send(u) \/ Repair(u) PROVE IInv'
  <2>1. Active(u) /\ GetHttp(u)
    BY <1>5 DEF Send, Repair, Active
  <2>2. calls'[u].pc = "calling"
    BY <2>1 DEF GetHttp, IInv, TypeOK, Call
  <2> QED
    BY <2>1, <2>2, GetHttpIInv
<1>6. ASSUME NEW u \in Calls, Finish(u) \/ BackOff(u) \/ Retry(u) \/ RetryFails(u)
      PROVE  IInv'
  BY <1>6, CallOnlyIInv DEF CallOnly
<1>7. ASSUME NEW k \in closers, CloseBegins(k) PROVE IInv'
  BY <1>7, CloseBeginsIInv
<1>8. ASSUME NEW k \in closers, CloseEnds(k) PROVE IInv'
  BY <1>8, CloseEndsIInv
<1>9. ASSUME Shutdown PROVE IInv'
  BY <1>9, ShutdownIInv
<1>10. ASSUME UNCHANGED vars PROVE IInv'
  BY <1>10 DEF vars, IInv, TypeOK, PointersInv, CurrentInv, ClosersInv, CallsInv,
               ServesSaved, NoClientLeft, Current, Closing, Active, OnClient
<1> QED
  BY <1>1, <1>2, <1>3, <1>4, <1>5, <1>6, <1>7, <1>8, <1>9, <1>10
     DEF Next, CallStep, CloserStep

(* The invariant of the provider cache: only the current provider was      *)
(* never sent to be closed, a call with no save since is on it, and        *)
(* the clients an aclose has not found are in their provider's _http.      *)
THEOREM Invariance == Spec => []IInv
<1> QED
  BY InitIInv, NextIInv, PTL DEF Spec

(* A call is answered by the provider of the configuration that was saved  *)
(* when it began, unless that one cannot be built.                         *)
THEOREM ServesSavedHolds == Spec => []ServesSaved
<1>1. IInv => ServesSaved
  BY DEF IInv
<1> QED
  BY <1>1, Invariance, PTL

(* No open client of a provider is lost that was opened while the provider *)
(* was the one to use.                                                     *)
THEOREM NoClientLeftHolds == Spec => []NoClientLeft
<1>1. IInv => NoClientLeft
  BY DEF IInv
<1> QED
  BY <1>1, Invariance, PTL

(* A client is closed under a call only after the settings changed, the    *)
(* server stopped, or a configuration was saved that cannot be built.      *)
THEOREM LostClientHolds == Spec => []LostClientMeansChange
<1>1. IInv => LostClientMeansChange
  <2> SUFFICES ASSUME IInv, NEW u \in Calls, OnClient(u),
                      ~clients[calls[u].client].open,
                      calls[u].since = updates, ~stopped
               PROVE  calls[u].want \in Unbuildable
    BY DEF LostClientMeansChange
  <2> QED
    BY DEF IInv, CallsInv, Active, OnClient
<1> QED
  BY <1>1, Invariance, PTL
=============================================================================
