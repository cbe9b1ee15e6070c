---------------------------- MODULE ProviderCache ----------------------------
(***************************************************************************)
(* Which provider answers a call, and what becomes of the HTTP clients of  *)
(* the providers that were replaced: settings.json (SettingsStore), the    *)
(* cache of _resolve_provider with its background aclose of the old        *)
(* provider, and the lazily built httpx client of OpenAIProvider and       *)
(* OllamaProvider.                                                         *)
(*                                                                         *)
(* The event loop is one thread, so code without an await is one step.     *)
(* A configuration (provider, model, key, base_url) is a value; some of    *)
(* them build_provider refuses, for instance openai-compatible without a   *)
(* base_url, which the settings endpoint accepts.                          *)
(***************************************************************************)
EXTENDS Integers, Sequences

CONSTANTS
  Configs,        \* the configurations that may be saved
  Unbuildable,    \* those for which build_provider raises ValueError
  NoConfig,       \* what an empty cache holds
  Calls,          \* callers that may be under way at the same time
  MaxAttempts,    \* max_attempts of a provider call
  MaxUpdates      \* how often the settings are saved (bound)

ASSUME ConfigsAssumption ==
  /\ Unbuildable \subseteq Configs /\ NoConfig \notin Configs
  /\ MaxAttempts \in Nat \ {0} /\ MaxUpdates \in Nat

VARIABLES
  saved,          \* the configuration settings.json holds
  config,         \* _provider_cache["config"]
  cached,         \* _provider_cache["instance"], a number; 0 if there is none
  built,          \* built[i]: the configuration provider i was built with
  http,           \* http[i]: _http of provider i, a client number or 0
  clients,        \* the httpx clients opened so far
  closers,        \* the aclose coroutines not finished yet
  scheduled,      \* numbers them
  calls,          \* calls[u]: the provider call of caller u
  updates,        \* how often the settings were saved
  stopped         \* the lifespan has begun to close the provider

vars == <<saved, config, cached, built, http, clients, closers, scheduled,
          calls, updates, stopped>>

Kinds == {"analysis", "test"}   \* endpoints and batch worker; test-provider

Call == [pc: {"idle", "resolved", "calling", "backoff"}, kind: Kinds,
         inst: Nat, client: Nat, attempt: Nat, repairing: BOOLEAN,
         want: Configs \cup {NoConfig},     \* what was saved when it resolved
         since: Nat]                        \* how many saves there were then

Idle == [pc |-> "idle", kind |-> "analysis", inst |-> 0, client |-> 0,
         attempt |-> 0, repairing |-> FALSE, want |-> NoConfig, since |-> 0]

(* late: opened for a provider that was no longer the one to use.          *)
Client == [owner: Nat, open: BOOLEAN, late: BOOLEAN]

Closer == [id: Nat, inst: Nat, client: Nat]   \* client 0: not started

TypeOK ==
  /\ saved \in Configs /\ config \in Configs \cup {NoConfig}
  /\ built \in Seq(Configs) /\ cached \in 0..Len(built)
  /\ clients \in Seq(Client)
  /\ http \in Seq(0..Len(clients)) /\ Len(http) = Len(built)
  /\ closers \subseteq Closer /\ scheduled \in Nat
  /\ calls \in [Calls -> Call]
  /\ updates \in Nat /\ stopped \in BOOLEAN

Init ==
  /\ saved \in Configs
  /\ config = NoConfig /\ cached = 0
  /\ built = << >> /\ http = << >> /\ clients = << >>
  /\ closers = {} /\ scheduled = 0
  /\ calls = [u \in Calls |-> Idle]
  /\ updates = 0 /\ stopped = FALSE

-----------------------------------------------------------------------------
(* Settings                                                                *)

(* update_provider: read, change and replace the file without an await.    *)
Update(c) ==
  /\ ~stopped /\ updates < MaxUpdates /\ c # saved
  /\ saved' = c /\ updates' = updates + 1
  /\ UNCHANGED <<config, cached, built, http, clients, closers, scheduled,
                 calls, stopped>>

-----------------------------------------------------------------------------
(* _resolve_provider                                                       *)

(* create_task(old.aclose()), if there is an old provider.                 *)
RetiredUnlessBroken ==
  IF cached = 0 \/ saved \in Unbuildable THEN closers
  ELSE closers \cup {[id |-> scheduled + 1, inst |-> cached, client |-> 0]}
Retired ==
  IF cached = 0 THEN closers
  ELSE closers \cup {[id |-> scheduled + 1, inst |-> cached, client |-> 0]}

(* Once the lifespan ends, only coroutines of the batch worker begin.      *)
Begins(u, kind) == /\ calls[u].pc = "idle"
                   /\ stopped => kind = "analysis"

Resolved(u, kind, i) ==
  calls' = [calls EXCEPT ![u] =
    [Idle EXCEPT !.pc = "resolved", !.kind = kind, !.inst = i, !.want = saved,
                 !.since = updates]]

(* The cached provider is used if the configuration is the recorded one.   *)
KeepsFirst  == config # NoConfig
NeverCaches == FALSE
Unchanged   == config = saved

(* With no provider at all in the cache this is a KeyError, answered with  *)
(* status 500.                                                             *)
Reuse(u, kind) ==
  /\ Begins(u, kind) /\ Unchanged /\ cached # 0
  /\ Resolved(u, kind, cached)
  /\ UNCHANGED <<saved, config, cached, built, http, clients, closers,
                 scheduled, updates, stopped>>

Rebuild(u, kind) ==
  /\ Begins(u, kind) /\ ~Unchanged /\ saved \notin Unbuildable
  /\ closers' = Retired /\ scheduled' = scheduled + 1
  /\ config' = saved
  /\ built' = Append(built, saved) /\ http' = Append(http, 0)
  /\ cached' = Len(built) + 1
  /\ Resolved(u, kind, Len(built) + 1)
  /\ UNCHANGED <<saved, clients, updates, stopped>>

(* The configuration is recorded, and the old provider sent to be closed,  *)
(* before build_provider raises; the old provider stays in the cache.      *)
RebuildFails(kind) ==
  /\ \E u \in Calls : Begins(u, kind)
  /\ ~Unchanged /\ saved \in Unbuildable
  /\ closers' = Retired /\ scheduled' = scheduled + 1
  /\ config' = saved
  /\ UNCHANGED <<saved, cached, built, http, clients, calls, updates, stopped>>

-----------------------------------------------------------------------------
(* A call on a provider                                                    *)

(* _get_http returns the open client of the provider, or opens one.        *)
HasClient(i) == http[i] # 0 /\ clients[http[i]].open

Opened(i) ==
  [owner |-> i, open |-> TRUE,
   late |-> ~(cached = i /\ config = built[i] /\ ~stopped)]

GetHttp(u) ==
  LET i == calls[u].inst
      c == IF HasClient(i) THEN http[i] ELSE Len(clients) + 1
  IN  /\ clients' = IF HasClient(i) THEN clients
                    ELSE Append(clients, Opened(i))
      /\ http' = [http EXCEPT ![i] = c]
      /\ calls' = [calls EXCEPT ![u].pc = "calling", ![u].client = c,
                                ![u].attempt = 1,
                                ![u].repairing = (calls[u].pc = "calling")]
      /\ UNCHANGED <<saved, config, cached, built, closers, scheduled,
                     updates, stopped>>

Send(u) == calls[u].pc = "resolved" /\ GetHttp(u)

Ends(u) ==
  /\ calls' = [calls EXCEPT ![u] = Idle]
  /\ UNCHANGED <<saved, config, cached, built, http, clients, closers,
                 scheduled, updates, stopped>>

(* The call is over: an answer, an error that is not retried, no API key,  *)
(* or its caller has disconnected.                                         *)
Finish(u) == calls[u].pc # "idle" /\ Ends(u)

(* An analysis got text that does not parse: repair_json asks the same     *)
(* provider again, through _get_http.                                      *)
Repair(u) ==
  /\ calls[u].pc = "calling" /\ calls[u].kind # "test" /\ ~calls[u].repairing
  /\ GetHttp(u)

(* A transport error or a transient status; health_check never retries.    *)
BackOff(u) ==
  /\ calls[u].pc = "calling" /\ calls[u].kind # "test"
  /\ calls[u].attempt < MaxAttempts
  /\ calls' = [calls EXCEPT ![u].pc = "backoff"]
  /\ UNCHANGED <<saved, config, cached, built, http, clients, closers,
                 scheduled, updates, stopped>>

(* The retry uses the client it already has, not _get_http.                *)
Retry(u) ==
  /\ calls[u].pc = "backoff" /\ clients[calls[u].client].open
  /\ calls' = [calls EXCEPT ![u].pc = "calling", ![u].attempt = @ + 1]
  /\ UNCHANGED <<saved, config, cached, built, http, clients, closers,
                 scheduled, updates, stopped>>

(* httpx raises RuntimeError on a closed client, and nothing retries that. *)
RetryFails(u) ==
  /\ calls[u].pc = "backoff" /\ ~clients[calls[u].client].open
  /\ Ends(u)

-----------------------------------------------------------------------------
(* aclose                                                                  *)

(* httpx marks the client closed at once and then awaits its connections;  *)
(* closing one that is closed already does not wait.                       *)
CloseBegins(k) ==
  LET i == k.inst
  IN  /\ k.client = 0
      /\ IF HasClient(i)
         THEN /\ clients' = [clients EXCEPT ![http[i]].open = FALSE]
              /\ closers' = (closers \ {k}) \cup {[k EXCEPT !.client = http[i]]}
              /\ UNCHANGED http
         ELSE /\ http' = [http EXCEPT ![i] = 0]
              /\ closers' = closers \ {k}
              /\ UNCHANGED clients
      /\ UNCHANGED <<saved, config, cached, built, scheduled, calls, updates,
                     stopped>>

(* self._http = None, whatever _http is by now.                            *)
CloseEnds(k) ==
  /\ k.client # 0
  /\ http' = [http EXCEPT ![k.inst] = 0]
  /\ closers' = closers \ {k}
  /\ UNCHANGED <<saved, config, cached, built, clients, scheduled, calls,
                 updates, stopped>>

(* The end of the lifespan closes the cached provider.  Coroutines of the  *)
(* batch worker may still be running.                                      *)
Shutdown ==
  /\ ~stopped /\ stopped' = TRUE
  /\ closers' = Retired /\ scheduled' = scheduled + 1
  /\ UNCHANGED <<saved, config, cached, built, http, clients, calls, updates>>

-----------------------------------------------------------------------------
CallStep(u) ==
  \/ Send(u) \/ Finish(u) \/ Repair(u) \/ BackOff(u) \/ Retry(u)
  \/ RetryFails(u)

CloserStep(k) == CloseBegins(k) \/ CloseEnds(k)

Next ==
  \/ \E c \in Configs : Update(c)
  \/ \E kind \in Kinds :
       \/ \E u \in Calls : Reuse(u, kind) \/ Rebuild(u, kind)
       \/ RebuildFails(kind)
  \/ \E u \in Calls : CallStep(u)
  \/ \E k \in closers : CloserStep(k)
  \/ Shutdown

Spec == Init /\ [][Next]_vars

-----------------------------------------------------------------------------
(* Safety                                                                  *)

Active(u)    == calls[u].pc # "idle"
OnClient(u)  == calls[u].pc \in {"calling", "backoff"}
Current(i)   == cached = i /\ config = built[i] /\ ~stopped
Closing(i)   == \E k \in closers : k.inst = i /\ k.client = 0

(* A call is answered by the provider of the configuration that was saved  *)
(* when it began, through any sequence of saved settings, failed builds    *)
(* and concurrent calls, unless that configuration cannot be built.        *)
ServesSaved ==
  \A u \in Calls : Active(u) =>
    built[calls[u].inst] = calls[u].want \/ calls[u].want \in Unbuildable

(* No client is closed under a call unless the settings changed, or the    *)
(* server stopped, after the call began, or its configuration cannot be    *)
(* built.                                                                  *)
LostClientMeansChange ==
  \A u \in Calls : OnClient(u) /\ ~clients[calls[u].client].open =>
    calls[u].since # updates \/ stopped \/ calls[u].want \in Unbuildable

(* A client opened while its provider was the current one is never lost:   *)
(* it is in that provider's _http, and when the provider is no longer      *)
(* current an aclose is on its way.                                        *)
NoClientLeft ==
  \A c \in DOMAIN clients : clients[c].open /\ ~clients[c].late =>
    /\ http[clients[c].owner] = c
    /\ Current(clients[c].owner) \/ Closing(clients[c].owner)

(* The inductive invariant behind these properties.  Only the current      *)
(* provider has never been sent to be closed, and a call since which       *)
(* nothing was saved is on the current provider.                           *)
PointersInv ==
  /\ \A i \in DOMAIN http : http[i] # 0 => clients[http[i]].owner = i
  /\ \A c \in DOMAIN clients : clients[c].owner \in DOMAIN built
  /\ \A k \in closers : k.inst \in DOMAIN built /\ k.id \in 1..scheduled
  /\ \A u \in Calls :
       /\ Active(u) => calls[u].inst \in DOMAIN built
       /\ OnClient(u) => /\ calls[u].client \in DOMAIN clients
                         /\ clients[calls[u].client].owner = calls[u].inst

CurrentInv ==
  /\ \A k \in closers : ~Current(k.inst)
  /\ config \notin Unbuildable \cup {NoConfig} => cached # 0
  /\ cached # 0 /\ config \notin Unbuildable => config = built[cached]
  /\ \A i \in DOMAIN built : built[i] \notin Unbuildable

(* Of the clients of a provider, the one an aclose has found is closed and *)
(* any other was opened late.                                              *)
ClosersInv ==
  \A k \in closers, c \in DOMAIN clients :
    k.client # 0 /\ clients[c].owner = k.inst /\ clients[c].open => clients[c].late

CallsInv ==
  \A u \in Calls : Active(u) =>
    /\ calls[u].since <= updates
    /\ calls[u].since = updates /\ ~stopped =>
         /\ calls[u].want = saved
         /\ calls[u].want \notin Unbuildable =>
              /\ Current(calls[u].inst)
              /\ OnClient(u) => clients[calls[u].client].open

IInv ==
  /\ TypeOK /\ PointersInv /\ CurrentInv /\ ClosersInv /\ CallsInv
  /\ ServesSaved /\ NoClientLeft

-----------------------------------------------------------------------------
(* What the repository's documents say and the code does not do            *)

(* docs/superpowers/specs/2026-05-26-phase-2-reliability-remediation-      *)
(* design.md:124 "saving provider, model, and optional api_key affects     *)
(* subsequent analyze calls immediately": none of them is answered by a    *)
(* provider of the configuration before.                                   *)
SavedIsUsed ==
  \A u \in Calls : Active(u) => built[calls[u].inst] = calls[u].want
=============================================================================
