# Formal models of Burp Copilot

Burp Copilot analyses HTTP messages with a language model. A FastAPI backend
(`src/backend`) redacts and stores requests, calls the provider and keeps a
batch queue; a Burp extension (`src/burp-extension`) and a React page
(`src/frontend`) are its clients. This directory holds TLA+ models of the parts
with state, the TLC configurations that check them, and TLAPS proofs.

## 1. The system

| Component | State | Operations | Interacts with |
|---|---|---|---|
| Batch queue: `services/task_store.py`, `services/task_worker.py`, batch endpoints and `lifespan` of `main.py` | table `task_queue`; polling task `_run`, wake event, semaphore, `_process` coroutines | submit, cancel, list; poll, claim, analyse, settle; recovery, start, stop | history store, provider cache, both clients |
| History store: `services/history_store.py` | tables `analysis_history`, `endpoints` | `save` (one transaction), filtered `list`, `get`, `list_endpoints`, migration | queue, interactive analysis, statistics, fingerprints |
| Statistics, fingerprint, endpoint inventory: `services/*.py` | none (they read history) | aggregate, rank, profile a host | history, page |
| Database: `core/database.py` | one SQLite connection, autocommit | statements, `transaction`, `close` | all stores |
| Settings and provider cache: `services/settings_store.py`, `_resolve_provider` in `main.py`, `llm/provider_registry.py` | `settings.json`; `_provider_cache`; the HTTP client of each provider | update, read, resolve (build, schedule `aclose` of the old instance) | every caller of a provider |
| Providers: `llm/openai_provider.py`, `llm/ollama_provider.py` | lazily built HTTP client | `analyze` and `analyze_stream` with retries, `repair_json`, `health_check`, `aclose` | cache, analysis, worker |
| Interactive analysis: `services/analysis_service.py`, `/analyze`, `/analyze/stream`; `services/roadmap_service.py`, `/recon/roadmap` | a generator per request | status, content, parse or repair, save, result; client disconnect | provider, history |
| Result parser: `llm/result_parser.py` | none | extract and validate JSON | analysis, worker |
| Message intake: `core/input_guard.py`, `HttpMessageFilter` (Java) | none | omit bodies, truncate, record it | extension, analysis, worker |
| Redaction and prompts: `core/redaction.py`, `services/prompt_builder.py` | none | replace, word | analysis, worker |
| Task feed: `/batch/tasks/stream` | last snapshot per client | poll and push | queue, page |
| Extension automation: `AutoAnalysisEngine`, `TaskPoller`, `SubmissionRateLimiter`, `HighlightManager`, `AutoAnalysisProxyListener` (Java) | pending map, token count, deduplication set, colours | submit, poll, highlight; start, stop | batch endpoints |
| Extension panel: `Extension.java` with the event-stream reader of `BackendClient` | text area, cancel button, current worker; the threads of all workers | start, cancel, publish, display | `/analyze/stream` |
| Scope rules: `ScopeRuleStore`, `ScopeRuleMatcher` (Java) | rule list, persisted | add, remove, match | automation |
| Page: `App.tsx`, `Dashboard.tsx`, `api/client.ts` | history, tasks, selected host, settings | load, stream, cancel, switch | backend |

### What is hard

* Everything in the backend shares one event loop: code between two awaits is
  atomic for the other coroutines and not at all for a kill of the process.
* The queue spawns a coroutine for a row again at every poll for as long as the
  row is queued, so duplicates meet at `mark_running`.
* A finished task is written by two commits (`history_store.save`, `mark_done`),
  a saved analysis by two INSERTs in one transaction.
* A cancellation may arrive during the provider call, and must survive the
  restart that requeues the task.
* Failures of the database have no handler in the polling loop, and only half a
  handler in the coroutines.
* The provider cache records the configuration before it has built the provider,
  and closes the old provider while requests may still be using it.
* A streamed answer may break off and be asked for again, with the first part
  already yielded, and its client may leave between any two chunks.
* The list of analyses grows and is reordered by the clock under a client that
  reads it page by page; statistics join two tables with limits of their own.
* The same message filter exists twice, in Java and in Python, and one runs on
  the output of the other.
* The extension's engine and poller share a map between threads; its panel
  shows, on the event dispatch thread, what the threads of several requests say.

## 2. Modules

| Module | Models | State against the code |
|---|---|---|
| `BatchQueue` | the promise of the queue to its clients: the life cycle of tasks and what an accepted cancellation is worth | `status` is what `GET /batch/tasks/{id}` answers, `wanted` the accepted in-flight cancellations |
| `TaskWorker` | the queue itself: `task_store.py`, `task_worker.py`, the batch handlers and `lifespan` of `main.py`, `HistoryStore.save` | `row` is the table `task_queue`, `history` the rows the worker adds to `analysis_history`; `loop`, `wake`, `backedOff` are `_run`, `_wake_event` and `_current_interval > poll_interval`; `waiting` are the coroutines before the semaphore, `jobs` those past it; `attempts` and `before` only count provider calls, in all and up to the latest start |
| `ProviderCache` | `settings_store.py`, `_resolve_provider`, `build_provider`, the shared HTTP client of both providers | `saved` is `settings.json`; `config` and `cached` are `_provider_cache`; `built`, `http` are the provider objects and their `_http`; `closers` the `aclose` coroutines; `calls` the coroutines that use a provider |
| `AnalysisStream` | `analysis_service.py`, the streaming half of the providers, the analysis endpoints, the synthesis of `roadmap_service.py` | `call[r]` holds the local variables of the generator of request `r` (`collected` is `content`, `attempt` the loop of `_chat_stream`), `history` the rows it saved |
| `ResultParser` | `result_parser.py`, extended by `AnalysisStream` | none |
| `MessageIntake` | `HttpMessageFilter.prepare` and `guard_payload`, one behind the other | `message` is the payload with its metadata, `capture` the message before either |
| `History` | `history_store.py` with `endpoint_inventory.py`, `statistics_service.py`, `fingerprint_service.py` | `rows` and `endpoints` are the tables, `txn` the open transaction, `pager` a client that turns pages |
| `AutoAnalysis` | `AutoAnalysisEngine` and `TaskPoller` in front of the queue; instantiates `BatchQueue` | `stage`, `reply` are the jobs of the executor; `pending` is `TaskPoller.pending`; `round` and `answer` are where `pollOnce` stands; `shown` what `HighlightSink.apply` was given |
| `RateLimiter` | `SubmissionRateLimiter` | `tokens` (in parts of which `Second` are a token), `lastRefill`; `granted` and `before` record what `tryAcquire` answered |
| `StreamPanel` | the panel of `Extension.java` and `BackendClient.analyzeStream` | `area`, `cancellable`, `active` are `resultArea`, the cancel button and `activeWorker`; `work[r]` the `SwingWorker` of a request; `batch` and `edt` what waits for the event dispatch thread, `running` what it has taken of a batch and not run yet |
| `MC...` | the instances TLC checks | |
| `...Proofs` | theorems about eight of the modules | |

`TaskWorker` implements `BatchQueue` and `AutoAnalysis` is a client of it, so the
safety that holds of the automation in front of the promise holds in front of the
worker. The rate limiter stands before the automation: a message it turns away
is one that is never captured. What `MessageIntake` leaves of a message is what a
task or a request of `AnalysisStream` carries; the rows `AnalysisStream` and
`TaskWorker` save are what `History` reads.

### `TaskWorker`

Each action is the code between two awaits, or one SQL statement where a kill
can come between two of them:

* `Start`, `Stop`, `StopReturns`, `Exit`, `Crash`: `lifespan` with
  `TaskWorker.start` (recovery included) and `stop`, and a kill. A kill leaves
  the disk and takes everything else.
* `Submit`, `SubmitFails`, `Cancel`: `batch_submit` (whole, or broken off by an
  INSERT that raises) and `cancel_task`. The answers 404, 409 and 422 change
  nothing and are left out.
* `Poll`, `PollFails`: one iteration of `_run` from the fetch to the wait. The
  wait may end at any time (its timeout), so `Poll` is always possible.
* `Claim`, `Drop`, `ClaimFails`: the head of the semaphore's FIFO enters, and
  `mark_running` succeeds, finds the row taken, or raises.
* `Repair`, `FinishCancelled`, `SaveHistory`, `MarkDone`, `JobFails`,
  `MarkDoneFails`, `JobDies`: the rest of `_process`. Between `SaveHistory` and
  `MarkDone` there is no await, so no other coroutine moves (`LoopFree`), but
  `Crash` may.

Abstracted: the payload of a task (it never changes after the INSERT, so the
number of the task stands for it), the text of an analysis (only whether it
parsed), the length of the polling interval (only whether it is the long one),
the time stamps (tasks are numbered by `created_at`). A database statement that
raises is a choice, bounded by `MaxDbErrors`.

### `ProviderCache`

Code without an await is one step: `Update` is a whole `update_provider`;
`Reuse`, `Rebuild` and `RebuildFails` are `_resolve_provider`, the last with the
configuration recorded and the old provider sent to be closed before
`build_provider` raises. A call then opens or finds its provider's client
(`Send`, `Repair` through `_get_http`; `Retry` with the client it has), and may
end at any await (`Finish`, `RetryFails`). `aclose` has one await, between
closing the client and forgetting it (`CloseBegins`, `CloseEnds`). `Shutdown` is
the end of `lifespan`, behind which coroutines of the worker may still call.

Abstracted: a configuration is one value, some of them refused by
`build_provider`; an answer is whether it parses. Timeouts have no length.

### `AnalysisStream` and `ResultParser`

`Begin` to `Deliver` are `analyze_with_progress` (and, for a roadmap, `build` and
`_synthesize`) cut at each await and yield: the status events, an attempt of the
provider (`Connect`), each chunk that is collected and yielded (`Chunk`), the end
of the stream, which a connection closed early looks like too (`StreamEnds`), a
failure that is retried or not (`Retry`, `ProviderFails`), `Parse`, the repair
call, `Save` and its failure. `Leaves` is the client of a stream that disconnects:
the generator is closed at the await or yield where it stands, and none of its
handlers runs. From the last await to the status after the save there is none,
which is why `Leaves` is not possible while `saving`.

A text is a sequence of the tokens the parser tells apart. `ExtractJsonObject` is
`_extract_json_object`: fenced blocks paired by position, the first with a brace
in it, then from the first brace to the one that balances it, braces in strings
included. `json.loads` and the schema are the set of object texts they accept;
`ObjectsAssumption` says of these what JSON says of an object, that it ends where
the brace it begins with is closed (`Nesting`). A piece of an answer that ends
inside a string is not told apart from one that ends between two tokens.

Abstracted: prompts, wording of results, the length of pauses.

### `MessageIntake`

`Prepare` is `HttpMessageFilter.prepare`, `Guard` is `guard_payload`; a message of
the extension passes both, one of another client the second alone. The differences
of the two are kept: which URLs are static (`StaticForJava`, `StaticForPython`:
Java knows two more extensions and decodes the path, Python ends the path before
its `;parameters`), what is left of a static response, whether a note follows an
empty body. Truncation is arithmetic on lengths, with the marker as so many
characters of its own. A text has empty lines of two kinds, and both programs
split it at the first CR LF CR LF anywhere, only without one at the first LF LF.
The automation's `onProxyResponse` uses the same filter, and sends nothing that
it calls static.

Two differences of the filters show in the properties, as exceptions they name.
The response to `/app.js;v=1` passes the extension and is emptied by the guard. And
a text whose head ends with LF LF and whose body holds a CR LF CR LF
(`MixesLineEnds`) has its body behind the latter only: control characters before
it pass both filters, unless the extension cuts the CR LF CR LF away, when the
guard finds them.

Abstracted: characters to five kinds; the note and the marker to their lengths.
Java counts UTF-16 units and Python code points, here a character is one of
either. A URL without a path, for which the first line of the request is
consulted, is one of the four kinds of URL like any other. A client of its own
claims no cuts in the metadata it sends.

### `History`

`InsertRow`, `InsertEndpoint` and `Commit` are `save`, statement by statement;
`Rollback` a statement that raises, `Crash` a kill at any point. `Init` may hold
rows of an older version, which `Start` leaves with a `top_severity` of NULL.
`OpenList` and `NextPage` are a client of the list. `Statistics`,
`PriorityScore`, `RecentFindings`, `Profile` are what the services compute, each
with the limit it reads with.

Abstracted: what patterns find in a message is part of the message; the filters
by mode and until are left out, being of the same form as host and since; the
list of the attack surface is not cut to its first entries, nor the categories
to five.

### `AutoAnalysis`

`Capture` is `onProxyResponse` or `scanSiteMap` handing a message over; `Send`,
`Deliver`, `PostFails`, `Track` are `submit` on one of the executor's threads,
with the request on the wire between them: it may fail before or after the
backend stored the task, and `HttpURLConnection` may send it twice. The poller is
`PollStarts`, `GetTask`, `FetchFails`, `Unresolved`, `Forget`, `Highlight`,
`PollEnds`; entries tracked meanwhile may join the round, as the iterator of a
`ConcurrentHashMap` allows. `StopPoller` and `StopExecutor` are `stop`: neither
waits for what is under way, so a task may be tracked after the map was cleared,
and an entry the poller has in hand is still resolved. The backend moves as
`BatchQueue` allows.

Abstracted: the executor's first-in-first-out order, colours and notes (what was
shown is the final status they are made from), the session counter.

### `StreamPanel`

`Start` is `runStreamInBackground` or `runInBackground` (a connection test),
`cancelActiveWorker` included; `Cancel` the button; `Note` a text that belongs to
no request. The thread of a request is `Begin`, `Read`, `NoticesInterrupt`,
`Publish`, `Breaks`, `Throws`, `EndOfStream`, `Completes`: the interrupt of
`cancel(true)` closes nothing and is noticed only after the next line has been
read. `SwingWorker` delivers what was published by all workers in one batch:
`TimerFires` announces it, `TakeBatch` takes it, and `Process` and `Done` are its
runnables, run one after the other (`running`) while the threads go on and no
click is handled (`Idle`). `SetText` is an event of `setResult`. The order matters
because content is appended at once while every other text is posted, and because
`done` of a cancelled worker runs inside `cancel`, that of any other in the batch.
That the result is the last event of a stream is what `analysis_service.py` sends.

Abstracted: the label with statuses and seconds, the ten threads of the pool.

## 3. Runs

| Run | Question | Bounds |
|---|---|---|
| `queue` | with more tasks than permits, duplicates in the FIFO and a graceful restart: one coroutine per row, no oversleeping, oldest first, history agrees with the queue | 3 tasks, 2 permits, 2 items per submission, 2 starts, FIFO of 4 |
| `faults` | one kill anywhere and one failing statement anywhere: runs per life, history of done tasks, cancellation, the inductive invariant, `TaskWorker` implements `BatchQueue`, every task settles while the server stays up | 2 tasks, 1 permit, 2 starts, 1 kill, 1 database error, FIFO of 3 |
| `provider` | calls are answered by the provider of the saved settings, no client is closed under a call whose settings stand, no client of a replaced provider is left open | 2 callers, 1 save, 2 attempts, one configuration that cannot be built |
| `stream` | the history holds what was delivered, an accepted analysis is of one attempt unless a later one closes its object, a good answer is not paid for twice, every request ends | 1 request of each kind, 2 attempts, 7 answers |
| `intake` | what goes into a prompt fits, holds nothing binary, and its changes are explained; the second filter leaves alone what the first let pass | limit 6, marker 2, note 1; texts of 1 to 10 characters with either or both empty lines, 4 kinds of URL |
| `history` | the tables agree, filters and pages tell the truth, the dashboard adds up, scores and profiles do not fall as traffic is added | 3 rows of 5 kinds, 2 times, 2 hosts; lists of 2, pages of 1 |
| `rate` | every stretch of time grants at most a full bucket and its refills | a bucket of 3, 2 ticks a second, 8 ticks |
| `auto` | every tracked task is resolved, its message annotated once and with the truth | 2 messages, 2 tasks, 2 threads |
| `panel` | a request on its own is shown as it went and can be cancelled, a cancelled one falls silent | 2 requests, answers of 1 and 3 chunks |
| `doc_*` | three sentences of documents and tests that the code does not keep (section 5) | the smallest instance that shows each |

Why these bounds are enough to be worth running: two tasks and one permit are
the least with a duplicate in the FIFO behind a running task; three tasks and
two permits add rows left behind by `LIMIT` and two coroutines that finish in
either order; two starts are the least with a recovery; a FIFO of 3 or 4 lets a
row be spawned twice and more. Two callers and one save are the least with a
provider replaced, or a replacement that fails, under a call; the second attempt
is the one that meets a closed client. Requests of `AnalysisStream` share only
the history, where each has rows of its own, so one is enough; two attempts are
the least with part of an answer before another, and the answers are those the
parser's tests try and those that mislead it: a draft before the analysis, and a
rest that closes the object in which an earlier attempt broke off. A limit of 6
with a marker of 2 puts each text, both, and the rest left for the response below,
at and above the limit and the marker; some texts mix their line ends, and lose
the empty line that counts when they are cut. Lists of two and pages of one make
every limit bite with three rows. A bucket of 3 and 4 seconds let bursts, idle times longer than a
refill and fractions of a token occur. Two messages and two tasks give a round
over two entries, of which one fails; the two tasks may also be of one message.
Two requests are what it takes for one to disturb the other, and an answer of
three chunks goes on after a cancellation for longer than the bound allows. The
instance of `panel` is symmetric in its requests. What of this is proved for all
values is in section 4.

`CHECK_DEADLOCK FALSE` stands where the server may stop, the extension be
unloaded, a message have arrived or the user do nothing more; the rate limiter
is checked for deadlock.

Fairness (`faults`): `Poll`, `Claim` and `Drop` are weakly fair, because the event
loop runs every ready coroutine, the wait of `_run` has a timeout and the
semaphore is FIFO; for each task, finishing is weakly fair, because provider
calls have a timeout and their failure is an outcome like another. Nothing obliges
a user to submit or cancel, nor an operator to start or stop the server, and no
fault is ever obliged to happen or not to. `EverythingSettles` speaks of the time
the server stays up, and gives up at a failing statement, since the loop does not
survive one.

Fairness (`stream`): `Step` of each request is weakly fair, because every await
has a timeout (120 seconds between two lines of a stream), attempts are counted,
and the client of a stream reads it or leaves. No client is obliged to leave.

Fairness (`auto`): the poller's thread is scheduled and its requests time out, so
a round goes on and ends (weak fairness); of requests that are repeated in every
round some are answered (strong fairness of `GetTask` and `Highlight` for each
task). Nothing obliges a submission to be captured or to succeed, nor a task to
settle; `Resolved` speaks of settled tasks, and of the time before the extension
is unloaded.

`panel` states no liveness: the extension reads its stream without a timeout, so
nothing in the code obliges a request there to end.

## 4. Proofs

`TaskWorkerProofs` proves, from `ConstantsAssumption` alone (bounds are naturals,
at least one permit), for every number of tasks, permits, restarts, kills and
failing statements:

* `TypeCorrect`: the types, with no more coroutines than permits.
* `Invariance`: `IInv` is inductive. `OneJobPerRow` alone is not: to know that a
  claimed row has no owner yet one needs that owners' rows are running, that no
  coroutine survives its process (else recovery would requeue an owned row), and
  for `OneRunPerLife` that a queued row of a live server has not been tried since
  the last start (`attempts` is still what `before` remembers of it).
  `DoneIsInHistory` needs that a coroutine about to mark its task
  done has left its row in the history. `CancelIsFinal` needs that an acknowledged
  cancellation stays readable in the row (`AcksInv`) and that a coroutine that has
  already saved its result is not flagged.
* `OneJobPerRowHolds`, `OneRunPerLifeHolds`, `DoneIsInHistoryHolds`,
  `CancelIsFinalHolds`, `HistoryIsOfDoneTasksHolds`: the consequences.
* `NoLazySleepHolds`: the loop never sleeps its long interval over a task it
  could have taken. The steps split into those that wake the loop and those that
  queue nothing (`JobStepQueuesNothing`, `NextAwake`).
* `OldestStartsFirstHolds`, by `OrderInv`: before the first failure of a statement
  a queued row that waits in the FIFO has all older queued rows before it. This
  needs that rows come into being in the order of their numbers, that only
  existing rows have coroutines, and that no coroutine outlives the process. A
  poll appends the oldest queued rows in their order (`PollKeepsOrder`); duplicates
  do no harm, as only the first place of a row counts.
* `Refinement`: `Spec => ImplementsPromise`. Recovery is `Requeue`, a claim is
  `Begin`, the endings of a coroutine are `Settle`; the rest stutters.

`ProviderCacheProofs`, for any configurations, callers and saves:

* `Invariance`: `IInv` is inductive. Besides pointers and the state of the cache
  it needs `ClosersInv`: of the clients of a provider that is being closed, the
  one its `aclose` has found is shut, and any other was opened after that. Without
  it the end of an `aclose`, which forgets whatever client there is, could lose
  one that `NoClientLeft` counts on.
* `ServesSavedHolds`, `NoClientLeftHolds`, `LostClientHolds`: the consequences. A
  call remembers what was saved and how many saves there had been (`since`): that
  nothing was saved since it began cannot be told from the configuration, which a
  later save may have brought back.

`AnalysisStreamProofs`, from `StreamAssumption` (at least one attempt, answers are
sequences of tokens) and `ObjectsAssumption` (what JSON says of an object):

* `TypeCorrect`. For the types of what is parsed it is proved that the parser's
  search ends inside its text for every text (`BodyInText`, `SpanInText`), and
  that each token collected has an attempt it came from.
* `RowsMatchHolds`: `Invariance` is `RowsMatchResults` request by request, with
  the fact that whatever is about to be saved has a status.
* `GoodAnswerIsUsedHolds`, for any answers and any objects that begin with a
  brace: what the prompt asks for (`AsAsked`: an object, text around it, at most
  one fence) is what the search finds, by the way the fenced blocks are paired;
  and nothing is repaired that parses (`RepairInv`).
* `OneAnswersObjectHolds`: the pieces of a broken attempt stay collected before
  those of the next and are parsed with them as one text, and nothing in the code
  tells the attempts apart. Two halves that fit together are therefore accepted as
  one analysis, and so is a draft object behind which a stream ended early. What
  does hold, for any answers: an accepted analysis is a piece of the answer in
  which it begins, token for token, or an answer behind that one closes a brace
  it has not opened itself (`ClosesItsOwn`). An attempt whose answer closes no more
  than it opens can thus never become the end of another's object. The invariant
  (`TracedInv`) gives each token collected its place in the answer it came from.
  The proof counts braces: over the tokens of
  an answer that closes its own, what was open stays open, so the object cannot
  end there.

`MessageIntakeProofs`, from `IntakeAssumption` (the marker fits into the limit),
for every limit and all texts: `TypeCorrect`, `Fits`, `Legible`, `Explained`,
`Stable` for `TypeOK`, `WithinLimit`, `NothingBinary`, `ChangesAreExplained` and
`GuardIsStable`. The lemmas say what a cut and a note do to a text; the invariant
says, for a message that was sent, which branch of the first filter it came
through, since the second filter's branch depends on it. `NothingBinary` does not
use the filters' own split: it speaks of control characters after any empty line
(`ControlInBody`), and the lemma `SameControls` shows the filters' test to agree
with it in every text that does not mix its line ends. `ChangesAreExplained` is
about flags of messages cut to size; the flags of a message that the guard then
calls static or binary are those of the extension.

`HistoryProofs`, from `HistoryAssumption`, for any analyses, hosts and limits:

* `EveryRequestLineListedHolds`, by `Invariance`: what a transaction commits is a
  row of this version, listed if and only if both INSERTs were made.
* `SeverityFilterHolds`: the worst of some findings is one of them
  (`TopSeverityIsWorst`), and no step changes a row.
* `PagesSkipNothingHolds`: a client that reads by offset misses nothing it could
  have seen at its first page. The invariant (`PagerInv`) says that what is due
  and not read yet stands at or behind the offset in the present order, so that
  a new row, wherever the clock puts it, only moves it to a later place; a page
  that is not full is the last because places have no holes (`PlacesAreTaken`).
* `DashboardAddsUpHolds`: the findings of a list of analyses are finitely many,
  those of a severity are counted once each, and each finding has one request line
  at most; `Groups` are keyed by what makes two request lines the same, so they
  do not meet.
* `PriorityNeverFallsHolds` and `ProfileNeverFadesHolds`: a save adds to each of
  the sets that a score or a profile counts, as long as what is read fits into its
  list, and each part of the score grows with its set. For counting, the marks of
  a message (parameters, hints of authentication, of a technology) are assumed to
  be finitely many.

`AutoAnalysisProofs`, from `ConstantsDiffer` (the null values are none of the
messages and tasks, there is a thread), for any number of messages, tasks and
threads and any failures:

* `AutoInvariance`: `IInv` is inductive. That a message is annotated once does not
  follow from the map alone: the poller also holds entries in its round and in
  its hand after the map was cleared, and a message may have two tasks. The
  invariant says that all of what it holds, and all that was shown, was tracked
  as the answer to its own message, that it holds nothing it has shown, and that
  a final status it has read is still the task's status.
* `NothingForgottenHolds`, `ShownOnceHolds`, `VerdictHolds`: the consequences.

`RateLimiterProofs`, from `RateAssumption` (capacity and ticks are positive):

* `TypeCorrect`, and `BudgetHolds`: `Budget` couples what was granted since any
  moment with what is left in the bucket. `WindowBound` alone is not inductive,
  as it does not speak of the tokens.
* `WindowBoundHolds`: the bound on every stretch of time.

`StreamPanelProofs`, from `PanelAssumption` (no request is the null value, a
result is the last event of its stream), for any requests and answers:

* `SilentHolds`. The invariant couples what a thread has said with what it has
  read: one that reads has said all of it, one that holds an event all but that;
  so a connection test, which is not interrupted, has nothing more than its one
  answer to say.

* `UndisturbedIsServedHolds`, by `ServedInv`. What stands in the text area while
  events and runnables wait says little; the invariant says what will stand there.
  If all that was taken of a request's chunks is content, it stands after the
  loading text, or nothing was taken and the loading text is still posted; if not,
  the last chunk taken is the last text posted, or stands alone (`FinalIs`,
  `AsTaken`). The loading text is only ever first in the queue of events, and
  never there while a batch runs, or an answer's first piece could be replaced by
  it. Chunks not taken yet have a `process` waiting, a failure its `done`. That
  content comes before what replaces it is where it matters that the result is
  the last event of a stream.

Only model-checked: `EverythingSettles`, `EveryRequestEnds` and `Resolved`, since
liveness under fairness is out of the prover's reach. All other properties of the
runs that are to hold are proved. Nothing is proved by induction over data, and no
theorem uses a RECURSIVE operator.

## 5. Where documents and code disagree

Shown by a run:

* `docs/phase6-batch-queue-design.md:149`: cancelled tasks are not in the
  history. A kill between the two commits, recovery, then a cancellation, and
  one is (`doc_cancelled_history`).
* `docs/superpowers/specs/2026-05-26-phase-2-reliability-remediation-design.md:124`:
  saved settings affect subsequent calls immediately. After a save that cannot be
  built, the first call fails and the second is answered by the old provider
  (`doc_saved_is_used`).
* `backend/tests/test_input_guard.py:20`: an oversized payload is truncated and
  marked. A request the extension has cut to exactly the limit, with a response
  of which only the marker is left, is found too large again by the backend,
  which records that the request was not truncated (`doc_truncation_recorded`).

Found in reading, without a run:

* `docs/phase6-batch-queue-design.md:16`: the flag is checked before the provider
  call. It is read only after it; a recovered task with the flag set is sent to
  the provider.
* `docs/phase6-batch-queue-design.md:41`: shutdown drains or cancels in-flight
  tasks. `stop()` waits for the polling loop only.
* `docs/phase6-batch-queue-design.md:123`: a provider error or parse failure
  makes a task failed. It makes it done, with a placeholder analysis.
* `docs/phase6-batch-queue-design.md:179`: `min_severity` filters by the worst
  finding; rows migrated from an older version (`history_store.py:208`) keep NULL
  and are found by no such filter. Line 180: `target_host` is a prefix match. It
  matches anywhere in the URL. Line 181: `since` is a time. It is compared as
  text.
* `task_worker.py:72`: `is_running` is true while the loop is active. It is true
  also when the loop has died.
* `llm/base.py:32`: `aclose` releases the resources of the provider. A client
  opened while it awaits is forgotten open.
* `docs/streaming-llm-output-ecc8fc.md:56`: the cancel button closes the HTTP
  connection. `cancel(true)` interrupts the thread, which notices after the next
  line; what it says then replaces the text of the request started meanwhile, its
  result included. `done` of a worker that has just completed disables the cancel
  button of the next one. `UndisturbedIsServed` holds of requests that nothing
  else was under way with, and of no others.
* `docs/streaming-llm-output-ecc8fc.md:20`: the full text is collected and
  parsed. After a retry it is the text of both attempts (`GoodAnswerIsUsed` makes
  that exception).
* `docs/ollama-setup.md:50`: 120 seconds for an answer. The client opened by a
  connection test has 10, and later analyses use it.
* `backend/tests/test_input_guard.py:35`: a body with control characters is omitted.
  Not if its head ends with LF LF and a CR LF CR LF follows (section 2,
  `MessageIntake`); `NothingBinary` makes that exception.
* `README.md:16`: the automation is limited to ten submissions a second. A full
  bucket may be spent at once and is refilled meanwhile, so nearly twice as many
  fall into a second; `WindowBound` is the bound that holds.

## 6. Not modelled

* Redaction, prompts, layout and wording: regular expressions and text without
  state.
* The Pydantic and JSON schemas beyond what changes control flow; CORS and the
  token check (a stateless guard on every handler); translations.
* The task feed and the page: what they hold is a copy of what the backend
  answered last. Their hazards (the feed's loop at shutdown, answers applied in
  the order they arrive) are listed in `PROJECT.json` without a property.
* Scope rules, the choice of a colour, the scanner for keys in the extension's
  response parser, the session counter: pure functions and preferences.
* Lengths of time: timeouts, pauses and intervals only have an order.

## 7. What could follow

1. `TaskFeed`: `/batch/tasks/stream`, the page's lists and selections, shutdown.
   Properties: the page converges to the queue while the feed lives; shutdown
   ends when the clients leave.
2. Glob scope rules against a reference matcher, and the encoding of the stored
   rule list.
3. One theorem across `AutoAnalysis` and `TaskWorker`: that a verdict shown in
   the extension is the status of the row, through restarts of the backend.
