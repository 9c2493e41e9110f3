# Formal models of reading-lite

TLA+ models of `reading-lite` (a Go backend and a browser client, under `src/`),
the TLC runs that check them on small instances, and TLAPS proofs of the
properties that carry the dispatcher, the processing of a reading, the stores and
the browser's view.
All paths below are relative to the repository.

`reading-lite` keeps a list of things to read.  A request stores a reading and
hands its id to an in-process dispatcher; a worker then runs the pipeline
(fetch, extract, index, summarize, tag, notify) and writes the result to a
relational store, a blob store and a vector index.  There is one process and
no distributed lock: everything that can go wrong comes from goroutines,
timers, store writes that overlap, and crashes.

## 1. Inventory

| Part | Source | State it keeps | Operations | Hard behaviour |
|---|---|---|---|---|
| Dispatcher | `internal/dispatch/dispatcher.go`, `delayer.go` | `inflight` claims with tokens, the bounded channel, run contexts, re-dispatch timers | `Submit`, `ForceSubmitAfter`, `Run`/`handle`, `redispatch`, `Sweep` | claims replaced under a live run, full channel, stale handlers, crash and sweep |
| Retry policy | `internal/dispatch/dispatch.go` | none | `Classify`, `decide`, `backoff` | end of the budget, precedence of error markers |
| Pipeline | `internal/pipeline/pipeline.go` | none of its own; writes store, blobs, vectors | `Process`: acquire or reuse, index, checkpoint, vector upsert, summarize, persist, notify | a run that was replaced keeps writing; a crash between two of its writes |
| Reading operations | `internal/readingops/service.go` | none of its own | `IngestURL`, `ImportMarkdown`, `ImportBookmarks`, `Reprocess` | check-then-write sequences that overlap with each other and with runs |
| Reading store | `internal/store/{store,memory,postgres}.go`, `query.sql` | the readings table and tags | `SaveReading`, `UpdateStatus`, `UpdateContent`, `UpdateImport`, `Reprocess`, `ReplaceTags`, `Search`, `ListNonTerminal`, `Delete` | the `ExpectedStartedAt` fence, `url_key` uniqueness, keyset pagination |
| Manual batches | the same files, `migrations/0002` | batches and batch items | `CreatePlannedBatch`, `SubmitBatch`, `UpdateBatchState`, `WriteBatchItemResult`, `MarkBatchItemApplied` | one active item per reading, results out of order or twice |
| Vector index | `internal/vector` , `migrations/0003` | one vector per reading with the generation that wrote it | `Upsert`, `Query`, `Delete` | late upserts of older generations |
| Blob store | `internal/blobs` | objects by key | `Put`, `Get`, `Delete` | orphaned or dangling keys |
| Runtime | `internal/readerapi/runtime.go` | the life of the process | start, sweep, serve, shut down, drain | signals in every phase |
| HTTP API | `internal/httpapi/server.go` | none | decode, authorise, call the reading operations, encode and decode cursors | none of its own |
| Command line | `internal/readerctl` | none | `drop`, `audit`, `recover`, imports | several stores read and written one after another beside live requests and runs |
| Source and model adapters | `internal/{fetch,httpx,extract,summarize,embed,notify}` | none | one external call each | only their error kinds matter to the rest |
| URL keys | `internal/reading/url.go` | none | canonical key of a URL, kind of its source | spellings of one page |
| Web client | `web/src` | view state, request numbers, requests in flight | list, load more, refresh, submit, detail, content, download, reprocess | late, shared and overtaken answers |

How they interact: HTTP handlers call the reading operations in their own
goroutine; these write the store and call the dispatcher.  Workers take items
from the channel, write `running`, call the pipeline, and write the outcome.
The dispatcher knows a run only by the error it returns; the pipeline knows
the dispatcher only by its context and by the `started_at` it finds in the row.
On start the runtime sweeps: pending rows, and running rows older than
`RunningTTL`, go back into the channel before the server listens.

What makes each part correct:

* Dispatcher: at most one live run per reading, a claim that always leads to an
  outcome, no pending row without work, a retry budget that holds across
  restarts, forced recovery that nothing can block.
* Pipeline and store: a replaced run changes no content; a ready reading is
  complete; a pointer in a row never dangles; index and content agree.
* Reading operations: one reading per URL; a fresh run is not reset by a
  request; what a request accepted is run.
* Batches: an item is applied once and a reading is in one active batch.
* Search: a walk over the pages misses and repeats nothing that did not move.
* Web client: the view shows the answer to the last question.

## 2. Plan

Modules in the order they are written, most important behaviour first.

1. **`RetryPolicy`, `Dispatcher`** (done) with `MCDispatcher`, four
   configurations, and `DispatcherProofs`.
2. **`Lifecycle`** (done): what the dispatcher promises about one reading, and
   **`DispatcherMap`**, the refinement mapping, which `MCDispatcher` extends.
   `DispatcherProofs` (done) proves that each step of `Dispatcher` maps to a
   step or a stutter.
3. **`Processing`** (done) with `MCProcessing`, three configurations: extends
   `Lifecycle` with the steps of the pipeline, the content fence, the vector
   generation and the blobs, for one reading; and **`ProcessingProofs`**,
   **`ProcessingSafety`** (done): types, fence, content, pointers, vector, statuses.
4. **`ManualBatch`**, **`PostgresBatch`** (done), the transactions that implement
   it, and **`PostgresBatchProofs`** (done), which proves that and what
   `ManualBatch` keeps.
5. **`UrlKey`**, **`ReadingOps`**, **`ReaderCtl`** (done) with `MCReadingOps`: the
   requests that create, replace and reset readings, and the commands beside
   them; and **`ReadingOpsProofs`** (done): keys, rows, bodies, the audit.
6. **`Search`** (done) with `MCSearch`: pages of a listing that changes; and
   **`SearchProofs`** (done): the walk, the order, the total, the two stores.
7. **`ReadingStore`** (done), what a store promises, and **`PostgresReadings`**
   (done) with `MCPostgresReadings`, the statements that implement it, which
   **`PostgresReadingsProofs`** (done) proves.
8. **`ClientList`**, **`WebClient`** (done) with `MCWebClient` and
   **`WebClientProofs`** (done): whose answers are shown, and from when.

## 3. The dispatcher

`Dispatcher.tla` is one process and its successors over one store.

| Variable | Code |
|---|---|
| `row` | status and `process_attempts` of every reading in the store |
| `inflight`, `nextToken` | `Dispatcher.inflight` with `claim{token, done, cancel}`, `Dispatcher.nextToken` |
| `ch` | the channel of capacity `Buffer` |
| `wpc`, `witem` | where each goroutine of `Run` is, and its item |
| `cancelled` | workers whose run context was cancelled by a force |
| `delayed` | items under a `Delayer` timer |
| `cpc`, `citem`, `cwait` | where each request goroutine is, its item, and the `done` channel it waits for |
| `phase`, `backlog` | sweep, serve, stopping, drain; what `ListNonTerminal` returned |
| `dropped` | history only: ids whose work was given up since the last claim |

The `done` channel of a claim is represented by the worker whose run closes it
(`NoRun` for nil, `Drained` once closed).  A worker moves through `recv` →
`got` → `begun` → `writing` → `handling` → (`finishing`) → `recv`.  Steps are
cut where another goroutine can observe a difference:

* every critical section of `inflightMu` is one step, except `finish`, which
  keeps the mutex across its store write and so is two (`FinishWrite`,
  `FinishRelease`), with `MuFree` guarding everybody else;
* `forceMu` is held from `ForceClaim` to `Enqueue`; `ForceMuFree` derives it
  from the callers' stages;
* the `running` write is entered in one step and lands in a later one, since a
  cancellation does not recall a statement already sent; any store write may
  report an error after it took effect.

The callers are the most general client: any request may reset any row and
submit or force it, at any time.  `ForceSubmit` and the `Inline` mode exist for
tests and are left out.  `Sweep` runs to its end before the server serves, as
`Run` in `runtime.go` orders it, so `Sweep` never meets an existing claim and
`ForceSubmitAfter`'s branch for a lost claim (dispatcher.go:210-212) cannot be
reached; the second is theorem `ForceOwns`.  The times a timer, a timeout or a
cutoff takes are left open: a timer may fire and a wait may time out at any
moment, and any running row may be overdue or not.

`RetryPolicy.tla` translates `Classify` and `decide`: errors are sets of the
markers `errors.Is`/`As` look for, so a wrapped error with several of them is
covered.

### Runs

| Run | Instance | Question |
|---|---|---|
| `dispatcher_claims` | 1 reading, 2 workers, 2 callers, channel of 1, budget 2, 4 tokens | does every claim have exactly one carrier of its work (`ClaimHasOneCarrier`); is a pending row ever forgotten (`PendingRowHasWork`); is a live run always the claim's run (`LiveRunOwnsClaim`); can a forced submit lose its claim (`ForceOwnsClaim`); does the budget hold across retries, forces and restarts (`AttemptBudget`); does the dispatcher implement `Lifecycle` (`ImplementsLifecycle`); `TypeOK` |
| `dispatcher_live` | 1 reading, 2 workers, 1 caller, budget 2, 3 tokens, handlers that may never return | does a forced submit always end (`ForceNeverWedges`); does every claim end when the handlers return (`ClaimRetires`) |
| `dispatcher_sweep` | 3 listed readings, 1 worker, channel of 1 | is everything the sweep lists handed to the handler (`BacklogIsRun`) |
| `dispatcher_stale_write` | 1 reading, 2 workers, 1 caller | *violated*: see section 12 |

Bounds.  `MaxToken` limits the claims of one process lifetime; it is the only
bound that is not in the code.  Three tokens are an original claim, the one
that replaces it, and the one that replaces that, or a fresh one after a
release; `dispatcher_claims` has four, so that two overlapping forces meet a claim
and a re-claim.  `Restart` resets it, so a run explores any number of
lifetimes.  A channel of one is full as soon as two items travel, which the items of
replaced claims do for one reading already; `dispatcher_sweep` has several.  Two
workers are needed for a stale run beside a live one, and a third would only add
a second stale run.  The safety properties are proved for any number of each.
The states at the token bound cannot deadlock, because a restart is always
possible; the fair runs, which are about one lifetime, have deadlock checking
off for that reason.

Symmetry over workers and callers (and readings) is used in the safety runs
only.

### Fairness

`SchedulerFairness` is what the Go scheduler, the timers and the store's own
timeouts give: a goroutine that can step does (weak fairness of each worker,
caller, timer); the blocked send of the sweep is strongly fair, because Go
hands the slot of a receive to a sender that already waits.
`HandlerFairness` says a handler returns, and not with a rate limit for ever
(a `Requeue` does not consume the budget, so a source that always rate-limits
keeps its claim indefinitely: the code means that).  It is strong fairness
because a stale run may occupy the worker in between.  `dispatcher_live` runs
under `HangingSpec`, which has the first only: `ForceNeverWedges` needs no more,
and `ClaimRetires` is an implication with `HandlerFairness` on its left.
`FairSpec`, with both, is that of `dispatcher_sweep`.  Liveness is checked within
one lifetime (`Lifetime`), from any store a crash can have left.

## 4. The abstract lifecycle

`Lifecycle.tla` says the same about one reading without claims, tokens,
channel, timers or mutexes: its work is `none`, `waiting` or `held` by one
live run; `Replace` (a force) makes the live run stale; `Redispatch` passes the
work on with the attempt `Decide` gives; a stale run may only end the write it
has begun.  `DispatcherMap.tla` maps `Dispatcher` to it for every reading:
`WorkOf` from the claim and the runs that own it, `NextOf` from the item that
travels, the stages from the workers that hold an item of the id.
`ImplementsLifecycle` is the conjunction of `L(id)!LifeSpec` over all ids
written as one box, the form in which TLC checks step simulation.  `Lifecycle`
is what the next modules build on instead of the whole dispatcher.

## 5. Processing

`Processing.tla` is one reading with its content.  It takes the dispatcher to
be `Lifecycle` and adds what a run does to the store, the blobs and the vector
index, and what the requests of `readingops` do to a reading that exists.

| Variable | Code |
|---|---|
| `row` (from `Lifecycle`), `started`, `kind` | `status`, `process_attempts`, `started_at`, `source_kind` of the row |
| `contentKey`, `rawKey` | `content_key`, `raw_key` |
| `summary`, `tags` | the row's summary and tags: which run wrote them, from which text |
| `blobs` | which text is stored under which key |
| `vector` | `vector.Memory`'s entry: the generation that wrote it and the text it embeds |
| `pipe` | the locals of `Process` of every run: where it is, the fence it loaded, keys, text |
| `clock` | the source of `started_at` values, which never repeat (0 is nil) |
| `request`, `imported`, `serving` | where each HTTP request is and what it has read; bodies stored by imports; whether the startup sweep is over |
| `outdated`, `undone` | history only |

A run is a sequence of calls.  Each takes the run's context, so a run that a
force replaced lands at most the call it was in when it was cancelled, and its
next call fails: `Proceed` sends it to `aborted` after the current one.  The
calls that only read or compute are folded into the next one that writes.
`Load` is `Process`'s `GetByID`: the fence of every later write is the
`started_at` it finds, which need not be the one the run's own `running` write
set.  `kind` distinguishes what the pipeline distinguishes: anything fetched
(`web`), a video, an imported markdown body, and `reddit`, which is refused.
`Returns` lists what `Process` may return from each place.

A request reads the row in one step and acts in later ones.  `Reset` is
`IngestURL` and `Reprocess` on a settled row (`MarkRead`, `MarkPending`, `Submit`);
`ForceRead` is `Reprocess` on a stale one, with the force's claim, wait, reset and
queueing; `Import` is `replaceFailedWithMarkdown` with its best-effort
deletions and its rollback.  `ForcesDrain` chooses between waits that end
because the stale handler stopped and waits that may also end by
`ForceWaitTTL`.  Any write may report an error after it took effect.  `Stop`
loses everything but the store, the blobs and the index.

The store is `store.Memory`, whose writes are atomic.  `store.Postgres` reads
the row and merges before it writes a status (postgres.go:89); `PostgresReadings`
shows that nothing can be seen of that window (section 9).

### Runs

| Run | Instance | Question |
|---|---|---|
| `processing_drained` | 1 worker, 1 request, all four kinds, 3 runs, 1 import, waits that drain | `TypeOK`; can a pointer dangle (`NoDanglingPointer`); are the status transitions those of `status.go` (`TransitionsAllowed`) |
| `processing_fence` | 2 workers, 1 request, `web`, 3 runs, waits that may time out | is a ready reading complete beside a stale run (`ReadyIsComplete`); does the index agree with its content, whichever run wrote to it last (`VectorMatchesContent`); does a run from before a reset change content (`FenceHolds`) |
| `processing_race` | 1 worker, 2 requests | *violated*: `TransitionsAllowed` |

Bounds.  `MaxRun` counts the runs that get as far as their `running` write:
one to be replaced, one to replace it, and one more after a retry or a crash;
`VectorMatchesContent` asks for a row with the last generation, and says nothing of
one whose generation a late `running` write has set back (section 12), which
`GenerationLast` shows to be the only exception (section 11); the mutants of the fence and of the index are found with these.  `MaxImport`
of one gives the reading two bodies, the one it was created with and a
replacement.  `MaxAttempts = 2` lets one attempt be retried and the next fail.
One request at a time is enough for every hazard a run and a request make
together; two that overlap on one settled reading are what `processing_race` is
about, and section 12 says what else they do.

## 6. Manual batches

Both stores have the same batch operations.  `store.Memory` does each under one
mutex; `ManualBatch.tla` has one action per operation, and a call that ends in
`ErrConflict` or repeats what was done is a step that changes nothing.  `batch`
holds the state and remote id of every batch, `item` the state, batch, reading and
result of every item.  `store.Postgres` does each as a transaction at READ
COMMITTED; `PostgresBatch.tla` extends `ManualBatch`: the same variables are the
committed tables, the properties of `ManualBatch` are those of the run, and
`txn` holds, for every connection, the statement it is at, what it has read and
what it has written.  An update waits for the row locks of other transactions
and then evaluates its WHERE on what they committed; an insert waits for their
unique keys; `Rollback` covers conflicts, errors, deadlocks and crashes.
Postgres' own rules are modelled as the SQL in `query.sql` relies on them.  The
two item operations are one conditional update each.  No caller of the batch
store exists outside its tests yet, so the callers are unconstrained.

| Run | Instance | Question |
|---|---|---|
| `postgres_batch` | 2 connections, 2 batches, 2 items of 1 reading, 1 remote id | `TypeOK`; is every commit an operation of `ManualBatch` (`ImplementsManualBatch`); is a reading in one active item when two transactions see it free (`OneActiveItemPerReading`); do items and batches end together (`ItemsFollowBatch`); may two submits share a remote id (`RemoteIdsUnique`); are recorded results final (`ResultsStand`) |

Nothing here grows: a batch id and a `custom_id` are used once, so the instance
is complete for its sets.  Two batches and two items of one reading are what the
uniqueness rules compare, and no rule relates two readings.  Two connections
suffice because every rule compares two transactions.

## 7. URL keys, reading operations and commands

`UrlKey.tla` translates `URLKey` and `ClassifySource` on the record `url.Parse`
makes of a URL; percent-encoding and IPv6 literals are left out.  `SamePage`
says without keys which URLs show one page, and `KeyIsPage` compares the two
over a set of spellings.

`ReadingOps.tla` is `readingops.Service` over any number of readings, with the
runs beside it; every call on the store, the blobs or the dispatcher is a step
and may fail, and a failed write may have landed.  `ReaderCtl.tla` extends it
with the commands `drop`, `audit` and `recover` of `readerctl`, which work on the
same stores from another process.

| Variable | Code |
|---|---|
| `rows` | the readings: URL, key, status, `started_at`, kind, `raw_key`, `content_key` |
| `blobs`, `vectors` | the keys in the blob store, the ids in the vector index |
| `run` | the dispatcher's claim of every id and how far the run is (what the dispatcher itself does is `Dispatcher`'s subject) |
| `request` | the locals of every request goroutine: operation, reading, body, the row it has read |
| `used`, `count` | ids given out; what the bounds count |
| `past` | history: submits a failure took away (`owed`), blobs a failure or crash left (`displaced`), bodies a rollback took (`bodiless`), readings two requests worked on at once (`contested`) |
| `ctl` | the command, where it is and what it has read |

A request is a chain of steps named after the calls: `PutBody`, `SaveReading`,
`Reread` and `Undo` for a new reading; `Mark` and `ReprocessRow`, or
`UpdateImport` and `DeleteOld`, for one that exists; `ForceClaim` and `Submit` for
the dispatcher.  `Restart` loses requests and claims and sweeps.

| Run | Instance | Question |
|---|---|---|
| `reading_ops` | 2 ids, 2 requests, 1 run, 1 body, 1 failing call, 1 restart, one command | do spellings of a page share a key, and only those (`OneKeyPerPage`); has a page one reading however requests overlap (`OneReadingPerPage`); is a pending reading submitted (`PendingIsSubmitted`); do uploaded bodies stay with their readings (`BodiesOwned`); does an audit report what has no owner and nothing else (`AuditExact`); does a drop take everything along (`DropLeavesNothing`) |

Two requests are what overlaps: a third could only lose the same race again.
One run is enough to move a row under a request or a command, since what runs
do to each other is `Processing`'s subject.  One failing call per behaviour
finds every single-failure case; a second failure in a cleanup is excepted by
`past` anyway.  An audit scans the rows in one step, then looks at the blobs, then at
the vectors, each in one step too: what moves between two keys of one listing is not
seen.  A command runs beside one request and not across a restart.  The
run has deadlock checking off because its bounds exhaust.

## 8. Search

`Search.tla` walks all the pages of one listing, as `scanReadings` and the
browser's load-more do, while readings are saved, changed and deleted between
two pages and, in Postgres, between the count and the page.

| Variable | Code |
|---|---|
| `readings` | `created_at`, title, status, tags of every row, and the score it gets for the query's text |
| `query`, `store` | the `Query`, and which store answers |
| `at`, `cursor`, `total`, `out` | where the walk is, `Page.NextCursor`, `Page.Total`, the rows so far |
| `changes`, `past` | the bound; history: ids that moved, ids that at some time did not match |

The Go side (`sortMatches`, `isAfterCursor`, `applyCursor`) and the three SQL
statements are translated separately, and `StoresAgree` compares them in every
state of every walk.  `InOrder` stands for what sorting gives, in Go and in SQL:
the k-th row is the one that k - 1 of them precede.

| Run | Instance | Question |
|---|---|---|
| `search` | 3 readings, 2 times, 3 titles of which two are equal in lower case, scores 0 to 2, pages of 1 and 2, 2 changes | is what stays listed once, and twice only what moved (`SteadyListedOnce`); in order over page ends (`OrderAcrossPages`); is the total that of the listing (`TotalWhole`); do both stores give the same page (`StoresAgree`) |

Three readings give a page end with a neighbour on each side; two times and a
title that occurs twice make ties of every kind; two changes move one reading
there and back, or delete one and add one.  Every walk ends, so deadlock
checking is off.

## 9. The store of readings

`ReadingStore.tla` is what a store promises: every call takes effect in one
step between its start and its answer, as under the mutex of `Memory`.
`PostgresReadings.tla` has the statements of `storedb` as steps of their own:
`UpdateStatus` reads, merges in Go and writes back; a fenced write that changed no
row looks for it afterwards; a connection may be lost before or after a
statement.

| Variable | Code |
|---|---|
| `table` (`rows` in `ReadingStore`) | the columns of `readings` that calls write, with NULL |
| `call` | the call of every goroutine: its statement, what it has read, its answer |
| `count` | bounds |

The mapping takes a call that has read its row to have done nothing yet, and
hides of the merged columns what nobody reads: `started_at` of a row that is
not running, `error` of one that has not failed, the attempts of a settled one.
A status write that overlaps a reset may leave old values there; with the
mapping, `ImplementsStore` says that nothing else can be told from `Memory`, but for
one thing: a fenced write that found no row of its run is `refused` in `ReadingStore`,
and whether that is reported as a conflict or as not found is not modelled there, since
the look that tells them apart may fail or come after a deletion.

| Run | Instance | Question |
|---|---|---|
| `postgres_readings` | 2 ids that want one page, 2 connections, 4 calls, 1 lost connection | is every call one step of `ReadingStore` (`ImplementsStore`); has a running row a start, a failed one an error, a settled one an end, whatever overlaps (`SettledIsWhole`) |

Two connections are what can come between a read and a write; four calls are two
overlapping ones, what they start from and a look at the outcome.

## 10. The web client

`ClientList.tla` is the list of `App.tsx`, `WebClient.tla` adds the detail view, the
token and the reprocess button.  React state and refs are the variables; every
answer, timer and click is a step.

| Variable | Code |
|---|---|
| `server` | the status of every reading, and how often it was (re)started: a version that only the model sees |
| `token` | the token in `localStorage` |
| `view` | `readings`, `nextCursor`, `loadedCursors`, the loading flags, the error |
| `current`, `busy` | the list request with the last number of `readingsRequestID`; `readingsLoadingRef` |
| `shared` | `inFlightReadingsByFetch` |
| `submit` | the form and its request |
| `selected`, `detail`, `loading`, `content` | the detail view |
| `ask`, `fetching` | the detail or content request with the last number of `detailRequestID`; `detailFetchInFlight` |
| `raw`, `posts` | the download with the last number, the reprocess requests |
| `count`, `past`, `own` | bounds; history: versions acknowledged to reprocesses and to submits, rows a submit found older than that (`kept`), whether a list answer was given up |

An answer to a request whose number is no longer the last changes nothing, so
only the last request is kept; but its answer may be shared by a later request
for the same page, so `shared` keeps answers on their way apart from who waits
for them.  The server answers at any time between the request and the answer,
may fail, refuses a bad token, and shows a reading that has waited for too long
as failed in its detail.

| Run | Instance | Question |
|---|---|---|
| `web_client` | 2 readings on 2 pages, of which one has failed, a third or the failed one submitted, 3 clicks, 1 failing request | is the list whole pages, newest first, nothing twice (`ListIsPages`); is everything shown of the selected reading and the stored token (`ViewIsOfSelected`); does content belong to the state it is shown with (`ContentOfReady`); does no answer older than an acknowledged submit or reprocess come back (`ReadYourWrites`); do both views catch up with the server, and no flag stay set (`CatchesUp`); `TypeOK` |

Pages of one make the second page and the refresh of two pages; the third
reading moves both.  Three clicks are a load-more, a submit or the opening of a
reading, and one that overtakes it, or a reading that is opened, reprocessed and left
for another; going back to the list is not counted.  A flag or a timer waits for one
request that was overtaken or failed.  The invariants are proved for any number of
clicks (section 11).  `Failed` is the reading a submit resets
(`IngestURL` starts a failed reading again and leaves any other alone), and a run may
fail again.  Deadlock checking is off because the user may stop.

A submit changes nothing on the screen but the form: the row of the failed reading stays
as it is until a refresh succeeds, and an open detail of it until its own next answer.
`ReadYourWrites` therefore excepts, in the list, the row that was on the screen when the
submit was acknowledged (`past.kept`), as long as no first load or refresh has
succeeded since; an answer that comes later must not be older.  In the detail it is
about reprocesses.

Fairness: timers fire, requests are answered and answers handled, for the list
and for the detail view (one weak fairness each, since neither can hold up the
other), and the server's runs end.  The user is not fair.

## 11. Proofs

`DispatcherProofs.tla` proves for any sets of readings, workers and callers and
any buffer, budget and token bound (assumption `DispatcherAssumption`):

| Theorem | Property |
|---|---|
| `TypeCorrect` | `TypeOK` |
| `LiveRunOwns` | `LiveRunOwnsClaim` |
| `ForceOwns` | `ForceOwnsClaim` |
| `OneCarrierPerClaim` | `ClaimHasOneCarrier` |
| `PendingNotForgotten` | `PendingRowHasWork` |
| `BudgetHolds` | `AttemptBudget` |
| `DispatcherImplements` | `ImplementsLifecycle` |

None of these is inductive alone.  `BudgetHolds` needs the type invariant
only.  The next four follow from `Ownership`, the invariant that ties claims to
items: every token in use is at most `nextToken`; no two carriers (a caller, a
place in the channel, a worker, a timer) hold one token; a claim has a carrier;
a run that is not cancelled carries the token of its claim and the claim's
`done` refers to it; a forced submit owns its claim; a run that writes its
outcome owns its claim, and what it wrote is pending again only through a reset
that is about to be submitted; the sweeper carries an item only while it sends
it.  The step proofs go action by action; the operators actions share
(`QueueClaimed`, `EndRun`, `Released`, `Claim`) have lemmas of their own.

`DispatcherImplements` is step simulation for one reading at a time, and needs
more than `Ownership`, which tells where the item of a claim is but not what it
says.  `Conduct` adds the budget and three invariants (TLC checked them on the
instances of `dispatcher_claims` and of the sweep before they were proved): the
`done` of a claim is that of a run of the same reading, and a cancelled run has
lost its claim (`ClaimsKnowRuns`: a failed `running` write of a live run and of
a stale one are different steps of `Lifecycle`); a request submits with attempt
0 (`FreshSubmits`); nothing touches a listed reading until it is swept, so its
row still says what the sweep read (`SweepAlone`: `Accept` starts where the row
says).  The mapping is under `CHOOSE` for `NextOf`; `WorkIsWaiting` shows that
the items on their way with a claim are one, and then no run is live
(`OneLive`).  `Unaffected` settles every reading a step does not concern, and
the stutters; `WaitingGivenUp`, `AcceptImplements` and `RunIsOver` the steps
several actions share.

`PostgresBatchProofs.tla` proves of `ManualBatch`, for any sets of batches, items,
readings, remote ids and results (assumption `ManualBatchAssumption`: `None` is none of them):

| Theorem | Property |
|---|---|
| `BatchTypeCorrect` | `TypeOK` |
| `OneActiveItem` | `OneActiveItemPerReading` |
| `ItemsMoveWithBatch` | `ItemsFollowBatch` |
| `RemoteIdsAreUnique` | `RemoteIdsUnique` |
| `RecordedResultsStand` | `ResultsStand` |

The inductive invariant is their conjunction with `NoEarlyResult`: an item that
has not ended has no result.  Without it a second result could replace the
first; without `ItemsFollowBatch` a submit could bring an ended item back to
life.  One lemma per operation shows that it keeps the invariant; `ResultStep` says
what each does to one item.

and of `PostgresBatch`, for any number of connections as well:

| Theorem | Property |
|---|---|
| `PgImplements` | `ImplementsManualBatch` |
| `PgOneActiveItem` | `OneActiveItemPerReading` of the committed tables |

The mapping is the identity on `batch` and `item`.  `StepSimulation` shows that a
commit is an operation of `ManualBatch` and any other step a stutter, from
`PgInv`: what a transaction relies on when it commits is still true then.
`TxnOK` says it of one transaction (a submit that has its row holds a planned
batch and a free remote id; an update that has its row still sees the state it
read; the items it takes along are all active items of its batch), `PairOK` of
two (never the same row, key or remote id).  Statements move one transaction over
tables that stay (`LocalInv`); commits move the tables and must spare every
other transaction (`Spared`, `CommitInv`), which row locks and unique keys
ensure.

`ProcessingProofs.tla` and `ProcessingSafety.tla` are about one reading with any
set of runs, any budget and any bounds (assumptions `LifecycleAssumption` and
`ProcessingAssumption`):

| Theorem | Property | Hypotheses |
|---|---|---|
| `TypesCorrect` | `TypeOK` | none |
| `FenceCorrect` | `FenceHolds` | `OneRequest` |
| `ReadyCorrect` | `ReadyIsComplete` | `OneRequest` |
| `PointersCorrect` | `NoDanglingPointer` | `OneRequest` |
| `VectorCorrect` | `VectorMatchesContent` | `OneRequest` |
| `TransitionsCorrect` | `TransitionsAllowed`, or the step is `LateRunning` | `OneRequest` |
| `GenerationLast` | a ready row bears the last generation and its vector | `OneRequest`, no `LateRunning` step |

`OneRequest` says that the handlers of the reading's requests follow one another,
as in the passing runs.  It is needed: with two requests TLC violates each of these
properties but `TypeOK` (section 12).  Nothing is assumed of how long a forced submit
waits: it may go on after `ForceWaitTTL` with the stale handler still at work, which the
comment at dispatcher.go:181 means it to.

One thing the code does then cannot be excluded, the unfenced `running` write of the
stale run.  `LateRunning` is that write when it comes after its forced submit has
gone on, or on a row that is settled.  `TransitionsCorrect` says that it is the only step
that leaves the table of `status.go`, and that a behaviour without it keeps to the
table; `GenerationLast` that without it a ready row bears the generation given out last,
so that `VectorMatchesContent` speaks of every ready reading.  TLC finds behaviours with
it under `ForcesDrain = FALSE` (it is what `dispatcher_stale_write` shows of the
dispatcher).

The argument is that a reset is written only while no run writes an outcome, that every
run that has loaded the reading is outdated by it, and that an outdated run fails
the fence, so that one run at most, the current one, changes content.  `Control` says
it, in four parts: `Owners` (a live run is not aborted, a force leaves its work
waiting), `Resets` (a settled row has no run but one that only releases its
claim, and a request between its reset and its submit sees a row that stays
pending), `RunRows` (a current run is the only one, on a running row) and
`Fences` (no two runs hold one `started_at`, and an outdated run never holds the
row's).  `Content` adds what the row, the requests and the current run know of the
blobs: `Pointers`, `Replacing` (an import deletes a blob the row no longer points at),
`Progress` (how far the current run is determines what the row says).  `FenceHolds`
needs `Control` only, the next two `Content`.  `Latest` is about generations: the live
run bears the last one and no other run that is about to write `running` does
(`GenLast`), so a late write can only take the row back; if the row has the last
generation, the live run is fenced with it (`FenceLast`), and from its upsert on the
vector is of its text (`VectorLast`), for the index refuses the stale runs, whose fences
are older.  `Newest` adds that a row that is handled or ready bears the last generation
while no late write comes.  All of them were checked by TLC, on the instances of the
runs, before they were proved.

`PostgresReadingsProofs.tla` is for any ids, goroutines, calls and failures.  Assumption
`PgReadingsAssumption` is what the callers pass: a status write of the dispatcher names a
status and gives a start with `running`; NULL is no text and no number.

| Theorem | Property |
|---|---|
| `PgReadingsImplement` | `ImplementsStore` |
| `SettledCorrect` | `SettledIsWhole` |

`PgInv` says that every row is `Whole` (which is `SettledIsWhole` with the types) and
that a status write that has merged holds, in the columns that are read under its new
status, the values of its call (`Merges`), whatever the row has become since.  For each
statement a lemma (`WritesContent`, `Resets`, `WritesStatus`, ...) shows that it leaves
a whole row, shown as the one `Memory` would write.  A status write then takes effect with
its `UPDATE` and its read is a stutter; a fenced write is refused when it finds no
row of its run, and the look after it is a stutter.

`ReadingOpsProofs.tla` is about the requests, the runs and one command, for any URLs,
ids, requests and bounds (assumption `ReadingOpsAssumption`: the bounds are numbers,
and one URL at least has a key):

| Theorem | Property | Hypotheses |
|---|---|---|
| `KeysCorrect` | `OneKeyPerPage` | the spellings are `Plain` and `NoWatchSlash` |
| `ReadingsCorrect` | `OneReadingPerPage` | the URLs are `Plain` |
| `PendingCorrect` | `PendingIsSubmitted` | none |
| `BodiesCorrect` | `BodiesOwned` | none |
| `AuditCorrect` | `AuditExact` | none |

`Plain` URLs have one trailing slash and one `v` parameter at most, `NoWatchSlash`
ones no slash after `/watch`, as in the run: for others the code gives one page two
keys, or two pages one (section 12).  `KeyIs` says what a key is: of the one video a URL
shows, or of a URL that shows none.

`IInv` is inductive (`ReaderInvariant`).  Beside types it says: no two rows have one key
(`OneKeyOneRow`, which `SaveReading` keeps since it looks and writes in one step); and of
every reading on which requests never overlapped (`IdOK`) that one request at most
works on it (`Sole`), what that request holds at each of its places and the row and
claim it may meet there (`Steps`), that a settled row has no run (`Settled`), that a
markdown row has its body (`Bodied`) and a body its row or holder (`OwnBodies`).  A
request that creates a reading works on an id no other has (`Newborn`), contested or
not.  For the commands it says what they have read: a drop has deleted the body of
the row in its hands (`Dropping`), and an audit (`AuditOK`) has compared with rows as
they were, so that what stays owned is in `Referenced` of them and what stays an orphan is
not.  A step touches one reading (`Touch`) and uploads bodies with new numbers only
(`Fresh`), which is what a drop relies on while requests go on.  TLC checks `IInv`
on the instance of `reading_ops`.

`WebClientProofs.tla` proves for any number of readings, clicks and failing
requests and any page size (assumption `ClientConstants`):

| Theorem | Property |
|---|---|
| `ViewOwned` | `ViewIsOfSelected` |
| `ContentCorrect` | `ContentOfReady` |
| `ListCorrect` | `ListIsPages` |
| `WritesRead` | `ReadYourWrites`, in the list and in the detail view |
| `ClientTypes` | `TypeOK` |

An answer is shown when it comes, so it has to be the right one before that:
the inductive invariant `Owned` says that an answer on its way to the list
(`ListOwned`), among the pages of a refresh too, is good only if it was asked
for with a good token, that the list request that counts carries the stored
token, that the detail on its way (`AskOwned`) is of the selected reading, and
that a reprocess the view waits for (`PostsOwned`) is of the reading it shows,
with at most one of them.  The second invariant, `Fresh`, orders versions: what
the view saw acknowledged (`own`), the reading that is shown or on its way, its
content, and what the server has by now, which only grows (`ServerGrows`).  A content
that is on its way is compared with the reading on show (`AskFresh`), and an
acknowledgement that is on its way with the server (`PostsFresh`); an acknowledged
reprocess overtakes the request of the view, so nothing older than it is left to
come.  The records have no types in it but their fields
(`IsView`, `IsRequest`, ...): what they hold beyond that these arguments do not
use.

The third invariant, `Paged`, is about the list.  There are the readings `1` to
some number (`ServerPaged`), so rows are whole when each has the id below the one
above it (`RowsOK`), and joining pages that follow one another leaves nothing out
and nothing twice (`Joined`, `Gathered`).  What is shown fills its pages up to the
last one (`ShownOK`), what a refresh has gathered are full pages (`PagesOK`), and an
answer on its way is the page at its cursor (`PageOK`).  Row versions on their way
are compared with `Acked`, the last write of each reading that was acknowledged, and
those shown with `Floor`, which takes no submit into account for a row that `past.kept`
excepts; and nothing the client knows of
(`Known`: what is shown, selected, being reset or acknowledged) is above a first
page, shown or on its way (`Covers`), for ids are given out in order.  That last
part is what an old answer would break.  A first page that others may
join is awaited by the running request, or asked for with a token that is no longer
stored (`SharedOK`, `Awaits`): nothing newer is shown while it is on its way, and an
acknowledged submit or reset empties `shared`.  While a request loads the
list from its start, or after one failed, what is shown need not cover (`Settled`,
`past.dropped`).  Pages are cut by rank (`Nth`) and not with `SelectSeq`, which is
recursive; `NthOfAll` and `AppendIs` say what that computes.  TLC checks `Paged` with 4
ids, 3 readings and pages of 2.

`SearchProofs.tla` is about a walk over any readings, times, titles and scores, in
either store, with any changes (assumption `SearchConstants`: the readings are
finitely many, ids, times, scores and the places of titles are numbers, a page has
at least one row):

| Theorem | Property |
|---|---|
| `WalkComplete` | `SteadyListedOnce` |
| `WalkOrdered` | `OrderAcrossPages` |
| `TotalCorrect` | `TotalWhole` |
| `StoresEqual` | `StoresAgree` |

First come three facts about the operators.  Places with their ids are totally ordered
(`BehindIsOrder`), and `Precedes` is that order.  Ranks in a total order are an
injection of the rows into as many numbers, so every rank is taken and `InOrder` has
each row once (`OrderIs`); what comes after all others is the end of the list
(`RestIs`).  And `isAfterCursor` as well as the where clauses say that a row is behind
the place of the cursor, whether the row that was there has moved, gone or stayed:
the cursor holds values and no row.  So both stores give the first rows of what is
after the cursor (`MemoryPageIs`, `PostgresPageIs`), which is `StoresAgree`.

`Walk` is inductive: what was listed and has not moved is not behind the cursor
(`Behindhand`), and what matched all the time is listed or behind it
(`NoneLeftOut`).  A page moves the cursor to its own last row; a change moves only
readings that `past` then has.  An id that was listed was given out, so no new reading
takes its place.  `Counted` adds that the readings that stayed are among those the
total counted, and all of them while nothing changes.  TLC checks both on the
instance of `search`.

Only model-checked: `DropLeavesNothing`, and all liveness, which the prover cannot
express under fairness.

## 12. What the checks found

`dispatcher_stale_write`: the comment on `ForceWaitTTL` (dispatcher.go:55) says
the `ExpectedStartedAt` fence makes any late stale write a no-op, so that a
forced recovery may proceed while the old handler still runs.  The `running`
write itself (dispatcher.go:397) carries no fence: entered before the
cancellation, it can land after the replacement has settled the reading, and
leaves a ready or failed row `running` with no run.  A later sweep past
`RunningTTL`, or a stale reprocess, repairs it.

`processing_race`: `IngestURL` and `Reprocess` check the status and reset the
row later, unconditionally.  Of two requests that saw the same failed reading,
the second resets the row under the run the first one started; its `Submit` is
dropped as a duplicate, and the run moves a pending row to ready, a transition
`status.go` does not list.

Seen while modelling, without a run of their own.  Pipeline and dispatcher:

* The late `running` write also sets `started_at` back.  With a force that does
  not wait for the old handler, the live run is then fenced by the older
  generation: its content is accepted, its vector dropped (the comment at
  dispatcher.go:181 calls that wait "not a correctness gate").  Without the
  condition on the generation in `VectorMatchesContent`, TLC finds this.
* When a second reset lands between the `running` write and the load, the run
  finds no `started_at` and none of its writes is fenced: it writes content over a
  later reset (`FenceHolds`).
* A second reset that lands after the last write of a run leaves a ready reading
  without content (`ReadyIsComplete`); one that lands after an import has
  replaced the body leaves a markdown reading without its source
  (`NoDanglingPointer`).

Requests and commands:

* Two requests that work on one failed reading may lose its body (a reset writes
  the deleted raw key back) or leave one behind: `contested` in `BodiesOwned`.
* A `SaveReading` or `UpdateImport` that is reported as failed although it landed
  makes the request delete the body the row points at (`bodiless`).
* A reset of a fetched reading leaves the blobs of its last run without an
  owner; `audit` finds them.
* `drop` of a reading that is being processed can leave blobs and a vector behind;
  `DropLeavesNothing` is about readings nobody works on.  An audit may report a
  blob that was put after its scan.
* The key of a URL is not always its own key: `http://h:443` and `https://h//`
  have keys that canonicalise further.  `youtube.com/watch/?v=ID` is not
  recognised as the video it shows.

Stores:

* `UpdateBatchState` of `store.Postgres` merges the counts and the results URL it
  read into an update that is conditional on the state only (postgres.go:497).
  A refresh in the same state that commits in between is undone by a call that
  gave no counts (`BatchStateFields`, store.go:248, calls them optional);
  `store.Memory` keeps them.
* A search text without a word in it ("!!!") lists everything in `Memory` and
  nothing in Postgres.  Total and page of Postgres are two statements and may
  disagree.
* A fenced write that changed no row reports `ErrNotFound` when the look after
  it fails (postgres.go:171), whatever the row is.

Web client:

* A submit of a URL whose reading has failed resets that reading
  (service.go:67), but `handleSubmitURL` changes no row (App.tsx:305) and leaves an
  open detail alone.  The failed row stays until the refresh answers, and if that
  fails until something else loads the list, which a poll does only while some row
  shown is pending (`past.kept` in `ReadYourWrites`).
* `handleSubmitURL` keeps the depth of the click.  When a load-more ends before
  the submit is acknowledged, the refresh shows fewer pages than were visible;
  App.test.tsx:453 is titled "submits a URL and refreshes the same visible page
  depth with fresh cursors".
* An acknowledged reprocess gives up the list request that is under way, also a
  first load or the refresh after a submit: the list then stays empty, or
  without the submitted reading, until something else loads it (`dropped`).
* A reprocess that is acknowledged after its view was left and opened again
  leaves the old ready content there, without polling.
* `detailLoading` may stay set after an acknowledged reprocess until the next
  poll of the detail.
* The list endpoint does not mark stale readings, the detail endpoint does: the
  list goes on polling for a reading the detail calls failed.

## 13. Not modelled

* The delay of a re-dispatch (`backoff`, `Retry-After`).  Timers fire at any
  time, so every property holds for all delays.  Seen by reading only: the shift
  in `backoff` can overflow for attempts far beyond any configured budget.
* Several requests on one reading beside the steps of the pipeline.  `Processing`
  has one request but for `processing_race`, and `ReadingOps` has two but a
  coarser run.  What TLC finds with two is in section 12.
* HTTP routing, CORS, body decoding and error bodies; the client commands of
  `readerctl` (imports are requests; file parsing, staging, smoke and deploy
  checks keep no state); configuration; the request mapping of the source and
  model adapters, which to the rest are outcomes.
* HTML extraction and the ranking of `vector.Query`: pure functions of data the
  models only compare.  Of URL canonicalisation, percent-encoding, IPv6 literals
  and the characters of a name; of `Search`, collations, tokenizing and stemming,
  which the models take as a score per row.
* The health panel, messages and rendering of the web client, and its decoding
  of answers.
* The counts and the results URL of a batch, which decide nothing.
