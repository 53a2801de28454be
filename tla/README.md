# TLA+ models of the LLM gateway

This directory holds TLA+ models of the parts of the gateway in which
concurrency, failure and ordering decide whether it is correct, the TLC
configurations that check them on small instances, and TLAPS proofs of the most
important results. `PROJECT.json` lists the runs, what every definition stands
for in the source, the hazards each property is aimed at, and the findings.

Run a check with `tlc -config X.cfg MC<Module>` and a proof with
`tlapm <Module>_proofs.tla`, in this directory.

## 1. The system

One process (`cmd/llm-gateway`) sits between students' clients and model
servers. It authorizes requests from a *document* it reads from a file or a
control plane, forwards them, and records one usage event per request.

| Component | State | Operations | Hard because of |
|---|---|---|---|
| snapshot store and sources (`internal/snapshot`) | the served document, the high-water generation and its sidecar, the restart cache, the identity of the last file | `Open`, `Refresh`, `Load`, `Accept` | the document is replaced at any moment; a crash between publishing and persisting; failing disks; a rollback |
| limits (`internal/limits`) | per key: two token buckets, slots in use, last use | `Acquire`, `Release`, `ChargeTokens`, collection of idle keys | concurrent handlers; limits that change under them; charging after the fact |
| upstream calls and health (`server/upstream.go`) | failure counts and cooldowns shared by all requests | `callUpstream`, `recordFailure`, `recordSuccess`, `cooling` | several lock acquisitions per decision; retries of what is not idempotent |
| generation cost lookups (`server/generation_cost.go`) | two pools of slots, a wait group, a drain flag | `admit`, lookup, `DrainCostLookups` | lookups outlive their handlers; shutdown |
| spool writer (`internal/spool`) | the open day file | `Write`, `Prune`, `Close` | full disks; midnight; a second goroutine deletes its files |
| reporter (`internal/reporter`) | offsets per day, in memory and on disk | `Flush`, `FullyShipped` | lost answers, crashes, late appends |
| process (`cmd/llm-gateway`) | goroutines and their shutdown | signal, grace, drain, close | who waits for whom |
| request pipeline (`server/pipeline.go`, chat, messages, responses, completions) | in-flight slots, the event of the request | the order of its checks, relay, record | every path must record once and release |
| streaming relay (`server/sse*.go`) | what was seen of a stream | `relayStream` | a client that goes away, a stream that breaks off |
| passthrough and large bodies (`server/passthrough.go`, `largebody.go`) | two pools of large-body slots | take, release, release of a body under a reader | a transport that still reads a released body |
| fences and credit matching (`server/fence.go`, `snapshot.go`) | none | pure decisions | nested requests, patterns |
| body capture (`internal/bodies`) | a queue bounded twice | `Offer`, `Run` | check and update are two steps |
| probes, vendor catalog (`observability.go`, `catalog.go`) | observations, a cached list | periodic refresh | stale data, schedules |
| ownership (`internal/ownership`) | a cache with a lifetime | intent, bind, owned, release | an answer cached after a release |
| key generator (`cmd/llm-keygen`) | the document | locked edits | two editors |
| configuration | none | parse the environment | - |

Interactions: handlers read the store's current document, ask the limiter, call
upstreams, and write an event to the spool, at once or after a cost lookup. The
reporter reads what the writer writes; retention asks the reporter before it
deletes what the writer made. The main goroutine stops the handlers, waits for
the lookups and then closes the spool.

What makes each part correct:

* **outbox** (writer, reporter, retention): an event that was written is shipped
  or its refusal counted; only written events are shipped; disk use is bounded.
* **snapshot**: authorization never goes back to an older document; a refused
  document stays visible; a good newer one gets served; an outage at start is
  survived.
* **limits**: rate, concurrency and token debt hold whatever the handlers'
  timing; `Retry-After` is honest.
* **upstream calls**: nothing that may be under way is sent again to the same
  place; an available upstream is tried; the attempts of a call are bounded.
* **lookups and shutdown**: one event per request, no leak of slots, a shutdown
  that ends.
* **handlers** (pipeline, passthrough): on every exit one event, one charge, one
  return of each slot; one document per request; what the vendor may have billed
  without a price gets one, or is counted as missing.
* **relay**: what is recorded as a success reached the client whole; the client
  is sent exactly one end; a slow reader does not keep a large-body slot.
* **fences**: what goes to the vendor was granted by the document as written,
  however it is spelled and nested, and nothing else is refused.
* **background parts**: no captured body is lost track of; a due catalogue read
  begins; a released object is not taken for owned for long.

## 2. Modules

| Module | Models | Checked by | Proofs |
|---|---|---|---|
| `UsageOutbox` | `spool.Writer`, `reporter.Reporter`, `Prune`, crash and restart | `UsageOutbox_*` | `UsageOutbox_proofs` |
| `Outbox` | what the outbox promises (abstract) | refined by `UsageOutbox` | the refinement |
| `UpstreamCall` | `callUpstream`, outcomes of `do`, `upstreamHealth` | `UpstreamCall_*` | `UpstreamCall_proofs` |
| `SnapshotStore` | `Store`, `FileSource`, `HTTPSource`, sidecar, cache | `SnapshotStore_refresh` | `SnapshotStore_proofs` |
| `Limiter` | `limits.Limiter` and its use by a handler | `Limiter_limits` | `Limiter_proofs` |
| `CostLookups` | `generation_cost.go`, the shutdown in `main` | `CostLookups_shutdown` | `CostLookups_proofs` |
| `Handlers` | what all handlers share: the view, the slots, refusing, recording, the deferred releases | `Server_requests` | `Server_proofs` |
| `RequestPipeline` | `serveProtocol`, `finishNonStream` | `Server_requests` | `Server_proofs` |
| `Passthrough` | `handlePassthrough`, `finishPassthrough`, `passthroughLargeHold` | `Server_requests` | `Server_proofs` |
| `Server` | the two surfaces composed over the shared pools and store | `Server_requests` | `Server_proofs` |
| `Slots` | what a pool of slots promises (abstract) | refined by `Server` (three pools) and `StreamRelay` | both refinements |
| `StreamRelay` | `relayStream` and the extractors of the surfaces | `StreamRelay_*` | `StreamRelay_proofs` |
| `Documents` | names, credit patterns, `build` | `Fences_judgement` | - |
| `Fences` | `fence.go`, `token_tools.go`, the judgement of one request, the models route | `Fences_judgement` | TLC only |
| `BodySink`, `VendorCatalog`, `Ownership` | `internal/bodies`, `catalog.go`, `internal/ownership` | `Background_parts` | `Background_proofs` |
| `Background` | those three side by side; they share no state | `Background_parts` | `Background_proofs` |

`MC<Module>` extends a module with the values of its constants. Definitions
called "Mutant of X" are a plausible wrong version of X each; a property counts
only if TLC refutes it with the mutant in place.

### UsageOutbox

A day file is a sequence of the `write(2)` calls made to it; a call is whole or
a fragment without a newline. All offsets the code computes lie between calls,
so an offset is an index. A file is an inode, because a handle outlives the
removal of its name: `dir` maps days to inodes, `wino` and `rino` are the
writer's and the reporter's handles. `Write` is two steps under the writer's
mutex (open, append); the reporter's `Flush` is one step per line, answer and
commit; `Prune` is a step for the listing, one for the read of the writer's day,
and two per entry, the judgement and the removal. `Crash` and `Restart` may come
between any two of them. An event's day is the one its request began on.

The code's `FullyShipped` copies the offsets and then stats the file; the model
takes both at the later moment. The offset and the size of a file only grow, so a
TRUE answer of the code is one of the model, and a FALSE one only keeps a file.
On a file made anew under the checkpoint of a removed one the code's offset may
also lie within a line; the model takes it between two.

### UpstreamCall

Each `cooling` question of the ordering is a step of its own, since each takes
the health mutex separately. Time is abstracted to "in cooldown or not"; a
cooldown may end at any moment. `sent` records the attempts of a call;
`disturbed` says that an upstream's cooldown began or ended while this call was
ordering. What one attempt can come back with is sorted as `callUpstream`
reacts to it.

### SnapshotStore

A document has a generation, one bit for whether `build` takes it, and an
identity (`rev`) that stands for modification time and size. A refresh is cut
at stat / read, fetch, build, accept and high-water, because the writer of the
document, or the end of the process, can come between. The sidecar and the
cache are replaced by a rename and so either old or new; with `DiskMayFail`
writes are lost and reads fail.

### Limiter

Every operation runs under one mutex and is one step. Levels are kept as exact
integers, `Minute` units to a request or token, so that refills are whole. A
handler keeps the `tpm` it was admitted under for its charge, as the closure in
the pipeline does; documents change limits at any time. `credit` and `at` are
histories against which the properties are stated.

### CostLookups

A handler ends in one of three ways (recorded, lookup refused, lookup admitted).
A lookup's last three steps (event, slot, wait group) are separate because main
waits only for the last. A handler that is still running when the grace ends
may do so for ever: nothing cancels it. A spool that was closed opens again for
a late write, so an event is lost only when the process is gone.

### Handlers, RequestPipeline, Passthrough, Server

A handler is a record: where it is, the generation it read, what it holds and
what it has recorded, charged and spent. Its checks read only its own request
and view, so a run of checks between two uses of shared state is one step, and
`FirstOf` keeps their order: the first condition that holds names the refusal.
Steps are cut where a slot is taken, the limiter asked, the upstream called, the
answer read and written. `Return` stands for the deferred calls. A document is
what it says of the requests' key and model; `Fences` refines that bit by bit,
`Limiter` the limiter, `CostLookups` the lookups, `StreamRelay` the relay, each
represented here by its outcome. An answer may name its `generation` and may carry
a `cost`; `withGenerationCost` asks the pool and the drain for a lookup, and `missed`
and `filled` are the two counters of what it and the lookup report.

### StreamRelay

A line is its kind and size, what an event's data says is chosen when the event
is dispatched, and what the client received is a sequence of marks (`delta`,
`ping`, `error`, `end`). Reading, writing and closing are separate steps, since
the client may leave, the deadline pass or the pool fill between them. A data line
is charged its size and `dataLineOverhead`, a blank line and the end of the file are
read against what is left of the cap, as in the reader of `sse.go`.
`Others` are handlers that hold a slot of the same pool for a request body or a
whole answer.

### Documents, Fences

A name is cut where the rules look: padding, case, tildes, vendor, parts,
variant, preset. `build` is applied to a document as written, with unusable
entries and repeated keys, from a file or from the control plane. A body has a
value for every place that can name a model or a tool. The handler takes one
step per stage of `serveProtocol`. The reference definitions (`About`, `Spends`,
`Grants`, `ToolsIn`) are written over the document as its author wrote it and
over the body's tree, not over what the code computes.

### BodySink, VendorCatalog, Ownership

An offer is three steps (check of the bound, send, count), because no lock joins
them; the drain may take a record before it is counted. `Run` returns at the end of
its context and leaves what is queued or in a batch. The catalogue runs on
ticks, with the back-off of the upstream it was earned on, and skips an upstream
that is not configured. Ownership calls have
a timeout and, for a bind, delays and a budget; the api's row changes at the
answer, the cache when the answer arrives, so a release may come between; a bind
repeated after a lost answer is told the same as the first. The
cache is a bounded list in order of expiry.

## 3. Runs

Each run's question is in `PROJECT.json`. Bounds and why they are enough:

| Run | Bounds | Why they suffice |
|---|---|---|
| `UsageOutbox_safety` | 2 events, days 0..2, retention 2, requests up to 1 day late, batches of 2, 1 crash, torn writes | one event is late while the other's day gets past retention; a crash between post, commit and save, then a second pass |
| `UsageOutbox_live` | 2 days, retention 0 (keep for ever) or 1, push on or off and chosen anew at a restart, torn writes; where days are kept 2 events and 1 crash, where they are pruned 2 events, or 1 event and 1 crash (`MaxIncidents`) | yesterday's file is appended to after today's shipped; a day is shipped, reopened and must still go; a day written with push off is there when push is on again, and the other way round |
| `UpstreamCall_safety` | 2 calls, 2 upstreams, 1 retry, cooldown after 2 failures | a second call (or time) changes the record between the questions of the first |
| `SnapshotStore_refresh` | both sources, generations 0..2, 3 replacements of the document, 1 end of the process, with and without an allowed reset | up, back and up again over a restart, with writes lost; a replacement during a read |
| `Limiter_limits` | 1 key, 3 requests, 2 limits, 7 ticks of a 3-tick minute, idle time of 3 ticks | the limit is lowered and raised under running requests, over two minutes; a key becomes idle while its request runs, and a key that owes is collected. Keys share only the moment of the collection, which with one key is any of its own calls |
| `CostLookups_shutdown` | 2 streams, 1 passthrough request, pools of 1, 2 reads | a full pool, both surfaces, every order of drain, lookup and handler |
| `Server_requests` | 2 requests on chat, messages, rerank or the image catalogue, 5 documents of which 2 are served in turn; 1 request in flight and no large path, or 2 and large pools of 1 slot | both axes, and what a document can withdraw from a request that is under way: the model, the quota, the credential, the upstream, the recording; a reload between any two steps; two requests that need the last slot; the large path turned off; a route whose answers are priced and one that reads no body. Refusals in the first step (a suspended key, a missing grant) end a request before it shares anything, as the missing key does |
| `StreamRelay_relay` | 1 stream on each surface and 1 other holder of the pool's one slot, 5 lines of size 1 or 4, 1 unit of overhead per data line, bounds 3 and 7 | a large event, one too large with a slot, one refused a slot, and room for a chunk, an error and an end in one stream. Streams meet only in the pool |
| `Fences_judgement` | 20 spellings of names, 8 credit lists, keys that are duplicated, unhashed or ambiguous, keys without chat, expired or unnamed, incomplete models and bad fallbacks, bodies with tools nested to depth 4, all surfaces | every branch of a pattern, of a tool type and of a place is taken, one deeper than the bound of 3 |
| `Background_parts` | 4 records of size 1 or 2 against a bound of 2, 2 offers at a time; 3 upstreams of which 2 are configured, 3 moves, 12 ticks; 2 objects, 2 calls, 5 ticks, caches of 1 or 2 | two offers pass the bound together; a back-off outlives its upstream, also over one that is skipped; a release between an answer and its arrival, an eviction |
| `UpstreamCall_resend`, `StreamRelay_end` | those of the passing run of the module | the counterexample is found within them |

`CHECK_DEADLOCK FALSE` stands where the modelled system really may stop: all
requests or streams are over, the request is judged, the days, crashes or ticks
of the bound are used up, or the process exited. `SnapshotStore` polls for ever
and is checked for deadlock. Symmetry is used only in runs without liveness
properties, over events, calls, requests or objects that no definition tells
apart.

### Refinements

* `OutboxImplemented`: `UsageOutbox` implements `Outbox` with the events written
  as `accepted`, those ingested or refused with a count as `settled`, and those
  appended to another write's fragment as `swallowed`. The mapping reads the
  control plane and the inodes, so every step of the writer, the reporter, the
  retention, a crash and a restart must be an `Accept`, a `Settle` or a stutter.
* `PoolsImplemented` and `SlotsImplemented`: the count each pool keeps and the
  handlers that think they hold a slot implement `Slots`, on every exit.

Some properties hold under a condition, and the condition says something about
the code:

* `SpooledIsAccountedFor` needs a retention longer than a request
  (`Outliving`) and push on. With one day of retention the check and the removal
  of yesterday's file race a late append, and with push off retention deletes
  days that nobody shipped.
* `ShippedIsConfirmed` and `OutboxImplemented` need `Outliving` too: otherwise a
  removed day file is made anew under the checkpoint of the old one, and what
  the offset then says of it is wrong (see the observations below).
* `UndisturbedNeverResends` and `UndisturbedTriesEvery` need that no cooldown
  begins or ends while the call orders its upstreams. A cooldown that begins in
  between lists an upstream twice, one that ends in between lists it not at all.
* `RollbackNeedsALostWrite`: a generation is published before it is persisted,
  and a sidecar write that failed is not repeated when the same generation is
  loaded again; both leave a window in which a restart can go back.
* `SpooledIsAccountedFor` and `Outbox` except an event that was appended to the
  fragment of a torn write: its `Write` returned nil, and the reporter skips the
  line the two share. Nothing counts it.
* `OnlyOutlivingHandlersLose` excepts handlers that run on when the grace ends:
  `Shutdown` cancels none of them, so a stream relayed then leaves no event
  (the comment at `main.go:235` expects a canceled one).
* `RejectionStaysVisible` does not hold after the control plane told a gateway
  that nothing changed: that answer counts as a good refresh.
* `ClosedOnce` excepts the stream of the `StreamRelay_end` finding.
* `LargeSlotIsReturned` excepts the writes that have no deadline: a comment line
  between the lines of a large event, and the closing event of a stream whose
  large event did not fit. The comment at `largebody.go:61` names the deadline as
  what stops a slow reader from holding a slot; these two writes are outside it.
* `BodiesAreAccountedFor`: concurrent offers pass the byte bound together, so the
  queue may exceed it by one record for every other offer under way; a post cut
  by the shutdown, and what `Run` leaves queued or in a batch when it returns
  (`bodies.go:177`), is neither delivered nor counted, and nothing is before it.
* `DueReadBegins` is about a configured upstream: the catalogue skips any other.
  The wait is one retry period while the upstream's own last read did not fail and
  the longest back-off otherwise.
* `BilledIsPriced` is about an answer that named its generation; without that there
  is nothing to look up. A cost that is not found, or a lookup that the pool or the
  drain refuses, is counted as missing and the event goes without.
* `StaleOwnershipEnds`: a confirmation answered before a release is cached after
  it, so a released object may be taken for owned for one lifetime of the cache
  and the longest call that caches one (a lookup's timeout or a bind's budget).
* `ModelsRouteAgrees` excepts a key without the chat grant (`pipeline.go:146`), a
  name with `:online` on a key without web search, and a catalogued model whose
  upstream the key has no credential for: the route lists all three, a request is
  refused. The first is meant so (`chat_capability_test.go:18` and `:63`). Limits,
  quotas and a busy gateway are not judged.
* `AdmittedIsGranted` is stated with the code's own reading of two corner cases:
  a name behind a tilde is not the vendor's bare name, so a denial of
  `anthropic/*` does not reach `~claude-…`, and a reserved name with a leading
  space is not recognised as reserved.
* `DebtHoldsWhileAsked` is about a key that keeps asking: the collection of an
  idle key forgives its token debt. At the code's constants that takes a debt of
  more than an hour's refill.

### Fairness

* `UsageOutbox`: the reporter's ticker loop and the daily prune go on (weak);
  the supervisor restarts the process (weak); a write call returns (weak). A
  control plane asked again and again answers at last, and an open, read or
  removal retried again and again succeeds (strong): the code retries all of
  them for ever, with a bounded back-off, and promises delivery only under that.
* `SnapshotStore`: the poll ticker and each step of a refresh go on, the
  supervisor restarts (weak); a source polled again and again answers at last
  (strong on the load steps).
* `CostLookups`: the grace is a timer, goroutines run, and a canceled lookup
  gives up because its context is done (weak). No handler is assumed to return
  and no record to be published.
* `StreamRelay`: the relay's own steps, the request's deadline, a read whose
  context has ended and a write whose deadline has passed or whose client is
  gone (weak). The upstream may stay silent and no client is assumed to read.

The other runs check safety only and assume no fairness.

### Findings

The runs expected to be violated state what a comment, test or document of the
repository says, and TLC shows how the code does otherwise:

* `UpstreamCall_resend`: the two passes of the ordering ask the shared health
  record separately, so an upstream can be listed twice and a request that timed
  out is sent there again.
* `StreamRelay_end`: a chat stream with an unreadable chunk, an upstream error
  and no `[DONE]` is recorded as unreadable "after its end" and gets no end.

Three more observations are not among the runs:

* `Prune` removes a shipped day file and leaves its offset in the checkpoint. With
  a retention of one day (`config.go:391` accepts any number from 0), a request
  from before midnight that is recorded after the removal makes the file anew; the
  reporter seeks past it, `FullyShipped` answers true and the next `Prune` deletes
  an event that was never sent. TLC finds it as a violation of
  `ShippedIsConfirmed`, checked alone with `Retentions = {1}`, `MaxDay = 1`, three
  events and three inodes, without crashes or torn writes. At the default of 90 days no request is that late, and
  the theorems say that nothing else can cause it.
* One key's own rejected credential, retried like any failure, counts towards the
  cooldown of the shared upstream (`upstream.go:292`, while the comment at
  `upstream.go:119` says such a credential says nothing about it).
* The events a torn write or the end of the grace loses, above.

## 4. Proofs

Proved with TLAPS for every value of the constants: any number of requests,
calls, streams, documents and records, any limits, periods and pool sizes. The
bounds of the runs (on time, lines, replacements, crashes) are constants too, so
a theorem holds however large they are.

What is assumed of the constants, one named `ASSUME` per module:

| Assumption | Says, beyond the types of the constants | Because |
|---|---|---|
| `OutboxAssumption`, `SnapshotAssumption` | - | - |
| `CostLookupsAssumption` | the two sets of requests are finite and disjoint | a request is on one surface |
| `UpstreamAssumption` | every outcome is one `callUpstream` reacts to; the model's "no upstream" is not an upstream | `UpstreamCall` sorts all of them |
| `LimiterAssumption` | finitely many requests; the limits in use are positive and have a largest; a key is idle for at least a minute before it is collected | `keyLimits` puts the default for a limit that is not positive; a limit is a machine integer; `idleTTL` is an hour |
| `StreamAssumption` | the streams are not among the other holders of the pool; a line can be as small as a line break | a request has one handler; a blank line is one |
| `HandlersAssumption` | finitely many requests; every document is a `Document`, every surface one of the server's | the type of what `build` publishes |
| `SinkAssumption` | finitely many records; none is empty | a record carries its request |
| `CatalogAssumption` | the model's "no upstream" is not an upstream; the configured ones are upstreams | - |
| `OwnershipAssumption` | times, sizes and budgets are positive | their defaults in the code |

The theorems of the outbox name what they need beyond that as hypotheses, because
the code can be configured otherwise. All but `TypeCorrect` need `Outliving`: the
retention is off or longer than a request can last (the default is 90 days; the
observations above say what happens at one day). `NoEventIsLost` also needs `Shipping`:
the process ships its events whenever it is started (`LLMGW_USAGE_PUSH`; without
it retention deletes by design what nobody shipped).

In each module the properties follow from one inductive invariant `IInv`, proved
as the theorem `Invariance` (split in named parts in `SnapshotStore_proofs` and
`CostLookups_proofs`). The invariants were checked with TLC before they were proved.

**`UsageOutbox_proofs`**: `TypeCorrect`, `NoEventIsLost`, `CheckpointsAreTrue`,
`OutboxIsKept`. An event is followed from its inode to the control plane, and
everything rests on a removed file never coming back under its name:

* `Timely`, `Held`, `Pruning`: a day is over (`Over`) when none of its requests
  can still be running. A request to be recorded is of a day that is not over;
  what retention is about to delete is of a day that is. So a handle is on the
  file of its day, or on one removed after the last write to it;
* `Recorded`: what a write left in a file says how it returned, and there is one
  write per event in all the files together;
* `Offsets`: both checkpoints, in memory and saved, are ends of lines of the file
  that now has the name, the saved one behind the other, so a restart goes back
  and never ahead;
* `Reading`: every event that can be read between the checkpoint and the
  reporter's position is in its batch, and the batch is settled before the
  checkpoint moves.

`NoEventIsLost` adds that what passed retention's judgement is still shipped up
to its end when it is removed, two steps later (`Shipped`): a day that is over
gets no more writes. `CheckpointsAreTrue` adds that what lies before a checkpoint
is settled (`Confirmed`). `OutboxIsKept` maps each step to `Accept`, `Settle` or
a stutter (`Transfers`): a batch holds only events that were accepted and not
swallowed, and an append can swallow its own event only.

**`SnapshotStore_proofs`**: `TypeCorrect`, `SidecarIsAFloor`, `NoSilentRollback`,
`OnlyAppliedIsCached`, `CacheIsNeverBelowSidecar`, `RejectionIsVisible`. None of
them but the first is inductive: that a served generation is not below the
sidecar needs what the process remembers of the sidecar. The invariant's parts:

* `Guard`: what `highWater`, the sidecar, the served generation and the highest
  one ever served have to do with each other at each point of a refresh, and
  which of them may lag once a write was lost;
* `Custody`: where the bytes between `Load` and `Accept` came from (a pending
  document is the one being built or just published; the cache was published),
  and in which order cache and sidecar are written;
* `Visible`: a file that was refused is newer than the remembered identity of
  the one served, at every point of the next refresh, so that the refresh cannot
  take the refused file for the one in place.

**`CostLookups_proofs`**: `TypeCorrect`, `CountersCorrect`, `NoLookupIsLost`,
`ShutdownRecords`, `DrainAdmitsNothing`. The counters are proved as cardinalities
of the sets of lookups that hold a slot or are pending. From them a wait group
at zero means that no lookup is pending (`WaitGroupZero`). The invariant
`Phases` ties the main goroutine's position to the drain flag, the spool and the
handlers; `Ledger` says, for each request, how many events were written given
where its handler and its lookup are.

**`UpstreamCall_proofs`**: `TypeCorrect`, `Bounded`, `NeverResends`, `TriesEvery`.
The properties speak of attempts made, the invariant of where in its list the
call stands:

* `Shape`: how long the list can be at each question of the two passes. At most
  four entries, two names listed twice, which is why `Bounded` holds for
  disturbed calls too (`Spent`);
* `Ordered`: while nobody changed the record a call reads, the list is the one
  the two passes make of that record, and in the end a permutation of the names;
* `Trail`: an attempt the loop moved on from lies behind it, and every usable
  reference behind it was tried;
* `Settled`: an answer that settles the call is the last attempt.

**`Limiter_proofs`**: `TypeCorrect`, `CountIsExact`, `RateIsBounded`,
`ConcurrencyHolds`, `DebtHolds`, `RetryAfterSuffices`. A bucket is refilled only
when it is looked at, at a rate that may have changed, so its level says little
in between. The invariant speaks of what it could hold by now at the fastest
rate in use (`Pot`): for every moment since which requests are counted, those
admitted and the potential together stay below what refills (`Rate`); the token
balance the history keeps is never below the potential (`Owing`); a collected
key had been idle so long that its potential was a full bucket (`Custody`); and
a client told to wait finds its bucket refilled by then, also when others refill
it meanwhile (`Promise`). Products of two variables are kept in lemmas of their
own (`Products`, `RefillFacts`).

**`StreamRelay_proofs`**: `Whole`, `EndsOnce`, `SlotsAreKept`. `Flow` ties what
the client has received to the relay's position: no end while it reads, a frame
that closes the answer exactly when the extractor is done, and, once the ending
is classified, a status that says no more than what went out (`Outcome`).
`SlotsAreKept` is the refinement of `Slots`: the pool's counter against the set
of holders, over reads, writes, closes and the other holders.

**`Server_proofs`**: `EveryRequestIsAccounted`, `OneViewPerRequest`,
`UnpricedAnswersAreCounted`, `PoolsAreKept`. `Fate` says of one handler what it
holds, has recorded and was charged, given where it is and the document it read
first: before it has recorded, which checks it has behind it (`Working`); after,
that events and charges agree with the status, and cost and counters with what the
answer named and the lookup found (`Settled`). A handler
touches no record but its own, so one step of one handler is described once
(`Turn`), with what it does to each pool (`Moves`); the invariant and the three
refinements of `Slots` follow from that. `FirstOf` is handled by a lemma: a
list of checks that passes had no condition that holds.

**`Background_proofs`**: `NoBodyVanishes`, `ReadsBeginInTime`,
`OwnershipIsForgotten`. The three parts share no state, and each has its part of
the invariant:

* `SinkInv`: a record that was sent is in exactly one place, or counted as
  dropped (`Custody`); the byte counter lacks exactly the records sent and not
  yet counted (`Counter`); what is queued and what has passed the check keep to
  the bound together (`Memory`), up to the largest record, which exists because
  the records are finitely many (`SomeBound`); before the process is told to stop
  nothing was abandoned (`Unstopped`). The sums are recursive functions over
  sequences; the facts about them (of a concatenation, of a list without
  one record, their bound) are proved by taking a least counterexample, since induction with
  an operator parameter is not available;
* `CatalogInv`: the time a due read has waited and the time left to the next
  wake are bounded together (`Waiting`), and a back-off belongs to an upstream
  that failed (`Backing`), so any other is read at the next wake;
* `OwnershipInv`: a call that may cache a confirmation began, or was answered,
  before the release and is over in time (`InTime`); what is cached ends in time
  and the list is in order of expiry.

### Only model-checked

* All liveness properties: `ENABLED` and fairness are out of this prover's reach.
* `Fences`: `AdmittedIsGranted`, `RefusalHasACause`, `ModelsRouteAgrees`. The
  module walks trees of tools with RECURSIVE operators, about which tlapm cannot
  reason.
* The counterexamples of the findings.


## 5. Not modelled

* How a request is rewritten for its upstream (parameters, reasoning, headers)
  and how an answer's fields are renamed: formatting without state.
* The fields of image, speech and transcription bodies and the multipart form:
  one refusal in `Passthrough`.
* The reporter's queue gauges, metrics, health, upstream probes: they report and
  decide nothing.
* The self-report sent with a poll, the limits, quotas and unknown-field check of
  a document.
* Ownership intents: they keep no state in the gateway.
* Configuration parsing and start-up wiring (pure, at start), the key generator
  (its writes are `Publish` in `SnapshotStore`), version information, the wording
  of errors.

## 6. Plan

The modules, runs and theorems planned for this project are done. What could
follow, should the code move there: the judgement of `Fences` written with
recursive functions over a bounded depth, so that it can be reasoned about in
TLAPS; the unknown-field, limit and quota checks of `build`; and the fields of
the image, speech and transcription bodies.
