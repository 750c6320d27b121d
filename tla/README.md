# Verification of tusker-gateway

TLA+ models of the parts of tusker-gateway in which several requests, threads or
processes touch the same state, the TLC instances that check them and TLAPS
proofs of what matters most. Source paths are relative to `src/tusker_gateway/`.

* [What the system is](#what-the-system-is)
* [The modules](#the-modules)
* [The runs](#the-runs)
* [The proofs](#the-proofs)
* [Where the code and its documentation disagree](#where-the-code-and-its-documentation-disagree)
* [What is not modelled](#what-is-not-modelled)
* [Plan](#plan)

## What the system is

tusker-gateway is an OpenAI-compatible HTTP gateway (aiohttp, one event loop per
process) in front of many model providers. A client names a *pool* or a model;
the gateway picks a provider and a model, forwards the request, streams the
answer back and falls over to another candidate when one fails. State that must
outlive a process is kept in SQLite, or in one PostgreSQL shared by all
processes: in Kubernetes a rolling update or a canary runs two or more of them
on the same tables. Store calls of the chat path run in worker threads
(`asyncio.to_thread`), so between two of them, and between the read and the write
inside one of them, other requests and other processes go on.

### Components

| Component | State it keeps | Operations | Interacts through | What makes it correct |
|---|---|---|---|---|
| Circuit breaker, `circuit_breaker.py` | one row per (provider, model): state, failure counters, cooldown, probe slots, payload ceiling | `check`, `record_success`, `record_failure`, `release_probe`, start-up recovery, payload ceilings | rows shared by processes; called around every dispatch | a half-open episode admits only its limit of probes, no slot stays taken, N failures trip it, an open route is probed again |
| Idempotency, `idempotency.py` | one record per key: hash, lease token, lock, stored response | claim, replay, renew, complete, abandon, takeover, prune | middleware around the handler; a renewal task; worker threads that survive cancellation | one handler per key at a time, a stored response is final, replays are faithful |
| Request routing, `endpoints.py`, `pools.py` | local to a request: excluded candidates, pass, attempts, cycle of failovers; shared: cooldowns, breakers | `_call_with_pool_fallback`, stream pump, failover before visible output | calls the breaker, the tracker, the provider client and the budget | a candidate is tried once per call, nobody healthy is passed over, no stream is spliced, the request ends |
| Rate limit and budget, `rate_limit.py`, `budget.py` | a token bucket per key; usage rows per key, period and window | `check`; `check`, `record`, `refund` | called by each handler before, during and after the request | admissions are paid for, a request is charged once or not at all, overspending is bounded |
| OAuth rotation, `passthrough.py` (`CodexTokenRotator`) | credentials of each seat in each process, failure cooldowns | `get_token`, `invalidate_access_token`, `_persist`, reload | one database row per provider holds all its seats; the authority accepts each refresh token once | seats that can be told apart are never mixed up, the live token is stored, a process with an expired token recovers |
| Enrolment, `copilot_enroll.py`, `codex_oauth.py`, `cli.py`, `tools/enroll_codex_credential.py` | `auth.json` and its lock, the row of the config store | login, import, remove, the rotators' mirror | files and rows that several programs replace | what one saves undoes nothing that another saved |
| Configuration, `config_store.py`, `config_runtime.py`, `admin.py` | tables, generation counter, in-memory snapshot, what the services were built from | admin writes with If-Match, compare-and-swap, `reload_now`, `_poll`, `_apply` | a generation counter that every process polls | a snapshot under the current generation is exact, processes converge, conditional writes lose nothing |
| Cooldowns, `cooldown.py`, `persistent_cooldown.py` | windows of models, providers, capacity groups; permanent failures; a table that mirrors them | `cooldown`, `record_failure`, `clear`, hydrate, purge | set by failures, read by selection | a restart or a shorter window does not end a longer one |
| Capacity leases, `provider_usage.py`, `passthrough.py` | calls in flight per provider group | acquire, release, quarantine | a lease is held by a stream until it is closed | a slot is taken below the limit and given back once |
| Audit log, `audit.py` | a hash-chained file | append under `flock`, retry, fail closed | every request; several processes | the chain verifies after every fault, a request that goes on is recorded |
| Native approvals, `native_question.py`, `approval_store.py` | pending approvals in memory and in a table | ask, answer, replay, expire | several processes hydrate the same table | only the answer to a question of this conversation, in time, allows an action |
| Streams, `endpoints.py` (`_normalize_stream`), `redaction.py`, `translators/anthropic.py` | per stream: indexes of calls, held-back texts, open block, finish | a frame, the three ends | provider to client, through two translators | text arrives whole, calls stay apart, blocks are well formed |
| Catalog, `catalog.py`, `pools.py` | entries of each source, the models of pools, managers | refresh, hook, prune, reload | a refresh loop with hooks in threads, the configuration's reload | outages take nothing away, pools converge to what is listed |
| Policy gate, `endpoints.py`, `safety.py` | per request: rules, denials, approvals, candidates | contract, question, denial of a turn with tools | between provider and client; approvals | nothing risky reaches the client unasked |
| Embedding and rerank, `providers/embed.py`, `providers/rerank.py` | cursor of the round robin, payload ceilings | preflight, loop over backends | breaker, tracker | a refused request was refused by every backend |
| Media, `providers/video.py`, `providers/image_generation.py`, `providers/tts.py` | a job at the provider, images so far | create, poll, fetch, stream | provider's job; capability rows | the wait is bounded, an answer is final |
| Background probes, `maintenance.py`, `*_qualification.py`, `tool_capability.py`, `model_capability.py` | evidence rows per route, clocks of three cadences | batch, probe, record; the loop | selection's gates read the rows | a probe's outage does not take a proven route away, no cadence starves |
| Command line transports, `provider_adapters/`, `kilo_worker.py` | processes, call file, `active.json`, locks of the warm server | a turn with a CLI; requests on a warm server; idle watchdog | pipes, files, signals | calls win over text and reach their request, no process stays, turns end |
| Storage, `storage.py` | connection pool, degraded flag | connections, placeholder and `BEGIN` translation | used by every store | critical stores fail, advisory stores go without |
| Everything else | see [What is not modelled](#what-is-not-modelled) | | | |

### Hard behaviour

* *Read, then write.* Most stores read a row in one transaction and write it in
  the next. What another caller does between the two is the main source of
  surprises (breaker, payload ceilings, OAuth row, budget check and record).
* *Cancellation.* A deadline (`deadline.py`) or a client that leaves cancels the
  coroutine; its worker thread commits all the same.
* *Processes.* Rolling updates overlap: start-up recovery, reload and takeover
  act on rows of processes that are alive.
* *Retries.* Failover calls the loop again, refused refreshes are retried, a
  lapsed lease is taken over.
* *Time.* Cooldowns, leases, windows and expiries race with late answers.
* *Streams.* Text and tool calls arrive in pieces, are held back, repaired or
  numbered anew, and may end in any of several ways at any frame.
* *Other programs.* A command line transport shares files and locks with a CLI,
  its bridge and a warm server; enrolment shares `auth.json` with the gateway.
* *Schedules.* One task serves several cadences of background work.

`PROJECT.json` lists these hazards line by line, with the properties that watch
each of them.

## The modules

Each module keeps the control flow of its component: one action per operation, or
per transaction of an operation when other callers can act between two of them.
Payloads, wording and ranking are left out. Definitions marked `\* Fault:` are
plausible mistakes; they are not part of any specification and serve to test that
each property notices one.

| Module | Component | Composed in |
|---|---|---|
| `CircuitBreaker` | the breaker's row of one route | `MCCircuitBreaker`, `MCBackends` |
| `Idempotency` | the record of one key | `MCIdempotency` |
| `RequestRouting` | a chat request and the loop over candidates | `MCRequestRouting` |
| `Admission` | token bucket, budget, the chat handler's calls of them | `MCAdmission` |
| `TokenRotation` | the seats of one OAuth provider | `MCTokenRotation` |
| `ConfigRuntime` | store, reload, poll and admin API | `MCConfigRuntime` |
| `CapacityLeases` (abstract: `CapacitySlots`) | the capacity gate | `MCServices` |
| `ProviderHealth` | cooldowns and their mirror | `MCServices` |
| `Approvals` | native approvals | `MCServices` |
| `AuditLog` | the hash-chained file | `MCServices` |
| `StreamTurn` | one streamed turn, OpenAI and Anthropic | `MCStreams` |
| `AutoCatalog` | catalogs and the pool that follows them | `MCStreams` |
| `MediaRoutes` | embedding and rerank | `MCBackends` |
| `MediaJobs` | videos, images, speech | `MCBackends` |
| `ToolGate` | the policy gate of turns with tools | `MCBackends` |
| `Qualification` | background probes and their rows | `MCBackends` |
| `Maintenance` | the scheduler of the probes | `MCTransports` |
| `CliTurn` | a turn with a CLI of its own | `MCTransports` |
| `WarmBroker` | requests on a warm server | `MCTransports` |
| `Enrolment` | `auth.json`, the store's row, their writers | `MCTransports` |

`MCServices`, `MCStreams`, `MCBackends` and `MCTransports` put modules that share no
state side by side: a variable `running`, chosen initially, says which one moves, and
the others keep one initial state. The state space is the sum of theirs, not the
product. Where modules do share state the sharing is inside one module
(for instance the stream, its guard and the gate in `CapacityLeases`, or the
rotator, the reload and the row in `TokenRotation`).

### Shared rows and requests

**CircuitBreaker.** The row of one route. `Check` reads it, `Reserve` is the
conditional UPDATE of `_reserve_probe`, `ReadForSuccess`/`WriteSuccess` and
`ReadForFailure`/`WriteFailure` are the two transactions of the recording
operations, `EndSilently` is a call that ends without either (a cancelled caller
goes through `release_probe`; a 413, an approval, a policy refusal and the
request-level errors of the embedding path touch nothing), `Start` is the recovery
in `_ensure_db`. The histories `left` and `lowered` say, for the current half-open
episode, how many calls ended with nothing recorded and whether a cancelled one
lowered its flag. `age` is the time since `opened_at`, saturated at a bound that no
cooldown exceeds. `lease` is no column: it remembers for each call whether the
slot it took belongs to the current half-open episode.

**Idempotency.** One key. The middleware coroutine (`pc`) and the worker thread of
its claim (`thread`) are separate, because a cancelled claim leaves its thread
behind and the middleware then polls for the orphan (`ReleaseOrphan`,
`StopPolling`). `AtomicClaim` is TRUE for SQLite, where `BEGIN IMMEDIATE` locks the
database for the whole claim, and FALSE for PostgreSQL, where `storage.py:298-299`
turns it into `BEGIN` and the claim reads (`ClaimReads`) before it writes
(`ClaimWrites`). A request stands for its lease token, and for its response. Four
ends cannot release a reservation and have a stage of their own: a crash
(`"crashed"`), and (`"left"`) a storage error where the lease is renewed, stored or
released, one that ends the polls, and a cancellation while the renewal task of a
finished handler is awaited (`idempotency.py:540`).

**RequestRouting.** One chat request. `Loop` is `_call_with_pool_fallback`:
selection in the active pool, then the next pool, then a second pass that may probe
cooling candidates (`StartRecovery`), then a third that accepts stale tool evidence
(`StartCompatibility`). `Attempt` is the dispatch and its failure accounting, `Pump`
the stream handler, which calls the loop again (`FailOver`) while the client has
seen nothing. `Disturb` is the rest of the gateway: cooldowns and quarantines come
and go at any time. The breaker's verdict is any it can give.

**Admission.** The rate limit and the token budget of one key, with the chat
handler's calls of both. `CheckRate` is the single transaction of
`RateLimiter.check`, whose clock was read before it; `PassCap` and `Refuse` are the
reads of `BudgetTracker.check`, one connection per cap; `CommitRecord` and
`CommitRefund` are the transactions of `record` and `refund`, which swallow an
outage. A member of `Req` is a place for one live request after another.

**TokenRotation.** The seats of one provider. `Begin` to `RefreshRefused` are the
steps of `get_token` under the rotator's lock: read the shared row, adopt a later
credential of the same seat, or refresh, then persist. `Authority` is the token
endpoint. `CasRead` and `CasWrite` are the SELECT and the UPDATE of
`_cas_persist_credentials`; `ReloadRead` and `ReloadApply` are a reload, which
replaces a process's credentials without the lock; `Revoke` is
`invalidate_access_token`. A credential is its seat and its generation; later
generations expire later. Whose a record is, `_matches_identity` tells by the most
specific claim that both records carry (`Claim`, ending with the account, which a
team shares), and the first record of the row that matches decides: seats without a
comparable claim are taken for one, which `ToldApart` excludes. `excused` holds the seats whose rotation was lost to a
fault or to an overlapping write.

**ConfigRuntime.** The tables and the generation in the database, and per process
the snapshot (`store`), the reloads of three actors (the poll's thread, the thread
that stores a rotated credential, the event loop in an admin request), the poll and
the application (`loop`). A reload reads the generation on one connection
(`ReadGeneration`) and then each table by itself; a row is the generation that wrote
it, so a snapshot can be compared with the tables exactly. Admin writes of pools
and keys, with and without If-Match, PATCH as read and write, authentication of a
request, faults of the reads and of the rebuild.

### Services

**CapacityLeases** has the counter of each group, the lease of each call and where
it is on its way: an adapter's stream, an HTTP stream with its guard and its
finalizer, a whole answer. A step ends where the code awaits, which is where a
cancellation strikes. `CapacitySlots` is the promise, a set of holders per group;
`LeasesAreSlots` is `INSTANCE CapacitySlots WITH` the refinement mapping (the slots
in use are the calls whose lease is held).

**ProviderHealth.** Windows (time left) of models, a provider and its group, the run
of failures and permanent failures; the mirror rows, hydration at start, writes that
fail; a dispatch is allowed when no window that applies is open.

**Approvals.** Proposal, hydration, answer, replay, expiry and the table's own
transactions, over processes and retries of one conversation's requests.

**AuditLog.** The file as a sequence of lines, each with the events its hash covers;
`flock`; writers that read the tail, write, flush and close, each of which may fail
and leave bytes in the buffer; retries; synchronous appends without a wait; the
reply that the fail-closed setting allows.

### Turns and catalogs

**StreamTurn.** The frames of a provider through `_normalize_stream` and the
Anthropic translator: seven ways to number calls, tool markup in text, the ends of
texts that redaction holds back, finish reasons, the three ends of a stream (finish
and `[DONE]`, `[DONE]` alone, the connection ends). `tangled` marks the turns in which
the code gives a part to the wrong call (a finding), which `CallsStayApart` excludes.

**AutoCatalog.** Registries, managers and `PoolConfig` objects numbered as they are
made, the refresh loop with its hook in a thread (`HookReads`, `HookReplaces`), hooks
of cancelled loops that go on (`OldHookReplaces`), reloads that build a manager on
the same or on new `PoolConfig` objects (`BuildAgain`, `BuildNew`) and publish it.

**ToolGate.** Contract, denial, question and high-impact approval of a turn with
tools; whole answers, held and passed-on streams; the candidates tried one after
another; the operator's mode and rules. Approvals are used once.

**MediaRoutes** has the requests of one endpoint with their own lists over a shared
cursor; **MediaJobs** one video job (create, poll with growing pauses, fetch) at five
providers, or the streamed image of Codex, or a direct answer, and what the
endpoint records of it.

**Qualification** keeps the evidence rows of the routes of one kind of probe, the
batch a cycle picks, the probes in flight, and the gates that read the rows;
**Maintenance** the loop that wakes for three cadences.

### Other programs

**CliTurn.** The gateway's side of a turn (reader of the pipe, poll of the call
file, deadline, cancellation, stopping the process), the CLI (prints lines, ends
when it likes), and the bridge (writes the call once). **WarmBroker.** Requests with
the service lock and the request lock, the server and its sessions, the bridge that
finds a request through `active.json`, restarts, the idle watchdog; the history
`strays` holds the requests whose session went on after they had left, which nothing
in the code rules out. **Enrolment.**
Processes that log in, import, remove, enrol through the tool or rotate; each reads
the file or the row and later replaces it, some under the lock.

## The runs

`tlc -workers 2 -config <cfg> <module>` checks one.

| Run | Instance | What it shows |
|---|---|---|
| `backends` (`Backends.cfg`) | breaker: 2 processes, 2 calls, threshold 2, window 3, 1 probe, cooldowns 1 and 2, calls cancelled or unrecorded, one restart; media: 2 backends and 2 requests, jobs with a wait of 7; gate: 2 candidates, 2 parts; probes: 2 routes of 2 providers, batches of 1 | `ProbeLimit`, `NoOrphanedSlot`, `OpenIsProbed`; `RefusedByAll`, `WaitIsBounded`, `NothingRiskyUnasked`, `ProvenStaysAdmitted` |
| `transports` (`Transports.cfg`) | a CLI of up to 2 lines at each transport; 2 requests on a warm server; scheduler with three cadences; 2 processes that enrol, 3 logins | `StreamedCallsOutrankText`, `GuardedRunsLeaveNone`, `TurnsEnd`; `CallsReachTheirRequest`, `WarmTurnsEnd`; `NoCycleStarves`; `SavesAreExact` |
| `services` (`Services.cfg`) | 4 calls of a bounded, an unbounded and no group; 2 processes, one provider; 2 requests and processes of a conversation, approvals of idle life 2 and absolute life 3; 2 events of 2 processes, one from the event loop, 4 attempts | `LeasesAreSlots` (refinement), `SharedWindowsAreServed`, `LateAnswersDoNothing`, `ChainIsUnbroken`, `AnsweredIsRecorded` |
| `streams` (`Streams.cfg`) | 2 calls, 3 frames, every style and ending; 2 models of 2 providers and models.dev, 2 events | `TextArrivesWhole`, `CallsStayApart`, `BlocksFollowTheTurn`; `OutagePrunesNothing`, `CatalogConverges` |
| `config` (`ConfigSnapshot.cfg`) | one process in full and others that write, 3 writes or faults | `SnapshotIsExact`, `SnapshotConverges`, `ConditionalPatchIsExact` |
| `routing` (`Routing.cfg`) | 3 candidates, one per class of tool evidence, in 2 overlapping pools, streaming, 2 attempts, 1 failover | `ExhaustedMeansTried`, `BlamedOncePerAttempt`, `NeverSplices`, `Terminates` |
| `admission` (`AdmissionBooks.cfg`) | 2 live requests, 3 days, caps per day, month and pool; rate limit or budget; cancellations, one outage | `AdmissionIsPaidFor`, `ChargedOnceOrNotAtAll`, `OverspendIsBounded` |
| `tokens` (`TokenSeats.cfg`) | 2 processes, 2 seats of one team told apart by their label, of which one rotates once, one fault | `SeatsStaySeparate`, `LiveTokenIsStored`, `SeatRecovers` |
| `tokens_lost` (violation) | 2 processes, both seats rotate, no fault | an overlapping write undoes a rotation |
| `idem_reserve` (`IdemReserve.cfg`) | SQLite, 2 duplicates and 1 other request, lock 2, life time 3, every fault | `RunnerHoldsReservation`, `ReservationIsOwned` |
| `idem_postgres` (`IdemPostgres.cfg`) | PostgreSQL, same requests, all faults, leases may lapse under their holder | `CompletedIsFinal` |
| `idem_takeover` (violation) | PostgreSQL, 3 duplicates, crashes | two claims take one lapsed reservation over |

The longest, `config`, takes about two and a half minutes with two workers;
`backends` is the largest, with 1.2 million states. Type invariants that a theorem
establishes are not run again; the others were run once with their module (each
module has one).

**Why the bounds suffice.** Every hazard needs two actors that overlap; each
instance has two, and a third where one has to crash first (idempotency).
Thresholds and windows are the smallest at which "one too early" and "one too late"
differ. The cooldowns 1 and 2 of the breaker tell the policy's from an override.
An approval's idle life of 2 lets a question that is repeated after one step of time
extend one process's copy while the other's runs out and deletes the row, and the
absolute life of 3 cuts the second extension short.
Three days contain two boundaries of a day and one of a month of two days. One
rotation with two processes contains every race of refresh, adoption and reload
for one seat; its safety was also checked with two rotations (855,000 states) and is
proved for any number. A third seat that only the others' different claims tell
apart, with two that are taken for one, was checked for safety without faults
(`LastIsToldApart`, 6.4 million states). Three frames contain a call that is opened, interrupted by
another and continued, and text on both sides of a call; two models, one priced
by its catalog and one by models.dev, are the two ways into a pool, and catalogs
were also checked with three events (1.2 million states). Three writes or faults of
the configuration are one for each of a reload's two reads and one after. The
audit log was also checked with three events and two attempts (830,000 states) and
with two writers of the event loop (1.1 million). Two lines of a CLI are text and
an error, or text and the call. The wait of a video is long enough for the
pauses to have grown once and for a slow answer to cross the deadline.

All bounds are constants (`MaxAge`, `MaxStarts`, `MaxTime`, `MaxOutages`, `MaxGen`,
`MaxFaults`, `MaxFailovers`, `MaxEvents`, `MaxFrames`, `MaxLines`, `MaxPolls`, `MaxId`,
`Longest`, `Attempts`, ...), and where a behaviour stops at one, its configuration turns
deadlock checking off: requests, leases and commands really end, so quiet states
are legitimate.

**Fairness.** Liveness is stated under what the code's scheduling gives.

* `CircuitBreaker` (`OpenIsProbed`): time passes, and traffic for the route goes on
  with a verdict for every call, because `_await_attempt` puts each attempt under a
  timeout.
* `RequestRouting` (`Terminates`): the coroutine runs and each attempt and stream
  ends, because idle budgets and the deadline end them.
* `TokenRotation` (`SeatRecovers`): threads run and `get_token` returns (the token
  endpoint has a 10 s timeout); strong fairness of `Begin` for an expired credential
  says that round robin comes back to its position although it is unavailable again
  and again.
* `ConfigRuntime` (`SnapshotConverges`): threads run and handlers end; strong
  fairness of booting and of the poll, whose coroutine gets its turn although the event
  loop is busy now and then.
* `AutoCatalog` (`CatalogConverges`): fetches end (they have timeouts), waits end,
  threads run and the event loop goes on.
* `Maintenance` (`NoCycleStarves`): the task runs until it is stopped, and stopping is
  not fair. The premise is that the tools' interval is below the modality's; with an
  equal or longer one the tool cycle never runs (a finding).
* `CliTurn` (`TurnsEnd`): the transport's own steps run and its deadline comes; the CLI
  need not move. `WarmBroker` (`WarmTurnsEnd`): each request's steps run and so does the
  watchdog; the server need not answer, the request's timeout ends its wait.

Reloads, revocations, events of catalogs, restarts and faults are never fair.

**Premises.** Some properties name what they need, because the code does not always
give it (each is a finding below): `ChainIsUnbroken` that no buffer was flushed behind
another writer, which had the lock in between (`overtaken`), `CatalogConverges` that no two managers have
had one `PoolConfig` (`Reused`) and that reloads make new registries,
`OutagePrunesNothing` that there is one registry, `SeatsStaySeparate` and `SeatRecovers` that a
seat's claims tell it from every other (`ToldApart`), `CallsStayApart` that the turn is
not `tangled`, `CallsReachTheirRequest` that the call is of no session that went on after
its request (`strays`), `NoOrphanedSlot` that no cancelled call has lowered the flag (`lowered`).

## The proofs

`tlapm <Module>Proofs.tla` proves every theorem for all values of the constants that
satisfy the named assumptions of the module. The assumptions are ranges of the
policies (thresholds and windows positive, cooldowns not above the clock bound, lock
not above life time, cost not above burst). The defaults keep to them; the loaders do
not enforce all of them (a lock longer than the life time, or a cost above the
burst, can be configured). TLC evaluates them in every run. `TripsLater`,
`AtomicClaim`, `Prompt` and calls that come one at a time are hypotheses of single
theorems.

* **IdempotencyProofs.** `TypeCorrect`; `StoredResponseIsFinal` (an action property:
  each statement that changes a record names a lease token or finds it expired);
  `ReplaysAreFaithful` by the invariant that a stored body belongs to a completed
  request with the stored hash; `OnlyTheHolderRuns` under `AtomicClaim` and `Prompt`, by
  `HolderInv`: a granted claim holds the record until it is given back, and the lease
  of a busy holder is never zero. Both hypotheses are needed: `idem_takeover` shows
  what happens without the first, and a lease that lapses under its holder is taken
  over by design. `ReservationsAreOwned`, under the same two and every fault, adds
  `Owned` (a reservation belongs to a coroutine that holds it, to one that still
  looks for it, or to one of the named ends) and `Awaited` (who looks for it does not
  stop before its thread is done, but for a storage error).
* **RoutingProofs**, the loop. `TypeCorrect`; `TriedOnce` by: who was dispatched in this call
  is excluded or at hand; `NobodyPassedOver` by `Swept`: in the last pass every usable
  candidate of the pools before the active one is excluded; `NeverSpliced`;
  `CallsStayBounded` by `Counted` (at most as many candidates dispatched as attempts);
  `BlamedOnce` by `Accounted`: before the request has failed, failures never get ahead
  of dispatches, and the attempt at hand has not been recorded yet.
* **RoutingProofs**, catalogs and streams. `OperatorsModelsStay` and `OutagesPruneNothing` by
  `ListsKeepThem` (what a hook has read and is about to write contains what the operator
  listed) and `FirstRegistry` (with one registry its entries are what the sources listed
  when they were last fetched, and its loop extends the first manager, which nobody
  else does). `TextsArriveWhole` by
  `NothingIsLost` (sent and held back are, in order, what was fed) and `FinishedWhole` (a
  text that came before the finish is not among those held back). `CallsKeepApart` by
  `GoodBooks`, which holds of every turn (indexes are given out without gaps, and every
  call that was booked has named one), and `Apart`, of the turns that are not `tangled`: an
  index has the parts of the call that named it and of no other. `FrameShapes` says what
  entries a frame can have, `Plain` when such an entry tells its call, and
  `PlainEntry` that it then keeps the calls apart. There is an index for every entry
  because only the opening of a call, at most `Calls` times, or one more per frame
  needs a new one. `BlocksKeepUp` by `Tidy` (only the last block is open text, the
  blocks are those of the indexes sent so far, the reason is `tool_use` exactly if there
  is one), which each part of a frame keeps and so does the whole (`OutsKeep`). The
  folds over entries, calls and parts are taken apart by `FoldRuns`: what a
  `FoldLeft` comes to is the last of values that follow one another by its step, by an
  induction that follows from the well-foundedness of the numbers (`Climb`).
* **AdmissionProofs.** `TypeCorrect` with `PastOnly` (no store call has a clock from the
  future); `AdmissionsArePaidFor` by a balance: what was admitted and what is in the
  bucket never exceed the burst, the refill up to the bucket's clock and the time
  that checks have waited; `ChargedOnce` by what each stage of a request has booked;
  `OverspendBounded` by `SpendInv` and `Covered`: a row, with a largest charge for each
  request that has passed this cap's check and not yet booked, never exceeds what the
  cap leaves and a largest charge for each place. What a check compares is a sum of rows, a fold over a set, so
  the proof first shows that this sum is the current row, by the same
  induction (`Climb`). It assumes that there are finitely many
  places and charges: the bound speaks of their number and of the largest.
* **TokenRotationProofs.** `TypeCorrect`; `SeatsAreNeverMixedUp` by `SeatInv`, which extends
  the property to snapshots, jobs and writes in flight and says, through `MatchesAreOwn`,
  that what matches a seat told apart from all others is its own; in the row no seats
  are mixed up whatever they claim; `LiveTokenIsNeverDropped` by
  `LiveInv`. Its parts: nobody holds a generation whose answer nobody has received
  (`KnownInv`); an answered rotation is the latest of its seat, and the only one
  (`AnswerInv`); a write replaces a credential of its row by the next generation
  (`WriteInv`); and every generation between the stored and the live one of an
  undisturbed seat is on its way to the row (`ChainInv`). Only the last speaks of the
  property, and it is inductive only with the others.
* **ConfigRuntimeProofs.** `SnapshotsAreExact`, `PrimaryIsRoutable` and
  `ConditionalPatchesAreExact` from one invariant, `ConfigInv`: a reload that is under
  way has read each table at or after its generation (`ReloadInv`), so a snapshot whose
  generation is current is the database (`StoreInv`); a PATCH whose expected generation
  is current has read the current row (`PatchInv`); and `TableInv` and `AppInv` carry the
  routable primary pool from the table to what a process routes by.
* **BackendsProofs**, the breaker. `TypeCorrect`: `TypeOK` alone is not inductive, since
  halving the window keeps failures below the total only if they were; `WindowOK`
  adds that, for the row and for every row a call has read. `ProbeLimitHolds`:
  `SlotInv` says that a half-open row counts at least the calls that hold a current
  slot, and that no other row has any; the UPDATE's guard does the rest.
  `OpenRowIsFree` needs `TripsLater`, thresholds above one: with threshold one the
  first failure is an upsert that leaves the slots out. `NoSlotIsOrphaned` (with
  `TripsLater`) by `OrphanInv`: a call that has not been admitted holds no slot, and a
  half-open row keeps its flag and counts no more slots than its calls in flight and
  those that `left`, until a cancelled call lowers the flag. `TransitionsWhenSerial` and
  `TripsWhenSerial` by `InStep` (what a lone call has read is still the row) and
  `StreakCounted` (the counter is the run of failures). With overlapping verdicts the
  row promises less than the documented machine: a late success closes a row that
  was tripped since, of two failures only one may count; `DocumentedTransitions` and
  `TripsAfterThreshold` are therefore theorems about serial calls and no properties
  of a run with two.
* **BackendsProofs**, probes, media and the policy gate. `ProvenRoutesStay` by `PassesAreKept`:
  the last verdict of a proven route is its row, or the row is one that the gates
  still admit. `PollingIsBounded` by `WaitType`: the range of the clock is kept because a loop
  compares it with the deadline before each request and cuts its pause to it. `RefusalsAreEarned` by
  `CallStands`: what a request has behind it in its own list has been called, skipped
  or found too large, wherever the shared cursor has moved. `RiskyCallsAreAsked` by
  `HeldIsUnseen` (of a turn that is held nothing has reached the client) and the lemma
  `CallsAreAll` (the calls that the gate judges are all those of the turn).
* **ServicesProofs.** `SlotsFollowTheirCalls` and `GateImplementsSlots`, the refinement: the
  initial states map to initial states and every step takes one slot below the
  limit, gives one back, or stutters. `LeaseInv` says that a counter is the number of
  leases held, which needs the lemmas on cardinalities, and that a call holds a
  lease exactly while it is where it should. `SharedWindowsServed` by `OwedInv`: what is owed
  of a window that was told and stored is in its row, and in the memory of a process
  that is up. `LateAnswersAreIgnored` by `LifeInv`: no copy of an approval, in the table
  or in a process, outlasts the approval's own two lifetimes. `ChainStaysUnbroken` and `AnswersAreRecorded` by
  `AuditInv`: only the holder of `flock` reads and writes (`LockInv`), a writer has not
  read an unfinished line (`TailInv`), what it has read is still the tail unless a
  buffer was flushed behind its back (`FreshInv`), a flush that nobody overtook goes where the
  attempt left the file (`Undisturbed`), and an attempt that has not failed is in the
  file before its reply is chosen (`RecordInv`).
* **TransportsProofs.** `SavesStayExact` by `EnrolInv`: only one process at a time is between
  reading the file under the lock and saving it (`WritersAreAlone`), and the row that is
  replaced without it belongs to Codex alone (`RowIsOfCodex`). `StreamsReportTheirCalls` and
  `GuardedRunsEndTheirs` by `CliInv`: which steps of the gateway's side, the CLI and its
  bridge can meet (`StepsAreInOrder`), and that only offered calls are written. `CallsStayWithTheirRequest` by `WarmInv`: the pointer file, the call
  file and the sessions belong to the request that has the lock, or to a stray, a
  request that is over and whose session went on (a finding).

Model-checked only:

* the liveness properties (`OpenIsProbed`, `Terminates`, `SeatRecovers`, `SnapshotConverges`,
  `CatalogConverges`, `NoCycleStarves`, `TurnsEnd`, `WarmTurnsEnd`), out of the prover's reach;
* the type invariants of `WarmBroker` and `Qualification`: the invariants above type what
  they speak of, and a whole batch of probes is made by a sort whose result is known
  only by induction over it.

## Where the code and its documentation disagree

Found while modelling; `PROJECT.json` quotes the line that says otherwise for each.
Two are shown by a run of their own:

1. **Two requests take over one lapsed reservation** (`idempotency.py:213`,
   `idem_takeover`). On PostgreSQL two claims can both read the lapsed record; the
   UPDATE names only the key and its row count is ignored.
2. **A concurrent refresh of another seat undoes a rotation** (`config_store.py:1345`,
   `tokens_lost`). SELECT and UPDATE of the shared row are not one step, and the row
   is left with a refresh token that was used up.

The others are kept as definitions beside the models. A definition named below does
not hold of the code: add it to the configuration named (with the constant
changed, where one is given) and TLC finds the behaviour.

| Where | What the code does | Definition, configuration |
|---|---|---|
| `circuit_breaker.py:471` | a cancelled probe gives its flag back and keeps its slot; recovery looks for the flag | `NoOrphanedSlot` without the premise `~lowered` |
| `endpoints.py:7907` | failovers start the loop with the number of failovers instead of attempts, so the attempt limit is exceeded | `RequestIsBounded`, `Routing.cfg` |
| `idempotency.py:540` | a cancellation after the handler returned leaves the reservation | action `SettleFails` of `Idempotency` |
| `passthrough.py:1100` | seats of a team without a comparable claim are taken for one by their account | `SeatsStaySeparate`, `SeatRecovers` without `ToldApart`, `TokenSeats.cfg` with `Claim <- TwoAreAlike` |
| `config_runtime.py:82` | authentication moves the generation, so the poll never retries a rebuild that failed | `RebuildIsRetried`, `ConfigSnapshot.cfg` |
| `passthrough.py:2604` | a cancelled attempt keeps its capacity slot until the process ends | `NoSlotIsStranded`, `Services.cfg` |
| `persistent_cooldown.py:302` | a permanent failure that was cleared comes back, without an end, at the next start | actions `Completed`, `Answered` and `Start` of `ProviderHealth` |
| `native_question.py:616` | an old answer counts for a newer question | `AcceptedIsAllowed`, `Services.cfg` with `MaxId = 2` |
| `audit.py:190` | a buffer is flushed after the lock has been given back | `ChainIsUnbroken` without its premise `~overtaken`; action `Close` |
| `pools.py:463` | discovered models become static when a reload reuses its `PoolConfig` | `CatalogConverges` without `Reused` |
| `config_runtime.py:334` | every reload empties the catalogs | `OutagePrunesNothing` without its premise |
| `endpoints.py:5338` | no caller passes a `session_id`: sessions are never sticky | none, the code is not reached |
| `endpoints.py:1942` | an answer of one held-back word is reported as an empty stream | outcome `"empty"` of `StreamTurn` |
| `endpoints.py:1032` | parts without ids of interleaved calls are cross-wired | `CallsStayApart` without `tangled` |
| `circuit_breaker.py:549` | the first size that is accepted becomes a ceiling | `SkippedOnEvidence`, `Backends.cfg` with `Size = {3, 4}` |
| `embed.py:687`, `embed.py:568` | successes do not end a run of failures; a malformed answer ends the loop | action `Breaks` of `MediaRoutes` |
| `image_generation.py:505` | an early preview is returned beside the result | `OneImage`, `Backends.cfg` |
| `endpoints.py:9072` | a queued job, or an answer without media, counts as evidence | `EvidenceIsMedia`, `Backends.cfg` |
| `endpoints.py:4729` | a held stream that breaks its contract is not retried | `UnseenIsRetried`, `Backends.cfg` |
| `structured_qualification.py:501` | a refused credential ends the cycle and is not recorded | `RefusedIsBarred`, `Backends.cfg` |
| `tool_qualification.py:1143` | an outage replaces a denial | `DenialStands`, `Backends.cfg` |
| `tool_qualification.py:854` | lapsed verdicts keep unprobed routes out of small batches | `UnseenComeFirst`, `Backends.cfg` |
| `model_capability.py:239` | a catalog refresh overwrites a probe's verdict | `ProbeIsNotDowngraded`, `Backends.cfg` |
| `maintenance.py:604` | another cycle's wake takes the tool cycle along | `ToolsKeepTheirCadence`, `Transports.cfg` |
| `maintenance.py:193` | the limit of structured probes is not passed on | none |
| `claude_code.py:837` | a cancelled whole answer without tools leaves the CLI running | `NoProcessIsLeft`, `Transports.cfg` |
| `claude_code.py:800` | a call written just before the CLI ends is lost | `CallsOutrankText`, `Transports.cfg` |
| `cli_streaming.py:86` | a line above 64 KiB is an unclassified error | `FailuresAreClassified`, `Transports.cfg` with `"long"` in `Lines` |
| `opencode_cli.py:456` | a session that goes on reaches the next request's manifest | `CallsReachTheirRequest` without `strays` |
| `opencode_cli.py:287` | a long turn has its server stopped as idle | `IdleMeansNoTraffic`, `Transports.cfg` |
| `opencode_cli.py:244` | one failed status stops the server under a turn | `RestartsSpareTheTurn`, `Transports.cfg` |
| `copilot_enroll.py:483`, `passthrough.py:1772` | removals, imports and the rotators' mirror drop a seat that was just added | `NewSeatsLast`, `Transports.cfg` |
| `tools/enroll_codex_credential.py:419` | enrolling a seat rolls back rotations of the others | `EnrolmentKeepsTheRest`, `Transports.cfg` |
| `codex_oauth.py:454` | `slow_down` ends the login | action `Poll` of `Enrolment` |
| `copilot_enroll.py:202` | a GitHub credential is stored for the Codex authority | none |

Seen in the models without a document that says otherwise, or too small for a row:
a late success closes a breaker row that has been tripped since
(`circuit_breaker.py:374`), and a late failure below the threshold does too (453);
concurrent failures overwrite each other's count (413); start-up recovery reopens
the row of another process's live probe (203); with several probe slots the first
success closes the row (355); with threshold one the first failure's upsert can
reopen a row with a taken slot (427). A daily budget can be spent right before and
right after 00:00 UTC (`budget.py:17-18` speaks of a rolling window). A revoked
credential adopts any stored one of its seat, also an older one
(`passthrough.py:1158-1159`). An attempt that starts within 0.25 s of the deadline is
dispatched with no time and blamed for it (`endpoints.py:4220`). One stripper of tool
markup serves content and reasoning, although `endpoints.py:1207` says otherwise;
deltas can follow a finish, and n choices get one finish between them; the Anthropic
translator opens a text block while a tool block is open when a provider mixes them,
and sends no `message_stop` after a failure in mid-stream.

## What is not modelled

* In the modelled components: the Responses handler and the Anthropic adapter's
  accounting, which repeat the chat handler's with small differences; answer repair
  and the ranking inside `select`; stickiness (no caller reaches it); the replacement
  of credentials by the admin API, cooldowns and model exclusions of seats; the short
  write of an audit line that ends exactly before its newline; the quarantine of
  composite routes and new versions of probes; the HTTP relay and the semaphore of
  `kilo_worker.py`, and the drains of a CLI's standard input and error; the formats of
  single providers (video payloads, catalogs, tool markup), which are inputs.
* `NothingRiskyUnasked` says nothing of the audit mode, in which the gate only writes
  down what it sees and which `k8s/deployment.yaml:225` sets.
* Whole components: semantic and exact-match caches, turn capture, metrics, tracing,
  dashboard (best effort, and nothing depends on them); protocol probes (pure
  functions of one answer, started by an operator); scores that rank candidates (to
  routing any choice, so its results hold for all of them); the lookup of a key in
  immutable objects; the connection pool of `storage.py`; `k8s/`, tests and the tools
  other than the enrolment's.

`PROJECT.json` names the files of each component.

## Plan

Done: `CircuitBreaker`, `Idempotency`, `RequestRouting`, `Admission`, `TokenRotation`
(what every request passes through, and what processes do to one another), then
`ConfigRuntime`, the services around a request, streams and catalogs, the media and
policy paths, background probes, command line transports and enrolment; proofs of
the safety properties of all of them but those listed as model-checked only.

Next, in this order:

1. An abstract breaker (closed, open, a bounded set of probes) that
   `CircuitBreaker` implements while calls do not overlap, and an abstract
   once-per-key executor that `Idempotency` implements on SQLite.
2. The Responses handler in `Admission` and `RequestRouting`, with its own refund.
3. Runs of their own for the findings that are now definitions only, most of all
   `NoSlotIsStranded`, `RebuildIsRetried` and `EnrolmentKeepsTheRest`.
