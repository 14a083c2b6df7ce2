# A TLA+ verification of Tritium

Tritium quantizes, trains and serves additive-ternary neural networks. This
directory verifies the parts of it in which concurrency, cancellation, crashes
and resource accounting decide correctness:

- the serving path (`crates/tritium-serve`) and the paged key/value pool it
  drives (`crates/tritium-cuda/src/cuda/graph_raw.rs`);
- what survives a crash in training: the distributed checkpoint
  (`crates/tritium-train/src/dcp.rs`) and the campaign that resumes from it
  (`crates/tritium-cli/src/campaign.rs`);
- the thread-simulated collectives (`crates/tritium-train/src/dist.rs`);
- the resumable SALT work item (`crates/tritium-salt/src/pipeline.rs`, over the
  conversion run of `crates/tritium-quantize/src/conversion.rs`).

TLC checks every module on a small instance; TLAPS proves the safety properties
of the page pool, the rate limiter, the single worker, the request budget, the
checkpoint and the campaign's use of it for every value of their constants. Most
of the repository's lines are kernels, numerics and formats, which are not
modelled (section 6).

Paths below are relative to `crates/tritium-serve/src` unless they start with
`crates/`.

## 1. The system

### Serving

A request passes, outermost first, through

1. authentication and the per-principal rate limiter (`admission.rs`);
2. the in-flight budget (`router.rs`, `RequestBudget`): model work is refused
   while draining or after a fault, every request takes a permit, and the
   response body keeps it until it ends or is dropped;
3. the service timeout (`router.rs`, `build_router_inner`);
4. a handler (`chat_completions`, `tree_session`, `tree_verify`), which looks at
   the drain and fault flags, validates the request and puts a job on a bounded
   queue with `try_send`.

One worker thread owns the model and takes jobs off that queue. It is either the
single worker (`worker.rs`: one job at a time, over `generator.rs`) or the
continuous-batching worker (`batch.rs`: up to `slots` generations in lockstep, a
prefill in chunks, a solo speculative sequence, and a paged KV pool in
`crates/tritium-cuda`). Each job has its own bounded event channel; the worker
sends with `try_send` and treats a full or closed channel as cancellation. At
the other end, `stream_response` or `nonstream_response` turns tokens into text
through the detokenizer and the stop matcher of `sse.rs`; a stream also has a
deadline watchdog of its own.

| Part | State | Operations | Hard behaviour |
|---|---|---|---|
| rate limiter | bucket credit, `last` | `check`, `check_at` | the clock is read before the lock is taken |
| request budget | two semaphores, a permit per request | `try_acquire`, body end, drop | the permit outlives the handler |
| event channel | 64 slots | `try_send`, `recv`, close | full, closed, terminal event lost |
| streamed response | body position, deadline state, receiver lock | `recv`, `expire`, `finish`, drops, watchdog | watchdog against body against client |
| buffered response | detokenizer, stop buffer | the loop of `nonstream_response` | timeout drops the handler; text cut by tokens |
| single worker | queue, current job, tree session, KV cache, fault latch | `spawn_worker` | stale readiness checks, session over another's cache |
| batched worker | queue, parked job, prefill, solo sequence, rows, pages | `run_batched` | admission against migration against cancellation |
| page pool | free stack, page tables | `reserve_pages`, `release_pages` | growth, partial failure |

### Training, checkpoints and conversion

`tritium campaign run` scores the source model and the untrained student on a
held-out corpus, fixes a plan, resumes from the newest checkpoint, trains to the
last step, publishing a report and then a checkpoint at every
`checkpoint_every` steps, exports the artifact, scores it and publishes the
terminal report. It keeps these in three directories, whose files are all
replaced the same way: written to a temporary, fsynced, renamed, and the
directory fsynced. A checkpoint is a number of shards and a manifest
renamed last. Locks on the outputs admit one run at a time. A killed run is launched
again and continues from what it finds.

Ranks of a data-parallel step meet in collectives. The process group shipped for
one machine runs a thread per rank over shared slots; every collective crosses
one cyclic barrier twice.

`SaltV2::reconcile` takes a content-addressed work item through eight stages,
each run by an external driver. The state file is replaced before a stage is
driven and again with its outcome; a process that finds an attempt running
records it as interrupted. Everything the state file says about stages,
failures, the packed model and its verdict is cross-checked on load.

| Part | State | Operations | Hard behaviour |
|---|---|---|---|
| DCP checkpoint | manifest, shards | `save_from`, `load_into` | death and power loss between any two renames and fsyncs |
| campaign | checkpoint, plan, progress, report, artifact | `run_campaign` | five files in three directories that must agree after any crash |
| collectives | slots, barrier | `all_reduce`, `reduce_scatter`, `all_gather`, `broadcast` | ranks that disagree, slots reused too early |
| SALT work item | state file, work lock | `start`, `advance`, `persist` | attempts, retries and rejections across restarts |

### What can go wrong

`PROJECT.json` lists the hazards with their lines. In short: a page with two
owners or none; credit counted twice; a gap in a token stream; a lost terminal
event; a stream counted twice or never; a decode thread that nobody releases; a
tree session left open over another request's tokens; a job forgotten, held
twice or parked for ever; a row that outgrows its pages; a permit leaked; a stop
string missed because it straddles tokens; a torn checkpoint; acknowledged
training lost or redone; evidence of one training beside the weights of another;
a run locked out by its own leftovers; a rank waiting at a barrier for ever; a
stage driven twice under one attempt; a publication without a verdict.

## 2. Modules

| Module | Models | State and actions against the code |
|---|---|---|
| `PagePool` | `BatchKv::reserve_pages`, `release_pages` | `free` is the free stack, `table[r]` the mapped prefix of a row's page table |
| `RateLimiter` | `PrincipalLimiter` | `ReadClock` is `check`, `Allow` and `Reject` are `check_at` under the lock; `rewound` and `promise` are history |
| `EventChannel` | the channel, `on_step` and the terminal event | one decode thread as a producer; extended by the two responses |
| `ResponseStream` | `StreamEventReceiver`, its watchdog, `StreamDisconnectGuard`, `stream_response` | `pc` is the body's suspension point, `lock` the receiver mutex, `dl` the atomic `deadline_state` |
| `Sse` | `IncrementalDetok`, `StopMatcher` | operators over characters of one, two and three bytes; `Decode` is the tokenizer (external) |
| `ResponseUnary` | `nonstream_response` under the service timeout | what a token says is chosen when it is received |
| `JobService` | what either worker promises the handlers | abstract: tokens in order without a gap, then one terminal event |
| `Worker` | handlers, queue, `spawn_worker`, the generator's cache and session | `cur` and `at` are the worker's position in a job |
| `RequestBudget` | the budget middleware and `AdmissionBody` in front of `Worker` | `door` and `permit` per request, `ordinary` and `probes` the semaphores |
| `BatchWorker` | `run_batched` and the functions it calls | `at` is the phase of the loop; `parked`, `pend`, `spec`, `pool` are its locals; pages are counted (`held`, `avail`) |
| `DurableDir` | write, fsync, rename, fsync of the directory | a directory is its live image and the images a power loss may leave: renames since the last directory fsync persist independently |
| `Dcp` | `save_from`, `load_into` | a trainer state is the sequence of runs that trained its steps, so retraining yields another state; `save[p]` is a save in progress |
| `Campaign` | `run_campaign` of the process that owns the locks, with `prepare_terminal_artifact`, `load_existing_report`, `resumable_teacher_forced_score` | extends `Dcp`; `pc` is the place in `run_campaign`, `model` the trainer, `log` the report to come; `Dies` and `PowerLoss` strike anywhere |
| `Collective` | what a process group promises | abstract: the n-th calls of all ranks meet, the result depends on them alone |
| `SimProcessGroup` | the thread-simulated group | a step per slots lock and per arrival at, or waking from, the barrier |
| `ConversionRun` | the control state of a conversion | operators named after the methods |
| `SaltPipeline` | `SaltV2::reconcile`, `SaltPipeline` | `mem[p]` is a process's pipeline object, `dir` the work directory, `driven` the attempts the driver saw |
| `MC...` | constants for TLC | workloads, vocabularies, symmetry |
| `...Proofs` | theorems | see section 5 |

Composition. `EventChannel` is extended by both responses. `Worker` and
`BatchWorker` both implement `JobService` (`ServiceSpec`, by `INSTANCE`), which
is the interface the responses rely on: `EventChannel` is its producer seen by
one client. `RequestBudget` extends `Worker` and restricts its environment.
`BatchWorker` counts pages where `PagePool` names them; the guard and the effect
of a reservation are those of `reserve_pages` in both. `Campaign` extends `Dcp`:
its steps on the checkpoint directory are `Dcp`'s, and `DcpSpec` says that the
locks make it a directory with one saver at a time. `SimProcessGroup` implements
`Collective`. `Dcp`, `Campaign` and `SaltPipeline` share `DurableDir`.

Abstractions. A token of a stream is its index; a token of a buffered response
is a short sequence of characters. A client reads its channel at any pace, so in
`Worker`, `BatchWorker` and `JobService` a send may meet a full channel as soon
as the events sent so far could fill it. Times in the rate limiter are ticks,
with a minute and a second of a few ticks each, so all roundings of the code
occur. What the model samples, whether a forward fails and when it ends are
nondeterministic; a generation may end without a token, when its prompt fills the
context. A device error in the verify of a speculative group leaves any subset of
its rows promoted (`PartlyPromoted`). In the file modules a content is the little that properties
tell apart: a trainer state, the steps a report covers, the package a verdict is
about. Shards are read by length and header, as in the code, so the model can
mix shards of two saves; `NeverTorn` shows that it never does.

What is assumed of the disk: a successful directory fsync makes all earlier
renames in that directory durable; the directories themselves exist durably
(the code creates them without an fsync of their parents); a directory can be
opened for the fsync, as on POSIX (`dcp.rs` goes on without the fsync where it
cannot); files are not changed by others. One configuration is used throughout,
and an artifact of an accepted SALT stage stays as it was.

## 3. Runs

| Run | Shows | Instance |
|---|---|---|
| `page_pool` | no page has two owners, none is lost | 3 rows, 4 pages of 2 tokens: partial pages, exhaustion, reuse after release |
| `rate_concurrent` | racing checks admit a principal at most its burst plus its rate once per thread; a client that waits its Retry-After is admitted | 2 threads, 1 principal, 8 ticks |
| `stream` | in-order prefix with no text lost at a clean end, one verdict per stream, the deadline closes the channel | channel of 2, 4 tokens |
| `stream_error` | **violated**: a backend error reaches the client as a clean stop | same |
| `unary` | the text equals a search of the whole decoded text, unless a character was split over two tokens, or `Done` was lost and the text held back for a stop string with it; every handler answers | 4 tokens from 7, two of them halves of a character, three sets of stop strings |
| `serving` | single worker behind the budget: implements `JobService`, session ownership, fault latch, permits conserved and covering, the reserve serving probes only, every job ends | 2 jobs of any kinds, 1 probe, cap 2, queue 1, channel 1, 3 tokens |
| `batch_safety` | jobs, pages, solo sequence and session of the batched worker are never mixed up; it implements `JobService` | 3 workloads of 3 jobs, 2 rows, 3 pages of 4 tokens |
| `batch_liveness` | every job ends unless a row's client has left; after a drain all end | 3 workloads, clients that read |
| `batch_gone_row` | **violated**: a disconnected row is never retired | greedy chats without a drafter |
| `campaign` | no torn checkpoint; committed training is never redone; report and checkpoint are accepted together whichever survive; a run refuses its own files only after a rollback; a terminal report is about one training; campaigns end; the campaign implements `Dcp` | 2 processes, 4 launches, 4 steps, a checkpoint every 3 and at the end, 2 shards, 2 evaluation windows, 3 faults |
| `collectives` | every call returns; a disagreement on the collective is an error on every rank; results differ at most by a `ReduceOp` not agreed on; the group implements `Collective` | 3 ranks, 2 collectives: a first in which ranks choose freely, then one they agree on |
| `salt_pipeline` | every state file that may survive loads; completed stages stay; no attempt is driven twice; publication needs a passed verdict on the packed model; outcomes stay; work ends | 2 processes, 8 stages, 2 package identities, 2 faults, 1 retryable failure |

Why the bounds are enough for the questions asked. Channel, queue and pool are
small enough to be full, empty and reused within a run. Three tokens are the
fewest that let a token be delivered, one be lost and one follow it. Two jobs on
the single worker give every order of enqueue, skip, run and fault; the theorems
cover any number. On the batched worker, three jobs are needed for one to be
parked while another prefills and a third decodes, and two rows with three pages
make both seats and pages scarce; `MCBatchWorker` says what each workload is
for. `MaxTokens`, `MaxClock`, `MaxFaults`, `MaxFailures`, `Runs` and the budgets
of the workloads are the only bounds on otherwise unbounded counters.

A campaign of four steps with a checkpoint at three has a resume in the middle,
a step trained twice and a terminal step that is no multiple of the cadence;
three faults allow a crash, a resume from what was not yet fsynced, and a power
loss that takes it back, which is the longest way to a refusal found. Two shards
are the fewest of which one can be missing. In the second collective the ranks
meet after any disagreement in the first, so a barrier or slot left wrong by the
first shows. Two faults on a work item give an interruption of the recovery from
an interruption. With `MaxFailures` 2 the last run passes as well, on
2.1 million states.

The type invariant of a module (`TypeOK`) documents its variables. It is proved
where section 5 says so; the runs check the properties that could really fail.

`CHECK_DEADLOCK FALSE` stands where the modelled system may stop: all requests
of an instance are over, or its clock has reached its bound.

### Fairness

- `Worker`, `BatchWorker`, `RequestBudget`: weak fairness of the worker thread's
  steps, which the operating system schedules and which never block but on an
  empty queue. Clients, handlers and the drain need not act.
- `ResponseStream`: weak fairness of the watchdog, of a woken `recv`, of `finish`
  and of a drop in progress, which the runtime schedules. Nothing makes the
  client poll, the deadline pass or the decode thread advance.
- `ResponseUnary`: weak fairness of the decode thread and of the handler's loop,
  which the runtime polls without the client.
- `SimProcessGroup`: weak fairness of each rank's thread, which the operating
  system schedules; every rank runs the same number of collectives, as the
  module's contract demands.
- `Campaign`, `SaltPipeline`: weak fairness of a running process, and of the
  operator who launches again after a failure. Faults are bounded, and so are
  the driver's retryable failures: nothing ends under faults that never stop.

## 4. Findings

Two are runs of their own, and `PROJECT.json` quotes the line each disagrees with.

1. `stream_error`: a terminal `Error` that meets a full channel is dropped, and
   the stream ends with reason "stop".
2. `batch_gone_row`: `lockstep_round` returns without work while a live row's
   client is gone, and nothing in `run_batched` retires that row. With group
   speculation enabled its cancellation retires it; without it, only a drain
   does. `EveryJobEnds` of the batched worker is therefore stated for batches
   whose clients are connected.

The others show in what the properties have to allow.

- Rate limiter: `check` reads the clock before `check_at` locks the bucket
  (`admission.rs:174`), and `last` is overwritten with the older time; the
  interval is then credited twice. So the documented rate can be exceeded: with
  two threads TLC reaches twice the rate. `RatePerThread` says that it gets no
  worse: with N threads a principal is admitted at most its burst plus N times
  its rate, and with one thread that is the documented rate.
- Streamed response: the watchdog can claim the stream between the body's last
  event and its `finish` (`router.rs:456`); the timeout is counted and the body
  still ends cleanly. `OneVerdict` counts such a stream once, as timed out.
- Detokenizer: `emitted_bytes` is taken from a decoding that contains an
  unfinished character (`sse.rs:54`), so a character split over two tokens never
  appears, against the comment that the pieces make up the decoding
  (`sse.rs:23`). `TextExact` excepts exactly these texts. With a tokenizer that
  refuses an unfinished character (`Lossy` FALSE) earlier text is repeated.
- Buffered response: when `Done` is lost on a full channel the loop ends without
  flushing the stop matcher (`router.rs:1877`), and the reply, whose status is
  200, lacks the text held back for a stop string. `TextExact` says that it lacks
  no more than that; the stream flushes, as `InOrderPrefix` shows.
- Drain: the single worker ends a running generation with `Done`, the batched
  one with `Error`.
- Campaign: a run that finds the terminal manifest renamed but, its writer
  having been killed, not yet fsynced, resumes from it without fsyncing it and
  exports the artifact, which is fsynced in its own directory. A power loss can
  then undo the manifest and keep the artifact; retraining that is not
  bit-reproducible is refused from then on. `RefusedOnlyAfterRollback` shows
  that this is the only way a campaign locks itself out, and `Completes` that
  without it every campaign ends.
- SALT: an output whose identity, artifact path, metric or usage is malformed is
  recorded as a contract rejection and persisted, and `load_locked` then refuses
  the state file on the same check, instead of reporting the terminal failure.
  `CheckpointLoads` excepts exactly these records. Likewise `reconcile` may
  report success from a renamed state file that was never fsynced.
- Collectives: a wrong length or root is reported only by the ranks that see it
  (`reduce_scatter`, `all_gather`, `broadcast`), and broadcasts with different
  valid roots succeed. The `ReduceOp` is neither published nor compared
  (`dist.rs:298`): ranks that disagree on it all return `Ok`, and only those that
  passed `Avg` have divided. `Symmetric` claims no more than the code gives:
  every rank sees a disagreement on the collective, and an `all_reduce` gives all
  ranks that succeed the same, up to that division.

## 5. Proofs

All theorems hold for every value of the constants that satisfies the named
assumption of its module: `PoolAssumption` and `LimiterAssumption` (sizes, rate
and burst positive, the set of threads finite), `WorkerAssumption` (`NoJob` is not a job; queue, channel and
token budget positive), `BudgetAssumption` (probes are not jobs, the cap is
positive), `DcpAssumption` and `CampaignAssumption` (world, steps, cadence and
windows positive, the warm-up and the number of faults natural; `Nobody` is not a
process), `CollectiveAssumption` and `ProgramsAssumption` (at least one rank; the
programs are made of calls), `SaltAssumption` (package identities are positive,
the numbers of faults and failures natural, `Nobody` is not a process). TLC
evaluates each on the runs.

- `PagePoolProofs`: `TypeOK`, `PagesExclusive`, `NoPageLost`, `MappingStable`.
  Exclusiveness is inductive together with the types: popping from the stack
  splits it, pushing a released row back appends a sequence disjoint from it.
- `RateLimiterProofs`: `TypeOK`, `CreditLedger`, `RatePerThread`
  (`ConcurrentRate`) and `RetryHonoured`. The ledger (credit held plus credit
  spent is at most the burst plus what was earned up to `last`, the time credited
  twice included) is inductive because a refill adds at most the time by which
  `last` moves. What is left is to bound the time credited twice, which no
  invariant on `last` alone does. `SkewInv` counts the instants each thread has
  seen: a stale reading moves `last` back only as far as the instants its own
  thread had not yet applied, each thread passes each instant once, and so the
  time credited is at most the number of threads times the clock. The
  promise needs the credit at the promised instant as a strengthening.
- `JobServiceProofs`: under any worker that implements `JobService` a terminal
  event is the last of its job, and a job that ended has answered each client
  that stayed connected and read. The invariant is per job, since a step of the
  service constrains each job on its own.
- `WorkerProofs`, the worker: its types, `SessionOwnsCache`, `FaultLatched`,
  and that it implements `JobService`. `SessionOwnsCache` alone is not inductive:
  completing a session needs that the prefill owns the cache and no session was
  open (`PrefillOwns`); taking a job needs that the queue holds queued jobs once
  each (`QueueOK`) and the worker's job is the one active job (`Roles`); a token
  step maps to one of `JobService` only because a job that lost an event is
  about to end (`LostEnds`). `Answered` follows from the two modules above.
- `WorkerProofs`, the budget: the composition's steps are worker steps or leave the
  worker alone, so the worker's invariant and its refinement hold behind the
  budget; `PermitsConserved`, `InFlightCovered` and `ProbesServed`, by an
  invariant that ties permits to doors, the reserve to one probe, and the shared
  permits to the cap.
- `CampaignProofs`, the directory: `NeverTorn` and `AckedDurable` of a directory with one saver at a
  time. Neither is inductive: the invariant follows a save through its phases.
  Between the renames of a save the crash images may differ only in the files it
  has renamed; those are of a step above every committed one, by the
  monotonic-step guard, so no manifest names them; when the manifest is renamed,
  every shard has been fsynced and is in every image.
- `CampaignProofs`, the campaign: it implements `Dcp` (`DcpSpec`), so both hold of
  it, and committed training is never redone (`AckedKept`). The steps on the
  directory are `Dcp`'s by construction, except that `Dcp` lets a save begin only
  when no other is in progress: the invariant says that a process outside the
  program is not saving, that only the owner of the locks is inside, and what
  place in the program each phase of a save belongs to. `AckedKept` needs that
  the state being trained extends what is acknowledged, from resume to save.

- `SimProcessGroupProofs`: the process group implements `Collective`
  (`CollectiveSpec`), hence `Symmetric`; and `NeverStranded`: while a call is
  outstanding the guard of some rank's step holds, so the two barriers cannot
  deadlock. The invariant says in which call each rank is and which slots are
  filled: a rank is at most one call ahead of any other, ranks in the
  same call sit on either side of one barrier, and a slot is of the call its
  reader is in until every rank has read. The rank that is ahead cannot
  overwrite a slot before the second barrier let everyone through, which is what
  the second barrier is for.
- `SaltStateProofs`: what a `Legal` state of a conversion is. Its receipts,
  records, failures and evidence agree, with the attempts of each stage counted
  without a gap. A `Legal` state passes every check of `validate_loaded_state`
  (but for a rejected output with a malformed identity), and each way in which
  `reconcile` changes a state (begin, driver failure, rejection, completion)
  leads from a `Legal` state to a `Legal` one. `CheckpointLoads` alone is far from
  inductive: the checks look at one file, while whether a failure receipt fits
  depends on the run, the records and the order of all failures together.
- `SaltPipelineProofs`: `TypeOK`, `CheckpointLoads`, `AckedKept`, `AttemptsGrow`,
  `PublishAuthorized` and `Settles`, for every set of processes and packages and
  any number of faults. The invariant says of every state, in memory, stored, or
  left by a power loss, that it is `Legal`, extends what is acknowledged and is
  not behind what the driver was asked for (`Follows`). Only the owner of the lock
  has a pipeline object. While it drives a stage, its claim is the one state that
  can survive, which is why no crash makes the driver see an attempt twice. Two
  states may survive only while one of them is not final (`FinalAlone`); `Settles`
  needs that.

Only model-checked:

- liveness (`Ends`, `Completes` and the other properties with fairness):
  fairness and `ENABLED` are beyond the prover;
- the text pipeline of `Sse`, so `TextExact` of `ResponseUnary`, and the prefix
  `InOrderPrefix` of `ResponseStream`: what a recursive definition computes for
  every input needs induction over data;
- the counts of `BatchWorker` (`PagesAccounted`, `MigrationFits`), sums over
  rows folded from sets, for the same reason; and its other properties, which
  share their invariant with the counts;
- the agreement of a campaign's report and artifact with its checkpoint
  (`EvidenceCovers`, `TerminalEvidence`, `RefusedOnlyAfterRollback`), where
  truncating the log selects a subsequence.

## 6. Not modelled

- In the serving path: token authentication and key files, JSON, logprob rows,
  metrics other than the two stream counters, request identity and tracing,
  health and metrics pages, production startup and its self-test.
- In `batch.rs`: dense (unpaged) batches, exhaustion of the active-id counter,
  the contents of drafts and the governor that decides when to draft, and the
  arm that handles a migration without pages, which `MigrationFits` shows
  unreachable. Rows of one round emit together: they share no state.
- In `generator.rs`: prompt-lookup speculation inside one generation and its
  cost model (floating point).
- In `campaign.rs`: the teacher cache, path and lock-file metadata checks,
  configuration, hardware identity, the memory figures of a report and their
  check (`validate_report_memory`), and the ranks other than the owner, which
  share its barriers and write nothing. The campaign modelled does not widen its
  model, so it has no evaluation of the grown one (`grown-fp`), a fourth
  evaluation that works like the other three.
- In `dist.rs`: ranks that panic or stop calling collectives, which the code
  documents as hangs; the sums themselves (a result names what it was folded
  from).
- In `pipeline.rs`: the driver, the artifact files and their digests, metrics
  and hardware usage, the byte format. A caller that keeps a `SaltPipeline`
  object after an error, where `reconcile` drops it, finds it claimed and must
  reopen it.
- Everything numeric or pure I/O: kernels, quantization, autograd, optimisers,
  file formats, command line, bindings. `PROJECT.json` lists these parts with the
  reason. They make up by far the greater part of the repository, some 350,000
  lines in 498 files, of which the modules here model a few thousand: the code
  that holds protocol state. The rest computes functions of its inputs in
  floating point or over bytes, where a model would restate the code and TLC
  could not evaluate it; the repository's conformance vectors and property tests
  are the right tool there.

## 7. Plan

1. Production startup and readiness: the order of verification steps, the
   lifecycle of the worker thread and the readiness answer.
2. The draft policy and the governor (`generator.rs`), cost model abstracted.
3. The other ranks of a distributed campaign, with the collectives as
   `Collective` promises them.
4. The tensor work store and the evidence log over `DurableDir`.
5. Proofs: `OneVerdict` and `InOrderPrefix` of `ResponseStream`; `JobPlaced`,
   `PagesAccounted` and `RowsCovered` of `BatchWorker`; that `BatchWorker`'s page
   counts are `PagePool`'s; `EvidenceCovers` of `Campaign`.
