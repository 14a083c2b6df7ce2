---------------------------- MODULE BatchWorker -----------------------------
(***************************************************************************)
(* The batched decode worker (`run_batched`): one thread that, turn by     *)
(* turn, drains, admits jobs, prefills one chunk and decodes one round.    *)
(* Chats decode in the rows of a paged batch, or alone and speculatively;  *)
(* tree sessions and every prefill use the runner's single-sequence KV     *)
(* cache.  Clients, handlers and the drain signal run concurrently.        *)
(*                                                                         *)
(* Pages are counted here; PagePool says which pages they are.  Token ids, *)
(* draft contents and timing are left out.                                 *)
(***************************************************************************)
EXTENDS Integers, Sequences, FiniteSets, FiniteSetsExt

CONSTANTS
    Jobs, NoJob,      \* the requests, and no request
    Workloads,        \* the sets of requests the clients may bring
    QueueCap,         \* capacity of the job queue
    EventCap,         \* capacity of a job's event channel
    Slots,            \* rows of the batch
    PoolPages, PageTokens, MaxCtx, Chunk,
    Drafter           \* a draft model is attached

\* What a job asks for: its prompt tokens and max_new, whether it samples
\* greedily without logprobs, and whether its client may disconnect.
Request == [kind : {"generate", "open", "verify"}, prompt : Nat \ {0}, budget : Nat,
            greedy : BOOLEAN, leaves : BOOLEAN]

ASSUME BatchAssumption ==
    /\ NoJob \notin Jobs
    /\ \A w \in Workloads : w \in [Jobs -> Request]
    /\ \A n \in {QueueCap, EventCap, Slots, PoolPages, PageTokens, MaxCtx, Chunk} : n \in Nat \ {0}
    /\ Drafter \in BOOLEAN

VARIABLES
    asked,      \* asked[j]: the request of job j
    stage, open, out, lost,   \* the jobs and their clients, as in Worker
    queue, draining,
    at,         \* the phase of the worker's turn
    admitted,   \* jobs handled in this admission pass
    parked,     \* the job that waits for a seat or for pages
    pend,       \* the one prefill in flight: job, reserved row (0: none), progress
    busy,       \* rows whose committed tokens are still to be emitted
    pool,       \* pool[r]: the job that occupies row r
    spec,       \* the solo speculative sequence
    multiOff,   \* multi_disabled: no more group speculation
    treeOpen,   \* a tree session is open
    kv,         \* the job whose tokens the single-sequence cache holds
    made,       \* tokens of a job decoded so far
    pos,        \* KV position of each row
    held,       \* pages mapped by each row
    avail       \* free pages

clientVars == <<open, out, lost>>
pageVars == <<held, avail>>
ownerVars == <<treeOpen, kv>>
vars == <<asked, multiOff, stage, clientVars, queue, draining, at, admitted, parked, pend, pool, spec, busy,
          ownerVars, made, pos, pageVars>>

Kind(j) == asked[j].kind
Prompt(j) == asked[j].prompt
Budget(j) == asked[j].budget
Greedy(j) == asked[j].greedy

Rows == 1..Slots
NoPend == [job |-> NoJob, row |-> 0, done |-> 0]

Live == {r \in Rows : pool[r] # NoJob}
FreeRows == Rows \ Live
JobsIn(R) == {pool[r] : r \in R}

PagesFor(tokens) == (tokens + PageTokens - 1) \div PageTokens
PoolTokens == PoolPages * PageTokens

\* The token budget clamped to the context window.
MaxNew(j) == Min({Budget(j), MaxCtx - Prompt(j) - 1})
Remaining(j) == MaxNew(j) - made[j]

\* Prompt and emitted tokens.
History(j) == Prompt(j) + made[j]

Init ==
    /\ asked \in Workloads
    /\ multiOff = FALSE
    /\ stage = [j \in Jobs |-> "new"]
    /\ open = [j \in Jobs |-> TRUE]
    /\ out = [j \in Jobs |-> << >>]
    /\ lost = [j \in Jobs |-> FALSE]
    /\ queue = << >>
    /\ draining = FALSE
    /\ at = "top"
    /\ admitted = 0
    /\ parked = NoJob
    /\ pend = NoPend
    /\ pool = [r \in Rows |-> NoJob]
    /\ spec = NoJob
    /\ busy = {}
    /\ treeOpen = FALSE
    /\ kv = NoJob
    /\ made = [j \in Jobs |-> 0]
    /\ pos = [r \in Rows |-> 0]
    /\ held = [r \in Rows |-> 0]
    /\ avail = PoolPages

-----------------------------------------------------------------------------
(* Handlers and clients.                                                    *)

loopVars == <<at, admitted, parked, pend, pool, spec, busy, ownerVars, made, pos, pageVars>>

Check(j) ==
    /\ stage[j] = "new"
    /\ stage' = [stage EXCEPT ![j] = IF draining THEN "refused" ELSE "checked"]
    /\ UNCHANGED <<clientVars, queue, draining, loopVars>>

Enqueue(j) ==
    /\ stage[j] = "checked"
    /\ IF Len(queue) < QueueCap
       THEN queue' = Append(queue, j) /\ stage' = [stage EXCEPT ![j] = "queued"]
       ELSE stage' = [stage EXCEPT ![j] = "refused"] /\ UNCHANGED queue
    /\ UNCHANGED <<clientVars, draining, loopVars>>

Hangup(j) ==
    /\ asked[j].leaves
    /\ stage[j] \in {"queued", "active"}
    /\ open[j]
    /\ open' = [open EXCEPT ![j] = FALSE]
    /\ UNCHANGED <<stage, out, lost, queue, draining, loopVars>>

Drain ==
    /\ ~draining
    /\ draining' = TRUE
    /\ UNCHANGED <<stage, clientVars, queue, loopVars>>

-----------------------------------------------------------------------------
(* Events, retirement and pages.                                            *)

\* try_send of the events ev[j] to each job of DOMAIN ev: a client that is
\* gone gets none, a full channel takes a prefix.
Deliver(ev) ==
    \E n \in [DOMAIN ev -> 0..2] :
        /\ \A j \in DOMAIN ev :
              /\ n[j] <= Len(ev[j])
              /\ ~open[j] => n[j] = 0
              /\ open[j] => n[j] = Len(ev[j]) \/ Len(out[j]) + n[j] >= EventCap
        /\ out' = [j \in Jobs |-> IF j \in DOMAIN ev THEN out[j] \o SubSeq(ev[j], 1, n[j]) ELSE out[j]]
        /\ lost' = [j \in Jobs |->
                        lost[j] \/ (j \in DOMAIN ev /\ open[j] /\ n[j] < Len(ev[j]))]

Ended(S) == [j \in Jobs |-> IF j \in S THEN "ended" ELSE stage[j]]

\* The jobs of S end with event e, which only the connected ones see.
End(S, e) ==
    /\ Deliver([j \in S |-> <<e>>])
    /\ stage' = Ended(S)

\* Mutant of Release: the last page of a release is dropped.
ReleaseDropsPage(R) ==
    /\ held' = [r \in Rows |-> IF r \in R THEN 0 ELSE held[r]]
    /\ avail' = avail + Max({0, MapThenSumSet(LAMBDA r : held[r], R) - 1})

\* release_slot, for every row of R.
Release(R) ==
    /\ held' = [r \in Rows |-> IF r \in R THEN 0 ELSE held[r]]
    /\ avail' = avail + MapThenSumSet(LAMBDA r : held[r], R)

\* reserve_pages for `tokens` tokens of row r; the pages it lacks.
Lacks(r, tokens) == Max({0, PagesFor(tokens) - held[r]})

Reserve(r, tokens) ==
    /\ Lacks(r, tokens) <= avail
    /\ held' = [held EXCEPT ![r] = @ + Lacks(r, tokens)]
    /\ avail' = avail - Lacks(r, tokens)

PendRow == IF pend.row = 0 THEN {} ELSE {pend.row}

-----------------------------------------------------------------------------
(* The top of a turn: the drain arm, then a parked job whose client left.   *)

\* Mutant of DrainArm: the rows of the batch are left to finish.
DrainArmSparesRows ==
    /\ End({pend.job, spec, parked} \ {NoJob}, "error")
    /\ Release(PendRow)
    /\ UNCHANGED pool
    /\ parked' = NoJob /\ pend' = NoPend /\ spec' = NoJob
    /\ treeOpen' = FALSE
    /\ kv' = IF pend = NoPend THEN kv ELSE NoJob

\* Mutant of DrainArm: the parked job is dropped without an answer.
DrainArmDropsParked ==
    /\ Deliver([j \in JobsIn(Live) \cup ({pend.job, spec} \ {NoJob}) |-> <<"error">>])
    /\ stage' = Ended(JobsIn(Live) \cup {pend.job, spec, parked})
    /\ Release(Live \cup PendRow)
    /\ pool' = [r \in Rows |-> NoJob]
    /\ parked' = NoJob /\ pend' = NoPend /\ spec' = NoJob
    /\ treeOpen' = FALSE
    /\ kv' = IF pend = NoPend THEN kv ELSE NoJob

\* Every job the worker holds is told that the server drains.
DrainArm ==
    /\ End(JobsIn(Live) \cup ({pend.job, spec, parked} \ {NoJob}), "error")
    /\ Release(Live \cup PendRow)
    /\ pool' = [r \in Rows |-> NoJob]
    /\ parked' = NoJob /\ pend' = NoPend /\ spec' = NoJob
    /\ treeOpen' = FALSE
    /\ kv' = IF pend = NoPend THEN kv ELSE NoJob

\* A parked job whose client left gives up the parking place.
DropDeadParked ==
    /\ IF parked # NoJob /\ ~open[parked]
       THEN stage' = Ended({parked}) /\ parked' = NoJob
       ELSE UNCHANGED <<stage, parked>>
    /\ UNCHANGED <<out, lost, pend, pool, spec, ownerVars, pageVars>>

Top ==
    /\ at = "top"
    /\ at' = "admit"
    /\ admitted' = 0
    /\ IF draining THEN DrainArm ELSE DropDeadParked
    /\ UNCHANGED <<open, queue, draining, busy, made, pos>>

-----------------------------------------------------------------------------
(* The admission pass.  A parked job goes before the queue.                 *)

\* A parked chat waits for a seat; a parked session open needs none.
Seated == parked # NoJob => Kind(parked) # "generate" \/ FreeRows # {}

\* The pass ends when a prefill is in flight, the cap is reached, the parked
\* job has no seat, or the queue is empty; an idle worker blocks instead.
AdmitEnd ==
    /\ at = "admit"
    /\ \/ pend # NoPend
       \/ admitted = 2 * Slots
       \/ ~Seated
       \/ parked = NoJob /\ queue = << >> /\ (Live # {} \/ spec # NoJob)
    /\ at' = "chunk"
    /\ UNCHANGED <<stage, clientVars, queue, draining, admitted, parked, pend, pool, spec, busy,
                   ownerVars, made, pos, pageVars>>

\* Mutant of Pull: the queue is read past a parked job.
PullPastParked(j, park) ==
    /\ at = "admit" /\ pend = NoPend /\ admitted < 2 * Slots
    /\ queue # << >> /\ j = Head(queue) /\ queue' = Tail(queue)
    /\ admitted' = admitted + 1
    /\ parked' = IF park THEN j ELSE parked

\* Take the next job, the parked one first; `park` puts it (back) aside.
Pull(j, park) ==
    /\ at = "admit" /\ pend = NoPend /\ admitted < 2 * Slots
    /\ Seated
    /\ IF parked # NoJob
       THEN j = parked /\ UNCHANGED queue
       ELSE queue # << >> /\ j = Head(queue) /\ queue' = Tail(queue)
    /\ admitted' = admitted + 1
    /\ parked' = IF park THEN j ELSE NoJob

Activate(j) == stage' = [stage EXCEPT ![j] = "active"]

BadPrompt(j) == Prompt(j) >= MaxCtx - 1

\* A chat that has something to decode.
Decodes(j) == Kind(j) = "generate" /\ ~BadPrompt(j) /\ Budget(j) > 0

Footprint(j) == Prompt(j) + MaxNew(j)

\* Mutant of SpecEligible: the rows of the batch need not be empty.
SpecEligibleBusy(j) ==
    /\ Drafter /\ ~treeOpen
    /\ Greedy(j)
    /\ Footprint(j) <= PoolTokens
    /\ open[j]

\* Mutant of SpecEligible: the footprint is not compared with the pool.
SpecEligibleUnsized(j) ==
    /\ Drafter /\ Live = {} /\ ~treeOpen
    /\ Greedy(j)
    /\ open[j]

\* A greedy chat that finds the worker idle decodes alone, speculatively.
SpecEligible(j) ==
    /\ Drafter /\ Live = {} /\ ~treeOpen
    /\ Greedy(j)
    /\ Footprint(j) <= PoolTokens
    /\ open[j]

\* The job is answered or dropped at once.  A chat that may speculate is
\* turned away when the draft settings do not parse.
AdmitEnded(j) ==
    /\ Pull(j, FALSE)
    /\ \/ draining \/ Kind(j) = "verify"
       \/ Kind(j) = "open" /\ (Prompt(j) >= MaxCtx \/ ~open[j])
       \/ Kind(j) = "generate" /\ ~Decodes(j)
       \/ Decodes(j) /\ spec # NoJob /\ ~open[j]
       \/ Decodes(j) /\ spec = NoJob /\ SpecEligible(j)
       \/ /\ Decodes(j) /\ spec = NoJob /\ FreeRows # {}
          /\ Footprint(j) > PoolTokens \/ ~open[j]
    /\ \/ End({j}, IF ~draining /\ Kind(j) = "generate" /\ ~BadPrompt(j) /\ Budget(j) = 0
                   THEN "done" ELSE "error")
       \/ ~draining /\ Kind(j) = "verify" /\ treeOpen /\ End({j}, "ok")
    /\ UNCHANGED <<open, draining, at, pend, pool, spec, busy, ownerVars, made, pos, pageVars>>

\* Mutant of Migrate: pages are reserved for the unspent budget alone.
MigrateForRemaining(j) ==
    /\ spec # NoJob /\ open[j] /\ ~draining
    /\ \/ Decodes(j)
       \/ Kind(j) = "open" /\ Prompt(j) < MaxCtx
    /\ Pull(j, TRUE)
    /\ LET row == Min(FreeRows)
       IN /\ Reserve(row, Remaining(spec))
          /\ pend' = [job |-> spec, row |-> row, done |-> 0]
    /\ kv' = spec
    /\ spec' = NoJob
    /\ Activate(j)
    /\ UNCHANGED <<clientVars, draining, at, pool, busy, treeOpen, made, pos>>

\* An admission displaces the solo sequence: its history becomes a prefill
\* for a row of the batch, and the job is parked behind it.
Migrate(j) ==
    /\ spec # NoJob /\ open[j] /\ ~draining
    /\ \/ Decodes(j)
       \/ Kind(j) = "open" /\ Prompt(j) < MaxCtx
    /\ Pull(j, TRUE)
    /\ LET row == Min(FreeRows)
       IN /\ Reserve(row, History(spec) + Remaining(spec))
          /\ pend' = [job |-> spec, row |-> row, done |-> 0]
    /\ kv' = spec
    /\ spec' = NoJob
    /\ Activate(j)
    /\ UNCHANGED <<clientVars, draining, at, pool, busy, treeOpen, made, pos>>

\* Mutant of TakeCache: the session stays open over the new tokens.
TakeCacheKeepsSession(j, row) ==
    /\ pend' = [job |-> j, row |-> row, done |-> 0]
    /\ kv' = j
    /\ UNCHANGED treeOpen
    /\ Activate(j)

\* A job takes the single-sequence cache for its prefill and closes any
\* tree session.
TakeCache(j, row) ==
    /\ pend' = [job |-> j, row |-> row, done |-> 0]
    /\ kv' = j
    /\ treeOpen' = FALSE
    /\ Activate(j)

AdmitSpec(j) ==
    /\ Decodes(j) /\ spec = NoJob /\ ~draining
    /\ SpecEligible(j)
    /\ Pull(j, FALSE)
    /\ TakeCache(j, 0)
    /\ UNCHANGED <<clientVars, draining, at, pool, spec, busy, made, pos, pageVars>>

\* A chat bound for a row of the batch.
ForBatch(j) ==
    Decodes(j) /\ spec = NoJob /\ ~draining /\ ~SpecEligible(j)

\* No seat, or not enough pages now: park, and end the pass.
AdmitPark(j) ==
    /\ ForBatch(j)
    /\ Pull(j, TRUE)
    /\ \/ FreeRows = {}
       \/ /\ FreeRows # {} /\ open[j] /\ Footprint(j) <= PoolTokens
          /\ Lacks(Min(FreeRows), Footprint(j)) > avail
    /\ Activate(j)
    /\ at' = "chunk"
    /\ UNCHANGED <<clientVars, draining, pend, pool, spec, busy, ownerVars, made, pos, pageVars>>

\* The whole footprint is reserved up front.
AdmitSeat(j) ==
    /\ ForBatch(j) /\ open[j]
    /\ Pull(j, FALSE)
    /\ FreeRows # {}
    /\ Footprint(j) <= PoolTokens
    /\ Reserve(Min(FreeRows), Footprint(j))
    /\ TakeCache(j, Min(FreeRows))
    /\ UNCHANGED <<clientVars, draining, at, pool, spec, busy, made, pos>>

AdmitOpen(j) ==
    /\ Kind(j) = "open" /\ Prompt(j) < MaxCtx /\ open[j]
    /\ spec = NoJob /\ ~draining
    /\ Pull(j, FALSE)
    /\ TakeCache(j, 0)
    /\ UNCHANGED <<clientVars, draining, at, pool, spec, busy, made, pos, pageVars>>

Admit ==
    \/ AdmitEnd
    \/ \E j \in Jobs :
          AdmitEnded(j) \/ Migrate(j) \/ AdmitSpec(j) \/ AdmitPark(j) \/ AdmitSeat(j) \/ AdmitOpen(j)

-----------------------------------------------------------------------------
(* One chunk of the prefill in flight.                                      *)

\* One token to job j; `last` ends the job.  A failed send ends it silently.
EmitOne(j, last) ==
    /\ Deliver([x \in {j} |-> IF last THEN <<"token", "done">> ELSE <<"token">>])
    /\ made' = [made EXCEPT ![j] = @ + 1]

Lasts(j) == IF Remaining(j) <= 1 THEN {TRUE} ELSE BOOLEAN

\* The token was sent and more are to come.
Goes(j, last) == ~last /\ out'[j] # out[j]

PrefillIdle ==
    /\ at = "chunk" /\ pend = NoPend
    /\ at' = "decode"
    /\ UNCHANGED <<stage, clientVars, queue, draining, admitted, parked, pend, pool, spec, busy,
                   ownerVars, made, pos, pageVars>>

\* Mutant of Retire: the pages of the reserved row are not returned.
RetireLeaks ==
    /\ pend' = NoPend
    /\ kv' = NoJob
    /\ UNCHANGED pageVars

\* retire_pending_prefill, but for the answer.
Retire ==
    /\ pend' = NoPend
    /\ kv' = NoJob
    /\ Release(PendRow)

\* The client left or the server drains.  A drain seen by the forward pass
\* goes back to the drain arm before anything else decodes.
PrefillCancelled ==
    /\ at = "chunk" /\ pend # NoPend
    /\ \/ ~open[pend.job] /\ at' = "decode"
       \/ draining /\ at' = "top"
    /\ End({pend.job}, "error")
    /\ Retire
    /\ UNCHANGED <<open, queue, draining, admitted, parked, pool, spec, busy, treeOpen, made, pos>>

\* A device fault, in the forward pass or while the row is adopted.
PrefillFault ==
    /\ at = "chunk" /\ pend # NoPend /\ open[pend.job]
    /\ End({pend.job}, "error")
    /\ pend' = NoPend
    /\ Release(PendRow)
    /\ at' = "decode"
    /\ UNCHANGED <<open, queue, draining, admitted, parked, pool, spec, busy, ownerVars, made, pos>>

\* The chunk is forwarded; `complete` says whether it was the last one.
Forward(complete) ==
    /\ at = "chunk" /\ pend # NoPend
    /\ open[pend.job] /\ ~draining
    /\ complete = (pend.done + Chunk >= History(pend.job))
    /\ at' = "decode"
    /\ UNCHANGED <<open, queue, draining, admitted, parked, busy, kv>>

PrefillChunk ==
    /\ Forward(FALSE)
    /\ pend' = [pend EXCEPT !.done = @ + Chunk]
    /\ UNCHANGED <<stage, out, lost, pool, spec, treeOpen, made, pos, pageVars>>

\* The prefilled KV is adopted by the reserved row, with the first token.
PrefillAdopt ==
    /\ Forward(TRUE) /\ pend.row # 0
    /\ \E last \in Lasts(pend.job) :
          LET j == pend.job
          IN /\ EmitOne(j, last)
             /\ pos' = [pos EXCEPT ![pend.row] = History(j)]
             /\ IF Goes(j, last)
                THEN pool' = [pool EXCEPT ![pend.row] = j] /\ UNCHANGED <<stage, pageVars>>
                ELSE stage' = Ended({j}) /\ Release({pend.row}) /\ UNCHANGED pool
    /\ pend' = NoPend
    /\ UNCHANGED <<spec, treeOpen>>

PrefillSpec ==
    /\ Forward(TRUE) /\ pend.row = 0 /\ Kind(pend.job) = "generate"
    /\ \E last \in Lasts(pend.job) :
          LET j == pend.job
          IN /\ EmitOne(j, last)
             /\ IF Goes(j, last)
                THEN spec' = j /\ UNCHANGED stage
                ELSE stage' = Ended({j}) /\ UNCHANGED spec
    /\ pend' = NoPend
    /\ UNCHANGED <<pool, treeOpen, pos, pageVars>>

PrefillSession ==
    /\ Forward(TRUE) /\ Kind(pend.job) = "open"
    /\ End({pend.job}, "ok")
    /\ treeOpen' = TRUE
    /\ pend' = NoPend
    /\ UNCHANGED <<pool, spec, made, pos, pageVars>>

Prefill ==
    \/ PrefillIdle \/ PrefillCancelled \/ PrefillFault
    \/ PrefillChunk \/ PrefillAdopt \/ PrefillSpec \/ PrefillSession

-----------------------------------------------------------------------------
(* One decode round: the solo sequence, or the rows of the batch.           *)

decodeSame == <<open, queue, draining, admitted, parked, pend, treeOpen>>

\* The solo sequence's client left: it is retired in silence.
SpecGone ==
    /\ at = "decode" /\ spec # NoJob /\ ~open[spec]
    /\ stage' = Ended({spec})
    /\ spec' = NoJob
    /\ at' = "top"
    /\ UNCHANGED <<decodeSame, out, lost, pool, busy, kv, made, pos, pageVars>>

\* The cycle drafts and verifies, or is cancelled by the drain or the client.
SpecCycle ==
    /\ at = "decode" /\ spec # NoJob
    /\ open[spec]
    /\ at' = IF draining THEN "cancelled" ELSE "burst"
    /\ UNCHANGED <<decodeSame, stage, out, lost, pool, spec, busy, kv, made, pos, pageVars>>

SpecFault ==
    /\ at = "decode" /\ spec # NoJob
    /\ open[spec]
    /\ End({spec}, "error")
    /\ spec' = NoJob
    /\ at' = "top"
    /\ UNCHANGED <<decodeSame, pool, busy, kv, made, pos, pageVars>>

\* One committed token of the solo sequence; the cycle may have more.
SpecEmit ==
    /\ at = "burst" /\ spec # NoJob
    /\ \E last \in Lasts(spec) :
          /\ EmitOne(spec, last)
          /\ \/ Goes(spec, last) /\ at' \in {"burst", "top"} /\ UNCHANGED <<stage, spec>>
             \/ /\ out'[spec] = out[spec] /\ at' = "cancelled" /\ UNCHANGED <<stage, spec>>
             \/ /\ last /\ out'[spec] # out[spec]
                /\ at' = "top" /\ stage' = Ended({spec}) /\ spec' = NoJob
    /\ UNCHANGED <<decodeSame, pool, busy, kv, pos, pageVars>>

\* Only a drain is reported to the client; the cache is reset.
SpecCancelled ==
    /\ at = "cancelled"
    /\ IF draining THEN End({spec}, "error")
                   ELSE stage' = Ended({spec}) /\ UNCHANGED <<out, lost>>
    /\ spec' = NoJob
    /\ kv' = NoJob
    /\ at' = "top"
    /\ UNCHANGED <<decodeSame, pool, busy, made, pos, pageVars>>

SoloStep == SpecGone \/ SpecCycle \/ SpecFault \/ SpecEmit \/ SpecCancelled

DecodeIdle ==
    /\ at = "decode" /\ spec = NoJob /\ Live = {}
    /\ at' = "top"
    /\ UNCHANGED <<decodeSame, stage, out, lost, pool, spec, busy, kv, made, pos, pageVars>>

\* The rows of R leave the batch.
Vacate(R) ==
    /\ stage' = Ended(JobsIn(R))
    /\ pool' = [r \in Rows |-> IF r \in R THEN NoJob ELSE pool[r]]
    /\ Release(R)

MultiEligible == Drafter /\ ~multiOff /\ ~treeOpen /\ \A r \in Live : Greedy(pool[r])

RoundCancelled == draining \/ \E j \in JobsIn(Live) : ~open[j]

\* multi_spec_round: cancelled, it retires the rows whose client left.
MultiCancelled ==
    /\ at = "decode" /\ spec = NoJob /\ Live # {} /\ MultiEligible
    /\ RoundCancelled
    /\ Vacate({r \in Live : ~open[pool[r]]})
    /\ at' = "top"
    /\ UNCHANGED <<decodeSame, out, lost, spec, busy, kv, made, pos>>

\* The engine promotes the rows of a group one after the other; an error may
\* come after some of the rows of R have advanced, and does not say which.
PartlyPromoted(R) ==
    {[r \in Rows |-> IF r \in S THEN pos[r] + 1 ELSE pos[r]] : S \in SUBSET R}

\* The verify commits tokens for every row; one it commits nothing for is
\* given an error and retired.
MultiRan ==
    /\ at = "decode" /\ spec = NoJob /\ Live # {} /\ MultiEligible
    /\ ~RoundCancelled
    /\ \E bad \in SUBSET Live :
          /\ Deliver([j \in JobsIn(bad) |-> <<"error">>])
          /\ Vacate(bad)
          /\ busy' = Live \ bad
          /\ pos' \in PartlyPromoted(bad)
          /\ at' = IF bad = Live THEN "step" ELSE "burst"
    /\ UNCHANGED <<decodeSame, spec, kv, made>>

\* A device error, in which some rows may have been promoted, retires them all;
\* a round refused before that changes nothing.  Both fall back to lockstep.
MultiFallback ==
    /\ at = "decode" /\ spec = NoJob /\ Live # {} /\ MultiEligible
    /\ ~RoundCancelled
    /\ \/ /\ Deliver([j \in JobsIn(Live) |-> <<"error">>])
          /\ Vacate(Live)
          /\ pos' \in PartlyPromoted(Live)
       \/ UNCHANGED <<stage, out, lost, pool, pos, pageVars>>
    /\ at' = "step"
    /\ UNCHANGED <<decodeSame, spec, busy, kv, made>>

\* The drafter cannot be batched, or its settings are invalid.
MultiDisable ==
    /\ at = "decode" /\ spec = NoJob /\ Live # {} /\ MultiEligible
    /\ ~RoundCancelled
    /\ multiOff' = TRUE
    /\ at' = "step"
    /\ UNCHANGED <<decodeSame, stage, out, lost, pool, spec, busy, kv, made, pos, pageVars>>

NoMulti ==
    /\ at = "decode" /\ spec = NoJob /\ Live # {} /\ ~MultiEligible
    /\ at' = "step"
    /\ UNCHANGED <<decodeSame, stage, out, lost, pool, spec, busy, kv, made, pos, pageVars>>

\* lockstep_round: cancelled as a whole, and nothing is retired;
LockstepCancelled ==
    /\ at = "step"
    /\ RoundCancelled
    /\ at' = "top"
    /\ UNCHANGED <<decodeSame, stage, out, lost, pool, spec, busy, kv, made, pos, pageVars>>

\* a device error retires every row;
LockstepFault ==
    /\ at = "step" /\ Live # {}
    /\ ~RoundCancelled
    /\ Deliver([j \in JobsIn(Live) |-> <<"error">>])
    /\ Vacate(Live)
    /\ at' = "top"
    /\ UNCHANGED <<decodeSame, spec, busy, kv, made, pos>>

\* and the native commit advances every live row by one position.
LockstepCommit ==
    /\ at = "step"
    /\ ~RoundCancelled
    /\ busy' = Live
    /\ pos' = [r \in Rows |-> IF r \in Live THEN pos[r] + 1 ELSE pos[r]]
    /\ at' = IF Live = {} THEN "top" ELSE "emit"
    /\ UNCHANGED <<decodeSame, stage, out, lost, pool, spec, kv, made, pageVars>>

\* The rows of `busy` emit a token each: one after a lockstep step, where a
\* row whose logits are empty gets an error; one or more after a speculative
\* round, which ends with a lockstep step if the drafter's bookkeeping broke.
\* (The code goes row by row; rows share no state here.)
Emit ==
    /\ at \in {"emit", "burst"} /\ spec = NoJob
    /\ \E eos \in SUBSET busy : \E bad \in SUBSET (busy \ eos) :
          LET tokens == JobsIn(busy \ bad)
              last == JobsIn(eos \cup {r \in busy \ bad : Remaining(pool[r]) <= 1})
              gone == {r \in busy : \/ r \in bad \/ pool[r] \in last
                                    \/ out'[pool[r]] = out[pool[r]]}
          IN /\ at = "burst" => bad = {}
             /\ Deliver([j \in JobsIn(busy) |-> IF j \notin tokens THEN <<"error">>
                                                ELSE IF j \in last THEN <<"token", "done">>
                                                ELSE <<"token">>])
             /\ made' = [j \in Jobs |-> IF j \in tokens THEN made[j] + 1 ELSE made[j]]
             /\ Vacate(gone)
             /\ pos' = IF at = "emit" THEN pos
                       ELSE [r \in Rows |-> IF r \in busy THEN pos[r] + 1 ELSE pos[r]]
             /\ busy' \in IF at = "emit" THEN {{}} ELSE SUBSET (busy \ gone)
             /\ at' \in IF busy' # {} THEN {"burst"} ELSE IF at = "burst" THEN {"top", "step"} ELSE {"top"}
    /\ UNCHANGED <<decodeSame, spec, kv>>

Decode ==
    \/ SoloStep \/ DecodeIdle
    \/ MultiCancelled \/ MultiRan \/ MultiFallback \/ NoMulti
    \/ LockstepCancelled \/ LockstepFault \/ LockstepCommit \/ Emit

WorkerStep ==
    \/ (Top \/ Admit \/ Prefill \/ Decode) /\ UNCHANGED <<asked, multiOff>>
    \/ MultiDisable /\ UNCHANGED asked

Client ==
    /\ Drain \/ \E j \in Jobs : Check(j) \/ Enqueue(j) \/ Hangup(j)
    /\ UNCHANGED <<asked, multiOff>>

Next == Client \/ WorkerStep

Spec == Init /\ [][Next]_vars /\ WF_vars(WorkerStep)

-----------------------------------------------------------------------------
(* Type invariant; the queue never exceeds its capacity, nor an admission   *)
(* pass its quota.                                                          *)
TypeOK ==
    /\ asked \in Workloads /\ multiOff \in BOOLEAN
    /\ stage \in [Jobs -> {"new", "checked", "refused", "queued", "active", "ended"}]
    /\ open \in [Jobs -> BOOLEAN] /\ lost \in [Jobs -> BOOLEAN]
    /\ \A j \in Jobs : out[j] \in Seq({"token", "ok", "done", "error"})
    /\ queue \in Seq(Jobs) /\ Len(queue) <= QueueCap
    /\ draining \in BOOLEAN
    /\ at \in {"top", "admit", "chunk", "decode", "step", "emit", "burst", "cancelled"}
    /\ admitted \in 0..(2 * Slots)
    /\ parked \in Jobs \cup {NoJob} /\ spec \in Jobs \cup {NoJob}
    /\ pend.job \in Jobs \cup {NoJob} /\ pend.row \in 0..Slots /\ pend.done \in Nat
    /\ pool \in [Rows -> Jobs \cup {NoJob}]
    /\ busy \subseteq Rows
    /\ treeOpen \in BOOLEAN /\ kv \in Jobs \cup {NoJob}
    /\ made \in [Jobs -> Nat] /\ pos \in [Rows -> Nat]
    /\ held \in [Rows -> Nat] /\ avail \in Nat

\* The places that hold job j: the parking place, the prefill, the solo
\* sequence and the rows.
Places(j) ==
    (IF parked = j THEN {-1} ELSE {}) \cup (IF pend.job = j THEN {-2} ELSE {})
        \cup (IF spec = j THEN {-3} ELSE {}) \cup {r \in Rows : pool[r] = j}

(* The worker neither forgets a job nor holds it twice: a job that left the *)
(* queue and has not ended is in exactly one place (park_job, the pending   *)
(* prefill, migrate_spec and the pool all move it by value).                *)
JobPlaced ==
    \A j \in Jobs : Cardinality(Places(j)) = IF stage[j] = "active" THEN 1 ELSE 0

(* The assertions of the loop: while the solo sequence runs, the pool is    *)
(* empty, no prefill is in flight, nothing is parked ("parked job during    *)
(* solo spec"), no session is open, and the cache holds its tokens.         *)
SpecAlone ==
    spec # NoJob => /\ Live = {} /\ pend = NoPend /\ parked = NoJob
                    /\ ~treeOpen /\ kv = spec

(* A displaced solo sequence always gets its pages: the reservation that    *)
(* migrate_spec calls unreachable to fail never fails.                      *)
MigrationFits ==
    spec # NoJob => PagesFor(History(spec) + Remaining(spec)) <= avail

(* No page is lost or counted twice over any sequence of admissions and     *)
(* retirements: the free pages and the rows' pages make up the pool, and    *)
(* only a row in use, or reserved by the prefill, holds any.                *)
PagesAccounted ==
    /\ avail + MapThenSumSet(LAMBDA r : held[r], Rows) = PoolPages
    /\ \A r \in Rows : held[r] > 0 => r \in Live \cup PendRow

(* Between rounds, a row's KV holds its history but for the pending token,  *)
(* and the pages reserved at admission cover all it may still decode, also  *)
(* for a row that began as the solo sequence ("it can never be outgrown     *)
(* mid-decode").                                                            *)
RowsCovered ==
    at \notin {"emit", "burst"} =>
        \A r \in Live :
            /\ pos[r] = History(pool[r]) - 1
            /\ Remaining(pool[r]) > 0
            /\ pos[r] + Remaining(pool[r]) <= held[r] * PageTokens

(* An open tree session owns the single-sequence cache: what it holds are   *)
(* the tokens of a session open that was completed.                         *)
SessionOwnsCache ==
    treeOpen => kv # NoJob /\ Kind(kv) = "open" /\ stage[kv] = "ended" /\ pend = NoPend

\* The batched worker as a JobService.
Service == INSTANCE JobService WITH
    stage <- [j \in Jobs |-> IF stage[j] = "checked" THEN "new"
                             ELSE IF stage[j] \in {"queued", "active"} THEN "accepted"
                             ELSE stage[j]]

(* The batched worker keeps the promise of the single one: tokens in order, *)
(* one terminal event, never silence for a client that reads.               *)
ServiceSpec == Service!Spec

(* After a drain every accepted job ends, whatever the clients do.          *)
DrainEnds ==
    \A j \in Jobs : (draining /\ stage[j] \in {"queued", "active"}) ~> (stage[j] = "ended")

(* Every accepted job ends unless a row in the batch has lost its client:   *)
(* no parked job starves, no row waits for ever.                            *)
EveryJobEnds ==
    \A j \in Jobs :
        (stage[j] \in {"queued", "active"}) ~>
            (stage[j] = "ended" \/ \E r \in Live : ~open[pool[r]])

(* "Normal retirement releases disconnected rows": a row whose client left  *)
(* leaves the batch.                                                        *)
GoneRowsLeave ==
    \A j \in Jobs : (j \in JobsIn(Live) /\ ~open[j]) ~> (j \notin JobsIn(Live))
=============================================================================
