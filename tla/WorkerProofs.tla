---------------------------- MODULE WorkerProofs ----------------------------
(***************************************************************************)
(* The single worker for every set of jobs, queue, channel and token       *)
(* budget: its type invariant, the ownership of the KV cache by an open    *)
(* tree session, that it implements JobService and that it answers; then   *)
(* the in-flight budget in front of it, for every set of probes and every  *)
(* cap.                                                                    *)
(***************************************************************************)
EXTENDS RequestBudget, SequenceTheorems, FiniteSetTheorems, TLAPS

Events == {"token", "ok", "done", "error"}

\* The worker's job is the one active job.
Roles ==
    /\ \A j \in Jobs : stage[j] = "active" <=> cur = j
    /\ at = "idle" <=> cur = NoJob

\* The queue holds queued jobs, each once.
QueueOK ==
    /\ \A i \in 1..Len(queue) : stage[queue[i]] = "queued"
    /\ \A i, k \in 1..Len(queue) : queue[i] = queue[k] => i = k

\* Tokens are made while decoding, and there is budget for the next one.
BudgetOK ==
    /\ at \in {"idle", "enter", "prefill"} => made = 0
    /\ at = "decode" => made < MaxTokens

\* During its prefill the worker's job owns the cache and no session is open.
PrefillOwns == at = "prefill" => kv = cur /\ ~session

\* A job that lost an event has ended or is about to.
LostEnds == \A j \in Jobs : lost[j] => stage[j] = "ended" \/ (cur = j /\ at = "ending")

\* The inductive invariant.
IInv ==
    /\ TypeOK /\ Roles /\ QueueOK /\ BudgetOK
    /\ PrefillOwns /\ SessionOwnsCache /\ LostEnds

\* A send concerns its job only; one that fails delivers nothing.
LEMMA SendEffect ==
    ASSUME NEW j \in Jobs, NEW e \in Events, TypeOK, Send(j, e)
    PROVE  /\ out' \in [Jobs -> Seq(Events)] /\ lost' \in [Jobs -> BOOLEAN]
           /\ \A k \in Jobs : k # j => out'[k] = out[k] /\ lost'[k] = lost[k]
           /\ lost'[j] => lost[j] \/ out' = out
<1>1. out \in [Jobs -> Seq(Events)] /\ lost \in [Jobs -> BOOLEAN]
  BY DEF TypeOK, Events
<1>2. Append(out[j], e) \in Seq(Events)
  BY <1>1, AppendProperties
<1>3. QED
  BY <1>1, <1>2, Zenon DEF Send

\* What a terminal answer of the active job, or of the head of the queue,
\* does to the invariant, apart from the cache.
LEMMA AnswerKeeps ==
    ASSUME IInv, NEW j \in Jobs, NEW e \in Events, Answer(j, e),
           stage[j] \in {"queued", "active"}, cur \in {NoJob, j},
           faulted' \in BOOLEAN
    PROVE  /\ stage' \in [Jobs -> {"new", "checked", "queued", "active", "ended", "refused"}]
           /\ kind' = kind /\ latch' \in BOOLEAN
           /\ open' \in [Jobs -> BOOLEAN] /\ lost' \in [Jobs -> BOOLEAN]
           /\ out' \in [Jobs -> Seq(Events)]
           /\ cur' = NoJob /\ at' = "idle" /\ made' = 0 /\ draining' \in BOOLEAN
           /\ stage'[j] = "ended" /\ \A k \in Jobs : k # j => stage'[k] = stage[k]
           /\ Roles' /\ BudgetOK' /\ PrefillOwns' /\ LostEnds'
<1>1. /\ out' \in [Jobs -> Seq(Events)] /\ lost' \in [Jobs -> BOOLEAN]
      /\ \A k \in Jobs : k # j => lost'[k] = lost[k]
  BY SendEffect DEF Answer, IInv
<1>2. /\ stage' = [stage EXCEPT ![j] = "ended"]
      /\ cur' = NoJob /\ at' = "idle" /\ made' = 0
      /\ kind' = kind /\ latch' = latch /\ open' = open /\ draining' = draining
  BY DEF Answer, setup
<1>3. NoJob \notin Jobs
  BY WorkerAssumption
<1>4. Roles'
  BY <1>2, <1>3 DEF IInv, TypeOK, Roles
<1>5. BudgetOK' /\ PrefillOwns'
  BY <1>2 DEF BudgetOK, PrefillOwns
<1>6. LostEnds'
  BY <1>1, <1>2, <1>3 DEF IInv, TypeOK, LostEnds
<1>7. QED
  BY <1>1, <1>2, <1>4, <1>5, <1>6 DEF IInv, TypeOK

\* The answer of the active job: the queue is left alone.
LEMMA AnswerActive ==
    ASSUME IInv, NEW j \in Jobs, NEW e \in Events, Answer(j, e), cur = j,
           faulted' \in BOOLEAN, UNCHANGED queue,
           session' \in BOOLEAN, kv' \in Jobs \cup {NoJob}, SessionOwnsCache'
    PROVE  IInv'
<1>1. stage[j] = "active"
  BY DEF IInv, Roles
<1>2. /\ stage' \in [Jobs -> {"new", "checked", "queued", "active", "ended", "refused"}]
      /\ kind' = kind /\ latch' \in BOOLEAN
      /\ open' \in [Jobs -> BOOLEAN] /\ lost' \in [Jobs -> BOOLEAN]
      /\ out' \in [Jobs -> Seq(Events)]
      /\ cur' = NoJob /\ at' = "idle" /\ made' = 0 /\ draining' \in BOOLEAN
      /\ stage'[j] = "ended" /\ \A k \in Jobs : k # j => stage'[k] = stage[k]
      /\ Roles' /\ BudgetOK' /\ PrefillOwns' /\ LostEnds'
  BY <1>1, AnswerKeeps
<1>3. TypeOK'
  BY <1>2, WorkerAssumption DEF IInv, TypeOK, Events
<1>4. QueueOK'
  <2>1. \A i \in 1..Len(queue) : queue[i] \in Jobs /\ queue[i] # j
    BY <1>1, ElementOfSeq DEF IInv, TypeOK, QueueOK
  <2>2. QED
    BY <1>2, <2>1 DEF IInv, QueueOK
<1>5. QED
  BY <1>2, <1>3, <1>4 DEF IInv

\* Answering leaves a session that was open as it was.
LEMMA SessionKept ==
    ASSUME IInv, NEW j \in Jobs, stage[j] # "ended", UNCHANGED <<kind, session, kv>>,
           \A k \in Jobs : k # j => stage'[k] = stage[k]
    PROVE  SessionOwnsCache'
<1>1. CASE session
  BY <1>1 DEF IInv, TypeOK, SessionOwnsCache
<1>2. CASE ~session
  BY <1>2 DEF SessionOwnsCache
<1>3. QED
  BY <1>1, <1>2

\* The actions of the handlers and of the clients keep the invariant.
LEMMA ClientStep ==
    ASSUME IInv, NEW j \in Jobs, Check(j) \/ Invalid(j) \/ Enqueue(j) \/ Hangup(j)
    PROVE  IInv'
<1> USE WorkerAssumption
<1>1. CASE Check(j) \/ Invalid(j)
  <2>1. stage' \in [Jobs -> {"new", "checked", "queued", "active", "ended", "refused"}]
    BY <1>1, Zenon DEF Check, Invalid, IInv, TypeOK
  <2>2. stage[j] \in {"new", "checked"} /\ stage'[j] \in {"refused", "checked"} /\ \A k \in Jobs : k # j => stage'[k] = stage[k]
    BY <1>1 DEF Check, Invalid, IInv, TypeOK
  <2>3. UNCHANGED <<kind, latch, open, out, lost, queue, cur, at, made, draining, faulted, session, kv>>
    BY <1>1 DEF Check, Invalid, setup, clientVars, modelVars
  <2>4. TypeOK'
    BY <2>1, <2>3 DEF IInv, TypeOK
  <2>5. Roles' /\ BudgetOK' /\ PrefillOwns' /\ LostEnds'
    BY <2>2, <2>3 DEF IInv, TypeOK, Roles, BudgetOK, PrefillOwns, LostEnds
  <2>6. SessionOwnsCache'
    BY <2>2, <2>3, SessionKept
  <2>7. QueueOK'
    <3>1. \A i \in 1..Len(queue) : queue[i] \in Jobs /\ queue[i] # j
      BY <2>2, ElementOfSeq DEF IInv, TypeOK, QueueOK
    <3>2. QED
      BY <2>2, <2>3, <3>1 DEF IInv, QueueOK
  <2>8. QED
    BY <2>4, <2>5, <2>6, <2>7 DEF IInv
<1>2. CASE Enqueue(j)
  <2>1. stage' \in [Jobs -> {"new", "checked", "queued", "active", "ended", "refused"}]
    BY <1>2, Zenon DEF Enqueue, IInv, TypeOK
  <2>2. stage[j] = "checked" /\ stage'[j] \in {"refused", "queued"} /\ \A k \in Jobs : k # j => stage'[k] = stage[k]
    BY <1>2 DEF Enqueue, IInv, TypeOK
  <2>3. UNCHANGED <<kind, latch, open, out, lost, cur, at, made, draining, faulted, session, kv>>
    BY <1>2 DEF Enqueue, setup, clientVars, modelVars
  <2>4. Roles' /\ BudgetOK' /\ PrefillOwns' /\ LostEnds'
    BY <2>2, <2>3 DEF IInv, TypeOK, Roles, BudgetOK, PrefillOwns, LostEnds
  <2>5. SessionOwnsCache'
    BY <2>2, <2>3, SessionKept
  <2>6. \A i \in 1..Len(queue) : queue[i] \in Jobs /\ queue[i] # j
    BY <2>2, ElementOfSeq DEF IInv, TypeOK, QueueOK
  <2>7. queue \in Seq(Jobs) /\ Len(queue) \in Nat /\ Len(queue) <= QueueCap
    BY LenProperties DEF IInv, TypeOK
  <2>8. CASE queue' = queue
    <3>1. QueueOK'
      BY <2>2, <2>6, <2>8 DEF IInv, QueueOK
    <3>2. TypeOK'
      BY <2>1, <2>3, <2>8 DEF IInv, TypeOK
    <3>3. QED
      BY <3>1, <3>2, <2>4, <2>5 DEF IInv
  <2>9. CASE Len(queue) < QueueCap /\ queue' = Append(queue, j) /\ stage'[j] = "queued"
    <3>1. /\ queue' \in Seq(Jobs) /\ Len(queue') = Len(queue) + 1
          /\ \A i \in 1..Len(queue) : queue'[i] = queue[i]
          /\ queue'[Len(queue) + 1] = j
      BY <2>7, <2>9, AppendProperties
    <3>2. \A i \in 1..Len(queue') : i \in 1..Len(queue) \/ i = Len(queue) + 1
      BY <3>1, <2>7
    <3>3. QueueOK'
      BY <2>2, <2>6, <2>9, <3>1, <3>2 DEF IInv, QueueOK
    <3>4. TypeOK'
      BY <2>1, <2>3, <2>7, <2>9, <3>1 DEF IInv, TypeOK
    <3>5. QED
      BY <3>3, <3>4, <2>4, <2>5 DEF IInv
  <2>10. QED
    BY <1>2, <2>8, <2>9 DEF Enqueue, IInv, TypeOK
<1>3. CASE Hangup(j)
  <2>1. /\ open' \in [Jobs -> BOOLEAN]
        /\ UNCHANGED <<stage, kind, latch, out, lost, queue, cur, at, made, draining, faulted, session, kv>>
    BY <1>3 DEF Hangup, setup, modelVars, IInv, TypeOK
  <2>2. TypeOK'
    BY <2>1 DEF IInv, TypeOK
  <2>3. QED
    BY <2>1, <2>2 DEF IInv, Roles, QueueOK, BudgetOK, PrefillOwns, SessionOwnsCache, LostEnds
<1>4. QED
  BY <1>1, <1>2, <1>3

\* Taking the head off the queue: what is left is queued, and is not it.
LEMMA TakeKeeps ==
    ASSUME IInv, NEW j \in Jobs, Take(j)
    PROVE  /\ stage[j] = "queued" /\ cur = NoJob /\ at = "idle" /\ made = 0
           /\ queue' \in Seq(Jobs) /\ Len(queue') <= QueueCap
           /\ \A i \in 1..Len(queue') : queue'[i] \in Jobs \ {j} /\ stage[queue'[i]] = "queued"
           /\ \A i, k \in 1..Len(queue') : queue'[i] = queue'[k] => i = k
<1> USE WorkerAssumption
<1>1. /\ queue \in Seq(Jobs) /\ queue # << >> /\ queue' = Tail(queue) /\ j = Head(queue)
      /\ Len(queue) \in Nat /\ Len(queue) <= QueueCap
  BY LenProperties DEF Take, IInv, TypeOK
<1>2. Len(queue) >= 1 /\ j = queue[1]
  BY <1>1, EmptySeq
<1>3. /\ queue' \in Seq(Jobs) /\ Len(queue') = Len(queue) - 1
      /\ \A i \in 1..Len(queue') : queue'[i] = queue[i + 1]
  BY <1>1, HeadTailProperties
<1>4. \A i \in 1..Len(queue') : i + 1 \in 1..Len(queue) /\ i + 1 # 1
  BY <1>1, <1>3
<1>5. 1 \in 1..Len(queue)
  BY <1>1, <1>2
<1>6. \A i \in 1..Len(queue') : queue'[i] \in Jobs
  BY <1>3, ElementOfSeq
<1>7. \A i, k \in 1..Len(queue') : queue'[i] = queue'[k] => i = k
  BY <1>3, <1>4 DEF IInv, QueueOK
<1>8. \A i \in 1..Len(queue') : queue'[i] # j /\ stage[queue'[i]] = "queued"
  BY <1>2, <1>3, <1>4, <1>5 DEF IInv, QueueOK
<1>9. stage[j] = "queued"
  BY <1>2, <1>5 DEF IInv, QueueOK
<1>10. cur = NoJob /\ at = "idle" /\ made = 0
  BY DEF Take, IInv, Roles, BudgetOK
<1>11. Len(queue') <= QueueCap
  BY <1>1, <1>3
<1>12. QED
  BY <1>3, <1>6, <1>7, <1>8, <1>9, <1>10, <1>11

\* The start of the loop keeps the invariant: a refused job and one that runs.
LEMMA TakeStep ==
    ASSUME IInv, NEW j \in Jobs, Skip(j) \/ Begin(j)
    PROVE  IInv'
<1> USE WorkerAssumption
<1>1. Take(j)
  BY DEF Skip, Begin
<1>2. /\ stage[j] = "queued" /\ cur = NoJob /\ at = "idle" /\ made = 0
      /\ queue' \in Seq(Jobs) /\ Len(queue') <= QueueCap
      /\ \A i \in 1..Len(queue') : queue'[i] \in Jobs \ {j} /\ stage[queue'[i]] = "queued"
      /\ \A i, k \in 1..Len(queue') : queue'[i] = queue'[k] => i = k
  BY <1>1, TakeKeeps
<1>3. CASE Skip(j)
  <2>1. Answer(j, "error") /\ UNCHANGED <<kind, faulted, session, kv>>
    BY <1>3 DEF Skip, Answer, setup, modelVars
  <2>2. "error" \in Events /\ faulted' \in BOOLEAN
    BY <2>1 DEF Events, IInv, TypeOK
  <2>3. /\ stage' \in [Jobs -> {"new", "checked", "queued", "active", "ended", "refused"}]
        /\ kind' = kind /\ latch' \in BOOLEAN
        /\ open' \in [Jobs -> BOOLEAN] /\ lost' \in [Jobs -> BOOLEAN]
        /\ out' \in [Jobs -> Seq(Events)]
        /\ cur' = NoJob /\ at' = "idle" /\ made' = 0 /\ draining' \in BOOLEAN
        /\ stage'[j] = "ended" /\ \A k \in Jobs : k # j => stage'[k] = stage[k]
        /\ Roles' /\ BudgetOK' /\ PrefillOwns' /\ LostEnds'
    BY <1>2, <2>1, <2>2, AnswerKeeps
  <2>4. TypeOK'
    BY <1>2, <2>1, <2>2, <2>3 DEF IInv, TypeOK, Events
  <2>5. QueueOK'
    BY <1>2, <2>3, Zenon DEF QueueOK
  <2>6. SessionOwnsCache'
    BY <1>2, <2>1, <2>3, SessionKept, Zenon
  <2>7. QED
    BY <2>3, <2>4, <2>5, <2>6 DEF IInv
<1>4. CASE Begin(j)
  <2>1. /\ UNCHANGED <<kind, latch, open, out, lost, made, draining, faulted, session, kv>>
        /\ cur' = j /\ at' = "enter"
        /\ stage' = [stage EXCEPT ![j] = "active"]
    BY <1>4 DEF Begin, setup, clientVars, modelVars
  <2>2. /\ stage' \in [Jobs -> {"new", "checked", "queued", "active", "ended", "refused"}]
        /\ stage'[j] = "active" /\ \A k \in Jobs : k # j => stage'[k] = stage[k]
    BY <2>1 DEF IInv, TypeOK
  <2>3. TypeOK'
    BY <1>2, <2>1, <2>2 DEF IInv, TypeOK
  <2>4. QueueOK'
    BY <1>2, <2>2 DEF QueueOK
  <2>5. Roles' /\ BudgetOK' /\ PrefillOwns'
    BY <1>2, <2>1, <2>2 DEF IInv, Roles, BudgetOK, PrefillOwns
  <2>6. LostEnds'
    BY <1>2, <2>1, <2>2 DEF IInv, LostEnds
  <2>7. SessionOwnsCache'
    BY <1>2, <2>1, <2>2, SessionKept
  <2>8. QED
    BY <2>3, <2>4, <2>5, <2>6, <2>7 DEF IInv
<1>5. QED
  BY <1>3, <1>4

\* The actions that answer the active job keep the invariant.
LEMMA AnswerStep ==
    ASSUME IInv, NEW j \in Jobs,
           \/ Decline(j) \/ GenerationDone(j) \/ TreeCancelled(j)
           \/ SessionOpened(j) \/ Verified(j) \/ BackendFault(j)
    PROVE  IInv'
<1> USE WorkerAssumption
<1>1. /\ cur = j /\ UNCHANGED <<queue, kind>>
      /\ stage' = [stage EXCEPT ![j] = "ended"]
  BY DEF Decline, GenerationDone, TreeCancelled, SessionOpened, Verified, BackendFault, Answer, setup
<1>2. stage[j] = "active"
  BY <1>1 DEF IInv, Roles
<1>3. stage'[j] = "ended" /\ \A k \in Jobs : k # j => stage'[k] = stage[k]
  BY <1>1 DEF IInv, TypeOK
<1>4. faulted' \in BOOLEAN
  BY DEF Decline, GenerationDone, TreeCancelled, SessionOpened, Verified, BackendFault, Fault, IInv, TypeOK
<1>5. \E e \in Events : Answer(j, e)
  BY DEF Decline, GenerationDone, TreeCancelled, SessionOpened, Verified, BackendFault, Events
<1>6. session' \in BOOLEAN /\ kv' \in Jobs \cup {NoJob} /\ SessionOwnsCache'
  <2>1. CASE UNCHANGED <<session, kv>>
    BY <1>1, <1>2, <1>3, <2>1, SessionKept DEF IInv, TypeOK
  <2>2. CASE TreeCancelled(j) /\ at = "prefill"
    BY <2>2 DEF TreeCancelled, IInv, TypeOK, PrefillOwns, SessionOwnsCache
  <2>3. CASE SessionOpened(j)
    BY <2>3, <1>1, <1>3 DEF SessionOpened, IInv, TypeOK, PrefillOwns, SessionOwnsCache
  <2>4. QED
    BY <2>1, <2>2, <2>3, Zenon
       DEF Decline, GenerationDone, TreeCancelled, SessionOpened, Verified, BackendFault, modelVars
<1>7. QED
  BY <1>1, <1>4, <1>5, <1>6, AnswerActive

\* The steps inside a generation or a prefill keep the invariant.
LEMMA RunStep ==
    ASSUME IInv, NEW j \in Jobs,
           Prefill(j) \/ StartDecode(j) \/ Step(j) \/ Checkpoint(j)
    PROVE  IInv'
<1> USE WorkerAssumption
<1>1. /\ cur = j /\ at \in {"enter", "prefill", "decode"} /\ at' \in {"prefill", "decode", "ending"}
      /\ UNCHANGED <<stage, kind, latch, open, queue, cur, draining, faulted>>
  BY DEF Prefill, StartDecode, Step, Checkpoint, setup, clientVars
<1>2. /\ out' \in [Jobs -> Seq(Events)] /\ lost' \in [Jobs -> BOOLEAN]
      /\ \A k \in Jobs : k # j => lost'[k] = lost[k]
      /\ lost'[j] => lost[j] \/ at' = "ending"
  <2>1. CASE Step(j)
    <3>1. Send(j, "token") /\ (out' = out => at' = "ending")
      BY <2>1 DEF Step
    <3>2. "token" \in Events
      BY DEF Events
    <3>3. QED
      BY <3>1, <3>2, SendEffect DEF IInv
  <2>2. CASE UNCHANGED <<out, lost>>
    BY <2>2 DEF IInv, TypeOK, Events
  <2>3. QED
    BY <2>1, <2>2 DEF Prefill, StartDecode, Checkpoint, clientVars
<1>3. LostEnds'
  BY <1>1, <1>2 DEF IInv, LostEnds, Roles
<1>4. made' \in 0..MaxTokens /\ BudgetOK'
  <2>1. CASE Step(j)
    <3>1. made' = made + 1 /\ made < MaxTokens /\ made \in Nat
      BY <2>1 DEF Step, IInv, TypeOK, BudgetOK
    <3>2. at' = "ending" \/ (at' = "decode" /\ made' # MaxTokens)
      BY <2>1 DEF Step
    <3>3. QED
      BY <3>1, <3>2 DEF BudgetOK
  <2>2. CASE Prefill(j) \/ StartDecode(j) \/ Checkpoint(j)
    <3>1. made' = made /\ made \in 0..MaxTokens
      BY <2>2 DEF Prefill, StartDecode, Checkpoint, IInv, TypeOK
    <3>2. CASE Prefill(j)
      BY <3>1, <3>2, <1>1 DEF Prefill, IInv, BudgetOK
    <3>3. CASE StartDecode(j)
      BY <3>1, <3>3, <1>1 DEF StartDecode, IInv, BudgetOK
    <3>4. CASE Checkpoint(j)
      BY <3>1, <3>4, <1>1 DEF Checkpoint, IInv, BudgetOK
    <3>5. QED
      BY <2>2, <3>2, <3>3, <3>4
  <2>3. QED
    BY <2>1, <2>2
<1>5. session' \in BOOLEAN /\ kv' \in Jobs \cup {NoJob} /\ SessionOwnsCache' /\ PrefillOwns'
  <2>1. CASE Prefill(j)
    BY <2>1, <1>1, Zenon DEF Prefill, SessionOwnsCache, PrefillOwns
  <2>2. CASE StartDecode(j) \/ Step(j) \/ Checkpoint(j)
    <3>1. at' # "prefill"
      BY <2>2, <1>1 DEF StartDecode, Step, Checkpoint
    <3>2. UNCHANGED <<session, kv>> \/ (session' = FALSE /\ kv' = NoJob)
      BY <2>2 DEF StartDecode, Step, Checkpoint, Reset, modelVars
    <3>3. CASE UNCHANGED <<session, kv>>
      BY <1>1, <3>1, <3>3 DEF IInv, TypeOK, SessionOwnsCache, PrefillOwns
    <3>4. CASE session' = FALSE /\ kv' = NoJob
      BY <3>1, <3>4, Zenon DEF SessionOwnsCache, PrefillOwns
    <3>5. QED
      BY <3>2, <3>3, <3>4, Zenon
  <2>3. QED
    BY <2>1, <2>2
<1>6. TypeOK'
  BY <1>1, <1>2, <1>4, <1>5 DEF IInv, TypeOK, Events
<1>7. Roles' /\ QueueOK'
  BY <1>1 DEF IInv, Roles, QueueOK
<1>8. QED
  BY <1>3, <1>4, <1>5, <1>6, <1>7 DEF IInv

\* The initial states satisfy IInv.
LEMMA InitIInv ==
    ASSUME Init PROVE IInv
<1> USE WorkerAssumption
<1>1. TypeOK
  <2>1. queue \in Seq(Jobs) /\ Len(queue) <= QueueCap /\ made \in 0..MaxTokens
    BY DEF Init
  <2>2. out \in [Jobs -> Seq({"token", "ok", "done", "error"})]
    BY DEF Init
  <2>3. QED
    BY <2>1, <2>2, Zenon DEF Init, TypeOK
<1>2. QED
  BY <1>1 DEF Init, IInv, Roles, QueueOK, BudgetOK, PrefillOwns, SessionOwnsCache, LostEnds

\* Every step keeps IInv.
LEMMA NextIInv ==
    ASSUME IInv, [Next]_vars PROVE IInv'
<1> USE WorkerAssumption
<1>1. CASE WorkerStep
  BY <1>1, TakeStep, AnswerStep, RunStep DEF WorkerStep
<1>2. CASE \E j \in Jobs : Check(j) \/ Invalid(j) \/ Enqueue(j) \/ Hangup(j)
  BY <1>2, ClientStep
<1>3. CASE Drain
  <2>1. TypeOK'
    BY <1>3 DEF Drain, setup, clientVars, modelVars, IInv, TypeOK
  <2>2. QED
    BY <1>3, <2>1 DEF Drain, setup, clientVars, modelVars, IInv, Roles, QueueOK, BudgetOK,
                      PrefillOwns, SessionOwnsCache, LostEnds
<1>4. CASE UNCHANGED vars
  <2>1. TypeOK'
    BY <1>4 DEF vars, setup, clientVars, modelVars, IInv, TypeOK
  <2>2. QED
    BY <1>4, <2>1 DEF vars, setup, clientVars, modelVars, IInv, Roles, QueueOK, BudgetOK,
                      PrefillOwns, SessionOwnsCache, LostEnds
<1>5. QED
  BY <1>1, <1>2, <1>3, <1>4 DEF Next

\* IInv is an invariant of the worker.
THEOREM WorkerInvariant == Spec => []IInv
<1>1. Init => IInv
  BY InitIInv
<1>2. IInv /\ [Next]_vars => IInv'
  BY NextIInv
<1>3. QED
  BY <1>1, <1>2, PTL DEF Spec

\* Type correctness of the worker, with its bounded queue and token count.
THEOREM WorkerTypes == Spec => []TypeOK
<1>1. IInv => TypeOK
  BY DEF IInv
<1>2. QED
  BY <1>1, WorkerInvariant, PTL

\* An open tree session is over the KV cache its own prefill filled, whatever
\* generations, cancellations and faults came in between.
THEOREM SessionOwnership == Spec => []SessionOwnsCache
<1>1. IInv => SessionOwnsCache
  BY DEF IInv
<1>2. QED
  BY <1>1, WorkerInvariant, PTL

-----------------------------------------------------------------------------
(* The worker implements JobService.                                        *)

\* The stage of job j as JobService sees it.
Shown(j) == CASE stage[j] \in {"queued", "active"} -> "accepted"
              [] stage[j] = "checked" -> "new"
              [] OTHER -> stage[j]

\* A job whose stage, as shown, and channel a step leaves alone idles.
LEMMA IdleMaps ==
    ASSUME NEW k \in Jobs, Shown(k)' = Shown(k),
           open'[k] = open[k], out'[k] = out[k], lost'[k] = lost[k]
    PROVE  Service!Idle(k)
BY DEF Service!Idle, Service!Quiet, Shown

\* The try_send of one event.
LEMMA SendMaps ==
    ASSUME TypeOK, NEW j \in Jobs, NEW e \in Events, Send(j, e)
    PROVE  Service!Send(j, <<e>>)
<1>1. out[j] \in Seq(Events) /\ out \in [Jobs -> Seq(Events)] /\ lost \in [Jobs -> BOOLEAN]
  BY DEF TypeOK, Events
<1>2. Append(out[j], e) = out[j] \o <<e>>
  BY <1>1, AppendIsConcat
<1>3. out[j] \o SubSeq(<<e>>, 1, 0) = out[j]
  BY <1>1, SubSeqEmpty, ConcatEmptySeq
<1>4. CASE open[j] /\ out' = [out EXCEPT ![j] = Append(@, e)] /\ UNCHANGED lost
  BY <1>1, <1>2, <1>4 DEF Service!Send
<1>5. CASE ~open[j] /\ UNCHANGED <<out, lost>>
  BY <1>5, Zenon DEF Service!Send
<1>6. CASE open[j] /\ Len(out[j]) >= EventCap /\ lost' = [lost EXCEPT ![j] = TRUE] /\ UNCHANGED out
  <2>1. Len(out[j]) \in Nat
    BY <1>1, LenProperties
  <2>2. 0 \in 0..(Len(<<e>>) - 1) /\ Len(out[j]) + 0 >= EventCap
    BY <1>6, <2>1
  <2>3. lost'[j] = TRUE /\ out'[j] = out[j] \o SubSeq(<<e>>, 1, 0)
    BY <1>1, <1>3, <1>6
  <2>4. QED
    BY <1>6, <2>2, <2>3, Zenon DEF Service!Send
<1>7. QED
  BY <1>4, <1>5, <1>6 DEF Send

\* The terminal answer of an accepted job.
LEMMA AnswerMaps ==
    ASSUME IInv, NEW j \in Jobs, NEW e \in Service!Terminal, Answer(j, e),
           stage[j] \in {"queued", "active"}
    PROVE  Service!Next
<1>1. e \in Events
  BY DEF Service!Terminal, Events
<1>2. Send(j, e) /\ open' = open /\ stage' = [stage EXCEPT ![j] = "ended"]
  BY DEF Answer
<1>3. /\ stage'[j] = "ended" /\ \A k \in Jobs : k # j => stage'[k] = stage[k]
      /\ \A k \in Jobs : k # j => out'[k] = out[k] /\ lost'[k] = lost[k]
  BY <1>1, <1>2, SendEffect, Zenon DEF IInv, TypeOK
<1>4. Service!Send(j, <<e>>)
  BY <1>1, <1>2, SendMaps DEF IInv
<1>5. Service!Move(j, "accepted", "ended")
  BY <1>3 DEF Service!Move
<1>6. Service!Step(j)
  BY <1>2, <1>4, <1>5 DEF Service!Step, Service!Finish
<1>7. \A k \in Jobs : k # j => Service!Idle(k)
  BY <1>2, <1>3, IdleMaps DEF Shown
<1>8. QED
  BY <1>6, <1>7 DEF Service!Next

\* A step that moves no job's events and no client.
LEMMA QuietMaps ==
    ASSUME NEW j \in Jobs, UNCHANGED <<open, out, lost>>,
           \A k \in Jobs : k # j => stage'[k] = stage[k],
           \/ Shown(j)' = Shown(j)
           \/ Shown(j) = "new" /\ Shown(j)' \in {"accepted", "refused"}
    PROVE  Service!Next
<1>1. \A k \in Jobs : k # j => Service!Idle(k)
  BY IdleMaps DEF Shown
<1>2. Shown(j)' = Shown(j) => Service!Idle(j)
  BY IdleMaps
<1>3. Shown(j) = "new" /\ Shown(j)' \in {"accepted", "refused"} => Service!Step(j)
  BY DEF Service!Step, Service!Decide, Service!Move, Service!Quiet, Shown
<1>4. QED
  BY <1>1, <1>2, <1>3 DEF Service!Next

\* Each step of the worker, its handlers and its clients is a step of
\* JobService or leaves it unchanged.
LEMMA StepMaps ==
    ASSUME IInv, [Next]_vars
    PROVE  Service!Next \/ UNCHANGED Service!vars
<1> USE WorkerAssumption
<1>1. ASSUME NEW j \in Jobs, Check(j) \/ Invalid(j)
      PROVE  Service!Next
  <2>1. /\ UNCHANGED <<open, out, lost>> /\ \A k \in Jobs : k # j => stage'[k] = stage[k]
        /\ stage[j] \in {"new", "checked"} /\ stage'[j] \in {"refused", "checked"}
    BY <1>1 DEF Check, Invalid, clientVars, IInv, TypeOK
  <2>2. QED
    BY <2>1, QuietMaps DEF Shown
<1>2. ASSUME NEW j \in Jobs, Enqueue(j)
      PROVE  Service!Next
  <2>1. /\ UNCHANGED <<open, out, lost>> /\ \A k \in Jobs : k # j => stage'[k] = stage[k]
        /\ stage[j] = "checked" /\ stage'[j] \in {"refused", "queued"}
    BY <1>2 DEF Enqueue, clientVars, IInv, TypeOK
  <2>2. QED
    BY <2>1, QuietMaps DEF Shown
<1>3. ASSUME NEW j \in Jobs, Hangup(j)
      PROVE  Service!Next
  <2>1. /\ UNCHANGED <<stage, out, lost>> /\ open[j] /\ open'[j] = FALSE
        /\ \A k \in Jobs : k # j => open'[k] = open[k]
    BY <1>3 DEF Hangup, IInv, TypeOK
  <2>2. \A k \in Jobs : k # j => Service!Idle(k)
    BY <2>1, IdleMaps DEF Shown
  <2>3. Service!Hangup(j)
    BY <2>1 DEF Service!Hangup, Service!Quiet
  <2>4. QED
    BY <2>2, <2>3 DEF Service!Next, Service!Step
<1>4. ASSUME NEW j \in Jobs, Skip(j)
      PROVE  Service!Next
  <2>1. stage[j] = "queued"
    BY <1>4, TakeKeeps DEF Skip
  <2>2. Answer(j, "error") /\ "error" \in Service!Terminal
    BY <1>4 DEF Skip, Service!Terminal
  <2>3. QED
    BY <2>1, <2>2, AnswerMaps
<1>5. ASSUME NEW j \in Jobs, Begin(j)
      PROVE  Service!Next
  <2>1. stage[j] = "queued"
    BY <1>5, TakeKeeps DEF Begin
  <2>2. /\ UNCHANGED <<open, out, lost>> /\ \A k \in Jobs : k # j => stage'[k] = stage[k]
        /\ stage'[j] = "active"
    BY <1>5 DEF Begin, clientVars, IInv, TypeOK
  <2>3. QED
    BY <2>1, <2>2, QuietMaps DEF Shown
<1>6. ASSUME NEW j \in Jobs,
             \/ Decline(j) \/ GenerationDone(j) \/ TreeCancelled(j)
             \/ SessionOpened(j) \/ Verified(j) \/ BackendFault(j)
      PROVE  Service!Next
  <2>1. \E e \in Service!Terminal : Answer(j, e)
    BY <1>6 DEF Decline, GenerationDone, TreeCancelled, SessionOpened, Verified, BackendFault, Service!Terminal
  <2>2. cur = j
    BY <1>6 DEF Decline, GenerationDone, TreeCancelled, SessionOpened, Verified, BackendFault
  <2>3. stage[j] = "active"
    BY <2>2 DEF IInv, Roles
  <2>4. QED
    BY <2>1, <2>3, AnswerMaps
<1>7. ASSUME NEW j \in Jobs, Prefill(j) \/ StartDecode(j) \/ Checkpoint(j)
      PROVE  Service!Next
  <2>1. UNCHANGED <<stage, open, out, lost>>
    BY <1>7 DEF Prefill, StartDecode, Checkpoint, clientVars
  <2>2. QED
    BY <2>1, QuietMaps DEF Shown
<1>8. ASSUME NEW j \in Jobs, Step(j)
      PROVE  Service!Next
  <2>1. UNCHANGED <<stage, open>> /\ Send(j, "token") /\ cur = j /\ at = "decode"
    BY <1>8 DEF Step
  <2>2. stage[j] = "active" /\ ~lost[j]
    BY <2>1 DEF IInv, Roles, LostEnds
  <2>3. "token" \in Events
    BY DEF Events
  <2>4. Service!Send(j, <<"token">>)
    BY <2>1, <2>3, SendMaps DEF IInv
  <2>5. Service!Token(j)
    BY <2>1, <2>2, <2>4 DEF Service!Token, Service!Move
  <2>6. \A k \in Jobs : k # j => out'[k] = out[k] /\ lost'[k] = lost[k]
    BY <2>1, <2>3, SendEffect DEF IInv
  <2>7. \A k \in Jobs : k # j => Service!Idle(k)
    BY <2>1, <2>6, IdleMaps DEF Shown
  <2>8. QED
    BY <2>5, <2>7 DEF Service!Next, Service!Step
<1>9. CASE Drain \/ UNCHANGED vars
  <2>1. UNCHANGED <<stage, open, out, lost>>
    BY <1>9 DEF Drain, vars, clientVars
  <2>2. QED
    BY <2>1 DEF Service!vars
<1>10. QED
  BY <1>1, <1>2, <1>3, <1>4, <1>5, <1>6, <1>7, <1>8, <1>9 DEF Next, WorkerStep

\* The single worker implements JobService: its jobs get their tokens in order
\* and without a gap, then one terminal event, whatever the handlers, the
\* clients, the drain and the faults do.
THEOREM WorkerImplementsService == Spec => ServiceSpec
<1>1. Init => Service!Init
  BY DEF Init, Service!Init
<1>2. IInv /\ [Next]_vars => [Service!Next]_(Service!vars)
  BY StepMaps
<1>3. QED
  BY <1>1, <1>2, WorkerInvariant, PTL DEF Spec, ServiceSpec, Service!Spec

-----------------------------------------------------------------------------
(* A client that stays connected and reading is told how its job ended.     *)

\* The job has been told, or nobody is there to be told.
Told(j) ==
    stage[j] = "ended" /\ open[j] /\ ~lost[j] =>
        out[j] # << >> /\ out[j][Len(out[j])] \in {"ok", "done", "error"}

\* The terminal answer of an accepted job, and what it leaves of the others.
LEMMA AnswerTells ==
    ASSUME IInv, \A k \in Jobs : Told(k),
           NEW j \in Jobs, NEW e \in {"ok", "done", "error"}, Answer(j, e)
    PROVE  \A k \in Jobs : Told(k)'
<1>1. e \in Events /\ Send(j, e) /\ open' = open /\ stage' = [stage EXCEPT ![j] = "ended"]
  BY DEF Answer, Events
<1>2. \A k \in Jobs : k # j => stage'[k] = stage[k] /\ out'[k] = out[k] /\ lost'[k] = lost[k]
  <2>1. \A k \in Jobs : k # j => out'[k] = out[k] /\ lost'[k] = lost[k]
    <3>1. out \in [Jobs -> Seq(Events)] /\ lost \in [Jobs -> BOOLEAN]
      BY DEF IInv, TypeOK, Events
    <3> QED
      BY <1>1, <3>1 DEF Send
  <2>2. \A k \in Jobs : k # j => stage'[k] = stage[k]
    BY <1>1 DEF IInv, TypeOK
  <2> QED
    BY <2>1, <2>2
<1>3. \A k \in Jobs : k # j => Told(k)'
  BY <1>1, <1>2 DEF Told
<1>4. Told(j)'
  <2>1. out[j] \in Seq(Events) /\ out \in [Jobs -> Seq(Events)] /\ lost \in [Jobs -> BOOLEAN]
    BY DEF IInv, TypeOK, Events
  <2>2. CASE open[j] /\ out' = [out EXCEPT ![j] = Append(@, e)]
    <3>1. out'[j] = Append(out[j], e)
      BY <2>1, <2>2
    <3>2. Len(out[j]) \in Nat /\ Len(Append(out[j], e)) = Len(out[j]) + 1
          /\ Append(out[j], e)[Len(out[j]) + 1] = e
      BY <1>1, <2>1, AppendProperties, LenProperties
    <3>3. Append(out[j], e) # << >>
      BY <3>2
    <3> QED
      BY <3>1, <3>2, <3>3 DEF Told
  <2>3. CASE ~open[j]
    BY <1>1, <2>3 DEF Told
  <2>4. CASE lost' = [lost EXCEPT ![j] = TRUE]
    BY <2>1, <2>4 DEF Told
  <2> QED
    BY <1>1, <2>2, <2>3, <2>4 DEF Send
<1> QED
  BY <1>3, <1>4

\* Every step keeps the jobs that ended told.
LEMMA ToldStep ==
    ASSUME IInv, \A k \in Jobs : Told(k), [Next]_vars
    PROVE  \A k \in Jobs : Told(k)'
<1> USE WorkerAssumption
<1>1. ASSUME NEW j \in Jobs,
             \/ Skip(j) \/ Decline(j) \/ GenerationDone(j) \/ TreeCancelled(j)
             \/ SessionOpened(j) \/ Verified(j) \/ BackendFault(j)
      PROVE  \A k \in Jobs : Told(k)'
  <2>1. \E e \in {"ok", "done", "error"} : Answer(j, e)
    BY <1>1 DEF Skip, Decline, GenerationDone, TreeCancelled, SessionOpened, Verified, BackendFault
  <2> QED
    BY <2>1, AnswerTells
<1>2. ASSUME NEW j \in Jobs, Step(j)
      PROVE  \A k \in Jobs : Told(k)'
  <2>1. UNCHANGED <<stage, open>> /\ Send(j, "token") /\ "token" \in Events /\ cur = j
    BY <1>2 DEF Step, Events
  <2>2. stage[j] = "active"
    BY <2>1 DEF IInv, Roles
  <2>3. \A k \in Jobs : k # j => out'[k] = out[k] /\ lost'[k] = lost[k]
    BY <2>1, SendEffect DEF IInv
  <2> QED
    BY <2>1, <2>2, <2>3 DEF Told
<1>3. ASSUME UNCHANGED <<out, lost>>,
             \A k \in Jobs : (stage'[k] = "ended" => stage[k] = "ended") /\ (open'[k] => open[k])
      PROVE  \A k \in Jobs : Told(k)'
  BY <1>3 DEF Told
<1>4. ASSUME NEW j \in Jobs, Check(j) \/ Invalid(j) \/ Enqueue(j) \/ Hangup(j) \/ Begin(j)
      PROVE  \A k \in Jobs : Told(k)'
  <2>1. UNCHANGED <<out, lost>>
    BY <1>4 DEF Check, Invalid, Enqueue, Hangup, Begin, clientVars
  <2>2. \A k \in Jobs : stage'[k] = "ended" => stage[k] = "ended"
    <3>1. \/ stage' = stage
          \/ \E v \in {"refused", "checked", "queued", "active"} : stage' = [stage EXCEPT ![j] = v]
      BY <1>4 DEF Check, Invalid, Enqueue, Hangup, Begin
    <3> QED
      BY <3>1 DEF IInv, TypeOK
  <2>3. \A k \in Jobs : open'[k] => open[k]
    BY <1>4, Zenon DEF Check, Invalid, Enqueue, Hangup, Begin, clientVars, IInv, TypeOK
  <2> QED
    BY <1>3, <2>1, <2>2, <2>3
<1>5. ASSUME UNCHANGED <<stage, open, out, lost>>
      PROVE  \A k \in Jobs : Told(k)'
  BY <1>3, <1>5
<1> QED
  BY <1>1, <1>2, <1>4, <1>5
     DEF Next, WorkerStep, Prefill, StartDecode, Checkpoint, Drain, vars, clientVars

\* A job that ended with its client connected and its channel never full was
\* sent a terminal event, and it is the last one the client got.
THEOREM WorkerAnswers == Spec => []Answered
<1> DEFINE AllTold == \A k \in Jobs : Told(k)
<1>1. Init => AllTold
  BY DEF Init, Told
<1>2. IInv /\ AllTold /\ [Next]_vars => AllTold'
  BY ToldStep
<1>3. AllTold => Answered
  BY DEF Told, Answered, Service!AnsweredOnce, Service!Terminal
<1>4. QED
  BY <1>1, <1>2, <1>3, WorkerInvariant, PTL DEF Spec

-----------------------------------------------------------------------------
(* The latched fault.                                                       *)

\* A fault is recorded by the job it ends, and after it no job begins.
FaultIdle == faulted => latch /\ cur = NoJob

\* Every step keeps FaultIdle.
LEMMA FaultIdleStep ==
    ASSUME IInv, FaultIdle, [Next]_vars
    PROVE  FaultIdle'
<1> USE WorkerAssumption
<1>1. ASSUME NEW j \in Jobs, Begin(j)
      PROVE  FaultIdle'
  BY <1>1 DEF Begin, Refused, setup, FaultIdle
<1>2. ASSUME NEW j \in Jobs, BackendFault(j)
      PROVE  FaultIdle'
  BY <1>2, Zenon DEF BackendFault, Fault, Answer, setup, FaultIdle
<1>3. ASSUME NEW j \in Jobs,
             \/ Skip(j) \/ Decline(j) \/ GenerationDone(j) \/ TreeCancelled(j)
             \/ SessionOpened(j) \/ Verified(j)
      PROVE  FaultIdle'
  BY <1>3, Zenon DEF Skip, Decline, GenerationDone, TreeCancelled, SessionOpened, Verified, Answer, setup, FaultIdle
<1>4. ASSUME UNCHANGED <<faulted, latch, cur>>
      PROVE  FaultIdle'
  BY <1>4 DEF FaultIdle
<1>5. QED
  BY <1>1, <1>2, <1>3, <1>4
     DEF Next, WorkerStep, Prefill, StartDecode, Step, Checkpoint, Check, Invalid, Enqueue, Hangup, Drain, vars, setup

\* After a latched backend fault clients are given errors only: the jobs that
\* were queued, and those whose handlers passed the readiness check before.
THEOREM FaultIsLatched == Spec => FaultLatched
<1> DEFINE OnlyErrors == \A j \in Jobs : out'[j] # out[j] => out'[j] = Append(out[j], "error")
<1>1. Init => FaultIdle
  BY DEF Init, FaultIdle
<1>2. IInv /\ FaultIdle /\ [Next]_vars => FaultIdle'
  BY FaultIdleStep
<1>3. IInv /\ FaultIdle /\ [Next]_vars => [faulted => OnlyErrors]_vars
  <2> SUFFICES ASSUME IInv, FaultIdle, Next, faulted PROVE OnlyErrors
    OBVIOUS
  <2>1. cur = NoJob /\ NoJob \notin Jobs
    BY WorkerAssumption DEF FaultIdle
  <2>2. ASSUME NEW j \in Jobs, Skip(j)
        PROVE  OnlyErrors
    <3>1. Send(j, "error") /\ out \in [Jobs -> Seq(Events)]
      BY <2>2 DEF Skip, Answer, IInv, TypeOK, Events
    <3>2. QED
      BY <3>1 DEF Send
  <2>3. ASSUME UNCHANGED out
        PROVE  OnlyErrors
    BY <2>3
  <2>4. QED
    BY <2>1, <2>2, <2>3
       DEF Next, WorkerStep, Begin, Decline, Prefill, StartDecode, Step, Checkpoint, GenerationDone,
           TreeCancelled, SessionOpened, Verified, BackendFault, Check, Invalid, Enqueue, Hangup, Drain, clientVars
<1>4. QED
  BY <1>1, <1>2, <1>3, WorkerInvariant, PTL DEF Spec, FaultLatched

-----------------------------------------------------------------------------
(* The in-flight budget.  It only restricts the worker's environment, so    *)
(* what is proved of the worker holds behind it.                            *)

\* Only a request that is in holds a permit, and only a probe the reserve;
\* only a request that got in is handled.
DoorOK ==
    /\ \A r \in Requests : permit[r] # "none" <=> door[r] = "in"
    /\ \A j \in Jobs : stage[j] # "new" => door[j] \in {"in", "left"}
    /\ \A j \in Jobs : stage[j] = "checked" => door[j] = "in"
    /\ \A j \in Jobs : stage[j] \in {"new", "checked"} => open[j]
    /\ \A j \in Jobs : permit[j] # "reserve"

\* One probe at most holds the reserve.
ReserveOK ==
    /\ probes = 0 <=> \E p \in Probes : permit[p] = "reserve"
    /\ \A p, q \in Probes : permit[p] = "reserve" /\ permit[q] = "reserve" => p = q

\* The shared permits that are left and those that are held make up the cap.
LedgerOK ==
    /\ IsFiniteSet(Holders("ordinary"))
    /\ ordinary + Cardinality(Holders("ordinary")) = Cap

\* The inductive invariant.
BInv == IInv /\ BudgetTypeOK /\ DoorOK /\ ReserveOK /\ LedgerOK /\ InFlightCovered

\* Every step of the composition is one of the worker's or none of its.
LEMMA WorkerUnderneath ==
    ASSUME [BudgetNext]_allVars
    PROVE  [Next]_vars
<1>1. CASE \E r \in Requests : Enter(r) \/ BodyEnd(r) \/ Disconnect(r)
  BY <1>1 DEF Enter, BodyEnd, Disconnect, Requests, Next
<1>2. CASE \E j \in Jobs : Handle(j) \/ ReceiverDropped(j)
  BY <1>2 DEF Handle, ReceiverDropped, Next
<1>3. CASE WorkerStep \/ Drain
  BY <1>3 DEF Next
<1>4. CASE UNCHANGED allVars
  BY <1>4 DEF allVars
<1>5. QED
  BY <1>1, <1>2, <1>3, <1>4 DEF BudgetNext

\* The worker's invariant holds behind the budget.
THEOREM WorkerBehindBudget == BudgetSpec => []IInv
<1>1. BudgetInit => Init
  BY DEF BudgetInit
<1>2. [BudgetNext]_allVars => [Next]_vars
  BY WorkerUnderneath
<1>3. Init => IInv
  BY InitIInv
<1>4. IInv /\ [Next]_vars => IInv'
  BY NextIInv
<1>5. QED
  BY <1>1, <1>2, <1>3, <1>4, PTL DEF BudgetSpec

\* The worker implements JobService behind the budget too.
THEOREM ServiceBehindBudget == BudgetSpec => ServiceSpec
<1>1. BudgetInit => Service!Init
  BY DEF BudgetInit, Init, Service!Init
<1>2. IInv /\ [BudgetNext]_allVars => [Service!Next]_(Service!vars)
  BY WorkerUnderneath, StepMaps
<1>3. QED
  BY <1>1, <1>2, WorkerBehindBudget, PTL DEF BudgetSpec, ServiceSpec, Service!Spec

\* The ledger while no shared permit moves,
LEMMA LedgerKept ==
    ASSUME LedgerOK, UNCHANGED ordinary,
           \A r \in Requests : permit'[r] = "ordinary" <=> permit[r] = "ordinary"
    PROVE  LedgerOK'
<1>1. Holders("ordinary")' = Holders("ordinary")
  BY DEF Holders
<1>2. QED
  BY <1>1 DEF LedgerOK

\* when one is taken,
LEMMA LedgerTaken ==
    ASSUME BudgetTypeOK, LedgerOK, NEW r \in Requests, permit[r] # "ordinary",
           ordinary > 0, ordinary' = ordinary - 1, permit' = [permit EXCEPT ![r] = "ordinary"]
    PROVE  LedgerOK'
<1>1. Holders("ordinary")' = Holders("ordinary") \cup {r} /\ r \notin Holders("ordinary")
  BY DEF Holders, BudgetTypeOK
<1>2. /\ IsFiniteSet(Holders("ordinary")')
      /\ Cardinality(Holders("ordinary")') = Cardinality(Holders("ordinary")) + 1
  BY <1>1, FS_AddElement DEF LedgerOK
<1>3. Cardinality(Holders("ordinary")) \in Nat /\ ordinary \in Nat
  BY FS_CardinalityType DEF LedgerOK, BudgetTypeOK
<1>4. ordinary' + Cardinality(Holders("ordinary")') = Cap
  BY <1>2, <1>3 DEF LedgerOK
<1>5. QED
  BY <1>2, <1>4 DEF LedgerOK

\* and when one comes back: there was room for it.
LEMMA LedgerReturned ==
    ASSUME BudgetTypeOK, LedgerOK, NEW r \in Requests, permit[r] = "ordinary",
           ordinary' = ordinary + 1, permit' = [permit EXCEPT ![r] = "none"]
    PROVE  LedgerOK' /\ ordinary' \in 0..Cap
<1> USE BudgetAssumption
<1>1. Holders("ordinary")' = Holders("ordinary") \ {r} /\ r \in Holders("ordinary")
  BY DEF Holders, BudgetTypeOK
<1>2. /\ IsFiniteSet(Holders("ordinary")')
      /\ Cardinality(Holders("ordinary")') = Cardinality(Holders("ordinary")) - 1
  BY <1>1, FS_RemoveElement DEF LedgerOK
<1>3. /\ Cardinality(Holders("ordinary")) \in Nat /\ ordinary \in Nat
      /\ Cardinality(Holders("ordinary")') \in Nat
  BY <1>2, FS_CardinalityType DEF LedgerOK, BudgetTypeOK
<1>4. ordinary' + Cardinality(Holders("ordinary")') = Cap
  BY <1>2, <1>3 DEF LedgerOK
<1>5. ordinary' \in 0..Cap
  BY <1>3, <1>4
<1>6. QED
  BY <1>2, <1>4, <1>5 DEF LedgerOK

\* The middleware keeps the invariant.
LEMMA EnterStep ==
    ASSUME BInv, NEW r \in Requests, Enter(r)
    PROVE  BInv'
<1> USE BudgetAssumption
<1>1. UNCHANGED <<stage, open>> /\ IInv'
  <2>1. UNCHANGED vars
    BY DEF Enter
  <2>2. QED
    BY <2>1, NextIInv DEF BInv, vars, clientVars
<1>2. /\ door[r] = "outside" /\ permit[r] = "none"
      /\ door \in [Requests -> {"outside", "in", "left", "turned"}]
      /\ permit \in [Requests -> {"none", "ordinary", "reserve"}]
      /\ ordinary \in 0..Cap /\ probes \in 0..1
  BY DEF Enter, BInv, BudgetTypeOK, DoorOK
<1>3. TurnAway(r) \/ TryAcquire(r)
  BY DEF Enter
<1>4. CASE TurnAway(r)
  <2>1. door' = [door EXCEPT ![r] = "turned"] /\ UNCHANGED <<permit, ordinary, probes>>
    BY <1>4 DEF TurnAway
  <2>2. BudgetTypeOK'
    BY <1>2, <2>1 DEF BudgetTypeOK
  <2>3. DoorOK'
    BY <1>1, <1>2, <2>1 DEF BInv, DoorOK, Requests
  <2>4. ReserveOK' /\ InFlightCovered'
    BY <1>1, <2>1 DEF BInv, ReserveOK, InFlightCovered
  <2>5. LedgerOK'
    BY <2>1, LedgerKept DEF BInv
  <2>6. QED
    BY <1>1, <2>2, <2>3, <2>4, <2>5 DEF BInv
<1>5. CASE /\ ordinary > 0 /\ ordinary' = ordinary - 1 /\ UNCHANGED probes
           /\ door' = [door EXCEPT ![r] = "in"] /\ permit' = [permit EXCEPT ![r] = "ordinary"]
  <2>1. BudgetTypeOK'
    BY <1>2, <1>5 DEF BudgetTypeOK
  <2>2. DoorOK'
    BY <1>1, <1>2, <1>5 DEF BInv, DoorOK, Requests
  <2>3. ReserveOK'
    BY <1>2, <1>5 DEF BInv, ReserveOK, Requests
  <2>4. InFlightCovered'
    BY <1>1, <1>2, <1>5 DEF BInv, InFlightCovered, Requests
  <2>5. LedgerOK'
    BY <1>2, <1>5, LedgerTaken, Zenon DEF BInv
  <2>6. QED
    BY <1>1, <2>1, <2>2, <2>3, <2>4, <2>5 DEF BInv
<1>6. CASE /\ r \in Probes /\ probes > 0 /\ probes' = probes - 1 /\ UNCHANGED ordinary
           /\ door' = [door EXCEPT ![r] = "in"] /\ permit' = [permit EXCEPT ![r] = "reserve"]
  <2>1. probes = 1 /\ probes' = 0
    BY <1>2, <1>6
  <2>2. BudgetTypeOK'
    BY <1>2, <1>6, <2>1 DEF BudgetTypeOK
  <2>3. DoorOK'
    BY <1>1, <1>2, <1>6 DEF BInv, DoorOK, Requests
  <2>4. ReserveOK'
    BY <1>2, <1>6, <2>1 DEF BInv, ReserveOK, Requests
  <2>5. InFlightCovered'
    BY <1>1, <1>2, <1>6 DEF BInv, InFlightCovered, Requests
  <2>6. LedgerOK'
    <3>1. \A q \in Requests : permit'[q] = "ordinary" <=> permit[q] = "ordinary"
      BY <1>2, <1>6
    <3>2. QED
      BY <1>6, <3>1, LedgerKept DEF BInv
  <2>7. QED
    BY <1>1, <2>2, <2>3, <2>4, <2>5, <2>6 DEF BInv
<1>7. QED
  BY <1>3, <1>4, <1>5, <1>6 DEF TryAcquire, Admit

\* The end of a request keeps the invariant: its body ends or its connection
\* goes away.
LEMMA LeaveStep ==
    ASSUME BInv, NEW r \in Requests, BodyEnd(r) \/ Disconnect(r)
    PROVE  BInv'
<1> USE BudgetAssumption
<1>1. /\ door[r] = "in" /\ permit[r] \in {"ordinary", "reserve"}
      /\ door \in [Requests -> {"outside", "in", "left", "turned"}]
      /\ permit \in [Requests -> {"none", "ordinary", "reserve"}]
      /\ ordinary \in 0..Cap /\ probes \in 0..1
  BY DEF BodyEnd, Disconnect, BInv, BudgetTypeOK, DoorOK
<1>2. /\ door' = [door EXCEPT ![r] = "left"]
      /\ permit' = [permit EXCEPT ![r] = "none"]
      /\ ordinary' = ordinary + (IF permit[r] = "ordinary" THEN 1 ELSE 0)
      /\ probes' = probes + (IF permit[r] = "reserve" THEN 1 ELSE 0)
  BY DEF BodyEnd, Disconnect, Return
<1>3. UNCHANGED vars \/ (r \in Jobs /\ Hangup(r))
  BY DEF BodyEnd, Disconnect
<1>4. IInv'
  <2>1. [Next]_vars
    BY <1>3 DEF Next
  <2>2. QED
    BY <2>1, NextIInv DEF BInv
<1>5. /\ stage' = stage /\ \A j \in Jobs : j # r => open'[j] = open[j]
      /\ \A j \in Jobs : stage[j] \in {"new", "checked"} => open'[j] = open[j]
  <2>1. CASE UNCHANGED vars
    BY <2>1 DEF vars, clientVars
  <2>2. CASE r \in Jobs /\ Hangup(r)
    BY <2>2 DEF Hangup, BInv, IInv, TypeOK
  <2>3. QED
    BY <1>3, <2>1, <2>2
<1>6. r \in Jobs => stage[r] # "checked" /\ (stage'[r] \in {"queued", "active"} => ~open'[r])
  <2>1. CASE BodyEnd(r)
    BY <2>1, Zenon DEF BodyEnd, vars, clientVars, BInv, DoorOK
  <2>2. CASE Disconnect(r)
    BY <2>2 DEF Disconnect, Hangup, vars, clientVars, BInv, IInv, TypeOK
  <2>3. QED
    BY <2>1, <2>2
<1>7. DoorOK'
  BY <1>1, <1>2, <1>5, <1>6 DEF BInv, DoorOK, Requests
<1>8. InFlightCovered'
  BY <1>1, <1>2, <1>5, <1>6 DEF BInv, InFlightCovered, Requests
<1>9. CASE permit[r] = "ordinary"
  <2>1. ordinary' = ordinary + 1 /\ probes' = probes
    BY <1>1, <1>2, <1>9
  <2>2. LedgerOK' /\ ordinary' \in 0..Cap
    BY <1>2, <1>9, <2>1, LedgerReturned, Zenon DEF BInv
  <2>3. BudgetTypeOK'
    BY <1>1, <1>2, <2>1, <2>2 DEF BudgetTypeOK
  <2>4. ReserveOK'
    BY <1>1, <1>2, <1>9, <2>1 DEF BInv, ReserveOK, Requests
  <2>5. QED
    BY <1>4, <1>7, <1>8, <2>2, <2>3, <2>4 DEF BInv
<1>10. CASE permit[r] = "reserve"
  <2>1. r \in Probes
    BY <1>10 DEF BInv, DoorOK, Requests
  <2>2. ordinary' = ordinary /\ probes = 0 /\ probes' = 1
    BY <1>1, <1>2, <1>10, <2>1 DEF BInv, ReserveOK
  <2>3. BudgetTypeOK'
    BY <1>1, <1>2, <2>2 DEF BudgetTypeOK
  <2>4. ReserveOK'
    BY <1>1, <1>2, <1>10, <2>1, <2>2 DEF BInv, ReserveOK, Requests
  <2>5. \A q \in Requests : permit'[q] = "ordinary" <=> permit[q] = "ordinary"
    BY <1>1, <1>2, <1>10
  <2>6. LedgerOK'
    BY <2>2, <2>5, LedgerKept DEF BInv
  <2>7. QED
    BY <1>4, <1>7, <1>8, <2>3, <2>4, <2>6 DEF BInv
<1>11. QED
  BY <1>1, <1>9, <1>10

\* What the worker thread does to the jobs: it runs and ends accepted ones.
LEMMA WorkerMoves ==
    ASSUME IInv, WorkerStep
    PROVE  /\ open' = open
           /\ \A k \in Jobs : \/ stage'[k] = stage[k]
                              \/ stage[k] \in {"queued", "active"} /\ stage'[k] \in {"active", "ended"}
<1>1. PICK j \in Jobs :
        \/ Skip(j) \/ Begin(j) \/ Decline(j) \/ Prefill(j) \/ StartDecode(j)
        \/ Step(j) \/ Checkpoint(j) \/ GenerationDone(j)
        \/ TreeCancelled(j) \/ SessionOpened(j) \/ Verified(j) \/ BackendFault(j)
  BY DEF WorkerStep
<1>2. CASE Skip(j) \/ Begin(j)
  <2>1. stage[j] = "queued"
    BY <1>2, TakeKeeps DEF Skip, Begin
  <2>2. open' = open /\ (stage' = [stage EXCEPT ![j] = "ended"] \/ stage' = [stage EXCEPT ![j] = "active"])
    BY <1>2 DEF Skip, Begin, Answer, clientVars
  <2>3. QED
    BY <2>1, <2>2 DEF IInv, TypeOK
<1>3. CASE \/ Decline(j) \/ GenerationDone(j) \/ TreeCancelled(j)
           \/ SessionOpened(j) \/ Verified(j) \/ BackendFault(j)
  <2>1. cur = j /\ open' = open /\ stage' = [stage EXCEPT ![j] = "ended"]
    BY <1>3 DEF Decline, GenerationDone, TreeCancelled, SessionOpened, Verified, BackendFault, Answer
  <2>2. stage[j] = "active"
    BY <2>1 DEF IInv, Roles
  <2>3. QED
    BY <2>1, <2>2 DEF IInv, TypeOK
<1>4. CASE Prefill(j) \/ StartDecode(j) \/ Step(j) \/ Checkpoint(j)
  BY <1>4 DEF Prefill, StartDecode, Step, Checkpoint, clientVars
<1>5. QED
  BY <1>1, <1>2, <1>3, <1>4

\* A step that leaves the budget alone keeps the invariant when it moves jobs
\* in the order of their stages, and only those that are in from "new".
LEMMA JobsMove ==
    ASSUME BInv, IInv', UNCHANGED budgetVars,
           \A k \in Jobs : \/ stage'[k] = stage[k] /\ open'[k] = open[k]
                           \/ /\ stage[k] \in {"queued", "active"} /\ open'[k] = open[k]
                              /\ stage'[k] \in {"active", "ended"}
                           \/ /\ stage[k] \in {"queued", "active"} /\ ~open'[k]
                              /\ stage'[k] = stage[k]
                           \/ /\ stage[k] \in {"new", "checked"} /\ door[k] = "in"
                              /\ open'[k] = open[k]
                              /\ stage'[k] \in {"checked", "queued", "refused"}
    PROVE  BInv'
<1>1. UNCHANGED <<door, permit, ordinary, probes>>
  BY DEF budgetVars
<1>2. BudgetTypeOK' /\ ReserveOK'
  BY <1>1 DEF BInv, BudgetTypeOK, ReserveOK
<1>3. LedgerOK'
  BY <1>1, LedgerKept DEF BInv
<1>4. DoorOK'
  BY <1>1 DEF BInv, DoorOK
<1>5. \A k \in Jobs : permit[k] # "ordinary" => door[k] # "in"
  BY DEF BInv, BudgetTypeOK, DoorOK, Requests
<1>6. InFlightCovered'
  BY <1>1, <1>5 DEF BInv, InFlightCovered
<1>7. QED
  BY <1>2, <1>3, <1>4, <1>6, Zenon DEF BInv

\* BInv is an invariant of the composition.
THEOREM BudgetInvariant == BudgetSpec => []BInv
<1> USE BudgetAssumption
<1>1. BudgetInit => BInv
  <2> SUFFICES ASSUME BudgetInit PROVE BInv
    OBVIOUS
  <2>1. IInv
    BY InitIInv DEF BudgetInit
  <2>2. /\ BudgetTypeOK /\ DoorOK
        /\ ReserveOK /\ InFlightCovered
    <3>1. BudgetTypeOK
      BY DEF BudgetInit, Init, BudgetTypeOK, Requests
    <3>2. DoorOK
      BY DEF BudgetInit, Init, DoorOK, Requests
    <3>3. ReserveOK
      BY DEF BudgetInit, Init, ReserveOK, Requests
    <3>4. InFlightCovered
      BY DEF BudgetInit, Init, InFlightCovered, Requests
    <3>5. QED
      BY <3>1, <3>2, <3>3, <3>4
  <2>3. Holders("ordinary") = {}
    BY DEF BudgetInit, Holders
  <2>4. LedgerOK
    BY <2>3, FS_EmptySet DEF BudgetInit, LedgerOK
  <2>5. QED
    BY <2>1, <2>2, <2>4 DEF BInv
<1>2. BInv /\ [BudgetNext]_allVars => BInv'
  <2> SUFFICES ASSUME BInv, [BudgetNext]_allVars PROVE BInv'
    OBVIOUS
  <2>1. IInv'
    BY WorkerUnderneath, NextIInv DEF BInv
  <2>2. CASE WorkerStep /\ UNCHANGED budgetVars
    BY <2>1, <2>2, WorkerMoves, JobsMove DEF BInv
  <2>3. CASE Drain /\ UNCHANGED budgetVars
    <3>1. UNCHANGED <<stage, open>>
      BY <2>3 DEF Drain, clientVars
    <3>2. QED
      BY <2>1, <2>3, <3>1, JobsMove
  <2>4. CASE \E r \in Requests : Enter(r) \/ BodyEnd(r) \/ Disconnect(r)
    BY <2>4, EnterStep, LeaveStep
  <2>5. ASSUME NEW j \in Jobs, Handle(j)
        PROVE  BInv'
    <3>1. /\ UNCHANGED budgetVars /\ door[j] = "in" /\ open' = open
          /\ stage[j] \in {"new", "checked"} /\ stage'[j] \in {"checked", "queued", "refused"}
          /\ \A k \in Jobs : k # j => stage'[k] = stage[k]
      BY <2>5 DEF Handle, Check, Invalid, Enqueue, clientVars, BInv, IInv, TypeOK
    <3>2. QED
      BY <2>1, <3>1, JobsMove
  <2>6. ASSUME NEW j \in Jobs, ReceiverDropped(j)
        PROVE  BInv'
    <3>1. /\ UNCHANGED budgetVars /\ UNCHANGED stage
          /\ stage[j] \in {"queued", "active"} /\ open'[j] = FALSE
          /\ \A k \in Jobs : k # j => open'[k] = open[k]
      BY <2>6 DEF ReceiverDropped, Hangup, BInv, IInv, TypeOK
    <3>2. QED
      BY <2>1, <3>1, JobsMove
  <2>7. CASE UNCHANGED allVars
    <3>1. UNCHANGED budgetVars /\ UNCHANGED <<stage, open>>
      BY <2>7 DEF allVars, vars, clientVars
    <3>2. QED
      BY <2>1, <3>1, JobsMove
  <2>8. QED
    BY <2>2, <2>3, <2>4, <2>5, <2>6, <2>7 DEF BudgetNext
<1>3. QED
  BY <1>1, <1>2, PTL DEF BudgetSpec

\* From its acceptance to its end, a job whose client is connected is covered
\* by a permit of the shared budget.
THEOREM InFlightAlwaysCovered == BudgetSpec => []InFlightCovered
<1>1. BInv => InFlightCovered
  BY DEF BInv
<1>2. QED
  BY <1>1, BudgetInvariant, PTL

\* Permits are neither lost nor returned twice, and the reserve is for probes.
THEOREM PermitsAlwaysConserved == BudgetSpec => []PermitsConserved
<1>1. BInv => PermitsConserved
  <2> SUFFICES ASSUME BInv PROVE PermitsConserved
    OBVIOUS
  <2>1. Holders("reserve") \subseteq Probes
    BY DEF BInv, DoorOK, Holders, Requests
  <2>2. CASE probes = 0
    <3>1. PICK p \in Probes : permit[p] = "reserve"
      BY <2>2 DEF BInv, ReserveOK
    <3>2. Holders("reserve") = {p}
      BY <2>1, <3>1 DEF BInv, ReserveOK, Holders, Requests
    <3>3. Cardinality(Holders("reserve")) = 1
      BY <3>2, FS_Singleton
    <3>4. QED
      BY <2>1, <2>2, <3>3 DEF BInv, LedgerOK, PermitsConserved
  <2>3. CASE probes = 1
    <3>1. Holders("reserve") = {}
      BY <2>1, <2>3 DEF BInv, ReserveOK, Holders
    <3>2. Cardinality(Holders("reserve")) = 0
      BY <3>1, FS_EmptySet
    <3>3. QED
      BY <2>1, <2>3, <3>2 DEF BInv, LedgerOK, PermitsConserved
  <2>4. QED
    BY <2>2, <2>3 DEF BInv, BudgetTypeOK
<1>2. QED
  BY <1>1, BudgetInvariant, PTL

\* A probe is turned away only while another probe holds the reserve.
THEOREM ProbesAlwaysServed == BudgetSpec => ProbesServed
<1> USE BudgetAssumption
<1> DEFINE Served == \A p \in Probes : door'[p] = "turned" /\ door[p] # "turned" =>
                        \E q \in Probes \ {p} : permit[q] = "reserve"
<1>1. BInv /\ [BudgetNext]_allVars => [Served]_allVars
  <2> SUFFICES ASSUME BInv, BudgetNext PROVE Served
    OBVIOUS
  <2>1. CASE UNCHANGED door
    BY <2>1
  <2>2. ASSUME NEW r \in Requests, BodyEnd(r) \/ Disconnect(r)
        PROVE  Served
    <3>1. door' = [door EXCEPT ![r] = "left"] /\ door \in [Requests -> {"outside", "in", "left", "turned"}]
      BY <2>2 DEF BodyEnd, Disconnect, Return, BInv, BudgetTypeOK
    <3>2. QED
      BY <3>1 DEF Requests
  <2>3. ASSUME NEW r \in Requests, Enter(r)
        PROVE  Served
    <3>1. /\ door[r] = "outside" /\ door \in [Requests -> {"outside", "in", "left", "turned"}]
          /\ permit[r] = "none"
      BY <2>3 DEF Enter, BInv, BudgetTypeOK, DoorOK
    <3>2. door' = [door EXCEPT ![r] = "in"] \/ door' = [door EXCEPT ![r] = "turned"]
      BY <2>3 DEF Enter, TryAcquire, TurnAway, Admit
    <3>3. r \in Probes /\ door'[r] = "turned" => probes = 0
      BY <2>3, <3>1 DEF Enter, TryAcquire, TurnAway, Admit
    <3>4. probes = 0 => \E q \in Probes : permit[q] = "reserve"
      BY DEF BInv, ReserveOK
    <3>5. QED
      BY <3>1, <3>2, <3>3, <3>4 DEF Requests
  <2>4. QED
    BY <2>1, <2>2, <2>3, Zenon DEF BudgetNext, Handle, ReceiverDropped, budgetVars
<1>2. QED
  BY <1>1, BudgetInvariant, PTL DEF BudgetSpec, ProbesServed
=============================================================================
