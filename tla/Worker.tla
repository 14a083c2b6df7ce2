------------------------------- MODULE Worker -------------------------------
(***************************************************************************)
(* The single decode worker: the handlers' admission to the bounded job    *)
(* queue, the loop of `spawn_worker`, and the KV cache and tree session of *)
(* the generator it owns.  Handlers, clients and the drain signal run      *)
(* concurrently with the worker thread.                                    *)
(***************************************************************************)
EXTENDS Integers, Sequences

CONSTANTS
    Jobs,        \* the requests
    NoJob,       \* no owner
    QueueCap,    \* capacity of the job queue
    EventCap,    \* capacity of a job's event channel
    MaxTokens    \* token budget of a generation

ASSUME WorkerAssumption ==
    /\ NoJob \notin Jobs
    /\ QueueCap \in Nat \ {0}
    /\ EventCap \in Nat \ {0}
    /\ MaxTokens \in Nat \ {0}

VARIABLES
    stage,      \* "new", "checked", "queued", "active", "ended", "refused"
    kind,       \* "generate", "open" or "verify"
    latch,      \* latch_backend_faults: production latches a fault, tests need not
    open,       \* the client still holds the receiver
    out,        \* events delivered to the client
    lost,       \* history: an event met a full channel
    queue,      \* the job queue
    cur,        \* the job the worker is running
    at,         \* where in it the worker is
    made,       \* tokens of it decoded
    draining, faulted,
    session,    \* tree_session_open
    kv          \* the job whose tokens the KV cache holds

setup == <<kind, latch>>
clientVars == <<open, out, lost>>
modelVars == <<session, kv>>
vars == <<stage, setup, clientVars, queue, cur, at, made, draining, faulted, modelVars>>

Kinds == {"generate", "open", "verify"}

Init ==
    /\ stage = [j \in Jobs |-> "new"]
    /\ kind \in [Jobs -> Kinds]
    /\ latch \in BOOLEAN
    /\ open = [j \in Jobs |-> TRUE]
    /\ out = [j \in Jobs |-> << >>]
    /\ lost = [j \in Jobs |-> FALSE]
    /\ queue = << >>
    /\ cur = NoJob
    /\ at = "idle"
    /\ made = 0
    /\ draining = FALSE
    /\ faulted = FALSE
    /\ session = FALSE
    /\ kv = NoJob

-----------------------------------------------------------------------------
(* Handlers and clients.                                                    *)

\* The handler looks at the drain flag and at readiness, and only later
\* enqueues its job.
Check(j) ==
    /\ stage[j] = "new"
    /\ stage' = [stage EXCEPT ![j] = IF draining \/ faulted THEN "refused" ELSE "checked"]
    /\ UNCHANGED <<setup, clientVars, queue, cur, at, made, draining, faulted, modelVars>>

\* A completion whose fields, prompt or token counts are out of bounds is
\* answered with an error before it reaches the queue.
Invalid(j) ==
    /\ stage[j] = "checked"
    /\ kind[j] = "generate"
    /\ stage' = [stage EXCEPT ![j] = "refused"]
    /\ UNCHANGED <<setup, clientVars, queue, cur, at, made, draining, faulted, modelVars>>

\* jobs.try_send: a full queue is answered with 429.
Enqueue(j) ==
    /\ stage[j] = "checked"
    /\ \/ /\ Len(queue) < QueueCap
          /\ queue' = Append(queue, j)
          /\ stage' = [stage EXCEPT ![j] = "queued"]
       \/ /\ Len(queue) = QueueCap
          /\ stage' = [stage EXCEPT ![j] = "refused"]
          /\ UNCHANGED queue
    /\ UNCHANGED <<setup, clientVars, cur, at, made, draining, faulted, modelVars>>

\* The client disconnects or its handler times out: the receiver is dropped.
Hangup(j) ==
    /\ stage[j] \in {"queued", "active"}
    /\ open[j]
    /\ open' = [open EXCEPT ![j] = FALSE]
    /\ UNCHANGED <<stage, setup, out, lost, queue, cur, at, made, draining, faulted, modelVars>>

Drain ==
    /\ ~draining
    /\ draining' = TRUE
    /\ UNCHANGED <<stage, setup, clientVars, queue, cur, at, made, faulted, modelVars>>

-----------------------------------------------------------------------------
(* The worker thread.                                                       *)

\* try_send on the job's channel: the event arrives, or the receiver is gone,
\* or the events nobody has read fill the channel.
Send(j, e) ==
    \/ /\ open[j]
       /\ out' = [out EXCEPT ![j] = Append(@, e)]
       /\ UNCHANGED lost
    \/ ~open[j] /\ UNCHANGED <<out, lost>>
    \/ /\ open[j] /\ Len(out[j]) >= EventCap
       /\ lost' = [lost EXCEPT ![j] = TRUE]
       /\ UNCHANGED out

\* The job's terminal event; its sender is dropped and the worker is free.
Answer(j, e) ==
    /\ Send(j, e)
    /\ stage' = [stage EXCEPT ![j] = "ended"]
    /\ cur' = NoJob
    /\ at' = "idle"
    /\ made' = 0
    /\ UNCHANGED <<setup, open, draining>>

\* record_backend_fault
Fault == faulted' = (faulted \/ latch)

Cancelled(j) == ~open[j] \/ draining

Take(j) ==
    /\ cur = NoJob
    /\ queue # << >>
    /\ j = Head(queue)
    /\ queue' = Tail(queue)

\* Mutant of Refused: the latched fault is not looked at.
RefusedIgnoringLatch(j) == Cancelled(j)

\* A dequeued job is not run when the fault is latched, the server drains or
\* its client is gone.
Refused(j) == (latch /\ faulted) \/ Cancelled(j)

\* Mutant of Skip: the drain is reported and the job left in place.
SkipWithoutRelease(j) ==
    /\ Take(j)
    /\ Refused(j)
    /\ Send(j, "error")
    /\ cur' = j
    /\ UNCHANGED <<stage, setup, open, at, made, draining, faulted, modelVars>>

Skip(j) ==
    /\ Take(j)
    /\ Refused(j)
    /\ Answer(j, "error")
    /\ UNCHANGED <<faulted, modelVars>>

Begin(j) ==
    /\ Take(j)
    /\ ~Refused(j)
    /\ cur' = j
    /\ at' = "enter"
    /\ stage' = [stage EXCEPT ![j] = "active"]
    /\ UNCHANGED <<setup, clientVars, made, draining, faulted, modelVars>>

\* The generator refuses the request before touching the model: a prompt that
\* does not fit, a verify without a session.
Decline(j) ==
    /\ cur = j /\ at = "enter"
    /\ Answer(j, "error")
    /\ UNCHANGED <<queue, faulted, modelVars>>

\* Mutant of Prefill: a generation leaves the tree session open.
PrefillKeepsSession(j) ==
    /\ cur = j /\ at = "enter"
    /\ kind[j] # "verify"
    /\ at' = "prefill"
    /\ kv' = j
    /\ session' = (session /\ kind[j] = "generate")
    /\ UNCHANGED <<stage, setup, clientVars, queue, cur, made, draining, faulted>>

\* A generation or a new tree session takes the KV cache over, and closes
\* the session that was open.
Prefill(j) ==
    /\ cur = j /\ at = "enter"
    /\ kind[j] # "verify"
    /\ at' = "prefill"
    /\ kv' = j
    /\ session' = FALSE
    /\ UNCHANGED <<stage, setup, clientVars, queue, cur, made, draining, faulted>>

\* A prompt that fills the context leaves no token to generate: stream_steps
\* ends at once.
StartDecode(j) ==
    /\ cur = j /\ at = "prefill"
    /\ kind[j] = "generate"
    /\ at' \in {"decode", "ending"}
    /\ UNCHANGED <<stage, setup, clientVars, queue, cur, made, draining, faulted, modelVars>>

\* reset_cancelled_generation
Reset == kv' = NoJob /\ session' = FALSE

\* Mutant of Step: a token that could not be sent does not end the generation.
StepIgnoringSend(j) ==
    /\ cur = j /\ at = "decode"
    /\ made' = made + 1
    /\ Send(j, "token")
    /\ \E last \in BOOLEAN :
          /\ made' = MaxTokens => last
          /\ at' = IF last THEN "ending" ELSE "decode"
    /\ UNCHANGED <<stage, setup, open, queue, cur, draining, faulted, modelVars>>

\* One token through on_step: EOS, the budget, a failed send or the drain
\* ends the generation, and all but the first two reset the generator.
Step(j) ==
    /\ cur = j /\ at = "decode"
    /\ made' = made + 1
    /\ Send(j, "token")
    /\ \E last \in BOOLEAN :
          /\ made' = MaxTokens => last
          /\ IF out' = out \/ draining
             THEN at' = "ending" /\ Reset
             ELSE at' = (IF last THEN "ending" ELSE "decode") /\ UNCHANGED modelVars
    /\ UNCHANGED <<stage, setup, open, queue, cur, draining, faulted>>

\* The generator polls is_cancelled: at its entry, where nothing has been
\* touched yet, or between forwards.
Checkpoint(j) ==
    /\ cur = j /\ at \in {"enter", "prefill", "decode"}
    /\ kind[j] = "generate"
    /\ Cancelled(j)
    /\ at' = "ending"
    /\ IF at = "enter" THEN UNCHANGED modelVars ELSE Reset
    /\ UNCHANGED <<stage, setup, clientVars, queue, cur, made, draining, faulted>>

GenerationDone(j) ==
    /\ cur = j /\ at = "ending"
    /\ Answer(j, "done")
    /\ UNCHANGED <<queue, faulted, modelVars>>

\* A cancelled tree operation: only the drain is answered.
TreeCancelled(j) ==
    /\ cur = j /\ at \in {"enter", "prefill"}
    /\ kind[j] # "generate"
    /\ Cancelled(j)
    /\ Answer(j, "error")
    /\ IF at = "prefill" THEN kv' = NoJob ELSE UNCHANGED kv
    /\ UNCHANGED <<queue, faulted, session>>

SessionOpened(j) ==
    /\ cur = j /\ at = "prefill"
    /\ kind[j] = "open"
    /\ session' = TRUE
    /\ Answer(j, "ok")
    /\ UNCHANGED <<queue, faulted, kv>>

Verified(j) ==
    /\ cur = j /\ at = "enter"
    /\ kind[j] = "verify"
    /\ session
    /\ Answer(j, "ok")
    /\ UNCHANGED <<queue, faulted, modelVars>>

\* A backend error or a panic, caught by the worker.
BackendFault(j) ==
    /\ cur = j /\ at \in {"enter", "prefill", "decode"}
    /\ kind[j] = "verify" => session
    /\ Fault
    /\ Answer(j, "error")
    /\ UNCHANGED <<queue, modelVars>>

WorkerStep ==
    \E j \in Jobs :
        \/ Skip(j) \/ Begin(j) \/ Decline(j) \/ Prefill(j) \/ StartDecode(j)
        \/ Step(j) \/ Checkpoint(j) \/ GenerationDone(j)
        \/ TreeCancelled(j) \/ SessionOpened(j) \/ Verified(j) \/ BackendFault(j)

Next ==
    \/ WorkerStep
    \/ \E j \in Jobs : Check(j) \/ Invalid(j) \/ Enqueue(j) \/ Hangup(j)
    \/ Drain

\* The operating system schedules the worker thread.
Spec == Init /\ [][Next]_vars /\ WF_vars(WorkerStep)

-----------------------------------------------------------------------------
(* Type invariant; the queue holds at most its capacity.                    *)
TypeOK ==
    /\ stage \in [Jobs -> {"new", "checked", "queued", "active", "ended", "refused"}]
    /\ kind \in [Jobs -> Kinds] /\ latch \in BOOLEAN
    /\ open \in [Jobs -> BOOLEAN] /\ lost \in [Jobs -> BOOLEAN]
    /\ out \in [Jobs -> Seq({"token", "ok", "done", "error"})]
    /\ queue \in Seq(Jobs) /\ Len(queue) <= QueueCap
    /\ cur \in Jobs \cup {NoJob}
    /\ at \in {"idle", "enter", "prefill", "decode", "ending"}
    /\ made \in 0..MaxTokens
    /\ draining \in BOOLEAN /\ faulted \in BOOLEAN /\ session \in BOOLEAN
    /\ kv \in Jobs \cup {NoJob}

(* A tree session is open only over the KV cache its own prefill filled: no *)
(* generation, cancellation or failure in between leaves a session a later  *)
(* verify would run on another request's tokens.                            *)
SessionOwnsCache ==
    session => kv # NoJob /\ kind[kv] = "open" /\ stage[kv] = "ended"

(* After a latched backend fault no client is given anything but an error:  *)
(* neither a queued job nor one whose handler had already passed the        *)
(* readiness check reaches the failed model.                                *)
FaultLatched ==
    [][faulted => \A j \in Jobs : out'[j] # out[j] => out'[j] = Append(out[j], "error")]_vars

(* The worker implements JobService: one terminal event per accepted job,   *)
(* last, and never missing while the client is connected and reading.       *)
Service == INSTANCE JobService WITH
    stage <- [j \in Jobs |-> CASE stage[j] \in {"queued", "active"} -> "accepted"
                               [] stage[j] = "checked" -> "new"
                               [] OTHER -> stage[j]]

ServiceSpec == Service!Spec

(* A client that stays connected and reading is told how its job ended.     *)
Answered == Service!AnsweredOnce

(* Every accepted job ends: the worker is never held by a client that left, *)
(* a full channel, a drain or a fault.                                      *)
EveryJobEnds == \A j \in Jobs : stage[j] \in {"queued", "active"} ~> stage[j] = "ended"
=============================================================================
