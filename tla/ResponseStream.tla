--------------------------- MODULE ResponseStream ---------------------------
(***************************************************************************)
(* A streamed (SSE) completion: the body task of `stream_response`, the    *)
(* deadline watchdog of `StreamEventReceiver`, the disconnect guard, and   *)
(* the decode thread at the other end of the event channel.  The client    *)
(* polls the body, or stops polling it, or drops it, at any suspension     *)
(* point; the watchdog runs on another thread.                             *)
(***************************************************************************)
EXTENDS EventChannel

VARIABLES
    pc,           \* where the body task is
    lock,         \* owner of the receiver mutex: "free", "body" or "watchdog"
    due,          \* the deadline has passed
    dl,           \* deadline_state
    wd,           \* the watchdog task
    timeouts,     \* metric stream_timeouts
    disconnects,  \* metric stream_disconnects
    got,          \* tokens received from the channel, in order
    emitted,      \* how many of them the client has had as text
    ending,       \* why the body left its loop, "none" before that
    finish        \* the finish reason the terminal chunk reports

bodyVars == <<pc, lock, due, dl, wd, timeouts, disconnects, got, emitted, ending, finish>>
vars == <<channelVars, bodyVars>>

\* The body is suspended at the yield of the role chunk, the watchdog spawned.
Init ==
    /\ ChannelInit
    /\ pc = "yield"
    /\ lock = "free"
    /\ due = FALSE
    /\ dl = "RUNNING"
    /\ wd = "sleep"
    /\ timeouts = 0
    /\ disconnects = 0
    /\ got = << >>
    /\ emitted = 0
    /\ ending = "none"
    /\ finish = "stop"

DeadlineElapses ==
    /\ ~due
    /\ due' = TRUE
    /\ UNCHANGED <<channelVars, pc, lock, dl, wd, timeouts, disconnects, got, emitted, ending, finish>>

\* StreamEventReceiver::expire: the first claim is counted.
Expire ==
    /\ dl' = IF dl = "RUNNING" THEN "EXPIRED" ELSE dl
    /\ timeouts' = IF dl = "RUNNING" THEN timeouts + 1 ELSE timeouts

\* The client polls the body suspended at a content yield.
Resume ==
    /\ pc = "yield"
    /\ pc' = IF ending = "hit" THEN "leave" ELSE "recv"
    /\ UNCHANGED <<channelVars, lock, due, dl, wd, timeouts, disconnects, got, emitted, ending, finish>>

\* The body stops at its deadline: expire, close, Err(()).
StopAtDeadline ==
    /\ Expire
    /\ rxOpen' = FALSE
    /\ lock' = "free"
    /\ pc' = "leave"
    /\ ending' = "timeout"
    /\ UNCHANGED <<chan, draining, workerVars, due, wd, disconnects, got, emitted, finish>>

\* recv takes the lock and looks at the clock before it reads.
RecvEnter ==
    /\ pc = "recv"
    /\ lock = "free"
    /\ \/ due /\ StopAtDeadline
       \/ /\ ~due
          /\ lock' = "body"
          /\ pc' = "wait"
          /\ UNCHANGED <<channelVars, due, dl, wd, timeouts, disconnects, got, emitted, ending, finish>>

\* timeout_at fires with no event ready.
RecvTimeout ==
    /\ pc = "wait"
    /\ due
    /\ chan = << >> /\ TxOpen
    /\ StopAtDeadline

\* A token: the detokenizer and the stop matcher release the text of some of
\* the tokens they hold, and a hit ends the loop after what precedes it.
RecvToken ==
    /\ pc = "wait"
    /\ chan # << >> /\ Head(chan).kind = "token"
    /\ chan' = Tail(chan)
    /\ lock' = "free"
    /\ got' = Append(got, Head(chan).n)
    /\ \E k \in emitted..Len(got) + 1, hit \in BOOLEAN :
          /\ emitted' = k
          /\ ending' = IF hit THEN "hit" ELSE "none"
          /\ pc' = CASE k > emitted -> "yield"
                     [] k = emitted /\ hit -> "leave"
                     [] k = emitted /\ ~hit -> "recv"
    /\ UNCHANGED <<rxOpen, draining, workerVars, due, dl, wd, timeouts, disconnects, finish>>

\* A terminal event.
RecvTerminal ==
    /\ pc = "wait"
    /\ chan # << >> /\ Head(chan).kind # "token"
    /\ chan' = Tail(chan)
    /\ lock' = "free"
    /\ pc' = "leave"
    /\ ending' = Head(chan).kind
    /\ finish' = IF Head(chan).kind = "done" THEN Head(chan).why ELSE finish
    /\ UNCHANGED <<rxOpen, draining, workerVars, due, dl, wd, timeouts, disconnects, got, emitted>>

\* Every sender is gone and nothing is buffered: recv yields None.
RecvNone ==
    /\ pc = "wait"
    /\ chan = << >> /\ ~TxOpen
    /\ lock' = "free"
    /\ pc' = "leave"
    /\ ending' = "eof"
    /\ UNCHANGED <<channelVars, due, dl, wd, timeouts, disconnects, got, emitted, finish>>

\* stop_watchdog: claim the state and abort the task.  An abort reaches a
\* task only where it awaits: one already past its last await runs on.
StopWatchdog ==
    /\ dl' = IF dl = "RUNNING" THEN "FINISHED" ELSE dl
    /\ wd' \in CASE wd = "sleep" -> {"gone"}
                 [] wd = "awake" -> {"gone", "awake"}
                 [] OTHER -> {wd}

\* finish(), up to the await of the lock.
FinishClaim ==
    /\ pc = "leave"
    /\ StopWatchdog
    /\ pc' = "close"
    /\ UNCHANGED <<channelVars, lock, due, timeouts, disconnects, got, emitted, ending, finish>>

\* finish() closes the channel; the body goes on to the flush of the matcher
\* and the terminal chunks, which it yields one by one.
FinishClose ==
    /\ pc = "close"
    /\ lock = "free"
    /\ rxOpen' = FALSE
    /\ pc' = "tail"
    /\ emitted' = IF ending \in {"done", "eof"} THEN Len(got) ELSE emitted
    /\ UNCHANGED <<chan, draining, workerVars, lock, due, dl, wd, timeouts, disconnects, got, ending, finish>>

\* The client has polled the terminal chunks: completed = true.
Complete ==
    /\ pc = "tail"
    /\ pc' = "end"
    /\ UNCHANGED <<channelVars, lock, due, dl, wd, timeouts, disconnects, got, emitted, ending, finish>>

\* Mutant of DropGuard: the state is read, not claimed, before the count.
DropGuardUnclaimed ==
    /\ pc \in {"yield", "recv", "wait", "close", "tail"}
    /\ lock' = IF pc = "wait" THEN "free" ELSE lock
    /\ disconnects' = IF dl = "EXPIRED" THEN disconnects ELSE disconnects + 1
    /\ pc' = "dropping"
    /\ UNCHANGED <<channelVars, due, dl, wd, timeouts, got, emitted, ending, finish>>

\* The client drops the body at a suspension point: a pending recv gives the
\* lock back, then StreamDisconnectGuard claims the state and counts.
DropGuard ==
    /\ pc \in {"yield", "recv", "wait", "close", "tail"}
    /\ lock' = IF pc = "wait" THEN "free" ELSE lock
    /\ dl' = IF dl = "RUNNING" THEN "FINISHED" ELSE dl
    /\ disconnects' = IF dl = "EXPIRED" THEN disconnects ELSE disconnects + 1
    /\ pc' = "dropping"
    /\ UNCHANGED <<channelVars, due, wd, timeouts, got, emitted, ending, finish>>

\* Then the receiver: it closes with its last owner, which a watchdog that
\* has upgraded its weak reference may be.
DropReceiver ==
    /\ pc = "dropping"
    /\ StopWatchdog
    /\ pc' = "dropped"
    /\ rxOpen' = (rxOpen /\ wd' # "gone")
    /\ UNCHANGED <<chan, draining, workerVars, lock, due, timeouts, disconnects, got, emitted, ending, finish>>

\* The watchdog's sleep ends and it upgrades its reference.
WatchdogWake ==
    /\ wd = "sleep"
    /\ due
    /\ wd' = "awake"
    /\ UNCHANGED <<channelVars, pc, lock, due, dl, timeouts, disconnects, got, emitted, ending, finish>>

WatchdogLock ==
    /\ wd = "awake"
    /\ lock = "free"
    /\ lock' = "watchdog"
    /\ wd' = "locked"
    /\ UNCHANGED <<channelVars, pc, due, dl, timeouts, disconnects, got, emitted, ending, finish>>

\* It claims the state; one that comes too late only drops its reference.
WatchdogExpire ==
    /\ wd = "locked"
    /\ Expire
    /\ \/ /\ dl # "FINISHED"
          /\ wd' = "closing"
          /\ UNCHANGED <<rxOpen, lock>>
       \/ /\ dl = "FINISHED"
          /\ wd' = "gone"
          /\ lock' = "free"
          /\ rxOpen' = (rxOpen /\ pc # "dropped")
    /\ UNCHANGED <<chan, draining, workerVars, pc, due, disconnects, got, emitted, ending, finish>>

\* Mutant of WatchdogClose: the expiry is recorded and the channel left open.
WatchdogCloseForgotten ==
    /\ wd = "closing"
    /\ lock' = "free"
    /\ wd' = "gone"
    /\ UNCHANGED <<channelVars, pc, due, dl, timeouts, disconnects, got, emitted, ending, finish>>

WatchdogClose ==
    /\ wd = "closing"
    /\ rxOpen' = FALSE
    /\ lock' = "free"
    /\ wd' = "gone"
    /\ UNCHANGED <<chan, draining, workerVars, pc, due, dl, timeouts, disconnects, got, emitted, ending, finish>>

Watchdog == WatchdogWake \/ WatchdogLock \/ WatchdogExpire \/ WatchdogClose

\* Steps the runtime takes without the client polling the body.
Receive == RecvEnter \/ RecvTimeout \/ RecvToken \/ RecvTerminal \/ RecvNone

Retire == FinishClaim \/ FinishClose

Next ==
    \/ (Produce \/ Drain) /\ UNCHANGED bodyVars
    \/ DeadlineElapses
    \/ Watchdog
    \/ Resume \/ Receive \/ Retire \/ Complete
    \/ DropGuard \/ DropReceiver

\* The runtime schedules the woken tasks and a drop runs to its end; nothing
\* makes the client poll, the deadline pass or the decode thread advance.
Spec ==
    /\ Init /\ [][Next]_vars
    /\ WF_vars(Watchdog) /\ WF_vars(Receive) /\ WF_vars(Retire) /\ WF_vars(DropReceiver)

-----------------------------------------------------------------------------
(* Type invariant: the channel keeps its capacity and every control         *)
(* variable its range.                                                      *)
TypeOK ==
    /\ ChannelTypeOK
    /\ pc \in {"yield", "recv", "wait", "leave", "close", "tail", "end", "dropping", "dropped"}
    /\ lock \in {"free", "body", "watchdog"}
    /\ due \in BOOLEAN
    /\ dl \in {"RUNNING", "EXPIRED", "FINISHED"}
    /\ wd \in {"sleep", "awake", "locked", "closing", "gone"}
    /\ timeouts \in Nat /\ disconnects \in Nat
    /\ got \in Seq(1..MaxTokens)
    /\ emitted \in 0..Len(got)
    /\ ending \in {"none", "timeout", "hit", "done", "error", "eof"}
    /\ finish \in Reasons

(* Tokens still in the channel.                                             *)
Buffered == SelectSeq(chan, LAMBDA e : e.kind = "token")

(* The tokens a body receives, followed by the ones still buffered, are the *)
(* first tokens decoded, with no gap: a send that fails ends the generation *)
(* (worker.rs on_step: "Tokens delivered so far are an in-order prefix").   *)
(* A stream that ends without a stop string has delivered the text of every *)
(* token it received: what the matcher held back is flushed.                *)
InOrderPrefix ==
    LET seen == Len(got) + Len(Buffered)
    IN /\ seen <= made
       /\ \A i \in 1..seen :
             i = IF i <= Len(got) THEN got[i] ELSE Buffered[i - Len(got)].n
       /\ pc = "end" /\ ending \in {"done", "eof"} => emitted = Len(got)

(* Every stream gets one verdict: at most one of the timeout and disconnect *)
(* counters moves, a body dropped before its end moves exactly one, and a   *)
(* delivered timeout was counted as one (the claims on deadline_state).     *)
OneVerdict ==
    /\ timeouts + disconnects <= 1
    /\ pc \in {"dropping", "dropped"} => timeouts + disconnects = 1
    /\ ending = "timeout" => timeouts = 1 /\ disconnects = 0
    /\ pc = "end" => disconnects = 0

(* The deadline closes the event channel, and so cancels the generation,    *)
(* even when the client no longer polls the body; so does a drop, whichever *)
(* of the body and the watchdog is the last owner of the receiver.          *)
DeadlineCloses == (due \/ pc = "dropped") ~> ~rxOpen

(* The comment of the Error arm of stream_response: a streaming client must *)
(* be able to detect that generation failed.                                *)
ErrorSurfaced == pc = "end" /\ prod = "failed" => ending \in {"error", "timeout", "hit"}
=============================================================================
