----------------------------- MODULE JobService -----------------------------
(***************************************************************************)
(* What a decode worker promises the HTTP handlers, whichever worker runs  *)
(* behind the queue: an accepted job gets the tokens of its generation, in *)
(* order and without a gap, and then one terminal event, which a client    *)
(* that is still connected and keeps reading always gets.  Each job is on  *)
(* its own: a step may advance several.                                    *)
(***************************************************************************)
EXTENDS Integers, Sequences

CONSTANTS
    Jobs,       \* the requests
    EventCap    \* capacity of a job's event channel

VARIABLES
    stage,      \* "new", "accepted", "ended" or "refused", per job
    open,       \* the client still holds the receiver
    out,        \* events delivered to the client
    lost        \* history: an event met a full channel

vars == <<stage, open, out, lost>>

Terminal == {"ok", "done", "error"}

Init ==
    /\ stage = [j \in Jobs |-> "new"]
    /\ open = [j \in Jobs |-> TRUE]
    /\ out = [j \in Jobs |-> << >>]
    /\ lost = [j \in Jobs |-> FALSE]

Move(j, from, to) == stage[j] = from /\ stage'[j] = to

\* The events es reach the client, or it is gone, or its full channel takes
\* only the first n of them.
Send(j, es) ==
    \/ open[j] /\ out'[j] = out[j] \o es /\ lost'[j] = lost[j]
    \/ ~open[j] /\ out'[j] = out[j] /\ lost'[j] = lost[j]
    \/ \E n \in 0..(Len(es) - 1) :
          /\ open[j]
          /\ Len(out[j]) + n >= EventCap
          /\ out'[j] = out[j] \o SubSeq(es, 1, n)
          /\ lost'[j] = TRUE

Quiet(j) == out'[j] = out[j] /\ lost'[j] = lost[j]

Decide(j) ==
    /\ Move(j, "new", "accepted") \/ Move(j, "new", "refused")
    /\ open'[j] = open[j] /\ Quiet(j)

Hangup(j) ==
    /\ open[j] /\ open'[j] = FALSE
    /\ stage'[j] = stage[j] /\ Quiet(j)

\* No token follows one that was lost.
Token(j) ==
    /\ Move(j, "accepted", "accepted")
    /\ ~lost[j]
    /\ open'[j] = open[j]
    /\ Send(j, <<"token">>)

\* The terminal event, alone or with the last token.
Finish(j) ==
    /\ Move(j, "accepted", "ended")
    /\ open'[j] = open[j]
    /\ \E e \in Terminal :
          \/ Send(j, <<e>>)
          \/ ~lost[j] /\ Send(j, <<"token", e>>)

Step(j) == Decide(j) \/ Hangup(j) \/ Token(j) \/ Finish(j)

Idle(j) == stage'[j] = stage[j] /\ open'[j] = open[j] /\ Quiet(j)

Next == \A j \in Jobs : Step(j) \/ Idle(j)

Spec == Init /\ [][Next]_vars

-----------------------------------------------------------------------------
(* A terminal event is the last event of its job, and the job has ended.    *)
TerminalLast ==
    \A j \in Jobs : \A i \in 1..Len(out[j]) :
        out[j][i] \in Terminal => i = Len(out[j]) /\ stage[j] = "ended"

(* A job that ended with its client connected and reading was answered.     *)
AnsweredOnce ==
    \A j \in Jobs :
        stage[j] = "ended" /\ open[j] /\ ~lost[j] =>
            out[j] # << >> /\ out[j][Len(out[j])] \in Terminal
=============================================================================
