---------------------------- MODULE EventChannel ----------------------------
(***************************************************************************)
(* One generation as its response task sees it: the bounded event channel  *)
(* between the decode thread and the HTTP response, and the decode thread's *)
(* side of it (the `on_step` callback and the terminal event of            *)
(* `spawn_worker`).  The thread never blocks on the channel: every send is *)
(* a `try_send`, and one that fails cancels the generation.                *)
(*                                                                         *)
(* A token is its index in the generated sequence; `done` and `error` are  *)
(* the terminal events.                                                    *)
(***************************************************************************)
EXTENDS Integers, Sequences

CONSTANTS
    EventCap,   \* capacity of the event channel (64 in the code)
    MaxTokens   \* token budget of the generation

ASSUME ChannelAssumption ==
    /\ EventCap \in Nat \ {0}
    /\ MaxTokens \in Nat \ {0}

VARIABLES
    chan,       \* events sent and not yet received
    rxOpen,     \* the receiver has not been closed or dropped
    draining,   \* the server-wide drain flag
    prod,       \* the decode thread: "decode", "ending", "ended" or "failed"
    made,       \* tokens decoded so far
    reason      \* final_reason

channelVars == <<chan, rxOpen, draining, prod, made, reason>>
workerVars == <<prod, made, reason>>

Reasons == {"stop", "length"}

\* GenEvent: a token by its index, or a terminal event.
Event == [kind : {"token", "done", "error"}, n : 0..MaxTokens, why : Reasons \cup {"none"}]

TokenEvent(i) == [kind |-> "token", n |-> i, why |-> "none"]

DoneEvent(fr) == [kind |-> "done", n |-> 0, why |-> fr]

ErrorEvent == [kind |-> "error", n |-> 0, why |-> "none"]

ChannelInit ==
    /\ chan = << >>
    /\ rxOpen = TRUE
    /\ draining = FALSE
    /\ prod = "decode"
    /\ made = 0
    /\ reason = "stop"

CanSend == rxOpen /\ Len(chan) < EventCap

\* Sender::try_send: a full or closed channel drops the event.
TrySend(e) == chan' = IF CanSend THEN Append(chan, e) ELSE chan

\* Mutant of DecodeStep: a full channel drops the token but decoding goes on.
DecodeStepIgnoringFull(fr) ==
    /\ prod = "decode"
    /\ made < MaxTokens
    /\ made + 1 = MaxTokens => fr # "none"
    /\ made' = made + 1
    /\ TrySend(TokenEvent(made + 1))
    /\ reason' = IF fr = "none" THEN reason ELSE fr
    /\ prod' = IF rxOpen /\ ~draining /\ fr = "none" THEN "decode" ELSE "ending"
    /\ UNCHANGED <<rxOpen, draining>>

\* One decoded token through on_step; fr is its finish_reason.
DecodeStep(fr) ==
    /\ prod = "decode"
    /\ made < MaxTokens
    /\ made + 1 = MaxTokens => fr # "none"
    /\ made' = made + 1
    /\ TrySend(TokenEvent(made + 1))
    /\ reason' = IF fr = "none" THEN reason ELSE fr
    /\ prod' = IF CanSend /\ ~draining /\ fr = "none" THEN "decode" ELSE "ending"
    /\ UNCHANGED <<rxOpen, draining>>

\* A prompt that fills the context leaves stream_steps no token to generate.
NothingToDecode ==
    /\ prod = "decode"
    /\ made = 0
    /\ prod' = "ending"
    /\ UNCHANGED <<chan, rxOpen, draining, made, reason>>

\* The cancellation query at a checkpoint of the generator.
Checkpoint ==
    /\ prod = "decode"
    /\ ~rxOpen \/ draining
    /\ prod' = "ending"
    /\ UNCHANGED <<chan, rxOpen, draining, made, reason>>

\* generate_cancellable returned Ok: Done(final_reason), then tx is dropped.
SendDone ==
    /\ prod = "ending"
    /\ prod' = "ended"
    /\ TrySend(DoneEvent(reason))
    /\ UNCHANGED <<rxOpen, draining, made, reason>>

\* generate_cancellable returned an error or panicked.
SendError ==
    /\ prod = "decode"
    /\ prod' = "failed"
    /\ TrySend(ErrorEvent)
    /\ UNCHANGED <<rxOpen, draining, made, reason>>

\* An operator or a signal starts the drain; it is never revoked.
Drain ==
    /\ ~draining
    /\ draining' = TRUE
    /\ UNCHANGED <<chan, rxOpen, prod, made, reason>>

TxOpen == prod \in {"decode", "ending"}

Produce ==
    \/ \E fr \in Reasons \cup {"none"} : DecodeStep(fr)
    \/ NothingToDecode \/ Checkpoint \/ SendDone \/ SendError

ChannelTypeOK ==
    /\ chan \in Seq(Event)
    /\ Len(chan) <= EventCap
    /\ rxOpen \in BOOLEAN /\ draining \in BOOLEAN
    /\ prod \in {"decode", "ending", "ended", "failed"}
    /\ made \in 0..MaxTokens
    /\ reason \in Reasons
=============================================================================
