---------------------------- MODULE ResponseUnary ---------------------------
(***************************************************************************)
(* A buffered (non-streamed) completion: the loop of `nonstream_response`, *)
(* under the service timeout of the router, and the decode thread at the   *)
(* other end of the event channel.  The handler's future, and with it the  *)
(* receiver, is dropped when the handler returns, when the timeout fires   *)
(* and when the connection goes away.  What a token says is chosen when it *)
(* is received: nothing before depends on it.                              *)
(***************************************************************************)
EXTENDS EventChannel, Sse

CONSTANTS
    Vocabulary,   \* the tokens
    StopSets      \* the sets of stop strings a request may bring

VARIABLES
    pc,       \* "recv", "replied" or "dropped"
    status,   \* the HTTP status of the reply, 0 before it
    stops,    \* the request's stop strings
    detok,    \* IncrementalDetok: the tokens received, joined, and the bytes surfaced
    buffer,   \* StopMatcher: the text held back
    text,     \* the reply's text
    ending,   \* the event that ended the loop
    finish    \* fr

textVars == <<stops, detok, buffer, text>>
handlerVars == <<pc, status, textVars, ending, finish>>
vars == <<channelVars, handlerVars>>

Init ==
    /\ ChannelInit
    /\ pc = "recv"
    /\ status = 0
    /\ stops \in StopSets
    /\ detok = [tokens |-> << >>, emitted |-> 0]
    /\ buffer = << >>
    /\ text = << >>
    /\ ending = "none"
    /\ finish = "stop"

\* The handler returns: its future drops the receiver.
Reply(code, why) ==
    /\ pc' = "replied"
    /\ status' = code
    /\ ending' = why
    /\ rxOpen' = FALSE

\* A token: its text goes through the matcher; a stop string ends the loop.
RecvToken(t) ==
    /\ pc = "recv"
    /\ chan # << >> /\ Head(chan).kind = "token"
    /\ chan' = Tail(chan)
    /\ IF t = Eos
       THEN UNCHANGED <<detok, buffer, text, pc, status, ending, rxOpen>>
       ELSE \E full \in {Decode(detok.tokens \o t)} :
            \E piece \in {Suffix(full, detok.emitted)} :
            \E fed \in {Feed(stops, buffer, piece)} :
                /\ detok' = [tokens |-> detok.tokens \o t, emitted |-> Bytes(full)]
                /\ IF piece = << >>
                   THEN UNCHANGED <<buffer, text, pc, status, ending, rxOpen>>
                   ELSE /\ buffer' = fed.buffer
                        /\ text' = text \o fed.emit
                        /\ IF fed.hit THEN Reply(200, "hit")
                           ELSE UNCHANGED <<pc, status, ending, rxOpen>>
    /\ UNCHANGED <<draining, workerVars, stops, finish>>

\* Done: the matcher is flushed into the text.
RecvDone ==
    /\ pc = "recv"
    /\ chan # << >> /\ Head(chan).kind = "done"
    /\ chan' = Tail(chan)
    /\ finish' = Head(chan).why
    /\ text' = text \o buffer
    /\ buffer' = << >>
    /\ Reply(200, "done")
    /\ UNCHANGED <<draining, workerVars, stops, detok>>

RecvError ==
    /\ pc = "recv"
    /\ chan # << >> /\ Head(chan).kind = "error"
    /\ chan' = Tail(chan)
    /\ Reply(500, "error")
    /\ UNCHANGED <<draining, workerVars, textVars, finish>>

\* Mutant of RecvNone: a channel whose senders are gone is awaited for ever.
RecvNoneIgnored ==
    /\ pc = "recv"
    /\ chan = << >> /\ ~TxOpen
    /\ UNCHANGED vars

\* The senders are gone without a terminal event: the loop falls through.
RecvNone ==
    /\ pc = "recv"
    /\ chan = << >> /\ ~TxOpen
    /\ Reply(200, "eof")
    /\ UNCHANGED <<chan, draining, workerVars, textVars, finish>>

\* The service timeout drops the handler's future and answers 408.
ServiceTimeout ==
    /\ pc = "recv"
    /\ Reply(408, "timeout")
    /\ UNCHANGED <<chan, draining, workerVars, textVars, finish>>

\* The connection goes away.
Disconnect ==
    /\ pc = "recv"
    /\ pc' = "dropped"
    /\ rxOpen' = FALSE
    /\ UNCHANGED <<chan, draining, workerVars, status, textVars, ending, finish>>

Receive == (\E t \in Vocabulary : RecvToken(t)) \/ RecvDone \/ RecvError \/ RecvNone

Next ==
    \/ (Produce \/ Drain) /\ UNCHANGED handlerVars
    \/ Receive \/ ServiceTimeout \/ Disconnect

\* The decode thread advances and the runtime polls the handler; neither the
\* timeout (it may be configured away) nor the client has to act.
Spec ==
    /\ Init /\ [][Next]_vars
    /\ WF_vars(Produce /\ UNCHANGED handlerVars) /\ WF_vars(Receive)

-----------------------------------------------------------------------------
(* Type invariant: the channel keeps its capacity, the reply its range.     *)
TypeOK ==
    /\ ChannelTypeOK
    /\ pc \in {"recv", "replied", "dropped"}
    /\ status \in {0, 200, 408, 500}
    /\ stops \in StopSets
    /\ detok.tokens \in Seq(Chars \cup {"lead", "cont"}) /\ detok.emitted \in Nat
    /\ buffer \in Seq(Chars) /\ text \in Seq(Chars)
    /\ ending \in {"none", "hit", "done", "error", "eof", "timeout"}
    /\ finish \in Reasons

\* A token completed the character that an earlier one began.
CharacterSplit ==
    \E i \in 1..(Len(detok.tokens) - 1) : detok.tokens[i] = "lead" /\ detok.tokens[i + 1] = "cont"

(* The reply's text is what a search of the whole decoded text would give,  *)
(* however tokens cut it: no stop string is missed because it straddles     *)
(* tokens, none of its characters leak, and no text is lost or repeated.    *)
(* Two exceptions.  When the channel ends without a terminal event (the     *)
(* Done met a full channel), the loop falls through without a flush and the *)
(* 200 reply lacks what the matcher held back: fewer characters than the    *)
(* longest stop string has bytes, and nothing when the request brought no   *)
(* stop string.  And nothing is said of a text in which a character was     *)
(* split over two tokens, which push does not surface; bytes that make up   *)
(* no character do no harm.                                                 *)
TextExact ==
    LET whole == Decode(detok.tokens)
        hits == Found(stops, whole)
    IN \/ CharacterSplit
       \/ CASE ending = "hit" -> hits # {} /\ text = SubSeq(whole, 1, Min(hits))
            [] ending = "done" -> hits = {} /\ text = whole
            [] ending = "eof" -> /\ hits = {} /\ text \o buffer = whole
                                 /\ buffer = << >> \/ Len(buffer) < MaxLen(stops)
            [] OTHER -> hits = {} /\ text \o buffer = whole

(* Every handler answers or is dropped, whichever of its events the channel *)
(* had no room for.                                                         *)
Answered == <>(pc # "recv")
=============================================================================
