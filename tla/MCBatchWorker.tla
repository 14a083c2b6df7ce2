--------------------------- MODULE MCBatchWorker ----------------------------
(***************************************************************************)
(* Workloads for BatchWorker, with pages of four tokens and a pool of      *)
(* three pages.  The jobs of a workload arrive in any order and overlap in *)
(* any way.                                                                *)
(***************************************************************************)
EXTENDS BatchWorker, TLC

CONSTANTS a, b, c    \* three requests

Chat(prompt, budget, greedy, leaves) ==
    [kind |-> "generate", prompt |-> prompt, budget |-> budget,
     greedy |-> greedy, leaves |-> leaves]
Open(prompt) == [Chat(prompt, 0, TRUE, TRUE) EXCEPT !.kind = "open"]
Verify == [Chat(1, 0, TRUE, TRUE) EXCEPT !.kind = "verify"]

\* Three chats of one, two and two pages: a fits beside b or c, which have
\* two seats but not the pages to run together.  c samples.
Chats(leaves) ==
    (a :> Chat(1, 3, TRUE, leaves)) @@ (b :> Chat(2, 5, TRUE, leaves))
        @@ (c :> Chat(4, 2, FALSE, leaves))

\* The same with greedy sampling throughout.
GreedyChats ==
    [j \in {a, b, c} |-> [Chats(TRUE)[j] EXCEPT !.greedy = TRUE]]

\* A chat, a tree session and a verify against it.
Session == (a :> Chat(1, 3, TRUE, TRUE)) @@ (b :> Open(2)) @@ (c :> Verify)

\* A chat, one whose footprint exceeds the pool, and one with nothing to
\* decode (a server configured with a default max_new of zero).
Edge ==
    (a :> Chat(2, 4, TRUE, TRUE)) @@ (b :> Chat(6, 9, TRUE, TRUE)) @@ (c :> Chat(3, 0, TRUE, TRUE))

\* Two sampling chats whose clients may leave, beside a verify.
Leavers == (a :> Chat(1, 3, FALSE, TRUE)) @@ (b :> Chat(2, 2, FALSE, TRUE)) @@ (c :> Verify)

SafetyWorkloads == {Chats(TRUE), Session, Edge}
LivenessWorkloads == {Chats(FALSE), Session, Leavers}
GoneWorkloads == {GreedyChats}
=============================================================================
