----------------------------- MODULE Collective -----------------------------
(***************************************************************************)
(* What a process group promises (tritium-train, dist.rs, ProcessGroup):   *)
(* the n-th collective of a rank meets the n-th collective of every other  *)
(* rank, and its result depends on those calls alone.                      *)
(*                                                                         *)
(* A call has a tag, the length `len` of the buffer it contributes, the    *)
(* length `out` of the buffer it fills, for a reduction its ReduceOp and   *)
(* for a broadcast its root.  The contributed numbers are named by the     *)
(* call that published them: a result maps the ranks it was computed from, *)
(* folded in rank order, to the calls whose data it holds, and says which  *)
(* operation the rank itself finished the fold with.  That operation is    *)
(* not published, so no rank can compare it with another's.                *)
(***************************************************************************)
EXTENDS Naturals, Sequences

CONSTANTS
    World,     \* number of ranks
    Args       \* the calls a rank may make

ASSUME CollectiveAssumption ==
    /\ World \in Nat \ {0}
    /\ \A a \in Args :
          /\ a.tag \in {"all_reduce", "reduce_scatter", "all_gather", "broadcast"}
          /\ a.len \in Nat /\ a.out \in Nat /\ a.root \in Nat
          /\ a.op \in IF a.tag \in {"all_reduce", "reduce_scatter"} THEN {"Sum", "Avg"} ELSE {"none"}

VARIABLES
    given,     \* given[r] = the calls rank r has made
    returned   \* returned[r] = what they returned

Rank == 0..(World - 1)

Failed(why) == [ok |-> FALSE, why |-> why]

\* The fold of the contributions, divided by World when the rank asked for Avg.
Got(from, seen, op) == [ok |-> TRUE, value |-> [q \in from |-> seen[q].call], op |-> op]

\* Mutant of TagsAgree: a rank looks at its neighbour only.
NeighbourTag(r, a, seen) == seen[(r + 1) % World].tag = a.tag

\* check_tags.
TagsAgree(r, a, seen) == \A q \in Rank : seen[q].tag = a.tag

\* The size relation of each collective, checked by each rank on what it sees.
LengthsAgree(r, a, seen) ==
    CASE a.tag = "all_reduce" ->
            \A q \in Rank : seen[q].len = a.len
      [] a.tag = "reduce_scatter" ->
            a.len = World * a.out /\ \A q \in Rank : seen[q].len = World * a.out
      [] a.tag = "all_gather" ->
            a.out = World * a.len /\ \A q \in Rank : seen[q].len = a.len
      [] a.tag = "broadcast" ->
            a.len = seen[a.root].len

\* What the call a returns to rank r when seen[q] is what rank q published.
Outcome(r, a, seen) ==
    IF ~TagsAgree(r, a, seen) THEN Failed("mismatch")
    ELSE IF a.tag = "broadcast" /\ a.root >= World THEN Failed("root")
    ELSE IF ~LengthsAgree(r, a, seen) THEN Failed("length")
    ELSE Got(IF a.tag = "broadcast" THEN {a.root} ELSE Rank, seen, a.op)

Published(a, n) == [tag |-> a.tag, len |-> a.len, call |-> n]

----------------------------------------------------------------------------

CollectiveInit ==
    /\ given = [r \in Rank |-> << >>]
    /\ returned = [r \in Rank |-> << >>]

Invoke(r) ==
    /\ Len(given[r]) = Len(returned[r])
    /\ \E a \in Args : given' = [given EXCEPT ![r] = Append(@, a)]
    /\ UNCHANGED returned

\* A call returns once every rank has made it.
Respond(r) ==
    LET n == Len(given[r]) IN
    /\ Len(returned[r]) < n
    /\ \A q \in Rank : Len(given[q]) >= n
    /\ returned' = [returned EXCEPT ![r] =
          Append(@, Outcome(r, given[r][n], [q \in Rank |-> Published(given[q][n], n)]))]
    /\ UNCHANGED given

CollectiveSpec ==
    CollectiveInit /\ [][\E r \in Rank : Invoke(r) \/ Respond(r)]_<<given, returned>>

=============================================================================
