------------------------- MODULE MCSimProcessGroup --------------------------
(***************************************************************************)
(* Three ranks and two collectives.  In the first every rank calls what it *)
(* likes: calls that agree, that differ in their tag, their lengths or     *)
(* their reduction, and a broadcast from a root that does not exist.  The  *)
(* second is an all_reduce on which they agree.                            *)
(***************************************************************************)
EXTENDS SimProcessGroup

Arg(tag, len, out, op, root) ==
    [tag |-> tag, len |-> len, out |-> out, op |-> op, root |-> root]

Reduce == Arg("all_reduce", 3, 3, "Sum", 0)

MCArgs ==
    {Reduce, Arg("all_reduce", 3, 3, "Avg", 0), Arg("all_reduce", 2, 2, "Sum", 0),
     Arg("reduce_scatter", 3, 1, "Sum", 0), Arg("reduce_scatter", 3, 2, "Avg", 0),
     Arg("all_gather", 1, 3, "none", 0),
     Arg("broadcast", 1, 1, "none", 1), Arg("broadcast", 3, 3, "none", 3)}

MCPrograms == {[r \in Rank |-> <<first[r], Reduce>>] : first \in [Rank -> MCArgs]}

=============================================================================
