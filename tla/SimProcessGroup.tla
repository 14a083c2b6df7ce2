-------------------------- MODULE SimProcessGroup ---------------------------
(***************************************************************************)
(* The thread-simulated process group (tritium-train, dist.rs): one thread *)
(* per rank, a slot per rank behind a mutex, and one cyclic barrier that   *)
(* every collective crosses twice.  A program fixes the collectives each   *)
(* rank runs: ranks may disagree on what they call, not on how often.      *)
(***************************************************************************)
EXTENDS Collective

CONSTANTS
    Calls,     \* the collectives every rank runs
    Programs   \* the programs considered

ASSUME ProgramsAssumption == Calls \in Nat /\ Programs \subseteq [Rank -> [1..Calls -> Args]]

VARIABLES
    program,   \* program[r][n] = the n-th collective of rank r
    slots,     \* slots[r] = what rank r published last
    res,       \* res[r] = the result of r's collective, before it returns
    pc,        \* where the thread of rank r is
    count,     \* threads waiting in the barrier
    gen,       \* generation of the barrier
    mine       \* mine[r] = the generation r waits in

groupVars == <<program, slots, res, pc, count, gen, mine>>
vars == <<given, returned, groupVars>>

NoResult == Failed("none")

Init ==
    /\ CollectiveInit
    /\ program \in Programs
    /\ slots = [r \in Rank |-> [tag |-> "all_reduce", len |-> 0, call |-> 0]]
    /\ res = [r \in Rank |-> NoResult]
    /\ pc = [r \in Rank |-> "idle"]
    /\ count = 0
    /\ gen = 0
    /\ mine = [r \in Rank |-> 0]

\* A rank enters a collective and publishes, under the slots lock.
Publish(r) ==
    LET n == Len(given[r]) + 1 IN
    /\ pc[r] = "idle"
    /\ n <= Calls
    /\ given' = [given EXCEPT ![r] = Append(@, program[r][n])]
    /\ slots' = [slots EXCEPT ![r] = Published(program[r][n], n)]
    /\ pc' = [pc EXCEPT ![r] = "first"]
    /\ UNCHANGED <<program, returned, res, count, gen, mine>>

\* The two barriers of a collective, and what follows each.
AfterBarrier(place) == IF place \in {"first", "inFirst"} THEN "read" ELSE "return"

\* Barrier::wait: the last thread to arrive opens a new generation.
Arrive(r) ==
    /\ pc[r] \in {"first", "second"}
    /\ \/ /\ count + 1 < World
          /\ count' = count + 1
          /\ mine' = [mine EXCEPT ![r] = gen]
          /\ pc' = [pc EXCEPT ![r] = IF @ = "first" THEN "inFirst" ELSE "inSecond"]
          /\ UNCHANGED gen
       \/ /\ count + 1 = World
          /\ count' = 0
          /\ gen' = gen + 1
          /\ pc' = [pc EXCEPT ![r] = AfterBarrier(@)]
          /\ UNCHANGED mine
    /\ UNCHANGED <<program, given, returned, slots, res>>

Wake(r) ==
    /\ pc[r] \in {"inFirst", "inSecond"}
    /\ mine[r] # gen
    /\ pc' = [pc EXCEPT ![r] = AfterBarrier(@)]
    /\ UNCHANGED <<program, given, returned, slots, res, count, gen, mine>>

\* Mutant of AfterRead: the second barrier is left out.
AfterReadUnfenced(result) == "return"

\* Mutant of AfterRead: an error returns at once.
AfterReadEarly(result) == IF result.ok THEN "second" ELSE "return"

\* Err or Ok, the second barrier follows.
AfterRead(result) == "second"

\* The validation and the fold, under the slots lock.
Read(r) ==
    LET result == Outcome(r, given[r][Len(given[r])], slots) IN
    /\ pc[r] = "read"
    /\ res' = [res EXCEPT ![r] = result]
    /\ pc' = [pc EXCEPT ![r] = AfterRead(result)]
    /\ UNCHANGED <<program, given, returned, slots, count, gen, mine>>

Return(r) ==
    /\ pc[r] = "return"
    /\ returned' = [returned EXCEPT ![r] = Append(@, res[r])]
    /\ res' = [res EXCEPT ![r] = NoResult]
    /\ pc' = [pc EXCEPT ![r] = "idle"]
    /\ UNCHANGED <<program, given, slots, count, gen, mine>>

RankStep(r) == Publish(r) \/ Arrive(r) \/ Wake(r) \/ Read(r) \/ Return(r)

Next == \E r \in Rank : RankStep(r)

Spec == Init /\ [][Next]_vars /\ \A r \in Rank : WF_vars(RankStep(r))

----------------------------------------------------------------------------

(***************************************************************************)
(* The variables have their types; the slot of a rank holds its latest     *)
(* call, and the barrier opens at most twice per collective.               *)
(***************************************************************************)
TypeOK ==
    /\ \A r \in Rank : Len(returned[r]) \in {Len(given[r]), Len(given[r]) - 1}
    /\ \A r \in Rank : slots[r].call = Len(given[r])
    /\ pc \in [Rank -> {"idle", "first", "inFirst", "read", "second", "inSecond", "return"}]
    /\ count \in 0..(World - 1) /\ gen \in 0..(2 * Calls)

(***************************************************************************)
(* A disagreement on the collective is a clean error on every rank, never  *)
(* on some only.  An all_reduce gives every rank the same, error or        *)
(* result, but for one case the tag check of the slots cannot see: ranks   *)
(* that pass different ReduceOps all succeed, with the same sum, which     *)
(* those that passed Avg have divided.  Ranks that succeed in an           *)
(* all_gather hold the same result.                                        *)
(***************************************************************************)
Symmetric ==
    \A n \in 1..Calls, r, q \in Rank :
        n <= Len(returned[r]) /\ n <= Len(returned[q]) =>
            LET x == returned[r][n]
                y == returned[q][n]
            IN  /\ x = Failed("mismatch") <=> y = Failed("mismatch")
                /\ given[r][n].tag = "all_reduce" =>
                      \/ x = y
                      \/ /\ given[r][n].op # given[q][n].op
                         /\ x.ok /\ y.ok /\ x.value = y.value
                /\ given[r][n].tag = "all_gather" /\ x.ok /\ y.ok => x = y

(***************************************************************************)
(* No collective hangs: whatever the ranks call and however their buffers  *)
(* disagree, every call of every rank returns.                             *)
(***************************************************************************)
AllReturn == <>(\A r \in Rank : Len(returned[r]) = Calls)

=============================================================================
