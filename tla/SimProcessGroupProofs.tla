------------------------ MODULE SimProcessGroupProofs ------------------------
(***************************************************************************)
(* The thread-simulated process group for every number of ranks, every     *)
(* number of collectives and every program: it implements Collective, the  *)
(* ranks agree on an error and on a shared result, and the barrier never   *)
(* strands a rank.                                                         *)
(***************************************************************************)
EXTENDS SimProcessGroup, FiniteSetTheorems, SequenceTheorems, TLAPS

-----------------------------------------------------------------------------
(* What the calls of a collective return.                                   *)

Tags == {"all_reduce", "reduce_scatter", "all_gather", "broadcast"}

Slots == [Rank -> [tag : Tags, len : Nat, call : Nat]]

Results == {Outcome(r, a, seen) : r \in Rank, a \in Args, seen \in Slots}

\* What every rank has contributed to its n-th collective.
Contributed(n) == [q \in Rank |-> Published(given[q][n], n)]

\* A rank has at most one call under way.
CallsOK ==
    /\ given \in [Rank -> Seq(Args)] /\ returned \in [Rank -> Seq(Results)]
    /\ \A r \in Rank : Len(returned[r]) \in {Len(given[r]), Len(given[r]) - 1}

\* A call that returned had been made by every rank, and its result is the
\* outcome of what they all contributed to it.
Agreed ==
    \A r \in Rank : \A n \in 1..Len(returned[r]) :
        /\ \A q \in Rank : n <= Len(given[q])
        /\ returned[r][n] = Outcome(r, given[r][n], Contributed(n))

CollectiveInv == CallsOK /\ Agreed

\* What the ranks contribute to a call that they have all made fills the slots.
LEMMA ContributedType ==
    ASSUME given \in [Rank -> Seq(Args)], NEW n \in Nat \ {0},
           \A q \in Rank : n <= Len(given[q])
    PROVE  /\ \A q \in Rank : given[q][n] \in Args
           /\ Contributed(n) \in Slots
<1>1. \A q \in Rank : given[q][n] \in Args
  <2> SUFFICES ASSUME NEW q \in Rank PROVE given[q][n] \in Args
    OBVIOUS
  <2>1. given[q] \in Seq(Args) /\ Len(given[q]) \in Nat /\ n <= Len(given[q])
    BY LenProperties
  <2>2. n \in 1..Len(given[q])
    BY <2>1
  <2> QED
    BY <2>1, <2>2, ElementOfSeq
<1>2. \A q \in Rank : Published(given[q][n], n) \in [tag : Tags, len : Nat, call : Nat]
  BY <1>1, CollectiveAssumption DEF Published, Tags
<1> QED
  BY <1>1, <1>2 DEF Contributed, Slots

\* A new call changes nothing of the calls made before it.
LEMMA GivenKept ==
    ASSUME given \in [Rank -> Seq(Args)], NEW r \in Rank, NEW a \in Args,
           given' = [given EXCEPT ![r] = Append(@, a)]
    PROVE  /\ given' \in [Rank -> Seq(Args)]
           /\ Len(given'[r]) = Len(given[r]) + 1 /\ given'[r][Len(given[r]) + 1] = a
           /\ \A q \in Rank : q # r => given'[q] = given[q]
           /\ \A q \in Rank : Len(given[q]) \in Nat /\ Len(given[q]) <= Len(given'[q])
           /\ \A q \in Rank : \A n \in 1..Len(given[q]) : given'[q][n] = given[q][n]
           /\ \A n \in Nat \ {0} : (\A q \in Rank : n <= Len(given[q])) =>
                 Contributed(n)' = Contributed(n)
<1> DEFINE s == given[r]
           t == Append(s, a)
<1>1. s \in Seq(Args) /\ Len(s) \in Nat
  BY LenProperties
<1>2. /\ t \in Seq(Args) /\ Len(t) = Len(s) + 1 /\ t[Len(s) + 1] = a
      /\ \A n \in 1..Len(s) : t[n] = s[n]
  BY <1>1, AppendProperties
<1>3. given'[r] = t /\ \A q \in Rank : q # r => given'[q] = given[q]
  OBVIOUS
<1>4. given' \in [Rank -> Seq(Args)]
  BY <1>2
<1> HIDE DEF t
<1>5. \A q \in Rank : Len(given[q]) \in Nat /\ Len(given[q]) <= Len(given'[q])
  <2> SUFFICES ASSUME NEW q \in Rank
               PROVE  Len(given[q]) \in Nat /\ Len(given[q]) <= Len(given'[q])
    OBVIOUS
  <2>1. Len(given[q]) \in Nat
    BY LenProperties
  <2>2. CASE q = r
    BY <2>1, <2>2, <1>2, <1>3
  <2>3. CASE q # r
    BY <2>1, <2>3, <1>3
  <2> QED
    BY <2>2, <2>3
<1>6. \A q \in Rank : \A n \in 1..Len(given[q]) : given'[q][n] = given[q][n]
  BY <1>2, <1>3
<1>7. ASSUME NEW n \in Nat \ {0}, \A q \in Rank : n <= Len(given[q])
      PROVE  Contributed(n)' = Contributed(n)
  <2>1. \A q \in Rank : n \in 1..Len(given[q])
    BY <1>5, <1>7
  <2>2. \A q \in Rank : given'[q][n] = given[q][n]
    BY <1>6, <2>1
  <2> QED
    BY <2>2, Zenon DEF Contributed
<1> QED
  BY <1>2, <1>3, <1>4, <1>5, <1>6, <1>7

\* A call that begins keeps what the calls that returned agreed on.
LEMMA InvokeAgreed ==
    ASSUME CollectiveInv, NEW r \in Rank, Invoke(r)
    PROVE  CollectiveInv'
<1>1. PICK a \in Args : given' = [given EXCEPT ![r] = Append(@, a)]
  BY Zenon DEF Invoke
<1>2. returned' = returned /\ Len(given[r]) = Len(returned[r])
  BY DEF Invoke
<1>3. given \in [Rank -> Seq(Args)] /\ returned \in [Rank -> Seq(Results)]
  BY DEF CollectiveInv, CallsOK
<1>4. /\ given' \in [Rank -> Seq(Args)]
      /\ Len(given'[r]) = Len(given[r]) + 1
      /\ \A q \in Rank : q # r => given'[q] = given[q]
      /\ \A q \in Rank : Len(given[q]) \in Nat /\ Len(given[q]) <= Len(given'[q])
      /\ \A q \in Rank : \A n \in 1..Len(given[q]) : given'[q][n] = given[q][n]
      /\ \A n \in Nat \ {0} : (\A q \in Rank : n <= Len(given[q])) =>
            Contributed(n)' = Contributed(n)
  BY <1>1, <1>3, GivenKept, Zenon
<1>5. CallsOK'
  <2> SUFFICES ASSUME NEW q \in Rank
               PROVE  Len(returned[q]) \in {Len(given'[q]), Len(given'[q]) - 1}
    BY <1>2, <1>3, <1>4 DEF CallsOK
  <2>1. CASE q = r
    BY <2>1, <1>2, <1>4
  <2>2. CASE q # r
    BY <2>2, <1>4 DEF CollectiveInv, CallsOK
  <2> QED
    BY <2>1, <2>2
<1>6. ASSUME NEW q \in Rank, NEW n \in 1..Len(returned[q])
      PROVE  /\ \A p \in Rank : n <= Len(given'[p])
             /\ returned[q][n] = Outcome(q, given'[q][n], Contributed(n)')
  <2>1. /\ \A p \in Rank : n <= Len(given[p])
        /\ returned[q][n] = Outcome(q, given[q][n], Contributed(n))
    BY DEF CollectiveInv, Agreed
  <2>2. n \in Nat \ {0} /\ n \in 1..Len(given[q])
    BY <2>1, <1>4
  <2>3. Contributed(n)' = Contributed(n) /\ given'[q][n] = given[q][n]
    BY <2>1, <2>2, <1>4
  <2>4. \A p \in Rank : n <= Len(given'[p])
    <3> SUFFICES ASSUME NEW p \in Rank PROVE n <= Len(given'[p])
      OBVIOUS
    <3>1. n <= Len(given[p]) /\ Len(given[p]) <= Len(given'[p]) /\ Len(given[p]) \in Nat
      BY <2>1, <1>4
    <3>2. Len(given'[p]) \in Nat
      BY <1>4, LenProperties
    <3> QED
      BY <3>1, <3>2, <2>2
  <2> QED
    BY <2>1, <2>3, <2>4
<1>7. Agreed'
  BY <1>2, <1>6 DEF Agreed
<1> QED
  BY <1>5, <1>7 DEF CollectiveInv

\* A call that returns, returns what every rank contributed to it.
LEMMA RespondAgreed ==
    ASSUME CollectiveInv, NEW r \in Rank, Respond(r)
    PROVE  CollectiveInv'
<1> DEFINE n == Len(given[r])
           x == Outcome(r, given[r][n], Contributed(n))
<1>1. /\ given' = given /\ Len(returned[r]) < n /\ \A q \in Rank : Len(given[q]) >= n
      /\ returned' = [returned EXCEPT ![r] = Append(@, x)]
  BY DEF Respond, Contributed
<1>2. /\ given \in [Rank -> Seq(Args)] /\ returned \in [Rank -> Seq(Results)]
      /\ Len(returned[r]) \in {n, n - 1}
  BY DEF CollectiveInv, CallsOK
<1>3. /\ n \in Nat /\ Len(returned[r]) \in Nat
      /\ \A q \in Rank : Len(given[q]) \in Nat
  BY <1>2, LenProperties
<1>4. n \in Nat \ {0} /\ Len(returned[r]) = n - 1
  BY <1>1, <1>2, <1>3
<1>5. \A q \in Rank : n <= Len(given[q])
  BY <1>1, <1>3
<1>6. given[r][n] \in Args /\ Contributed(n) \in Slots
  BY <1>2, <1>4, <1>5, ContributedType
<1>7. x \in Results
  BY <1>6 DEF Results
<1> HIDE DEF n, x
<1>8. /\ Append(returned[r], x) \in Seq(Results) /\ Len(Append(returned[r], x)) = n
      /\ \A i \in 1..(n - 1) : Append(returned[r], x)[i] = returned[r][i]
      /\ Append(returned[r], x)[n] = x
  <2>1. returned[r] \in Seq(Results)
    BY <1>2
  <2> QED
    BY <2>1, <1>4, <1>7, AppendProperties
<1>9. /\ returned'[r] = Append(returned[r], x)
      /\ \A q \in Rank : q # r => returned'[q] = returned[q]
      /\ returned' \in [Rank -> Seq(Results)]
  BY <1>1, <1>2, <1>8
<1>10. CallsOK'
  <2> SUFFICES ASSUME NEW q \in Rank
               PROVE  Len(returned'[q]) \in {Len(given[q]), Len(given[q]) - 1}
    BY <1>1, <1>2, <1>9 DEF CallsOK
  <2>1. CASE q = r
    BY <2>1, <1>8, <1>9 DEF n
  <2>2. CASE q # r
    BY <2>2, <1>9 DEF CollectiveInv, CallsOK
  <2> QED
    BY <2>1, <2>2
<1>11. ASSUME NEW q \in Rank, NEW i \in 1..Len(returned'[q])
       PROVE  /\ \A p \in Rank : i <= Len(given[p])
              /\ returned'[q][i] = Outcome(q, given[q][i], Contributed(i))
  <2>1. CASE q = r /\ i = n
    BY <2>1, <1>5, <1>8, <1>9 DEF x
  <2>2. CASE q = r /\ i # n
    <3>1. i \in 1..(n - 1) /\ i \in 1..Len(returned[r])
      BY <2>2, <1>4, <1>8, <1>9
    <3>2. returned'[q][i] = returned[q][i]
      BY <2>2, <3>1, <1>8, <1>9
    <3> QED
      BY <2>2, <3>1, <3>2 DEF CollectiveInv, Agreed
  <2>3. CASE q # r
    BY <2>3, <1>9 DEF CollectiveInv, Agreed
  <2> QED
    BY <2>1, <2>2, <2>3
<1>12. Agreed'
  BY <1>1, <1>11 DEF Agreed, Contributed
<1> QED
  BY <1>10, <1>12 DEF CollectiveInv

-----------------------------------------------------------------------------
(* The barrier.                                                             *)

\* The collectives of rank r so far.
Made(r) == Len(given[r])

\* The barriers rank r has crossed, two per collective.
Crossed(r) ==
    CASE pc[r] \in {"idle", "return"} -> 2 * Made(r)
      [] pc[r] \in {"first", "inFirst"} -> 2 * Made(r) - 2
      [] pc[r] \in {"read", "second", "inSecond"} -> 2 * Made(r) - 1

Places == {"idle", "first", "inFirst", "read", "second", "inSecond", "return"}

\* The ranks that wait for the barrier to open.
Waiting == {r \in Rank : pc[r] \in {"inFirst", "inSecond"} /\ mine[r] = gen}

Types ==
    /\ program \in [Rank -> [1..Calls -> Args]]
    /\ res \in [Rank -> Results \cup {NoResult}]
    /\ pc \in [Rank -> Places]
    /\ gen \in Nat /\ mine \in [Rank -> Nat]

\* How far each rank is in its program.
Progress ==
    \A r \in Rank :
        /\ Made(r) <= Calls
        /\ pc[r] = "idle" => Len(returned[r]) = Made(r)
        /\ pc[r] # "idle" => Made(r) >= 1 /\ Len(returned[r]) = Made(r) - 1

\* A rank outside the barrier has crossed it every time it opened; one inside
\* has missed at most the last time.
InStep ==
    \A r \in Rank :
        /\ pc[r] \notin {"inFirst", "inSecond"} => Crossed(r) = gen
        /\ pc[r] \in {"inFirst", "inSecond"} =>
              mine[r] = Crossed(r) /\ (mine[r] = gen \/ mine[r] = gen - 1)

\* The barrier counts the ranks that wait, and never all of them.
Counted == count = Cardinality(Waiting) /\ count < World

\* The slots hold the latest contribution of each rank.
SlotsLatest ==
    slots = [q \in Rank |-> IF Made(q) = 0 THEN [tag |-> "all_reduce", len |-> 0, call |-> 0]
                            ELSE Published(given[q][Made(q)], Made(q))]

\* A rank that has read carries the outcome of its collective.
Carried ==
    \A r \in Rank : pc[r] \in {"second", "inSecond", "return"} =>
        res[r] = Outcome(r, given[r][Made(r)], Contributed(Made(r)))

\* The inductive invariant.
IInv ==
    /\ CollectiveInv /\ Types /\ Progress
    /\ InStep /\ Counted /\ SlotsLatest /\ Carried

\* The ranks are finitely many.
LEMMA Ranks ==
    /\ IsFiniteSet(Rank) /\ Cardinality(Rank) = World /\ World \in Nat \ {0}
    /\ \A S \in SUBSET Rank : IsFiniteSet(S) /\ Cardinality(S) \in Nat
<1>1. World \in Nat \ {0}
  BY CollectiveAssumption
<1>2. IsFiniteSet(Rank) /\ Cardinality(Rank) = World
  BY <1>1, FS_Interval DEF Rank
<1>3. ASSUME NEW S \in SUBSET Rank PROVE IsFiniteSet(S) /\ Cardinality(S) \in Nat
  BY <1>2, FS_Subset, FS_CardinalityType
<1> QED
  BY <1>1, <1>2, <1>3

\* The number of collectives of a rank is a number.
LEMMA MadeNat ==
    ASSUME IInv, NEW r \in Rank
    PROVE  Made(r) \in Nat /\ given[r] \in Seq(Args) /\ pc[r] \in Places
<1>1. given[r] \in Seq(Args)
  BY DEF IInv, CollectiveInv, CallsOK
<1> QED
  BY <1>1, LenProperties DEF Made, IInv, Types

\* Two ranks are at most one barrier apart: the arithmetic.
LEMMA HalfStep ==
    ASSUME NEW m \in Nat, NEW k \in Nat, NEW g \in Nat,
           \/ 2 * k = g \/ 2 * k - 2 = g \/ 2 * k - 2 = g - 1
           \/ 2 * k - 1 = g \/ 2 * k - 1 = g - 1
    PROVE  /\ 2 * m - 1 = g => k = m
           /\ 2 * m - 1 = g - 1 \/ 2 * m = g => m <= k
OBVIOUS

\* When a rank reads, the slots hold the same collective of every rank; when
\* it returns, every rank has made it.
LEMMA Together ==
    ASSUME IInv, NEW r \in Rank, NEW q \in Rank
    PROVE  /\ pc[r] = "read" => Made(q) = Made(r)
           /\ pc[r] \in {"read", "second", "inSecond", "return"} => Made(r) <= Made(q)
<1>1. Made(r) \in Nat /\ Made(q) \in Nat /\ pc[r] \in Places /\ pc[q] \in Places
  BY MadeNat
<1>2. gen \in Nat
  BY DEF IInv, Types
<1>3. /\ pc[r] \in {"read", "second"} => 2 * Made(r) - 1 = gen
      /\ pc[r] = "inSecond" => 2 * Made(r) - 1 = gen \/ 2 * Made(r) - 1 = gen - 1
      /\ pc[r] = "return" => 2 * Made(r) = gen
  BY DEF IInv, InStep, Crossed
<1>4. \/ 2 * Made(q) = gen
      \/ 2 * Made(q) - 2 = gen
      \/ 2 * Made(q) - 2 = gen - 1
      \/ 2 * Made(q) - 1 = gen
      \/ 2 * Made(q) - 1 = gen - 1
  <2>1. CASE pc[q] \in {"idle", "return"}
    BY <2>1 DEF IInv, InStep, Crossed
  <2>2. CASE pc[q] \in {"first", "inFirst"}
    BY <2>2 DEF IInv, InStep, Crossed
  <2>3. CASE pc[q] \in {"read", "second", "inSecond"}
    BY <2>3 DEF IInv, InStep, Crossed
  <2> QED
    BY <2>1, <2>2, <2>3, <1>1 DEF Places
<1>5. CASE pc[r] \in {"read", "second"}
  BY <1>1, <1>2, <1>3, <1>4, <1>5, HalfStep
<1>6. CASE pc[r] \in {"inSecond", "return"}
  <2>1. 2 * Made(r) - 1 = gen \/ 2 * Made(r) - 1 = gen - 1 \/ 2 * Made(r) = gen
    BY <1>3, <1>6
  <2>2. Made(r) <= Made(q)
    BY <2>1, <1>1, <1>2, <1>4, HalfStep
  <2> QED
    BY <2>2, <1>6
<1> QED
  BY <1>5, <1>6

\* The last rank to arrive finds all the others waiting.
LEMMA LastArrival ==
    ASSUME IInv, NEW r \in Rank, r \notin Waiting, count + 1 = World
    PROVE  Waiting = Rank \ {r}
<1>1. Waiting \in SUBSET (Rank \ {r})
  BY DEF Waiting
<1>2. IsFiniteSet(Rank \ {r}) /\ Cardinality(Rank \ {r}) = World - 1
  BY Ranks, FS_RemoveElement
<1>3. Cardinality(Waiting) = World - 1
  <2>1. Cardinality(Waiting) \in Nat
    BY <1>1, Ranks
  <2> QED
    BY <2>1, Ranks DEF IInv, Counted
<1> QED
  BY <1>1, <1>2, <1>3, FS_Subset
\* A rank that a step leaves alone is where it was.
LEMMA Elsewhere ==
    ASSUME NEW q \in Rank, given'[q] = given[q], pc'[q] = pc[q]
    PROVE  Made(q)' = Made(q) /\ Crossed(q)' = Crossed(q)
BY DEF Made, Crossed

\* A rank that publishes begins its next collective.
LEMMA PublishKeeps ==
    ASSUME IInv, NEW r \in Rank, Publish(r)
    PROVE  IInv' /\ Invoke(r)
<1> DEFINE n == Made(r) + 1
           a == program[r][n]
<1>1. /\ pc[r] = "idle" /\ n <= Calls
      /\ given' = [given EXCEPT ![r] = Append(@, a)]
      /\ slots' = [slots EXCEPT ![r] = Published(a, n)]
      /\ pc' = [pc EXCEPT ![r] = "first"]
      /\ UNCHANGED <<program, returned, res, count, gen, mine>>
  BY DEF Publish, Made
<1>2. Made(r) \in Nat /\ \A q \in Rank : Made(q) \in Nat
  BY MadeNat
<1>3. a \in Args
  BY <1>1, <1>2, ProgramsAssumption DEF IInv, Types
<1>4. given \in [Rank -> Seq(Args)]
  BY DEF IInv, CollectiveInv, CallsOK
<1> HIDE DEF a
<1>5. /\ given' \in [Rank -> Seq(Args)]
      /\ Len(given'[r]) = Len(given[r]) + 1 /\ given'[r][Len(given[r]) + 1] = a
      /\ \A q \in Rank : q # r => given'[q] = given[q]
      /\ \A i \in Nat \ {0} : (\A q \in Rank : i <= Len(given[q])) =>
            Contributed(i)' = Contributed(i)
  BY <1>1, <1>3, <1>4, GivenKept, Zenon
<1>6. Invoke(r)
  <2>1. Len(given[r]) = Len(returned[r])
    BY <1>1 DEF IInv, Progress, Made
  <2> QED
    BY <2>1, <1>1, <1>3, Zenon DEF Invoke
<1>7. CollectiveInv'
  BY <1>6, InvokeAgreed DEF IInv
<1>8. /\ pc \in [Rank -> Places] /\ pc'[r] = "first"
      /\ \A q \in Rank : q # r => pc'[q] = pc[q]
  BY <1>1 DEF IInv, Types
<1>9. Made(r)' = n
  BY <1>5 DEF Made
<1>10. \A q \in Rank : q # r => Made(q)' = Made(q) /\ Crossed(q)' = Crossed(q)
  BY <1>5, <1>8, Elsewhere
<1>11. Types'
  BY <1>1 DEF IInv, Types, Places
<1>12. Progress'
  <2> SUFFICES ASSUME NEW q \in Rank
               PROVE  /\ Made(q)' <= Calls
                      /\ pc'[q] = "idle" => Len(returned[q]) = Made(q)'
                      /\ pc'[q] # "idle" => Made(q)' >= 1 /\ Len(returned[q]) = Made(q)' - 1
    BY <1>1 DEF Progress
  <2>1. CASE q = r
    BY <2>1, <1>1, <1>2, <1>8, <1>9 DEF IInv, Progress
  <2>2. CASE q # r
    BY <2>2, <1>8, <1>10 DEF IInv, Progress
  <2> QED
    BY <2>1, <2>2
<1>13. InStep'
  <2>1. Crossed(r)' = 2 * n - 2
    BY <1>8, <1>9 DEF Crossed
  <2>2. Crossed(r) = gen /\ Crossed(r) = 2 * Made(r)
    BY <1>1 DEF IInv, InStep, Crossed
  <2>3. Crossed(r)' = gen
    BY <2>1, <2>2, <1>2
  <2> QED
    BY <2>3, <1>1, <1>8, <1>10 DEF IInv, InStep
<1>14. Counted'
  <2>1. Waiting' = Waiting
    BY <1>1, <1>8 DEF Waiting
  <2> QED
    BY <2>1, <1>1 DEF IInv, Counted
<1>15. SlotsLatest'
  <2> DEFINE Latest(q) == IF Made(q) = 0 THEN [tag |-> "all_reduce", len |-> 0, call |-> 0]
                          ELSE Published(given[q][Made(q)], Made(q))
  <2>1. slots = [q \in Rank |-> Latest(q)]
    BY DEF IInv, SlotsLatest
  <2>2. Latest(r)' = Published(a, n)
    BY <1>2, <1>5, <1>9 DEF Made
  <2>3. \A q \in Rank : q # r => Latest(q)' = Latest(q)
    BY <1>5, <1>10
  <2> HIDE DEF Latest
  <2>4. slots' = [q \in Rank |-> Latest(q)']
    BY <2>1, <2>2, <2>3, <1>1
  <2> QED
    BY <2>4 DEF SlotsLatest, Latest
<1>16. Carried'
  <2> SUFFICES ASSUME NEW q \in Rank, pc'[q] \in {"second", "inSecond", "return"}
               PROVE  res[q] = Outcome(q, given'[q][Made(q)'], Contributed(Made(q))')
    BY <1>1 DEF Carried
  <2>1. q # r /\ pc[q] \in {"second", "inSecond", "return"}
    BY <1>8
  <2>2. PICK m : m = Made(q)
    OBVIOUS
  <2>3. m \in Nat \ {0} /\ \A p \in Rank : m <= Len(given[p])
    BY <2>1, <2>2, <1>2, Together DEF IInv, Progress, Made
  <2>4. Contributed(m)' = Contributed(m)
    BY <2>3, <1>5
  <2>5. Contributed(Made(q))' = Contributed(m)'
    BY <2>1, <2>2, <1>10 DEF Contributed
  <2>6. res[q] = Outcome(q, given[q][m], Contributed(m))
    BY <2>1, <2>2 DEF IInv, Carried
  <2> QED
    BY <2>1, <2>2, <2>4, <2>5, <2>6, <1>5, <1>10
<1> QED
  BY <1>6, <1>7, <1>11, <1>12, <1>13, <1>14, <1>15, <1>16 DEF IInv

\* A step of r alone that makes no call: what is left of the invariant to show.
LEMMA SameCalls ==
    ASSUME IInv, NEW r \in Rank, UNCHANGED <<given, slots, program>>,
           NEW place \in Places \ {"idle"}, pc' = [pc EXCEPT ![r] = place]
    PROVE  /\ \A q \in Rank : Made(q)' = Made(q)
           /\ \A q \in Rank : Contributed(Made(q))' = Contributed(Made(q))
           /\ \A q \in Rank : q # r => pc'[q] = pc[q] /\ Crossed(q)' = Crossed(q)
           /\ pc'[r] = place /\ pc' \in [Rank -> Places]
           /\ SlotsLatest'
<1>1. \A q \in Rank : Made(q)' = Made(q)
  BY DEF Made
<1>2. /\ pc'[r] = place /\ pc' \in [Rank -> Places]
      /\ \A q \in Rank : q # r => pc'[q] = pc[q]
  BY DEF IInv, Types
<1>3. \A q \in Rank : q # r => Crossed(q)' = Crossed(q)
  BY <1>2, Elsewhere
<1>4. \A q \in Rank : Contributed(Made(q))' = Contributed(Made(q))
  BY <1>1 DEF Contributed
<1>5. SlotsLatest'
  BY <1>1 DEF IInv, SlotsLatest
<1> QED
  BY <1>1, <1>2, <1>3, <1>4, <1>5

\* A rank that arrives before another waits in the barrier.
LEMMA WaitKeeps ==
    ASSUME IInv, NEW r \in Rank, Arrive(r), count' = count + 1, count + 1 < World
    PROVE  IInv'
<1> DEFINE place == IF pc[r] = "first" THEN "inFirst" ELSE "inSecond"
<1>1. /\ pc[r] \in {"first", "second"}
      /\ mine' = [mine EXCEPT ![r] = gen]
      /\ pc' = [pc EXCEPT ![r] = place]
      /\ UNCHANGED <<gen, program, given, returned, slots, res>>
  <2>1. count \in Nat
    BY Ranks DEF IInv, Counted, Waiting
  <2> QED
    BY <2>1, CollectiveAssumption DEF Arrive
<1>2. place \in Places \ {"idle"}
  BY DEF Places
<1>3. Made(r) \in Nat
  BY MadeNat
<1>4. /\ \A q \in Rank : Made(q)' = Made(q)
      /\ \A q \in Rank : Contributed(Made(q))' = Contributed(Made(q))
      /\ \A q \in Rank : q # r => pc'[q] = pc[q] /\ Crossed(q)' = Crossed(q)
      /\ pc'[r] = place /\ pc' \in [Rank -> Places]
      /\ SlotsLatest'
  BY <1>1, <1>2, SameCalls, Zenon
<1>5. mine'[r] = gen /\ mine' \in [Rank -> Nat] /\ \A q \in Rank : q # r => mine'[q] = mine[q]
  BY <1>1 DEF IInv, Types
<1>6. CollectiveInv'
  BY <1>1 DEF IInv, CollectiveInv, CallsOK, Agreed, Contributed
<1>7. Types'
  BY <1>1, <1>4, <1>5 DEF IInv, Types
<1>8. Progress'
  BY <1>1, <1>4 DEF IInv, Progress
<1>9. Crossed(r)' = Crossed(r) /\ Crossed(r) = gen
  BY <1>1, <1>4 DEF IInv, InStep, Crossed
<1>10. InStep'
  BY <1>1, <1>4, <1>5, <1>9 DEF IInv, InStep
<1>11. Counted'
  <2>1. Waiting' = Waiting \cup {r} /\ r \notin Waiting
    BY <1>1, <1>4, <1>5 DEF Waiting
  <2>2. IsFiniteSet(Waiting)
    BY Ranks DEF Waiting
  <2> QED
    BY <2>1, <2>2, FS_AddElement DEF IInv, Counted
<1>12. Carried'
  BY <1>1, <1>4 DEF IInv, Carried
<1> QED
  BY <1>4, <1>6, <1>7, <1>8, <1>10, <1>11, <1>12 DEF IInv

\* The last rank to arrive opens the barrier for the others.
LEMMA OpenKeeps ==
    ASSUME IInv, NEW r \in Rank, Arrive(r), count + 1 = World
    PROVE  IInv'
<1> DEFINE place == IF pc[r] = "first" THEN "read" ELSE "return"
<1>1. /\ pc[r] \in {"first", "second"}
      /\ count' = 0 /\ gen' = gen + 1
      /\ pc' = [pc EXCEPT ![r] = place]
      /\ UNCHANGED <<mine, program, given, returned, slots, res>>
  <2>1. count \in Nat
    BY Ranks DEF IInv, Counted, Waiting
  <2> QED
    BY <2>1, CollectiveAssumption DEF Arrive, AfterBarrier
<1>2. place \in Places \ {"idle"}
  BY DEF Places
<1>3. Made(r) \in Nat /\ gen \in Nat /\ \A q \in Rank : mine[q] \in Nat
  BY MadeNat DEF IInv, Types
<1>4. /\ \A q \in Rank : Made(q)' = Made(q)
      /\ \A q \in Rank : Contributed(Made(q))' = Contributed(Made(q))
      /\ \A q \in Rank : q # r => pc'[q] = pc[q] /\ Crossed(q)' = Crossed(q)
      /\ pc'[r] = place /\ pc' \in [Rank -> Places]
      /\ SlotsLatest'
  BY <1>1, <1>2, SameCalls, Zenon
<1>5. Waiting = Rank \ {r}
  <2>1. r \notin Waiting
    BY <1>1 DEF Waiting
  <2> QED
    BY <2>1, LastArrival
<1>6. CollectiveInv'
  BY <1>1 DEF IInv, CollectiveInv, CallsOK, Agreed, Contributed
<1>7. Types'
  BY <1>1, <1>3, <1>4 DEF IInv, Types
<1>8. Progress'
  BY <1>1, <1>4 DEF IInv, Progress
<1>9. Crossed(r)' = gen + 1
  <2>1. Crossed(r) = gen
    BY <1>1 DEF IInv, InStep
  <2>2. CASE pc[r] = "first"
    BY <2>1, <2>2, <1>3, <1>4 DEF Crossed
  <2>3. CASE pc[r] = "second"
    BY <2>1, <2>3, <1>3, <1>4 DEF Crossed
  <2> QED
    BY <2>2, <2>3, <1>1
<1>10. InStep'
  <2> SUFFICES ASSUME NEW q \in Rank
               PROVE  /\ pc'[q] \notin {"inFirst", "inSecond"} => Crossed(q)' = gen'
                      /\ pc'[q] \in {"inFirst", "inSecond"} =>
                            mine'[q] = Crossed(q)' /\ (mine'[q] = gen' \/ mine'[q] = gen' - 1)
    BY DEF InStep
  <2>1. CASE q = r
    BY <2>1, <1>1, <1>4, <1>9
  <2>2. CASE q # r
    <3>1. pc[q] \in {"inFirst", "inSecond"} /\ mine[q] = gen
      BY <2>2, <1>5 DEF Waiting
    <3>2. mine[q] = Crossed(q)
      BY <3>1 DEF IInv, InStep
    <3>3. pc'[q] = pc[q] /\ Crossed(q)' = Crossed(q)
      BY <2>2, <1>4
    <3>4. mine'[q] = mine[q] /\ gen' = gen + 1 /\ gen \in Nat
      BY <1>1, <1>3
    <3>5. gen' - 1 = gen
      BY <3>4
    <3> QED
      BY <3>1, <3>2, <3>3, <3>4, <3>5, Zenon
  <2> QED
    BY <2>1, <2>2
<1>11. Counted'
  <2>1. \A q \in Rank : q # r => mine'[q] # gen'
    BY <1>1, <1>3, <1>5 DEF Waiting
  <2>2. Waiting' = {}
    BY <2>1, <1>4 DEF Waiting
  <2> QED
    BY <2>2, <1>1, FS_EmptySet, CollectiveAssumption DEF Counted
<1>12. Carried'
  BY <1>1, <1>4 DEF IInv, Carried
<1> QED
  BY <1>4, <1>6, <1>7, <1>8, <1>10, <1>11, <1>12 DEF IInv

\* A rank wakes once the barrier has opened.
LEMMA WakeKeeps ==
    ASSUME IInv, NEW r \in Rank, Wake(r)
    PROVE  IInv'
<1> DEFINE place == IF pc[r] = "inFirst" THEN "read" ELSE "return"
<1>1. /\ pc[r] \in {"inFirst", "inSecond"} /\ mine[r] # gen
      /\ pc' = [pc EXCEPT ![r] = place]
      /\ UNCHANGED <<program, given, returned, slots, res, count, gen, mine>>
  BY Zenon DEF Wake, AfterBarrier
<1>2. place \in Places \ {"idle"}
  BY DEF Places
<1>3. Made(r) \in Nat /\ gen \in Nat
  BY MadeNat DEF IInv, Types
<1>4. /\ \A q \in Rank : Made(q)' = Made(q)
      /\ \A q \in Rank : Contributed(Made(q))' = Contributed(Made(q))
      /\ \A q \in Rank : q # r => pc'[q] = pc[q] /\ Crossed(q)' = Crossed(q)
      /\ pc'[r] = place /\ pc' \in [Rank -> Places]
      /\ SlotsLatest'
  BY <1>1, <1>2, SameCalls, Zenon
<1>5. CollectiveInv'
  BY <1>1 DEF IInv, CollectiveInv, CallsOK, Agreed, Contributed
<1>6. Types'
  BY <1>1, <1>4 DEF IInv, Types
<1>7. Progress'
  BY <1>1, <1>4 DEF IInv, Progress
<1>8. Crossed(r)' = gen
  <2>1. Crossed(r) = gen - 1
    BY <1>1 DEF IInv, InStep
  <2>2. CASE pc[r] = "inFirst"
    BY <2>1, <2>2, <1>3, <1>4 DEF Crossed
  <2>3. CASE pc[r] = "inSecond"
    BY <2>1, <2>3, <1>3, <1>4 DEF Crossed
  <2> QED
    BY <2>2, <2>3, <1>1
<1>9. InStep'
  BY <1>1, <1>4, <1>8 DEF IInv, InStep
<1>10. Counted'
  <2>1. Waiting' = Waiting
    BY <1>1, <1>4 DEF Waiting
  <2> QED
    BY <2>1, <1>1 DEF IInv, Counted
<1>11. Carried'
  BY <1>1, <1>4 DEF IInv, Carried
<1> QED
  BY <1>4, <1>5, <1>6, <1>7, <1>9, <1>10, <1>11 DEF IInv

\* A rank that reads finds in the slots the collective it is in, of every rank.
LEMMA ReadKeeps ==
    ASSUME IInv, NEW r \in Rank, Read(r)
    PROVE  IInv'
<1> DEFINE result == Outcome(r, given[r][Made(r)], slots)
<1>1. /\ pc[r] = "read"
      /\ res' = [res EXCEPT ![r] = result]
      /\ pc' = [pc EXCEPT ![r] = "second"]
      /\ UNCHANGED <<program, given, returned, slots, count, gen, mine>>
  BY DEF Read, AfterRead, Made
<1>2. "second" \in Places \ {"idle"}
  BY DEF Places
<1>3. Made(r) \in Nat \ {0} /\ \A q \in Rank : Made(q) = Made(r)
  <2>1. \A q \in Rank : Made(q) = Made(r)
    BY <1>1, Together
  <2>2. Made(r) \in Nat
    BY MadeNat
  <2>3. Made(r) >= 1
    BY <1>1 DEF IInv, Progress
  <2> QED
    BY <2>1, <2>2, <2>3
<1>4. /\ \A q \in Rank : Made(q)' = Made(q)
      /\ \A q \in Rank : Contributed(Made(q))' = Contributed(Made(q))
      /\ \A q \in Rank : q # r => pc'[q] = pc[q] /\ Crossed(q)' = Crossed(q)
      /\ pc'[r] = "second" /\ pc' \in [Rank -> Places]
      /\ SlotsLatest'
  BY <1>1, <1>2, SameCalls, Zenon
<1>5. slots = Contributed(Made(r))
  BY <1>3 DEF IInv, SlotsLatest, Contributed
<1>6. result \in Results
  <2>1. given \in [Rank -> Seq(Args)]
    BY DEF IInv, CollectiveInv, CallsOK
  <2>2. \A q \in Rank : Made(r) <= Len(given[q])
    BY <1>3 DEF Made
  <2>3. given[r][Made(r)] \in Args /\ Contributed(Made(r)) \in Slots
    BY <1>3, <2>1, <2>2, ContributedType
  <2> QED
    BY <2>3, <1>5 DEF Results
<1> HIDE DEF result
<1>7. /\ res' \in [Rank -> Results \cup {NoResult}] /\ res'[r] = result
      /\ \A q \in Rank : q # r => res'[q] = res[q]
  BY <1>1, <1>6 DEF IInv, Types
<1>8. CollectiveInv'
  BY <1>1 DEF IInv, CollectiveInv, CallsOK, Agreed, Contributed
<1>9. Types'
  BY <1>1, <1>4, <1>7 DEF IInv, Types
<1>10. Progress'
  BY <1>1, <1>4 DEF IInv, Progress
<1>11. Crossed(r)' = Crossed(r) /\ Crossed(r) = gen
  BY <1>1, <1>4 DEF IInv, InStep, Crossed
<1>12. InStep'
  BY <1>1, <1>4, <1>11 DEF IInv, InStep
<1>13. Counted'
  <2>1. Waiting' = Waiting
    BY <1>1, <1>4 DEF Waiting
  <2> QED
    BY <2>1, <1>1 DEF IInv, Counted
<1>14. Carried'
  <2> SUFFICES ASSUME NEW q \in Rank, pc'[q] \in {"second", "inSecond", "return"}
               PROVE  res'[q] = Outcome(q, given[q][Made(q)], Contributed(Made(q)))
    BY <1>1, <1>4 DEF Carried
  <2>1. CASE q = r
    BY <2>1, <1>5, <1>7 DEF result
  <2>2. CASE q # r
    BY <2>2, <1>4, <1>7 DEF IInv, Carried
  <2> QED
    BY <2>1, <2>2
<1> QED
  BY <1>4, <1>8, <1>9, <1>10, <1>12, <1>13, <1>14 DEF IInv

\* A rank that returns hands over what it carries.
LEMMA ReturnKeeps ==
    ASSUME IInv, NEW r \in Rank, Return(r)
    PROVE  IInv' /\ Respond(r)
<1>1. /\ pc[r] = "return"
      /\ returned' = [returned EXCEPT ![r] = Append(@, res[r])]
      /\ res' = [res EXCEPT ![r] = NoResult]
      /\ pc' = [pc EXCEPT ![r] = "idle"]
      /\ UNCHANGED <<program, given, slots, count, gen, mine>>
  BY DEF Return
<1>2. /\ Made(r) \in Nat \ {0} /\ Len(returned[r]) = Made(r) - 1
      /\ \A q \in Rank : Made(r) <= Made(q) /\ Made(q) \in Nat
  <2>1. Made(r) >= 1 /\ Len(returned[r]) = Made(r) - 1
    BY <1>1 DEF IInv, Progress
  <2>2. \A q \in Rank : Made(r) <= Made(q) /\ Made(q) \in Nat
    BY <1>1, Together, MadeNat
  <2> QED
    BY <2>1, <2>2
<1>3. res[r] = Outcome(r, given[r][Made(r)], Contributed(Made(r)))
  BY <1>1 DEF IInv, Carried
<1>4. Respond(r)
  <2>1. /\ Len(returned[r]) < Len(given[r])
        /\ \A q \in Rank : Len(given[q]) >= Len(given[r])
    BY <1>2 DEF Made
  <2> QED
    BY <2>1, <1>1, <1>3 DEF Respond, Contributed, Made
<1>5. CollectiveInv'
  BY <1>4, RespondAgreed DEF IInv
<1>6. /\ pc'[r] = "idle" /\ pc' \in [Rank -> Places]
      /\ \A q \in Rank : q # r => pc'[q] = pc[q] /\ res'[q] = res[q] /\ returned'[q] = returned[q]
  <2>1. pc'[r] = "idle" /\ pc' \in [Rank -> Places] /\ \A q \in Rank : q # r => pc'[q] = pc[q]
    BY <1>1 DEF IInv, Types, Places
  <2>2. \A q \in Rank : q # r => res'[q] = res[q]
    BY <1>1 DEF IInv, Types
  <2>3. \A q \in Rank : q # r => returned'[q] = returned[q]
    BY <1>1 DEF IInv, CollectiveInv, CallsOK
  <2> QED
    BY <2>1, <2>2, <2>3
<1>7. \A q \in Rank : Made(q)' = Made(q)
  BY <1>1 DEF Made
<1>8. \A q \in Rank : q # r => Crossed(q)' = Crossed(q)
  BY <1>1, <1>6, Elsewhere
<1>9. Types'
  BY <1>1, <1>6 DEF IInv, Types
<1>10. Progress'
  <2> SUFFICES ASSUME NEW q \in Rank
               PROVE  /\ Made(q) <= Calls
                      /\ pc'[q] = "idle" => Len(returned'[q]) = Made(q)
                      /\ pc'[q] # "idle" => Made(q) >= 1 /\ Len(returned'[q]) = Made(q) - 1
    BY <1>7 DEF Progress
  <2>1. CASE q = r
    <3>1. Len(returned'[r]) \in {Made(r), Made(r) - 1}
      BY <1>5, <1>7 DEF CollectiveInv, CallsOK, Made
    <3>2. returned'[r] = Append(returned[r], res[r]) /\ \E S : returned[r] \in Seq(S)
      BY <1>1 DEF IInv, CollectiveInv, CallsOK
    <3>3. Len(returned'[r]) = Made(r)
      BY <3>2, <1>2
    <3> QED
      BY <2>1, <3>3, <1>6 DEF IInv, Progress
  <2>2. CASE q # r
    BY <2>2, <1>6 DEF IInv, Progress
  <2> QED
    BY <2>1, <2>2
<1>11. InStep'
  <2>1. Crossed(r)' = Crossed(r) /\ Crossed(r) = gen
    BY <1>1, <1>6, <1>7 DEF IInv, InStep, Crossed
  <2> QED
    BY <2>1, <1>1, <1>6, <1>8 DEF IInv, InStep
<1>12. Counted'
  <2>1. Waiting' = Waiting
    BY <1>1, <1>6 DEF Waiting
  <2> QED
    BY <2>1, <1>1 DEF IInv, Counted
<1>13. SlotsLatest'
  BY <1>1, <1>7 DEF IInv, SlotsLatest
<1>14. Carried'
  <2>1. \A q \in Rank : Contributed(Made(q))' = Contributed(Made(q))
    BY <1>1, <1>7 DEF Contributed
  <2> QED
    BY <2>1, <1>1, <1>6, <1>7 DEF IInv, Carried
<1> QED
  BY <1>4, <1>5, <1>9, <1>10, <1>11, <1>12, <1>13, <1>14 DEF IInv

\* The initial states satisfy IInv.
LEMMA InitIInv ==
    ASSUME Init PROVE IInv
<1>1. \A r \in Rank : Made(r) = 0 /\ Len(returned[r]) = 0
  BY DEF Init, CollectiveInit, Made
<1>2. CollectiveInv
  BY <1>1 DEF Init, CollectiveInit, CollectiveInv, CallsOK, Agreed, Made
<1>3. Types
  BY ProgramsAssumption DEF Init, Types, Places
<1>4. Progress
  BY <1>1, ProgramsAssumption DEF Init, Progress
<1>5. InStep
  BY <1>1 DEF Init, InStep, Crossed
<1>6. Counted
  <2>1. Waiting = {}
    BY DEF Init, Waiting
  <2> QED
    BY <2>1, FS_EmptySet, CollectiveAssumption DEF Init, Counted
<1>7. SlotsLatest
  BY <1>1 DEF Init, SlotsLatest
<1>8. Carried
  BY DEF Init, Carried
<1> QED
  BY <1>2, <1>3, <1>4, <1>5, <1>6, <1>7, <1>8 DEF IInv

\* A step of a rank keeps IInv and is a step of Collective or none.
LEMMA RankStepKeeps ==
    ASSUME IInv, NEW r \in Rank, RankStep(r)
    PROVE  /\ IInv'
           /\ Invoke(r) \/ Respond(r) \/ UNCHANGED <<given, returned>>
<1>1. CASE Publish(r)
  BY <1>1, PublishKeeps
<1>2. CASE Arrive(r)
  <2>1. (count' = count + 1 /\ count + 1 < World) \/ count + 1 = World
    BY <1>2 DEF Arrive
  <2>2. IInv'
    BY <1>2, <2>1, WaitKeeps, OpenKeeps
  <2> QED
    BY <1>2, <2>2 DEF Arrive
<1>3. CASE Wake(r)
  <2>1. UNCHANGED <<given, returned>>
    BY <1>3 DEF Wake
  <2> QED
    BY <1>3, <2>1, WakeKeeps
<1>4. CASE Read(r)
  <2>1. UNCHANGED <<given, returned>>
    BY <1>4 DEF Read
  <2> QED
    BY <1>4, <2>1, ReadKeeps
<1>5. CASE Return(r)
  BY <1>5, ReturnKeeps
<1> QED
  BY <1>1, <1>2, <1>3, <1>4, <1>5 DEF RankStep

\* Nothing changes when nothing happens.
LEMMA StutterKeeps ==
    ASSUME IInv, UNCHANGED vars
    PROVE  IInv'
<1>1. UNCHANGED <<given, returned, program, slots, res, pc, count, gen, mine>>
  BY DEF vars, groupVars
<1>2. CollectiveInv'
  BY <1>1 DEF IInv, CollectiveInv, CallsOK, Agreed, Contributed
<1>3. Types'
  BY <1>1 DEF IInv, Types
<1>4. Progress'
  BY <1>1 DEF IInv, Progress, Made
<1>5. InStep'
  <2>1. \A q \in Rank : Crossed(q)' = Crossed(q)
    BY <1>1, Elsewhere
  <2> QED
    BY <1>1, <2>1 DEF IInv, InStep
<1>6. Counted'
  BY <1>1 DEF IInv, Counted, Waiting
<1>7. SlotsLatest'
  BY <1>1 DEF IInv, SlotsLatest, Made
<1>8. Carried'
  BY <1>1 DEF IInv, Carried, Contributed, Made
<1> QED
  BY <1>2, <1>3, <1>4, <1>5, <1>6, <1>7, <1>8 DEF IInv

\* IInv is an invariant of the process group.
THEOREM GroupInvariant == Spec => []IInv
<1>1. Init => IInv
  BY InitIInv
<1>2. IInv /\ [Next]_vars => IInv'
  BY RankStepKeeps, StutterKeeps DEF Next
<1> QED
  BY <1>1, <1>2, PTL DEF Spec

\* Type correctness: the slot of a rank holds its latest call, and the barrier
\* opens at most twice per collective.
THEOREM GroupTypes == Spec => []TypeOK
<1>1. IInv => TypeOK
  <2> SUFFICES ASSUME IInv PROVE TypeOK
    OBVIOUS
  <2>1. \A r \in Rank : slots[r].call = Len(given[r])
    BY DEF IInv, SlotsLatest, Made, Published
  <2>2. count \in 0..(World - 1)
    <3>1. count \in Nat /\ World \in Nat
      BY Ranks DEF IInv, Counted, Waiting
    <3> QED
      BY <3>1 DEF IInv, Counted
  <2>3. gen \in 0..(2 * Calls)
    <3>1. 0 \in Rank
      BY CollectiveAssumption DEF Rank
    <3>2. /\ Made(0) \in Nat /\ Made(0) <= Calls /\ Calls \in Nat /\ gen \in Nat
          /\ pc[0] \in Places
      BY <3>1, MadeNat, ProgramsAssumption DEF IInv, Progress, Types
    <3>3. \/ pc[0] \notin {"inFirst", "inSecond"} /\ Crossed(0) = gen
          \/ pc[0] \in {"inFirst", "inSecond"} /\ (Crossed(0) = gen \/ Crossed(0) = gen - 1)
      BY <3>1 DEF IInv, InStep
    <3> QED
      BY <3>2, <3>3 DEF Crossed, Places
  <2> QED
    BY <2>1, <2>2, <2>3 DEF IInv, CollectiveInv, CallsOK, Types, Places, TypeOK
<1> QED
  BY <1>1, GroupInvariant, PTL

-----------------------------------------------------------------------------
(* What the process group promises.                                         *)

\* The process group implements Collective: whatever the ranks call and however
\* their threads interleave, the n-th call of a rank meets the n-th call of
\* every other rank and returns what those calls alone determine.
THEOREM GroupImplementsCollective == Spec => CollectiveSpec
<1>1. Init => CollectiveInit
  BY DEF Init
<1>2. IInv /\ [Next]_vars => [\E r \in Rank : Invoke(r) \/ Respond(r)]_<<given, returned>>
  <2>1. ASSUME IInv, NEW r \in Rank, RankStep(r)
        PROVE  [\E q \in Rank : Invoke(q) \/ Respond(q)]_<<given, returned>>
    BY <2>1, RankStepKeeps
  <2>2. ASSUME UNCHANGED vars PROVE UNCHANGED <<given, returned>>
    BY <2>2 DEF vars
  <2> QED
    BY <2>1, <2>2 DEF Next
<1> QED
  BY <1>1, <1>2, GroupInvariant, PTL DEF Spec, CollectiveSpec

\* The outcomes of the same contributions, at two ranks: a disagreement on the
\* tag shows at both or at neither, an all_reduce gives both the same (the same
\* sum only, when they passed different ReduceOps), and so does an all_gather
\* that succeeds at both.
LEMMA OutcomeSymmetric ==
    ASSUME NEW seen \in Slots, NEW r \in Rank, NEW q \in Rank,
           NEW a \in Args, NEW b \in Args, NEW n,
           seen[r] = Published(a, n), seen[q] = Published(b, n)
    PROVE  LET x == Outcome(r, a, seen)
               y == Outcome(q, b, seen)
           IN  /\ x = Failed("mismatch") <=> y = Failed("mismatch")
               /\ a.tag = "all_reduce" =>
                     \/ x = y
                     \/ /\ a.op # b.op
                        /\ x.ok /\ y.ok /\ x.value = y.value
               /\ a.tag = "all_gather" /\ x.ok /\ y.ok => x = y
<1> DEFINE x == Outcome(r, a, seen)
           y == Outcome(q, b, seen)
<1>1. seen[r].tag = a.tag /\ seen[q].tag = b.tag /\ seen[r].len = a.len /\ seen[q].len = b.len
  BY DEF Published
<1>2. TagsAgree(r, a, seen) <=> TagsAgree(q, b, seen)
  BY <1>1 DEF TagsAgree
<1>3. TagsAgree(r, a, seen) => a.tag = b.tag
  BY <1>1 DEF TagsAgree
<1>4. /\ Failed("mismatch") # Failed("root") /\ Failed("mismatch") # Failed("length")
      /\ \A o : Got(Rank, seen, o).ok /\ Got(Rank, seen, o).value = [p \in Rank |-> seen[p].call]
      /\ ~Failed("length").ok
  BY DEF Failed, Got
<1>5. ASSUME NEW c, NEW p \in Rank
      PROVE  Outcome(p, c, seen) = Failed("mismatch") <=> ~TagsAgree(p, c, seen)
  <2>1. CASE ~TagsAgree(p, c, seen)
    BY <2>1 DEF Outcome
  <2>2. CASE TagsAgree(p, c, seen) /\ c.tag = "broadcast" /\ c.root >= World
    BY <2>2, <1>4 DEF Outcome
  <2>3. CASE TagsAgree(p, c, seen) /\ ~(c.tag = "broadcast" /\ c.root >= World)
             /\ ~LengthsAgree(p, c, seen)
    BY <2>3, <1>4 DEF Outcome
  <2>4. CASE TagsAgree(p, c, seen) /\ ~(c.tag = "broadcast" /\ c.root >= World)
             /\ LengthsAgree(p, c, seen)
    <3>1. Outcome(p, c, seen) = Got(IF c.tag = "broadcast" THEN {c.root} ELSE Rank, seen, c.op)
      BY <2>4 DEF Outcome
    <3>2. Got(IF c.tag = "broadcast" THEN {c.root} ELSE Rank, seen, c.op).ok
      BY DEF Got
    <3>3. ~Failed("mismatch").ok
      BY DEF Failed
    <3> QED
      BY <2>4, <3>1, <3>2, <3>3
  <2> QED
    BY <2>1, <2>2, <2>3, <2>4
<1>6. x = Failed("mismatch") <=> y = Failed("mismatch")
  BY <1>2, <1>5
<1>7. CASE ~TagsAgree(r, a, seen)
  <2>1. x = Failed("mismatch") /\ y = Failed("mismatch")
    BY <1>2, <1>5, <1>7
  <2> QED
    BY <2>1, <1>6
<1>8. CASE TagsAgree(r, a, seen)
  <2>1. a.tag = b.tag /\ TagsAgree(q, b, seen)
    BY <1>2, <1>3, <1>8
  <2>2. a.tag \in {"all_reduce", "all_gather"} =>
           /\ x = IF ~LengthsAgree(r, a, seen) THEN Failed("length") ELSE Got(Rank, seen, a.op)
           /\ y = IF ~LengthsAgree(q, b, seen) THEN Failed("length") ELSE Got(Rank, seen, b.op)
    BY <2>1, <1>8 DEF Outcome
  <2>3. ASSUME a.tag = "all_reduce"
        PROVE  x = y \/ (a.op # b.op /\ x.ok /\ y.ok /\ x.value = y.value)
    <3>1. LengthsAgree(r, a, seen) <=> \A p \in Rank : seen[p].len = a.len
      BY <2>3 DEF LengthsAgree
    <3>2. LengthsAgree(q, b, seen) <=> \A p \in Rank : seen[p].len = b.len
      BY <2>1, <2>3 DEF LengthsAgree
    <3>3. LengthsAgree(r, a, seen) <=> LengthsAgree(q, b, seen)
      BY <3>1, <3>2, <1>1
    <3>4. CASE ~LengthsAgree(r, a, seen)
      BY <2>2, <2>3, <3>3, <3>4
    <3>5. CASE LengthsAgree(r, a, seen)
      <4>1. x = Got(Rank, seen, a.op) /\ y = Got(Rank, seen, b.op)
        BY <2>2, <2>3, <3>3, <3>5
      <4> HIDE DEF x, y
      <4> QED
        BY <4>1, <1>4, Zenon
    <3> QED
      BY <3>4, <3>5
  <2>4. ASSUME a.tag = "all_gather", x.ok, y.ok PROVE x = y
    <3>1. a.op = "none" /\ b.op = "none"
      BY <2>1, <2>4, CollectiveAssumption
    <3> QED
      BY <2>2, <2>4, <3>1, <1>4
  <2> QED
    BY <1>6, <2>3, <2>4
<1> QED
  BY <1>7, <1>8

\* A disagreement on the collective is a clean error on every rank, never on
\* some only; an all_reduce gives every rank the same, up to the division by
\* ranks that passed another ReduceOp; ranks that succeed in an all_gather hold
\* the same result.
THEOREM GroupSymmetric == Spec => []Symmetric
<1>1. IInv => Symmetric
  <2> SUFFICES ASSUME IInv, NEW n \in 1..Calls, NEW r \in Rank, NEW q \in Rank,
                      n <= Len(returned[r]), n <= Len(returned[q])
               PROVE  LET x == returned[r][n]
                          y == returned[q][n]
                      IN  /\ x = Failed("mismatch") <=> y = Failed("mismatch")
                          /\ given[r][n].tag = "all_reduce" =>
                                \/ x = y
                                \/ /\ given[r][n].op # given[q][n].op
                                   /\ x.ok /\ y.ok /\ x.value = y.value
                          /\ given[r][n].tag = "all_gather" /\ x.ok /\ y.ok => x = y
    BY DEF Symmetric
  <2>1. /\ n \in Nat \ {0} /\ n \in 1..Len(returned[r]) /\ n \in 1..Len(returned[q])
        /\ given \in [Rank -> Seq(Args)]
    <3>1. returned[r] \in Seq(Results) /\ returned[q] \in Seq(Results)
          /\ given \in [Rank -> Seq(Args)]
      BY DEF IInv, CollectiveInv, CallsOK
    <3>2. Len(returned[r]) \in Nat /\ Len(returned[q]) \in Nat
      BY <3>1, LenProperties
    <3> QED
      BY <3>1, <3>2, ProgramsAssumption
  <2>2. /\ \A p \in Rank : n <= Len(given[p])
        /\ returned[r][n] = Outcome(r, given[r][n], Contributed(n))
        /\ returned[q][n] = Outcome(q, given[q][n], Contributed(n))
    BY <2>1 DEF IInv, CollectiveInv, Agreed
  <2>3. Contributed(n) \in Slots
    BY <2>1, <2>2, ContributedType
  <2>4. /\ Contributed(n)[r] = Published(given[r][n], n)
        /\ Contributed(n)[q] = Published(given[q][n], n)
    BY DEF Contributed
  <2>5. LET x == Outcome(r, given[r][n], Contributed(n))
            y == Outcome(q, given[q][n], Contributed(n))
        IN  /\ x = Failed("mismatch") <=> y = Failed("mismatch")
            /\ given[r][n].tag = "all_reduce" =>
                  \/ x = y
                  \/ /\ given[r][n].op # given[q][n].op
                     /\ x.ok /\ y.ok /\ x.value = y.value
            /\ given[r][n].tag = "all_gather" /\ x.ok /\ y.ok => x = y
    <3>1. given[r][n] \in Args /\ given[q][n] \in Args
      BY <2>1, <2>2, ContributedType
    <3>2. PICK a \in Args : a = given[r][n]
      BY <3>1, Zenon
    <3>3. PICK b \in Args : b = given[q][n]
      BY <3>1, Zenon
    <3>4. PICK seen \in Slots : seen = Contributed(n)
      BY <2>3, Zenon
    <3>5. seen[r] = Published(a, n) /\ seen[q] = Published(b, n)
      BY <2>4, <3>2, <3>3, <3>4, Zenon
    <3>6. LET x == Outcome(r, a, seen)
              y == Outcome(q, b, seen)
          IN  /\ x = Failed("mismatch") <=> y = Failed("mismatch")
              /\ a.tag = "all_reduce" =>
                    \/ x = y
                    \/ /\ a.op # b.op
                       /\ x.ok /\ y.ok /\ x.value = y.value
              /\ a.tag = "all_gather" /\ x.ok /\ y.ok => x = y
      BY <3>5, OutcomeSymmetric
    <3> QED
      BY <3>2, <3>3, <3>4, <3>6, Zenon
  <2> QED
    BY <2>2, <2>5, Zenon
<1> QED
  BY <1>1, GroupInvariant, PTL

\* The guards of the steps of rank r.
CanStep(r) ==
    \/ pc[r] = "idle" /\ Made(r) + 1 <= Calls
    \/ pc[r] \in {"first", "second"} /\ (count + 1 < World \/ count + 1 = World)
    \/ pc[r] \in {"inFirst", "inSecond"} /\ mine[r] # gen
    \/ pc[r] \in {"read", "return"}

\* While a call of some rank is outstanding, some rank can move.
NoneStranded ==
    (\E r \in Rank : Len(returned[r]) # Calls) => \E r \in Rank : CanStep(r)

\* The two barriers of a collective strand no rank: not when the ranks disagree
\* and some fail, and not when a fast rank is already in the next collective.
THEOREM NeverStranded == Spec => []NoneStranded
<1>1. IInv => NoneStranded
  <2> SUFFICES ASSUME IInv, NEW d \in Rank, Len(returned[d]) # Calls,
                      \A r \in Rank : ~CanStep(r)
               PROVE  FALSE
    BY DEF NoneStranded
  <2>1. /\ count \in Nat /\ count < World /\ World \in Nat /\ gen \in Nat /\ Calls \in Nat
        /\ \A r \in Rank : Made(r) \in Nat /\ Made(r) <= Calls /\ pc[r] \in Places
    <3>1. \A r \in Rank : Made(r) \in Nat /\ Made(r) <= Calls /\ pc[r] \in Places
      BY MadeNat DEF IInv, Progress
    <3>2. count \in Nat
      BY Ranks DEF IInv, Counted, Waiting
    <3> QED
      BY <3>1, <3>2, Ranks, ProgramsAssumption DEF IInv, Counted, Types
  <2>2. \A r \in Rank : r \in Waiting \/ (pc[r] = "idle" /\ Made(r) = Calls)
    <3> SUFFICES ASSUME NEW r \in Rank, r \notin Waiting
                 PROVE  pc[r] = "idle" /\ Made(r) = Calls
      OBVIOUS
    <3>1. ~CanStep(r) /\ Made(r) \in Nat /\ Made(r) <= Calls /\ pc[r] \in Places
      BY <2>1
    <3>2. count + 1 < World \/ count + 1 = World
      BY <2>1
    <3>3. pc[r] \notin {"inFirst", "inSecond"} \/ mine[r] # gen
      BY DEF Waiting
    <3>4. pc[r] = "idle"
      BY <3>1, <3>2, <3>3 DEF CanStep, Places
    <3>5. Made(r) = Calls
      BY <3>1, <3>4, <2>1 DEF CanStep
    <3> QED
      BY <3>4, <3>5
  <2>3. PICK s \in Rank : s \notin Waiting
    <3>1. CASE \A s \in Rank : s \in Waiting
      <4>1. Waiting = Rank
        BY <3>1 DEF Waiting
      <4> QED
        BY <4>1, <2>1, Ranks DEF IInv, Counted
    <3> QED
      BY <3>1
  <2>4. gen = 2 * Calls
    <3>1. pc[s] = "idle" /\ Made(s) = Calls
      BY <2>2, <2>3
    <3> QED
      BY <3>1 DEF IInv, InStep, Crossed
  <2>5. d \notin Waiting
    <3> SUFFICES ASSUME d \in Waiting PROVE FALSE
      OBVIOUS
    <3>1. pc[d] \in {"inFirst", "inSecond"} /\ mine[d] = gen
      BY DEF Waiting
    <3>2. Crossed(d) = gen
      BY <3>1 DEF IInv, InStep
    <3>3. Made(d) \in Nat /\ Made(d) <= Calls
      BY <2>1
    <3> QED
      BY <3>1, <3>2, <3>3, <2>1, <2>4 DEF Crossed
  <2>6. Len(returned[d]) = Calls
    BY <2>2, <2>5 DEF IInv, Progress
  <2> QED
    BY <2>6
<1> QED
  BY <1>1, GroupInvariant, PTL

=============================================================================
