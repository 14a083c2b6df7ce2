--------------------------- MODULE PagePoolProofs ---------------------------
(***************************************************************************)
(* For every pool size, page size, context window and set of rows: no page *)
(* is mapped twice, none is lost, and a live mapping never moves.          *)
(***************************************************************************)
EXTENDS PagePool, TLAPS

\* A page at two places of an injective list is at one place.
LEMMA SamePlace ==
    ASSUME NEW s, Injective(s), NEW i \in 1..Len(s), NEW j \in 1..Len(s), s[i] = s[j]
    PROVE  i = j
  BY DEF Injective

\* Two disjoint lists share no page, wherever one looks.
LEMMA NoShared ==
    ASSUME NEW s, NEW t, Disjoint(s, t), NEW i \in 1..Len(s), NEW j \in 1..Len(t)
    PROVE  s[i] # t[j]
  BY DEF Disjoint

\* Popping d pages onto a row: the old entries stay, the new ones come off the
\* top of the stack.
LEMMA PoppedFacts ==
    ASSUME NEW row \in Seq(Page), NEW stack \in Seq(Page), NEW d \in Nat, d <= Len(stack)
    PROVE  /\ Popped(row, stack, d) \in Seq(Page)
           /\ Len(Popped(row, stack, d)) = Len(row) + d
           /\ \A i \in 1..Len(row) : Popped(row, stack, d)[i] = row[i]
           /\ \A i \in 1..(Len(row) + d) : i > Len(row) =>
                 /\ Len(stack) + 1 + Len(row) - i \in (Len(stack) - d + 1)..Len(stack)
                 /\ Popped(row, stack, d)[i] = stack[Len(stack) + 1 + Len(row) - i]
<1> DEFINE e == Popped(row, stack, d)
<1>1. Len(row) \in Nat /\ Len(stack) \in Nat
  OBVIOUS
<1>2. ASSUME NEW i \in 1..(Len(row) + d), i > Len(row)
      PROVE  Len(stack) + 1 + Len(row) - i \in (Len(stack) - d + 1)..Len(stack)
  BY <1>1, <1>2
<1>3. \A i \in 1..(Len(row) + d) : i > Len(row) => Len(stack) + 1 + Len(row) - i \in 1..Len(stack)
  BY <1>1, <1>2
<1>4. e \in [1..(Len(row) + d) -> Page]
  <2> SUFFICES ASSUME NEW i \in 1..(Len(row) + d)
        PROVE (IF i <= Len(row) THEN row[i] ELSE stack[Len(stack) + 1 + Len(row) - i]) \in Page
    BY DEF Popped
  <2>1. CASE i <= Len(row)
    BY <2>1, <1>1
  <2>2. CASE i > Len(row)
    BY <2>2, <1>1, <1>3
  <2> QED BY <2>1, <2>2, <1>1
<1>5. e \in Seq(Page) /\ Len(e) = Len(row) + d
  BY <1>4, <1>1
<1>6. \A i \in 1..Len(row) : e[i] = row[i]
  BY <1>1 DEF Popped
<1>7. \A i \in 1..(Len(row) + d) : i > Len(row) => e[i] = stack[Len(stack) + 1 + Len(row) - i]
  BY <1>1 DEF Popped
<1> QED
  BY <1>2, <1>5, <1>6, <1>7

\* Popping never duplicates a page, within the row or against the rest of the stack.
LEMMA PoppedExclusive ==
    ASSUME NEW row \in Seq(Page), NEW stack \in Seq(Page), NEW d \in Nat, d <= Len(stack),
           Injective(stack), Injective(row), Disjoint(stack, row)
    PROVE  LET rest == SubSeq(stack, 1, Len(stack) - d)
               new  == Popped(row, stack, d)
           IN  Injective(rest) /\ Injective(new) /\ Disjoint(rest, new)
<1> DEFINE rest == SubSeq(stack, 1, Len(stack) - d)
           new  == Popped(row, stack, d)
           At(i) == Len(stack) + 1 + Len(row) - i
<1>1. Len(row) \in Nat /\ Len(stack) \in Nat
  OBVIOUS
<1>2. /\ Len(rest) = Len(stack) - d
      /\ \A i \in 1..(Len(stack) - d) : rest[i] = stack[i]
  BY <1>1
<1>3. /\ Len(new) = Len(row) + d
      /\ \A i \in 1..Len(row) : new[i] = row[i]
      /\ \A i \in 1..(Len(row) + d) : i > Len(row) =>
            /\ At(i) \in (Len(stack) - d + 1)..Len(stack)
            /\ new[i] = stack[At(i)]
  BY PoppedFacts
<1> HIDE DEF rest, new
<1>4. \A i \in 1..(Len(row) + d) : i > Len(row) =>
         At(i) \in 1..Len(stack) /\ new[i] = stack[At(i)]
  BY <1>1, <1>3
<1>5. Injective(rest)
  <2> SUFFICES ASSUME NEW i \in 1..(Len(stack) - d), NEW j \in 1..(Len(stack) - d),
                      rest[i] = rest[j]
               PROVE  i = j
    BY <1>2 DEF Injective
  <2>1. i \in 1..Len(stack) /\ j \in 1..Len(stack)
    BY <1>1
  <2>2. stack[i] = stack[j]
    BY <1>2
  <2> QED
    BY <2>1, <2>2, SamePlace
<1>6. Injective(new)
  <2> SUFFICES ASSUME NEW i \in 1..(Len(row) + d), NEW j \in 1..(Len(row) + d), new[i] = new[j]
               PROVE  i = j
    BY <1>3 DEF Injective
  <2>1. CASE i <= Len(row) /\ j <= Len(row)
    <3>1. i \in 1..Len(row) /\ j \in 1..Len(row)
      BY <2>1, <1>1
    <3>2. row[i] = row[j]
      BY <3>1, <1>3
    <3> QED
      BY <3>1, <3>2, SamePlace
  <2>2. CASE i > Len(row) /\ j > Len(row)
    <3>1. At(i) \in 1..Len(stack) /\ new[i] = stack[At(i)]
      BY <2>2, <1>4
    <3>2. At(j) \in 1..Len(stack) /\ new[j] = stack[At(j)]
      BY <2>2, <1>4
    <3> HIDE DEF At
    <3>3. At(i) = At(j)
      BY <3>1, <3>2, SamePlace
    <3> QED
      BY <3>3, <1>1 DEF At
  <2>3. CASE i <= Len(row) /\ j > Len(row)
    <3>1. At(j) \in 1..Len(stack) /\ new[j] = stack[At(j)]
      BY <2>3, <1>4
    <3>2. i \in 1..Len(row)
      BY <2>3, <1>1
    <3>3. new[i] = row[i]
      BY <3>2, <1>3
    <3> HIDE DEF At
    <3> QED
      BY <3>1, <3>2, <3>3, NoShared
  <2>4. CASE i > Len(row) /\ j <= Len(row)
    <3>1. At(i) \in 1..Len(stack) /\ new[i] = stack[At(i)]
      BY <2>4, <1>4
    <3>2. j \in 1..Len(row)
      BY <2>4, <1>1
    <3>3. new[j] = row[j]
      BY <3>2, <1>3
    <3> HIDE DEF At
    <3> QED
      BY <3>1, <3>2, <3>3, NoShared
  <2> QED
    BY <2>1, <2>2, <2>3, <2>4, <1>1
<1>7. Disjoint(rest, new)
  <2> SUFFICES ASSUME NEW i \in 1..(Len(stack) - d), NEW j \in 1..(Len(row) + d)
               PROVE  stack[i] # new[j]
    BY <1>2, <1>3 DEF Disjoint
  <2>1. i \in 1..Len(stack)
    BY <1>1
  <2>2. CASE j <= Len(row)
    <3>1. j \in 1..Len(row)
      BY <2>2, <1>1
    <3>2. new[j] = row[j]
      BY <3>1, <1>3
    <3> QED
      BY <2>1, <3>1, <3>2, NoShared
  <2>3. CASE j > Len(row)
    <3>1. At(j) # i
      BY <2>3, <1>1, <1>3
    <3>2. At(j) \in 1..Len(stack) /\ new[j] = stack[At(j)]
      BY <2>3, <1>4
    <3> HIDE DEF At
    <3> QED
      BY <2>1, <3>1, <3>2, SamePlace
  <2> QED
    BY <2>2, <2>3, <1>1
<1> QED
  BY <1>5, <1>6, <1>7 DEF rest, new

\* Popping takes nothing that belongs to another row.
LEMMA PoppedKeepsApart ==
    ASSUME NEW row \in Seq(Page), NEW stack \in Seq(Page), NEW d \in Nat, d <= Len(stack),
           NEW other \in Seq(Page), Disjoint(stack, other), Disjoint(row, other)
    PROVE  /\ Disjoint(SubSeq(stack, 1, Len(stack) - d), other)
           /\ Disjoint(Popped(row, stack, d), other)
<1> DEFINE rest == SubSeq(stack, 1, Len(stack) - d)
           new  == Popped(row, stack, d)
           At(i) == Len(stack) + 1 + Len(row) - i
<1>1. Len(row) \in Nat /\ Len(stack) \in Nat
  OBVIOUS
<1>2. /\ Len(rest) = Len(stack) - d
      /\ \A i \in 1..(Len(stack) - d) : rest[i] = stack[i]
  BY <1>1
<1>3. /\ Len(new) = Len(row) + d
      /\ \A i \in 1..Len(row) : new[i] = row[i]
      /\ \A i \in 1..(Len(row) + d) : i > Len(row) =>
            /\ At(i) \in (Len(stack) - d + 1)..Len(stack)
            /\ new[i] = stack[At(i)]
  BY PoppedFacts
<1> HIDE DEF rest, new
<1>4. Disjoint(rest, other)
  <2> SUFFICES ASSUME NEW i \in 1..(Len(stack) - d), NEW j \in 1..Len(other)
               PROVE  rest[i] # other[j]
    BY <1>2 DEF Disjoint
  <2>1. i \in 1..Len(stack)
    BY <1>1
  <2>2. rest[i] = stack[i]
    BY <1>2
  <2> QED
    BY <2>1, <2>2, NoShared
<1>5. Disjoint(new, other)
  <2> SUFFICES ASSUME NEW i \in 1..(Len(row) + d), NEW j \in 1..Len(other)
               PROVE  new[i] # other[j]
    BY <1>3 DEF Disjoint
  <2>1. CASE i <= Len(row)
    <3>1. i \in 1..Len(row)
      BY <2>1, <1>1
    <3>2. new[i] = row[i]
      BY <3>1, <1>3
    <3> QED
      BY <3>1, <3>2, NoShared
  <2>2. CASE i > Len(row)
    <3>1. At(i) \in (Len(stack) - d + 1)..Len(stack) /\ new[i] = stack[At(i)]
      BY <2>2, <1>3
    <3>2. At(i) \in 1..Len(stack)
      BY <3>1, <1>1
    <3> HIDE DEF At
    <3> QED
      BY <3>1, <3>2, NoShared
  <2> QED
    BY <2>1, <2>2, <1>1
<1> QED
  BY <1>4, <1>5 DEF rest, new

\* Pushing a row back on the stack duplicates nothing.
LEMMA PushedExclusive ==
    ASSUME NEW row \in Seq(Page), NEW stack \in Seq(Page),
           Injective(stack), Injective(row), Disjoint(stack, row)
    PROVE  Injective(stack \o row)
<1> DEFINE all == stack \o row
<1>1. /\ Len(row) \in Nat /\ Len(stack) \in Nat
      /\ Len(all) = Len(stack) + Len(row)
  OBVIOUS
<1>2. \A i \in 1..(Len(stack) + Len(row)) :
         /\ i <= Len(stack) => all[i] = stack[i]
         /\ i > Len(stack) => all[i] = row[i - Len(stack)] /\ i - Len(stack) \in 1..Len(row)
  BY <1>1
<1> HIDE DEF all
<1> SUFFICES ASSUME NEW i \in 1..(Len(stack) + Len(row)), NEW j \in 1..(Len(stack) + Len(row)),
                    all[i] = all[j]
             PROVE  i = j
  BY <1>1 DEF Injective, all
<1>3. CASE i <= Len(stack) /\ j <= Len(stack)
  <2>1. i \in 1..Len(stack) /\ j \in 1..Len(stack)
    BY <1>1, <1>3
  <2>2. stack[i] = stack[j]
    BY <1>2, <1>3
  <2> QED
    BY <2>1, <2>2, SamePlace
<1>4. CASE i > Len(stack) /\ j > Len(stack)
  <2> DEFINE x == i - Len(stack)
             y == j - Len(stack)
  <2>1. all[i] = row[x] /\ x \in 1..Len(row)
    BY <1>2, <1>4
  <2>2. all[j] = row[y] /\ y \in 1..Len(row)
    BY <1>2, <1>4
  <2> HIDE DEF x, y
  <2>3. x = y
    BY <2>1, <2>2, SamePlace
  <2> QED
    BY <2>3, <1>1 DEF x, y
<1>5. CASE i <= Len(stack) /\ j > Len(stack)
  <2> DEFINE y == j - Len(stack)
  <2>1. all[i] = stack[i] /\ i \in 1..Len(stack)
    BY <1>1, <1>2, <1>5
  <2>2. all[j] = row[y] /\ y \in 1..Len(row)
    BY <1>2, <1>5
  <2> HIDE DEF y
  <2> QED
    BY <2>1, <2>2, NoShared
<1>6. CASE i > Len(stack) /\ j <= Len(stack)
  <2> DEFINE x == i - Len(stack)
  <2>1. all[j] = stack[j] /\ j \in 1..Len(stack)
    BY <1>1, <1>2, <1>6
  <2>2. all[i] = row[x] /\ x \in 1..Len(row)
    BY <1>2, <1>6
  <2> HIDE DEF x
  <2> QED
    BY <2>1, <2>2, NoShared
<1> QED
  BY <1>1, <1>3, <1>4, <1>5, <1>6

\* Pushing a row back takes nothing that belongs to another row.
LEMMA PushedKeepsApart ==
    ASSUME NEW row \in Seq(Page), NEW stack \in Seq(Page), NEW other \in Seq(Page),
           Disjoint(stack, other), Disjoint(row, other)
    PROVE  Disjoint(stack \o row, other)
<1> DEFINE all == stack \o row
<1>1. /\ Len(row) \in Nat /\ Len(stack) \in Nat
      /\ Len(all) = Len(stack) + Len(row)
  OBVIOUS
<1>2. \A i \in 1..(Len(stack) + Len(row)) :
         /\ i <= Len(stack) => all[i] = stack[i]
         /\ i > Len(stack) => all[i] = row[i - Len(stack)] /\ i - Len(stack) \in 1..Len(row)
  BY <1>1
<1> HIDE DEF all
<1> SUFFICES ASSUME NEW i \in 1..(Len(stack) + Len(row)), NEW j \in 1..Len(other)
             PROVE  all[i] # other[j]
  BY <1>1 DEF Disjoint, all
<1>3. CASE i <= Len(stack)
  <2>1. all[i] = stack[i] /\ i \in 1..Len(stack)
    BY <1>1, <1>2, <1>3
  <2> QED
    BY <2>1, NoShared
<1>4. CASE i > Len(stack)
  <2> DEFINE x == i - Len(stack)
  <2>1. all[i] = row[x] /\ x \in 1..Len(row)
    BY <1>2, <1>4
  <2> HIDE DEF x
  <2> QED
    BY <2>1, NoShared
<1> QED
  BY <1>1, <1>3, <1>4

\* Popping loses no page of the stack and none of the row.
LEMMA PoppedCovers ==
    ASSUME NEW row \in Seq(Page), NEW stack \in Seq(Page), NEW d \in Nat, d <= Len(stack), NEW p
    PROVE  LET rest == SubSeq(stack, 1, Len(stack) - d)
               new  == Popped(row, stack, d)
           IN  /\ Holds(stack, p) => Holds(rest, p) \/ Holds(new, p)
               /\ Holds(row, p) => Holds(new, p)
<1> DEFINE rest == SubSeq(stack, 1, Len(stack) - d)
           new  == Popped(row, stack, d)
<1>1. Len(row) \in Nat /\ Len(stack) \in Nat
  OBVIOUS
<1>2. /\ Len(rest) = Len(stack) - d
      /\ \A i \in 1..(Len(stack) - d) : rest[i] = stack[i]
  BY <1>1
<1>3. /\ Len(new) = Len(row) + d
      /\ \A i \in 1..Len(row) : new[i] = row[i]
      /\ \A i \in 1..(Len(row) + d) : i > Len(row) => new[i] = stack[Len(stack) + 1 + Len(row) - i]
  BY PoppedFacts
<1> HIDE DEF rest, new
<1>4. ASSUME NEW i \in 1..Len(stack)
      PROVE  \/ \E j \in 1..Len(rest) : rest[j] = stack[i]
             \/ \E j \in 1..Len(new) : new[j] = stack[i]
  <2>1. CASE i <= Len(stack) - d
    BY <2>1, <1>1, <1>2
  <2>2. CASE i > Len(stack) - d
    <3> DEFINE j == Len(stack) + 1 + Len(row) - i
    <3>1. j \in 1..(Len(row) + d) /\ j > Len(row) /\ Len(stack) + 1 + Len(row) - j = i
      BY <2>2, <1>1
    <3> HIDE DEF j
    <3> QED
      BY <3>1, <1>3
  <2> QED
    BY <2>1, <2>2, <1>1
<1>5. ASSUME NEW i \in 1..Len(row) PROVE \E j \in 1..Len(new) : new[j] = row[i]
  BY <1>1, <1>3
<1> QED
  BY <1>4, <1>5 DEF rest, new, Holds

\* Pushing a row back loses no page of the stack and none of the row.
LEMMA PushedCovers ==
    ASSUME NEW row \in Seq(Page), NEW stack \in Seq(Page), NEW p,
           Holds(stack, p) \/ Holds(row, p)
    PROVE  Holds(stack \o row, p)
<1> DEFINE all == stack \o row
<1>1. /\ Len(row) \in Nat /\ Len(stack) \in Nat
      /\ Len(all) = Len(stack) + Len(row)
  OBVIOUS
<1>2. ASSUME NEW i \in 1..Len(stack) PROVE \E j \in 1..Len(all) : all[j] = stack[i]
  BY <1>1
<1>3. ASSUME NEW i \in 1..Len(row) PROVE \E j \in 1..Len(all) : all[j] = row[i]
  <2>1. Len(stack) + i \in 1..Len(all) /\ all[Len(stack) + i] = row[i]
    BY <1>1
  <2> QED
    BY <2>1
<1> QED
  BY <1>2, <1>3 DEF Holds

\* The pages a reservation draws are a natural number of pages on the stack.
LEMMA DeltaNat ==
    ASSUME TypeOK, NEW r \in Rows, NEW tokens \in 0..MaxCtx
    PROVE  Delta(r, tokens) \in Nat
<1>1. PagesFor(tokens) \in Int
  BY PoolAssumption DEF PagesFor
<1>2. Len(table[r]) \in Nat
  BY DEF TypeOK
<1> QED
  BY <1>1, <1>2 DEF Delta

(***************************************************************************)
(* The allocator's state keeps its shape: reserve_pages and release_pages  *)
(* only ever move page ids of the pool.                                    *)
(***************************************************************************)
THEOREM TypeCorrect == Spec => []TypeOK
<1>1. Init => TypeOK
  <2> SUFFICES ASSUME Init PROVE TypeOK OBVIOUS
  <2>1. free \in [1..PoolPages -> Page]
    BY PoolAssumption DEF Init, Page
  <2> QED
    BY <2>1, PoolAssumption DEF Init, TypeOK
<1>2. TypeOK /\ [Next]_vars => TypeOK'
  <2> SUFFICES ASSUME TypeOK, [Next]_vars PROVE TypeOK' OBVIOUS
  <2>1. ASSUME NEW r \in Rows, NEW tokens \in 0..MaxCtx, ReservePages(r, tokens)
        PROVE  TypeOK'
    <3> DEFINE d == Delta(r, tokens)
    <3>1. d \in Nat /\ d <= Len(free) /\ free \in Seq(Page) /\ table[r] \in Seq(Page)
      BY <2>1, DeltaNat DEF ReservePages, TypeOK
    <3> HIDE DEF d
    <3>2. Popped(table[r], free, d) \in Seq(Page)
      BY <3>1, PoppedFacts
    <3>3. SubSeq(free, 1, Len(free) - d) \in Seq(Page)
      BY <3>1
    <3> QED
      BY <2>1, <3>2, <3>3 DEF ReservePages, TypeOK, d
  <2>2. ASSUME NEW r \in Rows, ReleasePages(r) PROVE TypeOK'
    BY <2>2 DEF ReleasePages, TypeOK
  <2>3. CASE UNCHANGED vars
    BY <2>3 DEF vars, TypeOK
  <2> QED
    BY <2>1, <2>2, <2>3 DEF Next
<1> QED
  BY <1>1, <1>2, PTL DEF Spec

\* Disjointness of two rows reads the same from either row.
LEMMA DisjointSym ==
    ASSUME NEW s, NEW t, Disjoint(s, t)
    PROVE  Disjoint(t, s)
BY DEF Disjoint

(***************************************************************************)
(* No physical KV page is ever mapped twice or mapped while free, for any  *)
(* interleaving of reserve_pages and release_pages over any pool.          *)
(***************************************************************************)
THEOREM ExclusiveAlways == Spec => []PagesExclusive
<1>1. Init => PagesExclusive
  <2> SUFFICES ASSUME Init PROVE PagesExclusive OBVIOUS
  <2>1. Len(free) = PoolPages /\ \A i \in 1..PoolPages : free[i] = PoolPages - i
    BY PoolAssumption DEF Init
  <2>2. Injective(free)
    BY <2>1, PoolAssumption DEF Injective
  <2>3. \A r \in Rows : table[r] = << >> /\ Len(table[r]) = 0
    BY DEF Init
  <2>4. \A r \in Rows : Injective(table[r]) /\ \A s : Disjoint(s, table[r])
    <3>1. 1..0 = {}
      OBVIOUS
    <3> QED
      BY <2>3, <3>1, Zenon DEF Injective, Disjoint
  <2> QED
    BY <2>2, <2>4 DEF PagesExclusive
<1>2. TypeOK /\ PagesExclusive /\ [Next]_vars => PagesExclusive'
  <2> SUFFICES ASSUME TypeOK, PagesExclusive, [Next]_vars PROVE PagesExclusive' OBVIOUS
  <2>1. ASSUME NEW r \in Rows, NEW tokens \in 0..MaxCtx, ReservePages(r, tokens)
        PROVE  PagesExclusive'
    <3> DEFINE d == Delta(r, tokens)
    <3>1. d \in Nat /\ d <= Len(free) /\ free \in Seq(Page) /\ table[r] \in Seq(Page)
      BY <2>1, DeltaNat DEF ReservePages, TypeOK
    <3>2. /\ free' = SubSeq(free, 1, Len(free) - d)
          /\ table'[r] = Popped(table[r], free, d)
          /\ \A q \in Rows : q # r => table'[q] = table[q]
      BY <2>1 DEF ReservePages, TypeOK
    <3> HIDE DEF d
    <3>3. Injective(free') /\ Injective(table'[r]) /\ Disjoint(free', table'[r])
      BY <3>1, <3>2, PoppedExclusive DEF PagesExclusive
    <3>4. ASSUME NEW q \in Rows, q # r
          PROVE  /\ Injective(table'[q]) /\ Disjoint(free', table'[q])
                 /\ Disjoint(table'[r], table'[q]) /\ Disjoint(table'[q], table'[r])
      <4>1. table[q] \in Seq(Page) /\ Disjoint(free, table[q]) /\ Disjoint(table[r], table[q])
        BY <3>4 DEF TypeOK, PagesExclusive
      <4>2. Disjoint(free', table[q]) /\ Disjoint(table'[r], table[q])
        BY <3>1, <3>2, <4>1, PoppedKeepsApart
      <4> QED
        BY <3>2, <3>4, <4>2, DisjointSym DEF PagesExclusive
    <3>5. ASSUME NEW q \in Rows, NEW p \in Rows, q # r, p # r, q # p
          PROVE  Disjoint(table'[q], table'[p])
      BY <3>2, <3>5 DEF PagesExclusive
    <3> QED
      BY <3>3, <3>4, <3>5 DEF PagesExclusive
  <2>2. ASSUME NEW r \in Rows, ReleasePages(r) PROVE PagesExclusive'
    <3>1. free \in Seq(Page) /\ table[r] \in Seq(Page)
      BY DEF TypeOK
    <3>2. /\ free' = free \o table[r]
          /\ table'[r] = << >>
          /\ \A q \in Rows : q # r => table'[q] = table[q]
      BY <2>2 DEF ReleasePages, TypeOK
    <3>3. Injective(free')
      BY <3>1, <3>2, PushedExclusive DEF PagesExclusive
    <3>4. /\ Injective(table'[r]) /\ Disjoint(free', table'[r])
          /\ \A s : Disjoint(table'[r], s) /\ Disjoint(s, table'[r])
      BY <3>2 DEF Injective, Disjoint
    <3>5. ASSUME NEW q \in Rows, q # r
          PROVE  Injective(table'[q]) /\ Disjoint(free', table'[q])
      <4>1. table[q] \in Seq(Page) /\ Disjoint(free, table[q]) /\ Disjoint(table[r], table[q])
        BY <3>5 DEF TypeOK, PagesExclusive
      <4>2. Disjoint(free', table[q])
        BY <3>1, <3>2, <4>1, PushedKeepsApart
      <4> QED
        BY <3>2, <3>5, <4>2 DEF PagesExclusive
    <3>6. ASSUME NEW q \in Rows, NEW p \in Rows, q # r, p # r, q # p
          PROVE  Disjoint(table'[q], table'[p])
      BY <3>2, <3>6 DEF PagesExclusive
    <3> QED
      BY <3>3, <3>4, <3>5, <3>6 DEF PagesExclusive
  <2>3. CASE UNCHANGED vars
    BY <2>3 DEF vars, PagesExclusive, Injective, Disjoint
  <2> QED
    BY <2>1, <2>2, <2>3 DEF Next
<1> QED
  BY <1>1, <1>2, TypeCorrect, PTL DEF Spec

(***************************************************************************)
(* No page leaks: every page stays reachable from the free stack or from a *)
(* row, so retirement restores the capacity that admission consumed.       *)
(***************************************************************************)
THEOREM NoLeak == Spec => []NoPageLost
<1>1. Init => NoPageLost
  <2> SUFFICES ASSUME Init, NEW p \in Page
               PROVE  Holds(free, p)
    BY DEF NoPageLost
  <2>1. Len(free) = PoolPages /\ \A i \in 1..PoolPages : free[i] = PoolPages - i
    BY PoolAssumption DEF Init
  <2>2. PoolPages - p \in 1..PoolPages /\ free[PoolPages - p] = p
    BY <2>1, PoolAssumption DEF Page
  <2> QED
    BY <2>1, <2>2 DEF Holds
<1>2. TypeOK /\ NoPageLost /\ [Next]_vars => NoPageLost'
  <2> SUFFICES ASSUME TypeOK, NoPageLost, [Next]_vars, NEW p \in Page
               PROVE  Holds(free', p) \/ \E q \in Rows : Holds(table'[q], p)
    BY DEF NoPageLost, Page
  <2>0. Holds(free, p) \/ \E q \in Rows : Holds(table[q], p)
    BY DEF NoPageLost
  <2>1. ASSUME NEW r \in Rows, NEW tokens \in 0..MaxCtx, ReservePages(r, tokens)
        PROVE  Holds(free', p) \/ \E q \in Rows : Holds(table'[q], p)
    <3> DEFINE d == Delta(r, tokens)
    <3>1. d \in Nat /\ d <= Len(free) /\ free \in Seq(Page) /\ table[r] \in Seq(Page)
      BY <2>1, DeltaNat DEF ReservePages, TypeOK
    <3>2. /\ free' = SubSeq(free, 1, Len(free) - d)
          /\ table'[r] = Popped(table[r], free, d)
          /\ \A q \in Rows : q # r => table'[q] = table[q]
      BY <2>1 DEF ReservePages, TypeOK
    <3> HIDE DEF d
    <3>3. Holds(free, p) => Holds(free', p) \/ Holds(table'[r], p)
      BY <3>1, <3>2, PoppedCovers
    <3>4. Holds(table[r], p) => Holds(table'[r], p)
      BY <3>1, <3>2, PoppedCovers
    <3> QED
      BY <2>0, <3>2, <3>3, <3>4
  <2>2. ASSUME NEW r \in Rows, ReleasePages(r)
        PROVE  Holds(free', p) \/ \E q \in Rows : Holds(table'[q], p)
    <3>1. free \in Seq(Page) /\ table[r] \in Seq(Page)
      BY DEF TypeOK
    <3>2. /\ free' = free \o table[r]
          /\ \A q \in Rows : q # r => table'[q] = table[q]
      BY <2>2 DEF ReleasePages, TypeOK
    <3>3. Holds(free, p) \/ Holds(table[r], p) => Holds(free', p)
      BY <3>1, <3>2, PushedCovers
    <3> QED
      BY <2>0, <3>2, <3>3
  <2>3. CASE UNCHANGED vars
    BY <2>0, <2>3 DEF vars, Holds
  <2> QED
    BY <2>1, <2>2, <2>3 DEF Next
<1> QED
  BY <1>1, <1>2, TypeCorrect, PTL DEF Spec

(***************************************************************************)
(* A mapping never moves under a row: reserve_pages only appends to it and *)
(* release_pages drops it whole.                                           *)
(***************************************************************************)
THEOREM StableMapping == Spec => MappingStable
<1> DEFINE Stable == \A r \in Rows :
             \/ table'[r] = << >>
             \/ /\ Len(table'[r]) >= Len(table[r])
                /\ \A i \in 1..Len(table[r]) : table'[r][i] = table[r][i]
<1>1. TypeOK /\ [Next]_vars => [Stable]_vars
  <2> SUFFICES ASSUME TypeOK, Next PROVE Stable OBVIOUS
  <2>1. \A q \in Rows : Len(table[q]) \in Nat
    BY DEF TypeOK
  <2>2. ASSUME NEW r \in Rows, NEW tokens \in 0..MaxCtx, ReservePages(r, tokens)
        PROVE  Stable
    <3> DEFINE d == Delta(r, tokens)
    <3>1. d \in Nat /\ d <= Len(free) /\ free \in Seq(Page) /\ table[r] \in Seq(Page)
      BY <2>2, DeltaNat DEF ReservePages, TypeOK
    <3>2. /\ table'[r] = Popped(table[r], free, d)
          /\ \A q \in Rows : q # r => table'[q] = table[q]
      BY <2>2 DEF ReservePages, TypeOK
    <3> HIDE DEF d
    <3>3. /\ Len(table'[r]) >= Len(table[r])
          /\ \A i \in 1..Len(table[r]) : table'[r][i] = table[r][i]
      <4>1. /\ Len(Popped(table[r], free, d)) = Len(table[r]) + d
            /\ \A i \in 1..Len(table[r]) : Popped(table[r], free, d)[i] = table[r][i]
        BY <3>1, PoppedFacts
      <4>2. /\ Len(table'[r]) = Len(table[r]) + d
            /\ \A i \in 1..Len(table[r]) : table'[r][i] = table[r][i]
        BY <3>2, <4>1, Zenon
      <4>3. Len(table[r]) \in Nat /\ d \in Nat
        BY <2>1, <3>1
      <4> QED
        BY <4>2, <4>3
    <3> QED
      BY <2>1, <3>2, <3>3
  <2>3. ASSUME NEW r \in Rows, ReleasePages(r) PROVE Stable
    BY <2>1, <2>3 DEF ReleasePages, TypeOK
  <2> QED
    BY <2>2, <2>3 DEF Next
<1> QED
  BY <1>1, TypeCorrect, PTL DEF Spec, MappingStable
=============================================================================
