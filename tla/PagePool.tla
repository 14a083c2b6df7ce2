------------------------------ MODULE PagePool ------------------------------
(***************************************************************************)
(* The page allocator of the paged KV batch (`BatchKv`, tritium-cuda).     *)
(* A fixed pool of pages is shared by the batch rows.  A row maps logical  *)
(* page i to a physical page through its row of the page table; the        *)
(* unmapped entries (-1 in the code) are always a suffix, so the row is a  *)
(* sequence here.  The free list is a stack of page ids.                   *)
(***************************************************************************)
EXTENDS Integers, Sequences

CONSTANTS
    Rows,        \* the batch rows (slots)
    PoolPages,   \* pages in the pool
    PageTokens,  \* KV_PAGE_TOKENS
    MaxCtx       \* the model context window, in tokens

ASSUME PoolAssumption ==
    /\ PoolPages \in Nat \ {0}
    /\ PageTokens \in Nat \ {0}
    /\ MaxCtx \in Nat

VARIABLES
    free,        \* the free stack; its last element is popped first
    table        \* table[r] = the physical pages mapped by row r, in order

vars == <<free, table>>

Page == 0..(PoolPages - 1)

\* ceil(tokens / PageTokens)
PagesFor(tokens) == (tokens + PageTokens - 1) \div PageTokens

Init ==
    /\ free = [i \in 1..PoolPages |-> PoolPages - i]
    /\ table = [r \in Rows |-> << >>]

\* Pages to draw so that row r holds `tokens` tokens (saturating).
Delta(r, tokens) ==
    IF PagesFor(tokens) > Len(table[r]) THEN PagesFor(tokens) - Len(table[r]) ELSE 0

\* `row` after popping d pages from `stack` onto its end, one at a time.
Popped(row, stack, d) ==
    [i \in 1..(Len(row) + d) |->
        IF i <= Len(row) THEN row[i] ELSE stack[Len(stack) + 1 + Len(row) - i]]

(***************************************************************************)
(* reserve_pages: refused (nothing drawn) beyond the context window or     *)
(* when the pool holds fewer free pages than the row still needs.          *)
(***************************************************************************)
ReservePages(r, tokens) ==
    /\ tokens <= MaxCtx
    /\ Delta(r, tokens) <= Len(free)
    /\ table' = [table EXCEPT ![r] = Popped(table[r], free, Delta(r, tokens))]
    /\ free' = SubSeq(free, 1, Len(free) - Delta(r, tokens))

\* Mutant of ReleasePages: the pages are pushed back but stay mapped.
ReleaseWithoutUnmap(r) ==
    /\ free' = free \o table[r]
    /\ UNCHANGED table

\* Mutant of ReleasePages: the row is unmapped but its first page is not pushed.
ReleaseDropsPage(r) ==
    /\ free' = free \o SubSeq(table[r], 2, Len(table[r]))
    /\ table' = [table EXCEPT ![r] = << >>]

\* release_pages: every mapped page of the row goes back, in table order.
ReleasePages(r) ==
    /\ free' = free \o table[r]
    /\ table' = [table EXCEPT ![r] = << >>]

Next ==
    \E r \in Rows :
        \/ \E tokens \in 0..MaxCtx : ReservePages(r, tokens)
        \/ ReleasePages(r)

Spec == Init /\ [][Next]_vars

-----------------------------------------------------------------------------
TypeOK ==
    /\ free \in Seq(Page)
    /\ table \in [Rows -> Seq(Page)]

Injective(s) == \A i, j \in 1..Len(s) : s[i] = s[j] => i = j

Holds(s, p) == \E i \in 1..Len(s) : s[i] = p

Disjoint(s, t) == \A i \in 1..Len(s), j \in 1..Len(t) : s[i] # t[j]

(***************************************************************************)
(* No physical page is ever mapped twice or mapped while free: two live    *)
(* rows never write each other's KV, however reservations, growth and      *)
(* retirements interleave.                                                 *)
(***************************************************************************)
PagesExclusive ==
    /\ Injective(free)
    /\ \A r \in Rows : Injective(table[r]) /\ Disjoint(free, table[r])
    /\ \A r, q \in Rows : r # q => Disjoint(table[r], table[q])

(***************************************************************************)
(* No page is lost: each page of the pool is on the free stack or mapped   *)
(* by a row, so a fully retired pool can again admit the largest request.  *)
(***************************************************************************)
NoPageLost ==
    \A p \in Page : Holds(free, p) \/ \E r \in Rows : Holds(table[r], p)

(***************************************************************************)
(* A growing reservation never remaps a page the row already holds: KV     *)
(* written through the table stays where the kernels will look for it      *)
(* until the row is released.                                              *)
(***************************************************************************)
MappingStable ==
    [][\A r \in Rows :
          \/ table'[r] = << >>
          \/ /\ Len(table'[r]) >= Len(table[r])
             /\ \A i \in 1..Len(table[r]) : table'[r][i] = table[r][i]]_vars

=============================================================================
