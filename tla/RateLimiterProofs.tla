------------------------- MODULE RateLimiterProofs -------------------------
(***************************************************************************)
(* For every rate, burst, clock granularity and number of threads: the     *)
(* credit ledger balances, Retry-After is honest, and the threads together *)
(* admit a principal at most its burst plus the configured rate each.      *)
(***************************************************************************)
EXTENDS RateLimiter, FiniteSetTheorems, TLAPS

\* Rounding up covers the amount divided.
LEMMA CeilDivCovers ==
    ASSUME NEW a \in Nat, NEW b \in Nat \ {0}
    PROVE  CeilDiv(a, b) \in Nat /\ CeilDiv(a, b) * b >= a
<1> DEFINE q == (a + b - 1) \div b
<1>1. q \in Nat /\ q * b <= a + b - 1 /\ a + b - 1 < (q + 1) * b
  OBVIOUS
<1> HIDE DEF q
<1>2. (q + 1) * b = q * b + b
  BY <1>1
<1> QED
  BY <1>1, <1>2 DEF CeilDiv, q

\* A bucket holds at least the cost of one request.
LEMMA CapacityFacts == Capacity \in Nat /\ Capacity >= Minute
<1>1. Burst * Minute \in Nat /\ Burst * Minute >= 1 * Minute
  BY LimiterAssumption
<1> QED
  BY <1>1, LimiterAssumption DEF Capacity

\* What the refill of a check at time `now` leaves in the bucket.
LEMMA RefillFacts ==
    ASSUME TypeOK, NEW p \in Principals, NEW now \in Nat
    PROVE  /\ Elapsed(p, now) \in Nat
           /\ Elapsed(p, now) * Rpm \in Nat
           /\ Refilled(p, now) \in 0..Capacity
           /\ Refilled(p, now) <= credit[p] + Elapsed(p, now) * Rpm
           /\ Refilled(p, now) = Capacity \/ Refilled(p, now) = credit[p] + Elapsed(p, now) * Rpm
<1>1. last[p] \in Nat /\ credit[p] \in Nat /\ credit[p] <= Capacity
  BY CapacityFacts DEF TypeOK
<1>2. Elapsed(p, now) \in Nat
  BY <1>1 DEF Elapsed
<1>3. Elapsed(p, now) * Rpm \in Nat
  BY <1>2, LimiterAssumption
<1> QED
  BY <1>1, <1>2, <1>3, CapacityFacts DEF Refilled, AtMost

\* The wait a rejection names covers the credit it misses.
LEMMA RetryCovers ==
    ASSUME NEW c \in Nat, c < Minute
    PROVE  /\ RetryAfter(c) \in Nat
           /\ RetryAfter(c) * Second \in Nat
           /\ (RetryAfter(c) * Second) * Rpm >= Minute - c
<1> DEFINE w == CeilDiv(Minute - c, Rpm)
           s == CeilDiv(w, Second)
<1>1. Minute - c \in Nat
  BY LimiterAssumption
<1>2. w \in Nat /\ w * Rpm >= Minute - c
  BY <1>1, CeilDivCovers, LimiterAssumption
<1> HIDE DEF w
<1>3. s \in Nat /\ s * Second >= w
  BY <1>2, CeilDivCovers, LimiterAssumption
<1> HIDE DEF s
<1>4. RetryAfter(c) \in Nat /\ RetryAfter(c) >= s
  BY <1>3 DEF RetryAfter, AtLeast, s, w
<1>5. RetryAfter(c) * Second \in Nat /\ RetryAfter(c) * Second >= s * Second
  BY <1>3, <1>4, LimiterAssumption
<1> DEFINE ticks == RetryAfter(c) * Second
<1>6. ticks \in Nat /\ ticks >= w
  BY <1>2, <1>3, <1>5, LimiterAssumption
<1> HIDE DEF ticks
<1>7. ticks * Rpm >= w * Rpm
  BY <1>2, <1>6, LimiterAssumption
<1>8. ticks * Rpm \in Nat /\ w * Rpm \in Nat
  BY <1>2, <1>6, LimiterAssumption
<1> QED
  BY <1>1, <1>2, <1>4, <1>6, <1>7, <1>8 DEF ticks

(***************************************************************************)
(* The limiter's state keeps its type; in particular `check_at` never      *)
(* leaves more credit in a bucket than its capacity.                       *)
(***************************************************************************)
THEOREM TypeCorrect == Spec => []TypeOK
<1>1. Init => TypeOK
  BY CapacityFacts DEF Init, TypeOK, NoStamp, NoPromise
<1>2. TypeOK /\ [Next]_vars => TypeOK'
  <2> SUFFICES ASSUME TypeOK, [Next]_vars PROVE TypeOK' OBVIOUS
  <2>1. CASE Tick
    BY <2>1 DEF Tick, TypeOK
  <2>2. ASSUME NEW t \in Threads, NEW p \in Principals, ReadClock(t, p) PROVE TypeOK'
    BY <2>2 DEF ReadClock, TypeOK
  <2>3. ASSUME NEW t \in Threads, NEW p \in Principals, Refill(t, p)
        PROVE  /\ clock' \in Nat /\ last' \in [Principals -> Nat]
               /\ stamp' \in [Threads -> Nat \cup {NoStamp}]
               /\ whom' \in [Threads -> Principals]
               /\ rewound' \in [Principals -> Nat]
               /\ stamp[t] \in Nat
    BY <2>3 DEF Refill, TypeOK, AtLeast
  <2>4. ASSUME NEW t \in Threads, NEW p \in Principals, Allow(t, p) PROVE TypeOK'
    <3>1. stamp[t] \in Nat /\ Refill(t, p)
      BY <2>3, <2>4 DEF Allow
    <3>2. Refilled(p, stamp[t]) - Minute \in 0..Capacity
      BY <2>4, <3>1, RefillFacts, CapacityFacts, LimiterAssumption DEF Allow
    <3> QED
      BY <2>3, <2>4, <3>1, <3>2 DEF Allow, TypeOK
  <2>5. ASSUME NEW t \in Threads, NEW p \in Principals, Reject(t, p) PROVE TypeOK'
    <3> DEFINE c == Refilled(p, stamp[t])
    <3>1. stamp[t] \in Nat /\ Refill(t, p)
      BY <2>3, <2>5 DEF Reject
    <3>2. c \in 0..Capacity /\ c < Minute /\ c \in Nat
      BY <2>5, <3>1, RefillFacts, CapacityFacts DEF Reject
    <3>3. stamp[t] + RetryAfter(c) * Second \in Nat
      <4> HIDE DEF c
      <4> QED
        BY <3>1, <3>2, RetryCovers
    <3>4. promise' \in [Principals -> Nat \cup {NoPromise}]
      BY <2>5, <3>3 DEF Reject, TypeOK, AtMost
    <3> QED
      BY <2>3, <2>5, <3>1, <3>2, <3>4 DEF Reject, TypeOK
  <2>6. CASE UNCHANGED vars
    BY <2>6 DEF vars, TypeOK
  <2> QED
    BY <2>1, <2>2, <2>4, <2>5, <2>6 DEF Next
<1> QED
  BY <1>1, <1>2, PTL DEF Spec

\* One check of p moves its ledger: `last` advances by the time it credits,
\* or moves back by what is added to `rewound`; the other buckets stay.
LEMMA RefillLedger ==
    ASSUME TypeOK, NEW t \in Threads, NEW p \in Principals, Refill(t, p)
    PROVE  /\ last'[p] + rewound'[p] = last[p] + rewound[p] + Elapsed(p, stamp[t])
           /\ Rpm * (last'[p] + rewound'[p])
                = Rpm * (last[p] + rewound[p]) + Elapsed(p, stamp[t]) * Rpm
           /\ Rpm * (last[p] + rewound[p]) \in Nat
           /\ \A q \in Principals : q # p => last'[q] = last[q] /\ rewound'[q] = rewound[q]
<1>1. stamp[t] \in Nat /\ last[p] \in Nat /\ rewound[p] \in Nat
  BY DEF TypeOK, Refill
<1>2. last'[p] = stamp[t] /\ rewound'[p] = rewound[p] + AtLeast(last[p] - stamp[t], 0)
  BY DEF TypeOK, Refill
<1>3. last'[p] + rewound'[p] = last[p] + rewound[p] + Elapsed(p, stamp[t])
  BY <1>1, <1>2 DEF AtLeast, Elapsed
<1>4. Elapsed(p, stamp[t]) \in Nat
  BY <1>1 DEF Elapsed
<1> DEFINE e == Elapsed(p, stamp[t])
           b == last[p] + rewound[p]
<1>5. b \in Nat /\ e \in Nat
  BY <1>1, <1>4
<1> HIDE DEF e, b
<1>6. Rpm * (b + e) = Rpm * b + e * Rpm /\ Rpm * b \in Nat
  BY <1>5, LimiterAssumption
<1>7. \A q \in Principals : q # p => last'[q] = last[q] /\ rewound'[q] = rewound[q]
  BY DEF TypeOK, Refill
<1> QED
  BY <1>3, <1>6, <1>7 DEF e, b

(***************************************************************************)
(* The credit ledger of `check_at` balances under every interleaving of    *)
(* clock readings and mutex acquisitions: the only credit beyond the rate  *)
(* is for time that `last` was moved back over.                            *)
(***************************************************************************)
THEOREM LedgerBalances == Spec => []CreditLedger
<1> DEFINE L(p) == admitted[p] * Minute + credit[p] <= Capacity + Rpm * (last[p] + rewound[p])
<1>1. Init => CreditLedger
  <2> SUFFICES ASSUME Init, NEW p \in Principals PROVE L(p)
    BY DEF CreditLedger
  <2>1. admitted[p] = 0 /\ credit[p] = Capacity /\ last[p] = 0 /\ rewound[p] = 0
    BY DEF Init
  <2> QED
    BY <2>1, CapacityFacts, LimiterAssumption
<1>2. TypeOK /\ CreditLedger /\ [Next]_vars => CreditLedger'
  <2> SUFFICES ASSUME TypeOK, CreditLedger, [Next]_vars PROVE CreditLedger' OBVIOUS
  <2>1. CASE Tick
    BY <2>1 DEF Tick, CreditLedger
  <2>2. ASSUME NEW t \in Threads, NEW p \in Principals, ReadClock(t, p) PROVE CreditLedger'
    BY <2>2 DEF ReadClock, CreditLedger
  <2>3. ASSUME NEW t \in Threads, NEW p \in Principals, Allow(t, p) PROVE CreditLedger'
    <3> DEFINE r == Refilled(p, stamp[t])
               e == Elapsed(p, stamp[t]) * Rpm
    <3>1. stamp[t] \in Nat /\ Refill(t, p) /\ admitted[p] \in Nat /\ credit[p] \in Nat
      BY <2>3, CapacityFacts DEF Allow, Refill, TypeOK
    <3>2. r \in Nat /\ e \in Nat /\ r <= credit[p] + e
      BY <3>1, RefillFacts, CapacityFacts
    <3>3. admitted'[p] = admitted[p] + 1 /\ credit'[p] = r - Minute
      BY <2>3 DEF Allow, TypeOK
    <3>4. /\ Rpm * (last'[p] + rewound'[p]) = Rpm * (last[p] + rewound[p]) + e
          /\ Rpm * (last[p] + rewound[p]) \in Nat
      BY <3>1, RefillLedger
    <3>5. (admitted[p] + 1) * Minute = admitted[p] * Minute + Minute /\ admitted[p] * Minute \in Nat
      BY <3>1, LimiterAssumption
    <3>6. L(p)
      BY DEF CreditLedger
    <3> HIDE DEF r, e
    <3>7. admitted'[p] * Minute + credit'[p] <= Capacity + Rpm * (last'[p] + rewound'[p])
      BY <3>1, <3>2, <3>3, <3>4, <3>5, <3>6, CapacityFacts, LimiterAssumption
    <3>8. ASSUME NEW q \in Principals, q # p
          PROVE  admitted'[q] * Minute + credit'[q] <= Capacity + Rpm * (last'[q] + rewound'[q])
      <4>1. /\ admitted'[q] = admitted[q] /\ credit'[q] = credit[q]
            /\ last'[q] = last[q] /\ rewound'[q] = rewound[q]
        BY <2>3, <3>1, <3>8, RefillLedger DEF Allow, TypeOK
      <4> QED
        BY <4>1 DEF CreditLedger
    <3> QED
      BY <3>7, <3>8 DEF CreditLedger
  <2>4. ASSUME NEW t \in Threads, NEW p \in Principals, Reject(t, p) PROVE CreditLedger'
    <3> DEFINE r == Refilled(p, stamp[t])
               e == Elapsed(p, stamp[t]) * Rpm
    <3>1. stamp[t] \in Nat /\ Refill(t, p) /\ admitted[p] \in Nat /\ credit[p] \in Nat
      BY <2>4, CapacityFacts DEF Reject, Refill, TypeOK
    <3>2. r \in Nat /\ e \in Nat /\ r <= credit[p] + e
      BY <3>1, RefillFacts, CapacityFacts
    <3>3. admitted'[p] = admitted[p] /\ credit'[p] = r
      BY <2>4 DEF Reject, TypeOK
    <3>4. /\ Rpm * (last'[p] + rewound'[p]) = Rpm * (last[p] + rewound[p]) + e
          /\ Rpm * (last[p] + rewound[p]) \in Nat
      BY <3>1, RefillLedger
    <3>5. admitted[p] * Minute \in Nat
      BY <3>1, LimiterAssumption
    <3>6. L(p)
      BY DEF CreditLedger
    <3> HIDE DEF r, e
    <3>7. admitted'[p] * Minute + credit'[p] <= Capacity + Rpm * (last'[p] + rewound'[p])
      BY <3>1, <3>2, <3>3, <3>4, <3>5, <3>6, CapacityFacts
    <3>8. ASSUME NEW q \in Principals, q # p
          PROVE  admitted'[q] * Minute + credit'[q] <= Capacity + Rpm * (last'[q] + rewound'[q])
      <4>1. /\ admitted'[q] = admitted[q] /\ credit'[q] = credit[q]
            /\ last'[q] = last[q] /\ rewound'[q] = rewound[q]
        BY <2>4, <3>1, <3>8, RefillLedger DEF Reject, TypeOK
      <4> QED
        BY <4>1 DEF CreditLedger
    <3> QED
      BY <3>7, <3>8 DEF CreditLedger
  <2>5. CASE UNCHANGED vars
    BY <2>5 DEF vars, CreditLedger
  <2> QED
    BY <2>1, <2>2, <2>3, <2>4, <2>5 DEF Next
<1> QED
  BY <1>1, <1>2, TypeCorrect, PTL DEF Spec

\* The latest clock reading of thread t: the one it carries, or the one it
\* would take now.
Seen(t) == IF stamp[t] = NoStamp THEN clock ELSE stamp[t]

\* The instants each thread has seen, thread by thread.
Past == {x \in Threads \X (1..clock) : x[2] <= Seen(x[1])}

\* Why no instant is credited more often than there are threads: a bucket has
\* covered no more time than the threads have seen, and a thread may take the
\* time it was late out of what it had not seen.
SkewInv ==
    /\ \A t \in Threads : Seen(t) <= clock
    /\ \A p \in Principals : last[p] <= clock /\ rewound[p] + last[p] <= Cardinality(Past)
    /\ \A p \in Principals, t \in Threads : rewound[p] + Seen(t) <= Cardinality(Past)

\* The threads together have seen at most the whole past once each.
LEMMA PastFacts ==
    ASSUME TypeOK
    PROVE  /\ IsFiniteSet(Past)
           /\ Cardinality(Past) \in Nat
           /\ Cardinality(Threads) \in Nat
           /\ Cardinality(Past) <= Cardinality(Threads) * clock
<1>1. clock \in Nat
  BY DEF TypeOK
<1>2. IsFiniteSet(1..clock) /\ Cardinality(1..clock) = clock
  BY <1>1, FS_Interval
<1>3. IsFiniteSet(Threads) /\ Cardinality(Threads) \in Nat
  BY LimiterAssumption, FS_CardinalityType
<1>4. /\ IsFiniteSet(Threads \X (1..clock))
      /\ Cardinality(Threads \X (1..clock)) = Cardinality(Threads) * clock
  BY <1>2, <1>3, FS_Product
<1>5. Past \in SUBSET (Threads \X (1..clock))
  BY DEF Past
<1> QED
  BY <1>3, <1>4, <1>5, FS_Subset, FS_CardinalityType

\* A tick: the idle threads see one instant more.
LEMMA SkewTick == ASSUME TypeOK, SkewInv, Tick PROVE SkewInv'
<1>1. /\ clock \in Nat /\ clock' = clock + 1 /\ stamp' = stamp
      /\ last' = last /\ rewound' = rewound
      /\ \A t \in Threads : stamp[t] \in Nat \cup {NoStamp}
      /\ \A p \in Principals : last[p] \in Nat /\ rewound[p] \in Nat
  BY DEF TypeOK, Tick
<1>2. \A t \in Threads : /\ Seen(t) \in Nat /\ Seen(t) <= clock
                         /\ Seen(t)' = IF stamp[t] = NoStamp THEN Seen(t) + 1 ELSE Seen(t)
  BY <1>1 DEF Seen, SkewInv
<1>3. IsFiniteSet(Past) /\ Cardinality(Past) \in Nat
  BY PastFacts
<1>4. IsFiniteSet(Threads \X (1..(clock + 1)))
  <2>1. clock + 1 \in Int /\ 1 \in Int
    BY <1>1
  <2>2. IsFiniteSet(1..(clock + 1))
    BY <2>1, FS_Interval, Zenon
  <2> QED
    BY <2>2, LimiterAssumption, FS_Product, Zenon
<1>5. IsFiniteSet(Past') /\ Cardinality(Past') \in Nat
  <2>1. Past' \in SUBSET (Threads \X (1..(clock + 1)))
    BY <1>1 DEF Past
  <2> QED
    BY <1>4, <2>1, FS_Subset, FS_CardinalityType
<1>6. Past \in SUBSET Past'
  BY <1>1, <1>2 DEF Past
<1>7. Cardinality(Past) <= Cardinality(Past')
  BY <1>5, <1>6, FS_Subset
<1>8. CASE \E t \in Threads : stamp[t] = NoStamp
  <2>1. PICK t \in Threads : stamp[t] = NoStamp
    BY <1>8
  <2> DEFINE x == <<t, clock + 1>>
  <2>2. x \notin Past /\ x \in Past'
    <3>1. clock + 1 \notin 1..clock /\ clock + 1 \in 1..clock'
      BY <1>1
    <3>2. clock + 1 <= Seen(t)'
      BY <1>1, <2>1 DEF Seen
    <3>3. x[1] = t /\ x[2] = clock + 1
      OBVIOUS
    <3>4. x \notin Threads \X (1..clock) /\ x \in Threads \X (1..clock')
      BY <3>1
    <3> QED
      BY <3>2, <3>3, <3>4 DEF Past
  <2>3. Past \cup {x} \in SUBSET Past'
    BY <1>6, <2>2
  <2>4. Cardinality(Past \cup {x}) = Cardinality(Past) + 1
    BY <1>3, <2>2, FS_AddElement
  <2>5. Cardinality(Past) + 1 <= Cardinality(Past')
    BY <1>5, <2>3, <2>4, FS_Subset
  <2> QED
    BY <1>1, <1>2, <1>3, <1>5, <2>5 DEF SkewInv
<1>9. CASE \A t \in Threads : stamp[t] # NoStamp
  BY <1>1, <1>2, <1>3, <1>5, <1>7, <1>9 DEF SkewInv
<1> QED
  BY <1>8, <1>9

\* A check of p by t: what t was late by is what it sees now.
LEMMA SkewRefill ==
    ASSUME TypeOK, SkewInv, NEW t \in Threads, NEW p \in Principals, Refill(t, p)
    PROVE  SkewInv'
<1> DEFINE s == stamp[t]
           n == Cardinality(Past)
           late == {t} \X ((s + 1)..clock)
<1>1. /\ clock \in Nat /\ s \in Nat /\ clock' = clock
      /\ stamp'[t] = NoStamp /\ \A u \in Threads : u # t => stamp'[u] = stamp[u]
      /\ last'[p] = s /\ rewound'[p] = rewound[p] + AtLeast(last[p] - s, 0)
      /\ \A q \in Principals : q # p => last'[q] = last[q] /\ rewound'[q] = rewound[q]
      /\ \A q \in Principals : last[q] \in Nat /\ rewound[q] \in Nat
  BY DEF TypeOK, Refill
<1>2. /\ Seen(t) = s /\ Seen(t)' = clock /\ s <= clock
      /\ \A u \in Threads : u # t => Seen(u)' = Seen(u)
      /\ \A u \in Threads : Seen(u) \in Nat /\ Seen(u) <= clock
  BY <1>1 DEF Seen, SkewInv, Refill, TypeOK
<1>3. IsFiniteSet(Past) /\ n \in Nat
  BY PastFacts
<1>4. Past' = Past \cup late
  BY <1>1, <1>2 DEF Past
<1>5. Past \cap late = {}
  BY <1>1, <1>2 DEF Past
<1>6. IsFiniteSet(late) /\ Cardinality(late) = clock - s
  <2>1. IsFiniteSet((s + 1)..clock) /\ Cardinality((s + 1)..clock) = clock - s
    <3> HIDE DEF s
    <3>1. s + 1 \in Int /\ clock \in Int
      BY <1>1
    <3>2. /\ IsFiniteSet((s + 1)..clock)
          /\ Cardinality((s + 1)..clock) = IF s + 1 > clock THEN 0 ELSE clock - (s + 1) + 1
      BY <3>1, FS_Interval, Zenon
    <3> QED
      BY <1>1, <1>2, <3>2
  <2>2. IsFiniteSet({t}) /\ Cardinality({t}) = 1
    BY FS_Singleton
  <2>3. IsFiniteSet(late) /\ Cardinality(late) = 1 * (clock - s)
    BY <2>1, <2>2, FS_Product
  <2> QED
    BY <2>3, <1>1
<1>7. Cardinality(Past') = n + (clock - s)
  <2>1. Cardinality(Past \cup late) = n + Cardinality(late) - Cardinality({})
    BY <1>3, <1>5, <1>6, FS_Union
  <2>2. Cardinality({}) = 0
    BY FS_EmptySet
  <2> QED
    BY <1>1, <1>3, <1>4, <1>6, <2>1, <2>2
<1>8. \A q \in Principals : rewound[q] + s <= n /\ rewound[q] + last[q] <= n /\ last[q] <= clock
  BY <1>2 DEF SkewInv
<1> HIDE DEF s, n, late
<1>9. \A q \in Principals :
         /\ rewound'[q] \in Nat /\ rewound'[q] + s <= n
         /\ last'[q] \in Nat /\ last'[q] <= clock
         /\ rewound'[q] + last'[q] <= n + (clock - s)
  BY <1>1, <1>2, <1>3, <1>8 DEF AtLeast
<1>10. \A u \in Threads : Seen(u)' \in Nat /\ Seen(u)' <= clock
  BY <1>1, <1>2
<1> QED
  BY <1>1, <1>2, <1>3, <1>7, <1>9, <1>10 DEF SkewInv

(***************************************************************************)
(* However many threads race between their clock reading and the mutex,    *)
(* `check_at` admits a principal at most its burst plus, per thread,       *)
(* `requests_per_minute` sustained, for every rate, burst and clock        *)
(* granularity.                                                            *)
(***************************************************************************)
THEOREM ConcurrentRate == Spec => []RatePerThread
<1>1. Init => SkewInv
  <2> SUFFICES ASSUME Init PROVE SkewInv OBVIOUS
  <2>1. Past = {}
    BY DEF Init, Past
  <2>2. Cardinality(Past) = 0
    BY <2>1, FS_EmptySet
  <2> QED
    BY <2>2 DEF Init, SkewInv, Seen
<1>2. TypeOK /\ SkewInv /\ [Next]_vars => SkewInv'
  <2> SUFFICES ASSUME TypeOK, SkewInv, [Next]_vars PROVE SkewInv' OBVIOUS
  <2>1. CASE Tick
    BY <2>1, SkewTick
  <2>2. ASSUME NEW t \in Threads, NEW p \in Principals, ReadClock(t, p) PROVE SkewInv'
    <3>1. /\ clock' = clock /\ last' = last /\ rewound' = rewound
          /\ \A u \in Threads : Seen(u)' = Seen(u)
      BY <2>2 DEF ReadClock, TypeOK, Seen, NoStamp
    <3>2. Past' = Past
      BY <3>1 DEF Past
    <3> QED
      BY <3>1, <3>2 DEF SkewInv
  <2>3. ASSUME NEW t \in Threads, NEW p \in Principals, Refill(t, p) PROVE SkewInv'
    BY <2>3, SkewRefill
  <2>4. CASE UNCHANGED vars
    BY <2>4 DEF vars, SkewInv, Past, Seen
  <2> QED
    BY <2>1, <2>2, <2>3, <2>4 DEF Next, Allow, Reject
<1>3. TypeOK /\ SkewInv /\ CreditLedger => RatePerThread
  <2> SUFFICES ASSUME TypeOK, SkewInv, CreditLedger, NEW p \in Principals
               PROVE  admitted[p] * Minute <= Capacity + Rpm * (Cardinality(Threads) * clock)
    BY DEF RatePerThread
  <2> DEFINE c == last[p] + rewound[p]
             m == Cardinality(Threads) * clock
  <2>1. clock \in Nat /\ c \in Nat /\ credit[p] \in Nat /\ admitted[p] \in Nat
    BY CapacityFacts DEF TypeOK
  <2>2. m \in Nat /\ c <= m
    <3>1. c <= Cardinality(Past)
      BY <2>1 DEF SkewInv, TypeOK
    <3> HIDE DEF c
    <3> QED
      BY <2>1, <3>1, PastFacts
  <2>3. admitted[p] * Minute + credit[p] <= Capacity + Rpm * c
    BY DEF CreditLedger
  <2> HIDE DEF c, m
  <2>4. Rpm * c <= Rpm * m /\ Rpm * c \in Nat /\ Rpm * m \in Nat
    BY <2>1, <2>2, LimiterAssumption
  <2>5. admitted[p] * Minute \in Nat
    BY <2>1, LimiterAssumption
  <2>6. admitted[p] * Minute <= Capacity + Rpm * m
    BY <2>1, <2>3, <2>4, <2>5, CapacityFacts
  <2> QED
    BY <2>6 DEF m
<1> QED
  BY <1>1, <1>2, <1>3, TypeCorrect, LedgerBalances, PTL DEF Spec

\* A pending Retry-After names an instant at which the refill suffices.
PromiseInv ==
    \A p \in Principals : promise[p] # NoPromise =>
        credit[p] < Minute /\ credit[p] + Rpm * (promise[p] - last[p]) >= Minute

\* A check at or after the promised instant finds the credit it needs; one
\* before it leaves the promise good.
LEMMA PromiseStep ==
    ASSUME TypeOK, PromiseInv, NEW p \in Principals, NEW now \in Nat, promise[p] # NoPromise
    PROVE  /\ now >= promise[p] => Refilled(p, now) >= Minute
           /\ Refilled(p, now) < Minute =>
                 Refilled(p, now) + Rpm * (promise[p] - now) >= Minute
<1> DEFINE e == Elapsed(p, now)
           r == Refilled(p, now)
           c == credit[p]
           P == promise[p]
           l == last[p]
<1>1. c \in Nat /\ P \in Nat /\ l \in Nat /\ c < Minute /\ c + Rpm * (P - l) >= Minute
  BY CapacityFacts DEF TypeOK, PromiseInv
<1>2. e \in Nat /\ e * Rpm \in Nat /\ r \in Nat /\ (r = Capacity \/ r = c + e * Rpm)
  BY RefillFacts, CapacityFacts
<1>3. e = IF now >= l THEN now - l ELSE 0
  BY DEF Elapsed
<1> HIDE DEF e, r, c, P, l
<1>4. P > l
  <2>1. Rpm * (P - l) > 0
    BY <1>1, LimiterAssumption
  <2> QED
    BY <2>1, <1>1, LimiterAssumption
<1>5. now >= P => r >= Minute
  <2> SUFFICES ASSUME now >= P, r = c + e * Rpm PROVE r >= Minute
    BY <1>2, CapacityFacts, LimiterAssumption
  <2>1. e \in Nat /\ P - l \in Nat /\ e >= P - l
    BY <1>1, <1>3, <1>4
  <2>2. e * Rpm >= Rpm * (P - l) /\ Rpm * (P - l) \in Nat
    BY <2>1, LimiterAssumption
  <2> QED
    BY <2>2, <1>1, <1>2, LimiterAssumption
<1>6. r < Minute => r + Rpm * (P - now) >= Minute
  <2> SUFFICES ASSUME r < Minute, r = c + e * Rpm PROVE r + Rpm * (P - now) >= Minute
    BY <1>2, CapacityFacts, LimiterAssumption
  <2>1. P - now \in Int /\ P - l \in Int /\ P - l <= e + (P - now)
    BY <1>1, <1>2, <1>3
  <2>2. Rpm * (P - l) <= Rpm * (e + (P - now))
    BY <2>1, <1>2, LimiterAssumption
  <2>3. Rpm * (e + (P - now)) = e * Rpm + Rpm * (P - now)
    BY <2>1, <1>2, LimiterAssumption
  <2>4. Rpm * (P - now) \in Int /\ Rpm * (P - l) \in Int
    BY <2>1, LimiterAssumption
  <2> QED
    BY <2>2, <2>3, <2>4, <1>1, <1>2, LimiterAssumption
<1> QED
  BY <1>5, <1>6 DEF r, P

(***************************************************************************)
(* Retry-After is honest for every rate and every interleaving of checks:  *)
(* waiting as long as a rejection asked suffices unless another request of *)
(* the same principal was allowed meanwhile.                               *)
(***************************************************************************)
THEOREM RetryIsHonest == Spec => RetryHonoured
<1>1. Init => PromiseInv
  BY DEF Init, PromiseInv
<1>2. TypeOK /\ PromiseInv /\ [Next]_vars => PromiseInv'
  <2> SUFFICES ASSUME TypeOK, PromiseInv, [Next]_vars PROVE PromiseInv' OBVIOUS
  <2>1. CASE Tick
    BY <2>1 DEF Tick, PromiseInv
  <2>2. ASSUME NEW t \in Threads, NEW p \in Principals, ReadClock(t, p) PROVE PromiseInv'
    BY <2>2 DEF ReadClock, PromiseInv
  <2>3. ASSUME NEW t \in Threads, NEW p \in Principals, Allow(t, p) PROVE PromiseInv'
    <3>1. promise'[p] = NoPromise
      BY <2>3 DEF Allow, TypeOK
    <3>2. \A q \in Principals : q # p =>
             promise'[q] = promise[q] /\ credit'[q] = credit[q] /\ last'[q] = last[q]
      BY <2>3 DEF Allow, Refill, TypeOK
    <3> QED
      BY <3>1, <3>2 DEF PromiseInv
  <2>4. ASSUME NEW t \in Threads, NEW p \in Principals, Reject(t, p) PROVE PromiseInv'
    <3> DEFINE c == Refilled(p, stamp[t])
               w == RetryAfter(c) * Second
               until == stamp[t] + w
    <3>1. stamp[t] \in Nat /\ c \in Nat /\ c < Minute
      BY <2>4, RefillFacts, CapacityFacts DEF Reject, Refill, TypeOK
    <3>2. w \in Nat /\ w * Rpm >= Minute - c
      <4> HIDE DEF c
      <4> QED
        BY <3>1, RetryCovers
    <3>3. /\ credit'[p] = c /\ last'[p] = stamp[t]
          /\ promise'[p] = (IF promise[p] = NoPromise THEN until ELSE AtMost(promise[p], until))
      BY <2>4 DEF Reject, Refill, TypeOK
    <3>4. promise[p] # NoPromise => c + Rpm * (promise[p] - stamp[t]) >= Minute
      BY <3>1, PromiseStep
    <3> HIDE DEF c, w
    <3>5. c + Rpm * (until - stamp[t]) >= Minute
      <4>1. until - stamp[t] = w
        BY <3>1, <3>2
      <4>2. Rpm * w = w * Rpm /\ w * Rpm \in Nat
        BY <3>2, LimiterAssumption
      <4> QED
        BY <4>1, <4>2, <3>1, <3>2, LimiterAssumption
    <3>6. c + Rpm * (promise'[p] - stamp[t]) >= Minute
      BY <3>3, <3>4, <3>5 DEF AtMost
    <3>7. \A q \in Principals : q # p =>
             promise'[q] = promise[q] /\ credit'[q] = credit[q] /\ last'[q] = last[q]
      BY <2>4 DEF Reject, Refill, TypeOK
    <3> QED
      BY <3>1, <3>3, <3>6, <3>7 DEF PromiseInv
  <2>5. CASE UNCHANGED vars
    BY <2>5 DEF vars, PromiseInv
  <2> QED
    BY <2>1, <2>2, <2>3, <2>4, <2>5 DEF Next
<1> DEFINE Honest == \A t \in Threads :
             LET p == whom[t] IN
             /\ stamp[t] # NoStamp /\ stamp'[t] = NoStamp
             /\ promise[p] # NoPromise /\ stamp[t] >= promise[p]
             => admitted'[p] = admitted[p] + 1
<1>3. TypeOK /\ PromiseInv /\ [Next]_vars => [Honest]_vars
  <2> SUFFICES ASSUME TypeOK, PromiseInv, Next, NEW t \in Threads,
                      stamp[t] # NoStamp, stamp'[t] = NoStamp,
                      promise[whom[t]] # NoPromise, stamp[t] >= promise[whom[t]]
               PROVE  admitted'[whom[t]] = admitted[whom[t]] + 1
    OBVIOUS
  <2>1. stamp[t] \in Nat /\ whom[t] \in Principals
    BY DEF TypeOK
  <2>2. Refilled(whom[t], stamp[t]) >= Minute
    BY <2>1, PromiseStep
  <2>3. CASE Tick
    BY <2>3 DEF Tick
  <2>4. ASSUME NEW s \in Threads, NEW p \in Principals, ReadClock(s, p) PROVE FALSE
    BY <2>4 DEF ReadClock, TypeOK, NoStamp
  <2>5. ASSUME NEW s \in Threads, NEW p \in Principals, Allow(s, p)
        PROVE  admitted'[whom[t]] = admitted[whom[t]] + 1
    <3>1. s = t /\ p = whom[t]
      BY <2>5 DEF Allow, Refill, TypeOK
    <3> QED
      BY <2>5, <3>1 DEF Allow, TypeOK
  <2>6. ASSUME NEW s \in Threads, NEW p \in Principals, Reject(s, p) PROVE FALSE
    <3>1. s = t /\ p = whom[t]
      BY <2>6 DEF Reject, Refill, TypeOK
    <3>2. Refilled(p, stamp[t]) < Minute /\ Refilled(p, stamp[t]) \in Nat
      BY <2>1, <2>6, <3>1, RefillFacts, CapacityFacts DEF Reject
    <3> QED
      BY <2>2, <3>1, <3>2, LimiterAssumption
  <2> QED
    BY <2>3, <2>4, <2>5, <2>6 DEF Next
<1> QED
  BY <1>1, <1>2, <1>3, TypeCorrect, PTL DEF Spec, RetryHonoured
=============================================================================
