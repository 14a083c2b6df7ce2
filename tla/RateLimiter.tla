---------------------------- MODULE RateLimiter ----------------------------
(***************************************************************************)
(* The per-principal token buckets of `tritium-serve/src/admission.rs`.    *)
(* A request handler reads the monotonic clock (`Instant::now()`, an       *)
(* argument of `check_at`) and only then takes the mutex on the buckets,   *)
(* so a check is two steps and two checks may take the mutex in the        *)
(* opposite order of their clock readings.                                 *)
(*                                                                         *)
(* Time is in ticks (nanoseconds in the code).  A request costs Minute     *)
(* units of credit and a tick replenishes Rpm of them.                     *)
(***************************************************************************)
EXTENDS Integers, FiniteSets

CONSTANTS
    Threads,     \* the server threads that may be inside `check` at once
    Principals,  \* the authenticated principals (token indices)
    Rpm,         \* requests_per_minute
    Burst,       \* burst
    Minute,      \* MINUTE_NANOS
    Second,      \* ticks in one second of Retry-After
    MaxClock     \* bound on the clock

ASSUME LimiterAssumption ==
    /\ IsFiniteSet(Threads)
    /\ Rpm \in Nat \ {0}
    /\ Burst \in Nat \ {0}
    /\ Minute \in Nat \ {0}
    /\ Second \in Nat \ {0}
    /\ MaxClock \in Nat

Capacity == Burst * Minute

NoStamp == -1     \* the thread is not inside `check`
NoPromise == -1   \* no Retry-After is outstanding

VARIABLES
    clock,     \* the monotonic clock
    credit,    \* credit[p]: Bucket::credit
    last,      \* last[p]: Bucket::last
    stamp,     \* stamp[t]: the clock reading thread t carries to the mutex
    whom,      \* whom[t]: the principal thread t checks
    \* History variables; no guard reads them.
    admitted,  \* admitted[p]: requests allowed so far
    rewound,   \* rewound[p]: how far `last` has been moved backwards, in all
    promise    \* promise[p]: the earliest instant a pending Retry-After names

vars == <<clock, credit, last, stamp, whom, admitted, rewound, promise>>

Init ==
    /\ clock = 0
    /\ credit = [p \in Principals |-> Capacity]
    /\ last = [p \in Principals |-> 0]
    /\ stamp = [t \in Threads |-> NoStamp]
    /\ whom \in [Threads -> Principals]
    /\ admitted = [p \in Principals |-> 0]
    /\ rewound = [p \in Principals |-> 0]
    /\ promise = [p \in Principals |-> NoPromise]

Tick ==
    /\ clock < MaxClock
    /\ clock' = clock + 1
    /\ UNCHANGED <<credit, last, stamp, whom, admitted, rewound, promise>>

\* check: the clock is read before the mutex is taken.
ReadClock(t, p) ==
    /\ stamp[t] = NoStamp
    /\ stamp' = [stamp EXCEPT ![t] = clock]
    /\ whom' = [whom EXCEPT ![t] = p]
    /\ UNCHANGED <<clock, credit, last, admitted, rewound, promise>>

CeilDiv(a, b) == (a + b - 1) \div b

AtLeast(a, b) == IF a >= b THEN a ELSE b

AtMost(a, b) == IF a <= b THEN a ELSE b

\* now.checked_duration_since(bucket.last).unwrap_or_default()
Elapsed(p, now) == IF now >= last[p] THEN now - last[p] ELSE 0

\* Mutant of Refilled: one tick too many is credited.
RefillOffByOne(p, now) == AtMost(credit[p] + (Elapsed(p, now) + 1) * Rpm, Capacity)

Refilled(p, now) == AtMost(credit[p] + Elapsed(p, now) * Rpm, Capacity)

\* Mutant of RetryAfter: both divisions round down.
RetryAfterFloor(c) == AtLeast(((Minute - c) \div Rpm) \div Second, 1)

\* The Retry-After of a rejection that leaves credit c, in seconds.
RetryAfter(c) == AtLeast(CeilDiv(CeilDiv(Minute - c, Rpm), Second), 1)

\* The part of check_at before its decision: refill, then last := now.
Refill(t, p) ==
    /\ stamp[t] # NoStamp
    /\ whom[t] = p
    /\ last' = [last EXCEPT ![p] = stamp[t]]
    /\ rewound' = [rewound EXCEPT ![p] = @ + AtLeast(last[p] - stamp[t], 0)]
    /\ stamp' = [stamp EXCEPT ![t] = NoStamp]
    /\ UNCHANGED <<clock, whom>>

\* check_at returns AdmissionDecision::Allow.
Allow(t, p) ==
    /\ Refill(t, p)
    /\ Refilled(p, stamp[t]) >= Minute
    /\ credit' = [credit EXCEPT ![p] = Refilled(p, stamp[t]) - Minute]
    /\ admitted' = [admitted EXCEPT ![p] = @ + 1]
    /\ promise' = [promise EXCEPT ![p] = NoPromise]

\* check_at returns AdmissionDecision::Reject.
Reject(t, p) ==
    /\ Refill(t, p)
    /\ Refilled(p, stamp[t]) < Minute
    /\ credit' = [credit EXCEPT ![p] = Refilled(p, stamp[t])]
    /\ LET until == stamp[t] + RetryAfter(Refilled(p, stamp[t])) * Second
       IN  promise' = [promise EXCEPT ![p] = IF @ = NoPromise THEN until ELSE AtMost(@, until)]
    /\ UNCHANGED admitted

Next ==
    \/ Tick
    \/ \E t \in Threads, p \in Principals : ReadClock(t, p) \/ Allow(t, p) \/ Reject(t, p)

Spec == Init /\ [][Next]_vars

-----------------------------------------------------------------------------
(***************************************************************************)
(* Type invariant: `check_at` keeps every bucket's credit between zero and *)
(* its capacity, and every thread carries a clock reading or none.         *)
(***************************************************************************)
TypeOK ==
    /\ clock \in Nat
    /\ credit \in [Principals -> 0..Capacity]
    /\ last \in [Principals -> Nat]
    /\ stamp \in [Threads -> Nat \cup {NoStamp}]
    /\ whom \in [Threads -> Principals]
    /\ admitted \in [Principals -> Nat]
    /\ rewound \in [Principals -> Nat]
    /\ promise \in [Principals -> Nat \cup {NoPromise}]

(***************************************************************************)
(* The credit ledger of `check_at`: what a principal has been admitted,    *)
(* plus what its bucket still holds, is the initial burst plus the refill  *)
(* of the time `last` has covered, where time that `last` was moved back   *)
(* over is covered twice.                                                  *)
(***************************************************************************)
CreditLedger ==
    \A p \in Principals :
        admitted[p] * Minute + credit[p] <= Capacity + Rpm * (last[p] + rewound[p])

(***************************************************************************)
(* What the buckets of `check_at` guarantee while N threads race to them:  *)
(* after `clock` ticks a principal has been admitted at most its burst     *)
(* plus N times the configured rate.  A check that takes the mutex late    *)
(* moves `last` back to its own older reading, and the next check credits  *)
(* that stretch once more; but each thread holds one reading at a time, so *)
(* no instant is credited more often than there are threads.  With one     *)
(* thread this is the configured rate itself.                              *)
(***************************************************************************)
RatePerThread ==
    \A p \in Principals :
        admitted[p] * Minute <= Capacity + Rpm * (Cardinality(Threads) * clock)

(***************************************************************************)
(* Retry-After is honest: a check whose clock reading has reached the      *)
(* instant a rejection named is allowed, provided no other request of the  *)
(* principal was allowed in between, however checks interleave.            *)
(***************************************************************************)
RetryHonoured ==
    [][\A t \in Threads :
          LET p == whom[t] IN
          /\ stamp[t] # NoStamp /\ stamp'[t] = NoStamp
          /\ promise[p] # NoPromise /\ stamp[t] >= promise[p]
          => admitted'[p] = admitted[p] + 1]_vars
=============================================================================
