---------------------------- MODULE RequestBudget ---------------------------
(***************************************************************************)
(* The router's in-flight budget in front of the single worker: the        *)
(* middleware that takes a permit for every request, the response body     *)
(* that holds it, and the ways a request ends.  The permit of a request is *)
(* an owned value: the handler's future has it, then the response body,    *)
(* and dropping the owner returns it.                                      *)
(***************************************************************************)
EXTENDS Worker, FiniteSets

CONSTANTS
    Probes,   \* GET requests for health, readiness and metrics
    Cap       \* max_concurrent_requests

ASSUME BudgetAssumption ==
    /\ Jobs \cap Probes = {} /\ NoJob \notin Probes
    /\ Cap \in Nat \ {0}

VARIABLES
    door,      \* "outside", "in", "left" or "turned" away, per request
    permit,    \* the permit a request holds
    ordinary,  \* permits left in the shared budget
    probes     \* permits left in the reserve

budgetVars == <<door, permit, ordinary, probes>>
allVars == <<vars, budgetVars>>

Requests == Jobs \cup Probes

BudgetInit ==
    /\ Init
    /\ door = [r \in Requests |-> "outside"]
    /\ permit = [r \in Requests |-> "none"]
    /\ ordinary = Cap
    /\ probes = 1

TurnAway(r) ==
    /\ door' = [door EXCEPT ![r] = "turned"]
    /\ UNCHANGED <<permit, ordinary, probes>>

Admit(r, which) ==
    /\ door' = [door EXCEPT ![r] = "in"]
    /\ permit' = [permit EXCEPT ![r] = which]

\* The shared budget first; a probe may use the reserve.
TryAcquire(r) ==
    \/ /\ ordinary > 0
       /\ ordinary' = ordinary - 1
       /\ Admit(r, "ordinary")
       /\ UNCHANGED probes
    \/ /\ ordinary = 0 /\ r \in Probes /\ probes > 0
       /\ probes' = probes - 1
       /\ Admit(r, "reserve")
       /\ UNCHANGED ordinary
    \/ /\ ordinary = 0 /\ (r \in Probes => probes = 0)
       /\ TurnAway(r)

\* The middleware: model work is refused while draining or after a fault,
\* everything else is counted.
Enter(r) ==
    /\ door[r] = "outside"
    /\ IF r \in Jobs /\ (draining \/ faulted) THEN TurnAway(r) ELSE TryAcquire(r)
    /\ UNCHANGED vars

\* Dropping the owner of the permit.
Return(r) ==
    /\ door' = [door EXCEPT ![r] = "left"]
    /\ permit' = [permit EXCEPT ![r] = "none"]
    /\ ordinary' = ordinary + (IF permit[r] = "ordinary" THEN 1 ELSE 0)
    /\ probes' = probes + (IF permit[r] = "reserve" THEN 1 ELSE 0)

\* The handler runs inside the middleware.
Handle(j) ==
    /\ door[j] = "in"
    /\ Check(j) \/ Invalid(j) \/ Enqueue(j)
    /\ UNCHANGED budgetVars

\* The receiver goes before the response does: the service timeout drops the
\* handler, the deadline closes a stream, a stop string ends the response.
ReceiverDropped(j) == door[j] = "in" /\ Hangup(j) /\ UNCHANGED budgetVars

\* Mutant of BodyEnd: the permit goes back when the handler returns, though
\* the body of a stream is still to come.
BodyEndAtHeaders(r) ==
    /\ door[r] = "in"
    /\ r \in Jobs => stage[r] \notin {"new", "checked"}
    /\ Return(r)
    /\ UNCHANGED vars

\* Mutant of BodyEnd: a body that ended forgets its permit.
BodyEndLeaks(r) ==
    /\ door[r] = "in"
    /\ r \in Jobs => stage[r] \in {"refused", "ended"} \/ ~open[r]
    /\ door' = [door EXCEPT ![r] = "left"]
    /\ permit' = [permit EXCEPT ![r] = "none"]
    /\ UNCHANGED <<vars, ordinary, probes>>

\* The response body reports its end, or an error, to the connection.
BodyEnd(r) ==
    /\ door[r] = "in"
    /\ r \in Jobs => stage[r] \in {"refused", "ended"} \/ ~open[r]
    /\ Return(r)
    /\ UNCHANGED vars

\* The connection goes away, and with it the handler's future or the body; a
\* handler that has seen the flags enqueues its job without suspending.
Disconnect(r) ==
    /\ door[r] = "in"
    /\ r \in Jobs => stage[r] # "checked"
    /\ Return(r)
    /\ IF r \in Jobs /\ stage[r] \in {"queued", "active"} /\ open[r]
       THEN Hangup(r) ELSE UNCHANGED vars

BudgetNext ==
    \/ WorkerStep /\ UNCHANGED budgetVars
    \/ Drain /\ UNCHANGED budgetVars
    \/ \E r \in Requests : Enter(r) \/ BodyEnd(r) \/ Disconnect(r)
    \/ \E j \in Jobs : Handle(j) \/ ReceiverDropped(j)

\* As in Worker, only the worker thread is sure to run.
BudgetSpec ==
    /\ BudgetInit /\ [][BudgetNext]_allVars
    /\ WF_allVars(WorkerStep /\ UNCHANGED budgetVars)

-----------------------------------------------------------------------------
Holders(k) == {r \in Requests : permit[r] = k}

(* Type invariant of the budget.                                            *)
BudgetTypeOK ==
    /\ door \in [Requests -> {"outside", "in", "left", "turned"}]
    /\ permit \in [Requests -> {"none", "ordinary", "reserve"}]
    /\ ordinary \in 0..Cap
    /\ probes \in 0..1

(* No permit is lost or returned twice, whether a body ends, fails or is    *)
(* dropped; the reserve never serves anything but a probe.                  *)
PermitsConserved ==
    /\ ordinary + Cardinality(Holders("ordinary")) = Cap
    /\ probes + Cardinality(Holders("reserve")) = 1
    /\ Holders("reserve") \subseteq Probes

(* A job whose client is still connected is covered by a permit from its    *)
(* acceptance to its end, streamed or buffered: at most Cap of them.        *)
InFlightCovered ==
    \A j \in Jobs : stage[j] \in {"queued", "active"} /\ open[j] => permit[j] = "ordinary"

(* Generations that use up the budget do not starve probes: one is turned   *)
(* away only while another one holds the reserve.                           *)
ProbesServed ==
    [][\A p \in Probes : door'[p] = "turned" /\ door[p] # "turned" =>
            \E q \in Probes \ {p} : permit[q] = "reserve"]_allVars
=============================================================================
