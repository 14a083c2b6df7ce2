---------------------------- MODULE SaltPipeline ----------------------------
(***************************************************************************)
(* SaltV2::reconcile (tritium-salt): a process takes the lock of a work    *)
(* item, loads or creates its state, and drives one stage after the other, *)
(* persisting the state before and after each.  Processes are killed,      *)
(* writes fail and power is lost at any point; operators run reconcile     *)
(* again until it reports success or a terminal failure.                   *)
(*                                                                         *)
(* The driver (the backend of a stage) is external.  An output is an       *)
(* identity (0 stands for a malformed identity, artifact path, metric or   *)
(* usage), whether its fields, artifact and ledger pass their checks, and  *)
(* the package and verdict it is evidence of.  Artifacts of accepted       *)
(* stages are taken to stay on disk unchanged.                             *)
(***************************************************************************)
EXTENDS ConversionRun, DurableDir

CONSTANTS
    Procs,        \* processes that run reconcile
    Nobody,       \* the lock is free
    Packages,     \* identities of packed models
    MaxFaults,    \* bound on crashes, I/O errors and power losses
    MaxFailures   \* bound on the retryable failures of the driver

ASSUME SaltAssumption ==
    /\ Nobody \notin Procs
    /\ Packages \subseteq Nat \ {0} /\ 1 \in Packages
    /\ MaxFaults \in Nat /\ MaxFailures \in Nat

VARIABLES
    dir,          \* the work directory
    lock,         \* the process holding the work lock, or Nobody
    pc,           \* where process p is, and where it goes once its state is persisted
    mem,          \* mem[p] = the state of p's pipeline object
    acked,        \* the receipts of the last run state a persist returned Ok for
    driven,       \* the stage attempts the driver was asked for, in order
    faults,       \* number of faults so far
    failures      \* number of retryable driver failures so far

vars == <<dir, lock, pc, mem, acked, driven, faults, failures>>

At(place) == [at |-> place, then |-> "none"]
Persist(then) == [at |-> "rename", then |-> then]

NoState == [run |-> NewRun, stages |-> << >>, failures |-> << >>,
            physical |-> 0, quality |-> [package |-> 0, passed |-> FALSE], published |-> 0,
            exists |-> FALSE]

NewState == [NoState EXCEPT !.exists = TRUE]

Init ==
    /\ dir = Settled([f \in {"state"} |-> NoState])
    /\ lock = Nobody
    /\ pc = [p \in Procs |-> At("out")]
    /\ mem = [p \in Procs |-> NoState]
    /\ acked = << >>
    /\ driven = << >>
    /\ faults = 0
    /\ failures = 0

Stored == dir.live["state"]

----------------------------------------------------------------------------
(***************************************************************************)
(* What the driver may return for a stage.                                 *)
(***************************************************************************)
Output(id, sound, package, passed) ==
    [id |-> id, sound |-> sound, package |-> package, passed |-> passed]

\* The packages and the verdicts that an output of a stage may claim.
Claims(stage) == IF stage \in {"pack", "validate", "publish"} THEN Packages ELSE {1}
Verdicts(stage) == IF stage = "validate" THEN BOOLEAN ELSE {TRUE}

Outputs(stage) ==
    {Output(id, FALSE, 1, FALSE) : id \in {0, 1}} \cup
    {Output(IF stage = "pack" THEN k ELSE 1, TRUE, k, b) :
        k \in Claims(stage), b \in Verdicts(stage)}

Accepted(s, stage) == {r \in {s.stages[i] : i \in DOMAIN s.stages} : r.accepted /\ r.stage = stage}

\* The identity of the accepted pack; 0 without one.
Packed(s) == IF Accepted(s, "pack") = {} THEN 0 ELSE (CHOOSE r \in Accepted(s, "pack") : TRUE).id

\* Mutant of validate_output: any package's evidence will do.
AnyEvidence(s, stage, o) == o.sound

validate_output(s, stage, o) ==
    /\ o.sound
    /\ stage = "validate" => o.package = Packed(s)
    /\ stage = "publish" =>
          o.package = Packed(s) /\ s.quality.passed /\ s.quality.package = Packed(s)

\* record_output, with the disposition of the output.
Recorded(s, o, disposition) ==
    LET stage == s.run.current
        accepted == disposition = "accepted"
    IN
    [s EXCEPT
        !.stages = Append(@, [stage |-> stage, attempt |-> s.run.attempts, id |-> o.id,
                              accepted |-> accepted]),
        !.physical = IF accepted /\ stage = "pack" THEN o.package ELSE @,
        !.quality = IF disposition # "contract" /\ stage = "validate"
                      THEN [package |-> o.package, passed |-> o.passed] ELSE @,
        !.published = IF accepted /\ stage = "publish" THEN o.package ELSE @]

\* record_failure.
FailureRecorded(s, code, retryable) ==
    [s EXCEPT !.failures = Append(@, [stage |-> s.run.current, attempt |-> s.run.attempts,
                                      code |-> code, retryable |-> retryable])]

----------------------------------------------------------------------------
(***************************************************************************)
(* validate_loaded_state: what load_locked demands of a stored state.      *)
(***************************************************************************)
Position(stage) == CHOOSE i \in 1..Len(Stages) : Stages[i] = stage

\* The record of a rejected output, after those of the accepted ones.
HasRejected(s) == Len(s.stages) = Len(s.run.receipts) + 1

StageRecordsLoad(s) ==
    LET n == Len(s.run.receipts) IN
    /\ Len(s.stages) \in {n, n + 1}
    /\ \A i \in DOMAIN s.stages : s.stages[i].attempt > 0 /\ s.stages[i].id # 0
    /\ \A i \in 1..n :
          /\ s.stages[i].accepted
          /\ s.stages[i].stage = s.run.receipts[i].stage
          /\ s.stages[i].attempt = s.run.receipts[i].attempts
          /\ s.stages[i].id = s.run.receipts[i].output
    /\ HasRejected(s) =>
          LET rejected == s.stages[n + 1] IN
          /\ ~rejected.accepted
          /\ s.run.status = "terminal"
          /\ rejected.stage = s.run.current
          /\ rejected.attempt = s.run.attempts
          /\ s.run.failure.code \in {"quality", "contract"}

\* The failures of a stage are its attempts 1..count: the first is of attempt 1,
\* each other of the attempt after that of the one before it, the last of attempt count.
FailureSequence(s, stage, count) ==
    LET of == {i \in DOMAIN s.failures : s.failures[i].stage = stage} IN
    /\ of = {} <=> count = 0
    /\ \A i \in of :
          /\ (\A j \in of : i <= j) => s.failures[i].attempt = 1
          /\ (\A j \in of : j <= i) => s.failures[i].attempt = count
          /\ \A j \in of : i < j /\ (\A k \in of : k <= i \/ j <= k) =>
                s.failures[j].attempt = s.failures[i].attempt + 1

FailuresLoad(s) ==
    LET active == s.run.status \in {"retryable", "terminal"} /\ ~HasRejected(s)
        last == s.failures[Len(s.failures)]
    IN
    /\ \A i \in 1..(Len(s.failures) - 1) :
          LET f == s.failures[i]  g == s.failures[i + 1] IN
          \/ Position(f.stage) < Position(g.stage)
          \/ f.stage = g.stage /\ f.attempt < g.attempt
    /\ \A i \in DOMAIN s.failures :
          LET f == s.failures[i]
              isActive == active /\ f.stage = s.run.current /\ f.attempt = s.run.attempts
          IN
          /\ IF Accepted(s, f.stage) # {}
               THEN f.retryable /\ \A r \in Accepted(s, f.stage) : f.attempt < r.attempt
               ELSE /\ f.stage = s.run.current
                    /\ f.attempt <= s.run.attempts
                    /\ f.attempt = s.run.attempts => isActive
                    /\ ~isActive => f.retryable
          /\ isActive => i = Len(s.failures)
    /\ active =>
          /\ s.failures # << >>
          /\ last = [stage |-> s.run.current, attempt |-> s.run.attempts,
                     code |-> s.run.failure.code, retryable |-> s.run.failure.retryable]
    /\ \A i \in DOMAIN s.stages :
          s.stages[i].accepted => FailureSequence(s, s.stages[i].stage, s.stages[i].attempt - 1)
    /\ s.run.current # NoStage =>
          FailureSequence(s, s.run.current,
             IF active \/ s.run.attempts = 0 THEN s.run.attempts ELSE s.run.attempts - 1)

EvidenceLoads(s) ==
    LET qualityRejected == HasRejected(s) /\ s.run.current = "validate"
                              /\ s.run.failure.code = "quality"
        validated == Accepted(s, "validate") # {}
    IN
    /\ s.physical = Packed(s)
    /\ s.quality.package = (IF validated \/ qualityRejected THEN Packed(s) ELSE 0)
    /\ s.quality.passed = validated
    /\ (s.published # 0) <=> (Accepted(s, "publish") # {})
    /\ s.published # 0 =>
          s.published = Packed(s) /\ s.quality.passed /\ s.run.status = "succeeded"
    /\ s.run.status = "succeeded" => s.published # 0

validate_loaded_state(s) ==
    ValidRun(s.run) /\ StageRecordsLoad(s) /\ FailuresLoad(s) /\ EvidenceLoads(s)

----------------------------------------------------------------------------
(***************************************************************************)
(* reconcile.                                                              *)
(***************************************************************************)

\* Mutant of Drop: the lock outlives the pipeline object.
DropLocked(p) ==
    /\ pc' = [pc EXCEPT ![p] = At("out")]
    /\ mem' = [mem EXCEPT ![p] = NoState]
    /\ UNCHANGED lock

\* The pipeline object is dropped and its lock released.
Drop(p) ==
    /\ pc' = [pc EXCEPT ![p] = At("out")]
    /\ mem' = [mem EXCEPT ![p] = NoState]
    /\ lock' = Nobody

LockFree == lock = Nobody

\* Mutant of Recovered: the interrupted attempt leaves no failure receipt.
RecoveredSilently(s) ==
    IF s.run.status = "running" THEN [s EXCEPT !.run = recover_interrupted(s.run)] ELSE s

\* load_locked turns a running attempt into a retryable failure of it.
Recovered(s) ==
    IF s.run.status = "running"
      THEN [FailureRecorded(s, "interrupted", TRUE) EXCEPT !.run = recover_interrupted(s.run)]
      ELSE s

\* SaltPipeline::start, under the lock; a state that does not load is refused.
Start(p) ==
    /\ pc[p].at = "out"
    /\ LockFree
    /\ \/ /\ ~Stored.exists
          /\ lock' = p
          /\ mem' = [mem EXCEPT ![p] = NewState]
          /\ pc' = [pc EXCEPT ![p] = Persist("ready")]
       \/ /\ Stored.exists
          /\ validate_loaded_state(Stored)
          /\ lock' = p
          /\ mem' = [mem EXCEPT ![p] = Recovered(Stored)]
          /\ pc' = [pc EXCEPT ![p] =
                IF Stored.run.status = "running" THEN Persist("ready") ELSE At("ready")]
    /\ UNCHANGED <<dir, acked, driven, faults, failures>>

\* Mutant of ClaimThen: the claim is persisted together with the result.
ClaimUnpersisted == At("drive")

\* A claimed attempt is durable before the driver sees it.
ClaimThen == Persist("drive")

\* advance: success and terminal failure return; otherwise the stage is claimed.
Advance(p) ==
    /\ pc[p].at = "ready"
    /\ \/ /\ MayBegin(mem[p].run)
          /\ mem' = [mem EXCEPT ![p].run = begin_stage(@)]
          /\ pc' = [pc EXCEPT ![p] = ClaimThen]
          /\ UNCHANGED lock
       \/ /\ ~MayBegin(mem[p].run)
          /\ Drop(p)
    /\ UNCHANGED <<dir, acked, driven, faults, failures>>

Failed(s, code, retryable) == [s EXCEPT !.run = fail_stage(s.run, code, retryable)]

\* The driver fails, or returns an output that advance classifies.
Drive(p) ==
    LET s == mem[p]
        stage == s.run.current
        Becomes(new, then) ==
            /\ mem' = [mem EXCEPT ![p] = new]
            /\ pc' = [pc EXCEPT ![p] = Persist(then)]
    IN
    /\ pc[p].at = "drive"
    /\ driven' = Append(driven, [stage |-> stage, attempt |-> s.run.attempts])
    /\ \/ \E retryable \in BOOLEAN :
             /\ retryable => failures < MaxFailures
             /\ failures' = IF retryable THEN failures + 1 ELSE failures
             /\ Becomes(Failed(FailureRecorded(s, "driver", retryable), "driver", retryable), "drop")
       \/ \E o \in Outputs(stage) :
             /\ IF ~validate_output(s, stage, o)
                  THEN Becomes(Failed(Recorded(s, o, "contract"), "contract", FALSE), "drop")
                ELSE IF stage = "validate" /\ ~o.passed
                  THEN Becomes(Failed(Recorded(s, o, "quality"), "quality", FALSE), "drop")
                ELSE Becomes([Recorded(s, o, "accepted") EXCEPT
                                 !.run = complete_stage(s.run, o.id)], "ready")
             /\ UNCHANGED failures
    /\ UNCHANGED <<dir, lock, acked, faults>>

\* persist: to_bytes validates the run, and the state file is replaced.
RenameState(p) ==
    /\ pc[p].at = "rename"
    /\ ValidRun(mem[p].run)
    /\ dir' = Rename(dir, "state", mem[p])
    /\ pc' = [pc EXCEPT ![p].at = "sync"]
    /\ UNCHANGED <<lock, mem, acked, driven, faults, failures>>

\* The directory fsync ends persist.
SyncState(p) ==
    /\ pc[p].at = "sync"
    /\ dir' = Synced(dir)
    /\ acked' = mem[p].run.receipts
    /\ \/ /\ pc[p].then # "drop"
          /\ pc' = [pc EXCEPT ![p] = At(pc[p].then)]
          /\ UNCHANGED <<lock, mem>>
       \/ /\ pc[p].then = "drop"
          /\ Drop(p)
    /\ UNCHANGED <<driven, faults, failures>>

(***************************************************************************)
(* A process is killed, or a write, a rename, an fsync or record_output's  *)
(* sum of GPU seconds fails and reconcile returns the error: either way    *)
(* the pipeline object is gone.                                            *)
(***************************************************************************)
Dies(p) ==
    /\ pc[p].at # "out"
    /\ faults < MaxFaults
    /\ faults' = faults + 1
    /\ Drop(p)
    /\ UNCHANGED <<dir, acked, driven, failures>>

PowerLoss ==
    /\ faults < MaxFaults
    /\ faults' = faults + 1
    /\ dir' \in Outcomes(dir)
    /\ lock' = Nobody
    /\ pc' = [p \in Procs |-> At("out")]
    /\ mem' = [p \in Procs |-> NoState]
    /\ UNCHANGED <<acked, driven, failures>>

ProcStep(p) == Start(p) \/ Advance(p) \/ Drive(p) \/ RenameState(p) \/ SyncState(p)

Next ==
    \/ \E p \in Procs : ProcStep(p) \/ Dies(p)
    \/ PowerLoss

Spec == Init /\ [][Next]_vars /\ \A p \in Procs : WF_vars(ProcStep(p))

----------------------------------------------------------------------------

Images == {image["state"] : image \in dir.crash \cup {dir.live}}

(***************************************************************************)
(* The variables have their types; in particular the run state a process   *)
(* is about to write is one that to_bytes accepts.                         *)
(***************************************************************************)
TypeOK ==
    /\ lock \in Procs \cup {Nobody}
    /\ \A p \in Procs :
          /\ pc[p].at \in {"out", "ready", "drive", "rename", "sync"}
          /\ pc[p].then \in {"none", "ready", "drive", "drop"}
          /\ pc[p].at # "out" => lock = p /\ ValidRun(mem[p].run)
    /\ faults \in 0..MaxFaults /\ failures \in 0..MaxFailures

(***************************************************************************)
(* The pipeline never locks itself out: every state file that reconcile    *)
(* wrote and that may survive passes validate_loaded_state, but for the    *)
(* record of an output whose own identity was malformed.                   *)
(***************************************************************************)
CheckpointLoads ==
    \A s \in Images : s.exists =>
        validate_loaded_state(s) \/ \E i \in DOMAIN s.stages : s.stages[i].id = 0

(***************************************************************************)
(* A stage whose completion was persisted stays completed, with the same   *)
(* output, whatever is killed and whenever power is lost.                  *)
(***************************************************************************)
AckedKept ==
    \A s \in Images :
        /\ Len(acked) <= Len(s.run.receipts)
        /\ \A i \in DOMAIN acked : acked[i] = s.run.receipts[i]

(***************************************************************************)
(* The driver is never asked for the same attempt twice, nor for a stage   *)
(* before an earlier one or after its own completion: stage and attempt    *)
(* only ever grow, across crashes and restarts.                            *)
(***************************************************************************)
AttemptsGrow ==
    \A i \in 1..(Len(driven) - 1) :
        \/ Position(driven[i].stage) < Position(driven[i + 1].stage)
        \/ /\ driven[i].stage = driven[i + 1].stage
           /\ driven[i].attempt < driven[i + 1].attempt

(***************************************************************************)
(* Publication is authorized: once the publish stage was driven, every     *)
(* state that may survive holds an accepted pack and a passed quality      *)
(* verdict on that very package; and what is published is that package.    *)
(***************************************************************************)
PublishAuthorized ==
    \A s \in Images :
        /\ (\E i \in DOMAIN driven : driven[i].stage = "publish") =>
              Packed(s) # 0 /\ s.quality = [package |-> Packed(s), passed |-> TRUE]
        /\ s.published \in {0, Packed(s)}

(***************************************************************************)
(* A settled outcome stays: once every state that may survive reports      *)
(* success or a terminal failure, no process changes it.                   *)
(***************************************************************************)
Settles ==
    [][(\A s \in Images : s.run.status \in {"succeeded", "terminal"}) => Stored' = Stored]_vars

(***************************************************************************)
(* Work that is taken up again and again ends: the state on disk comes to  *)
(* report success or a terminal failure for good.                          *)
(***************************************************************************)
Ends == <>[](Stored.run.status \in {"succeeded", "terminal"})

=============================================================================
