------------------------------ MODULE Campaign ------------------------------
(***************************************************************************)
(* `tritium campaign run` (tritium-cli, campaign.rs): a training campaign  *)
(* that is killed, loses power and is launched again until its terminal    *)
(* report is published.  What survives is on disk, in three directories:   *)
(* the checkpoint directory (the DCP manifest and shards of Dcp, the plan  *)
(* sidecar and the evaluation progress files), the report's and the        *)
(* artifact's.                                                             *)
(*                                                                         *)
(* A process below is the one that owns the campaign locks: the only       *)
(* process of a single-device world, rank 0 of a distributed one.  Every   *)
(* launch uses the same configuration.                                     *)
(***************************************************************************)
EXTENDS Dcp, Integers, FiniteSets

CONSTANTS
    Nobody,       \* the locks are free
    NoFile,       \* the file does not exist
    Every,        \* checkpoint_every
    Warmup,       \* timing_warmup_steps
    Windows,      \* windows of the held-out evaluation corpus
    MaxFaults     \* bound on crashes, failed fsyncs and power losses

ASSUME CampaignAssumption ==
    /\ Every \in Nat \ {0} /\ Warmup \in Nat /\ Windows \in Nat \ {0}
    /\ MaxFaults \in Nat
    /\ Nobody \notin Savers

VARIABLES
    side,         \* the other files of the checkpoint directory
    evidence,     \* the report's directory
    product,      \* the artifact's directory
    lock,         \* the process holding the campaign locks, or Nobody
    pc,           \* pc[p] = where process p is in run_campaign; "out" if it is not running
    run,          \* run[p] = the identity of p's run
    model,        \* model[p] = the trainer's state
    log,          \* log[p] = the step timings and memory segments of the report to come
    runs,         \* number of launches
    faults,       \* number of faults so far
    refused,      \* why the last refused run refused its own files
    seen,         \* the largest checkpoint step a run resumed from
    rolledBack    \* a power loss undid a manifest some run had resumed from

locals == <<run, model, log>>
history == <<runs, faults, refused, seen, rolledBack>>
campaignVars == <<side, evidence, product, lock, pc, locals, history>>
vars == <<ckpt, save, acked, campaignVars>>

Kinds == {"source", "ptq", "artifact"}

EmptyLog == [timings |-> << >>, segs |-> << >>, seg |-> [from |-> 0, to |-> 0, setup |-> FALSE]]

Init ==
    /\ DcpInit
    /\ side = Settled([f \in Kinds \cup {"plan"} |-> NoFile])
    /\ evidence = Settled([f \in {"report"} |-> NoFile])
    /\ product = Settled([f \in {"gguf"} |-> Absent])
    /\ lock = Nobody
    /\ pc = [p \in Savers |-> "out"]
    /\ run = [p \in Savers |-> 0]
    /\ model = [p \in Savers |-> Absent]
    /\ log = [p \in Savers |-> EmptyLog]
    /\ runs = 0
    /\ faults = 0
    /\ refused = "no"
    /\ seen = 0
    /\ rolledBack = FALSE

Report == evidence.live["report"]
Artifact == product.live["gguf"]

Goto(p, place) == pc' = [pc EXCEPT ![p] = place]

\* Mutant of Exit: the locks outlive the process that took them.
ExitLocked(p) ==
    /\ Goto(p, "out")
    /\ run' = [run EXCEPT ![p] = 0]
    /\ model' = [model EXCEPT ![p] = Absent]
    /\ log' = [log EXCEPT ![p] = EmptyLog]
    /\ UNCHANGED lock

\* The process ends; its lock files close.
Exit(p) ==
    /\ Goto(p, "out")
    /\ run' = [run EXCEPT ![p] = 0]
    /\ model' = [model EXCEPT ![p] = Absent]
    /\ log' = [log EXCEPT ![p] = EmptyLog]
    /\ lock' = Nobody

----------------------------------------------------------------------------
(***************************************************************************)
(* Launch.  CampaignLocks::acquire takes the lock files of the checkpoint  *)
(* directory, the report and the artifact in sorted order with try_lock:   *)
(* launches of one configuration meet at the first of them, and the ones   *)
(* that find it held exit without touching anything (no step here).        *)
(***************************************************************************)

\* Mutant of LocksFree: the locks are not exclusive.
LocksIgnored == TRUE

LocksFree == lock = Nobody

Launch(p) ==
    /\ pc[p] = "out"
    /\ LocksFree
    /\ runs + 1 \in Runs
    /\ lock' = p
    /\ runs' = runs + 1
    /\ run' = [run EXCEPT ![p] = runs + 1]
    /\ Goto(p, "source")
    /\ UNCHANGED <<dcpVars, side, evidence, product, model, log, faults, refused, seen, rolledBack>>

(***************************************************************************)
(* resumable_teacher_forced_score: the progress file of an evaluation      *)
(* names the model it scores and the windows done; a run continues after   *)
(* the last recorded window, publishing the file after every window, and   *)
(* refuses a file that names another model.                                *)
(***************************************************************************)
Done(kind) == IF side.live[kind] = NoFile THEN 0 ELSE side.live[kind].done

SameModel(kind, m) == side.live[kind] # NoFile => side.live[kind].model = m

\* Where each evaluation is run, the file it keeps, and what follows it.  The
\* campaign does not widen the model (new_width = old_width), so there is no
\* evaluation of the grown model.
Scoring ==
    [source |-> [file |-> "source",   sync |-> "sourceSync", next |-> "plan"],
     ptq    |-> [file |-> "ptq",      sync |-> "ptqSync",    next |-> "resume"],
     eval   |-> [file |-> "artifact", sync |-> "evalSync",   next |-> "final"]]

\* The source and the initial student are the same in every run; the
\* artifact is identified by the trained state it was exported from.
Model(p) == IF pc[p] = "eval" THEN model[p] ELSE Absent

ScoreWindow(p) ==
    /\ pc[p] \in DOMAIN Scoring
    /\ LET at == Scoring[pc[p]] IN
          /\ SameModel(at.file, Model(p))
          /\ Done(at.file) < Windows
          /\ side' = Rename(side, at.file, [model |-> Model(p), done |-> Done(at.file) + 1])
          /\ Goto(p, at.sync)
    /\ UNCHANGED <<dcpVars, evidence, product, lock, locals, history>>

ScoreDone(p) ==
    /\ pc[p] \in DOMAIN Scoring
    /\ LET at == Scoring[pc[p]] IN
          /\ SameModel(at.file, Model(p))
          /\ Done(at.file) = Windows
          /\ Goto(p, at.next)
    /\ UNCHANGED <<dcpVars, side, evidence, product, lock, locals, history>>

(***************************************************************************)
(* ensure_plan_sidecar.  The one configuration has one plan.               *)
(***************************************************************************)
PlanExists == side.live["plan"] # NoFile

\* Mutant of PlanAccepted: a plan left by an earlier run is refused.
PlanNeverAccepted == FALSE

PlanAccepted == PlanExists

EnsurePlan(p) ==
    /\ pc[p] = "plan"
    /\ \/ PlanAccepted /\ Goto(p, "ptq") /\ UNCHANGED side
       \/ /\ ~PlanExists
          /\ Committed(ckpt.live) = 0
          /\ side' = Rename(side, "plan", "plan")
          /\ Goto(p, "planSync")
    /\ UNCHANGED <<dcpVars, evidence, product, lock, locals, history>>

----------------------------------------------------------------------------
(***************************************************************************)
(* Resume: load_checkpoint, then load_existing_report.  A report holds the *)
(* timings of the steps (`by` is the run that measured one), the memory    *)
(* segments (the steps one run trained, and whether it sampled its set-up) *)
(* and, at the end, the artifact it evaluated.                             *)
(***************************************************************************)

\* validate_report_timing_coverage: exactly the steps 1..completed, in order.
TimingsCover(rep) ==
    /\ Len(rep.timings) = rep.completed
    /\ \A i \in DOMAIN rep.timings : rep.timings[i].step = i

\* validate_cuda_memory_segments: the segments chain from step 0 to the
\* completed step, and the warm-up marks follow from them.
SegmentsCover(rep) ==
    LET segs == rep.segs IN
    /\ segs # << >>
    /\ \A i \in DOMAIN segs :
          /\ segs[i].from = IF i = 1 THEN 0 ELSE segs[i - 1].to
          /\ segs[i].from <= segs[i].to
          /\ segs[i].to <= rep.completed
          /\ segs[i].from < segs[i].to => segs[i].setup
    /\ segs[Len(segs)].to = rep.completed
    /\ \A t \in {rep.timings[i] : i \in DOMAIN rep.timings} :
          \E i \in DOMAIN segs :
             /\ segs[i].from < t.step /\ t.step <= segs[i].to
             /\ t.warmup <=> t.step - segs[i].from <= Warmup

\* The memory figures of the report (validate_report_memory) are left out.
Valid(rep) ==
    /\ rep.completed <= LastStep
    /\ rep.resumed <= rep.completed
    /\ TimingsCover(rep)
    /\ SegmentsCover(rep)
    /\ rep.terminal # Absent => rep.completed = LastStep

\* The evidence that ran ahead of the manifest is dropped.
Truncated(rep, step) ==
    LET kept == SelectSeq(rep.segs, LAMBDA g : g.from <= step) IN
    IF rep.completed = step
      THEN rep
      ELSE [rep EXCEPT !.timings = SelectSeq(@, LAMBDA t : t.step <= step),
                       !.segs = [kept EXCEPT ![Len(kept)].to = step],
                       !.completed = step,
                       !.terminal = Absent]

\* Why a run that finds this manifest and this report refuses to resume.
Objection(image, rep) ==
    LET step == Committed(image) IN
    IF step > 0 /\ ~Loadable(image) THEN "checkpoint"
    ELSE IF rep = NoFile THEN (IF step > 0 THEN "missing" ELSE "no")
    ELSE IF ~Valid(rep) THEN "invalid"
    ELSE IF rep.completed < step THEN "gap"
    ELSE "no"

Resume(p) ==
    LET step  == Committed(ckpt.live)
        prior == IF Report = NoFile THEN [timings |-> << >>, segs |-> << >>]
                                    ELSE Truncated(Report, step)
    IN
    /\ pc[p] = "resume"
    /\ Objection(ckpt.live, Report) = "no"
    /\ Goto(p, IF step = LastStep THEN "artifact" ELSE "train")
    /\ model' = [model EXCEPT ![p] = IF step = 0 THEN Absent ELSE Delivered(ckpt.live)[1]]
    /\ log' = [log EXCEPT ![p] =
         [timings |-> prior.timings, segs |-> prior.segs,
          seg |-> [from |-> step, to |-> step, setup |-> step < LastStep]]]
    /\ seen' = IF step > seen THEN step ELSE seen
    /\ UNCHANGED <<dcpVars, side, evidence, product, lock, run, runs, faults, refused, rolledBack>>

----------------------------------------------------------------------------
(***************************************************************************)
(* The training loop: one optimizer step and its timing.                   *)
(***************************************************************************)

AtCheckpoint(step) == step % Every = 0 \/ step = LastStep

Train(p) ==
    LET step == Len(model[p]) + 1 IN
    /\ pc[p] = "train"
    /\ Goto(p, IF AtCheckpoint(step) THEN "report" ELSE "train")
    /\ model' = [model EXCEPT ![p] = Append(@, run[p])]
    /\ log' = [log EXCEPT ![p].seg.to = step,
                          ![p].timings = Append(@, [step |-> step, by |-> run[p],
                                warmup |-> step - (log[p].seg.from + 1) < Warmup])]
    /\ UNCHANGED <<dcpVars, side, evidence, product, lock, run, history>>

\* build_campaign_report.
Built(p, terminal) ==
    [completed |-> Len(model[p]), resumed |-> log[p].seg.from, timings |-> log[p].timings,
     segs |-> Append(log[p].segs, log[p].seg), terminal |-> terminal]

\* Mutant of PublishReport: the report is renamed, and the save begins at once.
PublishUnsynced(p) ==
    /\ pc[p] = "report"
    /\ evidence' = Rename(evidence, "report", Built(p, Absent))
    /\ Goto(p, "save")
    /\ UNCHANGED <<dcpVars, side, product, lock, locals, history>>

\* The evidence is published before the manifest.
PublishReport(p) ==
    /\ pc[p] = "report"
    /\ evidence' = Rename(evidence, "report", Built(p, Absent))
    /\ Goto(p, "reportSync")
    /\ UNCHANGED <<dcpVars, side, product, lock, locals, history>>

(***************************************************************************)
(* save_checkpoint, by the steps of Dcp.  A directory fsync covers every   *)
(* file of the directory.                                                  *)
(***************************************************************************)
BeginSave(p) ==
    /\ pc[p] = "save"
    /\ SaveFrom(p, model[p])
    /\ Goto(p, "saving")
    /\ UNCHANGED <<side, evidence, product, lock, locals, history>>

SaveFile(p) ==
    /\ pc[p] = "saving"
    /\ RenameShard(p) \/ RenameManifest(p)
    /\ UNCHANGED campaignVars

SaveSync(p) ==
    /\ pc[p] = "saving"
    /\ side' = Synced(side)
    /\ \/ SyncShard(p) /\ UNCHANGED pc
       \/ SyncManifest(p) /\ Goto(p, IF Len(model[p]) = LastStep THEN "artifact" ELSE "train")
    /\ UNCHANGED <<evidence, product, lock, locals, history>>

(***************************************************************************)
(* prepare_terminal_artifact: an existing artifact is compared with a      *)
(* rebuild from the loaded state; otherwise one is exported, published     *)
(* with a hard link that replaces nothing.                                 *)
(***************************************************************************)

\* Mutant of ArtifactMatches: an existing artifact is taken as it is.
ArtifactTrusted(p) == Artifact # Absent

ArtifactMatches(p) == Artifact = model[p]

PrepareArtifact(p) ==
    /\ pc[p] = "artifact"
    /\ \/ /\ Artifact = Absent
          /\ product' = Rename(product, "gguf", model[p])
          /\ Goto(p, "artifactSync")
       \/ /\ Artifact # Absent
          /\ ArtifactMatches(p)
          /\ Goto(p, "eval")
          /\ UNCHANGED product
    /\ UNCHANGED <<dcpVars, side, evidence, lock, locals, history>>

(***************************************************************************)
(* Where run_campaign bails out because of what it found on disk, and why. *)
(***************************************************************************)
Cause(p) ==
    LET at == pc[p] IN
    CASE at \in DOMAIN Scoring /\ ~SameModel(Scoring[at].file, Model(p)) -> "progress"
      [] at = "plan" /\ ~PlanAccepted /\ (PlanExists \/ Committed(ckpt.live) > 0) -> "plan"
      [] at = "resume" -> Objection(ckpt.live, Report)
      [] at = "save" /\ ~MayAdvance(model[p]) -> "nonmonotonic"
      [] at = "artifact" /\ Artifact # Absent /\ ~ArtifactMatches(p) -> "artifact"
      [] OTHER -> "no"

Refuse(p) ==
    /\ Cause(p) # "no"
    /\ refused' = Cause(p)
    /\ Exit(p)
    /\ UNCHANGED <<dcpVars, side, evidence, product, runs, faults, seen, rolledBack>>

\* The terminal report.
PublishFinal(p) ==
    /\ pc[p] = "final"
    /\ evidence' = Rename(evidence, "report", Built(p, model[p]))
    /\ Goto(p, "finalSync")
    /\ UNCHANGED <<dcpVars, side, product, lock, locals, history>>

(***************************************************************************)
(* The directory fsync that ends an atomic_write, and what follows it.     *)
(***************************************************************************)
AfterSync ==
    [sourceSync |-> "source", planSync |-> "ptq", ptqSync |-> "ptq", evalSync |-> "eval",
     reportSync |-> "save", artifactSync |-> "eval"]

SyncSide(p) ==
    /\ pc[p] \in {"sourceSync", "planSync", "ptqSync", "evalSync"}
    /\ side' = Synced(side)
    /\ SiblingSync
    /\ Goto(p, AfterSync[pc[p]])
    /\ UNCHANGED <<evidence, product, lock, locals, history>>

SyncReport(p) ==
    /\ pc[p] = "reportSync"
    /\ evidence' = Synced(evidence)
    /\ Goto(p, AfterSync[pc[p]])
    /\ UNCHANGED <<dcpVars, side, product, lock, locals, history>>

SyncArtifact(p) ==
    /\ pc[p] = "artifactSync"
    /\ product' = Synced(product)
    /\ Goto(p, AfterSync[pc[p]])
    /\ UNCHANGED <<dcpVars, side, evidence, lock, locals, history>>

SyncFinal(p) ==
    /\ pc[p] = "finalSync"
    /\ evidence' = Synced(evidence)
    /\ Exit(p)
    /\ UNCHANGED <<dcpVars, side, product, history>>

----------------------------------------------------------------------------
(***************************************************************************)
(* Faults.  A process is killed, or a write, a rename or a directory fsync *)
(* fails and run_campaign returns the error: the renames already made stay *)
(* in the live directories.                                                *)
(***************************************************************************)
Dies(p) ==
    /\ pc[p] # "out"
    /\ faults < MaxFaults
    /\ faults' = faults + 1
    /\ Exit(p)
    /\ SaveStops(p)
    /\ UNCHANGED <<side, evidence, product, runs, refused, seen, rolledBack>>

PowerLoss ==
    /\ faults < MaxFaults
    /\ faults' = faults + 1
    /\ DcpPowerLoss
    /\ side' \in Outcomes(side)
    /\ evidence' \in Outcomes(evidence)
    /\ product' \in Outcomes(product)
    /\ pc' = [p \in Savers |-> "out"]
    /\ run' = [p \in Savers |-> 0]
    /\ model' = [p \in Savers |-> Absent]
    /\ log' = [p \in Savers |-> EmptyLog]
    /\ lock' = Nobody
    /\ rolledBack' = (rolledBack \/ Committed(ckpt'.live) < seen)
    /\ UNCHANGED <<runs, refused, seen>>

Progress(p) ==
    \/ ScoreWindow(p) \/ ScoreDone(p) \/ EnsurePlan(p) \/ Resume(p) \/ Refuse(p)
    \/ Train(p) \/ PublishReport(p) \/ BeginSave(p) \/ SaveFile(p) \/ SaveSync(p)
    \/ PrepareArtifact(p) \/ PublishFinal(p)
    \/ SyncSide(p) \/ SyncReport(p) \/ SyncArtifact(p) \/ SyncFinal(p)

Next ==
    \/ \E p \in Savers : Launch(p) \/ Progress(p) \/ Dies(p)
    \/ PowerLoss

Spec ==
    /\ Init /\ [][Next]_vars
    /\ \A p \in Savers : WF_vars(Launch(p)) /\ WF_vars(Progress(p))

----------------------------------------------------------------------------

Segment == [from : 0..LastStep, to : 0..LastStep, setup : BOOLEAN]

Logs ==
    [timings : Seq([step : Step, by : Runs, warmup : BOOLEAN]), segs : Seq(Segment), seg : Segment]

Places ==
    {"out", "plan", "resume", "train", "report", "save", "saving", "artifact", "final", "finalSync"}
    \cup DOMAIN Scoring \cup DOMAIN AfterSync

(***************************************************************************)
(* The variables have their types: in particular no run trains past the    *)
(* configured last step, and no segment leaves the range of the steps.     *)
(***************************************************************************)
TypeOK ==
    /\ DOMAIN ckpt.live = Name /\ \A n \in Name : ckpt.live[n] \in State \cup {Absent}
    /\ acked \in State \cup {Absent}
    /\ lock \in Savers \cup {Nobody}
    /\ pc \in [Savers -> Places]
    /\ run \in [Savers -> Runs \cup {0}]
    /\ \A p \in Savers : model[p] \in State \cup {Absent} /\ log[p] \in Logs
    /\ runs \in Nat /\ faults \in 0..MaxFaults /\ rolledBack \in BOOLEAN

(***************************************************************************)
(* Committed training is never redone: the state whose save last returned  *)
(* Ok is a prefix of the state in the manifest, in the live directory and  *)
(* in every directory a power loss may leave.                              *)
(***************************************************************************)
AckedKept ==
    \A image \in ckpt.crash \cup {ckpt.live} :
        /\ Len(acked) <= Committed(image)
        /\ \A i \in 1..Len(acked) : acked[i] = image[Manifest][i]

(***************************************************************************)
(* The evidence covers the checkpoint: whichever manifest and whichever    *)
(* report survive, a resume accepts them together, and the timings of the  *)
(* committed steps were measured by the runs whose work the checkpoint     *)
(* holds ("refusing resume with an evidence gap" is never printed).        *)
(***************************************************************************)
EvidenceCovers ==
    \A image \in ckpt.crash \cup {ckpt.live}, files \in evidence.crash \cup {evidence.live} :
        LET rep == files["report"] IN
        /\ Objection(image, rep) = "no"
        /\ \A s \in 1..Committed(image) : rep.timings[s].by = image[Manifest][s]

(***************************************************************************)
(* A run refuses its own campaign's files only after a power loss undid a  *)
(* manifest that an earlier run had resumed from, and then only because    *)
(* the artifact (or its evaluation) came from the training that was lost.  *)
(***************************************************************************)
RefusedOnlyAfterRollback ==
    refused # "no" => rolledBack /\ refused \in {"artifact", "progress"}

(***************************************************************************)
(* A terminal report is about one training: the timings, the artifact and  *)
(* the artifact's evaluation are those of the state it names.  The artifact *)
(* may be absent: a run that finds it linked but, its writer having been   *)
(* killed, not fsynced, publishes the report without fsyncing it, and a    *)
(* power loss can then take it away.                                       *)
(***************************************************************************)
TerminalEvidence ==
    (Report # NoFile /\ Report.terminal # Absent) =>
        /\ Report.terminal = [s \in Step |-> Report.timings[s].by]
        /\ Artifact \in {Absent, Report.terminal}
        /\ SameModel("artifact", Report.terminal)

(***************************************************************************)
(* A campaign whose launches go on ends: its terminal report is published, *)
(* unless a power loss undid a manifest a run had resumed from.            *)
(***************************************************************************)
Completes == <>((Report # NoFile /\ Report.terminal # Absent) \/ rolledBack)

=============================================================================
