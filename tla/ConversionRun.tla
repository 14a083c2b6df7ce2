--------------------------- MODULE ConversionRun ----------------------------
(***************************************************************************)
(* The control state of one conversion recipe (tritium-quantize,           *)
(* conversion.rs): the current stage, its attempts, the receipts of the    *)
(* completed stages and the failure of the current one.                    *)
(***************************************************************************)
EXTENDS Naturals, Sequences

Stages ==
    <<"ingest", "calibrate", "profile", "search", "refine", "pack", "validate", "publish">>

NoStage == "none"
NoFailure == [stage |-> NoStage, code |-> "none", retryable |-> FALSE]

\* The stage after i completed ones.
StageAfter(i) == IF i < Len(Stages) THEN Stages[i + 1] ELSE NoStage

NewRun ==
    [status |-> "ready", current |-> Stages[1], attempts |-> 0, receipts |-> << >>,
     failure |-> NoFailure]

\* Mutant of MayBegin: a terminal failure may be claimed again.
MayBeginAgain(run) == run.status \in {"ready", "retryable", "terminal"}

MayBegin(run) == run.status \in {"ready", "retryable"}

begin_stage(run) ==
    [run EXCEPT !.status = "running", !.attempts = @ + 1, !.failure = NoFailure]

complete_stage(run, output) ==
    LET next == StageAfter(Len(run.receipts) + 1) IN
    [status |-> IF next = NoStage THEN "succeeded" ELSE "ready",
     current |-> next,
     attempts |-> 0,
     receipts |-> Append(run.receipts,
                    [stage |-> run.current, attempts |-> run.attempts, output |-> output]),
     failure |-> NoFailure]

fail_stage(run, code, retryable) ==
    [run EXCEPT !.status = IF retryable THEN "retryable" ELSE "terminal",
                !.failure = [stage |-> run.current, code |-> code, retryable |-> retryable]]

recover_interrupted(run) == fail_stage(run, "interrupted", TRUE)

\* ConversionRun::validate, run before a state is written and after it is read.
ValidRun(run) ==
    LET n == Len(run.receipts) IN
    /\ n <= Len(Stages)
    /\ \A i \in 1..n : run.receipts[i].stage = Stages[i] /\ run.receipts[i].attempts > 0
    /\ run.status # "succeeded" => n < Len(Stages) /\ run.current = Stages[n + 1]
    /\ run.status = "ready" => run.attempts = 0 /\ run.failure = NoFailure
    /\ run.status = "running" => run.attempts > 0 /\ run.failure = NoFailure
    /\ run.status \in {"retryable", "terminal"} =>
          /\ run.attempts > 0
          /\ run.failure.stage = run.current
          /\ run.failure.retryable = (run.status = "retryable")
    /\ run.status = "succeeded" =>
          n = Len(Stages) /\ run.current = NoStage /\ run.attempts = 0
             /\ run.failure = NoFailure

=============================================================================
